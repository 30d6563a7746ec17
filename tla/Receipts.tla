------------------------------ MODULE Receipts ------------------------------
(***************************************************************************)
(* Requests on the wire, end to end: the gRPC handlers WriteEntry,           *)
(* IssueReceipt, GetEntry, GetEntryByHash, GetChainTip and VerifyProof        *)
(* (src/grpc/mod.rs) over the service (src/service/mod.rs) over the           *)
(* in-memory repository.  Where LedgerWrite follows the database transaction  *)
(* and takes a request as one value, this module keeps the fields apart:      *)
(* what is optional, what is converted, compared, hashed and echoed.          *)
(*                                                                          *)
(* One process serves all calls.  Its per-chain mutex excludes                *)
(* ChainIntegrityViolation (SoleWriterNeverContends), so the retries and      *)
(* halts of LedgerWrite have no counterpart here.                             *)
(***************************************************************************)
EXTENDS InMemoryRepository

CONSTANTS
    EntryType,   \* entry types, one chain each
    IdempotencyKey,
    Call,        \* in-flight calls
    Endpoint,    \* the method a call uses: "WriteEntry" or "IssueReceipt"
    Offered,     \* the wire requests a call may carry; "" is proto3's default
    Oversized,   \* contents above config.max_content_size_bytes
    Time,        \* readings of Utc::now(), in any order
    MaxTampers   \* bound: entries damaged

VARIABLES
    call,      \* [Call -> control state and locals]
    resp,      \* [Call -> the last response]
    tampered   \* ids of damaged entries (history)

vars == <<inner, call, resp, tampered>>

-----------------------------------------------------------------------------
(* The wire *)

RequiredField == {"entry_type", "agent_id", "content_type", "source_id"}

OptionalField == {"correlation_id", "idempotency_key", "input_hash", "writer_signature",
                  "signer_key_reference", "attestation_report"}

Field == RequiredField \cup OptionalField \cup {"content"}

ASSUME ReceiptsAssumption ==
    /\ IsFiniteSet(Call)
    /\ Endpoint \in [Call -> {"WriteEntry", "IssueReceipt"}]
    /\ Offered \in [Call -> SUBSET [Field -> Text]]
    /\ \A c \in Call : \A r \in Offered[c] :
          r.entry_type \in EntryType \cup {""} /\ r.idempotency_key \in IdempotencyKey \cup {""}
    /\ MaxTampers \in Nat

ProofField == {"input_hash", "writer_signature", "signer_key_reference", "attestation_report"}

empty_to_none(v) == IF v = "" THEN None ELSE v

unwrap_or_default(v) == IF v = None THEN "" ELSE v

\* WriteEntryInput as write_entry builds it, and as issue_receipt does.
FromWriteEntry(r) ==
    [f \in DOMAIN r |-> IF f \in OptionalField THEN empty_to_none(r[f]) ELSE r[f]]

FromIssueReceipt_SomeEmpty(r) ==
    [f \in DOMAIN r |-> IF f \in OptionalField \ {"correlation_id"}
                        THEN empty_to_none(r[f]) ELSE r[f]]

FromIssueReceipt(r) ==
    [f \in DOMAIN r |-> IF f \in OptionalField /\ r[f] = "" THEN None ELSE r[f]]

FromWire(c, r) == IF Endpoint[c] = "WriteEntry" THEN FromWriteEntry(r) ELSE FromIssueReceipt(r)

\* The fields of an entry as GetEntry and GetEntryByHash send them.
ToWire(fields) ==
    [f \in DOMAIN fields |-> IF f \in OptionalField THEN unwrap_or_default(fields[f])
                                                    ELSE fields[f]]

MatchedField == {"agent_id", "content", "content_type", "source_id", "correlation_id",
                 "input_hash", "writer_signature", "signer_key_reference",
                 "attestation_report"}

idempotent_request_matches_NoSigner(existing, input) ==
    \A f \in MatchedField \ {"signer_key_reference"} : existing.fields[f] = input[f]

idempotent_request_matches(existing, input) ==
    \A f \in MatchedField : existing.fields[f] = input[f]

-----------------------------------------------------------------------------
(* Responses *)

WriteEntryOutput(e) ==
    [entry_id |-> e.entry_id, entry_hash |-> e.entry_hash, hash_version |-> e.hash_version,
     chain_position |-> e.chain_position, written_ts |-> e.written_ts]

\* The proof material and the type are those of the request, not of the entry.
ProofReceipt(input, e) ==
    [write |-> WriteEntryOutput(e), entry_type |-> input.entry_type,
     proof |-> [f \in ProofField |-> unwrap_or_default(input[f])]]

Refused(status, input) == [status |-> status, input |-> input]

Answered(input, e) == [status |-> "ok", receipt |-> ProofReceipt(input, e)]

\* An existing entry under the request's key: replayed if it is the same request.
Replay(input, existing) ==
    IF idempotent_request_matches(existing, input)
    THEN Answered(input, existing)
    ELSE Refused("already_exists", input)

Idle == [pc |-> "idle"]

Silent == [status |-> "none"]

Reply(c, r) ==
    /\ call' = [call EXCEPT ![c] = Idle]
    /\ resp' = [resp EXCEPT ![c] = r]

Goto(c, label) == call' = [call EXCEPT ![c].pc = label] /\ UNCHANGED resp

-----------------------------------------------------------------------------
(* The calls *)

Genesis == sha256_hex(<<"ARE_LEDGER_GENESIS">>)

Init ==
    /\ RepositoryInit
    /\ call = [c \in Call |-> Idle]
    /\ resp = [c \in Call |-> Silent]
    /\ tampered = {}

Invalid(input) ==
    \/ \E f \in RequiredField : input[f] = ""
    \/ input.content \in Oversized

AcceptingCalls == {c \in Call : call[c].pc # "idle"}

\* Bound: room for what the calls under way may still append.
RoomLeft == Cardinality(DOMAIN entries) + Cardinality(AcceptingCalls) < Cardinality(EntryId)

Receive(c) ==
    /\ call[c].pc = "idle"
    /\ \E r \in Offered[c] :
         LET input == FromWire(c, r) IN
         IF Invalid(input)
         THEN Reply(c, Refused("invalid_argument", input))
         ELSE /\ RoomLeft
              /\ call' = [call EXCEPT ![c] =
                            [pc |-> IF input.idempotency_key = None THEN "lock" ELSE "find",
                             input |-> input, previous_hash |-> Genesis,
                             written_ts |-> None]]
              /\ resp' = [resp EXCEPT ![c] = Silent]
    /\ UNCHANGED <<inner, tampered>>

FindIdempotent(c) ==
    LET input == call[c].input
        found == find_idempotent(input)
    IN  /\ call[c].pc = "find"
        /\ \/ found = {} /\ Goto(c, "lock")
           \/ \E existing \in found : Reply(c, Replay(input, existing))
        /\ UNCHANGED <<inner, tampered>>

HoldsChainGuard(c, type) ==
    call[c].pc \in {"tip", "write", "conflict"} /\ call[c].input.entry_type = type

AcquireChainLock_NoMutex(c) ==
    /\ call[c].pc = "lock"
    /\ Goto(c, "tip")
    /\ UNCHANGED <<inner, tampered>>

AcquireChainLock(c) ==
    /\ call[c].pc = "lock"
    /\ \A d \in Call : ~HoldsChainGuard(d, call[c].input.entry_type)
    /\ Goto(c, "tip")
    /\ UNCHANGED <<inner, tampered>>

GetChainTip(c) ==
    LET tip == get_chain_tip(call[c].input.entry_type) IN
    /\ call[c].pc = "tip"
    /\ \E now \in Time :
         call' = [call EXCEPT ![c].pc = "write", ![c].written_ts = now,
                              ![c].previous_hash = IF tip = NotFound THEN Genesis ELSE tip.hash]
    /\ UNCHANGED <<inner, resp, tampered>>

\* write_entry_with_outbox and what the service makes of its outcome; "contended"
\* is where the retries begin.
Write(c) ==
    LET input == [fields |-> call[c].input, previous_hash |-> call[c].previous_hash,
                  written_ts |-> call[c].written_ts]
        e == LedgerEntryRecord(NewEntryId, input, NextPosition(input.fields.entry_type))
        outcome == write_outcome(input)
    IN  /\ call[c].pc = "write"
        /\ IF outcome = "Ok"
           THEN InsertEntry(e) /\ Reply(c, Answered(call[c].input, e))
           ELSE /\ Goto(c, IF outcome = "IdempotencyConflict" THEN "conflict" ELSE "contended")
                /\ UNCHANGED inner
        /\ UNCHANGED tampered

\* IdempotencyConflict: the rival's entry is looked up and compared.
ConflictLookup(c) ==
    LET input == call[c].input
        found == find_idempotent(input)
    IN  /\ call[c].pc = "conflict"
        /\ Reply(c, IF found = {} THEN Refused("unavailable", input)
                    ELSE Replay(input, CHOOSE existing \in found : TRUE))
        /\ UNCHANGED <<inner, tampered>>

-----------------------------------------------------------------------------
(* Outbox processor and damage *)

PublishOk(o) ==
    /\ o \in pending_outbox
    /\ outbox' = mark_outbox_delivered(outbox, o)
    /\ UNCHANGED <<entries, ordered_by_type, chain_tips, idempotency_index, call, resp, tampered>>

\* A lone processor: nobody reads the record between the two updates.
PublishErr(o) ==
    LET counted == increment_outbox_attempt(outbox, o) IN
    /\ o \in pending_outbox
    /\ outbox' = IF counted[o].attempt_count >= OutboxMaxRetries
                 THEN mark_outbox_failed(counted, o) ELSE counted
    /\ UNCHANGED <<entries, ordered_by_type, chain_tips, idempotency_index, call, resp, tampered>>

Tamper(id) ==
    /\ id \in DOMAIN entries
    /\ Cardinality(tampered) < MaxTampers
    /\ \/ test_corrupt_entry_hash(id)
       \/ test_corrupt_correlation_id(id)
       \/ test_corrupt_writer_signature(id)
    /\ tampered' = IF entries' = entries THEN tampered ELSE tampered \cup {id}
    /\ UNCHANGED <<call, resp>>

Next ==
    \/ \E c \in Call :
         \/ Receive(c) \/ FindIdempotent(c) \/ AcquireChainLock(c) \/ GetChainTip(c)
         \/ Write(c) \/ ConflictLookup(c)
    \/ \E id \in EntryId : PublishOk(id) \/ PublishErr(id) \/ Tamper(id)

Spec == Init /\ [][Next]_vars

-----------------------------------------------------------------------------
(* The reading methods, on the wire *)

InvalidArgument == [error |-> "InvalidArgument"]

\* Entries of version 2 are older than this repository's process and only in the
\* database: ChainVerify has both versions.
canonical_entry_hash_for_version(e) ==
    IF e.hash_version = ENTRY_HASH_VERSION THEN {canonical_entry_hash(e)} ELSE {}

VerifyProofOutput_HashUnchecked(e) ==
    [valid |-> TRUE, failure_reason |-> "", chain_position |-> e.chain_position,
     written_ts |-> e.written_ts, hash_version |-> e.hash_version, fields |-> ToWire(e.fields)]

VerifyProofOutput(e) ==
    LET computed == canonical_entry_hash_for_version(e)
        hash_valid == computed = {e.entry_hash}
    IN  [valid |-> hash_valid,
         failure_reason |-> IF computed = {} THEN "unsupported_hash_version"
                            ELSE IF hash_valid THEN "" ELSE "entry_hash_mismatch",
         chain_position |-> e.chain_position, written_ts |-> e.written_ts,
         hash_version |-> e.hash_version, fields |-> ToWire(e.fields)]

\* Every response the iteration order of the map allows.
VerifyProof(type, hash) ==
    LET found == get_entry_by_hash(type, hash) IN
    IF type = "" \/ hash = EmptyHash THEN {InvalidArgument}
    ELSE IF found = {} THEN {NotFound}
    ELSE {VerifyProofOutput(e) : e \in found}

LedgerEntry(e) ==
    [write |-> WriteEntryOutput(e), fields |-> ToWire(e.fields), previous_hash |-> e.previous_hash]

GetEntryByHash(type, hash) ==
    LET found == get_entry_by_hash(type, hash) IN
    IF type = "" \/ hash = EmptyHash THEN {InvalidArgument}
    ELSE IF found = {} THEN {NotFound}
    ELSE {LedgerEntry(e) : e \in found}

\* parse_uuid refuses what is not an id.
GetEntry(id) ==
    IF id \notin EntryId THEN InvalidArgument
    ELSE IF get_entry(id) = NotFound THEN NotFound
    ELSE LedgerEntry(get_entry(id))

GetChainTipResponse(type) ==
    IF type = "" THEN InvalidArgument ELSE get_chain_tip(type)

-----------------------------------------------------------------------------
(* Properties *)

Issued == {resp[c].receipt : c \in {d \in Call : resp[d].status = "ok"}}

Sound == {p \in Issued : p.write.entry_id \notin tampered}

\* A page of verify_chain holds the next entries of the chain without a gap,
\* whatever was appended since the page before.
PagesDense ==
    \A t \in get_distinct_entry_types :
        \A after \in 0..Len(IdsOf(t)), limit \in 1..2 :
            LET page == get_entries_by_type_paged(t, after, limit)
                left == Len(IdsOf(t)) - after
            IN  /\ Len(page) = IF left < limit THEN left ELSE limit
                /\ \A i \in DOMAIN page : entries[page[i]].chain_position = after + i

\* The maps tell one story: the list of a type holds its entries in chain order,
\* each linked to the one before, its pages have no gap, the tip is the last of them,
\* and the index has exactly the keys of the entries (repository/mod.rs,
\* write_entry_with_outbox and get_entries_by_type_paged).
MapsAgree ==
    /\ \A i \in DOMAIN entries : entries[i].entry_id = i
    /\ DOMAIN outbox \subseteq DOMAIN entries
    /\ DOMAIN chain_tips = DOMAIN ordered_by_type
    /\ \A t \in DOMAIN ordered_by_type :
         LET ids == ordered_by_type[t]
             last == entries[ids[Len(ids)]]
         IN  /\ {ids[i] : i \in DOMAIN ids} = {i \in DOMAIN entries : entries[i].fields.entry_type = t}
             /\ \A i \in DOMAIN ids :
                  /\ entries[ids[i]].chain_position = i
                  /\ i > 1 /\ ids[i - 1] \notin tampered =>
                       entries[ids[i]].previous_hash = entries[ids[i - 1]].entry_hash
             /\ last.entry_id \notin tampered => chain_tips[t] = ChainTip(last)
    /\ DOMAIN idempotency_index =
         {IndexKey(entries[i].fields) : i \in {j \in DOMAIN entries :
                                                 entries[j].fields.idempotency_key # None}}
    /\ \A k \in DOMAIN idempotency_index : IndexKey(entries[idempotency_index[k]].fields) = k
    /\ PagesDense

\* A receipt proves what it says for as long as its entry is untouched: VerifyProof
\* on its hash and type is valid, with the same position, time and proof material,
\* and the lookups by id and by hash return the same entry; although a receipt
\* echoes its request, and the entry may be that of an earlier or a rival request
\* (service/mod.rs, issue_receipt, verify_proof).
ReceiptVerifies ==
    \A p \in Sound : \E out \in VerifyProof(p.entry_type, p.write.entry_hash) :
        /\ VerifyProof(p.entry_type, p.write.entry_hash) = {out}
        /\ out # NotFound /\ out # InvalidArgument
        /\ out.valid /\ out.failure_reason = ""
        /\ out.chain_position = p.write.chain_position
        /\ out.written_ts = p.write.written_ts
        /\ \A f \in ProofField : out.fields[f] = p.proof[f]
        /\ GetEntryByHash(p.entry_type, p.write.entry_hash) = {GetEntry(p.write.entry_id)}
        /\ GetEntry(p.write.entry_id).write = p.write
        /\ GetChainTipResponse(p.entry_type).position >= p.write.chain_position

\* No receipt verifies once its entry was damaged, whether it was issued before or
\* after: its hash is not found or does not recompute.
TamperDetected ==
    \A p \in Issued \ Sound :
        \A out \in VerifyProof(p.entry_type, p.write.entry_hash) :
            out = NotFound \/ out.failure_reason = "entry_hash_mismatch"

\* ALREADY_EXISTS is never the answer to a faithful retry, through whichever of the
\* two methods: an entry has the key and another content, or was damaged since.
RetryAccepted ==
    \A c \in Call : resp[c].status = "already_exists" =>
        \E existing \in find_idempotent(resp[c].input) :
            \/ existing.entry_id \in tampered
            \/ ToWire(existing.fields) # ToWire(resp[c].input)

\* A process alone with its repository never meets ChainIntegrityViolation: the
\* mutex spans the tip read and the write (service/mod.rs, write_entry_impl).
SoleWriterNeverContends == \A c \in Call : call[c].pc # "contended"

\* The chains, read through ordered_by_type, as a log of entry ids.
logView ==
    [t \in EntryType |-> [i \in DOMAIN IdsOf(t) |->
        [key |-> entries[IdsOf(t)[i]].fields.idempotency_key, body |-> IdsOf(t)[i]]]]

Log == INSTANCE AppendOnlyLog
         WITH Chain <- EntryType, Key <- IdempotencyKey, NoKey <- None, Body <- EntryId,
              log <- logView

\* What a reader of the repository sees is an append-only log with unique keys,
\* although two calls with one key may both have found it free.
ImplementsLog == Log!LogSpec

-----------------------------------------------------------------------------
(* The inductive invariant behind the properties *)

\* A request as the service has it: no optional field is empty, no other absent.
Input ==
    {x \in [Field -> Text \cup {None}] :
        /\ \A f \in OptionalField : x[f] # ""
        /\ \A f \in Field \ OptionalField : x[f] # None}

Accepted ==
    {x \in Input : /\ x.entry_type \in EntryType \ {""}
                   /\ x.idempotency_key \in IdempotencyKey \cup {None}}

IsEntry(e) ==
    /\ e = [entry_id |-> e.entry_id, fields |-> e.fields, previous_hash |-> e.previous_hash,
            chain_position |-> e.chain_position, written_ts |-> e.written_ts,
            hash_version |-> ENTRY_HASH_VERSION, entry_hash |-> e.entry_hash]
    /\ e.fields \in Accepted
    /\ e.chain_position \in Nat \ {0}

\* The digest names the entry, whatever the fields it was computed from.
DigestOf(id, hash) ==
    \/ hash = TamperedHash
    \/ hash = sha256_hex(<<ENTRY_HASH_VERSION, id, hash.sha256[3], hash.sha256[4],
                           hash.sha256[5], hash.sha256[6]>>)

\* An entry has its digest, or was damaged and has lost it for good: a damaged field
\* never gets its old value back.
DigestHolds(e) ==
    \/ e.entry_hash = TamperedHash /\ e.entry_id \in tampered
    \/ LET hashed == e.entry_hash.sha256[3] IN
       /\ e.entry_hash = canonical_entry_hash([e EXCEPT !.fields = hashed])
       /\ hashed \in Input
       /\ \A f \in Field : hashed[f] = e.fields[f] \/ e.fields[f] = "tampered"
       /\ hashed = e.fields <=> e.entry_id \notin tampered

EntriesInv ==
    /\ entries = [i \in DOMAIN entries |-> entries[i]]
    /\ DOMAIN entries \subseteq EntryId
    /\ tampered \subseteq DOMAIN entries
    /\ \A i \in DOMAIN entries :
         /\ entries[i].entry_id = i
         /\ IsEntry(entries[i]) /\ DigestHolds(entries[i])
         /\ entries[i].fields.entry_type \in DOMAIN ordered_by_type

\* Lists, tips and index, damage or not.
ListsInv ==
    /\ chain_tips = [t \in DOMAIN chain_tips |-> chain_tips[t]]
    /\ DOMAIN chain_tips = DOMAIN ordered_by_type
    /\ ordered_by_type \in [DOMAIN ordered_by_type -> Seq(DOMAIN entries) \ {<<>>}]
    /\ \A t \in DOMAIN ordered_by_type :
         LET ids  == ordered_by_type[t]
             last == entries[ids[Len(ids)]]
         IN  /\ {ids[i] : i \in DOMAIN ids} =
                   {i \in DOMAIN entries : entries[i].fields.entry_type = t}
             /\ \A i \in DOMAIN ids :
                  /\ entries[ids[i]].chain_position = i
                  /\ i > 1 /\ ids[i - 1] \notin tampered =>
                       entries[ids[i]].previous_hash = entries[ids[i - 1]].entry_hash
             /\ DOMAIN chain_tips[t] = DOMAIN ChainTip(last)
             /\ chain_tips[t].position = Len(ids)
             /\ last.entry_id \notin tampered => chain_tips[t] = ChainTip(last)

IndexInv ==
    /\ idempotency_index \in [DOMAIN idempotency_index -> DOMAIN entries]
    /\ DOMAIN idempotency_index =
         {IndexKey(entries[i].fields) : i \in {j \in DOMAIN entries :
                                                 entries[j].fields.idempotency_key # None}}
    /\ \A k \in DOMAIN idempotency_index : IndexKey(entries[idempotency_index[k]].fields) = k

OutboxInv ==
    /\ outbox = [o \in DOMAIN outbox |-> outbox[o]]
    /\ DOMAIN outbox \subseteq DOMAIN entries

\* What a call holds, and what the mutex keeps true of the tip it has read.
CallInv(c) ==
    \/ call[c] = Idle
    \/ /\ call[c] = [pc |-> call[c].pc, input |-> call[c].input,
                     previous_hash |-> call[c].previous_hash, written_ts |-> call[c].written_ts]
       /\ call[c].pc \in {"find", "lock", "tip", "write", "conflict"}
       /\ call[c].input \in Accepted
       /\ call[c].pc = "write" =>
            LET t == call[c].input.entry_type IN
            call[c].previous_hash = IF t \in DOMAIN chain_tips THEN chain_tips[t].hash ELSE Genesis
       /\ call[c].pc = "conflict" => IndexKey(call[c].input) \in DOMAIN idempotency_index

MutexInv ==
    \A c, d \in Call : \A t \in EntryType :
        HoldsChainGuard(c, t) /\ HoldsChainGuard(d, t) => c = d

RoomInv == Cardinality(DOMAIN entries) + Cardinality(AcceptingCalls) <= Cardinality(EntryId)

\* A receipt names an entry, and tells its columns until it is damaged.
ReceiptInv(p) ==
    LET id == p.write.entry_id IN
    /\ id \in DOMAIN entries
    /\ p.entry_type = entries[id].fields.entry_type
    /\ DigestOf(id, p.write.entry_hash)
    /\ id \notin tampered =>
         /\ p.write = WriteEntryOutput(entries[id])
         /\ \A f \in ProofField : p.proof[f] = unwrap_or_default(entries[id].fields[f])

RespInv(c) ==
    /\ resp[c].status = "ok" => ReceiptInv(resp[c].receipt)
    /\ resp[c].status = "already_exists" =>
         /\ resp[c].input \in Input
         /\ \E existing \in find_idempotent(resp[c].input) :
              \/ existing.entry_id \in tampered
              \/ ToWire(existing.fields) # ToWire(resp[c].input)

ReceiptsInv ==
    /\ EntriesInv /\ ListsInv /\ IndexInv /\ OutboxInv
    /\ call = [c \in Call |-> call[c]] /\ resp = [c \in Call |-> resp[c]]
    /\ \A c \in Call : CallInv(c) /\ RespInv(c)
    /\ MutexInv /\ RoomInv
====
