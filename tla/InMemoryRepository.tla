------------------------ MODULE InMemoryRepository -------------------------
(***************************************************************************)
(* InMemoryLedgerRepository (src/repository/mod.rs): the five maps behind    *)
(* one RwLock.  Every operation holds the lock from its first to its last    *)
(* access, so each is one step; the reads are operators of the state.        *)
(*                                                                          *)
(* SHA-256 is a free constructor.  A field that is absent is None, the        *)
(* optional result of a function a set of at most one element; an absent map  *)
(* entry is missing from the function's domain.                               *)
(***************************************************************************)
EXTENDS Integers, Sequences, FiniteSets

CONSTANTS
    None,              \* Option::None
    Text,              \* what a field may hold
    EntryId,           \* UUIDs
    CreateOutbox,      \* publisher.is_enabled()
    OutboxMaxRetries   \* config.outbox_max_retries

ASSUME RepositoryAssumption ==
    /\ CreateOutbox \in BOOLEAN
    /\ OutboxMaxRetries \in Nat
    /\ IsFiniteSet(EntryId)
    /\ {"", "tampered"} \subseteq Text
    /\ None \notin Text

VARIABLES entries, ordered_by_type, chain_tips, idempotency_index, outbox

inner == <<entries, ordered_by_type, chain_tips, idempotency_index, outbox>>

\* HashMap::insert
Insert(map, k, v) == [x \in DOMAIN map \cup {k} |-> IF x = k THEN v ELSE map[x]]

EmptyMap == [x \in {} |-> None]

RepositoryInit ==
    /\ entries = EmptyMap
    /\ ordered_by_type = EmptyMap
    /\ chain_tips = EmptyMap
    /\ idempotency_index = EmptyMap
    /\ outbox = EmptyMap

-----------------------------------------------------------------------------
(* Hashes and records *)

ENTRY_HASH_VERSION == "v3"

sha256_hex(bytes) == [sha256 |-> bytes]

EmptyHash == sha256_hex(<<>>)   \* the empty string, no digest of anything

TamperedHash == sha256_hex(<<"tampered-hash">>)

\* fields: what the request supplied, the entry type and the key included.
canonical_entry_hash(e) ==
    sha256_hex(<<ENTRY_HASH_VERSION, e.entry_id, e.fields, e.chain_position,
                 e.written_ts, e.previous_hash>>)

LedgerEntryRecord(id, input, pos) ==
    LET unhashed == [entry_id |-> id, fields |-> input.fields,
                     previous_hash |-> input.previous_hash, chain_position |-> pos,
                     written_ts |-> input.written_ts, hash_version |-> ENTRY_HASH_VERSION,
                     entry_hash |-> None]
    IN  [unhashed EXCEPT !.entry_hash = canonical_entry_hash(unhashed)]

ChainTip(e) ==
    [entry_id |-> e.entry_id, hash |-> e.entry_hash, hash_version |-> e.hash_version,
     position |-> e.chain_position, written_ts |-> e.written_ts]

-----------------------------------------------------------------------------
(* write_entry_with_outbox *)

IndexKey(fields) == <<fields.entry_type, fields.idempotency_key>>

KeyTaken_Never(fields) == FALSE

KeyTaken(fields) ==
    fields.idempotency_key # None /\ IndexKey(fields) \in DOMAIN idempotency_index

NextPosition(c) == IF c \in DOMAIN chain_tips THEN chain_tips[c].position + 1 ELSE 1

\* The first entry needs some previous hash, any other that of the tip.
TipMismatch(input) ==
    LET c == input.fields.entry_type IN
    IF NextPosition(c) = 1
    THEN input.previous_hash = EmptyHash
    ELSE chain_tips[c].hash # input.previous_hash

\* The key is checked before the tip.
write_outcome(input) ==
    IF KeyTaken(input.fields) THEN "IdempotencyConflict"
    ELSE IF TipMismatch(input) THEN "ChainIntegrityViolation"
    ELSE "Ok"

IdsOf(c) == IF c \in DOMAIN ordered_by_type THEN ordered_by_type[c] ELSE <<>>

InsertEntry_KeepsFirstTip(e) ==
    LET c == e.fields.entry_type IN
    /\ entries' = Insert(entries, e.entry_id, e)
    /\ ordered_by_type' = Insert(ordered_by_type, c, Append(IdsOf(c), e.entry_id))
    /\ chain_tips' = IF c \in DOMAIN chain_tips THEN chain_tips
                                                ELSE Insert(chain_tips, c, ChainTip(e))
    /\ idempotency_index' = IF e.fields.idempotency_key = None THEN idempotency_index
                            ELSE Insert(idempotency_index, IndexKey(e.fields), e.entry_id)
    /\ outbox' = IF ~CreateOutbox THEN outbox
                 ELSE Insert(outbox, e.entry_id,
                             [entry_id |-> e.entry_id, status |-> "Pending", attempt_count |-> 0])

\* The five insertions of a successful write.  outbox_id is a UUID of its own;
\* the model numbers it like the entry.
InsertEntry(e) ==
    LET c == e.fields.entry_type IN
    /\ entries' = Insert(entries, e.entry_id, e)
    /\ ordered_by_type' = Insert(ordered_by_type, c, Append(IdsOf(c), e.entry_id))
    /\ chain_tips' = Insert(chain_tips, c, ChainTip(e))
    /\ idempotency_index' = IF e.fields.idempotency_key = None THEN idempotency_index
                            ELSE Insert(idempotency_index, IndexKey(e.fields), e.entry_id)
    /\ outbox' = IF ~CreateOutbox THEN outbox
                 ELSE Insert(outbox, e.entry_id,
                             [entry_id |-> e.entry_id, status |-> "Pending", attempt_count |-> 0])

NewEntryId == CHOOSE i \in EntryId : i \notin DOMAIN entries

-----------------------------------------------------------------------------
(* Reads *)

NotFound == [error |-> "NotFound"]

get_entry(id) == IF id \in DOMAIN entries THEN entries[id] ELSE NotFound

get_chain_tip(c) == IF c \in DOMAIN chain_tips THEN chain_tips[c] ELSE NotFound

\* The entry under the key, if there is one.
find_idempotent(fields) ==
    {entries[i] : i \in {j \in DOMAIN entries :
                            /\ IndexKey(fields) \in DOMAIN idempotency_index
                            /\ idempotency_index[IndexKey(fields)] = j}}

\* The first match in the iteration order of a HashMap is any match.
get_entry_by_hash(c, hash) ==
    {entries[i] : i \in {j \in DOMAIN entries :
                            /\ entries[j].fields.entry_type = c
                            /\ entries[j].entry_hash = hash}}

\* The first entries above a position, in the order of the list.  The limit is tested
\* after an entry was taken, and a negative one becomes a huge usize.
get_entries_by_type_paged(c, after_position, limit) ==
    LET ids    == IdsOf(c)
        above  == {i \in DOMAIN ids : entries[ids[i]].chain_position > after_position}
        nth(k) == CHOOSE i \in above : Cardinality({j \in above : j <= i}) = k
        most   == IF limit < 0 THEN Len(ids) ELSE IF limit = 0 THEN 1 ELSE limit
        count  == Cardinality(above)
    IN  [k \in 1..(IF most < count THEN most ELSE count) |-> ids[nth(k)]]

pending_outbox == {o \in DOMAIN outbox : outbox[o].status = "Pending"}

get_distinct_entry_types == DOMAIN ordered_by_type

-----------------------------------------------------------------------------
(* Outbox updates, as functions of the map: none looks at the status *)

mark_outbox_delivered(box, o) == [box EXCEPT ![o].status = "Delivered"]

increment_outbox_attempt(box, o) == [box EXCEPT ![o].attempt_count = @ + 1]

mark_outbox_failed(box, o) == [box EXCEPT ![o].status = "Failed"]

-----------------------------------------------------------------------------
(* Damage, as the tests inflict it *)

Damage(id, e) ==
    /\ entries' = [entries EXCEPT ![id] = e]
    /\ UNCHANGED <<ordered_by_type, chain_tips, idempotency_index, outbox>>

test_corrupt_entry_hash(id) == Damage(id, [entries[id] EXCEPT !.entry_hash = TamperedHash])

test_corrupt_correlation_id(id) ==
    Damage(id, [entries[id] EXCEPT !.fields.correlation_id = "tampered"])

test_corrupt_writer_signature(id) ==
    Damage(id, [entries[id] EXCEPT !.fields.writer_signature = "tampered"])
====
