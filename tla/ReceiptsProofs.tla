--------------------------- MODULE ReceiptsProofs ---------------------------
(***************************************************************************)
(* Theorems about Receipts, for any calls, requests, entry ids, times and     *)
(* amount of damage.                                                          *)
(***************************************************************************)
EXTENDS Receipts, FiniteSetTheorems, SequenceTheorems, TLAPS

-----------------------------------------------------------------------------
(* The wire *)

\* Both methods build the same input: optional fields are absent or not empty.
LEMMA WireInput ==
    ASSUME NEW c \in Call, NEW r \in Offered[c]
    PROVE  /\ FromWire(c, r) \in Input
           /\ ~Invalid(FromWire(c, r)) => FromWire(c, r) \in Accepted
<1>. DEFINE x == FromWire(c, r)
<1>1. /\ r \in [Field -> Text] /\ r.entry_type \in EntryType \cup {""}
      /\ r.idempotency_key \in IdempotencyKey \cup {""}
  BY ReceiptsAssumption
<1>2. x = [f \in Field |-> IF f \in OptionalField /\ r[f] = "" THEN None ELSE r[f]]
  BY <1>1 DEF FromWire, FromWriteEntry, FromIssueReceipt, empty_to_none
<1>3. OptionalField \subseteq Field
  BY DEF Field
<1>. HIDE DEF x
<1>4. x \in Input
  <2>1. x \in [Field -> Text \cup {None}]
    BY <1>1, <1>2
  <2>0. None # ""
    BY RepositoryAssumption
  <2>2. \A f \in OptionalField : x[f] # ""
    BY <1>2, <1>3, <2>0
  <2>3. \A f \in Field \ OptionalField : x[f] # None
    BY <1>1, <1>2, RepositoryAssumption
  <2>. QED BY <2>1, <2>2, <2>3 DEF Input
<1>5. ASSUME ~Invalid(x) PROVE x \in Accepted
  <2>1. /\ "entry_type" \in Field \ OptionalField /\ "idempotency_key" \in OptionalField \cap Field
        /\ "entry_type" \in RequiredField
    BY DEF Field, RequiredField, OptionalField
  <2>2. x.entry_type = r.entry_type /\ x.entry_type # ""
    BY <1>2, <1>5, <2>1 DEF Invalid
  <2>3. x.idempotency_key = IF r.idempotency_key = "" THEN None ELSE r.idempotency_key
    BY <1>2, <2>1
  <2>. QED BY <1>1, <1>4, <2>2, <2>3 DEF Accepted
<1>. QED BY <1>4, <1>5 DEF x

\* What is sent back tells apart what was sent.
LEMMA WireTellsApart ==
    ASSUME NEW x \in Input, NEW y \in Input, NEW f \in Field, x[f] # y[f]
    PROVE  ToWire(x) # ToWire(y)
<1>1. DOMAIN x = Field /\ DOMAIN y = Field /\ x[f] \in Text \cup {None} /\ y[f] \in Text \cup {None}
  BY DEF Input
<1>2. ToWire(x)[f] = IF f \in OptionalField /\ x[f] = None THEN "" ELSE x[f]
  BY <1>1 DEF ToWire, unwrap_or_default
<1>3. ToWire(y)[f] = IF f \in OptionalField /\ y[f] = None THEN "" ELSE y[f]
  BY <1>1 DEF ToWire, unwrap_or_default
<1>4. f \in OptionalField => x[f] # "" /\ y[f] # ""
  BY DEF Input
<1>. QED BY <1>2, <1>3, <1>4

-----------------------------------------------------------------------------
(* Digests *)

\* SHA-256 is injective here, and the digest of an entry is none of the constants.
LEMMA DigestsDiffer ==
    ASSUME NEW e, NEW f
    PROVE  /\ canonical_entry_hash(e) # TamperedHash /\ canonical_entry_hash(e) # EmptyHash
           /\ TamperedHash # EmptyHash
           /\ canonical_entry_hash(e) = canonical_entry_hash(f) =>
                e.entry_id = f.entry_id /\ e.fields = f.fields
<1>1. \A a, b : sha256_hex(a) = sha256_hex(b) => a = b
  BY DEF sha256_hex
<1>2. /\ Len(<<ENTRY_HASH_VERSION, e.entry_id, e.fields, e.chain_position,
                 e.written_ts, e.previous_hash>>) = 6
      /\ Len(<<"tampered-hash">>) = 1 /\ Len(<<>>) = 0
  OBVIOUS
<1>. QED BY <1>1, <1>2 DEF canonical_entry_hash, TamperedHash, EmptyHash

\* A digest names one entry.
LEMMA DigestNames ==
    ASSUME NEW i, NEW j, NEW hash, DigestOf(i, hash), DigestOf(j, hash), hash # TamperedHash
    PROVE  i = j
<1>1. \A a, b : sha256_hex(a) = sha256_hex(b) => a = b
  BY DEF sha256_hex
<1>. QED BY <1>1 DEF DigestOf

\* The digest of an entry recomputes exactly while the entry is untouched.
LEMMA DigestTells ==
    ASSUME NEW e, IsEntry(e), DigestHolds(e)
    PROVE  /\ DigestOf(e.entry_id, e.entry_hash) /\ e.entry_hash # EmptyHash
           /\ canonical_entry_hash(e) = e.entry_hash <=> e.entry_id \notin tampered
<1>1. CASE e.entry_hash = TamperedHash /\ e.entry_id \in tampered
  BY <1>1, DigestsDiffer DEF DigestOf
<1>2. CASE ~(e.entry_hash = TamperedHash /\ e.entry_id \in tampered)
  <2>. DEFINE hashed == e.entry_hash.sha256[3]
              g == [e EXCEPT !.fields = hashed]
  <2>1. e.entry_hash = canonical_entry_hash(g) /\ (hashed = e.fields <=> e.entry_id \notin tampered)
    BY <1>2 DEF DigestHolds
  <2>2. /\ g.fields = hashed /\ g.entry_id = e.entry_id /\ g.chain_position = e.chain_position
        /\ g.written_ts = e.written_ts /\ g.previous_hash = e.previous_hash
    BY DEF IsEntry
  <2>. HIDE DEF g
  <2>3. canonical_entry_hash(g) = sha256_hex(<<ENTRY_HASH_VERSION, e.entry_id, hashed,
                                      e.chain_position, e.written_ts, e.previous_hash>>)
    BY <2>2 DEF canonical_entry_hash
  <2>4. canonical_entry_hash(e) = e.entry_hash <=> hashed = e.fields
    BY <2>1, <2>2, <2>3, DigestsDiffer DEF canonical_entry_hash
  <2>5. DigestOf(e.entry_id, e.entry_hash)
    BY <2>1, <2>3 DEF DigestOf, sha256_hex
  <2>. QED BY <2>1, <2>4, <2>5, DigestsDiffer
<1>. QED BY <1>1, <1>2

-----------------------------------------------------------------------------
(* Steps of a call that leave the repository alone *)

\* Cardinalities that RoomInv compares are numbers.
LEMMA Sizes ==
    ASSUME ReceiptsInv
    PROVE  /\ IsFiniteSet(EntryId) /\ Cardinality(EntryId) \in Nat
           /\ IsFiniteSet(DOMAIN entries) /\ Cardinality(DOMAIN entries) \in Nat
           /\ IsFiniteSet(AcceptingCalls) /\ Cardinality(AcceptingCalls) \in Nat
<1>1. DOMAIN entries \subseteq EntryId /\ AcceptingCalls \subseteq Call
  BY DEF ReceiptsInv, EntriesInv, AcceptingCalls
<1>. QED BY <1>1, FS_Subset, FS_CardinalityType, RepositoryAssumption, ReceiptsAssumption

\* Where the repository and the history are the same, so is what is said of them.
LEMMA SameRepository ==
    ASSUME UNCHANGED <<inner, tampered>>
    PROVE  /\ EntriesInv' <=> EntriesInv
           /\ ListsInv' <=> ListsInv
           /\ IndexInv' <=> IndexInv
           /\ OutboxInv' <=> OutboxInv
           /\ \A x : find_idempotent(x)' = find_idempotent(x)
           /\ \A q : ReceiptInv(q)' <=> ReceiptInv(q)
<1>1. UNCHANGED <<entries, ordered_by_type, chain_tips, idempotency_index, outbox, tampered>>
  BY DEF inner
<1>2. EntriesInv' <=> EntriesInv
  BY <1>1 DEF EntriesInv, DigestHolds
<1>3. ListsInv' <=> ListsInv
  BY <1>1 DEF ListsInv
<1>4. IndexInv' <=> IndexInv
  BY <1>1 DEF IndexInv
<1>5. OutboxInv' <=> OutboxInv
  BY <1>1 DEF OutboxInv
<1>6. \A x : find_idempotent(x)' = find_idempotent(x)
  BY <1>1 DEF find_idempotent
<1>7. \A q : ReceiptInv(q)' <=> ReceiptInv(q)
  BY <1>1 DEF ReceiptInv
<1>. QED BY <1>2, <1>3, <1>4, <1>5, <1>6, <1>7

\* Only call c moves.
OnlyMoves(c) ==
    /\ call' = [d \in Call |-> call'[d]] /\ resp' = [d \in Call |-> resp'[d]]
    /\ \A d \in Call \ {c} : call'[d] = call[d] /\ resp'[d] = resp[d]

\* Only call c moves, and the rest follows from what becomes of it.
LEMMA CallMoves ==
    ASSUME ReceiptsInv, NEW c \in Call, UNCHANGED <<inner, tampered>>, OnlyMoves(c),
           CallInv(c)', RespInv(c)', RoomInv',
           \A t \in EntryType : HoldsChainGuard(c, t)' =>
                \/ HoldsChainGuard(c, t)
                \/ \A d \in Call : ~HoldsChainGuard(d, t)
    PROVE  ReceiptsInv'
<1>1. UNCHANGED <<chain_tips, idempotency_index>>
  BY DEF inner
<1>2. EntriesInv' /\ ListsInv' /\ IndexInv' /\ OutboxInv'
  BY SameRepository DEF ReceiptsInv
<1>3. ASSUME NEW d \in Call PROVE CallInv(d)' /\ RespInv(d)'
  <2>1. CASE d = c
    BY <2>1
  <2>2. CASE d # c
    <3>1. call'[d] = call[d] /\ resp'[d] = resp[d] /\ CallInv(d) /\ RespInv(d)
      BY <2>2 DEF OnlyMoves, ReceiptsInv
    <3>2. CallInv(d)'
      BY <1>1, <3>1 DEF CallInv
    <3>3. RespInv(d)'
      <4>1. resp'[d].status = "ok" => ReceiptInv(resp[d].receipt)'
        <5>1. PICK q : q = resp[d].receipt /\ q = resp'[d].receipt
          BY <3>1
        <5>2. ReceiptInv(q)' <=> ReceiptInv(q)
          BY SameRepository
        <5>3. ReceiptInv(resp[d].receipt)' <=> ReceiptInv(q)'
          BY <5>1 DEF ReceiptInv
        <5>. QED BY <3>1, <5>1, <5>2, <5>3 DEF RespInv
      <4>2. find_idempotent(resp[d].input)' = find_idempotent(resp[d].input)
        <5>1. PICK x : x = resp[d].input /\ x = resp'[d].input
          BY <3>1
        <5>2. find_idempotent(x)' = find_idempotent(x)
          BY SameRepository
        <5>. QED BY <5>1, <5>2 DEF find_idempotent
      <4>. QED BY <3>1, <4>1, <4>2 DEF RespInv
    <3>. QED BY <3>2, <3>3
  <2>. QED BY <2>1, <2>2
<1>4. MutexInv'
  <2>. SUFFICES ASSUME NEW d \in Call, NEW g \in Call, NEW t \in EntryType,
                       HoldsChainGuard(d, t)', HoldsChainGuard(g, t)', d # g
                PROVE  FALSE
    BY DEF MutexInv
  <2>1. \A x \in Call \ {c} : HoldsChainGuard(x, t)' => HoldsChainGuard(x, t)
    BY DEF HoldsChainGuard, OnlyMoves
  <2>2. CASE d = c
    BY <2>1, <2>2 DEF ReceiptsInv, MutexInv
  <2>3. CASE g = c
    BY <2>1, <2>3 DEF ReceiptsInv, MutexInv
  <2>4. CASE d # c /\ g # c
    BY <2>1, <2>4 DEF ReceiptsInv, MutexInv
  <2>. QED BY <2>2, <2>3, <2>4
<1>. QED BY <1>2, <1>3, <1>4 DEF ReceiptsInv, OnlyMoves

\* A call that ends leaves room, gives up the mutex and keeps the rest.
LEMMA CallEnds ==
    ASSUME ReceiptsInv, NEW c \in Call, UNCHANGED <<inner, tampered>>, NEW r, Reply(c, r),
           r.status = "ok" => ReceiptInv(r.receipt),
           r.status = "already_exists" =>
             /\ r.input \in Input
             /\ \E existing \in find_idempotent(r.input) :
                  \/ existing.entry_id \in tampered
                  \/ ToWire(existing.fields) # ToWire(r.input)
    PROVE  ReceiptsInv'
<1>1. /\ call = [d \in Call |-> call[d]] /\ resp = [d \in Call |-> resp[d]]
      /\ UNCHANGED <<entries, tampered, idempotency_index>>
  BY DEF ReceiptsInv, inner
<1>2. OnlyMoves(c) /\ call'[c] = Idle /\ resp'[c] = r
  BY <1>1 DEF OnlyMoves, Reply
<1>3. CallInv(c)'
  BY <1>2 DEF CallInv
<1>4. RespInv(c)'
  <2>1. ReceiptInv(r.receipt) => ReceiptInv(resp[c].receipt)'
    BY <1>1, <1>2 DEF ReceiptInv
  <2>2. find_idempotent(resp[c].input)' = find_idempotent(r.input)
    BY <1>1, <1>2 DEF find_idempotent
  <2>. QED BY <1>1, <1>2, <2>1, <2>2 DEF RespInv
<1>5. RoomInv'
  <2>1. AcceptingCalls' \subseteq AcceptingCalls
    BY <1>2 DEF AcceptingCalls, OnlyMoves, Idle
  <2>2. Cardinality(AcceptingCalls') <= Cardinality(AcceptingCalls) /\ Cardinality(AcceptingCalls') \in Nat
    BY <2>1, Sizes, FS_Subset, FS_CardinalityType
  <2>3. RoomInv
    BY DEF ReceiptsInv
  <2>. QED BY <1>1, <2>2, <2>3, Sizes DEF RoomInv
<1>6. \A t : ~HoldsChainGuard(c, t)'
  BY <1>2 DEF HoldsChainGuard, Idle
<1>. QED BY <1>2, <1>3, <1>4, <1>5, <1>6, CallMoves

\* A call that goes on under way keeps what it holds.
LEMMA CallGoesOn ==
    ASSUME ReceiptsInv, NEW c \in Call, call[c].pc # "idle", UNCHANGED <<inner, resp, tampered>>,
           call' = [call EXCEPT ![c] = call'[c]], CallInv(c)',
           \A t \in EntryType : HoldsChainGuard(c, t)' =>
                \/ HoldsChainGuard(c, t)
                \/ \A d \in Call : ~HoldsChainGuard(d, t)
    PROVE  ReceiptsInv'
<1>1. /\ call = [d \in Call |-> call[d]] /\ resp = [d \in Call |-> resp[d]]
      /\ UNCHANGED <<entries, tampered, idempotency_index>>
  BY DEF ReceiptsInv, inner
<1>2. OnlyMoves(c)
  BY <1>1 DEF OnlyMoves
<1>3. RespInv(c)'
  <2>1. ReceiptInv(resp[c].receipt)' <=> ReceiptInv(resp[c].receipt)
    BY <1>1 DEF ReceiptInv
  <2>2. find_idempotent(resp[c].input)' = find_idempotent(resp[c].input)
    BY <1>1 DEF find_idempotent
  <2>3. RespInv(c)
    BY DEF ReceiptsInv
  <2>. QED BY <1>1, <2>1, <2>2, <2>3 DEF RespInv
<1>4. RoomInv'
  <2>1. AcceptingCalls' \subseteq AcceptingCalls
    BY <1>2 DEF AcceptingCalls, OnlyMoves
  <2>2. Cardinality(AcceptingCalls') <= Cardinality(AcceptingCalls) /\ Cardinality(AcceptingCalls') \in Nat
    BY <2>1, Sizes, FS_Subset, FS_CardinalityType
  <2>3. RoomInv
    BY DEF ReceiptsInv
  <2>. QED BY <1>1, <2>2, <2>3, Sizes DEF RoomInv
<1>. QED BY <1>2, <1>3, <1>4, CallMoves

\* The entry a replayed request finds is the one its answer is about.
LEMMA ReplayTrue ==
    ASSUME ReceiptsInv, NEW x \in Accepted, NEW e \in find_idempotent(x)
    PROVE  LET r == Replay(x, e) IN
           /\ r.status = "ok" => ReceiptInv(r.receipt)
           /\ r.status = "already_exists" =>
                /\ r.input \in Input
                /\ \E existing \in find_idempotent(r.input) :
                     \/ existing.entry_id \in tampered
                     \/ ToWire(existing.fields) # ToWire(r.input)
<1>1. PICK i \in DOMAIN entries : /\ e = entries[i] /\ IndexKey(x) \in DOMAIN idempotency_index
                                  /\ idempotency_index[IndexKey(x)] = i
  BY DEF find_idempotent
<1>2. e.entry_id = i /\ IsEntry(e) /\ DigestHolds(e)
  BY <1>1 DEF ReceiptsInv, EntriesInv
<1>3. IndexKey(e.fields) = IndexKey(x)
  BY <1>1 DEF ReceiptsInv, IndexInv
<1>4. e.fields.entry_type = x.entry_type
  BY <1>3 DEF IndexKey
<1>5. e.fields \in Input /\ x \in Input /\ MatchedField \subseteq Field /\ ProofField \subseteq MatchedField
  BY <1>2 DEF IsEntry, Accepted, MatchedField, Field, RequiredField, OptionalField, ProofField
<1>6. CASE idempotent_request_matches(e, x)
  <2>1. Replay(x, e) = [status |-> "ok", receipt |-> ProofReceipt(x, e)]
    BY <1>6 DEF Replay, Answered
  <2>2. ReceiptInv(ProofReceipt(x, e))
    <3>. DEFINE p == ProofReceipt(x, e)
    <3>1. /\ p.write = WriteEntryOutput(e) /\ p.entry_type = x.entry_type
          /\ \A f \in ProofField : p.proof[f] = unwrap_or_default(x[f])
      BY DEF ProofReceipt
    <3>2. p.write.entry_id = i /\ p.write.entry_hash = e.entry_hash
      BY <1>2, <3>1 DEF WriteEntryOutput
    <3>3. \A f \in ProofField : x[f] = e.fields[f]
      BY <1>5, <1>6 DEF idempotent_request_matches
    <3>4. DigestOf(i, e.entry_hash)
      BY <1>2, DigestTells
    <3>. HIDE DEF p
    <3>5. ReceiptInv(p)
      BY <1>1, <1>4, <3>1, <3>2, <3>3, <3>4 DEF ReceiptInv
    <3>. QED BY <3>5 DEF p
  <2>. QED BY <2>1, <2>2
<1>7. CASE ~idempotent_request_matches(e, x)
  <2>1. Replay(x, e) = [status |-> "already_exists", input |-> x]
    BY <1>7 DEF Replay, Refused
  <2>2. PICK f \in MatchedField : e.fields[f] # x[f]
    BY <1>7 DEF idempotent_request_matches
  <2>3. ToWire(e.fields) # ToWire(x)
    BY <1>5, <2>2, WireTellsApart
  <2>. QED BY <1>5, <2>1, <2>3
<1>. QED BY <1>6, <1>7

\* Receive refuses, or takes a place that is free.
LEMMA ReceiveKeeps ==
    ASSUME ReceiptsInv, NEW c \in Call, Receive(c)
    PROVE  ReceiptsInv'
<1>1. PICK r \in Offered[c] :
         LET input == FromWire(c, r) IN
         IF Invalid(input)
         THEN Reply(c, Refused("invalid_argument", input))
         ELSE /\ RoomLeft
              /\ call' = [call EXCEPT ![c] =
                            [pc |-> IF input.idempotency_key = None THEN "lock" ELSE "find",
                             input |-> input, previous_hash |-> Genesis,
                             written_ts |-> None]]
              /\ resp' = [resp EXCEPT ![c] = Silent]
  BY DEF Receive
<1>. DEFINE input == FromWire(c, r)
<1>2. call[c].pc = "idle" /\ UNCHANGED <<inner, tampered>>
  BY DEF Receive
<1>3. CASE Invalid(input)
  <2>1. Reply(c, Refused("invalid_argument", input))
    BY <1>1, <1>3
  <2>2. Refused("invalid_argument", input).status = "invalid_argument"
    BY DEF Refused
  <2>. QED BY <1>2, <2>1, <2>2, CallEnds
<1>4. CASE ~Invalid(input)
  <2>1. input \in Accepted
    BY <1>4, WireInput
  <2>. HIDE DEF input
  <2>2. PICK pc \in {"lock", "find"} :
          /\ call' = [call EXCEPT ![c] = [pc |-> pc, input |-> input, previous_hash |-> Genesis,
                                          written_ts |-> None]]
          /\ resp' = [resp EXCEPT ![c] = Silent]
    BY <1>1, <1>4 DEF input
  <2>3. RoomLeft
    BY <1>1, <1>4 DEF input
  <2>4. call = [d \in Call |-> call[d]] /\ resp = [d \in Call |-> resp[d]]
    BY DEF ReceiptsInv
  <2>5. /\ OnlyMoves(c) /\ resp'[c] = Silent
        /\ call'[c] = [pc |-> pc, input |-> input, previous_hash |-> Genesis, written_ts |-> None]
    BY <2>2, <2>4 DEF OnlyMoves
  <2>6. CallInv(c)'
    BY <2>1, <2>5 DEF CallInv
  <2>7. RespInv(c)'
    BY <2>5 DEF RespInv, Silent
  <2>8. \A t : ~HoldsChainGuard(c, t)'
    BY <2>5 DEF HoldsChainGuard
  <2>9. RoomInv'
    <3>1. AcceptingCalls' = AcceptingCalls \cup {c} /\ c \notin AcceptingCalls
      BY <1>2, <2>5 DEF AcceptingCalls, OnlyMoves
    <3>2. Cardinality(AcceptingCalls') = Cardinality(AcceptingCalls) + 1
      BY <3>1, Sizes, FS_AddElement
    <3>3. DOMAIN entries' = DOMAIN entries
      BY <1>2 DEF inner
    <3>. QED BY <2>3, <3>2, <3>3, Sizes DEF RoomInv, RoomLeft
  <2>. QED BY <1>2, <2>5, <2>6, <2>7, <2>8, <2>9, CallMoves
<1>. QED BY <1>3, <1>4

\* The idempotency lookup replays or goes on to the mutex.
LEMMA FindKeeps ==
    ASSUME ReceiptsInv, NEW c \in Call, FindIdempotent(c)
    PROVE  ReceiptsInv'
<1>1. call[c].pc = "find" /\ UNCHANGED <<inner, tampered>>
  BY DEF FindIdempotent
<1>2. CallInv(c) /\ call = [d \in Call |-> call[d]]
  BY DEF ReceiptsInv
<1>3. /\ call[c] = [pc |-> call[c].pc, input |-> call[c].input,
                    previous_hash |-> call[c].previous_hash, written_ts |-> call[c].written_ts]
      /\ call[c].input \in Accepted
  BY <1>1, <1>2 DEF CallInv, Idle
<1>4. CASE Goto(c, "lock")
  <2>1. /\ call' = [call EXCEPT ![c].pc = "lock"] /\ UNCHANGED resp
    BY <1>4 DEF Goto
  <2>2. /\ call'[c] = [pc |-> "lock", input |-> call[c].input,
                       previous_hash |-> call[c].previous_hash, written_ts |-> call[c].written_ts]
        /\ call' = [call EXCEPT ![c] = call'[c]]
    BY <1>2, <1>3, <2>1
  <2>3. CallInv(c)'
    BY <1>3, <2>2 DEF CallInv
  <2>4. \A t : ~HoldsChainGuard(c, t)'
    BY <2>2 DEF HoldsChainGuard
  <2>. QED BY <1>1, <2>1, <2>2, <2>3, <2>4, CallGoesOn
<1>5. ASSUME NEW existing \in find_idempotent(call[c].input),
             Reply(c, Replay(call[c].input, existing))
      PROVE  ReceiptsInv'
  BY <1>1, <1>3, <1>5, ReplayTrue, CallEnds
<1>. QED BY <1>4, <1>5 DEF FindIdempotent

\* The mutex is taken when nobody holds it.
LEMMA LockKeeps ==
    ASSUME ReceiptsInv, NEW c \in Call, AcquireChainLock(c)
    PROVE  ReceiptsInv'
<1>1. call[c].pc = "lock" /\ UNCHANGED <<inner, tampered>>
  BY DEF AcquireChainLock
<1>2. CallInv(c) /\ call = [d \in Call |-> call[d]]
  BY DEF ReceiptsInv
<1>3. /\ call[c] = [pc |-> call[c].pc, input |-> call[c].input,
                    previous_hash |-> call[c].previous_hash, written_ts |-> call[c].written_ts]
      /\ call[c].input \in Accepted
  BY <1>1, <1>2 DEF CallInv, Idle
<1>4. /\ call' = [call EXCEPT ![c].pc = "tip"] /\ UNCHANGED resp
  BY DEF AcquireChainLock, Goto
<1>5. /\ call'[c] = [pc |-> "tip", input |-> call[c].input,
                     previous_hash |-> call[c].previous_hash, written_ts |-> call[c].written_ts]
      /\ call' = [call EXCEPT ![c] = call'[c]]
  BY <1>2, <1>3, <1>4
<1>6. CallInv(c)'
  BY <1>3, <1>5 DEF CallInv
<1>7. \A t \in EntryType : HoldsChainGuard(c, t)' => \A d \in Call : ~HoldsChainGuard(d, t)
  <2>1. \A d \in Call : ~HoldsChainGuard(d, call[c].input.entry_type)
    BY DEF AcquireChainLock
  <2>2. \A t : HoldsChainGuard(c, t)' => t = call[c].input.entry_type
    BY <1>5 DEF HoldsChainGuard
  <2>. QED BY <2>1, <2>2
<1>. QED BY <1>1, <1>4, <1>5, <1>6, <1>7, CallGoesOn

\* The tip is read under the mutex.
LEMMA TipKeeps ==
    ASSUME ReceiptsInv, NEW c \in Call, GetChainTip(c)
    PROVE  ReceiptsInv'
<1>. DEFINE t == call[c].input.entry_type
            hash == IF t \in DOMAIN chain_tips THEN chain_tips[t].hash ELSE Genesis
<1>1. call[c].pc = "tip" /\ UNCHANGED <<inner, resp, tampered>>
  BY DEF GetChainTip
<1>2. CallInv(c) /\ call = [d \in Call |-> call[d]]
  BY DEF ReceiptsInv
<1>3. /\ call[c] = [pc |-> call[c].pc, input |-> call[c].input,
                    previous_hash |-> call[c].previous_hash, written_ts |-> call[c].written_ts]
      /\ call[c].input \in Accepted
  BY <1>1, <1>2 DEF CallInv, Idle
<1>4. PICK now, prev : /\ call' = [call EXCEPT ![c].pc = "write", ![c].written_ts = now,
                                               ![c].previous_hash = prev]
                       /\ prev = IF get_chain_tip(t) = NotFound THEN Genesis ELSE get_chain_tip(t).hash
  BY DEF GetChainTip
<1>5. prev = hash
  <2>1. CASE t \in DOMAIN chain_tips
    <3>1. get_chain_tip(t) = chain_tips[t] /\ "position" \in DOMAIN chain_tips[t]
      BY <2>1 DEF get_chain_tip, ReceiptsInv, ListsInv, ChainTip
    <3>2. "position" \notin DOMAIN NotFound
      BY DEF NotFound
    <3>. QED BY <1>4, <2>1, <3>1, <3>2
  <2>2. CASE t \notin DOMAIN chain_tips
    BY <1>4, <2>2 DEF get_chain_tip
  <2>. QED BY <2>1, <2>2
<1>6. /\ call'[c] = [pc |-> "write", input |-> call[c].input, previous_hash |-> prev,
                     written_ts |-> now]
      /\ call' = [call EXCEPT ![c] = call'[c]]
  BY <1>2, <1>3, <1>4
<1>7. CallInv(c)'
  BY <1>1, <1>3, <1>5, <1>6 DEF CallInv, inner
<1>8. \A u : HoldsChainGuard(c, u)' => HoldsChainGuard(c, u)
  BY <1>1, <1>6 DEF HoldsChainGuard
<1>. QED BY <1>1, <1>6, <1>7, <1>8, CallGoesOn

\* After an IdempotencyConflict the rival's entry is there to be compared.
LEMMA ConflictKeeps ==
    ASSUME ReceiptsInv, NEW c \in Call, ConflictLookup(c)
    PROVE  ReceiptsInv'
<1>. DEFINE x == call[c].input
<1>1. call[c].pc = "conflict" /\ UNCHANGED <<inner, tampered>>
  BY DEF ConflictLookup
<1>2. x \in Accepted /\ IndexKey(x) \in DOMAIN idempotency_index
  BY <1>1 DEF ReceiptsInv, CallInv, Idle
<1>3. find_idempotent(x) # {}
  <2>1. idempotency_index[IndexKey(x)] \in DOMAIN entries
    BY <1>2 DEF ReceiptsInv, IndexInv
  <2>. QED BY <1>2, <2>1 DEF find_idempotent
<1>4. PICK existing \in find_idempotent(x) : Reply(c, Replay(x, existing))
  BY <1>3 DEF ConflictLookup
<1>. QED BY <1>1, <1>2, <1>4, ReplayTrue, CallEnds

-----------------------------------------------------------------------------
(* The outbox processor *)

\* A change of one outbox record.
LEMMA OutboxKeeps ==
    ASSUME ReceiptsInv, outbox' = [o \in DOMAIN outbox |-> outbox'[o]],
           UNCHANGED <<entries, ordered_by_type, chain_tips, idempotency_index, call, resp, tampered>>
    PROVE  ReceiptsInv'
<1>1. EntriesInv'
  BY DEF ReceiptsInv, EntriesInv, DigestHolds
<1>2. ListsInv'
  BY DEF ReceiptsInv, ListsInv
<1>3. IndexInv'
  BY DEF ReceiptsInv, IndexInv
<1>4. DOMAIN outbox' = DOMAIN outbox
  OBVIOUS
<1>5. OutboxInv'
  BY <1>4 DEF ReceiptsInv, OutboxInv
<1>6. \A c \in Call : CallInv(c)'
  BY DEF ReceiptsInv, CallInv
<1>7. \A c \in Call : RespInv(c)'
  BY DEF ReceiptsInv, RespInv, ReceiptInv, find_idempotent
<1>8. MutexInv' /\ RoomInv'
  BY DEF ReceiptsInv, MutexInv, HoldsChainGuard, RoomInv, AcceptingCalls
<1>. QED BY <1>1, <1>2, <1>3, <1>5, <1>6, <1>7, <1>8 DEF ReceiptsInv

\* The processor touches outbox records only, and creates none.
LEMMA PublishKeeps ==
    ASSUME ReceiptsInv, NEW o, PublishOk(o) \/ PublishErr(o)
    PROVE  ReceiptsInv'
<1>1. outbox = [q \in DOMAIN outbox |-> outbox[q]]
  BY DEF ReceiptsInv, OutboxInv
<1>2. outbox' = [q \in DOMAIN outbox |-> outbox'[q]]
  <2>1. CASE PublishOk(o)
    BY <1>1, <2>1 DEF PublishOk, mark_outbox_delivered
  <2>2. CASE PublishErr(o)
    BY <1>1, <2>2 DEF PublishErr, increment_outbox_attempt, mark_outbox_failed
  <2>. QED BY <2>1, <2>2
<1>3. UNCHANGED <<entries, ordered_by_type, chain_tips, idempotency_index, call, resp, tampered>>
  BY DEF PublishOk, PublishErr
<1>. QED BY <1>2, <1>3, OutboxKeeps

-----------------------------------------------------------------------------
(* Damage *)

\* What a test hook makes of an entry: the digest or one field is overwritten.
DamagedTo(id, e) ==
    LET old == entries[id] IN
    /\ \/ e = [old EXCEPT !.entry_hash = TamperedHash]
       \/ \E f \in {"correlation_id", "writer_signature"} :
            e = [old EXCEPT !.fields = [old.fields EXCEPT ![f] = "tampered"]]
    /\ entries' = [entries EXCEPT ![id] = e]
    /\ tampered' = IF entries' = entries THEN tampered ELSE tampered \cup {id}
    /\ UNCHANGED <<ordered_by_type, chain_tips, idempotency_index, outbox, call, resp>>

\* Damage is one of three changes to one stored entry.
LEMMA TamperDamages ==
    ASSUME ReceiptsInv, NEW id \in DOMAIN entries, Tamper(id)
    PROVE  \E e : DamagedTo(id, e)
<1>. DEFINE old == entries[id]
<1>1. IsEntry(old)
  BY DEF ReceiptsInv, EntriesInv
<1>2. /\ tampered' = IF entries' = entries THEN tampered ELSE tampered \cup {id}
      /\ UNCHANGED <<call, resp>>
  BY DEF Tamper
<1>3. CASE test_corrupt_entry_hash(id)
  BY <1>2, <1>3 DEF test_corrupt_entry_hash, Damage, DamagedTo
<1>4. CASE test_corrupt_correlation_id(id)
  <2>1. [old EXCEPT !.fields.correlation_id = "tampered"]
          = [old EXCEPT !.fields = [old.fields EXCEPT !["correlation_id"] = "tampered"]]
    BY <1>1 DEF IsEntry
  <2>. QED BY <1>2, <1>4, <2>1 DEF test_corrupt_correlation_id, Damage, DamagedTo
<1>5. CASE test_corrupt_writer_signature(id)
  <2>1. [old EXCEPT !.fields.writer_signature = "tampered"]
          = [old EXCEPT !.fields = [old.fields EXCEPT !["writer_signature"] = "tampered"]]
    BY <1>1 DEF IsEntry
  <2>. QED BY <1>2, <1>5, <2>1 DEF test_corrupt_writer_signature, Damage, DamagedTo
<1>. QED BY <1>3, <1>4, <1>5 DEF Tamper

\* The columns damage leaves alone, and what it makes of the digest.
LEMMA DamageIs ==
    ASSUME ReceiptsInv, NEW id \in DOMAIN entries, NEW e, DamagedTo(id, e)
    PROVE  /\ IsEntry(e) /\ e.entry_id = id /\ e.chain_position = entries[id].chain_position
           /\ e.previous_hash = entries[id].previous_hash
           /\ e.fields.entry_type = entries[id].fields.entry_type
           /\ e.fields.idempotency_key = entries[id].fields.idempotency_key
           /\ entries' = [i \in DOMAIN entries |-> IF i = id THEN e ELSE entries[i]]
           /\ tampered' \in {tampered, tampered \cup {id}}
           /\ id \notin tampered' => e = entries[id]
           /\ DigestHolds(e)'
<1>. DEFINE old == entries[id]
<1>1. IsEntry(old) /\ DigestHolds(old) /\ old.entry_id = id /\ entries = [i \in DOMAIN entries |-> entries[i]]
  BY DEF ReceiptsInv, EntriesInv
<1>2. entries' = [i \in DOMAIN entries |-> IF i = id THEN e ELSE entries[i]]
  BY <1>1 DEF DamagedTo
<1>3. entries' = entries <=> e = old
  BY <1>1, <1>2
<1>4. tampered' = IF e = old THEN tampered ELSE tampered \cup {id}
  BY <1>3 DEF DamagedTo
<1>5. old.fields \in Accepted /\ old.fields \in [Field -> Text \cup {None}]
  BY <1>1 DEF IsEntry, Accepted, Input
<1>6. CASE e = [old EXCEPT !.entry_hash = TamperedHash]
  <2>1. /\ e.entry_id = id /\ e.chain_position = old.chain_position /\ e.fields = old.fields
        /\ e.previous_hash = old.previous_hash /\ e.entry_hash = TamperedHash /\ IsEntry(e)
    BY <1>1, <1>6 DEF IsEntry
  <2>2. e = old => e.entry_id \in tampered
    <3>1. SUFFICES ASSUME e = old PROVE canonical_entry_hash(old) # old.entry_hash
      BY <1>1, <2>1, DigestTells
    <3>. QED BY <2>1, <3>1, DigestsDiffer
  <2>3. DigestHolds(e)'
    BY <1>4, <2>1, <2>2 DEF DigestHolds
  <2>. QED BY <1>2, <1>4, <2>1, <2>3
<1>7. ASSUME NEW f \in {"correlation_id", "writer_signature"},
             e = [old EXCEPT !.fields = [old.fields EXCEPT ![f] = "tampered"]]
      PROVE  /\ IsEntry(e) /\ e.entry_id = id /\ e.chain_position = old.chain_position
             /\ e.previous_hash = old.previous_hash
             /\ e.fields.entry_type = old.fields.entry_type
             /\ e.fields.idempotency_key = old.fields.idempotency_key
             /\ DigestHolds(e)'
  <2>1. PICK new : new = [old.fields EXCEPT ![f] = "tampered"]
    OBVIOUS
  <2>2. /\ e = [old EXCEPT !.fields = new]
        /\ f \in OptionalField /\ f \in Field /\ f # "entry_type" /\ f # "idempotency_key"
    BY <1>7, <2>1 DEF OptionalField, Field
  <2>3. /\ new \in [Field -> Text \cup {None}] /\ new[f] = "tampered"
        /\ \A g \in Field \ {f} : new[g] = old.fields[g]
    BY <1>5, <2>1, <2>2, RepositoryAssumption
  <2>4. new.entry_type = old.fields.entry_type /\ new.idempotency_key = old.fields.idempotency_key
    BY <2>2, <2>3 DEF Field, RequiredField, OptionalField
  <2>5. new \in Accepted
    <3>1. /\ OptionalField \subseteq Field
          /\ \A g \in OptionalField : old.fields[g] # ""
          /\ \A g \in Field \ OptionalField : old.fields[g] # None
      BY <1>5 DEF Accepted, Input, Field
    <3>2. \A g \in OptionalField : new[g] # ""
      BY <2>3, <3>1
    <3>3. \A g \in Field \ OptionalField : new[g] # None
      BY <2>2, <2>3, <3>1
    <3>4. new \in Input
      BY <2>3, <3>2, <3>3 DEF Input
    <3>. QED BY <1>5, <2>4, <3>4 DEF Accepted
  <2>6. /\ e.entry_id = id /\ e.chain_position = old.chain_position /\ e.fields = new
        /\ e.previous_hash = old.previous_hash /\ e.entry_hash = old.entry_hash /\ IsEntry(e)
        /\ e.written_ts = old.written_ts
    BY <1>1, <2>2, <2>5 DEF IsEntry
  <2>7. DigestHolds(e)'
    <3>1. CASE old.entry_hash = TamperedHash /\ id \in tampered
      BY <1>4, <2>6, <3>1 DEF DigestHolds
    <3>2. CASE ~(old.entry_hash = TamperedHash /\ id \in tampered)
      <4>1. PICK hashed : hashed = old.entry_hash.sha256[3]
        OBVIOUS
      <4>2. /\ old.entry_hash = canonical_entry_hash([old EXCEPT !.fields = hashed])
            /\ hashed \in Input
            /\ \A g \in Field : hashed[g] = old.fields[g] \/ old.fields[g] = "tampered"
            /\ hashed = old.fields <=> id \notin tampered
        BY <1>1, <3>2, <4>1 DEF DigestHolds
      <4>3. [old EXCEPT !.fields = hashed] = [e EXCEPT !.fields = hashed]
        BY <1>1, <2>2
      <4>4. \A g \in Field : hashed[g] = new[g] \/ new[g] = "tampered"
        BY <2>3, <4>2
      <4>5. hashed = new <=> id \notin tampered'
        <5>1. CASE new = old.fields
          <6>1. e = old
            BY <1>1, <2>2, <5>1 DEF IsEntry
          <6>. QED BY <1>4, <4>2, <5>1, <6>1
        <5>2. CASE new # old.fields
          <6>1. e # old /\ id \in tampered'
            BY <1>4, <2>6, <5>2
          <6>2. old.fields[f] # "tampered"
            BY <1>5, <2>1, <2>2, <5>2
          <6>3. hashed[f] # "tampered"
            BY <2>2, <4>2, <6>2
          <6>. QED BY <2>3, <6>1, <6>3
        <5>. QED BY <5>1, <5>2
      <4>. QED BY <2>6, <4>1, <4>2, <4>3, <4>4, <4>5 DEF DigestHolds
    <3>. QED BY <3>1, <3>2
  <2>. QED BY <2>4, <2>6, <2>7
<1>8. id \notin tampered' => e = old
  BY <1>4
<1>. QED BY <1>2, <1>4, <1>6, <1>7, <1>8 DEF DamagedTo

\* Damage keeps the invariant: it is noted in the history, and every digest still names its
\* entry.
LEMMA TamperKeeps ==
    ASSUME ReceiptsInv, NEW id \in EntryId, Tamper(id)
    PROVE  ReceiptsInv'
<1>1. id \in DOMAIN entries
  BY DEF Tamper
<1>2. PICK e : DamagedTo(id, e)
  BY <1>1, TamperDamages
<1>3. /\ IsEntry(e) /\ e.entry_id = id /\ e.chain_position = entries[id].chain_position
      /\ e.previous_hash = entries[id].previous_hash
      /\ e.fields.entry_type = entries[id].fields.entry_type
      /\ e.fields.idempotency_key = entries[id].fields.idempotency_key
      /\ entries' = [i \in DOMAIN entries |-> IF i = id THEN e ELSE entries[i]]
      /\ tampered' \in {tampered, tampered \cup {id}}
      /\ id \notin tampered' => e = entries[id]
      /\ DigestHolds(e)'
  BY <1>1, <1>2, DamageIs
<1>4. UNCHANGED <<ordered_by_type, chain_tips, idempotency_index, outbox, call, resp>>
  BY <1>2 DEF DamagedTo
<1>5. EntriesInv /\ ListsInv /\ IndexInv /\ OutboxInv
  BY DEF ReceiptsInv
<1>6. /\ DOMAIN entries' = DOMAIN entries
      /\ \A i \in DOMAIN entries :
           /\ entries'[i].entry_id = i /\ IsEntry(entries'[i])
           /\ entries'[i].chain_position = entries[i].chain_position
           /\ entries'[i].previous_hash = entries[i].previous_hash
           /\ entries'[i].fields.entry_type = entries[i].fields.entry_type
           /\ entries'[i].fields.idempotency_key = entries[i].fields.idempotency_key
           /\ i \notin tampered' => i \notin tampered /\ entries'[i] = entries[i]
  <2>1. \A i \in DOMAIN entries : entries[i].entry_id = i /\ IsEntry(entries[i])
    BY <1>5 DEF EntriesInv
  <2>. QED BY <1>3, <2>1
<1>7. EntriesInv'
  <2>1. \A i \in DOMAIN entries \ {id} : DigestHolds(entries[i])'
    <3>. TAKE i \in DOMAIN entries \ {id}
    <3>1. entries'[i] = entries[i] /\ DigestHolds(entries[i]) /\ entries[i].entry_id = i
      BY <1>3, <1>5 DEF EntriesInv
    <3>2. i \in tampered' <=> i \in tampered
      BY <1>3
    <3>. QED BY <3>1, <3>2 DEF DigestHolds
  <2>2. DigestHolds(entries[id])'
    <3>1. entries'[id] = e
      BY <1>1, <1>3
    <3>. QED BY <1>3, <3>1 DEF DigestHolds
  <2>3. \A i \in DOMAIN entries : entries'[i].fields.entry_type \in DOMAIN ordered_by_type'
    BY <1>4, <1>5, <1>6 DEF EntriesInv
  <2>4. tampered' \subseteq DOMAIN entries'
    BY <1>1, <1>3, <1>5, <1>6 DEF EntriesInv
  <2>5. DOMAIN entries' \subseteq EntryId
    BY <1>5, <1>6 DEF EntriesInv
  <2>. QED BY <1>3, <1>6, <2>1, <2>2, <2>3, <2>4, <2>5 DEF EntriesInv
<1>8. ListsInv'
  <2>1. /\ chain_tips' = [t \in DOMAIN chain_tips' |-> chain_tips'[t]]
        /\ DOMAIN chain_tips' = DOMAIN ordered_by_type'
        /\ ordered_by_type' \in [DOMAIN ordered_by_type' -> Seq(DOMAIN entries') \ {<<>>}]
    BY <1>4, <1>5, <1>6 DEF ListsInv
  <2>2. ASSUME NEW t \in DOMAIN ordered_by_type
        PROVE  LET ids  == ordered_by_type[t]
                   last == entries'[ids[Len(ids)]]
               IN  /\ {ids[i] : i \in DOMAIN ids} =
                         {i \in DOMAIN entries' : entries'[i].fields.entry_type = t}
                   /\ \A i \in DOMAIN ids :
                        /\ entries'[ids[i]].chain_position = i
                        /\ i > 1 /\ ids[i - 1] \notin tampered' =>
                             entries'[ids[i]].previous_hash = entries'[ids[i - 1]].entry_hash
                   /\ DOMAIN chain_tips[t] = DOMAIN ChainTip(last)
                   /\ chain_tips[t].position = Len(ids)
                   /\ last.entry_id \notin tampered' => chain_tips[t] = ChainTip(last)
    <3>. DEFINE ids == ordered_by_type[t]
    <3>1. /\ ids \in Seq(DOMAIN entries) /\ ids # <<>>
          /\ {ids[i] : i \in DOMAIN ids} = {i \in DOMAIN entries : entries[i].fields.entry_type = t}
          /\ \A i \in DOMAIN ids :
               /\ entries[ids[i]].chain_position = i
               /\ i > 1 /\ ids[i - 1] \notin tampered =>
                    entries[ids[i]].previous_hash = entries[ids[i - 1]].entry_hash
          /\ DOMAIN chain_tips[t] = DOMAIN ChainTip(entries[ids[Len(ids)]])
          /\ chain_tips[t].position = Len(ids)
          /\ entries[ids[Len(ids)]].entry_id \notin tampered =>
               chain_tips[t] = ChainTip(entries[ids[Len(ids)]])
      BY <1>5 DEF ListsInv
    <3>. HIDE DEF ids
    <3>2. DOMAIN ids = 1..Len(ids) /\ Len(ids) \in Nat \ {0}
      BY <3>1, LenProperties, EmptySeq
    <3>3. \A i \in DOMAIN ids : ids[i] \in DOMAIN entries /\ (i > 1 => i - 1 \in DOMAIN ids)
      BY <3>1, <3>2, ElementOfSeq
    <3>4. {ids[i] : i \in DOMAIN ids} = {i \in DOMAIN entries' : entries'[i].fields.entry_type = t}
      BY <1>6, <3>1
    <3>5. \A i \in DOMAIN ids : entries'[ids[i]].chain_position = i
      BY <1>6, <3>1, <3>3
    <3>6. \A i \in DOMAIN ids : i > 1 /\ ids[i - 1] \notin tampered' =>
             entries'[ids[i]].previous_hash = entries'[ids[i - 1]].entry_hash
      BY <1>6, <3>1, <3>3
    <3>7. PICK last : last \in DOMAIN entries /\ last = ids[Len(ids)]
      BY <3>2, <3>3
    <3>8. DOMAIN ChainTip(entries[last]) = DOMAIN ChainTip(entries'[last])
      BY DEF ChainTip
    <3>9. entries'[last].entry_id \notin tampered' => chain_tips[t] = ChainTip(entries'[last])
      BY <1>5, <1>6, <3>1, <3>7 DEF EntriesInv
    <3>. QED BY <3>1, <3>4, <3>5, <3>6, <3>7, <3>8, <3>9 DEF ids
  <2>. QED BY <1>4, <2>1, <2>2 DEF ListsInv
<1>9. IndexInv'
  <2>1. \A i \in DOMAIN entries : IndexKey(entries'[i].fields) = IndexKey(entries[i].fields)
    BY <1>6 DEF IndexKey
  <2>2. idempotency_index' \in [DOMAIN idempotency_index' -> DOMAIN entries']
    BY <1>4, <1>5, <1>6 DEF IndexInv
  <2>3. DOMAIN idempotency_index' =
         {IndexKey(entries'[i].fields) : i \in {j \in DOMAIN entries' :
                                                 entries'[j].fields.idempotency_key # None}}
    BY <1>4, <1>5, <1>6, <2>1 DEF IndexInv
  <2>4. \A k \in DOMAIN idempotency_index' : IndexKey(entries'[idempotency_index'[k]].fields) = k
    BY <1>4, <1>5, <2>1 DEF IndexInv
  <2>. QED BY <2>2, <2>3, <2>4 DEF IndexInv
<1>10. OutboxInv'
  BY <1>4, <1>5, <1>6 DEF OutboxInv
<1>11. ASSUME NEW c \in Call PROVE CallInv(c)' /\ RespInv(c)'
  <2>1. CallInv(c)'
    BY <1>4 DEF ReceiptsInv, CallInv
  <2>2. RespInv(c)
    BY DEF ReceiptsInv
  <2>3. ASSUME resp[c].status = "ok" PROVE ReceiptInv(resp[c].receipt)'
    <3>. DEFINE q == resp[c].receipt
                k == q.write.entry_id
    <3>1. ReceiptInv(q)
      BY <2>2, <2>3 DEF RespInv
    <3>2. /\ k \in DOMAIN entries /\ q.entry_type = entries[k].fields.entry_type
          /\ DigestOf(k, q.write.entry_hash)
          /\ k \notin tampered =>
               /\ q.write = WriteEntryOutput(entries[k])
               /\ \A f \in ProofField : q.proof[f] = unwrap_or_default(entries[k].fields[f])
      BY <3>1 DEF ReceiptInv
    <3>. QED BY <1>4, <1>6, <3>2 DEF ReceiptInv
  <2>4. ASSUME resp[c].status = "already_exists"
        PROVE  /\ resp[c].input \in Input
               /\ \E existing \in find_idempotent(resp[c].input)' :
                     \/ existing.entry_id \in tampered'
                     \/ ToWire(existing.fields) # ToWire(resp[c].input)
    <3>1. PICK old \in find_idempotent(resp[c].input) :
             \/ old.entry_id \in tampered
             \/ ToWire(old.fields) # ToWire(resp[c].input)
      BY <2>2, <2>4 DEF RespInv
    <3>2. PICK i \in DOMAIN entries :
             /\ old = entries[i] /\ IndexKey(resp[c].input) \in DOMAIN idempotency_index
             /\ idempotency_index[IndexKey(resp[c].input)] = i
      BY <3>1 DEF find_idempotent
    <3>3. entries'[i] \in find_idempotent(resp[c].input)'
      BY <1>4, <1>6, <3>2 DEF find_idempotent
    <3>4. old.entry_id = i /\ entries'[i].entry_id = i /\ (i \in tampered => i \in tampered')
      BY <1>3, <1>5, <1>6, <3>2 DEF EntriesInv
    <3>5. i \notin tampered' => entries'[i] = old
      BY <1>6, <3>2
    <3>6. resp[c].input \in Input
      BY <2>2, <2>4 DEF RespInv
    <3>. QED BY <3>1, <3>3, <3>4, <3>5, <3>6
  <2>5. RespInv(c)'
    BY <1>4, <2>3, <2>4 DEF RespInv
  <2>. QED BY <2>1, <2>5
<1>12. MutexInv' /\ RoomInv'
  BY <1>4, <1>6 DEF ReceiptsInv, MutexInv, HoldsChainGuard, RoomInv, AcceptingCalls
<1>. QED BY <1>4, <1>7, <1>8, <1>9, <1>10, <1>11, <1>12 DEF ReceiptsInv

-----------------------------------------------------------------------------
(* The write *)

\* Call c appends the entry e.
Appends(c, e) ==
    LET x == call[c].input IN
    /\ e.entry_id \in EntryId \ DOMAIN entries
    /\ e = [entry_id |-> e.entry_id, fields |-> x, previous_hash |-> call[c].previous_hash,
            chain_position |-> Len(IdsOf(x.entry_type)) + 1, written_ts |-> e.written_ts,
            hash_version |-> ENTRY_HASH_VERSION, entry_hash |-> canonical_entry_hash(e)]
    /\ ~KeyTaken(x)
    /\ InsertEntry(e) /\ Reply(c, Answered(x, e)) /\ UNCHANGED tampered

\* The list and the tip of a type are there together, and agree on the position.
LEMMA PositionsAgree ==
    ASSUME ReceiptsInv, NEW t
    PROVE  /\ IdsOf(t) \in Seq(DOMAIN entries) /\ Len(IdsOf(t)) \in Nat
           /\ NextPosition(t) = Len(IdsOf(t)) + 1
           /\ t \in DOMAIN chain_tips <=> Len(IdsOf(t)) > 0
           /\ t \in DOMAIN ordered_by_type <=> t \in DOMAIN chain_tips
<1>1. DOMAIN chain_tips = DOMAIN ordered_by_type
  BY DEF ReceiptsInv, ListsInv
<1>2. CASE t \in DOMAIN ordered_by_type
  <2>1. ordered_by_type[t] \in Seq(DOMAIN entries) /\ ordered_by_type[t] # <<>>
    BY <1>2 DEF ReceiptsInv, ListsInv
  <2>2. Len(ordered_by_type[t]) \in Nat \ {0}
    BY <2>1, EmptySeq
  <2>3. chain_tips[t].position = Len(ordered_by_type[t])
    BY <1>2 DEF ReceiptsInv, ListsInv
  <2>. QED BY <1>1, <1>2, <2>1, <2>2, <2>3 DEF IdsOf, NextPosition
<1>3. CASE t \notin DOMAIN ordered_by_type
  BY <1>1, <1>3, EmptySeq DEF IdsOf, NextPosition
<1>. QED BY <1>2, <1>3

\* Under the mutex the write meets the tip it was prepared for: it appends, or a rival
\* has the key.
LEMMA WriteIs ==
    ASSUME ReceiptsInv, NEW c \in Call, Write(c)
    PROVE  /\ call[c].pc = "write" /\ call[c].input \in Accepted
           /\ \/ \E e : Appends(c, e)
              \/ /\ IndexKey(call[c].input) \in DOMAIN idempotency_index
                 /\ Goto(c, "conflict") /\ UNCHANGED <<inner, tampered>>
<1>. DEFINE x == call[c].input
            t == x.entry_type
            input == [fields |-> x, previous_hash |-> call[c].previous_hash,
                      written_ts |-> call[c].written_ts]
            e == LedgerEntryRecord(NewEntryId, input, NextPosition(t))
<1>1. call[c].pc = "write"
  BY DEF Write
<1>2. /\ x \in Accepted
      /\ call[c].previous_hash = IF t \in DOMAIN chain_tips THEN chain_tips[t].hash ELSE Genesis
  BY <1>1 DEF ReceiptsInv, CallInv, Idle
<1>3. /\ input.fields = x /\ input.previous_hash = call[c].previous_hash
      /\ input.written_ts = call[c].written_ts
  OBVIOUS
<1>4. /\ IF write_outcome(input) = "Ok"
         THEN InsertEntry(e) /\ Reply(c, Answered(x, e))
         ELSE /\ Goto(c, IF write_outcome(input) = "IdempotencyConflict"
                         THEN "conflict" ELSE "contended")
              /\ UNCHANGED inner
      /\ UNCHANGED tampered
  BY DEF Write
<1>. HIDE DEF input
<1>5. ~TipMismatch(input)
  <2>1. Genesis # EmptyHash
    <3>1. Len(<<"ARE_LEDGER_GENESIS">>) = 1 /\ Len(<<>>) = 0
      OBVIOUS
    <3>. QED BY <3>1 DEF Genesis, EmptyHash, sha256_hex
  <2>2. NextPosition(t) = 1 <=> t \notin DOMAIN chain_tips
    BY PositionsAgree
  <2>. QED BY <1>2, <1>3, <2>1, <2>2 DEF TipMismatch
<1>6. CASE KeyTaken(x)
  <2>1. write_outcome(input) = "IdempotencyConflict"
    BY <1>3, <1>6 DEF write_outcome
  <2>. QED BY <1>1, <1>2, <1>4, <1>6, <2>1 DEF KeyTaken
<1>7. CASE ~KeyTaken(x)
  <2>1. write_outcome(input) = "Ok"
    BY <1>3, <1>5, <1>7 DEF write_outcome
  <2>2. InsertEntry(e) /\ Reply(c, Answered(x, e)) /\ UNCHANGED tampered
    BY <1>4, <2>1
  <2>3. NewEntryId \in EntryId \ DOMAIN entries
    <3>1. c \in AcceptingCalls
      BY <1>1 DEF AcceptingCalls
    <3>2. Cardinality(AcceptingCalls) > 0
      BY <3>1, Sizes, FS_EmptySet
    <3>3. Cardinality(DOMAIN entries) < Cardinality(EntryId)
      BY <3>2, Sizes DEF ReceiptsInv, RoomInv
    <3>4. DOMAIN entries \subseteq EntryId /\ DOMAIN entries # EntryId
      BY <3>3, Sizes DEF ReceiptsInv, EntriesInv
    <3>. QED BY <3>4 DEF NewEntryId
  <2>4. /\ e.entry_id = NewEntryId
        /\ e = [entry_id |-> e.entry_id, fields |-> x, previous_hash |-> call[c].previous_hash,
                chain_position |-> NextPosition(t), written_ts |-> e.written_ts,
                hash_version |-> ENTRY_HASH_VERSION, entry_hash |-> canonical_entry_hash(e)]
    BY <1>3 DEF LedgerEntryRecord, canonical_entry_hash
  <2>5. NextPosition(t) = Len(IdsOf(t)) + 1
    BY PositionsAgree
  <2>. HIDE DEF e
  <2>6. Appends(c, e)
    BY <1>7, <2>2, <2>3, <2>4, <2>5 DEF Appends
  <2>. QED BY <1>1, <1>2, <2>6
<1>. QED BY <1>6, <1>7

\* The maps after an append, key by key.
LEMMA AppendIs ==
    ASSUME ReceiptsInv, NEW c \in Call, call[c].pc = "write", NEW e, Appends(c, e)
    PROVE  LET id == e.entry_id
               t  == e.fields.entry_type
           IN  /\ id \in EntryId \ DOMAIN entries /\ IsEntry(e) /\ e.fields = call[c].input
               /\ e.entry_hash = canonical_entry_hash(e)
               /\ e.previous_hash = IF t \in DOMAIN chain_tips THEN chain_tips[t].hash ELSE Genesis
               /\ e.chain_position = Len(IdsOf(t)) + 1 /\ id \notin tampered /\ ~KeyTaken(e.fields)
               /\ entries' = [i \in DOMAIN entries \cup {id} |-> IF i = id THEN e ELSE entries[i]]
               /\ ordered_by_type' = [u \in DOMAIN ordered_by_type \cup {t} |->
                                        IF u = t THEN Append(IdsOf(t), id) ELSE ordered_by_type[u]]
               /\ chain_tips' = [u \in DOMAIN chain_tips \cup {t} |->
                                   IF u = t THEN ChainTip(e) ELSE chain_tips[u]]
               /\ UNCHANGED tampered
<1>1. /\ call[c].input \in Accepted
      /\ LET t == call[c].input.entry_type IN
         call[c].previous_hash = IF t \in DOMAIN chain_tips THEN chain_tips[t].hash ELSE Genesis
  BY DEF ReceiptsInv, CallInv, Idle
<1>2. /\ e.entry_id \in EntryId \ DOMAIN entries
      /\ e = [entry_id |-> e.entry_id, fields |-> call[c].input,
              previous_hash |-> call[c].previous_hash,
              chain_position |-> Len(IdsOf(call[c].input.entry_type)) + 1,
              written_ts |-> e.written_ts,
              hash_version |-> ENTRY_HASH_VERSION, entry_hash |-> canonical_entry_hash(e)]
      /\ ~KeyTaken(call[c].input) /\ InsertEntry(e) /\ UNCHANGED tampered
  BY DEF Appends
<1>3. /\ e.fields = call[c].input /\ e.previous_hash = call[c].previous_hash
      /\ e.chain_position = Len(IdsOf(call[c].input.entry_type)) + 1
      /\ e.entry_hash = canonical_entry_hash(e) /\ e.hash_version = ENTRY_HASH_VERSION
  BY <1>2
<1>4. Len(IdsOf(call[c].input.entry_type)) \in Nat
  BY PositionsAgree
<1>5. IsEntry(e)
  BY <1>1, <1>2, <1>3, <1>4 DEF IsEntry
<1>6. e.entry_id \notin tampered
  BY <1>2 DEF ReceiptsInv, EntriesInv
<1>7. /\ entries' = Insert(entries, e.entry_id, e)
      /\ ordered_by_type' = Insert(ordered_by_type, e.fields.entry_type,
                                   Append(IdsOf(e.fields.entry_type), e.entry_id))
      /\ chain_tips' = Insert(chain_tips, e.fields.entry_type, ChainTip(e))
  BY <1>2 DEF InsertEntry
<1>. QED BY <1>1, <1>2, <1>3, <1>5, <1>6, <1>7 DEF Insert

\* Appending keeps the entries well formed.
LEMMA AppendEntries ==
    ASSUME ReceiptsInv, NEW c \in Call, call[c].pc = "write", NEW e, Appends(c, e)
    PROVE  EntriesInv'
<1>. DEFINE id == e.entry_id
            t == e.fields.entry_type
<1>1. /\ id \in EntryId \ DOMAIN entries /\ IsEntry(e) /\ e.fields = call[c].input
      /\ e.entry_hash = canonical_entry_hash(e)
      /\ e.previous_hash = IF t \in DOMAIN chain_tips THEN chain_tips[t].hash ELSE Genesis
      /\ e.chain_position = Len(IdsOf(t)) + 1 /\ id \notin tampered /\ ~KeyTaken(e.fields)
      /\ entries' = [i \in DOMAIN entries \cup {id} |-> IF i = id THEN e ELSE entries[i]]
      /\ ordered_by_type' = [u \in DOMAIN ordered_by_type \cup {t} |->
                               IF u = t THEN Append(IdsOf(t), id) ELSE ordered_by_type[u]]
      /\ chain_tips' = [u \in DOMAIN chain_tips \cup {t} |->
                          IF u = t THEN ChainTip(e) ELSE chain_tips[u]]
      /\ UNCHANGED tampered
  BY AppendIs
<1>2. EntriesInv
  BY DEF ReceiptsInv
<1>3. DOMAIN entries' = DOMAIN entries \cup {id} /\ DOMAIN entries' \subseteq EntryId
  BY <1>1, <1>2 DEF EntriesInv
<1>4. ASSUME NEW i \in DOMAIN entries'
      PROVE  /\ entries'[i].entry_id = i /\ IsEntry(entries'[i]) /\ DigestHolds(entries[i])'
             /\ entries'[i].fields.entry_type \in DOMAIN ordered_by_type'
  <2>1. CASE i = id
    <3>1. entries'[i] = e
      BY <1>1, <1>3, <2>1
    <3>2. e.entry_hash.sha256[3] = e.fields
      BY <1>1 DEF canonical_entry_hash, sha256_hex
    <3>3. [e EXCEPT !.fields = e.fields] = e
      BY <1>1 DEF IsEntry
    <3>4. e.fields \in Input
      BY <1>1 DEF IsEntry, Accepted
    <3>5. DigestHolds(e)'
      BY <1>1, <3>2, <3>3, <3>4 DEF DigestHolds
    <3>6. DigestHolds(entries[i])'
      BY <3>1, <3>5 DEF DigestHolds
    <3>. QED BY <1>1, <2>1, <3>1, <3>6
  <2>2. CASE i # id
    <3>1. entries'[i] = entries[i] /\ i \in DOMAIN entries
      BY <1>1, <1>3, <2>2
    <3>2. /\ entries[i].entry_id = i /\ IsEntry(entries[i]) /\ DigestHolds(entries[i])
          /\ entries[i].fields.entry_type \in DOMAIN ordered_by_type
      BY <1>2, <3>1 DEF EntriesInv
    <3>3. DigestHolds(entries[i])'
      BY <1>1, <3>1, <3>2 DEF DigestHolds
    <3>. QED BY <1>1, <3>1, <3>2, <3>3
  <2>. QED BY <2>1, <2>2
<1>5. tampered' \subseteq DOMAIN entries' /\ entries' = [i \in DOMAIN entries' |-> entries'[i]]
  BY <1>1, <1>2, <1>3 DEF EntriesInv
<1>. QED BY <1>3, <1>4, <1>5 DEF EntriesInv

\* Appending extends one list by the new entry, linked to the last.
LEMMA AppendLists ==
    ASSUME ReceiptsInv, NEW c \in Call, call[c].pc = "write", NEW e, Appends(c, e)
    PROVE  ListsInv'
<1>. DEFINE id == e.entry_id
            t == e.fields.entry_type
<1>1. /\ id \in EntryId \ DOMAIN entries /\ IsEntry(e) /\ e.fields = call[c].input
      /\ e.entry_hash = canonical_entry_hash(e)
      /\ e.previous_hash = IF t \in DOMAIN chain_tips THEN chain_tips[t].hash ELSE Genesis
      /\ e.chain_position = Len(IdsOf(t)) + 1 /\ id \notin tampered /\ ~KeyTaken(e.fields)
      /\ entries' = [i \in DOMAIN entries \cup {id} |-> IF i = id THEN e ELSE entries[i]]
      /\ ordered_by_type' = [u \in DOMAIN ordered_by_type \cup {t} |->
                               IF u = t THEN Append(IdsOf(t), id) ELSE ordered_by_type[u]]
      /\ chain_tips' = [u \in DOMAIN chain_tips \cup {t} |->
                          IF u = t THEN ChainTip(e) ELSE chain_tips[u]]
      /\ UNCHANGED tampered
  BY AppendIs
<1>2. EntriesInv /\ ListsInv
  BY DEF ReceiptsInv
<1>3. DOMAIN entries' = DOMAIN entries \cup {id} /\ DOMAIN entries \subseteq DOMAIN entries'
  BY <1>1
<1>4. \A i \in DOMAIN entries : entries'[i] = entries[i]
  BY <1>1
<1>5. entries'[id] = e
  BY <1>1
<1>6. DOMAIN ordered_by_type' = DOMAIN ordered_by_type \cup {t} /\ DOMAIN chain_tips' = DOMAIN ordered_by_type'
  BY <1>1, <1>2 DEF ListsInv
<1>. HIDE DEF id, t
<1>7. PICK new : new = Append(IdsOf(t), id)
  OBVIOUS
<1>8. IdsOf(t) \in Seq(DOMAIN entries) /\ Len(IdsOf(t)) \in Nat
  BY PositionsAgree
<1>9. /\ new \in Seq(DOMAIN entries') /\ new # <<>> /\ Len(new) = Len(IdsOf(t)) + 1
      /\ \A i \in 1..Len(IdsOf(t)) : new[i] = IdsOf(t)[i]
      /\ new[Len(IdsOf(t)) + 1] = id
  <2>1. IdsOf(t) \in Seq(DOMAIN entries') /\ id \in DOMAIN entries'
    BY <1>3, <1>8, SeqMonotonic
  <2>. QED BY <1>7, <2>1, AppendProperties
<1>10. ordered_by_type' \in [DOMAIN ordered_by_type' -> Seq(DOMAIN entries') \ {<<>>}]
  <2>1. \A u \in DOMAIN ordered_by_type : ordered_by_type[u] \in Seq(DOMAIN entries') \ {<<>>}
    BY <1>2, <1>3, SeqMonotonic DEF ListsInv
  <2>. QED BY <1>1, <1>6, <1>7, <1>9, <2>1
<1>. DEFINE Listed(u) ==
        LET ids  == ordered_by_type'[u]
            last == entries'[ids[Len(ids)]]
        IN  /\ {ids[i] : i \in DOMAIN ids} =
                 {i \in DOMAIN entries' : entries'[i].fields.entry_type = u}
            /\ \A i \in DOMAIN ids :
                 /\ entries'[ids[i]].chain_position = i
                 /\ i > 1 /\ ids[i - 1] \notin tampered' =>
                      entries'[ids[i]].previous_hash = entries'[ids[i - 1]].entry_hash
            /\ DOMAIN chain_tips'[u] = DOMAIN ChainTip(last)
            /\ chain_tips'[u].position = Len(ids)
            /\ last.entry_id \notin tampered' => chain_tips'[u] = ChainTip(last)
<1>11. ASSUME NEW u \in DOMAIN ordered_by_type
       PROVE  LET ids  == ordered_by_type[u]
                  last == entries[ids[Len(ids)]]
              IN  /\ ids \in Seq(DOMAIN entries) /\ Len(ids) \in Nat \ {0}
                  /\ DOMAIN ids = 1..Len(ids)
                  /\ \A i \in 1..Len(ids) : ids[i] \in DOMAIN entries
                  /\ {ids[i] : i \in DOMAIN ids} = {i \in DOMAIN entries : entries[i].fields.entry_type = u}
                  /\ \A i \in DOMAIN ids :
                       /\ entries[ids[i]].chain_position = i
                       /\ i > 1 /\ ids[i - 1] \notin tampered =>
                            entries[ids[i]].previous_hash = entries[ids[i - 1]].entry_hash
                  /\ DOMAIN chain_tips[u] = DOMAIN ChainTip(last)
                  /\ chain_tips[u].position = Len(ids)
                  /\ last.entry_id \notin tampered => chain_tips[u] = ChainTip(last)
  <2>1. ordered_by_type[u] \in Seq(DOMAIN entries) /\ ordered_by_type[u] # <<>>
    BY <1>2 DEF ListsInv
  <2>2. /\ Len(ordered_by_type[u]) \in Nat \ {0}
        /\ DOMAIN ordered_by_type[u] = 1..Len(ordered_by_type[u])
        /\ \A i \in 1..Len(ordered_by_type[u]) : ordered_by_type[u][i] \in DOMAIN entries
    BY <2>1, EmptySeq, LenProperties, ElementOfSeq
  <2>. QED BY <1>2, <2>1, <2>2 DEF ListsInv
<1>12. ASSUME NEW u \in DOMAIN ordered_by_type, u # t PROVE Listed(u)
  <2>. DEFINE ids == ordered_by_type[u]
  <2>1. ordered_by_type'[u] = ids /\ chain_tips'[u] = chain_tips[u]
    BY <1>1, <1>2, <1>12 DEF ListsInv, t
  <2>2. /\ Len(ids) \in Nat \ {0} /\ DOMAIN ids = 1..Len(ids)
        /\ \A i \in 1..Len(ids) : ids[i] \in DOMAIN entries
        /\ {ids[i] : i \in DOMAIN ids} = {i \in DOMAIN entries : entries[i].fields.entry_type = u}
        /\ \A i \in DOMAIN ids :
             /\ entries[ids[i]].chain_position = i
             /\ i > 1 /\ ids[i - 1] \notin tampered =>
                  entries[ids[i]].previous_hash = entries[ids[i - 1]].entry_hash
        /\ DOMAIN chain_tips[u] = DOMAIN ChainTip(entries[ids[Len(ids)]])
        /\ chain_tips[u].position = Len(ids)
        /\ entries[ids[Len(ids)]].entry_id \notin tampered => chain_tips[u] = ChainTip(entries[ids[Len(ids)]])
    BY <1>11
  <2>. HIDE DEF ids
  <2>3. {ids[i] : i \in DOMAIN ids} = {i \in DOMAIN entries' : entries'[i].fields.entry_type = u}
    BY <1>3, <1>4, <1>5, <1>12, <2>2 DEF t
  <2>4. \A i \in DOMAIN ids : entries'[ids[i]] = entries[ids[i]] /\ (i > 1 => entries'[ids[i - 1]] = entries[ids[i - 1]])
    BY <1>4, <2>2
  <2>5. tampered' = tampered /\ Len(ids) \in DOMAIN ids
    BY <1>1, <2>2
  <2>. QED BY <2>1, <2>2, <2>3, <2>4, <2>5
<1>13. Listed(t)
  <2>. DEFINE n == Len(IdsOf(t))
  <2>1. ordered_by_type'[t] = new /\ chain_tips'[t] = ChainTip(e)
    BY <1>1, <1>7 DEF t, id
  <2>2. DOMAIN new = 1..(n + 1) /\ n \in Nat /\ Len(new) = n + 1
    BY <1>8, <1>9, LenProperties
  <2>3. \A i \in 1..n : /\ new[i] = IdsOf(t)[i] /\ new[i] \in DOMAIN entries
                        /\ entries'[new[i]] = entries[new[i]]
                        /\ entries[new[i]].chain_position = i
                        /\ i > 1 /\ new[i - 1] \notin tampered =>
                             entries[new[i]].previous_hash = entries[new[i - 1]].entry_hash
    <3>1. CASE t \in DOMAIN ordered_by_type
      <4>1. IdsOf(t) = ordered_by_type[t]
        BY <3>1 DEF IdsOf
      <4>2. /\ DOMAIN IdsOf(t) = 1..n
            /\ \A i \in 1..n : IdsOf(t)[i] \in DOMAIN entries
            /\ \A i \in DOMAIN IdsOf(t) :
                 /\ entries[IdsOf(t)[i]].chain_position = i
                 /\ i > 1 /\ IdsOf(t)[i - 1] \notin tampered =>
                      entries[IdsOf(t)[i]].previous_hash = entries[IdsOf(t)[i - 1]].entry_hash
        BY <1>11, <3>1, <4>1
      <4>3. \A i \in 1..n : i > 1 => new[i - 1] = IdsOf(t)[i - 1]
        BY <1>9, <2>2
      <4>. QED BY <1>4, <1>9, <4>2, <4>3
    <3>2. CASE t \notin DOMAIN ordered_by_type
      <4>1. n = 0
        BY <2>2, <3>2, PositionsAgree
      <4>. QED BY <4>1
    <3>. QED BY <3>1, <3>2
  <2>4. {IdsOf(t)[i] : i \in 1..n} = {i \in DOMAIN entries : entries[i].fields.entry_type = t}
    <3>1. CASE t \in DOMAIN ordered_by_type
      BY <1>11, <3>1 DEF IdsOf
    <3>2. CASE t \notin DOMAIN ordered_by_type
      <4>1. n = 0
        BY <2>2, <3>2, PositionsAgree
      <4>. QED BY <1>2, <3>2, <4>1 DEF EntriesInv
    <3>. QED BY <3>1, <3>2
  <2>5. {new[i] : i \in DOMAIN new} = {i \in DOMAIN entries' : entries'[i].fields.entry_type = t}
    <3>1. {new[i] : i \in DOMAIN new} = {IdsOf(t)[i] : i \in 1..n} \cup {id}
      <4>1. 1..(n + 1) = 1..n \cup {n + 1}
        BY <2>2
      <4>. QED BY <1>9, <2>2, <4>1
    <3>2. {i \in DOMAIN entries' : entries'[i].fields.entry_type = t}
            = {i \in DOMAIN entries : entries[i].fields.entry_type = t} \cup {id}
      BY <1>3, <1>4, <1>5 DEF t
    <3>. QED BY <2>4, <3>1, <3>2
  <2>6. ASSUME NEW i \in DOMAIN new
        PROVE  /\ entries'[new[i]].chain_position = i
               /\ i > 1 /\ new[i - 1] \notin tampered =>
                    entries'[new[i]].previous_hash = entries'[new[i - 1]].entry_hash
    <3>1. CASE i \in 1..n
      <4>1. i > 1 => i - 1 \in 1..n
        BY <2>2, <3>1
      <4>. QED BY <2>3, <3>1, <4>1
    <3>2. CASE i = n + 1
      <4>1. new[i] = id /\ entries'[new[i]] = e /\ e.chain_position = i
        BY <1>1, <1>5, <1>9, <3>2 DEF id, t
      <4>2. ASSUME i > 1, new[i - 1] \notin tampered PROVE e.previous_hash = entries'[new[i - 1]].entry_hash
        <5>1. n \in 1..n /\ n > 0 /\ i - 1 = n
          BY <2>2, <3>2, <4>2
        <5>2. t \in DOMAIN ordered_by_type /\ t \in DOMAIN chain_tips
          BY <5>1, PositionsAgree
        <5>3. new[n] = ordered_by_type[t][n] /\ n = Len(ordered_by_type[t])
          BY <2>3, <5>1, <5>2 DEF IdsOf
        <5>4. /\ entries[new[n]].entry_id = new[n]
              /\ chain_tips[t] = ChainTip(entries[new[n]])
          <6>1. new[n] \in DOMAIN entries /\ new[n] \notin tampered
            BY <2>3, <4>2, <5>1
          <6>2. entries[new[n]].entry_id = new[n]
            BY <1>2, <6>1 DEF EntriesInv
          <6>3. entries[ordered_by_type[t][Len(ordered_by_type[t])]].entry_id \notin tampered =>
                  chain_tips[t] = ChainTip(entries[ordered_by_type[t][Len(ordered_by_type[t])]])
            BY <1>11, <5>2
          <6>. QED BY <5>3, <6>1, <6>2, <6>3
        <5>5. e.previous_hash = chain_tips[t].hash
          BY <1>1, <5>2 DEF t
        <5>. QED BY <2>3, <5>1, <5>4, <5>5 DEF ChainTip
      <4>. QED BY <4>1, <4>2
    <3>. QED BY <2>2, <3>1, <3>2
  <2>7. /\ DOMAIN ChainTip(e) = DOMAIN ChainTip(entries'[new[Len(new)]])
        /\ ChainTip(e).position = Len(new) /\ ChainTip(e) = ChainTip(entries'[new[Len(new)]])
    BY <1>1, <1>5, <1>9, <2>2 DEF ChainTip, t, id
  <2>8. tampered' = tampered
    BY <1>1
  <2>. QED BY <2>1, <2>5, <2>6, <2>7, <2>8
<1>14. chain_tips' = [u \in DOMAIN chain_tips' |-> chain_tips'[u]]
  BY <1>1
<1>. QED BY <1>6, <1>10, <1>12, <1>13, <1>14 DEF ListsInv

\* Appending adds the new key to the index and the new record to the outbox.
LEMMA AppendIndex ==
    ASSUME ReceiptsInv, NEW c \in Call, call[c].pc = "write", NEW e, Appends(c, e)
    PROVE  /\ IndexInv' /\ OutboxInv'
           /\ DOMAIN idempotency_index \subseteq DOMAIN idempotency_index'
           /\ \A k \in DOMAIN idempotency_index : idempotency_index'[k] = idempotency_index[k]
<1>. DEFINE id == e.entry_id
            K == IndexKey(e.fields)
<1>1. /\ id \in EntryId \ DOMAIN entries /\ IsEntry(e) /\ ~KeyTaken(e.fields)
      /\ entries' = [i \in DOMAIN entries \cup {id} |-> IF i = id THEN e ELSE entries[i]]
  BY AppendIs
<1>2. InsertEntry(e)
  BY DEF Appends
<1>3. IndexInv /\ OutboxInv
  BY DEF ReceiptsInv
<1>4. /\ DOMAIN entries' = DOMAIN entries \cup {id} /\ entries'[id] = e
      /\ \A i \in DOMAIN entries : entries'[i] = entries[i]
  BY <1>1
<1>5. OutboxInv'
  <2>1. outbox' = IF ~CreateOutbox THEN outbox
                  ELSE Insert(outbox, e.entry_id,
                              [entry_id |-> e.entry_id, status |-> "Pending", attempt_count |-> 0])
    BY <1>2 DEF InsertEntry
  <2>2. CASE ~CreateOutbox
    BY <1>3, <1>4, <2>1, <2>2 DEF OutboxInv
  <2>3. CASE CreateOutbox
    BY <1>3, <1>4, <2>1, <2>3 DEF OutboxInv, Insert
  <2>. QED BY <2>2, <2>3
<1>6. CASE e.fields.idempotency_key = None
  <2>1. idempotency_index' = idempotency_index
    BY <1>2, <1>6 DEF InsertEntry
  <2>2. {j \in DOMAIN entries' : entries'[j].fields.idempotency_key # None}
          = {j \in DOMAIN entries : entries[j].fields.idempotency_key # None}
    BY <1>4, <1>6
  <2>3. DOMAIN idempotency_index' =
         {IndexKey(entries'[i].fields) : i \in {j \in DOMAIN entries' :
                                                 entries'[j].fields.idempotency_key # None}}
    BY <1>3, <1>4, <2>1, <2>2 DEF IndexInv
  <2>4. \A k \in DOMAIN idempotency_index : /\ idempotency_index[k] \in DOMAIN entries
                                            /\ IndexKey(entries[idempotency_index[k]].fields) = k
    BY <1>3 DEF IndexInv
  <2>5. idempotency_index' \in [DOMAIN idempotency_index' -> DOMAIN entries']
    BY <1>3, <1>4, <2>1 DEF IndexInv
  <2>6. \A k \in DOMAIN idempotency_index' : IndexKey(entries'[idempotency_index'[k]].fields) = k
    BY <1>4, <2>1, <2>4
  <2>. QED BY <1>5, <2>1, <2>3, <2>5, <2>6 DEF IndexInv
<1>7. CASE e.fields.idempotency_key # None
  <2>1. idempotency_index' = [k \in DOMAIN idempotency_index \cup {K} |->
                                IF k = K THEN id ELSE idempotency_index[k]]
    BY <1>2, <1>7 DEF InsertEntry, Insert
  <2>2. K \notin DOMAIN idempotency_index
    BY <1>1, <1>7 DEF KeyTaken
  <2>. HIDE DEF K
  <2>3. {j \in DOMAIN entries' : entries'[j].fields.idempotency_key # None}
          = {j \in DOMAIN entries : entries[j].fields.idempotency_key # None} \cup {id}
    BY <1>4, <1>7
  <2>4. DOMAIN idempotency_index' =
         {IndexKey(entries'[i].fields) : i \in {j \in DOMAIN entries' :
                                                 entries'[j].fields.idempotency_key # None}}
    BY <1>3, <1>4, <2>1, <2>3 DEF IndexInv, K
  <2>5. \A k \in DOMAIN idempotency_index : /\ idempotency_index[k] \in DOMAIN entries
                                            /\ IndexKey(entries[idempotency_index[k]].fields) = k
    BY <1>3 DEF IndexInv
  <2>6. idempotency_index' \in [DOMAIN idempotency_index' -> DOMAIN entries']
    BY <1>4, <2>1, <2>5
  <2>7. \A k \in DOMAIN idempotency_index' : IndexKey(entries'[idempotency_index'[k]].fields) = k
    BY <1>4, <2>1, <2>5 DEF K
  <2>. QED BY <1>5, <2>1, <2>2, <2>4, <2>6, <2>7 DEF IndexInv
<1>. QED BY <1>6, <1>7

\* An append keeps the invariant: what other calls hold, and every receipt issued
\* before, is untouched by the new entry.
LEMMA AppendKeeps ==
    ASSUME ReceiptsInv, NEW c \in Call, call[c].pc = "write", NEW e, Appends(c, e)
    PROVE  ReceiptsInv'
<1>. DEFINE id == e.entry_id
            t == e.fields.entry_type
<1>1. /\ id \in EntryId \ DOMAIN entries /\ IsEntry(e) /\ e.fields = call[c].input
      /\ e.entry_hash = canonical_entry_hash(e)
      /\ e.previous_hash = IF t \in DOMAIN chain_tips THEN chain_tips[t].hash ELSE Genesis
      /\ e.chain_position = Len(IdsOf(t)) + 1 /\ id \notin tampered /\ ~KeyTaken(e.fields)
      /\ entries' = [i \in DOMAIN entries \cup {id} |-> IF i = id THEN e ELSE entries[i]]
      /\ ordered_by_type' = [u \in DOMAIN ordered_by_type \cup {t} |->
                               IF u = t THEN Append(IdsOf(t), id) ELSE ordered_by_type[u]]
      /\ chain_tips' = [u \in DOMAIN chain_tips \cup {t} |->
                          IF u = t THEN ChainTip(e) ELSE chain_tips[u]]
      /\ UNCHANGED tampered
  BY AppendIs
<1>2. /\ IndexInv' /\ OutboxInv'
      /\ DOMAIN idempotency_index \subseteq DOMAIN idempotency_index'
      /\ \A k \in DOMAIN idempotency_index : idempotency_index'[k] = idempotency_index[k]
  BY AppendIndex
<1>3. EntriesInv' /\ ListsInv'
  BY AppendEntries, AppendLists
<1>4. call = [d \in Call |-> call[d]] /\ resp = [d \in Call |-> resp[d]]
  BY DEF ReceiptsInv
<1>5. Reply(c, Answered(call[c].input, e))
  BY DEF Appends
<1>6. /\ OnlyMoves(c) /\ call'[c] = Idle /\ resp'[c] = Answered(call[c].input, e)
  BY <1>4, <1>5 DEF OnlyMoves, Reply
<1>7. /\ DOMAIN entries' = DOMAIN entries \cup {id} /\ entries'[id] = e
      /\ \A i \in DOMAIN entries : entries'[i] = entries[i]
  BY <1>1
<1>8. ASSUME NEW d \in Call PROVE CallInv(d)'
  <2>1. CASE d = c
    BY <1>6, <2>1 DEF CallInv
  <2>2. CASE d # c
    <3>1. call'[d] = call[d] /\ CallInv(d)
      BY <1>6, <2>2 DEF OnlyMoves, ReceiptsInv
    <3>2. ASSUME call[d] # Idle, call[d].pc = "write" PROVE call[d].input.entry_type # t
      <4>1. HoldsChainGuard(c, t)
        BY <1>1 DEF HoldsChainGuard
      <4>2. t \in EntryType
        BY <1>1 DEF IsEntry, Accepted
      <4>3. ~HoldsChainGuard(d, t)
        BY <2>2, <4>1, <4>2 DEF ReceiptsInv, MutexInv
      <4>. QED BY <3>2, <4>3 DEF HoldsChainGuard
    <3>3. ASSUME call[d] # Idle, call[d].pc = "write"
          PROVE  LET u == call[d].input.entry_type IN
                 call[d].previous_hash = IF u \in DOMAIN chain_tips' THEN chain_tips'[u].hash ELSE Genesis
      <4>1. PICK u : u = call[d].input.entry_type
        OBVIOUS
      <4>2. /\ u # t
            /\ call[d].previous_hash = IF u \in DOMAIN chain_tips THEN chain_tips[u].hash ELSE Genesis
        BY <3>1, <3>2, <3>3, <4>1 DEF CallInv
      <4>. HIDE DEF t
      <4>3. /\ u \in DOMAIN chain_tips' <=> u \in DOMAIN chain_tips
            /\ u \in DOMAIN chain_tips => chain_tips'[u] = chain_tips[u]
        BY <1>1, <4>2 DEF t
      <4>. QED BY <4>1, <4>2, <4>3
    <3>. QED BY <1>2, <3>1, <3>3 DEF CallInv
  <2>. QED BY <2>1, <2>2
<1>9. ASSUME NEW d \in Call PROVE RespInv(d)'
  <2>1. CASE d = c
    <3>. DEFINE q == ProofReceipt(call[c].input, e)
    <3>1. resp'[d] = [status |-> "ok", receipt |-> q]
      BY <1>6, <2>1 DEF Answered
    <3>2. /\ q.write = WriteEntryOutput(e) /\ q.entry_type = t
          /\ \A f \in ProofField : q.proof[f] = unwrap_or_default(e.fields[f])
      BY <1>1 DEF ProofReceipt
    <3>3. q.write.entry_id = id /\ q.write.entry_hash = canonical_entry_hash(e)
      BY <1>1, <3>2 DEF WriteEntryOutput
    <3>4. DigestOf(id, canonical_entry_hash(e))
      BY DEF DigestOf, canonical_entry_hash, sha256_hex
    <3>. HIDE DEF q
    <3>5. ReceiptInv(resp[d].receipt)'
      BY <1>1, <1>7, <3>1, <3>2, <3>3, <3>4 DEF ReceiptInv
    <3>. QED BY <3>1, <3>5 DEF RespInv
  <2>2. CASE d # c
    <3>1. resp'[d] = resp[d] /\ RespInv(d)
      BY <1>6, <2>2 DEF OnlyMoves, ReceiptsInv
    <3>2. resp[d].status = "ok" => ReceiptInv(resp[d].receipt)'
      <4>1. resp[d].status = "ok" => ReceiptInv(resp[d].receipt)
        BY <3>1 DEF RespInv
      <4>2. ReceiptInv(resp[d].receipt) => ReceiptInv(resp[d].receipt)'
        BY <1>1, <1>7, <3>1 DEF ReceiptInv
      <4>. QED BY <4>1, <4>2
    <3>3. find_idempotent(resp[d].input) \subseteq find_idempotent(resp[d].input)'
      BY <1>2, <1>7, <3>1 DEF find_idempotent
    <3>. QED BY <1>1, <3>1, <3>2, <3>3 DEF RespInv
  <2>. QED BY <2>1, <2>2
<1>10. MutexInv'
  <2>1. \A d \in Call : \A u : HoldsChainGuard(d, u)' => HoldsChainGuard(d, u)
    BY <1>6 DEF HoldsChainGuard, OnlyMoves, Idle
  <2>. QED BY <2>1 DEF ReceiptsInv, MutexInv
<1>11. RoomInv'
  <2>1. AcceptingCalls' = AcceptingCalls \ {c} /\ c \in AcceptingCalls
    BY <1>6 DEF AcceptingCalls, OnlyMoves, Idle
  <2>2. Cardinality(AcceptingCalls') = Cardinality(AcceptingCalls) - 1
    BY <2>1, Sizes, FS_RemoveElement
  <2>3. Cardinality(DOMAIN entries') = Cardinality(DOMAIN entries) + 1
    BY <1>1, <1>7, Sizes, FS_AddElement
  <2>. QED BY <2>2, <2>3, Sizes DEF ReceiptsInv, RoomInv
<1>. QED BY <1>2, <1>3, <1>6, <1>8, <1>9, <1>10, <1>11 DEF ReceiptsInv, OnlyMoves

\* A write keeps the invariant: it appends, or sends the call to look its rival up.
LEMMA WriteKeeps ==
    ASSUME ReceiptsInv, NEW c \in Call, Write(c)
    PROVE  ReceiptsInv'
<1>1. call[c].pc = "write" /\ call[c].input \in Accepted
  BY WriteIs
<1>2. CASE IndexKey(call[c].input) \in DOMAIN idempotency_index /\ Goto(c, "conflict")
           /\ UNCHANGED <<inner, tampered>>
  <2>1. CallInv(c) /\ call = [d \in Call |-> call[d]]
    BY DEF ReceiptsInv
  <2>2. /\ call[c] = [pc |-> call[c].pc, input |-> call[c].input,
                      previous_hash |-> call[c].previous_hash, written_ts |-> call[c].written_ts]
    BY <1>1, <2>1 DEF CallInv, Idle
  <2>3. call' = [call EXCEPT ![c].pc = "conflict"] /\ UNCHANGED resp
    BY <1>2 DEF Goto
  <2>4. /\ call'[c] = [pc |-> "conflict", input |-> call[c].input,
                       previous_hash |-> call[c].previous_hash, written_ts |-> call[c].written_ts]
        /\ call' = [call EXCEPT ![c] = call'[c]]
    BY <2>1, <2>2, <2>3
  <2>5. CallInv(c)'
    BY <1>1, <1>2, <2>4 DEF CallInv, inner
  <2>6. \A t : HoldsChainGuard(c, t)' => HoldsChainGuard(c, t)
    BY <1>1, <2>4 DEF HoldsChainGuard
  <2>. QED BY <1>1, <1>2, <2>3, <2>4, <2>5, <2>6, CallGoesOn
<1>3. ASSUME NEW e, Appends(c, e) PROVE ReceiptsInv'
  BY <1>1, <1>3, AppendKeeps
<1>. QED BY <1>2, <1>3, WriteIs

-----------------------------------------------------------------------------
(* The invariant *)

\* The maps, the calls and the answers agree, whatever calls race and whatever is
\* damaged (InMemoryLedgerRepository, write_entry_impl, issue_receipt).
THEOREM ReceiptsInvariant == Spec => []ReceiptsInv
<1>1. Init => ReceiptsInv
  <2>. SUFFICES ASSUME Init PROVE ReceiptsInv
    OBVIOUS
  <2>1. /\ entries = EmptyMap /\ ordered_by_type = EmptyMap /\ chain_tips = EmptyMap
        /\ idempotency_index = EmptyMap /\ outbox = EmptyMap /\ tampered = {}
    BY DEF Init, RepositoryInit
  <2>2. DOMAIN EmptyMap = {} /\ EmptyMap = [x \in DOMAIN EmptyMap |-> EmptyMap[x]]
    BY DEF EmptyMap
  <2>3. EntriesInv
    BY <2>1, <2>2 DEF EntriesInv
  <2>4. ListsInv
    BY <2>1, <2>2 DEF ListsInv
  <2>5. IndexInv
    BY <2>1, <2>2 DEF IndexInv
  <2>6. OutboxInv
    BY <2>1, <2>2 DEF OutboxInv
  <2>7. \A c \in Call : CallInv(c) /\ RespInv(c)
    BY DEF Init, CallInv, RespInv, Silent
  <2>8. MutexInv
    BY DEF Init, MutexInv, HoldsChainGuard, Idle
  <2>9. RoomInv
    <3>1. DOMAIN entries = {} /\ AcceptingCalls = {}
      BY <2>1, <2>2 DEF AcceptingCalls, Init, Idle
    <3>2. Cardinality(EntryId) \in Nat
      BY RepositoryAssumption, FS_CardinalityType
    <3>. QED BY <3>1, <3>2, FS_EmptySet DEF RoomInv
  <2>10. call = [c \in Call |-> call[c]] /\ resp = [c \in Call |-> resp[c]]
    BY DEF Init
  <2>. QED BY <2>3, <2>4, <2>5, <2>6, <2>7, <2>8, <2>9, <2>10 DEF ReceiptsInv
<1>2. ReceiptsInv /\ [Next]_vars => ReceiptsInv'
  <2>. SUFFICES ASSUME ReceiptsInv, [Next]_vars PROVE ReceiptsInv'
    OBVIOUS
  <2>1. ASSUME NEW c \in Call,
               \/ Receive(c) \/ FindIdempotent(c) \/ AcquireChainLock(c) \/ GetChainTip(c)
               \/ Write(c) \/ ConflictLookup(c)
        PROVE  ReceiptsInv'
    BY <2>1, ReceiveKeeps, FindKeeps, LockKeeps, TipKeeps, WriteKeeps, ConflictKeeps
  <2>2. ASSUME NEW id \in EntryId, PublishOk(id) \/ PublishErr(id) \/ Tamper(id)
        PROVE  ReceiptsInv'
    BY <2>2, PublishKeeps, TamperKeeps
  <2>3. CASE UNCHANGED vars
    <3>1. outbox' = [o \in DOMAIN outbox |-> outbox'[o]]
      BY <2>3 DEF vars, inner, ReceiptsInv, OutboxInv
    <3>. QED BY <2>3, <3>1, OutboxKeeps DEF vars, inner
  <2>. QED BY <2>1, <2>2, <2>3 DEF Next
<1>. QED BY <1>1, <1>2, PTL DEF Spec

\* A process alone with its repository never meets ChainIntegrityViolation: the mutex
\* spans the tip read and the write (write_entry_impl).
THEOREM NeverContends == Spec => []SoleWriterNeverContends
<1>1. ReceiptsInv => SoleWriterNeverContends
  BY DEF ReceiptsInv, CallInv, Idle, SoleWriterNeverContends
<1>. QED BY <1>1, ReceiptsInvariant, PTL

\* ALREADY_EXISTS is never the answer to a faithful retry (idempotent_request_matches).
THEOREM RetriesAccepted == Spec => []RetryAccepted
<1>1. ReceiptsInv => RetryAccepted
  BY DEF ReceiptsInv, RespInv, RetryAccepted
<1>. QED BY <1>1, ReceiptsInvariant, PTL

-----------------------------------------------------------------------------
(* Receipts *)

\* What a lookup by the hash of a receipt finds.
LEMMA LookupFinds ==
    ASSUME ReceiptsInv, NEW p \in Issued, NEW j \in DOMAIN entries,
           entries[j].entry_hash = p.write.entry_hash
    PROVE  /\ p.write.entry_hash # EmptyHash /\ p.entry_type # ""
           /\ IsEntry(entries[j]) /\ entries[j].entry_id = j
           /\ canonical_entry_hash(entries[j]) = entries[j].entry_hash <=> j \notin tampered
           /\ j \notin tampered => j = p.write.entry_id
<1>1. PICK c \in Call : resp[c].status = "ok" /\ p = resp[c].receipt
  BY DEF Issued
<1>2. ReceiptInv(p)
  BY <1>1 DEF ReceiptsInv, RespInv
<1>3. IsEntry(entries[j]) /\ DigestHolds(entries[j]) /\ entries[j].entry_id = j
  BY DEF ReceiptsInv, EntriesInv
<1>4. /\ DigestOf(j, entries[j].entry_hash) /\ entries[j].entry_hash # EmptyHash
      /\ canonical_entry_hash(entries[j]) = entries[j].entry_hash <=> j \notin tampered
  BY <1>3, DigestTells
<1>5. j \notin tampered => j = p.write.entry_id
  <2>. SUFFICES ASSUME j \notin tampered PROVE j = p.write.entry_id
    OBVIOUS
  <2>1. entries[j].entry_hash # TamperedHash
    BY <1>4, DigestsDiffer
  <2>2. DigestOf(p.write.entry_id, entries[j].entry_hash)
    BY <1>2 DEF ReceiptInv
  <2>. QED BY <1>4, <2>1, <2>2, DigestNames
<1>6. p.entry_type # ""
  <2>1. p.write.entry_id \in DOMAIN entries /\ p.entry_type = entries[p.write.entry_id].fields.entry_type
    BY <1>2 DEF ReceiptInv
  <2>2. entries[p.write.entry_id].fields \in Accepted
    BY <2>1 DEF ReceiptsInv, EntriesInv, IsEntry
  <2>. QED BY <2>1, <2>2 DEF Accepted
<1>. QED BY <1>3, <1>4, <1>5, <1>6

\* No receipt verifies once its entry was damaged (verify_proof).
THEOREM DamageDetected == Spec => []TamperDetected
<1>1. ReceiptsInv => TamperDetected
  <2>. SUFFICES ASSUME ReceiptsInv, NEW p \in Issued \ Sound,
                       NEW out \in VerifyProof(p.entry_type, p.write.entry_hash)
                PROVE  out = NotFound \/ out.failure_reason = "entry_hash_mismatch"
    BY DEF TamperDetected
  <2>. DEFINE found == get_entry_by_hash(p.entry_type, p.write.entry_hash)
  <2>1. p.write.entry_id \in tampered
    BY DEF Sound
  <2>2. p.write.entry_hash # EmptyHash /\ p.entry_type # ""
    <3>1. PICK c \in Call : resp[c].status = "ok" /\ p = resp[c].receipt
      BY DEF Issued
    <3>2. ReceiptInv(p)
      BY <3>1 DEF ReceiptsInv, RespInv
    <3>3. p.write.entry_id \in DOMAIN entries /\ p.entry_type = entries[p.write.entry_id].fields.entry_type
      BY <3>2 DEF ReceiptInv
    <3>4. entries[p.write.entry_id].fields \in Accepted
      BY <3>3 DEF ReceiptsInv, EntriesInv, IsEntry
    <3>5. DigestOf(p.write.entry_id, p.write.entry_hash)
      BY <3>2 DEF ReceiptInv
    <3>6. p.write.entry_hash # EmptyHash
      BY <3>5, DigestsDiffer DEF DigestOf, EmptyHash, sha256_hex
    <3>. QED BY <3>3, <3>4, <3>6 DEF Accepted
  <2>3. CASE found = {}
    BY <2>2, <2>3 DEF VerifyProof
  <2>4. CASE found # {}
    <3>1. PICK e \in found : out = VerifyProofOutput(e)
      BY <2>2, <2>4 DEF VerifyProof
    <3>2. PICK j \in DOMAIN entries : e = entries[j] /\ entries[j].entry_hash = p.write.entry_hash
      BY <3>1 DEF get_entry_by_hash
    <3>3. IsEntry(e) /\ canonical_entry_hash(e) # e.entry_hash
      BY <2>1, <3>2, LookupFinds
    <3>4. canonical_entry_hash_for_version(e) = {canonical_entry_hash(e)}
      BY <3>3 DEF canonical_entry_hash_for_version, IsEntry
    <3>. QED BY <3>1, <3>3, <3>4 DEF VerifyProofOutput
  <2>. QED BY <2>3, <2>4
<1>. QED BY <1>1, ReceiptsInvariant, PTL

\* A receipt proves what it says for as long as its entry is untouched (issue_receipt,
\* verify_proof): the digest names the entry, so nothing else answers to its hash.
THEOREM ReceiptsVerify == Spec => []ReceiptVerifies
<1>1. ReceiptsInv => ReceiptVerifies
  <2>. SUFFICES ASSUME ReceiptsInv, NEW p \in Sound
                PROVE  \E out \in VerifyProof(p.entry_type, p.write.entry_hash) :
                         /\ VerifyProof(p.entry_type, p.write.entry_hash) = {out}
                         /\ out # NotFound /\ out # InvalidArgument
                         /\ out.valid /\ out.failure_reason = ""
                         /\ out.chain_position = p.write.chain_position
                         /\ out.written_ts = p.write.written_ts
                         /\ \A f \in ProofField : out.fields[f] = p.proof[f]
                         /\ GetEntryByHash(p.entry_type, p.write.entry_hash) = {GetEntry(p.write.entry_id)}
                         /\ GetEntry(p.write.entry_id).write = p.write
                         /\ GetChainTipResponse(p.entry_type).position >= p.write.chain_position
    BY DEF ReceiptVerifies
  <2>1. PICK id, e, t, hash : /\ id = p.write.entry_id /\ e = entries[id]
                              /\ t = p.entry_type /\ hash = p.write.entry_hash
    OBVIOUS
  <2>2. ReceiptInv(p) /\ p \in Issued /\ id \notin tampered
    BY <2>1 DEF Sound, Issued, ReceiptsInv, RespInv
  <2>3. /\ id \in DOMAIN entries /\ t = e.fields.entry_type /\ p.write = WriteEntryOutput(e)
        /\ \A f \in ProofField : p.proof[f] = unwrap_or_default(e.fields[f])
    BY <2>1, <2>2 DEF ReceiptInv
  <2>4. hash = e.entry_hash /\ p.write.chain_position = e.chain_position /\ p.write.written_ts = e.written_ts
    BY <2>1, <2>3 DEF WriteEntryOutput
  <2>5. /\ hash # EmptyHash /\ t # "" /\ IsEntry(e)
        /\ canonical_entry_hash(e) = hash
    <3>1. /\ id \in DOMAIN entries /\ p \in Issued /\ entries[id].entry_hash = p.write.entry_hash
          /\ id \notin tampered
      BY <2>1, <2>2, <2>3, <2>4
    <3>2. /\ p.write.entry_hash # EmptyHash /\ p.entry_type # "" /\ IsEntry(entries[id])
          /\ canonical_entry_hash(entries[id]) = entries[id].entry_hash
      BY <3>1, LookupFinds
    <3>. QED BY <2>1, <3>1, <3>2
  <2>6. get_entry_by_hash(t, hash) = {e}
    <3>1. ASSUME NEW j \in DOMAIN entries, entries[j].entry_hash = hash PROVE j = id
      <4>1. j \notin tampered
        <5>1. DigestHolds(entries[j]) /\ entries[j].entry_id = j /\ IsEntry(entries[j])
          BY DEF ReceiptsInv, EntriesInv
        <5>2. DigestOf(j, hash) /\ DigestOf(id, hash)
          BY <2>1, <2>2, <3>1, <5>1, DigestTells DEF ReceiptInv
        <5>3. hash # TamperedHash
          BY <2>5, DigestsDiffer
        <5>. QED BY <2>2, <5>2, <5>3, DigestNames
      <4>2. p \in Issued /\ entries[j].entry_hash = p.write.entry_hash
        BY <2>1, <2>2, <3>1
      <4>3. j = p.write.entry_id
        BY <4>1, <4>2, LookupFinds
      <4>. QED BY <2>1, <4>3
    <3>2. {j \in DOMAIN entries : entries[j].fields.entry_type = t /\ entries[j].entry_hash = hash} = {id}
      BY <2>1, <2>3, <2>4, <3>1
    <3>. QED BY <2>1, <3>2 DEF get_entry_by_hash
  <2>7. VerifyProof(t, hash) = {VerifyProofOutput(e)} /\ GetEntryByHash(t, hash) = {LedgerEntry(e)}
    BY <2>5, <2>6 DEF VerifyProof, GetEntryByHash
  <2>8. PICK out : out = VerifyProofOutput(e)
    OBVIOUS
  <2>9. canonical_entry_hash_for_version(e) = {e.entry_hash}
    <3>1. e.hash_version = ENTRY_HASH_VERSION
      <4>1. IsEntry(e)
        BY <2>5
      <4>. QED BY <4>1 DEF IsEntry
    <3>. QED BY <2>4, <2>5, <3>1 DEF canonical_entry_hash_for_version
  <2>10. out = [valid |-> TRUE, failure_reason |-> "", chain_position |-> e.chain_position,
                written_ts |-> e.written_ts, hash_version |-> e.hash_version,
                fields |-> ToWire(e.fields)]
    BY <2>8, <2>9 DEF VerifyProofOutput
  <2>11. out # NotFound /\ out # InvalidArgument
    <3>1. "valid" \in DOMAIN out /\ DOMAIN NotFound = {"error"} /\ DOMAIN InvalidArgument = {"error"}
      BY <2>10 DEF NotFound, InvalidArgument
    <3>. QED BY <3>1
  <2>12. \A f \in ProofField : out.fields[f] = p.proof[f]
    <3>1. out.fields = ToWire(e.fields)
      BY <2>10
    <3>2. DOMAIN e.fields = Field /\ ProofField \subseteq Field /\ ProofField \subseteq OptionalField
      BY <2>5 DEF IsEntry, Accepted, Input, Field, OptionalField, ProofField
    <3>. QED BY <2>3, <3>1, <3>2 DEF ToWire
  <2>13. GetEntry(id) = LedgerEntry(e)
    <3>1. get_entry(id) = e /\ id \in EntryId
      BY <2>1, <2>3 DEF get_entry, ReceiptsInv, EntriesInv
    <3>2. e # NotFound
      <4>1. "entry_hash" \in DOMAIN e /\ DOMAIN NotFound = {"error"}
        BY <2>5 DEF IsEntry, NotFound
      <4>. QED BY <4>1
    <3>. QED BY <3>1, <3>2 DEF GetEntry
  <2>14. GetEntry(id).write = p.write
    BY <2>3, <2>13 DEF LedgerEntry
  <2>15. GetChainTipResponse(t).position >= e.chain_position
    <3>1. t \in DOMAIN ordered_by_type
      BY <2>1, <2>3 DEF ReceiptsInv, EntriesInv
    <3>2. PICK ids : ids = ordered_by_type[t]
      OBVIOUS
    <3>3. /\ {ids[i] : i \in DOMAIN ids} = {i \in DOMAIN entries : entries[i].fields.entry_type = t}
          /\ \A i \in DOMAIN ids : entries[ids[i]].chain_position = i
          /\ chain_tips[t].position = Len(ids) /\ t \in DOMAIN chain_tips
          /\ ids \in Seq(DOMAIN entries)
      BY <3>1, <3>2 DEF ReceiptsInv, ListsInv
    <3>4. PICK i \in DOMAIN ids : ids[i] = id
      <4>1. id \in {j \in DOMAIN entries : entries[j].fields.entry_type = t}
        BY <2>1, <2>3
      <4>. QED BY <3>3, <4>1
    <3>5. e.chain_position = i /\ i \in 1..Len(ids) /\ Len(ids) \in Nat
      BY <2>1, <3>3, <3>4
    <3>6. GetChainTipResponse(t) = chain_tips[t]
      BY <2>5, <3>3 DEF GetChainTipResponse, get_chain_tip
    <3>. QED BY <3>3, <3>5, <3>6
  <2>16. /\ out \in VerifyProof(t, hash) /\ VerifyProof(t, hash) = {out}
         /\ out.valid /\ out.failure_reason = "" /\ out.chain_position = e.chain_position
         /\ out.written_ts = e.written_ts
    <3>1. VerifyProof(t, hash) = {out}
      BY <2>7, <2>8
    <3>2. out.valid
      BY <2>10
    <3>3. out.failure_reason = "" /\ out.chain_position = e.chain_position /\ out.written_ts = e.written_ts
      BY <2>10
    <3>. QED BY <3>1, <3>2, <3>3
  <2>17. GetEntryByHash(t, hash) = {GetEntry(id)}
    BY <2>7, <2>13
  <2>. QED BY <2>1, <2>4, <2>11, <2>12, <2>14, <2>15, <2>16, <2>17
<1>. QED BY <1>1, ReceiptsInvariant, PTL

-----------------------------------------------------------------------------
(* The maps *)

\* The entries of a page are the next ones of the chain (get_entries_by_type_paged).
LEMMA PageIs ==
    ASSUME ReceiptsInv, NEW t \in DOMAIN ordered_by_type,
           NEW after \in 0..Len(IdsOf(t)), NEW limit \in Nat \ {0}
    PROVE  LET page == get_entries_by_type_paged(t, after, limit)
               left == Len(IdsOf(t)) - after
           IN  /\ Len(page) = IF left < limit THEN left ELSE limit
               /\ \A i \in DOMAIN page : entries[page[i]].chain_position = after + i
<1>1. PICK ids, n : ids = IdsOf(t) /\ n = Len(ids)
  OBVIOUS
<1>2. /\ ids \in Seq(DOMAIN entries) /\ n \in Nat /\ DOMAIN ids = 1..n
      /\ \A i \in DOMAIN ids : entries[ids[i]].chain_position = i
  BY <1>1, PositionsAgree DEF IdsOf, ReceiptsInv, ListsInv
<1>3. after \in Nat /\ after <= n
  BY <1>1, <1>2
<1>4. PICK above : above = {i \in DOMAIN ids : entries[ids[i]].chain_position > after}
  OBVIOUS
<1>5. above = (after + 1)..n
  BY <1>2, <1>3, <1>4
<1>6. Cardinality(above) = n - after
  <2>1. after + 1 \in Int /\ n \in Int
    BY <1>2, <1>3
  <2>2. Cardinality((after + 1)..n) = IF after + 1 > n THEN 0 ELSE n - (after + 1) + 1
    BY <2>1, FS_Interval
  <2>. QED BY <1>2, <1>3, <1>5, <2>2
<1>7. ASSUME NEW i \in above PROVE Cardinality({j \in above : j <= i}) = i - after
  <2>1. {j \in above : j <= i} = (after + 1)..i /\ i \in Int /\ i > after
    BY <1>2, <1>3, <1>5
  <2>2. after + 1 \in Int
    BY <1>3
  <2>3. Cardinality((after + 1)..i) = IF after + 1 > i THEN 0 ELSE i - (after + 1) + 1
    BY <2>1, <2>2, FS_Interval
  <2>4. (IF after + 1 > i THEN 0 ELSE i - (after + 1) + 1) = i - after
    BY <1>3, <2>1
  <2>. QED BY <2>1, <2>3, <2>4
<1>. DEFINE nth(k) == CHOOSE i \in above : Cardinality({j \in above : j <= i}) = k
<1>8. ASSUME NEW k \in 1..(n - after) PROVE nth(k) = after + k
  <2>1. after + k \in above /\ after \in Int /\ k \in Int
    BY <1>2, <1>3, <1>5
  <2>2. \A i \in above : i \in Int /\ (Cardinality({j \in above : j <= i}) = k <=> i = after + k)
    BY <1>2, <1>3, <1>5, <1>7, <2>1
  <2>. QED BY <2>1, <2>2
<1>. HIDE DEF nth
<1>9. PICK count : count = IF limit < n - after THEN limit ELSE n - after
  OBVIOUS
<1>10. get_entries_by_type_paged(t, after, limit) = [k \in 1..count |-> ids[nth(k)]]
  BY <1>1, <1>4, <1>6, <1>9 DEF get_entries_by_type_paged, nth
<1>11. count \in Nat /\ count <= n - after /\ count = IF n - after < limit THEN n - after ELSE limit
  BY <1>2, <1>3, <1>9
<1>12. PICK page : page = get_entries_by_type_paged(t, after, limit)
  OBVIOUS
<1>13. Len(page) = count /\ DOMAIN page = 1..count
  BY <1>10, <1>11, <1>12
<1>14. ASSUME NEW k \in 1..count PROVE entries[page[k]].chain_position = after + k
  <2>1. k \in 1..(n - after) /\ after + k \in DOMAIN ids
    BY <1>2, <1>3, <1>11
  <2>2. page[k] = ids[after + k]
    BY <1>8, <1>10, <1>12, <2>1
  <2>. QED BY <1>2, <2>1, <2>2
<1>. QED BY <1>1, <1>11, <1>12, <1>13, <1>14

\* The maps of the repository tell one story, whatever calls race and whatever is
\* damaged (write_entry_with_outbox, get_entries_by_type_paged).
THEOREM MapsTellOneStory == Spec => []MapsAgree
<1>1. ReceiptsInv => MapsAgree
  <2>. SUFFICES ASSUME ReceiptsInv PROVE MapsAgree
    OBVIOUS
  <2>1. EntriesInv /\ ListsInv /\ IndexInv /\ OutboxInv
    BY DEF ReceiptsInv
  <2>2. PagesDense
    <3>1. ASSUME NEW t \in DOMAIN ordered_by_type, NEW after \in 0..Len(IdsOf(t)), NEW limit \in 1..2
          PROVE  LET page == get_entries_by_type_paged(t, after, limit)
                     left == Len(IdsOf(t)) - after
                 IN  /\ Len(page) = IF left < limit THEN left ELSE limit
                     /\ \A i \in DOMAIN page : entries[page[i]].chain_position = after + i
      BY <3>1, PageIs
    <3>. QED BY <3>1 DEF PagesDense, get_distinct_entry_types
  <2>3. /\ \A i \in DOMAIN entries : entries[i].entry_id = i
        /\ DOMAIN outbox \subseteq DOMAIN entries /\ DOMAIN chain_tips = DOMAIN ordered_by_type
    BY <2>1 DEF EntriesInv, OutboxInv, ListsInv
  <2>4. \A t \in DOMAIN ordered_by_type :
          LET ids == ordered_by_type[t]
              last == entries[ids[Len(ids)]]
          IN  /\ {ids[i] : i \in DOMAIN ids} = {i \in DOMAIN entries : entries[i].fields.entry_type = t}
              /\ \A i \in DOMAIN ids :
                   /\ entries[ids[i]].chain_position = i
                   /\ i > 1 /\ ids[i - 1] \notin tampered =>
                        entries[ids[i]].previous_hash = entries[ids[i - 1]].entry_hash
              /\ last.entry_id \notin tampered => chain_tips[t] = ChainTip(last)
    BY <2>1 DEF ListsInv
  <2>. QED BY <2>1, <2>2, <2>3, <2>4 DEF MapsAgree, IndexInv
<1>. QED BY <1>1, ReceiptsInvariant, PTL

-----------------------------------------------------------------------------
(* The log *)

\* The entry of the log that shows the entry i of the repository.
Shown(i) == [key |-> entries[i].fields.idempotency_key, body |-> i]

\* The view is a log of entries.
LEMMA ViewIs ==
    ASSUME ReceiptsInv, NEW t \in EntryType
    PROVE  /\ logView[t] = [i \in DOMAIN IdsOf(t) |-> Shown(IdsOf(t)[i])]
           /\ IdsOf(t) \in Seq(DOMAIN entries) /\ Len(IdsOf(t)) \in Nat
           /\ DOMAIN IdsOf(t) = 1..Len(IdsOf(t))
           /\ \A i \in DOMAIN IdsOf(t) : /\ IdsOf(t)[i] \in DOMAIN entries
                                         /\ entries[IdsOf(t)[i]].fields.entry_type = t
           /\ logView[t] \in Seq(Log!LogEntry) /\ Len(logView[t]) = Len(IdsOf(t))
<1>1. logView[t] = [i \in DOMAIN IdsOf(t) |-> Shown(IdsOf(t)[i])]
  BY DEF logView, Shown
<1>2. IdsOf(t) \in Seq(DOMAIN entries) /\ Len(IdsOf(t)) \in Nat
  BY PositionsAgree
<1>3. PICK ids, n : ids = IdsOf(t) /\ n = Len(ids)
  OBVIOUS
<1>4. DOMAIN ids = 1..n /\ n \in Nat /\ \A i \in DOMAIN ids : ids[i] \in DOMAIN entries
  BY <1>2, <1>3
<1>5. \A i \in DOMAIN ids : entries[ids[i]].fields.entry_type = t
  <2>1. CASE t \in DOMAIN ordered_by_type
    <3>1. ids = ordered_by_type[t]
      BY <1>3, <2>1 DEF IdsOf
    <3>2. {ids[i] : i \in DOMAIN ids} = {i \in DOMAIN entries : entries[i].fields.entry_type = t}
      BY <2>1, <3>1 DEF ReceiptsInv, ListsInv
    <3>. QED BY <3>2
  <2>2. CASE t \notin DOMAIN ordered_by_type
    BY <1>3, <2>2 DEF IdsOf
  <2>. QED BY <2>1, <2>2
<1>6. \A i \in DOMAIN entries : Shown(i) \in Log!LogEntry
  <2>. SUFFICES ASSUME NEW i \in DOMAIN entries PROVE Shown(i) \in Log!LogEntry
    OBVIOUS
  <2>1. i \in EntryId /\ entries[i].fields \in Accepted
    BY DEF ReceiptsInv, EntriesInv, IsEntry
  <2>2. entries[i].fields.idempotency_key \in IdempotencyKey \cup {None}
    BY <2>1 DEF Accepted
  <2>. QED BY <2>1, <2>2 DEF Shown, Log!LogEntry
<1>7. logView[t] \in [1..n -> Log!LogEntry]
  BY <1>1, <1>3, <1>4, <1>6
<1>8. logView[t] \in Seq(Log!LogEntry) /\ Len(logView[t]) = n
  BY <1>4, <1>7
<1>. QED BY <1>1, <1>2, <1>3, <1>4, <1>5, <1>8

\* The log stays while the lists and the keys do.
LEMMA ViewKept ==
    ASSUME ReceiptsInv, ReceiptsInv', UNCHANGED ordered_by_type,
           \A i \in DOMAIN entries :
             entries'[i].fields.idempotency_key = entries[i].fields.idempotency_key
    PROVE  logView' = logView
<1>1. ASSUME NEW t \in EntryType PROVE logView'[t] = logView[t]
  <2>1. logView[t] = [i \in DOMAIN IdsOf(t) |-> Shown(IdsOf(t)[i])]
    BY ViewIs
  <2>2. \A i \in DOMAIN IdsOf(t) : IdsOf(t)[i] \in DOMAIN entries
    BY ViewIs
  <2>3. IdsOf(t)' = IdsOf(t)
    BY DEF IdsOf
  <2>4. logView'[t] = [i \in DOMAIN IdsOf(t)' |-> Shown(IdsOf(t)[i])']
    BY DEF logView, Shown
  <2>5. \A i \in DOMAIN IdsOf(t) : Shown(IdsOf(t)[i])' = Shown(IdsOf(t)[i])
    BY <2>2, <2>3 DEF Shown
  <2>. QED BY <2>1, <2>3, <2>4, <2>5
<1>. QED BY <1>1 DEF logView

\* A successful write appends one entry to the log, under a key no entry of its type
\* has (the check of idempotency_index under the lock).
LEMMA AppendLogs ==
    ASSUME ReceiptsInv, ReceiptsInv', NEW c \in Call, call[c].pc = "write", NEW e, Appends(c, e)
    PROVE  Log!LogNext
<1>1. PICK id, t, new : id = e.entry_id /\ t = e.fields.entry_type /\ new = [key |-> e.fields.idempotency_key, body |-> id]
  OBVIOUS
<1>2. /\ id \in EntryId \ DOMAIN entries /\ IsEntry(e) /\ ~KeyTaken(e.fields)
      /\ entries' = [i \in DOMAIN entries \cup {id} |-> IF i = id THEN e ELSE entries[i]]
      /\ ordered_by_type' = [u \in DOMAIN ordered_by_type \cup {t} |->
                               IF u = t THEN Append(IdsOf(t), id) ELSE ordered_by_type[u]]
  <2>1. /\ e.entry_id \in EntryId \ DOMAIN entries /\ IsEntry(e) /\ ~KeyTaken(e.fields)
        /\ entries' = [i \in DOMAIN entries \cup {e.entry_id} |->
                         IF i = e.entry_id THEN e ELSE entries[i]]
        /\ ordered_by_type' = [u \in DOMAIN ordered_by_type \cup {e.fields.entry_type} |->
                                 IF u = e.fields.entry_type
                                 THEN Append(IdsOf(e.fields.entry_type), e.entry_id)
                                 ELSE ordered_by_type[u]]
    BY AppendIs
  <2>. QED BY <1>1, <2>1
<1>3. t \in EntryType /\ new \in Log!LogEntry
  <2>1. t \in EntryType /\ e.fields.idempotency_key \in IdempotencyKey \cup {None}
    BY <1>1, <1>2 DEF IsEntry, Accepted
  <2>. QED BY <1>1, <1>2, <2>1 DEF Log!LogEntry
<1>4. /\ entries'[id] = e /\ \A i \in DOMAIN entries : entries'[i] = entries[i]
  BY <1>2
<1>5. IdsOf(t)' = Append(IdsOf(t), id) /\ \A u \in EntryType \ {t} : IdsOf(u)' = IdsOf(u)
  BY <1>2 DEF IdsOf
<1>6. ASSUME NEW u \in EntryType, u # t PROVE logView'[u] = logView[u]
  <2>1. logView[u] = [i \in DOMAIN IdsOf(u) |-> Shown(IdsOf(u)[i])]
    BY ViewIs
  <2>2. \A i \in DOMAIN IdsOf(u) : IdsOf(u)[i] \in DOMAIN entries
    BY ViewIs
  <2>3. IdsOf(u)' = IdsOf(u)
    BY <1>5, <1>6
  <2>4. logView'[u] = [i \in DOMAIN IdsOf(u)' |-> Shown(IdsOf(u)[i])']
    BY DEF logView, Shown
  <2>5. \A i \in DOMAIN IdsOf(u) : Shown(IdsOf(u)[i])' = Shown(IdsOf(u)[i])
    BY <1>4, <2>2, <2>3 DEF Shown
  <2>. QED BY <2>1, <2>3, <2>4, <2>5
<1>7. PICK ids, n : ids = IdsOf(t) /\ n = Len(ids)
  OBVIOUS
<1>8. /\ logView[t] = [i \in DOMAIN ids |-> Shown(ids[i])] /\ n \in Nat /\ DOMAIN ids = 1..n
      /\ \A i \in DOMAIN ids : ids[i] \in DOMAIN entries /\ entries[ids[i]].fields.entry_type = t
      /\ logView[t] \in Seq(Log!LogEntry) /\ Len(logView[t]) = n /\ ids \in Seq(DOMAIN entries)
  BY <1>3, <1>7, ViewIs
<1>9. logView'[t] = Append(logView[t], new)
  <2>1. /\ DOMAIN Append(ids, id) = 1..(n + 1) /\ Append(ids, id)[n + 1] = id
        /\ \A i \in 1..n : Append(ids, id)[i] = ids[i]
    <3>1. ids \in Seq(DOMAIN entries \cup {id}) /\ id \in DOMAIN entries \cup {id}
      BY <1>8, SeqMonotonic
    <3>. QED BY <1>7, <1>8, <3>1, AppendProperties
  <2>2. logView'[t] = [i \in 1..(n + 1) |-> [key |-> entries'[Append(ids, id)[i]].fields.idempotency_key,
                                             body |-> Append(ids, id)[i]]]
    BY <1>3, <1>5, <1>7, <2>1 DEF logView
  <2>3. \A i \in 1..n : logView'[t][i] = logView[t][i]
    BY <1>4, <1>8, <2>1, <2>2 DEF Shown
  <2>4. logView'[t][n + 1] = new
    BY <1>1, <1>4, <1>8, <2>1, <2>2
  <2>5. /\ DOMAIN Append(logView[t], new) = 1..(n + 1) /\ Append(logView[t], new)[n + 1] = new
        /\ \A i \in 1..n : Append(logView[t], new)[i] = logView[t][i]
        /\ Append(logView[t], new) = [i \in 1..(n + 1) |-> Append(logView[t], new)[i]]
    BY <1>3, <1>8, AppendProperties
  <2>6. \A i \in 1..(n + 1) : logView'[t][i] = Append(logView[t], new)[i]
    BY <1>8, <2>3, <2>4, <2>5
  <2>. QED BY <2>2, <2>5, <2>6
<1>10. logView' = [logView EXCEPT ![t] = Append(@, new)]
  BY <1>3, <1>6, <1>9 DEF logView
<1>11. Log!KeyIsFree(t, new.key)
  <2>. SUFFICES ASSUME new.key # None, NEW i \in DOMAIN ids, entries[ids[i]].fields.idempotency_key = new.key
                PROVE  FALSE
    BY <1>8 DEF Log!KeyIsFree, Shown
  <2>1. e.fields.idempotency_key # None
    BY <1>1
  <2>2. IndexKey(e.fields) = IndexKey(entries[ids[i]].fields)
    BY <1>1, <1>8 DEF IndexKey
  <2>3. IndexKey(entries[ids[i]].fields) \in DOMAIN idempotency_index
    BY <1>8 DEF ReceiptsInv, IndexInv
  <2>. QED BY <1>2, <2>1, <2>2, <2>3 DEF KeyTaken
<1>12. Log!AppendEntry(t, new)
  BY <1>10, <1>11 DEF Log!AppendEntry
<1>. QED BY <1>3, <1>12 DEF Log!LogNext

\* What a reader of the repository sees is an append-only log with unique keys: every
\* behaviour of the calls, the processor and the damage is one of the abstract
\* specification under the view logView.
THEOREM RepositoryImplementsLog == Spec => ImplementsLog
<1>1. Init => Log!LogInit
  <2>. SUFFICES ASSUME Init PROVE Log!LogInit
    OBVIOUS
  <2>1. \A t \in EntryType : IdsOf(t) = <<>>
    BY DEF Init, RepositoryInit, EmptyMap, IdsOf
  <2>2. \A t \in EntryType : logView[t] = <<>>
    BY <2>1 DEF logView
  <2>. QED BY <2>2 DEF Log!LogInit, logView
<1>2. ReceiptsInv /\ ReceiptsInv' /\ [Next]_vars => [Log!LogNext]_logView
  <2>. SUFFICES ASSUME ReceiptsInv, ReceiptsInv', [Next]_vars PROVE [Log!LogNext]_logView
    OBVIOUS
  <2>1. CASE UNCHANGED <<entries, ordered_by_type>>
    BY <2>1, ViewKept
  <2>2. ASSUME NEW c \in Call, Write(c) PROVE [Log!LogNext]_logView
    <3>1. call[c].pc = "write"
      BY <2>2, WriteIs
    <3>2. ASSUME NEW e, Appends(c, e) PROVE Log!LogNext
      BY <3>1, <3>2, AppendLogs
    <3>3. CASE UNCHANGED <<inner, tampered>>
      BY <2>1, <3>3 DEF inner
    <3>. QED BY <2>2, <3>2, <3>3, WriteIs
  <2>3. ASSUME NEW id \in EntryId, Tamper(id) PROVE UNCHANGED logView
    <3>1. id \in DOMAIN entries
      BY <2>3 DEF Tamper
    <3>2. PICK e : DamagedTo(id, e)
      BY <2>3, <3>1, TamperDamages
    <3>3. /\ e.fields.idempotency_key = entries[id].fields.idempotency_key
          /\ entries' = [i \in DOMAIN entries |-> IF i = id THEN e ELSE entries[i]]
      BY <3>1, <3>2, DamageIs
    <3>4. UNCHANGED ordered_by_type
      BY <3>2 DEF DamagedTo
    <3>5. \A i \in DOMAIN entries :
            entries'[i].fields.idempotency_key = entries[i].fields.idempotency_key
      BY <3>3
    <3>. QED BY <3>4, <3>5, ViewKept
  <2>4. ASSUME NEW c \in Call,
               Receive(c) \/ FindIdempotent(c) \/ AcquireChainLock(c) \/ GetChainTip(c)
               \/ ConflictLookup(c)
        PROVE  UNCHANGED <<entries, ordered_by_type>>
    BY <2>4 DEF Receive, FindIdempotent, AcquireChainLock, GetChainTip, ConflictLookup, inner
  <2>5. ASSUME NEW id \in EntryId, PublishOk(id) \/ PublishErr(id)
        PROVE  UNCHANGED <<entries, ordered_by_type>>
    BY <2>5 DEF PublishOk, PublishErr
  <2>6. CASE UNCHANGED vars
    BY <2>1, <2>6 DEF vars, inner
  <2>. QED BY <2>1, <2>2, <2>3, <2>4, <2>5, <2>6 DEF Next
<1>. QED BY <1>1, <1>2, ReceiptsInvariant, PTL DEF Spec, ImplementsLog, Log!LogSpec
====
