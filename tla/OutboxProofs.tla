---------------------------- MODULE OutboxProofs ----------------------------
(***************************************************************************)
(* Theorems about Outbox, for any number of processors, records, faults and   *)
(* retries.                                                                   *)
(***************************************************************************)
EXTENDS Outbox, FiniteSetTheorems, TLAPS

-----------------------------------------------------------------------------
(* Type correctness *)

\* One more publish call.
LEMMA OneMoreCall ==
    ASSUME TypeOK, NEW p \in Processor, NEW r, r.id \in Record, CountCall(p, r)
    PROVE  /\ attempts' \in [Record -> Nat]
           /\ \A q \in Record : attempts'[q] = IF q = r.id THEN attempts[q] + 1 ELSE attempts[q]
           /\ calls' \in [Processor -> [Record -> Nat]]
           /\ \A q \in Processor : q # p => calls'[q] = calls[q]
           /\ \A o \in Record : calls'[p][o] = IF o = r.id THEN calls[p][o] + 1 ELSE calls[p][o]
<1>1. attempts[r.id] + 1 \in Nat /\ calls[p][r.id] + 1 \in Nat
  BY DEF TypeOK
<1>. QED BY <1>1 DEF CountCall, TypeOK

\* What the loop has in hand, and whether it polls.
LEMMA BatchIs ==
    ASSUME NEW copies
    PROVE  /\ Batch(copies).todo = copies
           /\ Batch(copies).pc = "publish" \/ (Batch(copies).pc = "poll" /\ copies = {})
<1>1. CASE copies = {}
  BY <1>1 DEF Batch, Idle
<1>2. CASE copies # {}
  BY <1>2 DEF Batch
<1>. QED BY <1>1, <1>2

\* Batch and NextRecord keep the processors well formed.
LEMMA BatchType ==
    ASSUME NEW copies \in SUBSET CopyRecord
    PROVE  /\ Batch(copies) \in [pc : {"poll", "publish"}, todo : SUBSET CopyRecord]
           /\ Batch(copies).pc # "poll" => Batch(copies).todo # {}
  BY DEF Batch, Idle

\* A processor that moves to another label with its copies in hand.
LEMMA GotoType ==
    ASSUME TypeOK, NEW p \in Processor, proc[p].todo # {},
           NEW label \in {"publish", "delivered", "increment", "fail"}, Goto(p, label)
    PROVE  /\ proc' \in [Processor -> [pc : {"poll", "publish", "delivered", "increment", "fail"},
                                      todo : SUBSET CopyRecord]]
           /\ \A q \in Processor : proc'[q].pc # "poll" => proc'[q].todo # {}
  BY DEF Goto, TypeOK

\* A processor that is done with its current record.
LEMMA NextRecordType ==
    ASSUME TypeOK, NEW p \in Processor, NEW r, NextRecord(p, r)
    PROVE  /\ proc' \in [Processor -> [pc : {"poll", "publish", "delivered", "increment", "fail"},
                                      todo : SUBSET CopyRecord]]
           /\ \A q \in Processor : proc'[q].pc # "poll" => proc'[q].todo # {}
<1>1. proc[p].todo \ {r} \in SUBSET CopyRecord
  BY DEF TypeOK
<1>. QED BY <1>1, BatchType DEF NextRecord, TypeOK

\* The table, the processors and the histories keep their types: rows stay
\* rows, and a processor that is past its poll has a record in hand.
THEOREM OutboxTypeCorrect == Spec => []TypeOK
<1>1. Init => TypeOK
  BY OutboxAssumption DEF Init, TypeOK, Idle, Statuses, CopyRecord
<1>2. TypeOK /\ [Next]_vars => TypeOK'
  <2>. SUFFICES ASSUME TypeOK, [Next]_vars PROVE TypeOK'
    OBVIOUS
  <2>. USE OutboxAssumption
  <2>1. ASSUME NEW o \in Record, Enqueue(o) PROVE TypeOK'
    BY <2>1 DEF Enqueue, TypeOK, Statuses
  <2>2. ASSUME NEW p \in Processor, Poll(p) PROVE TypeOK'
    <3>1. {Copy(o) : o \in {o \in Record : rows[o].status = "PENDING"}} \in SUBSET CopyRecord
      BY DEF TypeOK, Copy, CopyRecord
    <3>. QED BY <2>2, <3>1, BatchType DEF Poll, TypeOK
  <2>3. ASSUME NEW p \in Processor, PublishOk(p) PROVE TypeOK'
    <3>1. PICK r \in proc[p].todo : acked' = acked \cup {r.id} /\ CountCall(p, r)
      BY <2>3 DEF PublishOk
    <3>2. r.id \in Record
      BY DEF TypeOK, CopyRecord
    <3>3. /\ attempts' \in [Record -> Nat] /\ acked' \subseteq Record
          /\ calls' \in [Processor -> [Record -> Nat]]
      BY <3>1, <3>2, OneMoreCall DEF TypeOK
    <3>4. proc[p].todo # {} /\ Goto(p, "delivered")
      BY <2>3 DEF PublishOk
    <3>5. rows' = rows /\ faults' = faults
      BY <2>3 DEF PublishOk
    <3>6. /\ proc' \in [Processor -> [pc : {"poll", "publish", "delivered", "increment", "fail"},
                                           todo : SUBSET CopyRecord]]
          /\ \A q \in Processor : proc'[q].pc # "poll" => proc'[q].todo # {}
      BY <3>4, GotoType
    <3>. QED BY <3>3, <3>5, <3>6 DEF TypeOK
  <2>4. ASSUME NEW p \in Processor, PublishErr(p) PROVE TypeOK'
    <3>1. PICK r \in proc[p].todo : CountCall(p, r)
      BY <2>4 DEF PublishErr
    <3>2. attempts' \in [Record -> Nat] /\ calls' \in [Processor -> [Record -> Nat]]
      BY <3>1, OneMoreCall DEF TypeOK, CopyRecord
    <3>3. proc[p].todo # {} /\ Goto(p, "increment")
      BY <2>4 DEF PublishErr
    <3>4. rows' = rows /\ faults' = faults /\ acked' = acked
      BY <2>4 DEF PublishErr
    <3>5. /\ proc' \in [Processor -> [pc : {"poll", "publish", "delivered", "increment", "fail"},
                                           todo : SUBSET CopyRecord]]
          /\ \A q \in Processor : proc'[q].pc # "poll" => proc'[q].todo # {}
      BY <3>3, GotoType
    <3>. QED BY <3>2, <3>4, <3>5 DEF TypeOK
  <2>5. ASSUME NEW p \in Processor, MarkDelivered(p) PROVE TypeOK'
    <3>1. PICK r \in proc[p].todo :
             /\ rows' = IF rows[r.id].status = "PENDING"
                        THEN [rows EXCEPT ![r.id].status = "DELIVERED"] ELSE rows
             /\ NextRecord(p, r)
      BY <2>5 DEF MarkDelivered
    <3>2. rows' \in [Record -> [status : Statuses, attempt_count : Nat]]
      BY <3>1 DEF TypeOK, CopyRecord, Statuses
    <3>. QED BY <2>5, <3>1, <3>2, NextRecordType DEF MarkDelivered, TypeOK
  <2>6. ASSUME NEW p \in Processor, Increment(p) PROVE TypeOK'
    <3>1. PICK r \in proc[p].todo :
             /\ rows' = [rows EXCEPT ![r.id].attempt_count = @ + 1]
             /\ AfterIncrement(p, r)
      BY <2>6 DEF Increment
    <3>2. rows' \in [Record -> [status : Statuses, attempt_count : Nat]]
      BY <3>1 DEF TypeOK, CopyRecord, Statuses
    <3>. QED BY <2>6, <3>1, <3>2, NextRecordType, GotoType DEF Increment, AfterIncrement, TypeOK
  <2>7. ASSUME NEW p \in Processor, MarkFailed(p) PROVE TypeOK'
    <3>1. PICK r \in proc[p].todo :
             rows' = [rows EXCEPT ![r.id].status = "FAILED"] /\ NextRecord(p, r)
      BY <2>7 DEF MarkFailed
    <3>2. rows' \in [Record -> [status : Statuses, attempt_count : Nat]]
      BY <3>1 DEF TypeOK, CopyRecord, Statuses
    <3>. QED BY <2>7, <3>1, <3>2, NextRecordType DEF MarkFailed, TypeOK
  <2>8. ASSUME NEW p \in Processor, LoseUpdate(p) PROVE TypeOK'
    <3>1. PICK r \in proc[p].todo : NextRecord(p, r) \/ AfterIncrement(p, r)
      BY <2>8 DEF LoseUpdate
    <3>2. faults' \in [Processor -> 0..MaxFaults]
      BY <2>8 DEF LoseUpdate, TypeOK
    <3>. QED BY <2>8, <3>1, <3>2, NextRecordType, GotoType DEF LoseUpdate, AfterIncrement, TypeOK
  <2>9. ASSUME NEW p \in Processor, Crash(p) PROVE TypeOK'
    <3>1. faults' \in [Processor -> 0..MaxFaults]
      BY <2>9 DEF Crash, TypeOK
    <3>. QED BY <2>9, <3>1 DEF Crash, TypeOK, Idle
  <2>10. CASE UNCHANGED vars
    BY <2>10 DEF vars, TypeOK
  <2>. QED BY <2>1, <2>2, <2>3, <2>4, <2>5, <2>6, <2>7, <2>8, <2>9, <2>10
           DEF Next, ProcessorStep
<1>. QED BY <1>1, <1>2, PTL DEF Spec

-----------------------------------------------------------------------------
(* The inductive invariant *)

\* A step of one processor leaves the hands of the others alone.
OthersStay(p) == \A q \in Processor \ {p} : proc'[q] = proc[q]

\* Goto and NextRecord are steps of one processor.
LEMMA OneProcessor ==
    ASSUME TypeOK, NEW p \in Processor, NEW r, NEW label
    PROVE  /\ Goto(p, label) => OthersStay(p)
           /\ NextRecord(p, r) => OthersStay(p)
  BY DEF TypeOK, Goto, NextRecord, OthersStay

\* A processor that keeps its copies keeps its current record.
LEMMA SameHand ==
    ASSUME NEW q, proc'[q].todo = proc[q].todo
    PROVE  \A r : IsCurrent(r, q)' <=> IsCurrent(r, q)
  BY DEF IsCurrent

\* Uncounted is a finite set of processors.
LEMMA UncountedFinite ==
    \A o : IsFiniteSet(Uncounted(o)) /\ Cardinality(Uncounted(o)) \in Nat
<1>. TAKE o
<1>1. Uncounted(o) \subseteq Processor
  BY DEF Uncounted
<1>. QED BY <1>1, OutboxAssumption, FS_Subset, FS_CardinalityType

\* The step of p changes Uncounted by p at most.
LEMMA UncountedFrame ==
    ASSUME NEW p \in Processor, OthersStay(p), NEW o
    PROVE  Uncounted(o)' \ {p} = Uncounted(o) \ {p}
  BY DEF OthersStay, Uncounted, IsCurrent

\* How the number of uncounted calls changes with p.
LEMMA UncountedSize ==
    ASSUME NEW p \in Processor, OthersStay(p), NEW o
    PROVE  /\ Cardinality(Uncounted(o)') \in Nat
           /\ Cardinality(Uncounted(o)') <= Cardinality(Uncounted(o)) + 1
           /\ p \notin Uncounted(o)' => Cardinality(Uncounted(o)') <= Cardinality(Uncounted(o))
           /\ p \notin Uncounted(o)' /\ p \in Uncounted(o)
                => Cardinality(Uncounted(o)') <= Cardinality(Uncounted(o)) - 1
<1>. DEFINE U == Uncounted(o)
            V == Uncounted(o)'
<1>1. IsFiniteSet(U) /\ Cardinality(U) \in Nat
  BY UncountedFinite
<1>2. V \subseteq U \cup {p} /\ (p \notin V => V \subseteq U \ {p})
  BY UncountedFrame
<1>. HIDE DEF U, V
<1>3. /\ IsFiniteSet(U \cup {p})
      /\ Cardinality(U \cup {p}) = IF p \in U THEN Cardinality(U) ELSE Cardinality(U) + 1
  BY <1>1, FS_AddElement
<1>4. /\ IsFiniteSet(U \ {p})
      /\ Cardinality(U \ {p}) = IF p \in U THEN Cardinality(U) - 1 ELSE Cardinality(U)
  BY <1>1, FS_RemoveElement
<1>5. IsFiniteSet(V) /\ Cardinality(V) <= Cardinality(U \cup {p})
  BY <1>2, <1>3, FS_Subset
<1>6. Cardinality(V) \in Nat
  BY <1>5, FS_CardinalityType
<1>7. p \notin V => Cardinality(V) <= Cardinality(U \ {p})
  BY <1>2, <1>4, FS_Subset
<1>8. Cardinality(U) \in Int
  BY <1>1
<1>9. /\ Cardinality(V) <= Cardinality(U) + 1
      /\ p \notin V => Cardinality(V) <= Cardinality(U)
      /\ p \notin V /\ p \in U => Cardinality(V) <= Cardinality(U) - 1
  BY <1>1, <1>3, <1>4, <1>5, <1>6, <1>7
<1>. QED BY <1>6, <1>9 DEF U, V

\* A processor that goes on to other work, with copies it had before and the
\* table, the acknowledgements and the calls as they were, disturbs nothing.
LEMMA MovesOn ==
    ASSUME TypeOK, TypeOK', OutboxInv, NEW p \in Processor, OthersStay(p),
           proc'[p].pc \in {"poll", "publish"}, proc'[p].todo \subseteq proc[p].todo,
           UNCHANGED <<acked, attempts>>,
           \A o \in Record : rows'[o].attempt_count = rows[o].attempt_count
    PROVE  CopiesBehind' /\ CallsCounted' /\ AckInHand' /\ FailureInHand'
<1>1. CopiesBehind'
  <2>1. \A q \in Processor : proc'[q].todo \subseteq proc[q].todo
    BY DEF OthersStay
  <2>2. \A q \in Processor : \A r \in proc[q].todo : r.id \in Record
    BY DEF TypeOK, CopyRecord
  <2>. QED BY <2>1, <2>2 DEF CopiesBehind, OutboxInv
<1>2. CallsCounted'
  <2>. SUFFICES ASSUME NEW o \in Record
                PROVE  (rows[o].attempt_count + Cardinality(Uncounted(o)) <= attempts[o])'
    BY DEF CallsCounted
  <2>1. p \notin Uncounted(o)'
    BY DEF Uncounted
  <2>2. rows[o].attempt_count + Cardinality(Uncounted(o)) <= attempts[o]
    BY DEF OutboxInv, CallsCounted
  <2>3. rows[o].attempt_count \in Nat /\ attempts[o] \in Nat /\ Cardinality(Uncounted(o)) \in Nat
    BY UncountedFinite DEF TypeOK
  <2>. QED BY <2>1, <2>2, <2>3, UncountedSize
<1>3. AckInHand'
  BY DEF AckInHand, OutboxInv, OthersStay, IsCurrent
<1>4. FailureInHand'
  BY DEF FailureInHand, OutboxInv, OthersStay, IsCurrent
<1>. QED BY <1>1, <1>2, <1>3, <1>4

\* A poll fills an idle hand with fresh copies.
LEMMA PollStep ==
    ASSUME TypeOK, TypeOK', OutboxInv, NEW p \in Processor, Poll(p)
    PROVE  OutboxInv'
<1>1. /\ OthersStay(p) /\ UNCHANGED <<rows, acked, attempts>>
      /\ proc'[p].pc \in {"poll", "publish"}
      /\ proc'[p].todo \subseteq {Copy(o) : o \in Record}
  BY DEF Poll, OthersStay, Batch, Idle, TypeOK
<1>2. CopiesBehind'
  BY <1>1 DEF CopiesBehind, OutboxInv, OthersStay, TypeOK, CopyRecord, Copy
<1>3. CallsCounted'
  <2>. SUFFICES ASSUME NEW o \in Record
                PROVE  (rows[o].attempt_count + Cardinality(Uncounted(o)) <= attempts[o])'
    BY DEF CallsCounted
  <2>1. p \notin Uncounted(o)'
    BY <1>1 DEF Uncounted
  <2>2. rows[o].attempt_count + Cardinality(Uncounted(o)) <= attempts[o]
    BY DEF OutboxInv, CallsCounted
  <2>3. rows[o].attempt_count \in Nat /\ attempts[o] \in Nat /\ Cardinality(Uncounted(o)) \in Nat
    BY UncountedFinite DEF TypeOK
  <2>. QED BY <1>1, <2>1, <2>2, <2>3, UncountedSize
<1>4. AckInHand' /\ FailureInHand'
  BY <1>1 DEF AckInHand, FailureInHand, OutboxInv, OthersStay, IsCurrent
<1>5. DeliveredMeansAccepted' /\ NotAbandonedEarly'
  BY <1>1 DEF DeliveredMeansAccepted, NotAbandonedEarly, OutboxInv
<1>. QED BY <1>2, <1>3, <1>4, <1>5 DEF OutboxInv

\* A publish call, whatever its outcome: only p moves, with its copies kept.
LEMMA PublishStep ==
    ASSUME TypeOK, TypeOK', OutboxInv, NEW p \in Processor, PublishOk(p) \/ PublishErr(p)
    PROVE  OutboxInv'
<1>1. PICK r \in proc[p].todo :
         /\ IsCurrent(r, p)
         /\ CountCall(p, r)
         /\ PublishOk(p) => acked' = acked \cup {r.id}
  BY DEF PublishOk, PublishErr
<1>2. r.id \in Record
  BY DEF TypeOK, CopyRecord
<1>3. \A o \in Record : attempts'[o] = IF o = r.id THEN attempts[o] + 1 ELSE attempts[o]
  BY <1>1, <1>2, OneMoreCall DEF TypeOK
<1>4. /\ OthersStay(p) /\ proc'[p].todo = proc[p].todo /\ rows' = rows
      /\ acked \subseteq acked'
      /\ proc'[p].pc \in {"delivered", "increment"}
      /\ proc'[p].pc = "delivered" => PublishOk(p)
  <2>1. CASE PublishOk(p)
    <3>1. Goto(p, "delivered") /\ rows' = rows /\ acked \subseteq acked'
      BY <2>1 DEF PublishOk
    <3>. QED BY <2>1, <3>1 DEF Goto, OthersStay, TypeOK
  <2>2. CASE PublishErr(p)
    BY <1>1, <2>2 DEF PublishErr, Goto, OthersStay, TypeOK
  <2>. QED BY <2>1, <2>2
<1>5. CopiesBehind'
  BY <1>4 DEF CopiesBehind, OutboxInv, OthersStay, TypeOK, CopyRecord
<1>6. CallsCounted'
  <2>. SUFFICES ASSUME NEW o \in Record
                PROVE  (rows[o].attempt_count + Cardinality(Uncounted(o)) <= attempts[o])'
    BY DEF CallsCounted
  <2>1. rows[o].attempt_count + Cardinality(Uncounted(o)) <= attempts[o]
    BY DEF OutboxInv, CallsCounted
  <2>2. rows[o].attempt_count \in Nat /\ attempts[o] \in Nat /\ Cardinality(Uncounted(o)) \in Nat
    BY UncountedFinite DEF TypeOK
  <2>3. CASE o = r.id
    BY <1>3, <1>4, <2>1, <2>2, <2>3, UncountedSize
  <2>4. CASE o # r.id
    <3>1. p \notin Uncounted(o)'
      <4>. SUFFICES ASSUME NEW s \in proc'[p].todo, IsCurrent(s, p)', s.id = o PROVE FALSE
        BY DEF Uncounted
      <4>1. s.id <= r.id /\ r.id <= s.id /\ s.id \in Nat /\ r.id \in Nat
        BY <1>1, <1>2, <1>4, OutboxAssumption DEF IsCurrent, TypeOK, CopyRecord
      <4>. QED BY <2>4, <4>1
    <3>. QED BY <1>3, <1>4, <2>1, <2>2, <2>4, <3>1, UncountedSize
  <2>. QED BY <2>3, <2>4
<1>7. AckInHand'
  <2>. SUFFICES ASSUME NEW q \in Processor, NEW s \in proc'[q].todo,
                       proc'[q].pc = "delivered", IsCurrent(s, q)'
                PROVE  s.id \in acked'
    BY DEF AckInHand
  <2>1. CASE q = p
    <3>1. s.id <= r.id /\ r.id <= s.id /\ s.id \in Nat /\ r.id \in Nat
      BY <1>1, <1>2, <1>4, <2>1, OutboxAssumption DEF IsCurrent, TypeOK, CopyRecord
    <3>. QED BY <1>1, <1>4, <2>1, <3>1
  <2>2. CASE q # p
    BY <1>4, <2>2 DEF OutboxInv, AckInHand, OthersStay, IsCurrent
  <2>. QED BY <2>1, <2>2
<1>8. FailureInHand'
  <2>. SUFFICES ASSUME NEW q \in Processor, NEW s \in proc'[q].todo,
                       proc'[q].pc = "fail", IsCurrent(s, q)'
                PROVE  attempts'[s.id] >= MaxRetries
    BY DEF FailureInHand
  <2>1. q # p /\ proc'[q] = proc[q]
    BY <1>4 DEF OthersStay
  <2>2. attempts[s.id] >= MaxRetries
    BY <2>1 DEF OutboxInv, FailureInHand, IsCurrent
  <2>3. s.id \in Record /\ attempts[s.id] \in Nat
    BY <2>1 DEF TypeOK, CopyRecord
  <2>4. attempts'[s.id] \in {attempts[s.id], attempts[s.id] + 1}
    BY <1>3, <2>3
  <2>5. MaxRetries \in Nat
    BY OutboxAssumption
  <2>. QED BY <2>2, <2>3, <2>4, <2>5
<1>9. DeliveredMeansAccepted'
  BY <1>4 DEF DeliveredMeansAccepted, OutboxInv
<1>10. NotAbandonedEarly'
  <2>. SUFFICES ASSUME NEW o \in Record, rows'[o].status = "FAILED"
                PROVE  attempts'[o] >= MaxRetries
    BY DEF NotAbandonedEarly
  <2>1. attempts[o] >= MaxRetries /\ attempts[o] \in Nat
    BY <1>4 DEF OutboxInv, NotAbandonedEarly, TypeOK
  <2>2. attempts'[o] \in {attempts[o], attempts[o] + 1}
    BY <1>3
  <2>3. MaxRetries \in Nat
    BY OutboxAssumption
  <2>. QED BY <2>1, <2>2, <2>3
<1>. QED BY <1>5, <1>6, <1>7, <1>8, <1>9, <1>10 DEF OutboxInv

\* Dropping a record, or the whole hand, is moving on.
LEMMA NextRecordMoves ==
    ASSUME TypeOK, NEW p \in Processor, NEW r, NextRecord(p, r)
    PROVE  /\ OthersStay(p) /\ proc'[p].pc \in {"poll", "publish"}
           /\ proc'[p].todo \subseteq proc[p].todo
  BY DEF TypeOK, NextRecord, Batch, Idle, OthersStay

\* After a failed call p gives up only if that call was the last one due.
LEMMA LastCallDue ==
    ASSUME TypeOK, OutboxInv, NEW p \in Processor, proc[p].pc = "increment",
           NEW r \in proc[p].todo, IsCurrent(r, p)
    PROVE  /\ r.id \in Record /\ p \in Uncounted(r.id)
           /\ GiveUp(r) => attempts[r.id] >= MaxRetries
<1>1. r.id \in Record /\ p \in Uncounted(r.id)
  BY DEF TypeOK, CopyRecord, Uncounted
<1>2. r.attempt_count <= rows[r.id].attempt_count
  BY DEF OutboxInv, CopiesBehind
<1>3. rows[r.id].attempt_count + Cardinality(Uncounted(r.id)) <= attempts[r.id]
  BY <1>1 DEF OutboxInv, CallsCounted
<1>4. Cardinality(Uncounted(r.id)) # 0 /\ Cardinality(Uncounted(r.id)) \in Nat
  BY <1>1, UncountedFinite, FS_EmptySet
<1>5. /\ r.attempt_count \in Nat /\ rows[r.id].attempt_count \in Nat
      /\ attempts[r.id] \in Nat
  BY <1>1 DEF TypeOK, CopyRecord
<1>. QED BY <1>1, <1>2, <1>3, <1>4, <1>5, OutboxAssumption DEF GiveUp

\* Leaving "increment", with or without the increment.
LEMMA AfterIncrementStep ==
    ASSUME TypeOK, TypeOK', OutboxInv, NEW p \in Processor, proc[p].pc = "increment",
           NEW r \in proc[p].todo, IsCurrent(r, p), AfterIncrement(p, r),
           UNCHANGED <<acked, attempts>>,
           rows' = rows \/ rows' = [rows EXCEPT ![r.id].attempt_count = @ + 1]
    PROVE  OutboxInv'
<1>1. /\ r.id \in Record /\ p \in Uncounted(r.id)
      /\ GiveUp(r) => attempts[r.id] >= MaxRetries
  BY LastCallDue
<1>2. /\ OthersStay(p)
      /\ proc'[p].todo \subseteq proc[p].todo
      /\ proc'[p].pc \in {"poll", "publish", "fail"}
      /\ proc'[p].pc = "fail" => GiveUp(r) /\ proc'[p].todo = proc[p].todo
  <2>1. CASE GiveUp(r)
    BY <2>1 DEF AfterIncrement, Goto, OthersStay, TypeOK
  <2>2. CASE ~GiveUp(r)
    BY <2>2, NextRecordMoves DEF AfterIncrement
  <2>. QED BY <2>1, <2>2
<1>3. \A o \in Record :
         /\ rows'[o].status = rows[o].status
         /\ rows[o].attempt_count <= rows'[o].attempt_count
         /\ rows'[o].attempt_count <= rows[o].attempt_count + 1
         /\ o # r.id => rows'[o] = rows[o]
  <2>1. \A o \in Record : rows[o].attempt_count \in Nat
    BY DEF TypeOK
  <2>. QED BY <1>1, <2>1 DEF TypeOK
<1>4. CopiesBehind'
  <2>. SUFFICES ASSUME NEW q \in Processor, NEW s \in proc'[q].todo
                PROVE  s.attempt_count <= rows'[s.id].attempt_count
    BY DEF CopiesBehind
  <2>1. s \in proc[q].todo
    BY <1>2 DEF OthersStay
  <2>2. s.attempt_count <= rows[s.id].attempt_count
    BY <2>1 DEF OutboxInv, CopiesBehind
  <2>3. s.id \in Record /\ s.attempt_count \in Nat
    BY <2>1 DEF TypeOK, CopyRecord
  <2>4. rows[s.id].attempt_count \in Nat /\ rows'[s.id].attempt_count \in Nat
    BY <2>3 DEF TypeOK
  <2>. QED BY <1>3, <2>2, <2>3, <2>4
<1>5. CallsCounted'
  <2>. SUFFICES ASSUME NEW o \in Record
                PROVE  (rows[o].attempt_count + Cardinality(Uncounted(o)) <= attempts[o])'
    BY DEF CallsCounted
  <2>1. rows[o].attempt_count + Cardinality(Uncounted(o)) <= attempts[o]
    BY DEF OutboxInv, CallsCounted
  <2>2. /\ rows[o].attempt_count \in Nat /\ attempts[o] \in Nat
        /\ Cardinality(Uncounted(o)) \in Nat /\ rows'[o].attempt_count \in Nat
    BY UncountedFinite DEF TypeOK
  <2>3. p \notin Uncounted(o)'
    BY <1>2 DEF Uncounted
  <2>4. CASE o = r.id
    BY <1>1, <1>2, <1>3, <2>1, <2>2, <2>3, <2>4, UncountedSize
  <2>5. CASE o # r.id
    BY <1>2, <1>3, <2>1, <2>2, <2>3, <2>5, UncountedSize
  <2>. QED BY <2>4, <2>5
<1>6. AckInHand'
  BY <1>2 DEF AckInHand, OutboxInv, OthersStay, IsCurrent
<1>7. FailureInHand'
  <2>. SUFFICES ASSUME NEW q \in Processor, NEW s \in proc'[q].todo,
                       proc'[q].pc = "fail", IsCurrent(s, q)'
                PROVE  attempts[s.id] >= MaxRetries
    BY DEF FailureInHand
  <2>1. CASE q = p
    <3>1. s.id <= r.id /\ r.id <= s.id /\ s.id \in Nat /\ r.id \in Nat
      BY <1>1, <1>2, <2>1, OutboxAssumption DEF IsCurrent, TypeOK, CopyRecord
    <3>. QED BY <1>1, <1>2, <2>1, <3>1
  <2>2. CASE q # p
    BY <1>2, <2>2 DEF OutboxInv, FailureInHand, OthersStay, IsCurrent
  <2>. QED BY <2>1, <2>2
<1>8. DeliveredMeansAccepted' /\ NotAbandonedEarly'
  BY <1>3 DEF DeliveredMeansAccepted, NotAbandonedEarly, OutboxInv
<1>. QED BY <1>4, <1>5, <1>6, <1>7, <1>8 DEF OutboxInv

\* Marking a row settles it as the call in hand justifies.
LEMMA MarkStep ==
    ASSUME TypeOK, TypeOK', OutboxInv, NEW p \in Processor, MarkDelivered(p) \/ MarkFailed(p)
    PROVE  OutboxInv'
<1>1. PICK r \in proc[p].todo :
         /\ IsCurrent(r, p) /\ NextRecord(p, r)
         /\ \/ /\ proc[p].pc = "delivered"
               /\ rows' = rows \/ rows' = [rows EXCEPT ![r.id].status = "DELIVERED"]
            \/ proc[p].pc = "fail" /\ rows' = [rows EXCEPT ![r.id].status = "FAILED"]
  BY DEF MarkDelivered, MarkFailed
<1>2. UNCHANGED <<acked, attempts>>
  BY DEF MarkDelivered, MarkFailed
<1>3. r.id \in Record
  BY DEF TypeOK, CopyRecord
<1>4. \A o \in Record :
         /\ rows'[o].attempt_count = rows[o].attempt_count
         /\ rows'[o].status = rows[o].status \/ o = r.id
  <2>1. rows \in [Record -> [status : Statuses, attempt_count : Nat]]
    BY DEF TypeOK
  <2>2. \/ rows' = rows \/ rows' = [rows EXCEPT ![r.id].status = "DELIVERED"]
        \/ rows' = [rows EXCEPT ![r.id].status = "FAILED"]
    BY <1>1
  <2>. QED BY <1>3, <2>1, <2>2
<1>5. CopiesBehind' /\ CallsCounted' /\ AckInHand' /\ FailureInHand'
  BY <1>1, <1>2, <1>4, NextRecordMoves, MovesOn
<1>6. /\ proc[p].pc = "delivered" => r.id \in acked /\ (rows'[r.id].status = "FAILED" => rows[r.id].status = "FAILED")
      /\ proc[p].pc = "fail" => attempts[r.id] >= MaxRetries /\ rows'[r.id].status = "FAILED"
  BY <1>1, <1>3 DEF OutboxInv, AckInHand, FailureInHand, TypeOK
<1>7. DeliveredMeansAccepted' /\ NotAbandonedEarly'
  BY <1>1, <1>2, <1>4, <1>6 DEF DeliveredMeansAccepted, NotAbandonedEarly, OutboxInv
<1>. QED BY <1>5, <1>7 DEF OutboxInv

\* Every step of Next preserves OutboxInv.
LEMMA InductiveStep ==
    ASSUME TypeOK, TypeOK', OutboxInv, [Next]_vars
    PROVE  OutboxInv'
<1>1. ASSUME NEW o \in Record, Enqueue(o) PROVE OutboxInv'
  <2>1. /\ UNCHANGED <<proc, acked, attempts>>
        /\ \A q \in Record :
             /\ rows'[q].attempt_count = rows[q].attempt_count
             /\ rows'[q].status = rows[q].status \/ rows'[q].status = "PENDING"
    BY <1>1 DEF Enqueue, TypeOK
  <2>2. \A q : Uncounted(q)' = Uncounted(q)
    BY <2>1 DEF Uncounted, IsCurrent
  <2>3. CopiesBehind' /\ AckInHand' /\ FailureInHand'
    BY <2>1 DEF OutboxInv, CopiesBehind, AckInHand, FailureInHand, IsCurrent, TypeOK, CopyRecord
  <2>4. CallsCounted'
    BY <2>1, <2>2 DEF OutboxInv, CallsCounted
  <2>5. DeliveredMeansAccepted' /\ NotAbandonedEarly'
    BY <2>1 DEF OutboxInv, DeliveredMeansAccepted, NotAbandonedEarly
  <2>. QED BY <2>3, <2>4, <2>5 DEF OutboxInv
<1>2. ASSUME NEW p \in Processor, ProcessorStep(p) PROVE OutboxInv'
  <2>1. CASE Increment(p)
    BY <2>1, AfterIncrementStep DEF Increment
  <2>. QED BY <1>2, <2>1, PollStep, PublishStep, MarkStep DEF ProcessorStep
<1>3. ASSUME NEW p \in Processor, LoseUpdate(p) PROVE OutboxInv'
  <2>1. PICK r \in proc[p].todo :
           /\ IsCurrent(r, p)
           /\ NextRecord(p, r) \/ (proc[p].pc = "increment" /\ AfterIncrement(p, r))
    BY <1>3 DEF LoseUpdate
  <2>2. UNCHANGED <<rows, acked, attempts>>
    BY <1>3 DEF LoseUpdate
  <2>3. CASE NextRecord(p, r)
    <3>1. CopiesBehind' /\ CallsCounted' /\ AckInHand' /\ FailureInHand'
      BY <2>2, <2>3, NextRecordMoves, MovesOn
    <3>. QED BY <2>2, <3>1 DEF OutboxInv, DeliveredMeansAccepted, NotAbandonedEarly
  <2>. QED BY <2>1, <2>2, <2>3, AfterIncrementStep
<1>4. ASSUME NEW p \in Processor, Crash(p) PROVE OutboxInv'
  <2>1. /\ OthersStay(p) /\ proc'[p].pc = "poll" /\ proc'[p].todo = {}
        /\ UNCHANGED <<rows, acked, attempts>>
    BY <1>4 DEF Crash, OthersStay, Idle, TypeOK
  <2>2. CopiesBehind' /\ CallsCounted' /\ AckInHand' /\ FailureInHand'
    BY <2>1, MovesOn
  <2>. QED BY <2>1, <2>2 DEF OutboxInv, DeliveredMeansAccepted, NotAbandonedEarly
<1>5. CASE UNCHANGED vars
  BY <1>5 DEF vars, OutboxInv, CopiesBehind, CallsCounted, AckInHand, FailureInHand,
              DeliveredMeansAccepted, NotAbandonedEarly, Uncounted, IsCurrent
<1>. QED BY <1>1, <1>2, <1>3, <1>4, <1>5 DEF Next

\* The invariant behind the decisions of publish_one holds throughout.
THEOREM OutboxInvariant == Spec => []OutboxInv
<1>1. Init => OutboxInv
  <2>. SUFFICES ASSUME Init PROVE OutboxInv
    OBVIOUS
  <2>1. \A o : Uncounted(o) = {}
    BY DEF Init, Uncounted, Idle
  <2>2. CallsCounted
    BY <2>1, FS_EmptySet DEF Init, CallsCounted
  <2>. QED BY <2>2 DEF Init, OutboxInv, CopiesBehind, AckInHand, FailureInHand, Idle,
                       DeliveredMeansAccepted, NotAbandonedEarly
<1>2. TypeOK /\ TypeOK' /\ OutboxInv /\ [Next]_vars => OutboxInv'
  BY InductiveStep
<1>. QED BY <1>1, <1>2, OutboxTypeCorrect, PTL DEF Spec

\* DELIVERED is only ever claimed for an event the sink accepted, however many
\* processes work on the outbox.
THEOREM DeliveredAccepted == Spec => []DeliveredMeansAccepted
<1>1. OutboxInv => DeliveredMeansAccepted
  BY DEF OutboxInv
<1>. QED BY <1>1, OutboxInvariant, PTL

\* No event is given up before outbox_max_retries publish calls were made.
THEOREM NeverAbandonedEarly == Spec => []NotAbandonedEarly
<1>1. OutboxInv => NotAbandonedEarly
  BY DEF OutboxInv
<1>. QED BY <1>1, OutboxInvariant, PTL

-----------------------------------------------------------------------------
(* Settled events *)

\* What a step may do to a row: counts grow, the status only advances.
RowAdvances(o) ==
    /\ rows[o].attempt_count <= rows'[o].attempt_count
    /\ rows[o].status # "absent" => rows'[o].status # "absent"
    /\ rows[o].status = "DELIVERED" => rows'[o].status \in {"DELIVERED", "FAILED"}
    /\ rows[o].status = "FAILED" => rows'[o].status = "FAILED"

\* No statement of the outbox takes a row back.
LEMMA RowsAdvance ==
    ASSUME TypeOK, [Next]_vars, NEW o \in Record
    PROVE  RowAdvances(o)
<1>0. /\ rows \in [Record -> [status : Statuses, attempt_count : Nat]]
      /\ \A p \in Processor : \A r \in proc[p].todo : r.id \in Record
  BY DEF TypeOK, CopyRecord
<1>1. CASE rows' = rows
  BY <1>0, <1>1 DEF RowAdvances
<1>2. ASSUME NEW q \in Record, Enqueue(q) PROVE RowAdvances(o)
  BY <1>0, <1>2 DEF Enqueue, RowAdvances
<1>3. ASSUME NEW q \in Record, rows' = [rows EXCEPT ![q].attempt_count = @ + 1]
      PROVE  RowAdvances(o)
  BY <1>0, <1>3 DEF RowAdvances
<1>4. ASSUME NEW q \in Record, rows[q].status = "PENDING",
             rows' = [rows EXCEPT ![q].status = "DELIVERED"]
      PROVE  RowAdvances(o)
  BY <1>0, <1>4 DEF RowAdvances
<1>5. ASSUME NEW q \in Record, rows' = [rows EXCEPT ![q].status = "FAILED"]
      PROVE  RowAdvances(o)
  BY <1>0, <1>5 DEF RowAdvances
<1>6. ASSUME NEW p \in Processor, ProcessorStep(p) PROVE RowAdvances(o)
  <2>1. CASE Increment(p)
    BY <1>0, <1>3, <2>1 DEF Increment
  <2>2. CASE MarkDelivered(p)
    BY <1>0, <1>1, <1>4, <2>2 DEF MarkDelivered
  <2>3. CASE MarkFailed(p)
    BY <1>0, <1>5, <2>3 DEF MarkFailed
  <2>4. CASE Poll(p) \/ PublishOk(p) \/ PublishErr(p)
    BY <1>1, <2>4 DEF Poll, PublishOk, PublishErr
  <2>. QED BY <1>6, <2>1, <2>2, <2>3, <2>4 DEF ProcessorStep
<1>7. ASSUME NEW p \in Processor, LoseUpdate(p) \/ Crash(p) PROVE RowAdvances(o)
  BY <1>1, <1>7 DEF LoseUpdate, Crash
<1>. QED BY <1>1, <1>2, <1>6, <1>7 DEF Next, vars

\* A settled event stays settled: no processor with an old copy makes it PENDING
\* again, nor DELIVERED once it was FAILED (mark_outbox_delivered,
\* mark_outbox_failed).
THEOREM SettledStaysSettled == Spec => SettledIsFinal
<1>1. TypeOK /\ [Next]_vars =>
        [\A o \in Record :
            /\ rows[o].status = "DELIVERED" => rows'[o].status \in {"DELIVERED", "FAILED"}
            /\ rows[o].status = "FAILED" => rows'[o].status = "FAILED"]_vars
  BY RowsAdvance DEF RowAdvances
<1>. QED BY <1>1, OutboxTypeCorrect, PTL DEF Spec, SettledIsFinal

-----------------------------------------------------------------------------
(* The calls of one processor *)

\* RetriesInv for one processor.
HandInv(p) ==
    /\ HandWellFormed(p) /\ CallsInHand(p) /\ CallsOfOpen(p)
    /\ \A o \in Record : calls[p][o] <= CallLimit + faults[p]

\* How many calls precede one with a given count.
LEMMA PrecedingFacts ==
    ASSUME NEW m \in Nat, NEW n \in Nat, m <= n
    PROVE  /\ Preceding(m) \in Nat /\ Preceding(m) <= Preceding(n)
           /\ CallLimit \in Nat /\ Preceding(m) + 1 <= CallLimit
           /\ m + 1 < MaxRetries /\ m + 1 <= n => Preceding(m) + 1 <= Preceding(n)
  BY OutboxAssumption DEF Preceding, CallLimit

\* The values RetriesInv compares are numbers.
LEMMA CallNumbers ==
    ASSUME TypeOK, NEW p \in Processor
    PROVE  /\ faults[p] \in Nat
           /\ \A o \in Record : calls[p][o] \in Nat /\ rows[o].attempt_count \in Nat
           /\ \A r \in proc[p].todo : r.id \in Record /\ r.attempt_count \in Nat
  BY OutboxAssumption DEF TypeOK, CopyRecord

\* A processor that does nothing is not disturbed by the others.
LEMMA HandKept ==
    ASSUME TypeOK, TypeOK', NEW p \in Processor, HandInv(p),
           proc'[p] = proc[p], calls'[p] = calls[p], faults'[p] = faults[p],
           \A o \in Record : RowAdvances(o)
    PROVE  HandInv(p)'
<1>1. HandWellFormed(p)'
  BY CallNumbers DEF HandInv, HandWellFormed, RowAdvances
<1>2. CallsInHand(p)'
  BY DEF HandInv, CallsInHand, Called, IsCurrent
<1>3. CallsOfOpen(p)'
  <2>. SUFFICES ASSUME NEW o \in Record, rows'[o].status \in {"absent", "PENDING"}, ~HasCopy(p, o)'
                PROVE  calls'[p][o] <= Preceding(rows'[o].attempt_count) + faults'[p]
    BY DEF CallsOfOpen, Preceding
  <2>1. rows[o].status \in {"absent", "PENDING"} /\ ~HasCopy(p, o)
    BY DEF RowAdvances, HasCopy, TypeOK, Statuses
  <2>2. calls[p][o] <= Preceding(rows[o].attempt_count) + faults[p]
    BY <2>1 DEF HandInv, CallsOfOpen
  <2>3. /\ rows[o].attempt_count \in Nat /\ rows'[o].attempt_count \in Nat
        /\ rows[o].attempt_count <= rows'[o].attempt_count
    BY DEF TypeOK, RowAdvances
  <2>4. /\ Preceding(rows[o].attempt_count) \in Nat /\ Preceding(rows'[o].attempt_count) \in Nat
        /\ Preceding(rows[o].attempt_count) <= Preceding(rows'[o].attempt_count)
    BY <2>3, PrecedingFacts
  <2>5. calls[p][o] \in Nat /\ faults[p] \in Nat
    BY CallNumbers
  <2>. QED BY <2>2, <2>4, <2>5
<1>. QED BY <1>1, <1>2, <1>3 DEF HandInv, CallLimit

\* A poll reads each open record once, with its count.
LEMMA PollHand ==
    ASSUME TypeOK, TypeOK', NEW p \in Processor, HandInv(p), Poll(p)
    PROVE  HandInv(p)'
<1>. DEFINE Pending == {o \in Record : rows[o].status = "PENDING"}
<1>1. /\ UNCHANGED <<rows, calls, faults>> /\ proc[p].pc = "poll"
      /\ proc'[p].todo = {Copy(o) : o \in Pending}
      /\ proc'[p].pc = "publish" \/ (proc'[p].pc = "poll" /\ proc'[p].todo = {})
  <2>1. proc'[p] = Batch({Copy(o) : o \in Pending})
    BY DEF Poll, TypeOK
  <2>. QED BY <2>1, BatchIs DEF Poll
<1>2. \A o : ~HasCopy(p, o)
  BY <1>1 DEF HandInv, HandWellFormed, HasCopy
<1>3. \A o \in Record : Copy(o).id = o /\ Copy(o).attempt_count = rows[o].attempt_count
  BY DEF Copy
<1>4. HandWellFormed(p)'
  BY <1>1, <1>3 DEF HandWellFormed
<1>5. CallsInHand(p)'
  <2>. SUFFICES ASSUME NEW o \in Pending
                PROVE  calls[p][o] <= Preceding(rows[o].attempt_count) + faults[p] + 0
    BY <1>1, <1>3 DEF CallsInHand, Called, Preceding
  <2>1. calls[p][o] <= Preceding(rows[o].attempt_count) + faults[p]
    BY <1>2 DEF HandInv, CallsOfOpen
  <2>2. Preceding(rows[o].attempt_count) \in Nat /\ faults[p] \in Nat
    BY CallNumbers, PrecedingFacts
  <2>. QED BY <2>1, <2>2
<1>6. CallsOfOpen(p)'
  BY <1>1, <1>2 DEF HandInv, CallsOfOpen, Preceding
<1>. QED BY <1>1, <1>4, <1>5, <1>6 DEF HandInv, CallLimit

\* A publish call uses up the call its copy stands for.
LEMMA PublishHand ==
    ASSUME TypeOK, TypeOK', NEW p \in Processor, HandInv(p), PublishOk(p) \/ PublishErr(p)
    PROVE  HandInv(p)'
<1>1. PICK r \in proc[p].todo : IsCurrent(r, p) /\ CountCall(p, r)
  BY DEF PublishOk, PublishErr
<1>2. /\ UNCHANGED <<rows, faults>> /\ proc[p].pc = "publish"
      /\ Goto(p, "delivered") \/ Goto(p, "increment")
  BY DEF PublishOk, PublishErr
<1>3. /\ proc'[p].todo = proc[p].todo /\ proc'[p].pc \in {"delivered", "increment"}
  BY <1>2 DEF Goto, TypeOK
<1>4. \A o \in Record : calls'[p][o] = IF o = r.id THEN calls[p][o] + 1 ELSE calls[p][o]
  BY <1>1, CallNumbers, OneMoreCall
<1>5. HandWellFormed(p)'
  BY <1>2, <1>3 DEF HandInv, HandWellFormed
<1>6. CallsInHand(p)' /\ (calls[p][r.id] <= CallLimit + faults[p])'
  <2>1. ASSUME NEW s \in proc[p].todo
        PROVE  /\ calls[p][s.id] <= Preceding(s.attempt_count) + faults[p]
               /\ s.id = r.id => s = r
               /\ Preceding(s.attempt_count) \in Nat /\ faults[p] \in Nat
               /\ calls[p][s.id] \in Nat /\ CallLimit \in Nat
               /\ Preceding(s.attempt_count) + 1 <= CallLimit
    <3>1. s.attempt_count \in Nat /\ s.id \in Record /\ faults[p] \in Nat /\ calls[p][s.id] \in Nat
      BY CallNumbers
    <3>2. /\ Preceding(s.attempt_count) \in Nat /\ CallLimit \in Nat
          /\ Preceding(s.attempt_count) + 1 <= CallLimit
      BY <3>1, PrecedingFacts
    <3>3. calls[p][s.id] <= Preceding(s.attempt_count) + faults[p] + 0
      BY <1>2 DEF HandInv, CallsInHand, Called
    <3>4. s.id = r.id => s = r
      BY <1>1 DEF HandInv, HandWellFormed
    <3>. QED BY <3>1, <3>2, <3>3, <3>4
  <2>2. Called(p, r)'
    BY <1>1, <1>3 DEF Called, IsCurrent
  <2>3. r.id \in Record /\ \A s \in proc[p].todo : s.id \in Record
    BY <1>1, CallNumbers
  <2>4. CallsInHand(p)'
    <3>. SUFFICES ASSUME NEW s \in proc[p].todo
                  PROVE  calls'[p][s.id] <= Preceding(s.attempt_count) + faults[p]
                                               + (IF Called(p, s)' THEN 1 ELSE 0)
      BY <1>2, <1>3 DEF CallsInHand, Preceding
    <3>1. CASE s = r
      BY <1>4, <2>1, <2>2, <2>3, <3>1
    <3>2. CASE s # r
      BY <1>4, <2>1, <2>3, <3>2
    <3>. QED BY <3>1, <3>2
  <2>5. calls'[p][r.id] <= CallLimit + faults'[p]
    BY <1>2, <1>4, <2>1, <2>3
  <2>. QED BY <2>4, <2>5 DEF CallLimit
<1>7. \A o : HasCopy(p, o)' <=> HasCopy(p, o)
  BY <1>3 DEF HasCopy
<1>8. CallsOfOpen(p)'
  <2>1. HasCopy(p, r.id)
    BY <1>1 DEF HasCopy
  <2>. QED BY <1>2, <1>4, <1>7, <2>1 DEF HandInv, CallsOfOpen, Preceding
<1>9. \A o \in Record : calls'[p][o] <= CallLimit + faults'[p]
  <2>1. calls'[p][r.id] <= CallLimit + faults[p]
    BY <1>2, <1>6 DEF CallLimit
  <2>. QED BY <1>2, <1>4, <2>1 DEF HandInv
<1>. QED BY <1>5, <1>6, <1>8, <1>9 DEF HandInv, CallLimit

\* Less in hand, a fault more or none: what is dropped is settled, or its calls are
\* accounted for by the table or by the fault.
LEMMA HandShrinks ==
    ASSUME TypeOK, TypeOK', NEW p \in Processor, HandInv(p), calls' = calls,
           faults[p] <= faults'[p], \A o \in Record : RowAdvances(o),
           proc'[p].todo \subseteq proc[p].todo,
           proc'[p].pc = "publish" \/ (proc'[p].pc = "poll" /\ proc'[p].todo = {}),
           \A r \in proc'[p].todo : ~Called(p, r),
           \A r \in proc[p].todo \ proc'[p].todo :
              \/ rows'[r.id].status \in {"DELIVERED", "FAILED"}
              \/ calls[p][r.id] <= Preceding(rows'[r.id].attempt_count) + faults'[p]
    PROVE  HandInv(p)'
<1>0. /\ faults[p] \in Nat /\ faults'[p] \in Nat
      /\ \A o \in Record : calls[p][o] \in Nat
      /\ \A r \in proc[p].todo : r.id \in Record /\ r.attempt_count \in Nat
  BY CallNumbers, OutboxAssumption DEF TypeOK
<1>1. HandWellFormed(p)'
  BY <1>0 DEF HandInv, HandWellFormed, RowAdvances
<1>2. CallsInHand(p)'
  <2>. SUFFICES ASSUME NEW r \in proc'[p].todo
                PROVE  calls[p][r.id] <= Preceding(r.attempt_count) + faults'[p] + 0
    BY DEF CallsInHand, Called, Preceding
  <2>1. calls[p][r.id] <= Preceding(r.attempt_count) + faults[p] + 0
    BY DEF HandInv, CallsInHand
  <2>2. r.id \in Record /\ Preceding(r.attempt_count) \in Nat
    BY <1>0, PrecedingFacts
  <2>3. calls[p][r.id] \in Nat
    BY <1>0, <2>2
  <2>. QED BY <1>0, <2>1, <2>2, <2>3
<1>3. CallsOfOpen(p)'
  <2>. SUFFICES ASSUME NEW o \in Record, rows'[o].status \in {"absent", "PENDING"}, ~HasCopy(p, o)'
                PROVE  calls[p][o] <= Preceding(rows'[o].attempt_count) + faults'[p]
    BY DEF CallsOfOpen, Preceding
  <2>1. CASE HasCopy(p, o)
    <3>1. PICK r \in proc[p].todo : r.id = o
      BY <2>1 DEF HasCopy
    <3>2. r \notin proc'[p].todo
      BY <3>1 DEF HasCopy
    <3>. QED BY <3>1, <3>2
  <2>2. CASE ~HasCopy(p, o)
    <3>1. rows[o].status \in {"absent", "PENDING"}
      BY DEF RowAdvances, TypeOK, Statuses
    <3>2. calls[p][o] <= Preceding(rows[o].attempt_count) + faults[p]
      BY <2>2, <3>1 DEF HandInv, CallsOfOpen
    <3>3. /\ rows[o].attempt_count \in Nat /\ rows'[o].attempt_count \in Nat
          /\ rows[o].attempt_count <= rows'[o].attempt_count
      BY DEF TypeOK, RowAdvances
    <3>4. /\ Preceding(rows[o].attempt_count) \in Nat /\ Preceding(rows'[o].attempt_count) \in Nat
          /\ Preceding(rows[o].attempt_count) <= Preceding(rows'[o].attempt_count)
      BY <3>3, PrecedingFacts
    <3>. QED BY <1>0, <3>2, <3>4
  <2>. QED BY <2>1, <2>2
<1>4. \A o \in Record : calls[p][o] <= CallLimit + faults'[p]
  <2>1. CallLimit \in Nat
    BY PrecedingFacts
  <2>2. \A o \in Record : calls[p][o] <= CallLimit + faults[p]
    BY DEF HandInv
  <2>. QED BY <1>0, <2>1, <2>2
<1>. QED BY <1>1, <1>2, <1>3, <1>4 DEF HandInv, CallLimit

\* The calls for a record in hand, by what the table and the faults may then show.
LEMMA InHandBound ==
    ASSUME TypeOK, TypeOK', OutboxInv, NEW p \in Processor, HandInv(p),
           NEW r \in proc[p].todo, \A o \in Record : RowAdvances(o)
    PROVE  /\ faults'[p] = faults[p] + 1
                => calls[p][r.id] <= Preceding(rows'[r.id].attempt_count) + faults'[p]
           /\ ~GiveUp(r) /\ r.attempt_count + 1 <= rows'[r.id].attempt_count
                /\ faults'[p] = faults[p]
                => calls[p][r.id] <= Preceding(rows'[r.id].attempt_count) + faults'[p]
<1>1. /\ faults[p] \in Nat /\ r.id \in Record /\ r.attempt_count \in Nat
      /\ calls[p][r.id] \in Nat
  BY CallNumbers
<1>2. calls[p][r.id] <= Preceding(r.attempt_count) + faults[p] + (IF Called(p, r) THEN 1 ELSE 0)
  BY DEF HandInv, CallsInHand
<1>3. r.attempt_count <= rows[r.id].attempt_count
  BY DEF OutboxInv, CopiesBehind
<1>4. /\ rows[r.id].attempt_count \in Nat /\ rows'[r.id].attempt_count \in Nat
      /\ rows[r.id].attempt_count <= rows'[r.id].attempt_count
  BY <1>1 DEF TypeOK, RowAdvances
<1>5. r.attempt_count <= rows'[r.id].attempt_count
  BY <1>1, <1>3, <1>4
<1>. DEFINE m == r.attempt_count
            n == rows'[r.id].attempt_count
<1>6. /\ Preceding(m) \in Nat /\ Preceding(n) \in Nat /\ Preceding(m) <= Preceding(n)
      /\ m + 1 < MaxRetries /\ m + 1 <= n => Preceding(m) + 1 <= Preceding(n)
  BY <1>1, <1>4, <1>5, PrecedingFacts
<1>7. ~GiveUp(r) => m + 1 < MaxRetries
  BY <1>1, OutboxAssumption DEF GiveUp
<1>8. calls[p][r.id] <= Preceding(m) + faults[p] + 1
  BY <1>1, <1>2, <1>6
<1>. HIDE DEF m, n
<1>9. faults'[p] = faults[p] + 1 => calls[p][r.id] <= Preceding(n) + faults'[p]
  BY <1>1, <1>6, <1>8
<1>10. m + 1 < MaxRetries /\ m + 1 <= n => calls[p][r.id] <= Preceding(n) + faults[p]
  BY <1>1, <1>6, <1>8
<1>. QED BY <1>7, <1>9, <1>10 DEF m, n

\* When p is done with its current record, no other copy in hand was called for.
LEMMA OthersUncalled ==
    ASSUME TypeOK, NEW p \in Processor, HandInv(p), NEW r \in proc[p].todo,
           IsCurrent(r, p), NextRecord(p, r)
    PROVE  /\ proc'[p].todo = proc[p].todo \ {r}
           /\ proc'[p].pc = "publish" \/ (proc'[p].pc = "poll" /\ proc'[p].todo = {})
           /\ \A s \in proc'[p].todo : ~Called(p, s)
<1>1. /\ proc'[p].todo = proc[p].todo \ {r}
      /\ proc'[p].pc = "publish" \/ (proc'[p].pc = "poll" /\ proc'[p].todo = {})
  <2>1. proc'[p] = Batch(proc[p].todo \ {r})
    BY DEF NextRecord, TypeOK
  <2>. QED BY <2>1, BatchIs
<1>2. ASSUME NEW s \in proc[p].todo, s # r, IsCurrent(s, p) PROVE FALSE
  <2>1. s.id \in Nat /\ r.id \in Nat /\ s.id <= r.id /\ r.id <= s.id
    BY <1>2, CallNumbers, OutboxAssumption DEF IsCurrent
  <2>2. s.id = r.id
    BY <2>1
  <2>. QED BY <1>2, <2>2 DEF HandInv, HandWellFormed
<1>. QED BY <1>1, <1>2 DEF Called

\* The step of a processor keeps its own invariant.
LEMMA OwnStep ==
    ASSUME TypeOK, TypeOK', OutboxInv, NEW p \in Processor, HandInv(p), [Next]_vars,
           ProcessorStep(p) \/ LoseUpdate(p) \/ Crash(p)
    PROVE  HandInv(p)'
<1>0. \A o \in Record : RowAdvances(o)
  BY RowsAdvance
<1>n. faults[p] \in Nat /\ \A r \in proc[p].todo : r.id \in Record /\ r.attempt_count \in Nat
  BY CallNumbers
<1>1. CASE MarkDelivered(p) \/ MarkFailed(p)
  <2>1. PICK r \in proc[p].todo :
           /\ IsCurrent(r, p) /\ NextRecord(p, r)
           /\ \/ rows[r.id].status # "PENDING" /\ rows' = rows
              \/ rows' = [rows EXCEPT ![r.id].status = "DELIVERED"]
              \/ rows' = [rows EXCEPT ![r.id].status = "FAILED"]
    BY <1>1 DEF MarkDelivered, MarkFailed
  <2>2. rows'[r.id].status \in {"DELIVERED", "FAILED"}
    <3>1. rows[r.id].status \in Statuses \ {"absent"}
      BY <1>n DEF HandInv, HandWellFormed, TypeOK
    <3>. QED BY <1>n, <2>1, <3>1 DEF Statuses, TypeOK
  <2>3. UNCHANGED <<calls, faults>>
    BY <1>1 DEF MarkDelivered, MarkFailed
  <2>4. faults[p] <= faults'[p]
    BY <1>n, <2>3
  <2>. QED BY <1>0, <2>1, <2>2, <2>3, <2>4, OthersUncalled, HandShrinks
<1>2. ASSUME NEW r \in proc[p].todo, IsCurrent(r, p), proc[p].pc = "increment", GiveUp(r),
             Goto(p, "fail"), calls' = calls, faults[p] <= faults'[p]
      PROVE  HandInv(p)'
  <2>1. proc'[p].todo = proc[p].todo /\ proc'[p].pc = "fail"
    BY <1>2 DEF Goto, TypeOK
  <2>2. /\ \A s : Called(p, s)' <=> Called(p, s)
        /\ \A o : HasCopy(p, o)' <=> HasCopy(p, o)
    BY <1>2, <2>1 DEF Called, IsCurrent, HasCopy
  <2>3. faults'[p] \in Nat
    BY OutboxAssumption DEF TypeOK
  <2>4. HandWellFormed(p)'
    BY <1>0, <1>n, <2>1 DEF HandInv, HandWellFormed, RowAdvances
  <2>5. CallsInHand(p)'
    <3>. SUFFICES ASSUME NEW s \in proc[p].todo
                  PROVE  calls[p][s.id] <= Preceding(s.attempt_count) + faults'[p]
                                               + (IF Called(p, s) THEN 1 ELSE 0)
      BY <1>2, <2>1, <2>2 DEF CallsInHand, Preceding
    <3>1. calls[p][s.id] <= Preceding(s.attempt_count) + faults[p]
                                               + (IF Called(p, s) THEN 1 ELSE 0)
      BY DEF HandInv, CallsInHand
    <3>2. Preceding(s.attempt_count) \in Nat /\ calls[p][s.id] \in Nat
      BY <1>n, PrecedingFacts, CallNumbers
    <3>. QED BY <1>2, <1>n, <2>3, <3>1, <3>2
  <2>6. CallsOfOpen(p)'
    <3>. SUFFICES ASSUME NEW o \in Record, rows'[o].status \in {"absent", "PENDING"},
                         ~HasCopy(p, o)
                  PROVE  calls[p][o] <= Preceding(rows'[o].attempt_count) + faults'[p]
      BY <1>2, <2>2 DEF CallsOfOpen, Preceding
    <3>1. rows[o].status \in {"absent", "PENDING"}
      BY <1>0 DEF RowAdvances, TypeOK, Statuses
    <3>2. calls[p][o] <= Preceding(rows[o].attempt_count) + faults[p]
      BY <3>1 DEF HandInv, CallsOfOpen
    <3>3. /\ rows[o].attempt_count \in Nat /\ rows'[o].attempt_count \in Nat
          /\ rows[o].attempt_count <= rows'[o].attempt_count /\ calls[p][o] \in Nat
      BY <1>0, CallNumbers DEF TypeOK, RowAdvances
    <3>4. /\ Preceding(rows[o].attempt_count) \in Nat /\ Preceding(rows'[o].attempt_count) \in Nat
          /\ Preceding(rows[o].attempt_count) <= Preceding(rows'[o].attempt_count)
      BY <3>3, PrecedingFacts
    <3>. QED BY <1>2, <1>n, <2>3, <3>2, <3>3, <3>4
  <2>7. \A o \in Record : calls[p][o] <= CallLimit + faults'[p]
    <3>1. CallLimit \in Nat /\ \A o \in Record : calls[p][o] \in Nat
      BY CallNumbers, OutboxAssumption DEF CallLimit
    <3>2. \A o \in Record : calls[p][o] <= CallLimit + faults[p]
      BY DEF HandInv
    <3>. QED BY <1>2, <1>n, <2>3, <3>1, <3>2
  <2>. QED BY <1>2, <2>4, <2>5, <2>6, <2>7 DEF HandInv, CallLimit
<1>3. CASE Increment(p)
  <2>1. PICK r \in proc[p].todo :
           /\ IsCurrent(r, p) /\ rows' = [rows EXCEPT ![r.id].attempt_count = @ + 1]
           /\ AfterIncrement(p, r)
    BY <1>3 DEF Increment
  <2>2. UNCHANGED <<calls, faults>> /\ proc[p].pc = "increment" /\ faults[p] <= faults'[p]
    BY <1>3, <1>n DEF Increment
  <2>3. CASE GiveUp(r)
    BY <1>2, <2>1, <2>2, <2>3 DEF AfterIncrement
  <2>4. CASE ~GiveUp(r)
    <3>1. r.attempt_count + 1 <= rows'[r.id].attempt_count
      <4>1. r.attempt_count <= rows[r.id].attempt_count
        BY DEF OutboxInv, CopiesBehind
      <4>2. rows[r.id].attempt_count \in Nat
        BY <1>n DEF TypeOK
      <4>3. rows'[r.id].attempt_count = rows[r.id].attempt_count + 1
        BY <1>n, <2>1 DEF TypeOK
      <4>. QED BY <1>n, <4>1, <4>2, <4>3
    <3>2. calls[p][r.id] <= Preceding(rows'[r.id].attempt_count) + faults'[p]
      BY <1>0, <2>2, <2>4, <3>1, InHandBound
    <3>3. NextRecord(p, r)
      BY <2>1, <2>4 DEF AfterIncrement
    <3>. QED BY <1>0, <2>1, <2>2, <3>2, <3>3, OthersUncalled, HandShrinks
  <2>. QED BY <2>3, <2>4
<1>4. CASE LoseUpdate(p)
  <2>1. PICK r \in proc[p].todo :
           /\ IsCurrent(r, p)
           /\ NextRecord(p, r) \/ (proc[p].pc = "increment" /\ GiveUp(r) /\ Goto(p, "fail"))
    BY <1>4 DEF LoseUpdate, AfterIncrement
  <2>2. calls' = calls /\ faults'[p] = faults[p] + 1 /\ faults[p] <= faults'[p]
    BY <1>4, <1>n DEF LoseUpdate, TypeOK
  <2>3. CASE NextRecord(p, r)
    BY <1>0, <2>1, <2>2, <2>3, OthersUncalled, InHandBound, HandShrinks
  <2>. QED BY <1>2, <2>1, <2>2, <2>3
<1>5. CASE Crash(p)
  <2>1. /\ calls' = calls /\ faults'[p] = faults[p] + 1 /\ faults[p] <= faults'[p]
        /\ proc'[p].todo = {} /\ proc'[p].pc = "poll"
    BY <1>5, <1>n DEF Crash, Idle, TypeOK
  <2>. QED BY <1>0, <2>1, InHandBound, HandShrinks
<1>. QED BY <1>1, <1>3, <1>4, <1>5, PollHand, PublishHand DEF ProcessorStep

\* A step of one processor is none of the others'.
LEMMA OthersUntouched ==
    ASSUME TypeOK, NEW p \in Processor, ProcessorStep(p) \/ LoseUpdate(p) \/ Crash(p),
           NEW q \in Processor, q # p
    PROVE  proc'[q] = proc[q] /\ calls'[q] = calls[q] /\ faults'[q] = faults[q]
<1>1. ASSUME NEW r \in proc[p].todo, CountCall(p, r) PROVE calls'[q] = calls[q]
  BY <1>1, OneMoreCall DEF TypeOK, CopyRecord
<1>2. ASSUME NEW r, NEW label, Goto(p, label) \/ NextRecord(p, r) \/ AfterIncrement(p, r)
      PROVE  proc'[q] = proc[q]
  BY <1>2 DEF Goto, NextRecord, AfterIncrement, TypeOK
<1>3. CASE Poll(p)
  BY <1>3 DEF Poll, TypeOK
<1>4. CASE PublishOk(p) \/ PublishErr(p)
  BY <1>1, <1>2, <1>4 DEF PublishOk, PublishErr
<1>5. CASE MarkDelivered(p) \/ Increment(p) \/ MarkFailed(p)
  BY <1>2, <1>5 DEF MarkDelivered, Increment, MarkFailed
<1>6. CASE LoseUpdate(p)
  BY <1>2, <1>6 DEF LoseUpdate, TypeOK
<1>7. CASE Crash(p)
  BY <1>7 DEF Crash, TypeOK
<1>. QED BY <1>3, <1>4, <1>5, <1>6, <1>7 DEF ProcessorStep

\* The calls of every processor stay accounted for.
THEOREM RetriesInvariant == Spec => []RetriesInv
<1>1. Init => RetriesInv
  BY OutboxAssumption DEF Init, RetriesInv, HandWellFormed, CallsInHand, CallsOfOpen, Idle,
                          Preceding, CallLimit
<1>2. TypeOK /\ TypeOK' /\ OutboxInv /\ RetriesInv /\ [Next]_vars => RetriesInv'
  <2>. SUFFICES ASSUME TypeOK, TypeOK', OutboxInv, RetriesInv, [Next]_vars,
                       NEW q \in Processor
                PROVE  HandInv(q)'
    BY DEF RetriesInv, HandInv
  <2>0. HandInv(q) /\ \A o \in Record : RowAdvances(o)
    BY RowsAdvance DEF RetriesInv, HandInv
  <2>1. CASE ProcessorStep(q) \/ LoseUpdate(q) \/ Crash(q)
    BY <2>0, <2>1, OwnStep
  <2>2. CASE proc'[q] = proc[q] /\ calls'[q] = calls[q] /\ faults'[q] = faults[q]
    BY <2>0, <2>2, HandKept
  <2>3. ASSUME NEW o \in Record, Enqueue(o) PROVE HandInv(q)'
    BY <2>2, <2>3 DEF Enqueue
  <2>4. CASE UNCHANGED vars
    BY <2>2, <2>4 DEF vars
  <2>. QED BY <2>1, <2>2, <2>3, <2>4, OthersUntouched DEF Next
<1>. QED BY <1>1, <1>2, OutboxTypeCorrect, OutboxInvariant, PTL DEF Spec

\* Each processor makes at most outbox_max_retries calls for an event, plus one for
\* each crash or lost update it meets: so do all of them together, times their
\* number (publish_one).
THEOREM CallsBounded == Spec => []RetriesBounded
<1>1. RetriesInv => RetriesBounded
  BY DEF RetriesInv, RetriesBounded
<1>. QED BY <1>1, RetriesInvariant, PTL
====
