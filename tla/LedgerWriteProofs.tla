------------------------- MODULE LedgerWriteProofs -------------------------
(***************************************************************************)
(* Theorems about LedgerWrite, for every number of processes, calls, chains, *)
(* keys and bodies, every retry limit and every combination of faults.       *)
(***************************************************************************)
EXTENDS LedgerWrite, TLAPS

USE DEF NoTx, NoCall, NotHalted

-----------------------------------------------------------------------------
(* Type correctness *)

\* The sets of TypeOK depend on the rows only, and grow with them.
LEMMA SameRowsSameTypes ==
    UNCHANGED entries => UNCHANGED <<KnownHashes, Row, Tx, Call, Resp, Input>>
  BY DEF KnownHashes, Row, Input, Tx, Call, Resp

\* Types survive a step that keeps the rows: each changed variable on its own.
LEMMA TypeStep ==
    ASSUME TypeOK, UNCHANGED entries,
           outbox' \subseteq EntryId, tx' \in [Handler -> Tx],
           call' \in [Handler -> Call], resp' \in [Handler -> Resp],
           halted' \in [Proc -> [Chain -> {NotHalted} \cup 0..MaxClock]],
           clock' \in 0..MaxClock
    PROVE  TypeOK'
  BY SameRowsSameTypes DEF TypeOK

\* A call that moves on stays a call.
Pcs == {"halt_check", "halt_clear", "find", "lock", "tip", "begin", "tx", "conflict",
        "halt_set"}

\* A call that moves to another label keeps its type.
LEMMA CallMove ==
    ASSUME TypeOK, NEW h \in Handler, call[h].pc # "idle",
           NEW label \in Pcs,
           Goto(h, label)
    PROVE  call' \in [Handler -> Call]
<1>1. call[h] \in Call /\ call[h] # NoCall
  BY DEF TypeOK
<1>2. [call[h] EXCEPT !.pc = label] \in Call
  BY <1>1 DEF Call, Pcs, GuardedPcs
<1>3. call' = [call EXCEPT ![h] = [call[h] EXCEPT !.pc = label]]
  BY DEF Goto
<1>. QED
  BY <1>2, <1>3 DEF TypeOK

\* A call that ends with a proper answer keeps the types.
LEMMA CallReply ==
    ASSUME TypeOK, NEW h \in Handler, NEW r \in Resp, Reply(h, r)
    PROVE  /\ call' \in [Handler -> Call]
           /\ resp' \in [Handler -> Resp]
<1>1. NoCall \in Call
  BY DEF Call
<1>. QED
  BY <1>1 DEF Reply, TypeOK

\* A found row is a proper answer.
LEMMA AnswerType ==
    ASSUME TypeOK, NEW h \in Handler, call[h].pc # "idle", NEW e \in entries
    PROVE  Ok(call[h].req, e) \in Resp /\ AlreadyExists(call[h].req) \in Resp
<1>1. call[h].req \in Request
  BY DEF TypeOK, Call
<1>. QED
  BY <1>1 DEF Ok, AlreadyExists, Resp

\* The retry or halt after ChainIntegrityViolation stays within the attempt bound.
LEMMA ViolationType ==
    ASSUME TypeOK, NEW h \in Handler, call[h].pc = "tx", ChainIntegrityViolation(h)
    PROVE  /\ tx' \in [Handler -> Tx]
           /\ call' \in [Handler -> Call]
<1>1. tx' \in [Handler -> Tx]
  BY DEF ChainIntegrityViolation, TypeOK, Tx
<1>2. call[h] \in Call /\ call[h] # NoCall
  BY DEF TypeOK
<1>3. CASE call[h].attempt + 1 < ChainMaxRetries
  <2>. DEFINE k == [call[h] EXCEPT !.pc = "tip", !.attempt = @ + 1]
  <2>1. call[h].attempt + 1 \in 0..(ChainMaxRetries - 1)
    BY <1>2, <1>3, ConstantsAssumption DEF Call
  <2>2. k \in Call
    BY <1>2, <2>1 DEF Call, GuardedPcs
  <2>3. call' = [call EXCEPT ![h] = k]
    BY <1>3 DEF ChainIntegrityViolation
  <2>. HIDE DEF k
  <2>. QED BY <1>1, <2>2, <2>3 DEF TypeOK
<1>4. CASE ~(call[h].attempt + 1 < ChainMaxRetries)
  <2>1. Goto(h, "halt_set")
    BY <1>4 DEF ChainIntegrityViolation, Goto
  <2>. QED BY <1>1, <2>1, CallMove DEF Pcs
<1>. QED BY <1>3, <1>4

\* TakePosition yields a transaction of the placed kind.
LEMMA TakePositionType ==
    ASSUME TypeOK, NEW h \in Handler, tx[h].stage # "none", NEW pos \in Nat \ {0},
           TakePosition(h, pos)
    PROVE  tx' \in [Handler -> Tx]
<1>1. tx[h].input \in Input
  BY DEF TypeOK, Tx
<1>2. PICK id \in EntryId : tx' = [tx EXCEPT ![h] = [stage |-> "checked", input |-> tx[h].input,
                                     pos |-> pos, id |-> id, outboxed |-> FALSE]]
  BY DEF TakePosition
<1>3. [stage |-> "checked", input |-> tx[h].input, pos |-> pos, id |-> id,
       outboxed |-> FALSE] \in Tx
  BY <1>1 DEF Tx
<1>. QED BY <1>2, <1>3 DEF TypeOK

\* A placed transaction that moves to a later stage keeps its type.
LEMMA PlacedMove ==
    ASSUME NEW t \in Tx, t.stage \in {"checked", "inserted"}
    PROVE  /\ [t EXCEPT !.stage = "inserted"] \in Tx
           /\ [t EXCEPT !.stage = "committing", !.outboxed = CreateOutbox] \in Tx
<1>. DEFINE Placed == [stage : {"checked", "inserted", "committing"}, input : Input,
                       pos : Nat \ {0}, id : EntryId, outboxed : BOOLEAN]
<1>1. t \in Placed
  BY DEF Tx
<1>2. [t EXCEPT !.stage = "inserted"] \in Placed
  BY <1>1
<1>3. [t EXCEPT !.stage = "committing", !.outboxed = CreateOutbox] \in Placed
  BY <1>1, ConstantsAssumption
<1>. QED BY <1>2, <1>3 DEF Tx

\* The commit of a transaction: one more row, and types that only grew.
LEMMA PublishType ==
    ASSUME TypeOK, NEW h \in Handler, tx[h].stage = "committing", Publish(h)
    PROVE  /\ entries' \subseteq Row'
           /\ outbox' \subseteq EntryId
           /\ tx' \in [Handler -> Tx']
           /\ Call \subseteq Call' /\ Resp \subseteq Resp'
           /\ TxRow(h) \in entries'
<1>1. KnownHashes \subseteq KnownHashes' /\ entries \subseteq entries' /\ TxRow(h) \in entries'
  BY DEF Publish, KnownHashes
<1>2. Input \subseteq Input' /\ Call \subseteq Call' /\ Resp \subseteq Resp' /\ Row \subseteq Row'
  BY <1>1 DEF Input, Call, Resp, Row
<1>3. Tx \subseteq Tx'
  BY <1>2 DEF Tx
<1>4. /\ tx[h].input \in Input /\ tx[h].pos \in Nat \ {0} /\ tx[h].id \in EntryId
  BY DEF TypeOK, Tx
<1>5. TxRow(h).entry_hash \in KnownHashes'
  BY <1>1 DEF KnownHashes
<1>6. TxRow(h) \in Row'
  BY <1>1, <1>4, <1>5 DEF TxRow, LedgerEntryRecord, Row, Input
<1>7. entries' \subseteq Row'
  BY <1>2, <1>6 DEF Publish, TypeOK
<1>8. outbox' \subseteq EntryId
  BY <1>4 DEF Publish, TypeOK
<1>9. tx' \in [Handler -> Tx']
  BY <1>3 DEF Publish, TypeOK, Tx
<1>. QED BY <1>1, <1>2, <1>7, <1>8, <1>9

\* Types hold in every reachable state: a call never makes more than
\* chain_max_retries attempts, never holds a hash no committed row carries, and
\* a row it returned stays in the ledger (write_entry_impl).
THEOREM TypeCorrect == Spec => []TypeOK
<1>1. Init => TypeOK
  BY ConstantsAssumption DEF Init, TypeOK, Tx, Call, Resp, Failed
<1>2. TypeOK /\ [Next]_vars => TypeOK'
  <2>. SUFFICES ASSUME TypeOK, [Next]_vars PROVE TypeOK'
    OBVIOUS
  <2>. USE ConstantsAssumption
  <2>0. \A kind \in {"none", "invalid", "unavailable", "internal"} : Failed(kind) \in Resp
    BY DEF Failed, Resp
  <2>1. ASSUME NEW h \in Handler, Receive(h) PROVE TypeOK'
    <3>1. PICK r \in Request : Receive(h)!3!(r)
      BY <2>1 DEF Receive
    <3>2. CASE r.body \in InvalidBody
      BY <2>1, <2>0, <3>1, <3>2, TypeStep DEF TypeOK, Receive
    <3>3. CASE r.body \notin InvalidBody
      <4>. DEFINE k == [pc |-> "halt_check", req |-> r, attempt |-> 0,
                        previous_hash |-> Genesis, written_ts |-> 0]
      <4>1. k \in Call
        BY DEF Call, KnownHashes
      <4>2. call' = [call EXCEPT ![h] = k] /\ resp' = [resp EXCEPT ![h] = Failed("none")]
        BY <3>1, <3>3
      <4>. HIDE DEF k
      <4>4. call' \in [Handler -> Call] /\ resp' \in [Handler -> Resp]
        BY <2>0, <4>1, <4>2 DEF TypeOK
      <4>. QED BY <2>1, <4>4, TypeStep DEF TypeOK, Receive
    <3>. QED BY <3>2, <3>3
  <2>2. ASSUME NEW h \in Handler, CheckHalt(h) PROVE TypeOK'
    <3>1. CASE Reply(h, Failed("unavailable"))
      BY <2>0, <2>2, <3>1, CallReply, TypeStep DEF TypeOK, CheckHalt
    <3>2. CASE \E label \in {"halt_clear", "find", "lock"} : Goto(h, label) /\ UNCHANGED resp
      BY <2>2, <3>2, CallMove, TypeStep DEF TypeOK, CheckHalt, Pcs
    <3>. QED BY <2>2, <3>1, <3>2 DEF CheckHalt, AfterHalt
  <2>3. ASSUME NEW h \in Handler, ClearHalt(h) PROVE TypeOK'
    <3>1. ProcOf[h] \in Proc /\ call[h].req.entry_type \in Chain
      BY <2>3 DEF TypeOK, ClearHalt, Call, Request
    <3>2. halted' \in [Proc -> [Chain -> {NotHalted} \cup 0..MaxClock]]
      BY <2>3, <3>1 DEF TypeOK, ClearHalt
    <3>3. \E label \in {"find", "lock"} : Goto(h, label)
      BY <2>3 DEF ClearHalt, AfterHalt
    <3>. QED BY <2>3, <3>2, <3>3, CallMove, TypeStep DEF TypeOK, ClearHalt, Pcs
  <2>4. ASSUME NEW h \in Handler, FindIdempotent(h) PROVE TypeOK'
    <3>1. CASE Goto(h, "lock") /\ UNCHANGED resp
      BY <2>4, <3>1, CallMove, TypeStep DEF TypeOK, FindIdempotent, Pcs
    <3>2. CASE \E r \in Resp : Reply(h, r)
      BY <2>4, <3>2, CallReply, TypeStep DEF TypeOK, FindIdempotent
    <3>. QED BY <2>4, <3>1, <3>2, AnswerType DEF FindIdempotent
  <2>5. ASSUME NEW h \in Handler, AcquireChainLock(h) PROVE TypeOK'
    <3>1. CASE Reply(h, Failed("internal"))
      BY <2>0, <2>5, <3>1, CallReply, TypeStep DEF TypeOK, AcquireChainLock
    <3>2. CASE Goto(h, "tip") /\ UNCHANGED resp
      BY <2>5, <3>2, CallMove, TypeStep DEF TypeOK, AcquireChainLock, Pcs
    <3>. QED BY <2>5, <3>1, <3>2 DEF AcquireChainLock
  <2>6. ASSUME NEW h \in Handler, GetChainTip(h) PROVE TypeOK'
    <3>1. PICK prev \in KnownHashes :
             call' = [call EXCEPT ![h].pc = "begin", ![h].previous_hash = prev,
                                  ![h].written_ts = clock]
      BY <2>6 DEF GetChainTip, ReadTip, KnownHashes, Rows
    <3>. DEFINE k == [call[h] EXCEPT !.pc = "begin", !.previous_hash = prev,
                                     !.written_ts = clock]
    <3>2. call[h] \in Call /\ call[h] # NoCall /\ clock \in 0..MaxClock
      BY <2>6 DEF TypeOK, GetChainTip
    <3>3. k \in Call
      BY <3>2 DEF Call, GuardedPcs
    <3>5. call' = [call EXCEPT ![h] = k]
      BY <3>1
    <3>. HIDE DEF k
    <3>6. call' \in [Handler -> Call]
      BY <3>3, <3>5 DEF TypeOK
    <3>. QED BY <2>6, <3>6, TypeStep DEF TypeOK, GetChainTip
  <2>7. ASSUME NEW h \in Handler, BeginTx(h) PROVE TypeOK'
    <3>. DEFINE t == [stage |-> "begun",
                      input |-> EntryWriteInput(call[h].req, call[h].previous_hash,
                                                call[h].written_ts)]
    <3>1. call[h] \in Call /\ call[h] # NoCall
      BY <2>7 DEF TypeOK, BeginTx
    <3>2. t \in Tx
      BY <3>1 DEF Call, Tx, Input, EntryWriteInput, Request
    <3>3. tx' = [tx EXCEPT ![h] = t]
      BY <2>7 DEF BeginTx
    <3>. HIDE DEF t
    <3>4. tx' \in [Handler -> Tx]
      BY <3>2, <3>3 DEF TypeOK
    <3>5. Goto(h, "tx") /\ call[h].pc = "begin"
      BY <2>7 DEF BeginTx
    <3>. QED BY <2>7, <3>4, <3>5, CallMove, TypeStep DEF TypeOK, BeginTx, Pcs
  <2>8. ASSUME NEW h \in Handler, TxLock(h) PROVE TypeOK'
    <3>1. tx' \in [Handler -> Tx]
      BY <2>8 DEF TypeOK, TxLock, Tx
    <3>. QED BY <2>8, <3>1, TypeStep DEF TypeOK, TxLock
  <2>9. ASSUME NEW h \in Handler, TxCheckTip(h) PROVE TypeOK'
    <3>1. CASE ChainIntegrityViolation(h)
      BY <2>9, <3>1, ViolationType, TypeStep DEF TypeOK, TxCheckTip
    <3>2. CASE \E pos \in Nat \ {0} : TakePosition(h, pos)
      <4>1. tx' \in [Handler -> Tx] /\ UNCHANGED call
        BY <2>9, <3>2, TakePositionType DEF TxCheckTip, TakePosition
      <4>. QED BY <2>9, <4>1, TypeStep DEF TypeOK, TxCheckTip
    <3>3. \A e \in entries : e.chain_position + 1 \in Nat \ {0}
      BY DEF TypeOK, Row
    <3>. QED BY <2>9, <3>1, <3>2, <3>3 DEF TxCheckTip, Rows
  <2>10. ASSUME NEW h \in Handler, TxInsert(h) PROVE TypeOK'
    <3>1. CASE ChainIntegrityViolation(h)
      BY <2>10, <3>1, ViolationType, TypeStep DEF TypeOK, TxInsert
    <3>2. CASE tx' = [tx EXCEPT ![h] = NoTx] /\ Goto(h, "conflict")
      <4>1. tx' \in [Handler -> Tx]
        BY <3>2 DEF TypeOK, Tx
      <4>. QED BY <2>10, <3>2, <4>1, CallMove, TypeStep DEF TypeOK, TxInsert, Pcs
    <3>3. CASE tx' = [tx EXCEPT ![h].stage = "inserted"] /\ UNCHANGED call
      <4>1. tx' \in [Handler -> Tx]
        BY <2>10, <3>3, PlacedMove DEF TypeOK, TxInsert
      <4>. QED BY <2>10, <3>3, <4>1, TypeStep DEF TypeOK, TxInsert
    <3>. QED BY <2>10, <3>1, <3>2, <3>3 DEF TxInsert
  <2>11. ASSUME NEW h \in Handler, TxInsertOutbox(h) PROVE TypeOK'
    <3>. DEFINE t == [tx[h] EXCEPT !.stage = "committing", !.outboxed = CreateOutbox]
    <3>1. tx[h] \in Tx /\ tx[h].stage = "inserted" /\ tx' = [tx EXCEPT ![h] = t]
      BY <2>11 DEF TypeOK, TxInsertOutbox
    <3>2. t \in Tx
      BY <3>1, PlacedMove DEF TypeOK
    <3>. HIDE DEF t
    <3>3. tx' \in [Handler -> Tx]
      BY <3>1, <3>2 DEF TypeOK
    <3>. QED BY <2>11, <3>3, TypeStep DEF TypeOK, TxInsertOutbox
  <2>12. ASSUME NEW h \in Handler, TxCommit(h) PROVE TypeOK'
    <3>1. Publish(h) /\ tx[h].stage = "committing"
      BY <2>12 DEF TxCommit
    <3>2. Ok(call[h].req, TxRow(h)) \in Resp'
      <4>1. call[h].req \in Request
        BY <2>12 DEF TxCommit, TypeOK, Call
      <4>. QED BY <3>1, <4>1, PublishType DEF Ok, Resp
    <3>3. call' = [call EXCEPT ![h] = NoCall] /\ NoCall \in Call
      BY <2>12 DEF TxCommit, Reply, Call
    <3>4. call' \in [Handler -> Call'] /\ resp' \in [Handler -> Resp']
      BY <2>12, <3>1, <3>2, <3>3, PublishType DEF TypeOK, TxCommit, Reply
    <3>. QED BY <2>12, <3>1, <3>4, PublishType DEF TypeOK, TxCommit
  <2>13. ASSUME NEW h \in Handler, ConflictLookup(h) PROVE TypeOK'
    <3>1. \E r \in Resp : Reply(h, r)
      BY <2>0, <2>13, AnswerType DEF ConflictLookup
    <3>. QED BY <2>13, <3>1, CallReply, TypeStep DEF TypeOK, ConflictLookup
  <2>14. ASSUME NEW h \in Handler, SetHalt(h) PROVE TypeOK'
    <3>1. ProcOf[h] \in Proc /\ call[h].req.entry_type \in Chain
      BY <2>14 DEF TypeOK, SetHalt, Call, Request
    <3>2. halted' \in [Proc -> [Chain -> {NotHalted} \cup 0..MaxClock]]
      BY <2>14, <3>1 DEF TypeOK, SetHalt
    <3>. QED BY <2>0, <2>14, <3>2, CallReply, TypeStep DEF TypeOK, SetHalt
  <2>15. ASSUME NEW h \in Handler, DbError(h) \/ Cancel(h) PROVE TypeOK'
    BY <2>0, <2>15, CallReply, TypeStep DEF TypeOK, DbError, Cancel
  <2>16. ASSUME NEW p \in Proc, Crash(p) PROVE TypeOK'
    <3>1. NoCall \in Call
      BY DEF Call
    <3>2. call' \in [Handler -> Call] /\ resp' \in [Handler -> Resp]
      BY <2>0, <2>16, <3>1 DEF Crash, TypeOK
    <3>4. halted' \in [Proc -> [Chain -> {NotHalted} \cup 0..MaxClock]]
      BY <2>16 DEF Crash, TypeOK
    <3>. QED BY <2>16, <3>2, <3>4, TypeStep DEF Crash, TypeOK
  <2>17. ASSUME NEW h \in Handler, OrphanAbort(h) PROVE TypeOK'
    <3>1. tx' \in [Handler -> Tx]
      BY <2>17 DEF TypeOK, Tx, OrphanAbort
    <3>. QED BY <2>17, <3>1, TypeStep DEF TypeOK, OrphanAbort
  <2>18. ASSUME NEW h \in Handler, OrphanCommit(h) PROVE TypeOK'
    <3>1. Publish(h) /\ tx[h].stage = "committing" /\ UNCHANGED <<call, resp, halted, clock>>
      BY <2>18 DEF OrphanCommit
    <3>2. call' \in [Handler -> Call'] /\ resp' \in [Handler -> Resp']
      BY <3>1, PublishType DEF TypeOK
    <3>. QED BY <3>1, <3>2, PublishType DEF TypeOK
  <2>19. ASSUME Tick PROVE TypeOK'
    <3>1. clock' \in 0..MaxClock
      BY <2>19 DEF Tick, TypeOK
    <3>. QED BY <2>19, <3>1, TypeStep DEF TypeOK, Tick
  <2>20. ASSUME UNCHANGED vars PROVE TypeOK'
    BY <2>20, TypeStep DEF TypeOK, vars
  <2>. QED
    BY <2>1, <2>2, <2>3, <2>4, <2>5, <2>6, <2>7, <2>8, <2>9, <2>10, <2>11, <2>12,
       <2>13, <2>14, <2>15, <2>16, <2>17, <2>18, <2>19, <2>20 DEF Next, ServiceStep
<1>. QED BY <1>1, <1>2, PTL DEF Spec

-----------------------------------------------------------------------------
(* The inductive invariant *)

\* The store part of the invariant reads the rows and the transactions only.
LEMMA StoreKept == StoreInv /\ UNCHANGED <<entries, tx>> => StoreInv'
  BY DEF StoreInv, LockExclusive, TxOnChain, PlacedOnTip, InsertedKeyFree, ChainLinked,
         LinkedToPredecessor, PositionsUnique, HashesRecompute, KeyUnique, SameKey,
         ChainHashes, Rows, IsTip

\* The conjuncts about the rows alone.
LEMMA RowsKept ==
    StoreInv /\ UNCHANGED entries => ChainLinked' /\ KeyUnique'
  BY DEF StoreInv, ChainLinked, LinkedToPredecessor, PositionsUnique, HashesRecompute,
         KeyUnique, Rows

\* A transaction ends without a trace.
LEMMA TxEnds ==
    ASSUME TypeOK, StoreInv, NEW h \in Handler, UNCHANGED entries,
           tx' = [tx EXCEPT ![h] = NoTx]
    PROVE  StoreInv'
<1>1. /\ \A g \in Handler \ {h} : tx'[g] = tx[g]
      /\ tx'[h].stage = "none"
  BY DEF TypeOK
<1>2. LockExclusive'
  BY <1>1 DEF StoreInv, LockExclusive, LockStages
<1>3. TxOnChain'
  BY <1>1 DEF StoreInv, TxOnChain, ChainHashes, Rows
<1>4. PlacedOnTip'
  BY <1>1 DEF StoreInv, PlacedOnTip, Rows, IsTip
<1>5. InsertedKeyFree'
  BY <1>1 DEF StoreInv, InsertedKeyFree, SameKey
<1>. QED BY <1>2, <1>3, <1>4, <1>5, RowsKept DEF StoreInv

\* A transaction takes a step that keeps what the lock protects.
LEMMA TxMoves ==
    ASSUME TypeOK, StoreInv, UNCHANGED entries,
           NEW h \in Handler, NEW t,
           tx' = [tx EXCEPT ![h] = t],
           t.input.previous_hash \in ChainHashes(t.input.entry_type),
           t.stage \in LockStages =>
               \A g \in Handler \ {h} : ~HoldsAdvisoryLock(g, t.input.entry_type),
           t.stage \in {"checked", "inserted", "committing"} =>
               LET c == t.input.entry_type IN
               \/ Rows(c) = {} /\ t.pos = 1 /\ t.input.previous_hash = Genesis
               \/ \E e \in Rows(c) :
                    /\ IsTip(e, c)
                    /\ t.pos = e.chain_position + 1
                    /\ t.input.previous_hash = e.entry_hash,
           t.stage \in {"inserted", "committing"} =>
               \A e \in entries : ~HasKey(e, t.input.entry_type, t.input.idempotency_key)
    PROVE  StoreInv'
<1>1. /\ \A g \in Handler \ {h} : tx'[g] = tx[g]
      /\ tx'[h] = t
  BY DEF TypeOK
<1>2. LockExclusive'
  BY <1>1 DEF StoreInv, LockExclusive, HoldsAdvisoryLock
<1>3. TxOnChain'
  BY <1>1 DEF StoreInv, TxOnChain, ChainHashes, Rows
<1>4. PlacedOnTip'
  BY <1>1 DEF StoreInv, PlacedOnTip, Rows, IsTip
<1>5. InsertedKeyFree'
  BY <1>1 DEF StoreInv, InsertedKeyFree, SameKey
<1>. QED BY <1>2, <1>3, <1>4, <1>5, RowsKept DEF StoreInv

\* What a placed transaction knows, as TxMoves wants it.
PlacedStep(h, t) ==
    /\ t.input.previous_hash \in ChainHashes(t.input.entry_type)
    /\ \A g \in Handler \ {h} : ~HoldsAdvisoryLock(g, t.input.entry_type)
    /\ LET c == t.input.entry_type IN
       \/ Rows(c) = {} /\ t.pos = 1 /\ t.input.previous_hash = Genesis
       \/ \E e \in Rows(c) :
            /\ IsTip(e, c)
            /\ t.pos = e.chain_position + 1
            /\ t.input.previous_hash = e.entry_hash

\* PlacedStep is what PlacedOnTip says of a transaction that is placed.
LEMMA PlacedFacts ==
    ASSUME StoreInv, NEW h \in Handler, tx[h].stage \in {"checked", "inserted"},
           NEW t, t.input = tx[h].input, t.pos = tx[h].pos
    PROVE  PlacedStep(h, t)
<1>1. t.input.previous_hash \in ChainHashes(t.input.entry_type)
  BY DEF StoreInv, TxOnChain
<1>2. \A g \in Handler \ {h} : ~HoldsAdvisoryLock(g, t.input.entry_type)
  BY DEF StoreInv, LockExclusive, HoldsAdvisoryLock, LockStages
<1>. QED BY <1>1, <1>2 DEF StoreInv, PlacedOnTip, PlacedStep

\* A call that is neither about to begin nor inside a transaction promises nothing.
LEMMA CallLeaves ==
    ASSUME CallInv, NEW h \in Handler, entries \subseteq entries',
           \A g \in Handler \ {h} : call'[g] = call[g] /\ tx'[g] = tx[g],
           call'[h].pc \notin {"begin", "tx"}
    PROVE  CallInv'
  BY DEF CallInv, TipReadOfChain, TxServesCall, ChainHashes, Rows

\* A commit appends one row to the chain whose lock the transaction owns.
LEMMA PublishStore ==
    ASSUME TypeOK, StoreInv, NEW h \in Handler, tx[h].stage = "committing", Publish(h)
    PROVE  StoreInv'
<1>a. PICK c : c = tx[h].input.entry_type
  OBVIOUS
<1>b. PICK r : r = TxRow(h)
  OBVIOUS
<1>1. /\ tx[h].input \in Input /\ tx[h].pos \in Nat \ {0} /\ tx[h].id \in EntryId
  BY DEF TypeOK, Tx
<1>2. /\ r.entry_type = c /\ r.chain_position = tx[h].pos
      /\ r.previous_hash = tx[h].input.previous_hash
      /\ r.idempotency_key = tx[h].input.idempotency_key
      /\ r = LedgerEntryRecord(r.entry_id, r, r.chain_position)
  BY <1>a, <1>b DEF TxRow, LedgerEntryRecord, canonical_entry_hash, sha256_hex
<1>3. entries' = entries \cup {r}
  BY <1>b DEF Publish
<1>4. \A d \in Chain : d # c => Rows(d)' = Rows(d)
  BY <1>2, <1>3 DEF Rows
<1>5. Rows(c)' = Rows(c) \cup {r}
  BY <1>2, <1>3 DEF Rows
<1>6. \/ Rows(c) = {} /\ r.chain_position = 1 /\ r.previous_hash = Genesis
      \/ \E e \in Rows(c) : /\ IsTip(e, c)
                           /\ r.chain_position = e.chain_position + 1
                           /\ r.previous_hash = e.entry_hash
  BY <1>2, <1>a DEF StoreInv, PlacedOnTip
<1>7. \A e \in entries : e.chain_position \in Nat \ {0}
  BY DEF TypeOK, Row
<1>8. /\ \A g \in Handler \ {h} : tx'[g] = tx[g]
      /\ tx'[h].stage = "none"
  BY DEF Publish, TypeOK
<1>9. \A g \in Handler \ {h} : tx[g].stage \in LockStages => tx[g].input.entry_type # c
  BY <1>a DEF StoreInv, LockExclusive, LockStages
<1>10. \A g \in Handler : tx[g].stage # "none" => tx[g].input.entry_type \in Chain
  BY DEF TypeOK, Tx, Input
<1>11. LockExclusive'
  BY <1>8 DEF StoreInv, LockExclusive, LockStages
<1>12. TxOnChain'
  BY <1>3, <1>8 DEF StoreInv, TxOnChain, ChainHashes, Rows
<1>13. PlacedOnTip'
  <2>. SUFFICES ASSUME NEW g \in Handler \ {h},
                       tx[g].stage \in {"checked", "inserted", "committing"}
                PROVE  \A d : d = tx[g].input.entry_type =>
                       \/ Rows(d)' = {} /\ tx[g].pos = 1 /\ tx[g].input.previous_hash = Genesis
                       \/ \E e \in Rows(d)' :
                            /\ \A f \in Rows(d)' : f.chain_position <= e.chain_position
                            /\ tx[g].pos = e.chain_position + 1
                            /\ tx[g].input.previous_hash = e.entry_hash
    BY <1>8 DEF PlacedOnTip, IsTip, Rows
  <2>1. PICK d \in Chain : d = tx[g].input.entry_type
    BY <1>10
  <2>2. Rows(d)' = Rows(d)
    BY <1>4, <1>9, <2>1 DEF LockStages
  <2>. QED BY <2>1, <2>2 DEF StoreInv, PlacedOnTip, IsTip
<1>14. InsertedKeyFree'
  BY <1>2, <1>3, <1>8, <1>9 DEF StoreInv, InsertedKeyFree, SameKey, HasKey, LockStages
<1>15. LinkedToPredecessor'
  <2>. SUFFICES ASSUME NEW e \in entries'
                PROVE  IF e.chain_position = 1 THEN e.previous_hash = Genesis
                       ELSE \E f \in Rows(e.entry_type)' :
                              /\ f.chain_position = e.chain_position - 1
                              /\ e.previous_hash = f.entry_hash
    BY DEF LinkedToPredecessor, Rows
  <2>1. CASE e \in entries
    BY <1>3, <2>1 DEF StoreInv, ChainLinked, LinkedToPredecessor, Rows
  <2>2. CASE e = r
    BY <1>1, <1>2, <1>5, <1>6, <1>7, <2>2 DEF Rows
  <2>. QED BY <1>3, <2>1, <2>2
<1>16. PositionsUnique'
  <2>1. \A e \in Rows(c) : e.chain_position # r.chain_position
    BY <1>6, <1>7 DEF IsTip, Rows
  <2>. QED BY <1>2, <1>3, <2>1 DEF StoreInv, ChainLinked, PositionsUnique, Rows
<1>17. HashesRecompute'
  BY <1>2, <1>3 DEF StoreInv, ChainLinked, HashesRecompute
<1>18. KeyUnique'
  <2>1. \A e \in entries : ~HasKey(e, r.entry_type, r.idempotency_key)
    BY <1>2, <1>a DEF StoreInv, InsertedKeyFree, SameKey
  <2>. QED BY <1>3, <2>1 DEF StoreInv, KeyUnique, HasKey
<1>. QED
  BY <1>11, <1>12, <1>13, <1>14, <1>15, <1>16, <1>17, <1>18 DEF StoreInv, ChainLinked

\* Moves within a call, seen from the other calls.
LEMMA CallFrame ==
    ASSUME TypeOK, NEW h \in Handler, NEW label, NEW r,
           Goto(h, label) \/ Reply(h, r)
    PROVE  /\ \A g \in Handler \ {h} : call'[g] = call[g]
           /\ Reply(h, r) => call'[h].pc = "idle"
           /\ call[h].pc # "idle" /\ Goto(h, label) => call'[h].pc = label
<1>1. call[h].pc # "idle" => call[h] \in Call \ {NoCall}
  BY DEF TypeOK
<1>. QED
  BY <1>1 DEF Goto, Reply, TypeOK, Call

\* Steps of transactions, seen from the calls.
LEMMA TxFrame ==
    ASSUME CallInv, entries \subseteq entries', UNCHANGED call,
           \A g \in Handler :
              \/ tx'[g].stage = "none"
              \/ tx[g].stage # "none" /\ tx'[g].input = tx[g].input
    PROVE  CallInv'
  BY DEF CallInv, TipReadOfChain, TxServesCall, ChainHashes, Rows

\* ChainIntegrityViolation, with its rollback, preserves the invariant.
LEMMA ViolationStep ==
    ASSUME TypeOK, LedgerInv, NEW h \in Handler, call[h].pc = "tx", UNCHANGED entries,
           ChainIntegrityViolation(h)
    PROVE  LedgerInv'
<1>1. call[h] \in Call \ {NoCall}
  BY DEF TypeOK
<1>2. /\ \A g \in Handler \ {h} : call'[g] = call[g] /\ tx'[g] = tx[g]
      /\ call'[h].pc \in {"tip", "halt_set"}
  BY <1>1 DEF ChainIntegrityViolation, TypeOK, Call
<1>3. CallInv'
  BY <1>2, CallLeaves DEF LedgerInv
<1>4. StoreInv'
  BY TxEnds DEF LedgerInv, ChainIntegrityViolation
<1>. QED BY <1>3, <1>4 DEF LedgerInv

\* Every step of Next preserves LedgerInv: one step of the proof per action.
LEMMA InductiveStep ==
    ASSUME TypeOK, LedgerInv, [Next]_vars
    PROVE  LedgerInv'
<1>. USE ConstantsAssumption
<1>1. ASSUME NEW h \in Handler,
             \/ Receive(h) \/ CheckHalt(h) \/ ClearHalt(h) \/ FindIdempotent(h)
             \/ AcquireChainLock(h) \/ ConflictLookup(h) \/ SetHalt(h)
             \/ DbError(h) \/ Cancel(h)
      PROVE  LedgerInv'
  <2>1. UNCHANGED <<entries, tx>>
    BY <1>1 DEF Receive, CheckHalt, ClearHalt, FindIdempotent, AcquireChainLock,
                ConflictLookup, SetHalt, DbError, Cancel
  <2>2. CASE Receive(h)
    <3>1. /\ \A g \in Handler \ {h} : call'[g] = call[g]
          /\ call'[h].pc \notin {"begin", "tx"}
      BY <2>2 DEF Receive, TypeOK
    <3>. QED BY <2>1, <3>1, StoreKept, CallLeaves DEF LedgerInv
  <2>3. CASE ~Receive(h)
    <3>1. call[h].pc # "idle"
      BY <1>1, <2>3 DEF CheckHalt, ClearHalt, FindIdempotent, AcquireChainLock,
                ConflictLookup, SetHalt, DbError, Cancel
    <3>2. \/ \E r : Reply(h, r)
          \/ \E label \in {"halt_clear", "find", "lock", "tip"} : Goto(h, label)
      BY <1>1, <2>3 DEF CheckHalt, ClearHalt, FindIdempotent, AcquireChainLock,
                ConflictLookup, SetHalt, DbError, Cancel, AfterHalt
    <3>3. /\ \A g \in Handler \ {h} : call'[g] = call[g]
          /\ call'[h].pc \notin {"begin", "tx"}
      BY <3>1, <3>2, CallFrame
    <3>. QED BY <2>1, <3>3, StoreKept, CallLeaves DEF LedgerInv
  <2>. QED BY <2>2, <2>3
<1>2. ASSUME NEW h \in Handler, GetChainTip(h) PROVE LedgerInv'
  <2>1. PICK c : c = call[h].req.entry_type
    OBVIOUS
  <2>2. PICK prev \in ChainHashes(c) :
           call' = [call EXCEPT ![h].pc = "begin", ![h].previous_hash = prev,
                                ![h].written_ts = clock]
    BY <1>2, <2>1 DEF GetChainTip, ReadTip, ChainHashes
  <2>3. call[h] \in Call \ {NoCall}
    BY <1>2 DEF TypeOK, GetChainTip
  <2>4. /\ \A g \in Handler \ {h} : call'[g] = call[g]
        /\ call'[h].pc = "begin" /\ call'[h].previous_hash = prev /\ call'[h].req.entry_type = c
    BY <2>1, <2>2, <2>3 DEF TypeOK, Call
  <2>5. UNCHANGED <<entries, tx>>
    BY <1>2 DEF GetChainTip
  <2>6. CallInv'
    BY <2>4, <2>5 DEF LedgerInv, CallInv, TipReadOfChain, TxServesCall, ChainHashes, Rows
  <2>. QED BY <2>5, <2>6, StoreKept DEF LedgerInv
<1>3. ASSUME NEW h \in Handler, BeginTx(h) PROVE LedgerInv'
  <2>1. PICK t : t = [stage |-> "begun",
                      input |-> EntryWriteInput(call[h].req, call[h].previous_hash,
                                                call[h].written_ts)]
    OBVIOUS
  <2>2. call[h] \in Call \ {NoCall} /\ call[h].pc = "begin"
    BY <1>3 DEF TypeOK, BeginTx
  <2>3. /\ t.stage = "begun" /\ t.input.entry_type = call[h].req.entry_type
        /\ t.input.previous_hash = call[h].previous_hash
        /\ t.input.body = call[h].req.body
        /\ t.input.idempotency_key = call[h].req.idempotency_key
    BY <2>1 DEF EntryWriteInput
  <2>4. tx' = [tx EXCEPT ![h] = t] /\ UNCHANGED entries
    BY <1>3, <2>1 DEF BeginTx
  <2>5. t.input.previous_hash \in ChainHashes(t.input.entry_type)
    BY <2>2, <2>3 DEF LedgerInv, CallInv, TipReadOfChain
  <2>6. StoreInv'
    BY <2>3, <2>4, <2>5, TxMoves DEF LedgerInv, LockStages
  <2>7. /\ \A g \in Handler \ {h} : call'[g] = call[g] /\ tx'[g] = tx[g]
        /\ call'[h].pc = "tx" /\ call'[h].req = call[h].req /\ tx'[h] = t
    BY <1>3, <2>2, <2>4 DEF BeginTx, Goto, TypeOK, Call
  <2>8. CallInv'
    BY <2>3, <2>4, <2>7 DEF LedgerInv, CallInv, TipReadOfChain, TxServesCall, ChainHashes, Rows
  <2>. QED BY <2>6, <2>8 DEF LedgerInv
<1>4. ASSUME NEW h \in Handler, TxLock(h) PROVE LedgerInv'
  <2>1. tx[h] \in Tx /\ tx[h].stage = "begun"
    BY <1>4 DEF TxLock, TypeOK
  <2>2. PICK t : t = [tx[h] EXCEPT !.stage = "locked"]
    OBVIOUS
  <2>3. t.stage = "locked" /\ t.input = tx[h].input
    BY <2>1, <2>2 DEF Tx
  <2>4. tx' = [tx EXCEPT ![h] = t] /\ UNCHANGED <<entries, call>>
    BY <1>4, <2>2 DEF TxLock
  <2>5. t.input.previous_hash \in ChainHashes(t.input.entry_type)
    BY <2>1, <2>3 DEF LedgerInv, StoreInv, TxOnChain
  <2>6. StoreInv'
    BY <1>4, <2>3, <2>4, <2>5, TxMoves DEF LedgerInv, TxLock
  <2>7. CallInv'
    BY <2>1, <2>3, <2>4, TxFrame DEF LedgerInv, TypeOK
  <2>. QED BY <2>6, <2>7 DEF LedgerInv
<1>5. ASSUME NEW h \in Handler, TxCheckTip(h) PROVE LedgerInv'
  <2>. PICK c : c = tx[h].input.entry_type
    OBVIOUS
  <2>1. CASE ChainIntegrityViolation(h)
    BY <1>5, <2>1, ViolationStep DEF TxCheckTip
  <2>2. ASSUME NEW pos, TakePosition(h, pos),
               \/ Rows(c) = {} /\ pos = 1
               \/ \E e \in Rows(c) : /\ IsTip(e, c) /\ pos = e.chain_position + 1
                                    /\ tx[h].input.previous_hash = e.entry_hash
        PROVE  LedgerInv'
    <3>1. PICK id : tx' = [tx EXCEPT ![h] = [stage |-> "checked", input |-> tx[h].input,
                                     pos |-> pos, id |-> id, outboxed |-> FALSE]]
      BY <2>2 DEF TakePosition
    <3>2. PICK t : t = [stage |-> "checked", input |-> tx[h].input,
                        pos |-> pos, id |-> id, outboxed |-> FALSE]
      OBVIOUS
    <3>3. t.stage = "checked" /\ t.input = tx[h].input /\ t.pos = pos
      BY <3>2
    <3>4. tx[h].stage = "locked" /\ UNCHANGED <<entries, call>>
      BY <1>5, <2>2 DEF TxCheckTip, TakePosition
    <3>5. tx[h].input.previous_hash \in ChainHashes(c)
      BY <3>4 DEF LedgerInv, StoreInv, TxOnChain
    <3>6. Rows(c) = {} => tx[h].input.previous_hash = Genesis
      BY <3>5 DEF ChainHashes
    <3>7. \A g \in Handler \ {h} : ~HoldsAdvisoryLock(g, c)
      BY <3>4 DEF LedgerInv, StoreInv, LockExclusive, HoldsAdvisoryLock, LockStages
    <3>8. tx' = [tx EXCEPT ![h] = t]
      BY <3>1, <3>2
    <3>9. StoreInv'
      BY <2>2, <3>3, <3>4, <3>5, <3>6, <3>7, <3>8, TxMoves DEF LedgerInv
    <3>10. CallInv'
      BY <3>3, <3>4, <3>8, TxFrame DEF LedgerInv, TypeOK
    <3>. QED BY <3>9, <3>10 DEF LedgerInv
  <2>. QED BY <1>5, <2>1, <2>2 DEF TxCheckTip
<1>6. ASSUME NEW h \in Handler, TxInsert(h) PROVE LedgerInv'
  <2>1. CASE ChainIntegrityViolation(h)
    BY <1>6, <2>1, ViolationStep DEF TxInsert
  <2>2. CASE tx' = [tx EXCEPT ![h] = NoTx] /\ Goto(h, "conflict")
    <3>1. /\ \A g \in Handler \ {h} : call'[g] = call[g] /\ tx'[g] = tx[g]
          /\ call'[h].pc = "conflict" /\ UNCHANGED entries
      BY <1>6, <2>2, CallFrame DEF TxInsert, TypeOK
    <3>. QED BY <2>2, <3>1, TxEnds, CallLeaves DEF LedgerInv
  <2>3. CASE /\ \A e \in entries : ~SameKey(e, h)
             /\ tx' = [tx EXCEPT ![h].stage = "inserted"]
             /\ UNCHANGED call
    <3>1. tx[h] \in Tx /\ tx[h].stage = "checked" /\ UNCHANGED entries
      BY <1>6 DEF TxInsert, TypeOK
    <3>2. PICK t : t = [tx[h] EXCEPT !.stage = "inserted"]
      OBVIOUS
    <3>3. t.stage = "inserted" /\ t.input = tx[h].input /\ t.pos = tx[h].pos
      BY <3>1, <3>2 DEF Tx
    <3>4. tx' = [tx EXCEPT ![h] = t]
      BY <2>3, <3>2
    <3>5. PlacedStep(h, t)
      BY <3>1, <3>3, PlacedFacts DEF LedgerInv
    <3>6. \A e \in entries : ~HasKey(e, t.input.entry_type, t.input.idempotency_key)
      BY <2>3, <3>3 DEF SameKey
    <3>7. StoreInv'
      BY <3>1, <3>4, <3>5, <3>6, TxMoves DEF LedgerInv, PlacedStep
    <3>8. CallInv'
      BY <2>3, <3>1, <3>3, <3>4, TxFrame DEF LedgerInv, TypeOK
    <3>. QED BY <3>7, <3>8 DEF LedgerInv
  <2>. QED BY <1>6, <2>1, <2>2, <2>3 DEF TxInsert
<1>7. ASSUME NEW h \in Handler, TxInsertOutbox(h) PROVE LedgerInv'
  <2>1. tx[h] \in Tx /\ tx[h].stage = "inserted" /\ UNCHANGED <<entries, call>>
    BY <1>7 DEF TxInsertOutbox, TypeOK
  <2>2. PICK t : t = [tx[h] EXCEPT !.stage = "committing", !.outboxed = CreateOutbox]
    OBVIOUS
  <2>3. t.stage = "committing" /\ t.input = tx[h].input /\ t.pos = tx[h].pos
    BY <2>1, <2>2 DEF Tx
  <2>4. tx' = [tx EXCEPT ![h] = t]
    BY <1>7, <2>2 DEF TxInsertOutbox
  <2>5. PlacedStep(h, t)
    BY <2>1, <2>3, PlacedFacts DEF LedgerInv
  <2>6. \A e \in entries : ~HasKey(e, t.input.entry_type, t.input.idempotency_key)
    BY <2>1, <2>3 DEF LedgerInv, StoreInv, InsertedKeyFree, SameKey
  <2>7. StoreInv'
    BY <2>1, <2>4, <2>5, <2>6, TxMoves DEF LedgerInv, PlacedStep
  <2>8. CallInv'
    BY <2>1, <2>3, <2>4, TxFrame DEF LedgerInv, TypeOK
  <2>. QED BY <2>7, <2>8 DEF LedgerInv
<1>8. ASSUME NEW h \in Handler, TxCommit(h) PROVE LedgerInv'
  <2>1. /\ \A g \in Handler \ {h} : call'[g] = call[g] /\ tx'[g] = tx[g]
        /\ call'[h].pc = "idle" /\ entries \subseteq entries'
    BY <1>8 DEF TxCommit, Reply, Publish, TypeOK
  <2>. QED BY <1>8, <2>1, PublishStore, CallLeaves DEF LedgerInv, TxCommit
<1>9. ASSUME NEW p \in Proc, Crash(p) PROVE LedgerInv'
  <2>1. UNCHANGED <<entries, tx>>
    BY <1>9 DEF Crash
  <2>2. \A g \in Handler : call'[g] = call[g] \/ call'[g].pc = "idle"
    BY <1>9 DEF Crash
  <2>3. CallInv'
    BY <2>1, <2>2 DEF LedgerInv, CallInv, TipReadOfChain, TxServesCall, ChainHashes, Rows
  <2>. QED BY <2>1, <2>3, StoreKept DEF LedgerInv
<1>10. ASSUME NEW h \in Handler, OrphanAbort(h) PROVE LedgerInv'
  <2>1. /\ tx' = [tx EXCEPT ![h] = NoTx] /\ UNCHANGED <<entries, call>>
        /\ call[h].pc = "idle" /\ \A g \in Handler \ {h} : tx'[g] = tx[g]
    BY <1>10 DEF OrphanAbort, Orphaned, TypeOK
  <2>. QED BY <2>1, TxEnds, CallLeaves DEF LedgerInv
<1>11. ASSUME NEW h \in Handler, OrphanCommit(h) PROVE LedgerInv'
  <2>1. /\ UNCHANGED call /\ call[h].pc = "idle" /\ entries \subseteq entries'
        /\ \A g \in Handler \ {h} : tx'[g] = tx[g]
    BY <1>11 DEF OrphanCommit, Orphaned, Publish, TypeOK
  <2>. QED BY <1>11, <2>1, PublishStore, CallLeaves DEF LedgerInv, OrphanCommit
<1>12. ASSUME Tick \/ UNCHANGED vars PROVE LedgerInv'
  <2>1. UNCHANGED <<entries, tx, call>>
    BY <1>12 DEF Tick, vars
  <2>2. CallInv'
    BY <2>1 DEF LedgerInv, CallInv, TipReadOfChain, TxServesCall, ChainHashes, Rows
  <2>. QED BY <2>1, <2>2, StoreKept DEF LedgerInv
<1>. QED
  BY <1>1, <1>2, <1>3, <1>4, <1>5, <1>6, <1>7, <1>8, <1>9, <1>10, <1>11, <1>12
     DEF Next, ServiceStep

\* What the advisory lock protects, in every reachable state: the invariant is
\* inductive, so the chains are right for any number of processes and calls, and
\* for calls that are cancelled, fail or crash at any await.
THEOREM LedgerInvariant == Spec => []LedgerInv
<1>1. Init => LedgerInv
  BY DEF Init, LedgerInv, StoreInv, CallInv, LockExclusive, TxOnChain, PlacedOnTip,
         InsertedKeyFree, ChainLinked, LinkedToPredecessor, PositionsUnique,
         HashesRecompute, KeyUnique, TipReadOfChain, TxServesCall, LockStages
<1>. QED BY <1>1, TypeCorrect, InductiveStep, PTL DEF Spec

\* The chains written by write_entry_with_outbox are dense, unforked, linked and
\* hashed as stored.
THEOREM ChainsLinked == Spec => []ChainLinked
<1>1. LedgerInv => ChainLinked
  BY DEF LedgerInv, StoreInv
<1>. QED BY <1>1, LedgerInvariant, PTL

\* No idempotency key ever names two rows of a chain.
THEOREM KeysUnique == Spec => []KeyUnique
<1>1. LedgerInv => KeyUnique
  BY DEF LedgerInv, StoreInv
<1>. QED BY <1>1, LedgerInvariant, PTL

-----------------------------------------------------------------------------
(* Answers *)

Answers == ReceiptFaithful /\ ConflictHonest

\* A row that was found by its key supports the answer built from it.
FoundAnswer(r, req) ==
    \E e \in entries :
        /\ HasKey(e, req.entry_type, req.idempotency_key)
        /\ r = IF idempotent_request_matches(e, req) THEN Ok(req, e) ELSE AlreadyExists(req)

\* No step removes or changes a committed row.
LEMMA RowsGrow == [Next]_vars => entries \subseteq entries'
  BY DEF Next, vars, ServiceStep, Receive, CheckHalt, ClearHalt, FindIdempotent,
         AcquireChainLock, GetChainTip, BeginTx, TxLock, TxCheckTip, TxInsert,
         TxInsertOutbox, TxCommit, ConflictLookup, SetHalt, DbError, Cancel, Crash,
         OrphanAbort, OrphanCommit, Publish, Tick

\* Whatever a step answers is a failure, the row just committed, or a found row.
LEMMA NewAnswers ==
    ASSUME TypeOK, LedgerInv, [Next]_vars, NEW h \in Handler
    PROVE  \/ resp'[h] = resp[h]
           \/ resp'[h].kind \notin {"ok", "already_exists"}
           \/ FoundAnswer(resp'[h], call[h].req)
           \/ /\ call[h].pc = "tx" /\ tx[h].stage = "committing"
              /\ resp'[h] = Ok(call[h].req, TxRow(h))
              /\ TxRow(h) \in entries'
<1>1. ASSUME NEW g \in Handler, Receive(g) PROVE resp'[h] = resp[h] \/ resp'[h].kind \notin {"ok", "already_exists"}
  BY <1>1 DEF Receive, Failed, TypeOK
<1>2. ASSUME NEW g \in Handler, FindIdempotent(g) \/ ConflictLookup(g)
      PROVE  \/ resp'[h] = resp[h]
             \/ resp'[h].kind \notin {"ok", "already_exists"}
             \/ FoundAnswer(resp'[h], call[h].req)
  <2>1. CASE UNCHANGED resp
    BY <2>1
  <2>2. CASE Reply(g, Failed("unavailable"))
    BY <2>2 DEF Reply, Failed, TypeOK
  <2>3. CASE \E e \in entries :
               /\ HasKey(e, call[g].req.entry_type, call[g].req.idempotency_key)
               /\ Reply(g, IF idempotent_request_matches(e, call[g].req)
                           THEN Ok(call[g].req, e) ELSE AlreadyExists(call[g].req))
    BY <2>3 DEF Reply, FoundAnswer, TypeOK
  <2>. QED BY <1>2, <2>1, <2>2, <2>3 DEF FindIdempotent, ConflictLookup
<1>3. ASSUME NEW g \in Handler,
             CheckHalt(g) \/ AcquireChainLock(g) \/ SetHalt(g) \/ DbError(g) \/ Cancel(g)
      PROVE  resp'[h] = resp[h] \/ resp'[h].kind \notin {"ok", "already_exists"}
  BY <1>3 DEF CheckHalt, AcquireChainLock, SetHalt, DbError, Cancel, Reply, Failed, TypeOK
<1>4. ASSUME NEW g \in Handler,
             \/ ClearHalt(g) \/ GetChainTip(g) \/ BeginTx(g) \/ TxLock(g) \/ TxCheckTip(g)
             \/ TxInsert(g) \/ TxInsertOutbox(g) \/ OrphanAbort(g) \/ OrphanCommit(g)
      PROVE  resp'[h] = resp[h]
  BY <1>4 DEF ClearHalt, GetChainTip, BeginTx, TxLock, TxCheckTip, TxInsert,
              TxInsertOutbox, OrphanAbort, OrphanCommit
<1>5. ASSUME NEW g \in Handler, TxCommit(g)
      PROVE  \/ resp'[h] = resp[h]
             \/ /\ call[h].pc = "tx" /\ tx[h].stage = "committing"
                /\ resp'[h] = Ok(call[h].req, TxRow(h))
                /\ TxRow(h) \in entries'
  BY <1>5 DEF TxCommit, Reply, Publish, TypeOK
<1>6. ASSUME NEW p \in Proc, Crash(p)
      PROVE  resp'[h] = resp[h] \/ resp'[h].kind \notin {"ok", "already_exists"}
  BY <1>6 DEF Crash, Failed
<1>7. ASSUME Tick \/ UNCHANGED vars PROVE resp'[h] = resp[h]
  BY <1>7 DEF Tick, vars
<1>. QED
  BY <1>1, <1>2, <1>3, <1>4, <1>5, <1>6, <1>7 DEF Next, ServiceStep

\* Answers given stay true, and new ones are true when they are given.
LEMMA AnswersStep ==
    ASSUME TypeOK, LedgerInv, Answers, [Next]_vars
    PROVE  Answers'
<1>. SUFFICES ASSUME NEW h \in Handler
              PROVE  /\ resp'[h].kind = "ok" =>
                         /\ resp'[h].row \in entries'
                         /\ resp'[h].row.entry_type = resp'[h].req.entry_type
                         /\ resp'[h].row.idempotency_key = resp'[h].req.idempotency_key
                         /\ resp'[h].row.body = resp'[h].req.body
                     /\ resp'[h].kind = "already_exists" =>
                         \E e \in entries' :
                             /\ HasKey(e, resp'[h].req.entry_type, resp'[h].req.idempotency_key)
                             /\ e.body # resp'[h].req.body
  BY DEF Answers, ReceiptFaithful, ConflictHonest, HasKey
<1>1. entries \subseteq entries'
  BY RowsGrow
<1>2. CASE resp'[h] = resp[h]
  BY <1>1, <1>2 DEF Answers, ReceiptFaithful, ConflictHonest
<1>3. CASE FoundAnswer(resp'[h], call[h].req)
  BY <1>1, <1>3 DEF FoundAnswer, HasKey, Ok, AlreadyExists, idempotent_request_matches
<1>4. CASE /\ call[h].pc = "tx" /\ tx[h].stage = "committing"
           /\ resp'[h] = Ok(call[h].req, TxRow(h))
           /\ TxRow(h) \in entries'
  BY <1>4 DEF Ok, TxRow, LedgerEntryRecord, LedgerInv, CallInv, TxServesCall
<1>. QED BY <1>2, <1>3, <1>4, NewAnswers

\* Every answer a client has is true.
LEMMA AnswersTrue == Spec => []Answers
<1>1. Init => Answers
  BY DEF Init, Answers, ReceiptFaithful, ConflictHonest, Failed
<1>. QED BY <1>1, TypeCorrect, LedgerInvariant, AnswersStep, PTL DEF Spec

\* A success names a committed row of the requested chain, key and body
\* (write_entry_impl).
THEOREM SuccessesTrue == Spec => []ReceiptFaithful
<1>1. Answers => ReceiptFaithful
  BY DEF Answers
<1>. QED BY <1>1, AnswersTrue, PTL

\* ALREADY_EXISTS is given only for a key that a committed row holds with another
\* body (write_entry_impl).
THEOREM ConflictsTrue == Spec => []ConflictHonest
<1>1. Answers => ConflictHonest
  BY DEF Answers
<1>. QED BY <1>1, AnswersTrue, PTL
====
