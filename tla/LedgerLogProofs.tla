-------------------------- MODULE LedgerLogProofs --------------------------
(***************************************************************************)
(* More theorems about LedgerWrite: what is acknowledged is queued, the times *)
(* of a chain do not decrease, no chain is halted early, and the chains        *)
(* implement AppendOnlyLog.                                                   *)
(***************************************************************************)
EXTENDS LedgerWriteProofs, SequenceTheorems

USE DEF NoTx, NoCall, NotHalted

-----------------------------------------------------------------------------
(* The shape of a step *)

\* Rows and outbox change in the commit of one transaction only.
CommitOrKeep ==
    \/ UNCHANGED <<entries, outbox>>
    \/ \E h \in Handler : tx[h].stage = "committing" /\ Publish(h)

\* A call that comes to "begin" has just read the tip, and the clock after it.
FreshTip(h) ==
    /\ call'[h].req = call[h].req
    /\ call'[h].written_ts = clock
    /\ UNCHANGED clock
    /\ \/ call'[h].previous_hash = Genesis
       \/ \E e \in Rows(call[h].req.entry_type) : call'[h].previous_hash = e.entry_hash

CallShape(h) == call'[h] = call[h] \/ call'[h].pc # "begin" \/ FreshTip(h)

\* A transaction keeps its input from BEGIN to its end, and has written the outbox
\* row when it sends COMMIT.
TxShape(h) ==
    \/ tx'[h].stage = "none"
    \/ /\ tx[h].stage # "none" /\ tx'[h].input = tx[h].input
       /\ \/ tx'[h] = tx[h] \/ tx'[h].stage # "committing"
          \/ tx'[h].outboxed = CreateOutbox
    \/ /\ call[h].pc = "begin" /\ tx'[h].stage = "begun"
       /\ tx'[h].input = EntryWriteInput(call[h].req, call[h].previous_hash,
                                         call[h].written_ts)

StepShape ==
    /\ CommitOrKeep /\ clock' \in Nat /\ clock <= clock'
    /\ \A h \in Handler : CallShape(h) /\ TxShape(h)

\* Every step of the specification has that shape.
LEMMA StepsHaveShape == ASSUME TypeOK, [Next]_vars PROVE StepShape
<1>. USE ConstantsAssumption
<1>0. clock \in Nat
  BY DEF TypeOK
<1>1. ASSUME UNCHANGED <<entries, outbox, tx, clock>>,
             \A h \in Handler : call'[h] = call[h] \/ call'[h].pc # "begin"
      PROVE  StepShape
  BY <1>0, <1>1 DEF StepShape, CommitOrKeep, CallShape, TxShape
<1>2. ASSUME NEW h \in Handler, NEW label \in Pcs \ {"begin"}, NEW r,
             UNCHANGED <<entries, outbox, tx, clock>>, call[h].pc # "idle",
             Goto(h, label) \/ Reply(h, r)
      PROVE  StepShape
  <2>1. \A g \in Handler : call'[g] = call[g] \/ call'[g].pc # "begin"
    BY <1>2, CallFrame
  <2>. QED BY <1>1, <1>2, <2>1
<1>3. ASSUME NEW h \in Handler, Receive(h) PROVE StepShape
  BY <1>1, <1>3 DEF Receive, TypeOK
<1>4. ASSUME NEW h \in Handler,
             CheckHalt(h) \/ ClearHalt(h) \/ FindIdempotent(h) \/ AcquireChainLock(h)
             \/ ConflictLookup(h) \/ SetHalt(h) \/ DbError(h) \/ Cancel(h)
      PROVE  StepShape
  <2>1. UNCHANGED <<entries, outbox, tx, clock>> /\ call[h].pc # "idle"
    BY <1>4 DEF CheckHalt, ClearHalt, FindIdempotent, AcquireChainLock, ConflictLookup,
                SetHalt, DbError, Cancel
  <2>2. (\E label \in Pcs \ {"begin"} : Goto(h, label)) \/ \E r : Reply(h, r)
    BY <1>4 DEF CheckHalt, ClearHalt, FindIdempotent, AcquireChainLock, ConflictLookup,
                SetHalt, DbError, Cancel, AfterHalt, Pcs
  <2>3. "lock" \in Pcs \ {"begin"}
    BY DEF Pcs
  <2>. QED BY <1>2, <2>1, <2>2, <2>3
<1>5. ASSUME NEW h \in Handler, GetChainTip(h) PROVE StepShape
  <2>1. UNCHANGED <<entries, outbox, tx, clock>> /\ call[h] \in Call \ {NoCall}
    BY <1>5 DEF GetChainTip, TypeOK
  <2>2. PICK prev : /\ prev = Genesis \/ \E e \in Rows(call[h].req.entry_type) : prev = e.entry_hash
                    /\ call' = [call EXCEPT ![h].pc = "begin", ![h].previous_hash = prev,
                                            ![h].written_ts = clock]
    BY <1>5 DEF GetChainTip, ReadTip
  <2>3. /\ \A g \in Handler \ {h} : call'[g] = call[g]
        /\ call'[h].previous_hash = prev /\ call'[h].req = call[h].req
        /\ call'[h].written_ts = clock
    BY <2>1, <2>2 DEF TypeOK, Call
  <2>4. FreshTip(h)
    BY <2>1, <2>2, <2>3 DEF FreshTip
  <2>. QED BY <1>0, <2>1, <2>3, <2>4 DEF StepShape, CommitOrKeep, CallShape, TxShape
<1>6. ASSUME NEW h \in Handler, NEW t, tx' = [tx EXCEPT ![h] = t],
             UNCHANGED <<entries, outbox, clock>>,
             \A g \in Handler : call'[g] = call[g] \/ call'[g].pc # "begin",
             \/ t.stage = "none"
             \/ /\ tx[h].stage # "none" /\ t.input = tx[h].input
                /\ t.stage # "committing" \/ t.outboxed = CreateOutbox
             \/ /\ call[h].pc = "begin" /\ t.stage = "begun"
                /\ t.input = EntryWriteInput(call[h].req, call[h].previous_hash,
                                             call[h].written_ts)
      PROVE  StepShape
  <2>1. (\A g \in Handler \ {h} : tx'[g] = tx[g]) /\ tx'[h] = t
    BY <1>6 DEF TypeOK
  <2>2. \A g \in Handler : TxShape(g)
    BY <1>6, <2>1 DEF TxShape
  <2>. QED BY <1>0, <1>6, <2>2 DEF StepShape, CommitOrKeep, CallShape
<1>7. ASSUME NEW h \in Handler, BeginTx(h) PROVE StepShape
  <2>1. \A g \in Handler : call'[g] = call[g] \/ call'[g].pc # "begin"
    BY <1>7, CallFrame DEF BeginTx
  <2>. QED BY <1>6, <1>7, <2>1 DEF BeginTx
<1>8. ASSUME NEW h \in Handler, TxLock(h) PROVE StepShape
  <2>1. tx[h] \in Tx /\ tx[h].stage = "begun"
    BY <1>8 DEF TxLock, TypeOK
  <2>2. PICK t : t = [tx[h] EXCEPT !.stage = "locked"]
    OBVIOUS
  <2>3. t.stage = "locked" /\ t.input = tx[h].input
    BY <2>1, <2>2 DEF Tx
  <2>. QED BY <1>6, <1>8, <2>1, <2>2, <2>3 DEF TxLock
<1>9. ASSUME NEW h \in Handler, call[h].pc = "tx", ChainIntegrityViolation(h),
             UNCHANGED <<entries, outbox, clock>>
      PROVE  StepShape
  <2>1. \A g \in Handler : call'[g] = call[g] \/ call'[g].pc # "begin"
    BY <1>9, CallFrame DEF ChainIntegrityViolation, TypeOK, Call
  <2>. QED BY <1>6, <1>9, <2>1 DEF ChainIntegrityViolation
<1>10. ASSUME NEW h \in Handler, TxCheckTip(h) PROVE StepShape
  <2>1. CASE ChainIntegrityViolation(h)
    BY <1>9, <1>10, <2>1 DEF TxCheckTip
  <2>2. ASSUME NEW pos, TakePosition(h, pos) PROVE StepShape
    BY <1>6, <1>10, <2>2 DEF TxCheckTip, TakePosition
  <2>. QED BY <1>10, <2>1, <2>2 DEF TxCheckTip
<1>11. ASSUME NEW h \in Handler, TxInsert(h) PROVE StepShape
  <2>1. CASE ChainIntegrityViolation(h)
    BY <1>9, <1>11, <2>1 DEF TxInsert
  <2>2. CASE tx' = [tx EXCEPT ![h] = NoTx] /\ Goto(h, "conflict")
    <3>1. \A g \in Handler : call'[g] = call[g] \/ call'[g].pc # "begin"
      BY <1>11, <2>2, CallFrame DEF TxInsert
    <3>. QED BY <1>6, <1>11, <2>2, <3>1 DEF TxInsert
  <2>3. CASE tx' = [tx EXCEPT ![h].stage = "inserted"] /\ UNCHANGED call
    <3>1. tx[h] \in Tx /\ tx[h].stage = "checked"
      BY <1>11 DEF TxInsert, TypeOK
    <3>2. PICK t : t = [tx[h] EXCEPT !.stage = "inserted"]
      OBVIOUS
    <3>3. t.stage = "inserted" /\ t.input = tx[h].input
      BY <3>1, <3>2 DEF Tx
    <3>. QED BY <1>6, <1>11, <2>3, <3>1, <3>2, <3>3 DEF TxInsert
  <2>. QED BY <1>11, <2>1, <2>2, <2>3 DEF TxInsert
<1>12. ASSUME NEW h \in Handler, TxInsertOutbox(h) PROVE StepShape
  <2>1. tx[h] \in Tx /\ tx[h].stage = "inserted"
    BY <1>12 DEF TxInsertOutbox, TypeOK
  <2>2. PICK t : t = [tx[h] EXCEPT !.stage = "committing", !.outboxed = CreateOutbox]
    OBVIOUS
  <2>3. t.input = tx[h].input /\ t.outboxed = CreateOutbox
    BY <2>1, <2>2 DEF Tx
  <2>. QED BY <1>6, <1>12, <2>1, <2>2, <2>3 DEF TxInsertOutbox
<1>13. ASSUME NEW h \in Handler, OrphanAbort(h) PROVE StepShape
  BY <1>6, <1>13 DEF OrphanAbort
<1>14. ASSUME NEW h \in Handler, TxCommit(h) \/ OrphanCommit(h) PROVE StepShape
  <2>1. Publish(h) /\ tx[h].stage = "committing" /\ UNCHANGED clock
    BY <1>14 DEF TxCommit, OrphanCommit
  <2>2. \A g \in Handler : call'[g] = call[g] \/ call'[g].pc # "begin"
    BY <1>14 DEF TxCommit, OrphanCommit, Reply, TypeOK
  <2>3. \A g \in Handler : TxShape(g)
    BY <2>1 DEF Publish, TxShape, TypeOK
  <2>. QED BY <1>0, <2>1, <2>2, <2>3 DEF StepShape, CommitOrKeep, CallShape
<1>15. CASE \E p \in Proc : Crash(p)
  BY <1>1, <1>15 DEF Crash
<1>16. CASE Tick
  BY <1>0, <1>16 DEF Tick, StepShape, CommitOrKeep, CallShape, TxShape
<1>17. CASE UNCHANGED vars
  BY <1>1, <1>17 DEF vars
<1>. QED
  BY <1>3, <1>4, <1>5, <1>7, <1>8, <1>10, <1>11, <1>12, <1>13, <1>14, <1>15, <1>16, <1>17
     DEF Next, ServiceStep

-----------------------------------------------------------------------------
(* The outbox *)

\* With a publisher every row is queued when it is committed, without one nothing
\* ever is; a transaction that sends COMMIT has written its outbox row by then.
QueueInv ==
    /\ outbox = IF CreateOutbox THEN {e.entry_id : e \in entries} ELSE {}
    /\ \A h \in Handler : tx[h].stage = "committing" => tx[h].outboxed = CreateOutbox

\* Rows and their outbox rows are committed together.
LEMMA QueueStep == ASSUME TypeOK, QueueInv, [Next]_vars PROVE QueueInv'
<1>. USE ConstantsAssumption
<1>1. StepShape
  BY StepsHaveShape
<1>2. \A h \in Handler : tx'[h].stage = "committing" => tx'[h].outboxed = CreateOutbox
  BY <1>1 DEF StepShape, TxShape, QueueInv
<1>3. CASE UNCHANGED <<entries, outbox>>
  BY <1>2, <1>3 DEF QueueInv
<1>4. ASSUME NEW h \in Handler, tx[h].stage = "committing", Publish(h) PROVE QueueInv'
  <2>1. TxRow(h).entry_id = tx[h].id
    BY DEF TxRow, LedgerEntryRecord
  <2>2. {e.entry_id : e \in entries'} = {e.entry_id : e \in entries} \cup {tx[h].id}
    BY <1>4, <2>1 DEF Publish
  <2>. QED BY <1>2, <1>4, <2>2 DEF QueueInv, Publish
<1>. QED BY <1>1, <1>3, <1>4 DEF StepShape, CommitOrKeep

\* Whatever a client was told is durable is queued for delivery, and nothing is
\* queued that is not in the ledger, for every interleaving of calls, crashes and
\* commits whose outcome the service never learned (write_entry_with_outbox).
THEOREM AcknowledgedQueued == Spec => []AcknowledgedIsQueued
<1>1. Init => QueueInv
  BY DEF Init, QueueInv
<1>2. TypeOK /\ QueueInv => AcknowledgedIsQueued
  BY ConstantsAssumption DEF TypeOK, Resp, QueueInv, AcknowledgedIsQueued
<1>. QED BY <1>1, <1>2, TypeCorrect, QueueStep, PTL DEF Spec

-----------------------------------------------------------------------------
(* The times of a chain *)

\* The row that a previous_hash names was written no later than ts.
NotBefore(c, prev, ts) ==
    /\ ts <= clock
    /\ prev = Genesis \/ \E f \in Rows(c) : f.entry_hash = prev /\ f.written_ts <= ts

\* The clock is ahead of all rows, and a timestamp in hand is not before the tip it
\* was taken after, however old both have become.
TimeInv ==
    /\ \A e \in entries : e.written_ts <= clock
    /\ \A h \in Handler : call[h].pc = "begin" =>
         NotBefore(call[h].req.entry_type, call[h].previous_hash, call[h].written_ts)
    /\ \A h \in Handler : tx[h].stage # "none" =>
         NotBefore(tx[h].input.entry_type, tx[h].input.previous_hash, tx[h].input.written_ts)
    /\ WrittenTsMonotone

\* A hash determines the time that went into it, and is not the genesis hash.
LEMMA HashFixesTime ==
    ASSUME HashesRecompute, NEW e \in entries, NEW f \in entries
    PROVE  /\ e.entry_hash # Genesis
           /\ e.entry_hash = f.entry_hash => e.written_ts = f.written_ts
<1>1. /\ e.entry_hash = canonical_entry_hash(e.entry_id, e, e.chain_position)
      /\ f.entry_hash = canonical_entry_hash(f.entry_id, f, f.chain_position)
  BY DEF HashesRecompute, LedgerEntryRecord
<1>2. e.entry_hash.sha256[1] = "ARE_LEDGER_ENTRY_HASH_V3"
  BY <1>1 DEF canonical_entry_hash, sha256_hex
<1>3. Genesis.sha256[1] = "ARE_LEDGER_GENESIS"
  BY DEF Genesis, sha256_hex
<1>4. e.entry_hash.sha256[7] = e.written_ts /\ f.entry_hash.sha256[7] = f.written_ts
  BY <1>1 DEF canonical_entry_hash, sha256_hex
<1>. QED BY <1>2, <1>3, <1>4

\* A row committed on the tip is not before any row of its chain.
LEMMA TimeStep == ASSUME TypeOK, LedgerInv, TimeInv, [Next]_vars PROVE TimeInv'
<1>0. /\ StepShape /\ clock \in Nat /\ entries \subseteq entries'
      /\ \A e \in entries : e.written_ts \in Nat /\ e.chain_position \in Nat
      /\ \A h \in Handler : tx[h].stage # "none" => /\ tx[h].input.written_ts \in Nat
                                                    /\ tx[h].input.entry_type \in Chain
      /\ \A h \in Handler : call[h].pc = "begin" => call[h].written_ts \in Nat
  BY StepsHaveShape, RowsGrow, ConstantsAssumption DEF TypeOK, Row, Tx, Call, Input
<1>1. \A c, prev : \A ts \in Nat : NotBefore(c, prev, ts) => NotBefore(c, prev, ts)'
  BY <1>0 DEF NotBefore, Rows, StepShape
<1>2. ASSUME NEW h \in Handler, call'[h].pc = "begin"
      PROVE  NotBefore(call[h].req.entry_type, call[h].previous_hash, call[h].written_ts)'
  <2>1. CASE call'[h] = call[h]
    BY <1>0, <1>1, <1>2, <2>1 DEF TimeInv
  <2>2. CASE FreshTip(h)
    BY <1>0, <2>2 DEF FreshTip, NotBefore, Rows, TimeInv
  <2>. QED BY <1>0, <1>2, <2>1, <2>2 DEF StepShape, CallShape
<1>3. ASSUME NEW h \in Handler, tx'[h].stage # "none"
      PROVE  NotBefore(tx[h].input.entry_type, tx[h].input.previous_hash,
                       tx[h].input.written_ts)'
  <2>1. CASE tx[h].stage # "none" /\ tx'[h].input = tx[h].input
    BY <1>0, <1>1, <2>1 DEF TimeInv
  <2>2. CASE /\ call[h].pc = "begin"
             /\ tx'[h].input = EntryWriteInput(call[h].req, call[h].previous_hash,
                                               call[h].written_ts)
    BY <1>0, <1>1, <2>2 DEF TimeInv, EntryWriteInput
  <2>. QED BY <1>0, <1>3, <2>1, <2>2 DEF StepShape, TxShape
<1>4. CASE UNCHANGED entries
  <2>1. \A e \in entries' : e.written_ts <= clock'
    BY <1>0, <1>4 DEF TimeInv, StepShape
  <2>2. WrittenTsMonotone'
    BY <1>4 DEF TimeInv, WrittenTsMonotone
  <2>. QED BY <1>2, <1>3, <2>1, <2>2 DEF TimeInv
<1>5. ASSUME NEW h \in Handler, tx[h].stage = "committing", Publish(h) PROVE TimeInv'
  <2>. DEFINE c == tx[h].input.entry_type
              ts == tx[h].input.written_ts
              prev == tx[h].input.previous_hash
  <2>1. PICK r : /\ r.entry_type = c /\ r.chain_position = tx[h].pos /\ r.written_ts = ts
                 /\ entries' = entries \cup {r}
    BY <1>5 DEF Publish, TxRow, LedgerEntryRecord
  <2>2. NotBefore(c, prev, ts) /\ ts \in Nat
    BY <1>0, <1>5 DEF TimeInv
  <2>3. \A e \in Rows(c) : e.written_ts <= ts /\ e.chain_position < r.chain_position
    <3>. SUFFICES ASSUME NEW e \in Rows(c) 
                  PROVE e.written_ts <= ts /\ e.chain_position < r.chain_position
      OBVIOUS
    <3>1. PICK t \in Rows(c) : /\ IsTip(t, c) /\ tx[h].pos = t.chain_position + 1
                               /\ prev = t.entry_hash
      BY <1>5 DEF LedgerInv, StoreInv, PlacedOnTip
    <3>2. t.written_ts <= ts
      BY <2>2, <3>1, HashFixesTime DEF NotBefore, LedgerInv, StoreInv, ChainLinked, Rows
    <3>3. e.chain_position <= t.chain_position /\ e \in entries /\ t \in entries
          /\ e.entry_type = t.entry_type
      BY <3>1 DEF IsTip, Rows
    <3>4. e.written_ts <= t.written_ts
      BY <1>0, <3>3 DEF TimeInv, WrittenTsMonotone, LedgerInv, StoreInv, ChainLinked,
                        PositionsUnique
    <3>. QED BY <1>0, <2>1, <2>2, <3>1, <3>2, <3>3, <3>4
  <2>4. \A e \in entries' : e.written_ts <= clock'
    BY <1>0, <2>1, <2>2 DEF TimeInv, NotBefore, StepShape
  <2>5. tx[h].pos \in Nat
    BY <1>5 DEF TypeOK, Tx
  <2>6. WrittenTsMonotone'
    <3>. SUFFICES ASSUME NEW e \in entries', NEW f \in entries',
                         e.entry_type = f.entry_type, e.chain_position < f.chain_position
                  PROVE  e.written_ts <= f.written_ts
      BY DEF WrittenTsMonotone
    <3>1. CASE e \in entries /\ f \in entries
      BY <3>1 DEF TimeInv, WrittenTsMonotone
    <3>2. CASE e \in entries /\ f = r
      BY <2>1, <2>3, <3>2 DEF Rows
    <3>3. CASE f \in entries /\ e = r
      BY <1>0, <2>1, <2>3, <2>5, <3>3 DEF Rows
    <3>4. CASE e = r /\ f = r
      BY <2>1, <2>5, <3>4
    <3>. QED BY <2>1, <3>1, <3>2, <3>3, <3>4
  <2>. QED BY <1>2, <1>3, <2>4, <2>6 DEF TimeInv
<1>. QED BY <1>0, <1>4, <1>5 DEF StepShape, CommitOrKeep

\* Along a chain written_ts never decreases, although it is taken long before the
\* row is committed and other processes append meanwhile (write_entry_impl).
THEOREM TimesMonotone == Spec => []WrittenTsMonotone
<1>1. Init => TimeInv
  BY DEF Init, TimeInv, WrittenTsMonotone
<1>2. TimeInv => WrittenTsMonotone
  BY DEF TimeInv
<1>. QED BY <1>1, <1>2, TypeCorrect, LedgerInvariant, TimeStep, PTL DEF Spec

-----------------------------------------------------------------------------
(* The halt *)

\* The chain has grown to position n.
Reaches(c, n) == \E e \in Rows(c) : e.chain_position >= n

\* A previous_hash read from a chain that had grown to position n.
ReadAbove(c, prev, n) == n = 0 \/ \E e \in Rows(c) : e.entry_hash = prev /\ e.chain_position >= n

EarlyPcs == {"halt_check", "halt_clear", "find", "lock"}

\* What a call's attempt number says of its chain, until it halts the chain.
Earned(h) ==
    LET c == call[h].req.entry_type
        n == call[h].attempt
    IN  /\ call[h].pc \in EarlyPcs => n = 0
        /\ call[h].pc = "tip" => n = 0 \/ Reaches(c, n)
        /\ call[h].pc = "begin" => ReadAbove(c, call[h].previous_hash, n)
        /\ call[h].pc = "tx" /\ tx[h].stage # "none" =>
             ReadAbove(c, tx[h].input.previous_hash, n)
        /\ call[h].pc = "halt_set" => Reaches(c, ChainMaxRetries)

\* Every attempt but the first was preceded by a rival's commit, above the last tip.
HaltInv == HaltEarned /\ \A h \in Handler : Earned(h)

\* A call that stands still keeps what it has earned, and one that ends needs nothing.
LEMMA EarnedKept ==
    ASSUME NEW h \in Handler, Earned(h), entries \subseteq entries',
           \/ call'[h].pc \in {"idle", "conflict"}
           \/ /\ call'[h] = call[h]
              /\ \/ tx'[h].stage = "none"
                 \/ tx[h].stage # "none" /\ tx'[h].input = tx[h].input
    PROVE  Earned(h)'
<1>1. \A c, n, prev : /\ Reaches(c, n) => Reaches(c, n)'
                      /\ ReadAbove(c, prev, n) => ReadAbove(c, prev, n)'
  BY DEF Reaches, ReadAbove, Rows
<1>2. CASE call'[h].pc \in {"idle", "conflict"}
  BY <1>2 DEF Earned, EarlyPcs
<1>3. CASE /\ call'[h] = call[h]
           /\ \/ tx'[h].stage = "none"
              \/ tx[h].stage # "none" /\ tx'[h].input = tx[h].input
  BY <1>1, <1>3 DEF Earned
<1>. QED BY <1>2, <1>3

\* A lost attempt: the tip has moved above the row whose hash the call holds.
LEMMA EarnedByLoss ==
    ASSUME TypeOK, LedgerInv, NEW h \in Handler, Earned(h), call[h].pc = "tx",
           tx[h].stage = "locked", NEW e \in Rows(tx[h].input.entry_type),
           IsTip(e, tx[h].input.entry_type), e.entry_hash # tx[h].input.previous_hash,
           ChainIntegrityViolation(h), UNCHANGED entries
    PROVE  Earned(h)'
<1>. DEFINE c == call[h].req.entry_type
            n == call[h].attempt
<1>1. call[h] \in Call \ {NoCall} /\ n \in Nat /\ ChainMaxRetries \in Nat /\ call \in [Handler -> Call]
  BY ConstantsAssumption DEF TypeOK, Call
<1>2. tx[h].input.entry_type = c
  BY DEF LedgerInv, CallInv, TxServesCall
<1>3. ReadAbove(c, tx[h].input.previous_hash, n)
  BY DEF Earned
<1>4. \A f \in Rows(c) : f \in entries /\ f.entry_type = c /\ f.chain_position \in Nat \ {0}
  BY DEF TypeOK, Row, Rows
<1>5. e.chain_position >= n + 1
  <2>1. CASE n = 0
    BY <1>2, <1>4, <2>1
  <2>2. CASE \E f \in Rows(c) : f.entry_hash = tx[h].input.previous_hash /\ f.chain_position >= n
    <3>1. PICK f \in Rows(c) : f.entry_hash = tx[h].input.previous_hash /\ f.chain_position >= n
      BY <2>2
    <3>2. f.chain_position <= e.chain_position /\ f # e
      BY <1>2, <3>1 DEF IsTip
    <3>3. f.chain_position # e.chain_position
      BY <1>2, <1>4, <3>2 DEF LedgerInv, StoreInv, ChainLinked, PositionsUnique
    <3>. QED BY <1>1, <1>2, <1>4, <3>1, <3>2, <3>3
  <2>. QED BY <1>3, <2>1, <2>2 DEF ReadAbove
<1>6. Reaches(c, n + 1) /\ \A d, m : Reaches(d, m) => Reaches(d, m)'
  BY <1>2, <1>5 DEF Rows, Reaches
<1>7. CASE n + 1 < ChainMaxRetries
  <2>1. call'[h].pc = "tip" /\ call'[h].attempt = n + 1 /\ call'[h].req = call[h].req
    BY <1>1, <1>7 DEF ChainIntegrityViolation, Call
  <2>. QED BY <1>6, <2>1 DEF Earned, EarlyPcs
<1>8. CASE ~(n + 1 < ChainMaxRetries)
  <2>1. call'[h].pc = "halt_set" /\ call'[h].req = call[h].req
    BY <1>1, <1>8 DEF ChainIntegrityViolation, Call
  <2>2. e.chain_position >= ChainMaxRetries
    BY <1>1, <1>2, <1>4, <1>5, <1>8
  <2>3. Reaches(c, ChainMaxRetries)
    BY <1>2, <2>2 DEF Reaches
  <2>. QED BY <1>6, <2>1, <2>3 DEF Earned, EarlyPcs
<1>. QED BY <1>7, <1>8

\* No step grants a retry or a halt that was not earned.
LEMMA HaltStep == ASSUME TypeOK, LedgerInv, HaltInv, [Next]_vars PROVE HaltInv'
<1>. USE ConstantsAssumption
<1>0. entries \subseteq entries' /\ StepShape
  BY RowsGrow, StepsHaveShape
<1>1. ASSUME NEW h \in Handler, \A g \in Handler \ {h} : call'[g] = call[g], Earned(h)'
      PROVE  \A g \in Handler : Earned(g)'
  <2>1. ASSUME NEW g \in Handler \ {h} PROVE Earned(g)'
    <3>1. call'[g] = call[g] /\ Earned(g)
      BY <1>1 DEF HaltInv
    <3>2. CASE call[g].pc = "begin"
      BY <1>0, <3>1, <3>2 DEF Earned, ReadAbove, Rows, EarlyPcs
    <3>3. CASE call[g].pc # "begin"
      BY <1>0, <3>1, <3>3, EarnedKept DEF StepShape, TxShape
    <3>. QED BY <3>2, <3>3
  <2>. QED BY <1>1, <2>1
<1>2. UNCHANGED halted => HaltEarned'
  BY <1>0 DEF HaltInv, HaltEarned, Rows
<1>3. ASSUME NEW h \in Handler, Receive(h) PROVE HaltInv'
  <2>1. \A g \in Handler \ {h} : call'[g] = call[g]
    BY <1>3 DEF Receive, TypeOK
  <2>2. Earned(h)'
    BY <1>3 DEF Receive, TypeOK, Earned, EarlyPcs
  <2>. QED BY <1>1, <1>2, <1>3, <2>1, <2>2 DEF Receive, HaltInv
<1>4. ASSUME NEW h \in Handler, NEW label \in EarlyPcs \cup {"tip"},
             call[h].pc \in EarlyPcs, Goto(h, label)
      PROVE  \A g \in Handler : Earned(g)'
  <2>1. call[h] \in Call \ {NoCall} /\ call \in [Handler -> Call] /\ call[h].attempt = 0
    BY <1>4 DEF TypeOK, EarlyPcs, HaltInv, Earned
  <2>2. /\ \A g \in Handler \ {h} : call'[g] = call[g]
        /\ call'[h].pc = label /\ call'[h].attempt = 0
    BY <1>4, <2>1 DEF Goto, Call
  <2>3. Earned(h)'
    BY <1>4, <2>2 DEF Earned, EarlyPcs
  <2>. QED BY <1>1, <2>2, <2>3
<1>5. ASSUME NEW h \in Handler, NEW r, Reply(h, r) PROVE \A g \in Handler : Earned(g)'
  <2>1. (\A g \in Handler \ {h} : call'[g] = call[g]) /\ call'[h].pc = "idle"
    BY <1>5 DEF Reply, TypeOK
  <2>. QED BY <1>0, <1>1, <2>1, EarnedKept DEF HaltInv
<1>6. ASSUME NEW h \in Handler, CheckHalt(h) \/ FindIdempotent(h) \/ AcquireChainLock(h)
      PROVE  HaltInv'
  <2>1. call[h].pc \in EarlyPcs /\ UNCHANGED halted
    BY <1>6 DEF CheckHalt, FindIdempotent, AcquireChainLock, EarlyPcs
  <2>2. (\E label \in EarlyPcs \cup {"tip"} : Goto(h, label)) \/ \E r : Reply(h, r)
    BY <1>6 DEF CheckHalt, FindIdempotent, AcquireChainLock, AfterHalt, EarlyPcs
  <2>. QED BY <1>2, <1>4, <1>5, <2>1, <2>2 DEF HaltInv
<1>7. ASSUME NEW h \in Handler, ClearHalt(h) PROVE HaltInv'
  <2>1. HaltEarned'
    BY <1>0, <1>7 DEF ClearHalt, HaltInv, HaltEarned, Rows, TypeOK
  <2>2. call[h].pc \in EarlyPcs /\ \E label \in EarlyPcs \cup {"tip"} : Goto(h, label)
    BY <1>7 DEF ClearHalt, AfterHalt, EarlyPcs
  <2>. QED BY <1>4, <2>1, <2>2 DEF HaltInv
<1>8. ASSUME NEW h \in Handler, SetHalt(h) PROVE HaltInv'
  <2>1. Reaches(call[h].req.entry_type, ChainMaxRetries)
    BY <1>8 DEF SetHalt, HaltInv, Earned
  <2>2. HaltEarned'
    BY <1>0, <1>8, <2>1 DEF SetHalt, HaltInv, HaltEarned, Reaches, Rows, TypeOK
  <2>. QED BY <1>5, <1>8, <2>2 DEF SetHalt, HaltInv
<1>9. ASSUME NEW h \in Handler, ConflictLookup(h) \/ DbError(h) \/ Cancel(h) \/ TxCommit(h)
      PROVE  HaltInv'
  <2>1. UNCHANGED halted /\ \E r : Reply(h, r)
    BY <1>9 DEF ConflictLookup, DbError, Cancel, TxCommit
  <2>. QED BY <1>2, <1>5, <2>1 DEF HaltInv
<1>10. ASSUME NEW h \in Handler, GetChainTip(h) PROVE HaltInv'
  <2>. DEFINE c == call[h].req.entry_type
              n == call[h].attempt
  <2>1. /\ call[h] \in Call \ {NoCall} /\ call \in [Handler -> Call] /\ n \in Nat
        /\ n = 0 \/ Reaches(c, n)
    BY <1>10 DEF GetChainTip, TypeOK, Call, HaltInv, Earned
  <2>2. \A f \in Rows(c) : f.chain_position \in Nat
    BY DEF TypeOK, Row, Rows
  <2>3. PICK prev : /\ call' = [call EXCEPT ![h].pc = "begin", ![h].previous_hash = prev,
                                            ![h].written_ts = clock]
                    /\ Rows(c) = {} \/ \E e \in Rows(c) : IsTip(e, c) /\ prev = e.entry_hash
    BY <1>10 DEF GetChainTip, ReadTip
  <2>4. ReadAbove(c, prev, n)
    BY <2>1, <2>2, <2>3 DEF ReadAbove, Reaches, IsTip
  <2>5. /\ \A g \in Handler \ {h} : call'[g] = call[g]
        /\ call'[h].pc = "begin" /\ call'[h].previous_hash = prev
        /\ call'[h].req = call[h].req /\ call'[h].attempt = n
    BY <2>1, <2>3 DEF Call
  <2>6. Earned(h)'
    BY <1>0, <2>4, <2>5 DEF Earned, ReadAbove, Rows, EarlyPcs
  <2>. QED BY <1>1, <1>2, <1>10, <2>5, <2>6 DEF GetChainTip, HaltInv
<1>11. ASSUME NEW h \in Handler, BeginTx(h) PROVE HaltInv'
  <2>1. call[h] \in Call \ {NoCall} /\ call \in [Handler -> Call]
    BY <1>11 DEF BeginTx, TypeOK
  <2>2. /\ \A g \in Handler \ {h} : call'[g] = call[g]
        /\ call'[h].pc = "tx" /\ call'[h].req = call[h].req
        /\ call'[h].attempt = call[h].attempt
    BY <1>11, <2>1 DEF BeginTx, Goto, Call
  <2>3. tx'[h].input.previous_hash = call[h].previous_hash
    BY <1>11 DEF BeginTx, EntryWriteInput, TypeOK
  <2>4. ReadAbove(call[h].req.entry_type, call[h].previous_hash, call[h].attempt)
    BY <1>11 DEF BeginTx, HaltInv, Earned
  <2>5. Earned(h)'
    BY <1>0, <2>2, <2>3, <2>4 DEF Earned, ReadAbove, Rows, EarlyPcs
  <2>. QED BY <1>1, <1>2, <1>11, <2>2, <2>5 DEF BeginTx, HaltInv
<1>12. ASSUME UNCHANGED <<call, halted>> PROVE HaltInv'
  <2>1. ASSUME NEW g \in Handler PROVE Earned(g)'
    <3>1. CASE call[g].pc = "begin"
      BY <1>0, <1>12, <3>1 DEF HaltInv, Earned, ReadAbove, Rows, EarlyPcs
    <3>2. CASE call[g].pc # "begin"
      BY <1>0, <1>12, <3>2, EarnedKept DEF HaltInv, StepShape, TxShape
    <3>. QED BY <3>1, <3>2
  <2>. QED BY <1>2, <1>12, <2>1 DEF HaltInv
<1>13. ASSUME NEW h \in Handler, TxLock(h) \/ TxInsertOutbox(h) \/ OrphanAbort(h) \/ OrphanCommit(h)
       PROVE  HaltInv'
  BY <1>12, <1>13 DEF TxLock, TxInsertOutbox, OrphanAbort, OrphanCommit
<1>14. ASSUME NEW h \in Handler, TxCheckTip(h) PROVE HaltInv'
  <2>1. ASSUME NEW pos, TakePosition(h, pos) PROVE HaltInv'
    BY <1>12, <1>14, <2>1 DEF TxCheckTip, TakePosition
  <2>2. ASSUME NEW e \in Rows(tx[h].input.entry_type), IsTip(e, tx[h].input.entry_type),
               e.entry_hash # tx[h].input.previous_hash, ChainIntegrityViolation(h)
        PROVE  HaltInv'
    <3>1. Earned(h)'
      BY <1>14, <2>2, EarnedByLoss DEF TxCheckTip, HaltInv
    <3>2. \A g \in Handler \ {h} : call'[g] = call[g]
      BY <2>2 DEF ChainIntegrityViolation, TypeOK
    <3>. QED BY <1>1, <1>2, <1>14, <3>1, <3>2 DEF TxCheckTip, HaltInv
  <2>. QED BY <1>14, <2>1, <2>2 DEF TxCheckTip
<1>15. ASSUME NEW h \in Handler, TxInsert(h) PROVE HaltInv'
  <2>1. \A e \in entries : ~SamePosition(e, h)
    <3>1. tx[h].stage = "checked" /\ \A e \in entries : e.chain_position \in Nat \ {0}
      BY <1>15 DEF TxInsert, TypeOK, Row
    <3>. QED BY <3>1 DEF LedgerInv, StoreInv, PlacedOnTip, SamePosition, IsTip, Rows
  <2>2. CASE Goto(h, "conflict")
    <3>1. (\A g \in Handler \ {h} : call'[g] = call[g]) /\ call'[h].pc = "conflict"
      BY <1>15, <2>2, CallFrame DEF TxInsert
    <3>2. Earned(h)'
      BY <1>0, <3>1, EarnedKept DEF HaltInv
    <3>. QED BY <1>1, <1>2, <1>15, <3>1, <3>2 DEF TxInsert, HaltInv
  <2>3. CASE UNCHANGED call
    BY <1>12, <1>15, <2>3 DEF TxInsert
  <2>. QED BY <1>15, <2>1, <2>2, <2>3 DEF TxInsert
<1>16. ASSUME NEW p \in Proc, Crash(p) PROVE HaltInv'
  <2>1. HaltEarned'
    BY <1>0, <1>16 DEF Crash, HaltInv, HaltEarned, Rows, TypeOK
  <2>2. ASSUME NEW g \in Handler PROVE Earned(g)'
    <3>1. (call'[g].pc = "idle" \/ call'[g] = call[g]) /\ tx'[g] = tx[g]
      BY <1>16 DEF Crash
    <3>2. CASE call'[g].pc = "idle"
      BY <1>0, <3>2, EarnedKept DEF HaltInv
    <3>3. CASE call'[g] = call[g]
      BY <1>0, <3>1, <3>3 DEF HaltInv, Earned, Reaches, ReadAbove, Rows
    <3>. QED BY <3>1, <3>2, <3>3
  <2>. QED BY <2>1, <2>2 DEF HaltInv
<1>17. ASSUME Tick \/ UNCHANGED vars PROVE HaltInv'
  BY <1>12, <1>17 DEF Tick, vars
<1>. QED
  BY <1>3, <1>6, <1>7, <1>8, <1>9, <1>10, <1>11, <1>13, <1>14, <1>15, <1>16, <1>17
     DEF Next, ServiceStep

\* A process halts a chain only after rivals have committed chain_max_retries rows to
\* it: no call gives up an attempt early, however calls, crashes and orphaned
\* commits interleave (write_entry_impl).
THEOREM HaltsEarned == Spec => []HaltEarned
<1>1. Init => HaltInv
  BY DEF Init, HaltInv, HaltEarned, Earned, EarlyPcs
<1>2. HaltInv => HaltEarned
  BY DEF HaltInv
<1>. QED BY <1>1, <1>2, TypeCorrect, LedgerInvariant, HaltStep, PTL DEF Spec

-----------------------------------------------------------------------------
(* The chains implement AppendOnlyLog *)

Positions(c) == {e.chain_position : e \in Rows(c)}

\* The positions of a chain are those of a sequence.
DenseInv == \A c \in Chain : \E n \in Nat : Positions(c) = 1..n

\* Append on a function over 1..n.
LEMMA AppendExtends ==
    ASSUME NEW S, NEW n \in Nat, NEW s \in [1..n -> S], NEW t \in [1..(n + 1) -> S],
           NEW e \in S, t[n + 1] = e, \A i \in 1..n : t[i] = s[i]
    PROVE  t = Append(s, e)
<1>1. s \in Seq(S) /\ t \in Seq(S) /\ Len(s) = n /\ Len(t) = n + 1
  BY SeqDef, LenProperties
<1>2. /\ Append(s, e) \in Seq(S) /\ Len(Append(s, e)) = n + 1
      /\ \A i \in 1..n : Append(s, e)[i] = s[i]
      /\ Append(s, e)[n + 1] = e
  BY <1>1, AppendProperties
<1>3. \A i \in 1..(n + 1) : t[i] = Append(s, e)[i]
  BY <1>2
<1>. QED BY <1>1, <1>2, <1>3, SeqEqual

\* A position holds one row, so RowAt finds it.
LEMMA RowAtFinds ==
    ASSUME PositionsUnique, NEW c, NEW e \in Rows(c)
    PROVE  RowAt(c, e.chain_position) = e
<1>1. PICK i : i = e.chain_position
  OBVIOUS
<1>2. RowAt(c, i) \in Rows(c) /\ RowAt(c, i).chain_position = i
  BY <1>1 DEF RowAt
<1>. QED BY <1>1, <1>2 DEF PositionsUnique, Rows

\* What the log shows of a row.
Shown(e) == [key |-> e.idempotency_key, body |-> e.body]

\* The log of a chain has an entry for each position, which shows the row there.
ViewShowsRows ==
    \A c \in Chain : /\ logView[c] \in [Positions(c) -> Log!LogEntry]
                     /\ \A e \in Rows(c) : logView[c][e.chain_position] = Shown(e)

\* It does where a position holds one row.
LEMMA ViewOfRows == TypeOK /\ PositionsUnique => ViewShowsRows
<1>. SUFFICES ASSUME TypeOK, PositionsUnique, NEW c \in Chain
              PROVE  /\ logView[c] \in [Positions(c) -> Log!LogEntry]
                     /\ \A e \in Rows(c) : logView[c][e.chain_position] = Shown(e)
  BY DEF ViewShowsRows
<1>1. \A i \in Positions(c) : RowAt(c, i) \in Rows(c)
  BY RowAtFinds DEF Positions
<1>2. \A e \in Rows(c) : e.idempotency_key \in Key \cup {NoKey} /\ e.body \in Body
  BY DEF TypeOK, Row, Rows
<1>3. logView[c] = [i \in Positions(c) |-> Shown(RowAt(c, i))]
  BY DEF logView, Positions, Shown
<1>4. logView[c] \in [Positions(c) -> Log!LogEntry]
  BY <1>1, <1>2, <1>3 DEF Log!LogEntry, Shown
<1>5. \A e \in Rows(c) : logView[c][e.chain_position] = Shown(e)
  BY <1>3, RowAtFinds DEF Positions
<1>. QED BY <1>4, <1>5

\* A chain whose rows do not change looks the same.
LEMMA ViewKept ==
    ASSUME NEW c \in Chain, Rows(c)' = Rows(c)
    PROVE  logView'[c] = logView[c] /\ Positions(c)' = Positions(c)
<1>1. \A i : RowAt(c, i)' = RowAt(c, i)
  BY DEF RowAt
<1>. QED BY <1>1 DEF logView, Positions

\* The commit of a transaction appends its row to its chain and to no other.
LEMMA PublishAppends ==
    ASSUME TypeOK, LedgerInv, DenseInv, ViewShowsRows, ViewShowsRows',
           NEW h \in Handler, tx[h].stage = "committing", Publish(h)
    PROVE  Log!LogNext /\ DenseInv'
<1>c. PICK c : c = tx[h].input.entry_type
  OBVIOUS
<1>r. PICK r : r = TxRow(h)
  OBVIOUS
<1>1. /\ r.entry_type = c /\ r.chain_position = tx[h].pos
      /\ r.idempotency_key = tx[h].input.idempotency_key /\ r.body = tx[h].input.body
      /\ entries' = entries \cup {r}
  BY <1>c, <1>r DEF Publish, TxRow, LedgerEntryRecord
<1>2. c \in Chain /\ tx[h].pos \in Nat \ {0} /\ Shown(r) \in Log!LogEntry
  BY <1>1, <1>c DEF TypeOK, Tx, Input, Shown, Log!LogEntry
<1>3. /\ Rows(c)' = Rows(c) \cup {r}
      /\ \A d \in Chain \ {c} : Rows(d)' = Rows(d)
  BY <1>1 DEF Rows
<1>5. PICK n \in Nat : Positions(c) = 1..n
  BY <1>2 DEF DenseInv
<1>6. r.chain_position = n + 1
  <2>1. CASE Rows(c) = {} /\ tx[h].pos = 1
    <3>1. 1..n = {}
      BY <1>5, <2>1 DEF Positions
    <3>2. n = 0
      BY <3>1
    <3>. QED BY <1>1, <2>1, <3>2
  <2>2. ASSUME NEW e \in Rows(c), IsTip(e, c), tx[h].pos = e.chain_position + 1
        PROVE  r.chain_position = n + 1
    <3>1. e.chain_position \in 1..n /\ \A i \in 1..n : i <= e.chain_position
      BY <1>5, <2>2 DEF IsTip, Positions
    <3>2. e.chain_position = n
      BY <3>1
    <3>. QED BY <1>1, <2>2, <3>2
  <2>. QED BY <1>c, <2>1, <2>2 DEF LedgerInv, StoreInv, PlacedOnTip
<1>7. Positions(c)' = 1..(n + 1)
  <2>1. Positions(c)' = Positions(c) \cup {n + 1}
    BY <1>3, <1>6 DEF Positions
  <2>. QED BY <1>5, <2>1
<1>8. DenseInv'
  BY <1>3, <1>7, ViewKept DEF DenseInv
<1>9. logView'[c] = Append(logView[c], Shown(r))
  <2>1. logView[c] \in [1..n -> Log!LogEntry]
    BY <1>2, <1>5 DEF ViewShowsRows
  <2>2. /\ logView'[c] \in [1..(n + 1) -> Log!LogEntry]
        /\ \A e \in Rows(c) \cup {r} : logView'[c][e.chain_position] = Shown(e)
    BY <1>2, <1>3, <1>7 DEF ViewShowsRows, Shown, Log!LogEntry
  <2>3. \A i \in 1..n : logView'[c][i] = logView[c][i]
    BY <1>2, <1>5, <2>2 DEF ViewShowsRows, Positions
  <2>4. logView'[c][n + 1] = Shown(r)
    BY <1>6, <2>2
  <2>. QED BY <1>2, <2>1, <2>2, <2>3, <2>4, AppendExtends
<1>10. logView' = [logView EXCEPT ![c] = Append(@, Shown(r))]
  <2>1. \A d \in Chain \ {c} : logView'[d] = logView[d]
    BY <1>3, ViewKept
  <2>. QED BY <1>2, <1>9, <2>1 DEF logView
<1>11. Log!KeyIsFree(c, Shown(r).key)
  <2>1. \A e \in Rows(c) : ~HasKey(e, c, r.idempotency_key)
    BY <1>1, <1>c DEF LedgerInv, StoreInv, InsertedKeyFree, SameKey, Rows
  <2>2. \A e \in Rows(c) : r.idempotency_key = NoKey \/ Shown(e).key # r.idempotency_key
    BY <2>1 DEF HasKey, Rows, Shown
  <2>3. DOMAIN logView[c] = Positions(c)
    BY <1>2 DEF ViewShowsRows
  <2>4. \A i \in Positions(c) : \E e \in Rows(c) : logView[c][i] = Shown(e)
    BY <1>2 DEF ViewShowsRows, Positions
  <2>. QED BY <2>2, <2>3, <2>4 DEF Log!KeyIsFree, Shown
<1>12. Log!AppendEntry(c, Shown(r))
  BY <1>10, <1>11 DEF Log!AppendEntry
<1>. QED BY <1>2, <1>8, <1>12 DEF Log!LogNext

\* Every step appends one entry to the log or leaves it as it was.
LEMMA LogStep ==
    ASSUME TypeOK, LedgerInv, DenseInv, ViewShowsRows, ViewShowsRows', [Next]_vars
    PROVE  [Log!LogNext]_logView /\ DenseInv'
<1>1. CASE UNCHANGED entries
  <2>1. \A c \in Chain : Rows(c)' = Rows(c)
    BY <1>1 DEF Rows
  <2>2. \A c \in Chain : logView'[c] = logView[c] /\ Positions(c)' = Positions(c)
    BY <2>1, ViewKept
  <2>3. logView' = logView
    BY <2>2 DEF logView
  <2>. QED BY <2>2, <2>3 DEF DenseInv
<1>2. ASSUME NEW h \in Handler, tx[h].stage = "committing", Publish(h)
      PROVE  Log!LogNext /\ DenseInv'
  BY <1>2, PublishAppends
<1>. QED BY <1>1, <1>2, StepsHaveShape DEF StepShape, CommitOrKeep

\* What a reader of the database sees is an append-only log: every behaviour of
\* the append path, with any processes, faults and crashes, is one of the abstract
\* specification under the view logView.
THEOREM ChainsImplementLog == Spec => ImplementsLog
<1>1. Init => DenseInv /\ Log!LogInit
  <2>. SUFFICES ASSUME Init PROVE DenseInv /\ Log!LogInit
    OBVIOUS
  <2>1. \A c \in Chain : Positions(c) = 1..0
    BY DEF Init, Positions, Rows
  <2>2. \A c \in Chain : logView[c] = <<>>
    BY DEF Init, logView, Rows
  <2>. QED BY <2>1, <2>2 DEF DenseInv, Log!LogInit, logView
<1>2. LedgerInv => PositionsUnique
  BY DEF LedgerInv, StoreInv, ChainLinked
<1>. QED
  BY <1>1, <1>2, TypeCorrect, LedgerInvariant, ViewOfRows, LogStep, PTL
     DEF Spec, ImplementsLog, Log!LogSpec
====
