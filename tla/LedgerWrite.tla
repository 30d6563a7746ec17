---------------------------- MODULE LedgerWrite ----------------------------
(***************************************************************************)
(* The append path of the immutable ledger: ImmutableLedgerService::        *)
(* write_entry_impl (src/service/mod.rs) running over                       *)
(* PostgresLedgerRepository::write_entry_with_outbox                        *)
(* (src/repository/postgres.rs).                                            *)
(*                                                                          *)
(* A handler is one in-flight WriteEntry or IssueReceipt call of a service   *)
(* process.  Its control state changes at the points where the code awaits.  *)
(* The database transaction of a handler is a state machine of its own,      *)
(* because it outlives the handler: a cancelled call, a crashed process or a *)
(* broken connection leaves the backend to roll back, or to finish a COMMIT  *)
(* it has already received.                                                  *)
(*                                                                          *)
(* SHA-256 is a free constructor (no collisions), and the request fields     *)
(* that idempotent_request_matches compares are one value, the body.         *)
(***************************************************************************)
EXTENDS Integers, FiniteSets

CONSTANTS
    Chain,            \* entry types, one hash chain each
    Key,              \* idempotency keys
    NoKey,            \* idempotency_key: None
    Body,             \* agent, content, source, correlation, proof material
    InvalidBody,      \* bodies with a missing field or oversized content
    Proc,             \* service processes sharing the database
    Handler,          \* in-flight calls
    ProcOf,           \* the process a handler belongs to
    EntryId,          \* UUIDs
    ChainMaxRetries,  \* config.chain_max_retries
    HaltRecovery,     \* config.chain_halt_recovery_seconds, in clock ticks
    PoolMaxSize,      \* config.pool_max_size, connections per process
    CreateOutbox,     \* publisher.is_enabled()
    Faults,           \* environment failures: "cancel", "crash", "db"
    MaxEntries,       \* bound: rows the model lets the clients append
    MaxClock          \* bound: clock ticks

ASSUME ConstantsAssumption ==
    /\ NoKey \notin Key
    /\ InvalidBody \subseteq Body
    /\ ProcOf \in [Handler -> Proc]
    /\ ChainMaxRetries \in Nat
    /\ HaltRecovery \in Nat \ {0}
    /\ PoolMaxSize \in Nat
    /\ CreateOutbox \in BOOLEAN
    /\ Faults \subseteq {"cancel", "crash", "db"}
    /\ MaxEntries \in Nat
    /\ MaxClock \in Nat

VARIABLES
    entries,   \* committed rows of are_ledger.ledger_entries
    outbox,    \* entry ids with a committed row in ledger_write_outbox
    tx,        \* [Handler -> the handler's database transaction]
    call,      \* [Handler -> the handler's control state and locals]
    resp,      \* [Handler -> the last response given to its client]
    halted,    \* [Proc -> [Chain -> time of the halt, or NotHalted]]
    clock      \* the common clock

vars == <<entries, outbox, tx, call, resp, halted, clock>>

NotHalted == -1

Request == [entry_type : Chain, idempotency_key : Key \cup {NoKey}, body : Body]

-----------------------------------------------------------------------------
(* Hashing and rows *)

sha256_hex(bytes) == [sha256 |-> bytes]

Genesis == sha256_hex(<<"ARE_LEDGER_GENESIS">>)

canonical_entry_hash(id, input, pos) ==
    sha256_hex(<<"ARE_LEDGER_ENTRY_HASH_V3", id, input.entry_type, input.body,
                 input.idempotency_key, pos, input.written_ts,
                 input.previous_hash>>)

LedgerEntryRecord(id, input, pos) ==
    [entry_id        |-> id,
     entry_type      |-> input.entry_type,
     body            |-> input.body,
     idempotency_key |-> input.idempotency_key,
     previous_hash   |-> input.previous_hash,
     written_ts      |-> input.written_ts,
     chain_position  |-> pos,
     entry_hash      |-> canonical_entry_hash(id, input, pos)]

Rows(c) == {e \in entries : e.entry_type = c}

\* ORDER BY chain_position DESC LIMIT 1
IsTip(e, c) == e \in Rows(c) /\ \A f \in Rows(c) : f.chain_position <= e.chain_position

HasKey(e, c, k) == e.entry_type = c /\ e.idempotency_key = k /\ k # NoKey

idempotent_request_matches_Always(existing, r) == TRUE

idempotent_request_matches(existing, r) == existing.body = r.body

-----------------------------------------------------------------------------
(* Handlers and transactions *)

NoCall == [pc |-> "idle"]

EntryWriteInput(r, prev, ts) ==
    [entry_type |-> r.entry_type, body |-> r.body,
     idempotency_key |-> r.idempotency_key, previous_hash |-> prev,
     written_ts |-> ts]

NoTx == [stage |-> "none"]

\* Stages in which the transaction owns pg_advisory_xact_lock of its chain.
LockStages == {"locked", "checked", "inserted", "committing"}

HoldsAdvisoryLock(h, c) == tx[h].stage \in LockStages /\ tx[h].input.entry_type = c

\* The scope of _chain_guard: from its acquisition to the end of the call.
GuardedPcs == {"tip", "begin", "tx", "conflict", "halt_set"}

HoldsChainGuard(h, p, c) ==
    ProcOf[h] = p /\ call[h].pc \in GuardedPcs /\ call[h].req.entry_type = c

\* deadpool hands out a connection; one stays with its transaction until the
\* call leaves write_entry_with_outbox.
PoolHasConnection(p) ==
    Cardinality({g \in Handler : ProcOf[g] = p /\ call[g].pc = "tx"}) < PoolMaxSize

UsedIds == {e.entry_id : e \in entries}
             \cup {tx[h].id : h \in {g \in Handler : tx[g].stage \in LockStages \ {"locked"}}}

\* The call ends: its locals and _chain_guard are dropped.
Reply(h, r) ==
    /\ call' = [call EXCEPT ![h] = NoCall]
    /\ resp' = [resp EXCEPT ![h] = r]

Failed(kind) == [kind |-> kind]
Ok(r, e) == [kind |-> "ok", req |-> r, row |-> e]
AlreadyExists(r) == [kind |-> "already_exists", req |-> r]

Goto(h, label) == call' = [call EXCEPT ![h].pc = label]

-----------------------------------------------------------------------------
Init ==
    /\ entries = {}
    /\ outbox = {}
    /\ tx = [h \in Handler |-> NoTx]
    /\ call = [h \in Handler |-> NoCall]
    /\ resp = [h \in Handler |-> Failed("none")]
    /\ halted = [p \in Proc |-> [c \in Chain |-> NotHalted]]
    /\ clock = 0

\* Rows that exist or may come to exist through calls already accepted.
Pledged == Cardinality(entries)
             + Cardinality({g \in Handler : call[g].pc # "idle" \/ tx[g].stage # "none"})

(***************************************************************************)
(* A request arrives; missing fields and oversized content are refused      *)
(* before the first await.  A handler slot is reused once the database is    *)
(* done with its previous transaction.                                       *)
(***************************************************************************)
Receive(h) ==
    /\ call[h].pc = "idle"
    /\ tx[h].stage = "none"
    /\ \E r \in Request :
         IF r.body \in InvalidBody
         THEN /\ resp' = [resp EXCEPT ![h] = Failed("invalid")]
              /\ UNCHANGED call
         ELSE /\ Pledged < MaxEntries
              /\ call' = [call EXCEPT ![h] = [pc |-> "halt_check", req |-> r,
                                              attempt |-> 0, previous_hash |-> Genesis,
                                              written_ts |-> 0]]
              /\ resp' = [resp EXCEPT ![h] = Failed("none")]
    /\ UNCHANGED <<entries, outbox, tx, halted, clock>>

AfterHalt(r) == IF r.idempotency_key = NoKey THEN "lock" ELSE "find"

\* Read chain_halted; a halt that has outlived the recovery time is removed
\* in a later step, under the write lock, after the read lock is dropped.
CheckHalt(h) ==
    LET r  == call[h].req
        at == halted[ProcOf[h]][r.entry_type]
    IN  /\ call[h].pc = "halt_check"
        /\ IF at # NotHalted /\ clock - at < HaltRecovery
           THEN Reply(h, Failed("unavailable"))
           ELSE /\ Goto(h, IF at = NotHalted THEN AfterHalt(r) ELSE "halt_clear")
                /\ UNCHANGED resp
        /\ UNCHANGED <<entries, outbox, tx, halted, clock>>

ClearHalt(h) ==
    /\ call[h].pc = "halt_clear"
    /\ halted' = [halted EXCEPT ![ProcOf[h]][call[h].req.entry_type] = NotHalted]
    /\ Goto(h, AfterHalt(call[h].req))
    /\ UNCHANGED <<entries, outbox, tx, resp, clock>>

\* find_idempotent before the append.
FindIdempotent(h) ==
    LET r == call[h].req
        Found == {e \in entries : HasKey(e, r.entry_type, r.idempotency_key)}
    IN  /\ call[h].pc = "find"
        /\ PoolHasConnection(ProcOf[h])
        /\ \/ /\ Found = {}
              /\ Goto(h, "lock")
              /\ UNCHANGED resp
           \/ \E e \in Found :
                Reply(h, IF idempotent_request_matches(e, r) THEN Ok(r, e)
                                                             ELSE AlreadyExists(r))
        /\ UNCHANGED <<entries, outbox, tx, halted, clock>>

\* The per-chain mutex of this process.  With chain_max_retries = 0 the
\* attempt loop has no iteration and the call fails at once.
AcquireChainLock(h) ==
    /\ call[h].pc = "lock"
    /\ \A g \in Handler : ~HoldsChainGuard(g, ProcOf[h], call[h].req.entry_type)
    /\ IF ChainMaxRetries = 0
       THEN Reply(h, Failed("internal"))
       ELSE Goto(h, "tip") /\ UNCHANGED resp
    /\ UNCHANGED <<entries, outbox, tx, halted, clock>>

\* The tip is read outside the transaction; written_ts is taken after it.
ReadTip(h, ts) ==
    LET c == call[h].req.entry_type IN
    \/ /\ Rows(c) = {}
       /\ call' = [call EXCEPT ![h].pc = "begin", ![h].previous_hash = Genesis,
                               ![h].written_ts = ts]
    \/ \E e \in Rows(c) :
         /\ IsTip(e, c)
         /\ call' = [call EXCEPT ![h].pc = "begin", ![h].previous_hash = e.entry_hash,
                                 ![h].written_ts = ts]

\* One timestamp for all attempts.
GetChainTip_StaleClock(h) ==
    /\ call[h].pc = "tip"
    /\ PoolHasConnection(ProcOf[h])
    /\ ReadTip(h, IF call[h].attempt = 0 THEN clock ELSE call[h].written_ts)
    /\ UNCHANGED <<entries, outbox, tx, resp, halted, clock>>

\* One iteration of the attempt loop, up to write_entry_with_outbox.
GetChainTip(h) ==
    /\ call[h].pc = "tip"
    /\ PoolHasConnection(ProcOf[h])
    /\ ReadTip(h, clock)
    /\ UNCHANGED <<entries, outbox, tx, resp, halted, clock>>

BeginTx(h) ==
    /\ call[h].pc = "begin"
    /\ tx[h].stage = "none"
    /\ PoolHasConnection(ProcOf[h])
    /\ tx' = [tx EXCEPT ![h] =
                [stage |-> "begun",
                 input |-> EntryWriteInput(call[h].req, call[h].previous_hash,
                                           call[h].written_ts)]]
    /\ Goto(h, "tx")
    /\ UNCHANGED <<entries, outbox, resp, halted, clock>>

\* SELECT pg_advisory_xact_lock: waits for the transaction that owns the key.
TxLock(h) ==
    /\ call[h].pc = "tx"
    /\ tx[h].stage = "begun"
    /\ \A g \in Handler : ~HoldsAdvisoryLock(g, tx[h].input.entry_type)
    /\ tx' = [tx EXCEPT ![h].stage = "locked"]
    /\ UNCHANGED <<entries, outbox, call, resp, halted, clock>>

ChainIntegrityViolation_OneMore(h) ==
    /\ tx' = [tx EXCEPT ![h] = NoTx]
    /\ call' = IF call[h].attempt < ChainMaxRetries
               THEN [call EXCEPT ![h].pc = "tip", ![h].attempt = @ + 1]
               ELSE [call EXCEPT ![h].pc = "halt_set"]

ChainIntegrityViolation_NoRollback(h) ==
    /\ UNCHANGED tx
    /\ call' = IF call[h].attempt + 1 < ChainMaxRetries
               THEN [call EXCEPT ![h].pc = "tip", ![h].attempt = @ + 1]
               ELSE [call EXCEPT ![h].pc = "halt_set"]

ChainIntegrityViolation_EarlyHalt(h) ==
    /\ tx' = [tx EXCEPT ![h] = NoTx]
    /\ call' = IF call[h].attempt + 2 < ChainMaxRetries
               THEN [call EXCEPT ![h].pc = "tip", ![h].attempt = @ + 1]
               ELSE [call EXCEPT ![h].pc = "halt_set"]

(***************************************************************************)
(* The service's answer to ChainIntegrityViolation, together with the        *)
(* rollback that precedes it: another attempt, or the halt.                  *)
(***************************************************************************)
ChainIntegrityViolation(h) ==
    /\ tx' = [tx EXCEPT ![h] = NoTx]
    /\ call' = IF call[h].attempt + 1 < ChainMaxRetries
               THEN [call EXCEPT ![h].pc = "tip", ![h].attempt = @ + 1]
               ELSE [call EXCEPT ![h].pc = "halt_set"]

\* The position is taken and a fresh entry_id drawn; which one is immaterial.
TakePosition(h, pos) ==
    /\ \E id \in EntryId \ UsedIds :
         /\ id = CHOOSE i \in EntryId \ UsedIds : TRUE
         /\ tx' = [tx EXCEPT ![h] = [stage |-> "checked", input |-> tx[h].input,
                                     pos |-> pos, id |-> id, outboxed |-> FALSE]]
    /\ UNCHANGED call

TxCheckTip_NoCompare(h) ==
    LET c == tx[h].input.entry_type IN
    /\ call[h].pc = "tx"
    /\ tx[h].stage = "locked"
    /\ \/ Rows(c) = {} /\ TakePosition(h, 1)
       \/ \E e \in Rows(c) : IsTip(e, c) /\ TakePosition(h, e.chain_position + 1)
    /\ UNCHANGED <<entries, outbox, resp, halted, clock>>

\* SELECT the tip inside the transaction and compare it with previous_hash.
TxCheckTip(h) ==
    LET c == tx[h].input.entry_type IN
    /\ call[h].pc = "tx"
    /\ tx[h].stage = "locked"
    /\ \/ Rows(c) = {} /\ TakePosition(h, 1)
       \/ \E e \in Rows(c) :
            /\ IsTip(e, c)
            /\ IF e.entry_hash = tx[h].input.previous_hash
               THEN TakePosition(h, e.chain_position + 1)
               ELSE ChainIntegrityViolation(h)
    /\ UNCHANGED <<entries, outbox, resp, halted, clock>>

SamePosition(e, h) ==
    e.entry_type = tx[h].input.entry_type /\ e.chain_position = tx[h].pos

SameKey(e, h) == HasKey(e, tx[h].input.entry_type, tx[h].input.idempotency_key)

\* PostgreSQL makes an INSERT wait for a transaction that holds an uncommitted
\* row with the same unique-index key.
InsertMustWait(h) ==
    \E g \in Handler \ {h} :
        /\ tx[g].stage \in {"inserted", "committing"}
        /\ tx[g].input.entry_type = tx[h].input.entry_type
        /\ \/ tx[g].pos = tx[h].pos
           \/ /\ tx[g].input.idempotency_key = tx[h].input.idempotency_key
              /\ tx[h].input.idempotency_key # NoKey

TxInsert_NoKeyIndex(h) ==
    /\ call[h].pc = "tx"
    /\ tx[h].stage = "checked"
    /\ ~InsertMustWait(h)
    /\ IF \E e \in entries : SamePosition(e, h)
       THEN ChainIntegrityViolation(h)
       ELSE tx' = [tx EXCEPT ![h].stage = "inserted"] /\ UNCHANGED call
    /\ UNCHANGED <<entries, outbox, resp, halted, clock>>

\* INSERT INTO ledger_entries under idx_ledger_type_position and
\* idx_ledger_idempotency; a unique violation rolls the transaction back.
TxInsert(h) ==
    /\ call[h].pc = "tx"
    /\ tx[h].stage = "checked"
    /\ ~InsertMustWait(h)
    /\ IF \E e \in entries : SamePosition(e, h)
       THEN ChainIntegrityViolation(h)
       ELSE \/ /\ \E e \in entries : SameKey(e, h)
               /\ tx' = [tx EXCEPT ![h] = NoTx]
               /\ Goto(h, "conflict")
            \/ /\ \A e \in entries : ~SameKey(e, h)
               /\ tx' = [tx EXCEPT ![h].stage = "inserted"]
               /\ UNCHANGED call
    /\ UNCHANGED <<entries, outbox, resp, halted, clock>>

TxInsertOutbox_Forgotten(h) ==
    /\ call[h].pc = "tx"
    /\ tx[h].stage = "inserted"
    /\ tx' = [tx EXCEPT ![h].stage = "committing"]
    /\ UNCHANGED <<entries, outbox, call, resp, halted, clock>>

\* INSERT INTO ledger_write_outbox when a publisher is configured, then send
\* COMMIT.
TxInsertOutbox(h) ==
    /\ call[h].pc = "tx"
    /\ tx[h].stage = "inserted"
    /\ tx' = [tx EXCEPT ![h].stage = "committing", ![h].outboxed = CreateOutbox]
    /\ UNCHANGED <<entries, outbox, call, resp, halted, clock>>

TxRow(h) == LedgerEntryRecord(tx[h].id, tx[h].input, tx[h].pos)

\* The commit takes effect: both rows become visible, the advisory lock is
\* released.
Publish(h) ==
    /\ entries' = entries \cup {TxRow(h)}
    /\ outbox' = IF tx[h].outboxed THEN outbox \cup {tx[h].id} ELSE outbox
    /\ tx' = [tx EXCEPT ![h] = NoTx]

TxCommit(h) ==
    /\ call[h].pc = "tx"
    /\ tx[h].stage = "committing"
    /\ Publish(h)
    /\ Reply(h, Ok(call[h].req, TxRow(h)))
    /\ UNCHANGED <<halted, clock>>

ConflictLookup_NoCompare(h) ==
    LET r == call[h].req
        Found == {e \in entries : HasKey(e, r.entry_type, r.idempotency_key)}
    IN  /\ call[h].pc = "conflict"
        /\ PoolHasConnection(ProcOf[h])
        /\ Reply(h, IF Found = {} THEN Failed("unavailable") ELSE AlreadyExists(r))
        /\ UNCHANGED <<entries, outbox, tx, halted, clock>>

\* IdempotencyConflict: look the key up again and compare.
ConflictLookup(h) ==
    LET r == call[h].req
        Found == {e \in entries : HasKey(e, r.entry_type, r.idempotency_key)}
    IN  /\ call[h].pc = "conflict"
        /\ PoolHasConnection(ProcOf[h])
        /\ IF Found = {}
           THEN Reply(h, Failed("unavailable"))
           ELSE \E e \in Found :
                  Reply(h, IF idempotent_request_matches(e, r) THEN Ok(r, e)
                                                               ELSE AlreadyExists(r))
        /\ UNCHANGED <<entries, outbox, tx, halted, clock>>

SetHalt(h) ==
    /\ call[h].pc = "halt_set"
    /\ halted' = [halted EXCEPT ![ProcOf[h]][call[h].req.entry_type] = clock]
    /\ Reply(h, Failed("internal"))
    /\ UNCHANGED <<entries, outbox, tx, clock>>

-----------------------------------------------------------------------------
(* The environment *)

\* pool.get, a query or the commit reports an error: map_repo turns it into
\* Unavailable.  The transaction is left to the backend.
DbError(h) ==
    /\ "db" \in Faults
    /\ call[h].pc \in {"find", "tip", "begin", "tx", "conflict"}
    /\ Reply(h, Failed("unavailable"))
    /\ UNCHANGED <<entries, outbox, tx, halted, clock>>

\* The client goes away and the server drops the handler's future.
Cancel(h) ==
    /\ "cancel" \in Faults
    /\ call[h].pc # "idle"
    /\ Reply(h, Failed("none"))
    /\ UNCHANGED <<entries, outbox, tx, halted, clock>>

\* A process dies and is restarted with empty chain_halted and chain_locks.
Crash(p) ==
    /\ "crash" \in Faults
    /\ call' = [h \in Handler |-> IF ProcOf[h] = p THEN NoCall ELSE call[h]]
    /\ resp' = [h \in Handler |-> IF ProcOf[h] = p THEN Failed("none") ELSE resp[h]]
    /\ halted' = [halted EXCEPT ![p] = [c \in Chain |-> NotHalted]]
    /\ UNCHANGED <<entries, outbox, tx, clock>>

\* A transaction whose call is gone: dropped, failed or lost in a crash.
Orphaned(h) == tx[h].stage # "none" /\ call[h].pc = "idle"

OrphanAbort(h) ==
    /\ Orphaned(h)
    /\ tx' = [tx EXCEPT ![h] = NoTx]
    /\ UNCHANGED <<entries, outbox, call, resp, halted, clock>>

\* COMMIT had reached the backend before the handler went away.
OrphanCommit(h) ==
    /\ Orphaned(h)
    /\ tx[h].stage = "committing"
    /\ Publish(h)
    /\ UNCHANGED <<call, resp, halted, clock>>

Tick ==
    /\ clock < MaxClock
    /\ clock' = clock + 1
    /\ UNCHANGED <<entries, outbox, tx, call, resp, halted>>

-----------------------------------------------------------------------------
ServiceStep(h) ==
    \/ CheckHalt(h) \/ ClearHalt(h) \/ FindIdempotent(h) \/ GetChainTip(h)
    \/ BeginTx(h) \/ TxCheckTip(h) \/ TxInsert(h) \/ TxInsertOutbox(h)
    \/ TxCommit(h) \/ ConflictLookup(h) \/ SetHalt(h)

Next ==
    \/ \E h \in Handler :
         \/ Receive(h) \/ ServiceStep(h) \/ AcquireChainLock(h) \/ TxLock(h)
         \/ DbError(h) \/ Cancel(h) \/ OrphanAbort(h) \/ OrphanCommit(h)
    \/ \E p \in Proc : Crash(p)
    \/ Tick

Spec == Init /\ [][Next]_vars

(***************************************************************************)
(* Every await of a live call completes: statements return, and the waits    *)
(* (tokio's mutex, the deadpool semaphore, PostgreSQL's lock queue) are FIFO, *)
(* so a waiter that is able to go again and again does go.  The backend       *)
(* finishes a transaction whose client is gone.  Nothing obliges clients to   *)
(* send requests, and no fault is fair.                                       *)
(***************************************************************************)
Fairness ==
    \A h \in Handler :
        /\ SF_vars(ServiceStep(h) \/ AcquireChainLock(h) \/ TxLock(h))
        /\ WF_vars(OrphanAbort(h) \/ OrphanCommit(h))

FairSpec == Spec /\ Fairness

-----------------------------------------------------------------------------
(* Properties *)

\* The hashes a handler can hold: the genesis hash and those of committed rows.
KnownHashes == {Genesis} \cup {e.entry_hash : e \in entries}

Row == [entry_id : EntryId, entry_type : Chain, body : Body,
        idempotency_key : Key \cup {NoKey}, previous_hash : KnownHashes,
        written_ts : 0..MaxClock, chain_position : Nat \ {0},
        entry_hash : KnownHashes]

Input == [entry_type : Chain, body : Body, idempotency_key : Key \cup {NoKey},
          previous_hash : KnownHashes, written_ts : 0..MaxClock]

Tx == {NoTx}
        \cup [stage : {"begun", "locked"}, input : Input]
        \cup [stage : {"checked", "inserted", "committing"}, input : Input,
              pos : Nat \ {0}, id : EntryId, outboxed : BOOLEAN]

Call == {NoCall}
          \cup [pc : {"halt_check", "halt_clear", "find", "lock"} \cup GuardedPcs,
                req : Request, attempt : {0} \cup 0..(ChainMaxRetries - 1),
                previous_hash : KnownHashes, written_ts : 0..MaxClock]

Resp == [kind : {"none", "invalid", "unavailable", "internal"}]
          \cup [kind : {"ok"}, req : Request, row : entries]
          \cup [kind : {"already_exists"}, req : Request]

\* Types; among them: a handler only ever holds the hash of a committed row, a
\* call never makes more than chain_max_retries attempts, and a row returned to
\* a client is committed and stays so (service/mod.rs, write_entry_impl).
TypeOK ==
    /\ entries \subseteq Row
    /\ outbox \subseteq EntryId
    /\ tx \in [Handler -> Tx]
    /\ call \in [Handler -> Call]
    /\ resp \in [Handler -> Resp]
    /\ halted \in [Proc -> [Chain -> {NotHalted} \cup 0..MaxClock]]
    /\ clock \in 0..MaxClock

\* Every row sits directly on its predecessor: position 1 on the genesis hash,
\* any other on the row one position below, whose hash it carries.  Hence no
\* gap and no fork, whichever processes raced for the tip
\* (postgres.rs, write_entry_with_outbox).
LinkedToPredecessor ==
    \A e \in entries :
        IF e.chain_position = 1
        THEN e.previous_hash = Genesis
        ELSE \E f \in Rows(e.entry_type) :
               /\ f.chain_position = e.chain_position - 1
               /\ e.previous_hash = f.entry_hash

\* No fork: a position of a chain holds one row.
PositionsUnique ==
    \A e, f \in entries :
        e.entry_type = f.entry_type /\ e.chain_position = f.chain_position => e = f

\* The stored hash is the one verify_chain recomputes from the stored columns.
HashesRecompute ==
    \A e \in entries : e = LedgerEntryRecord(e.entry_id, e, e.chain_position)

\* The chains verify: dense, unforked, linked and hashed as stored, although the
\* tip is read outside the transaction that appends to it.
ChainLinked == LinkedToPredecessor /\ PositionsUnique /\ HashesRecompute

\* An idempotency key names at most one row of its chain, although the lookup
\* that precedes the append runs before any lock is taken, and although a
\* retried call may meet its own earlier commit.
KeyUnique ==
    \A e, f \in entries : HasKey(f, e.entry_type, e.idempotency_key) => e = f

\* A success answers the request that was made: the row the client is told
\* about is committed in the requested chain with the requested key and body,
\* also when the row was found by key, before or after a lost race.
ReceiptFaithful ==
    \A h \in Handler : resp[h].kind = "ok" =>
        /\ resp[h].row \in entries
        /\ resp[h].row.entry_type = resp[h].req.entry_type
        /\ resp[h].row.idempotency_key = resp[h].req.idempotency_key
        /\ resp[h].row.body = resp[h].req.body

\* ALREADY_EXISTS is never an answer to a faithful retry: some committed row
\* carries the key with another body.
ConflictHonest ==
    \A h \in Handler : resp[h].kind = "already_exists" =>
        \E e \in entries :
            /\ HasKey(e, resp[h].req.entry_type, resp[h].req.idempotency_key)
            /\ e.body # resp[h].req.body

\* With a publisher configured, whatever a client was told is durable is also
\* queued for delivery, and nothing is queued that is not in the ledger; also
\* for a commit whose outcome the service never learned.
AcknowledgedIsQueued ==
    /\ outbox \subseteq {e.entry_id : e \in entries}
    /\ CreateOutbox => \A h \in Handler : resp[h].kind = "ok" => resp[h].row.entry_id \in outbox
    /\ ~CreateOutbox => outbox = {}

\* Along a chain written_ts never decreases (on clocks that agree): a retry
\* takes its timestamp after re-reading the tip.
WrittenTsMonotone ==
    \A e, f \in entries :
        e.entry_type = f.entry_type /\ e.chain_position < f.chain_position
            => e.written_ts <= f.written_ts

\* No chain is halted too early: a call halts it when each of its chain_max_retries
\* attempts was lost to a row committed after the tip it had read, so the chain is
\* at least that long by then (service/mod.rs, write_entry_impl; "Retry attempts per
\* write before chain halt", README.md:179).
HaltEarned ==
    \A p \in Proc, c \in Chain : halted[p][c] # NotHalted =>
        \E e \in Rows(c) : e.chain_position >= ChainMaxRetries

-----------------------------------------------------------------------------
(* The inductive invariant behind the safety properties *)

ChainHashes(c) == {Genesis} \cup {e.entry_hash : e \in Rows(c)}

\* At most one transaction per chain owns the advisory lock.
LockExclusive ==
    \A g, h \in Handler :
        (/\ tx[g].stage \in LockStages /\ tx[h].stage \in LockStages
         /\ tx[g].input.entry_type = tx[h].input.entry_type) => g = h

\* A previous_hash, however stale, was the tip of its own chain once.
TipReadOfChain ==
    \A h \in Handler : call[h].pc = "begin" =>
        call[h].previous_hash \in ChainHashes(call[h].req.entry_type)

TxOnChain ==
    \A h \in Handler : tx[h].stage # "none" =>
        tx[h].input.previous_hash \in ChainHashes(tx[h].input.entry_type)

\* From the comparison to the commit the tip stays where it was.
PlacedOnTip ==
    \A h \in Handler : tx[h].stage \in {"checked", "inserted", "committing"} =>
        LET c == tx[h].input.entry_type IN
        \/ Rows(c) = {} /\ tx[h].pos = 1 /\ tx[h].input.previous_hash = Genesis
        \/ \E e \in Rows(c) :
             /\ IsTip(e, c)
             /\ tx[h].pos = e.chain_position + 1
             /\ tx[h].input.previous_hash = e.entry_hash

\* An inserted key stays free of committed rivals.
InsertedKeyFree ==
    \A h \in Handler : tx[h].stage \in {"inserted", "committing"} =>
        \A e \in entries : ~SameKey(e, h)

\* A transaction writes what its call was asked to write.
TxServesCall ==
    \A h \in Handler : call[h].pc = "tx" /\ tx[h].stage # "none" =>
        /\ tx[h].input.entry_type = call[h].req.entry_type
        /\ tx[h].input.body = call[h].req.body
        /\ tx[h].input.idempotency_key = call[h].req.idempotency_key

\* Database and transactions; calls and their transactions.
StoreInv ==
    /\ LockExclusive /\ TxOnChain /\ PlacedOnTip /\ InsertedKeyFree
    /\ ChainLinked /\ KeyUnique

CallInv == TipReadOfChain /\ TxServesCall

\* The inductive invariant: what the advisory lock protects between the
\* statements of a transaction, also of one whose call is gone
\* (postgres.rs, write_entry_with_outbox).
LedgerInv == StoreInv /\ CallInv

-----------------------------------------------------------------------------
\* The chains refine an append-only log.
RowAt(c, i) == CHOOSE e \in Rows(c) : e.chain_position = i

logView ==
    [c \in Chain |->
        [i \in {e.chain_position : e \in Rows(c)} |->
            [key |-> RowAt(c, i).idempotency_key, body |-> RowAt(c, i).body]]]

Log == INSTANCE AppendOnlyLog WITH log <- logView

\* Whatever the processes, calls, faults and crashes do, what a reader of the
\* database sees is an append-only log.
ImplementsLog == Log!LogSpec

\* Every call that is not lost is answered: the mutex, the connection pool, the
\* advisory lock and the unique-index wait never block each other for ever, and
\* the attempt loop ends.
RequestsAnswered ==
    \A h \in Handler : (call[h].pc # "idle") ~> (call[h].pc = "idle")

\* A halt lasts for the recovery time: "the chain is temporarily halted and
\* auto-recovers after a configurable timeout"
\* (contracts/fleet-ecosystem-integration-contract.md:107).
HaltLastsRecovery ==
    [][\A p \in Proc, c \in Chain :
          halted[p][c] # NotHalted /\ halted'[p][c] = NotHalted
              => clock - halted[p][c] >= HaltRecovery]_vars
====
