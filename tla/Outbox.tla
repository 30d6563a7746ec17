------------------------------- MODULE Outbox -------------------------------
(***************************************************************************)
(* Delivery of committed events to the HTTP event sink: the loop of          *)
(* start_outbox_processor and publish_one (src/service/mod.rs) over the      *)
(* outbox statements of PostgresLedgerRepository.  Every service process      *)
(* runs one processor, and nothing claims a row: processes that share the     *)
(* database work on the same rows, each from the copy it read at its poll.    *)
(*                                                                          *)
(* Sleeps (500 ms between polls, the backoff after a failure) and a failing   *)
(* pending_outbox change nothing and are left out.                            *)
(***************************************************************************)
EXTENDS Integers, FiniteSets

CONSTANTS
    Record,       \* outbox records, numbered in the order of created_ts
    Processor,    \* running service processes
    MaxRetries,   \* config.outbox_max_retries as i32
    MaxFaults     \* bound: crashes and database errors of a process

ASSUME OutboxAssumption ==
    /\ Record \subseteq Nat
    /\ IsFiniteSet(Processor)
    /\ MaxRetries \in Nat
    /\ MaxFaults \in Nat

VARIABLES
    rows,       \* [Record -> status and attempt_count in ledger_write_outbox]
    proc,       \* [Processor -> control state and the copies still to handle]
    acked,      \* history: records the sink has answered with 2xx
    attempts,   \* history: [Record -> publish calls made]
    calls,      \* history: [Processor -> [Record -> publish calls it made]]
    faults      \* history: [Processor -> crashes and database errors it met]

vars == <<rows, proc, acked, attempts, calls, faults>>

Statuses == {"absent", "PENDING", "DELIVERED", "FAILED"}

Idle == [pc |-> "poll", todo |-> {}]

Copy(o) == [id |-> o, attempt_count |-> rows[o].attempt_count]

\* The record of the loop variable: the oldest of the copies left.
IsCurrent(r, p) == r \in proc[p].todo /\ \A s \in proc[p].todo : r.id <= s.id

Batch_NeverIdle(copies) == [pc |-> "publish", todo |-> copies]

\* The head of the loop: publish the next copy, or poll again.
Batch(copies) == IF copies = {} THEN Idle ELSE [pc |-> "publish", todo |-> copies]

\* publish_one has returned.
NextRecord(p, r) == proc' = [proc EXCEPT ![p] = Batch(@.todo \ {r})]

Goto(p, label) == proc' = [proc EXCEPT ![p].pc = label]

Init ==
    /\ rows = [o \in Record |-> [status |-> "absent", attempt_count |-> 0]]
    /\ proc = [p \in Processor |-> Idle]
    /\ acked = {}
    /\ attempts = [o \in Record |-> 0]
    /\ calls = [p \in Processor |-> [o \in Record |-> 0]]
    /\ faults = [p \in Processor |-> 0]

\* The transaction of an append commits its outbox row.  created_ts is the time
\* the transaction began, so rows may appear out of that order.
Enqueue(o) ==
    /\ rows[o].status = "absent"
    /\ rows' = [rows EXCEPT ![o].status = "PENDING"]
    /\ UNCHANGED <<proc, acked, attempts, calls, faults>>

Poll_BelowLimit(p) ==
    LET pending == {o \in Record : rows[o].status = "PENDING" /\ rows[o].attempt_count < MaxRetries} IN
    /\ proc[p].pc = "poll"
    /\ proc' = [proc EXCEPT ![p] = Batch({Copy(o) : o \in pending})]
    /\ UNCHANGED <<rows, acked, attempts, calls, faults>>

\* pending_outbox; an empty answer leads to another poll.
Poll(p) ==
    LET pending == {o \in Record : rows[o].status = "PENDING"} IN
    /\ proc[p].pc = "poll"
    /\ proc' = [proc EXCEPT ![p] = Batch({Copy(o) : o \in pending})]
    /\ UNCHANGED <<rows, acked, attempts, calls, faults>>

\* publisher.publish is called.
CountCall(p, r) ==
    /\ attempts' = [attempts EXCEPT ![r.id] = @ + 1]
    /\ calls' = [calls EXCEPT ![p][r.id] = @ + 1]

\* The sink answers 2xx.
PublishOk(p) ==
    /\ proc[p].pc = "publish"
    /\ \E r \in proc[p].todo :
         /\ IsCurrent(r, p)
         /\ acked' = acked \cup {r.id}
         /\ CountCall(p, r)
    /\ Goto(p, "delivered")
    /\ UNCHANGED <<rows, faults>>

PublishErr_StatusIgnored(p) ==
    /\ proc[p].pc = "publish"
    /\ \E r \in proc[p].todo :
         /\ IsCurrent(r, p)
         /\ CountCall(p, r)
    /\ Goto(p, "delivered")
    /\ UNCHANGED <<rows, acked, faults>>

\* The request fails or times out, or error_for_status rejects the answer.
PublishErr(p) ==
    /\ proc[p].pc = "publish"
    /\ \E r \in proc[p].todo :
         /\ IsCurrent(r, p)
         /\ CountCall(p, r)
    /\ Goto(p, "increment")
    /\ UNCHANGED <<rows, acked, faults>>

\* UPDATE ... WHERE status = 'PENDING'; NotFound only counts as a failure.
MarkDelivered(p) ==
    /\ proc[p].pc = "delivered"
    /\ \E r \in proc[p].todo :
         /\ IsCurrent(r, p)
         /\ rows' = IF rows[r.id].status = "PENDING"
                    THEN [rows EXCEPT ![r.id].status = "DELIVERED"] ELSE rows
         /\ NextRecord(p, r)
    /\ UNCHANGED <<acked, attempts, calls, faults>>

GiveUp_OffByOne(r) == r.attempt_count + 1 > MaxRetries

GiveUp_Early(r) == r.attempt_count + 2 >= MaxRetries

\* next_attempt >= max_retries, from the copy read at the poll.
GiveUp(r) == r.attempt_count + 1 >= MaxRetries

\* What follows the increment, whose result is ignored.
AfterIncrement(p, r) == IF GiveUp(r) THEN Goto(p, "fail") ELSE NextRecord(p, r)

Increment(p) ==
    /\ proc[p].pc = "increment"
    /\ \E r \in proc[p].todo :
         /\ IsCurrent(r, p)
         /\ rows' = [rows EXCEPT ![r.id].attempt_count = @ + 1]
         /\ AfterIncrement(p, r)
    /\ UNCHANGED <<acked, attempts, calls, faults>>

\* UPDATE ... without a condition on the status.
MarkFailed(p) ==
    /\ proc[p].pc = "fail"
    /\ \E r \in proc[p].todo :
         /\ IsCurrent(r, p)
         /\ rows' = [rows EXCEPT ![r.id].status = "FAILED"]
         /\ NextRecord(p, r)
    /\ UNCHANGED <<acked, attempts, calls, faults>>

\* A database error: mark_outbox_delivered reports it, the other two results
\* are ignored; in each case the loop goes on without the update.
LoseUpdate(p) ==
    /\ faults[p] < MaxFaults
    /\ faults' = [faults EXCEPT ![p] = @ + 1]
    /\ \E r \in proc[p].todo :
         /\ IsCurrent(r, p)
         /\ \/ proc[p].pc \in {"delivered", "fail"} /\ NextRecord(p, r)
            \/ proc[p].pc = "increment" /\ AfterIncrement(p, r)
    /\ UNCHANGED <<rows, acked, attempts, calls>>

\* The process dies and a new one starts polling.
Crash(p) ==
    /\ faults[p] < MaxFaults
    /\ faults' = [faults EXCEPT ![p] = @ + 1]
    /\ proc[p].pc # "poll"
    /\ proc' = [proc EXCEPT ![p] = Idle]
    /\ UNCHANGED <<rows, acked, attempts, calls>>

ProcessorStep(p) ==
    \/ Poll(p) \/ PublishOk(p) \/ PublishErr(p) \/ MarkDelivered(p)
    \/ Increment(p) \/ MarkFailed(p)

Next ==
    \/ \E o \in Record : Enqueue(o)
    \/ \E p \in Processor : ProcessorStep(p) \/ LoseUpdate(p) \/ Crash(p)

Spec == Init /\ [][Next]_vars

(***************************************************************************)
(* The processor task never blocks for good: the HTTP client has a timeout,   *)
(* and every statement and sleep returns.  Whether the sink accepts is open,  *)
(* and faults are finitely many.                                              *)
(***************************************************************************)
FairSpec == Spec /\ \A p \in Processor : WF_vars(ProcessorStep(p))

-----------------------------------------------------------------------------
(* Properties *)

CopyRecord == [id : Record, attempt_count : Nat]

\* Types of the table and of the processors; a processor that is not polling
\* has a record in hand.
TypeOK ==
    /\ rows \in [Record -> [status : Statuses, attempt_count : Nat]]
    /\ proc \in [Processor -> [pc : {"poll", "publish", "delivered", "increment", "fail"},
                               todo : SUBSET CopyRecord]]
    /\ acked \subseteq Record
    /\ attempts \in [Record -> Nat]
    /\ calls \in [Processor -> [Record -> Nat]]
    /\ faults \in [Processor -> 0..MaxFaults]
    /\ \A p \in Processor : proc[p].pc # "poll" => proc[p].todo # {}

\* DELIVERED is never claimed for an event the sink did not accept: "Successful
\* 2xx responses mark the row DELIVERED" (publish_one, mark_outbox_delivered).
DeliveredMeansAccepted ==
    \A o \in Record : rows[o].status = "DELIVERED" => o \in acked

\* No event is given up before outbox_max_retries publish calls were made for
\* it, although the decision is taken on a copy of attempt_count that other
\* processors, crashes and lost updates make stale (publish_one).
NotAbandonedEarly ==
    \A o \in Record : rows[o].status = "FAILED" => attempts[o] >= MaxRetries

\* The publish calls a processor is entitled to make for an event without a fault.
CallLimit == IF MaxRetries = 0 THEN 1 ELSE MaxRetries

\* Each processor makes at most outbox_max_retries publish calls for an event
\* (one if that is zero), and each crash or lost update it meets costs at most one
\* more, although it decides on a copy that others make stale (publish_one).
RetriesBounded ==
    \A p \in Processor : \A o \in Record : calls[p][o] <= CallLimit + faults[p]

\* A settled event stays settled: a processor with an old copy never makes it
\* PENDING again, nor DELIVERED once the operator has seen it FAILED
\* (mark_outbox_delivered and mark_outbox_failed).
SettledIsFinal ==
    [][\A o \in Record :
          /\ rows[o].status = "DELIVERED" => rows'[o].status \in {"DELIVERED", "FAILED"}
          /\ rows[o].status = "FAILED" => rows'[o].status = "FAILED"]_vars

\* Every committed event is delivered or given up, whatever the sink does and
\* whichever process dies: a rejected record at the head of the batch does not
\* keep the others from being tried.
EventuallySettled ==
    \A o \in Record :
        (rows[o].status = "PENDING") ~> (rows[o].status \in {"DELIVERED", "FAILED"})

\* "Successful 2xx responses mark the row DELIVERED" (README.md:167): once the
\* sink has accepted an event and no processor has it in hand, it is not FAILED.
SuccessRecorded ==
    \A o \in Record :
        (o \in acked /\ \A p \in Processor : \A r \in proc[p].todo : r.id # o)
            => rows[o].status # "FAILED"

-----------------------------------------------------------------------------
(* The inductive invariant behind DeliveredMeansAccepted and NotAbandonedEarly *)

\* Publish calls that failed and are not yet counted in the table.
Uncounted(o) ==
    {p \in Processor : proc[p].pc = "increment" /\ \E r \in proc[p].todo : IsCurrent(r, p) /\ r.id = o}

\* A copy may be stale, but only one way: the table has counted at least as much.
CopiesBehind ==
    \A p \in Processor : \A r \in proc[p].todo :
        r.attempt_count <= rows[r.id].attempt_count

\* Each count in the table and each failure still to be counted is a call made.
CallsCounted ==
    \A o \in Record : rows[o].attempt_count + Cardinality(Uncounted(o)) <= attempts[o]

AckInHand ==
    \A p \in Processor : \A r \in proc[p].todo :
        proc[p].pc = "delivered" /\ IsCurrent(r, p) => r.id \in acked

FailureInHand ==
    \A p \in Processor : \A r \in proc[p].todo :
        proc[p].pc = "fail" /\ IsCurrent(r, p) => attempts[r.id] >= MaxRetries

\* What a processor's decision rests on, however many processors, crashes and
\* lost updates interfere with its copy (publish_one).
OutboxInv ==
    /\ CopiesBehind /\ CallsCounted /\ AckInHand /\ FailureInHand
    /\ DeliveredMeansAccepted /\ NotAbandonedEarly

-----------------------------------------------------------------------------
(* The inductive invariant behind RetriesBounded, one processor at a time *)

\* The faultless calls that may precede a call made with attempt_count = n: from
\* the limit on there is one last call, whatever the others have counted.
Preceding(n) == IF n < CallLimit THEN n ELSE CallLimit - 1

Called(p, r) == proc[p].pc \in {"delivered", "increment", "fail"} /\ IsCurrent(r, p)

HasCopy(p, o) == \E r \in proc[p].todo : r.id = o

\* One copy of a record at most, and only of records in the table.
HandWellFormed(p) ==
    /\ proc[p].pc = "poll" => proc[p].todo = {}
    /\ \A r, s \in proc[p].todo : r.id = s.id => r = s
    /\ \A r \in proc[p].todo : rows[r.id].status # "absent"

CallsInHand(p) ==
    \A r \in proc[p].todo :
        calls[p][r.id] <= Preceding(r.attempt_count) + faults[p]
                            + (IF Called(p, r) THEN 1 ELSE 0)

\* A record p may read again has counted every call of p that met no fault.
CallsOfOpen(p) ==
    \A o \in Record :
        rows[o].status \in {"absent", "PENDING"} /\ ~HasCopy(p, o)
            => calls[p][o] <= Preceding(rows[o].attempt_count) + faults[p]

\* What limits the calls of a processor, with and without the record in hand
\* (publish_one).
RetriesInv ==
    \A p \in Processor :
        /\ HandWellFormed(p) /\ CallsInHand(p) /\ CallsOfOpen(p)
        /\ \A o \in Record : calls[p][o] <= CallLimit + faults[p]
====
