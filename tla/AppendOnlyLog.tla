--------------------------- MODULE AppendOnlyLog ---------------------------
(***************************************************************************)
(* What the ledger promises its readers: one sequence of entries per entry   *)
(* type that only grows at its end, one entry at a time, and in which an     *)
(* idempotency key names at most one entry.                                  *)
(***************************************************************************)
EXTENDS Naturals, Sequences

CONSTANTS Chain, Key, NoKey, Body

VARIABLE log   \* [Chain -> Seq(LogEntry)]

LogEntry == [key : Key \cup {NoKey}, body : Body]

KeyIsFree(c, k) == k = NoKey \/ \A i \in DOMAIN log[c] : log[c][i].key # k

LogInit == log = [c \in Chain |-> <<>>]

AppendEntry(c, e) ==
    /\ KeyIsFree(c, e.key)
    /\ log' = [log EXCEPT ![c] = Append(@, e)]

LogNext == \E c \in Chain, e \in LogEntry : AppendEntry(c, e)

LogSpec == LogInit /\ [][LogNext]_log
====
