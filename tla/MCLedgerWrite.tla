--------------------------- MODULE MCLedgerWrite ---------------------------
(***************************************************************************)
(* Instances of LedgerWrite for TLC.  Calls are spread over two processes: a   *)
(* rolling update runs the old and the new one side by side.                   *)
(***************************************************************************)
EXTENDS LedgerWrite

CONSTANTS h1, h2, h3, p1, p2, bad

Handlers2 == {h1, h2}
Handlers3 == {h1, h2, h3}
TwoProcesses2 == [h \in Handlers2 |-> IF h = h1 THEN p1 ELSE p2]
TwoProcesses3 == [h \in Handlers3 |-> IF h = h3 THEN p2 ELSE p1]
BadBody == {bad}
Ids == 1..(MaxEntries + 1)
====
