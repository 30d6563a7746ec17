------------------------------ MODULE MCOutbox ------------------------------
(* Instances of Outbox for TLC: the two processors of a rolling update. *)
EXTENDS Outbox
====
