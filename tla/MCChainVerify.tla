--------------------------- MODULE MCChainVerify ---------------------------
(* Instances of ChainVerify for TLC. *)
EXTENDS ChainVerify
====
