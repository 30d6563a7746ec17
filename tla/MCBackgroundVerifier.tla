------------------------ MODULE MCBackgroundVerifier ------------------------
(* Instances of BackgroundVerifier for TLC. *)
EXTENDS BackgroundVerifier
====
