----------------------------- MODULE MCReceipts -----------------------------
(***************************************************************************)
(* An instance of Receipts: one call writes, the other asks for receipts with *)
(* variants of the same request, one for each field that is compared, required*)
(* or optional.                                                              *)
(***************************************************************************)
EXTENDS Receipts

CONSTANTS w, i

Original ==
    [entry_type |-> "t1", agent_id |-> "x", content |-> "x", content_type |-> "x",
     source_id |-> "x", correlation_id |-> "", idempotency_key |-> "k", input_hash |-> "x",
     writer_signature |-> "x", signer_key_reference |-> "x", attestation_report |-> ""]

Other(v) == IF v = "x" THEN "" ELSE "x"

\* Every compared field changed, one at a time; "" is invalid where required.
Variants ==
    {[Original EXCEPT ![f] = Other(Original[f])] : f \in MatchedField \ RequiredField}
      \cup {[Original EXCEPT ![f] = "y"] : f \in MatchedField \cap RequiredField}

Writes == {Original, [Original EXCEPT !.idempotency_key = ""],
           [Original EXCEPT !.entry_type = "t2"]}

Issues == Variants \cup {Original, [Original EXCEPT !.agent_id = ""],
                         [Original EXCEPT !.content = "huge"],
                         [Original EXCEPT !.writer_signature = "tampered"]}

Texts == {"", "x", "y", "k", "t1", "t2", "huge", "tampered"}
OfferedByCall == [c \in {w, i} |-> IF c = w THEN Writes ELSE Issues]
EndpointOfCall == [c \in {w, i} |-> IF c = w THEN "WriteEntry" ELSE "IssueReceipt"]
====
