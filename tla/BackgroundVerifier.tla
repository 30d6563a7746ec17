------------------------- MODULE BackgroundVerifier -------------------------
(***************************************************************************)
(* The online verifier (src/verifier.rs), the gauge and the shared status it  *)
(* publishes, and the readiness probe that reads them (src/main.rs).           *)
(*                                                                          *)
(* What verify_recent_chain makes of one chain is the subject of ChainVerify;   *)
(* here a chain is absent, sound, damaged within the window of recent entries,  *)
(* or damaged at an entry the window has moved past.                            *)
(***************************************************************************)
EXTENDS Integers, FiniteSets

CONSTANTS
    Chain,       \* entry types, numbered in their order
    MaxFaults    \* bound: failing database calls

ASSUME VerifierAssumption == Chain \subseteq Nat /\ MaxFaults \in Nat

VARIABLES
    chain,     \* [Chain -> state of the stored chain]
    pc,        \* "list", "verify", "gauge" or "status"
    todo,      \* entry types this pass has still to verify
    results,   \* chain_results of this pass: [entry_type, valid]
    gauge,     \* CHAIN_INTEGRITY_VALID
    status,    \* all_valid of the shared status, or "none" before the first pass
    listed,    \* history: chains that existed when the pass began
    passed,    \* history: the chains found valid by the last completed pass
    faults

vars == <<chain, pc, todo, results, gauge, status, listed, passed, faults>>

Existing == {c \in Chain : chain[c] # "absent"}

Init ==
    /\ chain = [c \in Chain |-> "absent"]
    /\ pc = "list" /\ todo = {} /\ results = {}
    /\ gauge = 0
    /\ status = "none"
    /\ listed = {} /\ passed = Chain
    /\ faults = 0

Store == <<chain>>
Verifier == <<pc, todo, results, gauge, status, listed, passed>>

\* The first append to a chain.
Create(c) ==
    /\ chain[c] = "absent"
    /\ chain' = [chain EXCEPT ![c] = "sound"]
    /\ UNCHANGED <<Verifier, faults>>

\* A recent row is damaged; later appends move the window past it.
Damage(c) ==
    /\ chain[c] = "sound"
    /\ chain' = [chain EXCEPT ![c] = "damaged"]
    /\ UNCHANGED <<Verifier, faults>>

Outgrow(c) ==
    /\ chain[c] = "damaged"
    /\ chain' = [chain EXCEPT ![c] = "outgrown"]
    /\ UNCHANGED <<Verifier, faults>>

StartPass_KeepsResults(types) ==
    /\ pc = "list"
    /\ listed' = Existing
    /\ todo' = types
    /\ pc' = IF types = {} THEN "gauge" ELSE "verify"
    /\ UNCHANGED <<Store, results, gauge, status, passed>>

\* get_distinct_entry_types starts a pass; a failing call yields no types and
\* so no results.
StartPass(types) ==
    /\ pc = "list"
    /\ listed' = Existing
    /\ todo' = types /\ results' = {}
    /\ pc' = IF types = {} THEN "gauge" ELSE "verify"
    /\ UNCHANGED <<Store, gauge, status, passed>>

ListTypes == StartPass(Existing) /\ UNCHANGED faults

ListFails ==
    /\ faults < MaxFaults
    /\ faults' = faults + 1
    /\ StartPass({})

\* verify_recent_chain of the next type in order; an error counts as invalid.
Record(valid) ==
    /\ pc = "verify"
    /\ \E c \in todo :
         /\ \A d \in todo : c <= d
         /\ results' = results \cup {[entry_type |-> c, valid |-> valid[c]]}
         /\ todo' = todo \ {c}
         /\ pc' = IF todo = {c} THEN "gauge" ELSE "verify"
    /\ UNCHANGED <<Store, gauge, status, listed, passed>>

VerifyNext_FirstOnly ==
    /\ pc = "verify"
    /\ \E c \in todo :
         /\ \A d \in todo : c <= d
         /\ results' = results \cup {[entry_type |-> c, valid |-> chain[c] # "damaged"]}
         /\ todo' = {} /\ pc' = "gauge"
    /\ UNCHANGED <<Store, gauge, status, listed, passed, faults>>

VerifyNext == Record([c \in Chain |-> chain[c] # "damaged"]) /\ UNCHANGED faults

VerifyFails ==
    /\ faults < MaxFaults
    /\ faults' = faults + 1
    /\ Record([c \in Chain |-> FALSE])

AllValid_Inverted == \E r \in results : r.valid

AllValid == \A r \in results : r.valid

\* The pass sets the gauge, then awaits the lock of the status.
SetGauge ==
    /\ pc = "gauge"
    /\ gauge' = IF AllValid THEN 1 ELSE 0
    /\ passed' = {r.entry_type : r \in {q \in results : q.valid}}
    /\ pc' = "status"
    /\ UNCHANGED <<Store, todo, results, status, listed, faults>>

SetStatus_OnlyFailures ==
    /\ pc = "status"
    /\ status' = IF AllValid THEN status ELSE "invalid"
    /\ pc' = "list"
    /\ UNCHANGED <<Store, todo, results, gauge, listed, passed, faults>>

SetStatus ==
    /\ pc = "status"
    /\ status' = IF AllValid THEN "valid" ELSE "invalid"
    /\ pc' = "list"
    /\ UNCHANGED <<Store, todo, results, gauge, listed, passed, faults>>

PassStep == ListTypes \/ VerifyNext \/ SetGauge \/ SetStatus

Next ==
    \/ \E c \in Chain : Create(c) \/ Damage(c) \/ Outgrow(c)
    \/ PassStep \/ ListFails \/ VerifyFails

Spec == Init /\ [][Next]_vars

\* The verifier task loops for ever; its calls return, and fail finitely often.
FairSpec == Spec /\ WF_vars(PassStep)

\* GET /readyz with the database up.
readyz == status # "invalid"

-----------------------------------------------------------------------------
(* Properties *)

\* Types; a pass has results for the types it is done with only.
TypeOK ==
    /\ chain \in [Chain -> {"absent", "sound", "damaged", "outgrown"}]
    /\ pc \in {"list", "verify", "gauge", "status"}
    /\ todo \subseteq listed /\ listed \subseteq Existing
    /\ results \subseteq [entry_type : listed \ todo, valid : BOOLEAN]
    /\ gauge \in {0, 1}
    /\ status \in {"none", "valid", "invalid"}
    /\ passed \subseteq Chain
    /\ faults \in 0..MaxFaults

\* The gauge and the readiness probe tell the same story, except while a pass
\* is between the two updates.
GaugeMatchesReadiness ==
    status # "none" /\ pc # "status" => (gauge = 1 <=> readyz)

\* As long as no database call has failed, the service is taken out of rotation
\* only for a chain that is or was damaged.
AlarmEarned ==
    faults = 0 /\ ~readyz => \E c \in Chain : chain[c] \in {"damaged", "outgrown"}

\* Damage within the window is reported by a later pass, unless the chain
\* outgrows the window first.
AlarmRaised ==
    \A c \in Chain : (chain[c] = "damaged") ~> (~readyz \/ chain[c] = "outgrown")

\* A readiness loss that only a failing database call has caused clears itself.
AlarmClears ==
    ~readyz ~> (readyz \/ \E c \in Chain : chain[c] = "damaged")

\* "1 if all chains passed last background verification" (src/metrics.rs:46):
\* the gauge shows 1 only if the last pass found every chain valid that existed
\* when it began.
GaugeEarned == pc = "status" /\ gauge = 1 => listed \subseteq passed
====
