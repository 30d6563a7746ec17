---------------------- MODULE BackgroundVerifierProofs ----------------------
(***************************************************************************)
(* Theorems about BackgroundVerifier, for every set of chains and every       *)
(* number of failing database calls.                                         *)
(***************************************************************************)
EXTENDS BackgroundVerifier, TLAPS

USE VerifierAssumption

\* The three changes of the store keep what the verifier has seen in existence.
LEMMA StoreStep ==
    ASSUME TypeOK, NEW c \in Chain, Create(c) \/ Damage(c) \/ Outgrow(c)
    PROVE  /\ chain' \in [Chain -> {"absent", "sound", "damaged", "outgrown"}]
           /\ Existing \subseteq Existing'
           /\ UNCHANGED <<pc, todo, results, gauge, status, listed, passed, faults>>
           /\ \A d \in Chain : chain[d] \in {"damaged", "outgrown"}
                                 => chain'[d] \in {"damaged", "outgrown"}
  BY DEF TypeOK, Create, Damage, Outgrow, Verifier, Existing

\* Types hold in every reachable state: a pass has results only for chains that
\* existed when it began and that it is done with (src/verifier.rs).
THEOREM VerifierTypeCorrect == Spec => []TypeOK
<1>1. Init => TypeOK
  BY DEF Init, TypeOK, Existing
<1>2. TypeOK /\ [Next]_vars => TypeOK'
  <2>. SUFFICES ASSUME TypeOK, [Next]_vars PROVE TypeOK'
    OBVIOUS
  <2>1. ASSUME NEW c \in Chain, Create(c) \/ Damage(c) \/ Outgrow(c) PROVE TypeOK'
    BY <2>1, StoreStep DEF TypeOK
  <2>2. ASSUME NEW types \in SUBSET Existing, StartPass(types), faults' \in 0..MaxFaults
        PROVE  TypeOK'
    BY <2>2 DEF StartPass, TypeOK, Store, Existing
  <2>3. ASSUME NEW valid \in [Chain -> BOOLEAN], Record(valid), faults' \in 0..MaxFaults
        PROVE  TypeOK'
    <3>1. PICK c \in todo :
            /\ results' = results \cup {[entry_type |-> c, valid |-> valid[c]]}
            /\ todo' = todo \ {c}
            /\ pc' = IF todo = {c} THEN "gauge" ELSE "verify"
      BY <2>3 DEF Record
    <3>2. c \in Chain /\ c \in listed \ todo'
      BY <3>1 DEF TypeOK, Existing
    <3>3. results' \subseteq [entry_type : listed \ todo', valid : BOOLEAN]
      BY <2>3, <3>1, <3>2 DEF TypeOK
    <3>. QED BY <2>3, <3>1, <3>3 DEF Record, TypeOK, Store, Existing
  <2>4. CASE ListTypes
    BY <2>2, <2>4 DEF ListTypes, TypeOK
  <2>5. CASE ListFails
    BY <2>2, <2>5 DEF ListFails, TypeOK
  <2>6. CASE VerifyNext
    BY <2>3, <2>6 DEF VerifyNext, TypeOK
  <2>7. CASE VerifyFails
    <3>1. [c \in Chain |-> FALSE] \in [Chain -> BOOLEAN]
      OBVIOUS
    <3>2. Record([c \in Chain |-> FALSE]) /\ faults' \in 0..MaxFaults
      BY <2>7 DEF VerifyFails, TypeOK
    <3>. QED BY <2>3, <3>1, <3>2
  <2>8. CASE SetGauge
    BY <2>8 DEF SetGauge, TypeOK, Store, Existing
  <2>9. CASE SetStatus
    BY <2>9 DEF SetStatus, TypeOK, Store, Existing
  <2>10. CASE UNCHANGED vars
    BY <2>10 DEF vars, TypeOK, Existing
  <2>. QED
    BY <2>1, <2>4, <2>5, <2>6, <2>7, <2>8, <2>9, <2>10 DEF Next, PassStep
<1>. QED BY <1>1, <1>2, PTL DEF Spec

-----------------------------------------------------------------------------
(* Gauge and probe *)

\* Between its two updates a pass has set the gauge from the results it still has.
GaugeInv ==
    /\ pc = "status" => (gauge = 1 <=> AllValid)
    /\ GaugeMatchesReadiness

\* The gauge and the readiness probe agree in every state outside the gap between
\* their updates, whatever fails and whatever the chains do meanwhile.
THEOREM GaugeAndProbeAgree == Spec => []GaugeMatchesReadiness
<1>1. Init => GaugeInv
  BY DEF Init, GaugeInv, GaugeMatchesReadiness
<1>2. TypeOK /\ GaugeInv /\ [Next]_vars => GaugeInv'
  <2>. SUFFICES ASSUME TypeOK, GaugeInv, [Next]_vars PROVE GaugeInv'
    OBVIOUS
  <2>1. ASSUME UNCHANGED <<pc, results, gauge, status>> PROVE GaugeInv'
    BY <2>1 DEF GaugeInv, GaugeMatchesReadiness, readyz, AllValid
  <2>2. ASSUME UNCHANGED <<gauge, status>>, pc # "status", pc' # "status" PROVE GaugeInv'
    BY <2>2 DEF GaugeInv, GaugeMatchesReadiness, readyz
  <2>3. CASE SetGauge
    BY <2>3 DEF SetGauge, GaugeInv, GaugeMatchesReadiness, AllValid
  <2>4. CASE SetStatus
    BY <2>4 DEF SetStatus, GaugeInv, GaugeMatchesReadiness, readyz, TypeOK
  <2>5. CASE \E c \in Chain : Create(c) \/ Damage(c) \/ Outgrow(c)
    BY <2>1, <2>5, StoreStep
  <2>6. CASE ListTypes \/ ListFails
    BY <2>2, <2>6 DEF ListTypes, ListFails, StartPass
  <2>7. CASE VerifyNext \/ VerifyFails
    BY <2>2, <2>7 DEF VerifyNext, VerifyFails, Record
  <2>8. CASE UNCHANGED vars
    BY <2>1, <2>8 DEF vars
  <2>. QED BY <2>3, <2>4, <2>5, <2>6, <2>7, <2>8 DEF Next, PassStep
<1>3. GaugeInv => GaugeMatchesReadiness
  BY DEF GaugeInv
<1>. QED BY <1>1, <1>2, <1>3, VerifierTypeCorrect, PTL DEF Spec

-----------------------------------------------------------------------------
(* Alarms *)

\* As long as no call has failed, each bad result is a chain that is or was damaged.
AlarmInv ==
    /\ faults = 0 => \A r \in results :
                        ~r.valid => chain[r.entry_type] \in {"damaged", "outgrown"}
    /\ AlarmEarned

\* Without a failing database call, readiness is lost only for a chain that is or
\* was damaged, however long ago the pass read it.
THEOREM AlarmsEarned == Spec => []AlarmEarned
<1>1. Init => AlarmInv
  BY DEF Init, AlarmInv, AlarmEarned, readyz
<1>2. TypeOK /\ AlarmInv /\ [Next]_vars => AlarmInv'
  <2>. SUFFICES ASSUME TypeOK, AlarmInv, [Next]_vars PROVE AlarmInv'
    OBVIOUS
  <2>1. CASE \E c \in Chain : Create(c) \/ Damage(c) \/ Outgrow(c)
    <3>1. \A r \in results : r.entry_type \in Chain
      BY DEF TypeOK, Existing
    <3>. QED BY <2>1, <3>1, StoreStep DEF AlarmInv, AlarmEarned, readyz
  <2>2. CASE ListTypes
    BY <2>2 DEF ListTypes, StartPass, Store, AlarmInv, AlarmEarned, readyz
  <2>3. CASE ListFails \/ VerifyFails
    <3>1. faults' # 0
      BY <2>3 DEF ListFails, VerifyFails, TypeOK
    <3>. QED BY <3>1 DEF AlarmInv, AlarmEarned
  <2>4. CASE VerifyNext
    <3>1. PICK c \in todo : results' = results \cup {[entry_type |-> c, valid |-> chain[c] # "damaged"]}
      BY <2>4 DEF VerifyNext, Record, TypeOK, Existing
    <3>2. \A r \in results' :
            r \in results \/ (r.entry_type = c /\ (r.valid <=> chain[c] # "damaged"))
      <4>1. PICK b : b = (chain[c] # "damaged")
        OBVIOUS
      <4>2. results' = results \cup {[entry_type |-> c, valid |-> b]}
        BY <3>1, <4>1
      <4>3. \A r \in results' : r \in results \/ (r.entry_type = c /\ r.valid = b)
        BY <4>2
      <4>. QED BY <4>1, <4>3
    <3>3. UNCHANGED <<chain, status, faults>>
      BY <2>4 DEF VerifyNext, Record, Store
    <3>. QED BY <3>2, <3>3 DEF AlarmInv, AlarmEarned, readyz
  <2>5. CASE SetGauge
    BY <2>5 DEF SetGauge, Store, AlarmInv, AlarmEarned, readyz
  <2>6. CASE SetStatus
    <3>1. \A r \in results : r.entry_type \in Chain
      BY DEF TypeOK, Existing
    <3>. QED BY <2>6, <3>1 DEF SetStatus, Store, AlarmInv, AlarmEarned, readyz, AllValid
  <2>7. CASE UNCHANGED vars
    BY <2>7 DEF vars, AlarmInv, AlarmEarned, readyz
  <2>. QED BY <2>1, <2>2, <2>3, <2>4, <2>5, <2>6, <2>7 DEF Next, PassStep
<1>3. AlarmInv => AlarmEarned
  BY DEF AlarmInv
<1>. QED BY <1>1, <1>2, <1>3, VerifierTypeCorrect, PTL DEF Spec
====
