---------------------------- MODULE ChainVerify ----------------------------
(***************************************************************************)
(* Verification of one chain: verify_chain, verify_recent_chain,             *)
(* verify_entry and verify_proof (src/service/mod.rs).  None of them runs in  *)
(* a transaction: each read sees the rows of its own moment, while appends     *)
(* continue and stored rows may be damaged.                                   *)
(*                                                                          *)
(* Appends are atomic here, as LedgerWrite shows them to be.  Damage changes   *)
(* one column of a row, removes a row, or rewrites a row below the tip         *)
(* together with its hash.                                                     *)
(***************************************************************************)
EXTENDS Integers, FiniteSets

CONSTANTS
    BatchSize,    \* BATCH_SIZE, 50 in verify_chain
    MaxEntries,   \* verify_max_entries_per_chain
    MaxLen,       \* bound: appended rows
    MaxDamage     \* bound: damaged rows

ASSUME VerifyAssumption ==
    /\ BatchSize \in Nat \ {0}
    /\ MaxEntries \in Nat \ {0}
    /\ MaxLen \in Nat \ {0}
    /\ MaxDamage \in Nat

VARIABLES
    rows,     \* the stored rows of the chain
    written,  \* history: the rows as they were appended
    ver       \* the verification call in progress, or its result

vars == <<rows, written, ver>>

V2 == "ARE_LEDGER_ENTRY_HASH_V2"
V3 == "ARE_LEDGER_ENTRY_HASH_V3"

Genesis == <<"ARE_LEDGER_GENESIS">>

None == <<>>             \* no hash under an unknown version
Garbage == <<"garbage">> \* a damaged hash

canonical_entry_hash_for_version_NoProof(e) ==
    CASE e.hash_version \in {V2, V3} ->
           <<e.hash_version, e.entry_id, e.body, e.chain_position, e.previous_hash>>
      [] OTHER -> None

\* SHA-256 as a free constructor over the columns a version binds.  V2 leaves
\* out the proof material: signature, key reference, attestation report.
canonical_entry_hash_for_version(e) ==
    CASE e.hash_version = V2 ->
           <<V2, e.entry_id, e.body, e.chain_position, e.previous_hash>>
      [] e.hash_version = V3 ->
           <<V3, e.entry_id, e.body, e.proof, e.chain_position, e.previous_hash>>
      [] OTHER -> None

HashValid(e) == canonical_entry_hash_for_version(e) = e.entry_hash

IsTip(e) == e \in rows /\ \A f \in rows : f.chain_position <= e.chain_position

\* get_entries_by_type_paged: the first rows above a position.
Paged(after, limit) ==
    {e \in rows : /\ e.chain_position > after
                  /\ Cardinality({f \in rows : /\ f.chain_position > after
                                               /\ f.chain_position < e.chain_position}) < limit}

-----------------------------------------------------------------------------
NoId == 0
ForeignId == -1          \* an entry of another entry_type
OpenEnd == MaxLen + 1    \* i64::MAX

\* A call: its operation and arguments, the locals of verify_chain, its outcome,
\* and, as history, the stored and the appended rows when it began.
NewCall(pc, op, startId, endId) ==
    [pc |-> pc, op |-> op, start_entry_id |-> startId, end_entry_id |-> endId,
     start |-> 1, end |-> OpenEnd, prev_hash |-> Genesis, after |-> 0, checked |-> 0,
     outcome |-> "none", before |-> rows, accepted |-> written]

NoCall == [NewCall("idle", "none", NoId, NoId) EXCEPT !.before = {}, !.accepted = {}]

Init ==
    /\ rows = {}
    /\ written = {}
    /\ ver = NoCall

NewRow(pos, prev, v) ==
    LET e == [entry_id |-> Cardinality(written) + 1, hash_version |-> v, body |-> "accepted", proof |-> "accepted",
              previous_hash |-> prev, chain_position |-> pos, entry_hash |-> None]
    IN  [e EXCEPT !.entry_hash = canonical_entry_hash_for_version(e)]

\* One append; rows written before migration 006 carry V2.
Append(v) ==
    LET Added(e) == rows' = rows \cup {e} /\ written' = written \cup {e}
    IN  /\ Cardinality(written) < MaxLen
        /\ v = V2 => \A e \in written : e.hash_version = V2
        /\ \/ rows = {} /\ Added(NewRow(1, Genesis, v))
           \/ \E t \in rows : IsTip(t) /\ Added(NewRow(t.chain_position + 1, t.entry_hash, v))
        /\ UNCHANGED ver

\* What can become of a stored row.
Damaged(e) ==
    {[e EXCEPT !.body = "damaged"], [e EXCEPT !.proof = "damaged"],
     [e EXCEPT !.entry_hash = Garbage], [e EXCEPT !.previous_hash = Garbage],
     [e EXCEPT !.hash_version = "unknown"]}

Rewritten(e) ==
    LET f == [e EXCEPT !.body = "damaged"]
    IN  [f EXCEPT !.entry_hash = canonical_entry_hash_for_version(f)]

Damage(e) ==
    /\ e \in rows \cap written
    /\ Cardinality(written \ rows) < MaxDamage
    /\ \/ \E f \in Damaged(e) : rows' = (rows \ {e}) \cup {f}
       \/ ~IsTip(e) /\ rows' = (rows \ {e}) \cup {Rewritten(e)}
       \/ rows' = rows \ {e}
    /\ UNCHANGED <<written, ver>>

-----------------------------------------------------------------------------
(* verify_chain and verify_recent_chain *)

Step == UNCHANGED <<rows, written>>

Idle == ver.pc = "idle"

Finish(outcome) == ver' = [ver EXCEPT !.pc = "done", !.outcome = outcome]

Ids == {NoId, ForeignId} \cup 1..MaxLen

VerifyChain(startId, endId) ==
    /\ Idle
    /\ ver' = NewCall("start", "chain", startId, endId)
    /\ Step

\* get_entry of an optional boundary: its position, or none and an error.
Boundary(id, default) ==
    IF id = NoId THEN {default} ELSE {e.chain_position : e \in {f \in rows : f.entry_id = id}}

BoundaryError(id) == IF id = ForeignId THEN "invalid_argument" ELSE "not_found"

ReadStart ==
    LET found == Boundary(ver.start_entry_id, 1)
    IN  /\ ver.pc = "start"
        /\ \/ found = {} /\ Finish(BoundaryError(ver.start_entry_id))
           \/ \E pos \in found : ver' = [ver EXCEPT !.pc = "end", !.start = pos, !.after = pos - 1]
        /\ Step

ReadEnd ==
    LET found == Boundary(ver.end_entry_id, OpenEnd)
    IN  /\ ver.pc = "end"
        /\ \/ found = {} /\ Finish(BoundaryError(ver.end_entry_id))
           \/ \E pos \in found :
                IF ver.start > pos THEN Finish("invalid_argument")
                ELSE ver' = [ver EXCEPT !.end = pos,
                                        !.pc = IF ver.start = 1 THEN "batch" ELSE "predecessor"]
        /\ Step

ReadPredecessor_OffByOne ==
    /\ ver.pc = "predecessor"
    /\ \/ Paged(ver.start - 1, 1) = {} /\ Finish("predecessor_not_found")
       \/ \E e \in Paged(ver.start - 1, 1) :
            ver' = [ver EXCEPT !.pc = "batch", !.prev_hash = e.entry_hash]
    /\ Step

\* The page above start - 2; when the predecessor is gone it holds a later row.
ReadPredecessor ==
    /\ ver.pc = "predecessor"
    /\ \/ Paged(ver.start - 2, 1) = {} /\ Finish("predecessor_not_found")
       \/ \E e \in Paged(ver.start - 2, 1) :
            ver' = [ver EXCEPT !.pc = "batch", !.prev_hash = e.entry_hash]
    /\ Step

\* The entry with the highest position.
Last(S) == CHOOSE e \in S : \A f \in S : f.chain_position <= e.chain_position

\* The hash an entry of the batch must carry as its previous_hash.
Expected(e, batch) ==
    LET below == {f \in batch : f.chain_position < e.chain_position}
    IN  IF below = {} THEN ver.prev_hash ELSE Last(below).entry_hash

Mismatch_NoLink(e, batch) == IF HashValid(e) THEN "no" ELSE "entry_hash_mismatch"

Mismatch(e, batch) ==
    CASE e.previous_hash # Expected(e, batch) -> "chain_link_mismatch"
      [] canonical_entry_hash_for_version(e) = None -> "unsupported_hash_version"
      [] ~HashValid(e) -> "entry_hash_mismatch"
      [] OTHER -> "no"

\* Entries at which the walk stops: past the end, or not as they should be.
Stops(e, batch) == e.chain_position > ver.end \/ Mismatch(e, batch) # "no"

LastPage_FullToo(batch) == Cardinality(batch) <= BatchSize

LastPage(batch) == Cardinality(batch) < BatchSize

\* The walk past entries that are as they should be.
Walked(good) ==
    IF good = {} THEN ver
    ELSE [ver EXCEPT !.checked = @ + Cardinality(good),
                     !.after = Last(good).chain_position,
                     !.prev_hash = Last(good).entry_hash]

\* One page: its entries up to the first at which the walk stops.
ReadBatch ==
    LET batch  == Paged(ver.after, BatchSize)
        stops  == {e \in batch : Stops(e, batch)}
        walked == Walked({e \in batch : \A f \in stops : e.chain_position < f.chain_position})
        Ends(outcome, n) ==
            ver' = [walked EXCEPT !.pc = "done", !.outcome = outcome, !.checked = @ + n]
    IN  /\ ver.pc = "batch"
        /\ \/ \E e \in stops :
                /\ \A f \in stops : e.chain_position <= f.chain_position
                /\ IF e.chain_position > ver.end THEN Ends("valid", 0)
                                                 ELSE Ends(Mismatch(e, batch), 1)
           \/ stops = {} /\ LastPage(batch) /\ Ends("valid", 0)
           \/ stops = {} /\ ~LastPage(batch) /\ ver' = walked
        /\ Step

VerifyRecentChain ==
    /\ Idle
    /\ ver' = NewCall("tip", "recent", NoId, NoId)
    /\ Step

WindowStart_NoFloor(tip) == tip - MaxEntries + 1

WindowStart(tip) == IF tip - MaxEntries + 1 > 1 THEN tip - MaxEntries + 1 ELSE 1

\* get_chain_tip fixes the end of the window.
ReadTip ==
    /\ ver.pc = "tip"
    /\ \/ rows = {} /\ ver' = [ver EXCEPT !.pc = "start"]
       \/ \E t \in rows :
            /\ IsTip(t)
            /\ ver' = [ver EXCEPT !.end_entry_id = t.entry_id,
                                  !.start = WindowStart(t.chain_position),
                                  !.pc = IF WindowStart(t.chain_position) = 1
                                         THEN "start" ELSE "window"]
    /\ Step

\* The entry at the start of the window, found by position.
ReadWindow ==
    /\ ver.pc = "window"
    /\ \/ Paged(ver.start - 1, 1) = {} /\ Finish("window_start_not_found")
       \/ \E e \in Paged(ver.start - 1, 1) :
            ver' = [ver EXCEPT !.pc = "start", !.start_entry_id = e.entry_id]
    /\ Step

-----------------------------------------------------------------------------
(* verify_entry and verify_proof *)

\* get_entry and the hash of the entry; checked is 1 when the hash is valid.
VerifyEntry(id) ==
    /\ Idle
    /\ \/ /\ \A e \in rows : e.entry_id # id
          /\ ver' = [NewCall("done", "entry", id, NoId) EXCEPT !.outcome = "not_found"]
       \/ \E e \in rows :
            LET c == [NewCall("link", "entry", id, NoId) EXCEPT
                        !.start = e.chain_position, !.prev_hash = e.previous_hash]
            IN  /\ e.entry_id = id
                /\ ver' = IF canonical_entry_hash_for_version(e) = None
                          THEN [c EXCEPT !.pc = "done", !.outcome = "unsupported_hash_version"]
                          ELSE [c EXCEPT !.checked = IF HashValid(e) THEN 1 ELSE 0]
    /\ Step

ReadLink ==
    LET linked == IF ver.start = 1 THEN ver.prev_hash = Genesis
                  ELSE \E f \in Paged(ver.start - 2, 1) : f.entry_hash = ver.prev_hash
    IN  /\ ver.pc = "link"
        /\ Finish(IF ver.checked = 0 THEN "entry_hash_mismatch"
                  ELSE IF linked THEN "valid" ELSE "chain_link_mismatch")
        /\ Step

\* get_entry_by_hash with the hash of a receipt issued for entry id.
VerifyProof(id) ==
    LET c == NewCall("done", "proof", id, NoId) IN
    /\ Idle
    /\ \E w \in written :
         /\ w.entry_id = id
         /\ \/ /\ \A e \in rows : e.entry_hash # w.entry_hash
               /\ ver' = [c EXCEPT !.outcome = "not_found"]
            \/ \E e \in rows :
                 /\ e.entry_hash = w.entry_hash
                 /\ ver' = [c EXCEPT !.outcome =
                              IF canonical_entry_hash_for_version(e) = None
                              THEN "unsupported_hash_version"
                              ELSE IF HashValid(e) THEN "valid" ELSE "entry_hash_mismatch"]
    /\ Step

\* A read fails: map_repo.
DbError ==
    /\ ver.pc \notin {"idle", "done"}
    /\ Finish("unavailable")
    /\ Step

\* The caller has its answer.
Return ==
    /\ ver.pc = "done"
    /\ ver' = NoCall
    /\ Step

-----------------------------------------------------------------------------
VerifierStep ==
    \/ ReadStart \/ ReadEnd \/ ReadPredecessor \/ ReadBatch \/ ReadTip \/ ReadWindow \/ ReadLink

Next ==
    \/ \E v \in {V2, V3} : Append(v)
    \/ \E e \in rows : Damage(e)
    \/ \E s, t \in Ids : VerifyChain(s, t)
    \/ VerifyRecentChain
    \/ \E id \in 1..MaxLen : VerifyEntry(id) \/ VerifyProof(id)
    \/ VerifierStep
    \/ DbError \/ Return

Spec == Init /\ [][Next]_vars

-----------------------------------------------------------------------------
(* Properties *)

IsRow(e) ==
    /\ e = [entry_id |-> e.entry_id, hash_version |-> e.hash_version, body |-> e.body,
            proof |-> e.proof, previous_hash |-> e.previous_hash,
            chain_position |-> e.chain_position, entry_hash |-> e.entry_hash]
    /\ e.entry_id \in 1..MaxLen /\ e.chain_position \in 1..MaxLen
    /\ e.hash_version \in {V2, V3, "unknown"}
    /\ e.body \in {"accepted", "damaged"} /\ e.proof \in {"accepted", "damaged"}

\* The verdicts of the API.
Outcomes == {"none", "valid", "chain_link_mismatch", "entry_hash_mismatch",
             "unsupported_hash_version", "predecessor_not_found", "window_start_not_found",
             "not_found", "invalid_argument", "unavailable"}

\* Types; a call walks positions of the chain only, and counts what it walked.
TypeOK ==
    /\ \A e \in rows \cup written : IsRow(e)
    /\ ver.outcome \in Outcomes
    /\ ver.start \in 1..MaxLen
    /\ ver.end \in 1..OpenEnd
    /\ ver.after \in 0..MaxLen
    /\ ver.checked \in 0..MaxLen

Done(ops) == ver.pc = "done" /\ ver.op \in ops

Walks == {"chain", "recent"}

\* When the call began the row was stored as appended, the proof material of a
\* V2 row apart, which its hash does not cover.
IntactAtStart(w) ==
    \E f \in ver.before : f = w \/ (w.hash_version = V2 /\ f = [w EXCEPT !.proof = f.proof])

\* The row was rewritten and hashed again before the call began.
Rehashed(w) == \E f \in ver.before : f.entry_id = w.entry_id /\ HashValid(f)

\* The end of the chain was removed, with the row or its successor, and another
\* row appended in its place.
Replaced(w) ==
    \E f, g \in written :
        /\ f # g /\ f.chain_position = g.chain_position
        /\ f.chain_position \in {w.chain_position, w.chain_position + 1}

\* Whatever verify_chain walked past was sound when the call began: a damaged,
\* rewritten or removed row within the range stops the walk at that row or the
\* next.  The end of the chain is vouched for by no successor: that its last row
\* was rewritten, or removed and replaced, shows nowhere.  And a walk may begin
\* behind rows that were removed under it, with their predecessor: then
\* entries_checked falls short of the range.
DamageReported ==
    Done(Walks) /\ ver.after - ver.start < ver.checked => \A w \in ver.accepted :
        (/\ ver.start <= w.chain_position
         /\ ~Replaced(w)
         /\ \/ w.chain_position < ver.after
            \/ w.chain_position = ver.after /\ ~Rehashed(w)) => IntactAtStart(w)

\* chain_valid covers the range that was asked for: no row between the bounds
\* that was there throughout is skipped at a page boundary or cut off by a
\* concurrent append; and unless rows were damaged under the call,
\* entries_checked counts the range without a gap, and the online window is as
\* long as configured.
RangeCovered ==
    Done(Walks) /\ ver.outcome = "valid" =>
        /\ \A e \in ver.before \cap rows :
              ver.start <= e.chain_position /\ e.chain_position <= ver.end
                  => e.chain_position <= ver.after
        /\ written \ rows = ver.accepted \ ver.before =>
              /\ ver.checked = ver.after - ver.start + 1
              /\ ver.op = "recent" /\ ver.end # OpenEnd => ver.start = WindowStart(ver.end)

\* An undamaged chain is never reported as damaged, whatever is appended between
\* the reads of a call, and every appended entry is found.
NoFalseAlarm ==
    rows = written =>
        /\ ver.outcome \in {"none", "valid", "not_found", "invalid_argument", "unavailable"}
        /\ ver.outcome = "not_found" =>
              \E id \in {ver.start_entry_id, ver.end_entry_id} :
                  id # NoId /\ \A w \in ver.accepted : w.entry_id # id

\* A positive answer of verify_entry or verify_proof is about the entry as it
\* was appended; verify_proof also sees through a rewrite, since it looks the
\* entry up by the hash on the receipt.
PointVerdict ==
    Done({"entry", "proof"}) /\ ver.outcome = "valid" =>
        \A w \in ver.accepted : w.entry_id = ver.start_entry_id =>
            IntactAtStart(w) \/ (ver.op = "entry" /\ Rehashed(w))

-----------------------------------------------------------------------------
(* The inductive invariants behind the properties *)

\* A hash that was computed for this id and this position.
HashOf(h, id, pos) ==
    \/ DOMAIN h = 1..5 /\ h = <<V2, id, h[3], pos, h[5]>>
    \/ DOMAIN h = 1..6 /\ h = <<V3, id, h[3], h[4], pos, h[6]>>

IsAppended(w) ==
    /\ w = [entry_id |-> w.entry_id, hash_version |-> w.hash_version, body |-> "accepted",
            proof |-> "accepted", previous_hash |-> w.previous_hash,
            chain_position |-> w.chain_position, entry_hash |-> w.entry_hash]
    /\ w.hash_version \in {V2, V3} /\ HashValid(w)
    /\ w.entry_id \in Nat /\ w.chain_position \in 1..w.entry_id
    /\ IF w.chain_position = 1 THEN w.previous_hash = Genesis
       ELSE \/ w.previous_hash = Garbage
            \/ /\ HashOf(w.previous_hash, w.previous_hash[2], w.chain_position - 1)
               /\ w.previous_hash[2] < w.entry_id

WrittenInv ==
    /\ IsFiniteSet(written) /\ Cardinality(written) <= MaxLen
    /\ \A w \in written : IsAppended(w) /\ w.entry_id <= Cardinality(written)
    /\ \A w, v \in written : w.entry_id = v.entry_id => w = v
    /\ \A w \in written : \A p \in 1..w.chain_position : \E v \in written : v.chain_position = p

\* What a stored row may have become of an appended one.
Version(r, w) == r = w \/ r \in Damaged(w) \/ r = Rewritten(w)

\* Rows of a table into which the rows of a history were appended.
Stored(S, W) ==
    /\ \A r \in S : \E w \in W : Version(r, w)
    /\ \A r, s \in S :
         r.entry_id = s.entry_id \/ r.chain_position = s.chain_position => r = s

\* A row appended behind a damaged hash, which stays.
GarbageInv ==
    \A w \in written : w.previous_hash = Garbage =>
        \E r \in rows : r.chain_position = w.chain_position - 1 /\ r.entry_hash = Garbage

\* A row is rewritten below the tip only: whoever links to the new hash came second.
RewriteInv ==
    \A w \in written :
        /\ Rewritten(w) \in rows => \E v \in written : v.chain_position = w.chain_position + 1
        /\ \A u \in written : u.previous_hash = Rewritten(w).entry_hash =>
             \E v \in written : v # u /\ v.chain_position = u.chain_position

CleanLinks ==
    rows = written => \A e \in rows : e.chain_position > 1 =>
        \E d \in rows : d.chain_position = e.chain_position - 1 /\ e.previous_hash = d.entry_hash

RowsInv ==
    /\ IsFiniteSet(rows)
    /\ WrittenInv /\ Stored(rows, written) /\ GarbageInv /\ RewriteInv /\ CleanLinks

\* Damage is done once and never undone.
HistoryInv ==
    /\ Stored(ver.before, ver.accepted) /\ ver.accepted \subseteq written
    /\ ver.before \ ver.accepted \subseteq rows
    /\ \A r \in rows, w \in ver.accepted :
         r.entry_id = w.entry_id => r \in ver.before \/ w \in ver.before

\* Rows were damaged under the call.
Disturbed == written \ rows # ver.accepted \ ver.before

\* The row read as the predecessor.
PredecessorInv ==
    \E r \in rows \cup written :
        /\ ver.prev_hash = r.entry_hash /\ r.chain_position >= ver.start - 1
        /\ r \in rows \/ Disturbed
        /\ r \in ver.accepted => r \in ver.before

WalkInv ==
    /\ ver.start - 1 <= ver.after /\ ver.start <= ver.end
    /\ ver.checked <= ver.after - ver.start + 1
    /\ IF ver.start <= ver.after THEN HashOf(ver.prev_hash, ver.prev_hash[2], ver.after)
       ELSE IF ver.start = 1 THEN ver.prev_hash = Genesis ELSE PredecessorInv

\* The locals of a call at each of its reads.
CallInv ==
    /\ ver = [pc |-> ver.pc, op |-> ver.op, start_entry_id |-> ver.start_entry_id,
              end_entry_id |-> ver.end_entry_id, start |-> ver.start, end |-> ver.end,
              prev_hash |-> ver.prev_hash, after |-> ver.after, checked |-> ver.checked,
              outcome |-> ver.outcome, before |-> ver.before, accepted |-> ver.accepted]
    /\ ver.start \in 1..MaxLen /\ ver.end \in 1..OpenEnd
    /\ ver.after \in 0..MaxLen /\ ver.checked \in 0..MaxLen
    /\ ver.outcome \in Outcomes /\ (ver.pc # "done" => ver.outcome = "none")
    /\ \/ ver.pc \in {"idle", "done"}
       \/ ver.pc = "link" /\ ver.op = "entry" /\ ver.checked <= 1
       \/ /\ ver.pc \in {"tip", "window", "start"} /\ ver.op \in Walks
          /\ ver.after = 0 /\ ver.checked = 0 /\ ver.prev_hash = Genesis /\ ver.end = OpenEnd
          /\ ver.pc = "window" => ver.start > 1
          /\ ver.op = "chain" => ver.pc = "start" /\ ver.start = 1
       \/ /\ ver.pc \in {"end", "predecessor"} /\ ver.op \in Walks
          /\ ver.after = ver.start - 1 /\ ver.checked = 0 /\ ver.prev_hash = Genesis
          /\ ver.pc = "end" => ver.end = OpenEnd
          /\ ver.pc = "predecessor" => ver.start > 1 /\ ver.start <= ver.end
       \/ ver.pc = "batch" /\ ver.op \in Walks /\ WalkInv

VerifyInv == RowsInv /\ HistoryInv /\ CallInv

\* The window of verify_recent_chain, while no row is damaged under it: it begins where
\* it should, or behind a gap, and then no row of it is accepted.
WindowInv(end) ==
    \/ ver.start = WindowStart(end)
    \/ /\ ver.start > WindowStart(end)
       /\ \E s \in rows : s.chain_position = ver.start
       /\ \A f \in rows : f.chain_position \notin WindowStart(end)..(ver.start - 1)
       /\ ver.pc = "batch" => ver.after < ver.start

RecentInv ==
    LET Ends(t) == t.entry_id = ver.end_entry_id IN
    \/ Disturbed \/ ver.op # "recent"
    \/ ver.pc \in {"idle", "done"}
    \/ ver.pc = "tip" /\ ver.start_entry_id = NoId /\ ver.end_entry_id = NoId
    \/ ver.pc = "window" /\ \E t \in rows : Ends(t) /\ ver.start = WindowStart(t.chain_position)
    \/ ver.pc = "start" /\ ver.start_entry_id = NoId /\ ver.end_entry_id = NoId
    \/ /\ ver.pc = "start"
       /\ \E t \in rows :
            /\ Ends(t) /\ ver.start = WindowStart(t.chain_position)
            /\ \/ ver.start_entry_id = NoId /\ ver.start = 1
               \/ \E e \in rows :
                    /\ e.entry_id = ver.start_entry_id /\ e.chain_position >= ver.start
                    /\ \A f \in rows : f.chain_position \notin ver.start..(e.chain_position - 1)
    \/ ver.pc = "end" /\ (ver.end_entry_id = NoId \/ \E t \in rows : Ends(t) /\ WindowInv(t.chain_position))
    \/ ver.pc \in {"predecessor", "batch"} /\ (ver.end = OpenEnd \/ WindowInv(ver.end))

RangeInv ==
    /\ RecentInv
    /\ ver.pc = "batch" /\ ~Disturbed => ver.checked = ver.after - ver.start + 1
    /\ RangeCovered

\* What the walk has passed, its last row apart.
SoundInv ==
    /\ ver.pc = "batch" /\ ver.after - ver.start <= ver.checked =>
         \A w \in ver.accepted :
             ver.start <= w.chain_position /\ w.chain_position <= ver.after /\ ~Replaced(w) =>
                 \/ IntactAtStart(w)
                 \/ /\ w.chain_position = ver.after /\ Rehashed(w)
                    /\ ver.prev_hash = Rewritten(w).entry_hash
    /\ DamageReported

RowAt(pos) == \E e \in rows : e.chain_position = pos

Known(id) == id = NoId \/ \E e \in rows : e.entry_id = id

\* The hash of the row at a position, or the genesis hash.
HashAt(h, pos) ==
    IF pos = 0 THEN h = Genesis ELSE \E e \in rows : e.chain_position = pos /\ h = e.entry_hash

\* What holds of a call while the chain is undamaged.
CleanCall ==
    /\ ver.pc \in {"window", "end", "predecessor"} => ver.start = 1 \/ RowAt(ver.start)
    /\ ver.pc \in {"tip", "window", "start", "end"} /\ ver.op = "recent" =>
         Known(ver.start_entry_id) /\ Known(ver.end_entry_id)
    /\ ver.pc = "batch" => HashAt(ver.prev_hash, ver.after)
    /\ ver.pc = "link" => ver.checked = 1 /\ HashAt(ver.prev_hash, ver.start - 1)
    /\ ver.outcome \in {"none", "valid", "not_found", "invalid_argument", "unavailable"}
    /\ ver.outcome = "not_found" =>
         \E id \in {ver.start_entry_id, ver.end_entry_id} :
             id # NoId /\ \A w \in ver.accepted : w.entry_id # id

CleanInv == rows = written => CleanCall

PointInv ==
    /\ ver.pc = "link" /\ ver.checked = 1 =>
         \E e \in ver.before : e.entry_id = ver.start_entry_id /\ HashValid(e)
    /\ PointVerdict
====
