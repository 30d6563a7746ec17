------------------------- MODULE ChainVerifyProofs --------------------------
(***************************************************************************)
(* Proofs about ChainVerify, for any chain length, page size, window and      *)
(* number of damaged rows: what a verdict of verify_chain,                    *)
(* verify_recent_chain, verify_entry or verify_proof is worth.                *)
(***************************************************************************)
EXTENDS ChainVerify, FiniteSetTheorems, FunctionTheorems, WellFoundedInduction, TLAPS

(* Numbers and finite sets *)

\* A set of naturals has a least element.
LEMMA LeastNatural ==
    ASSUME NEW T, T \subseteq Nat, T # {}
    PROVE  \E m \in T : \A k \in T : m <= k
<1>1. PICK R : R = OpToRel(<, Nat)
  OBVIOUS
<1>2. IsWellFoundedOn(R, Nat)
  BY <1>1, NatLessThanWellFounded
<1>3. PICK m \in T : \A k \in T : <<k, m>> \notin R
  BY <1>2, WFMin
<1>4. \A k, l \in Nat : k < l => <<k, l>> \in R
  BY <1>1 DEF OpToRel
<1>5. \A k \in T : ~(k < m)
  BY <1>3, <1>4
<1>6. m \in Nat /\ \A k \in T : k \in Nat
  OBVIOUS
<1>7. \A k \in T : m <= k
  BY <1>5, <1>6
<1>. QED BY <1>7

-----------------------------------------------------------------------------
(* Hashes *)

\* A hash tells the id and the position it was computed for, and is none of the constants.
LEMMA HashTells ==
    ASSUME NEW h, NEW id, NEW pos, HashOf(h, id, pos)
    PROVE  /\ h \notin {None, Genesis, Garbage}
           /\ \A i, p : HashOf(h, i, p) => i = id /\ p = pos
           /\ h[2] = id
<1>1. V2 # V3
  BY DEF V2, V3
<1>2. /\ 5 \in DOMAIN h /\ 2 \in DOMAIN h
      /\ DOMAIN None = 1..0 /\ DOMAIN Genesis = 1..1 /\ DOMAIN Garbage = 1..1
  BY DEF HashOf, None, Genesis, Garbage
<1>3. h \notin {None, Genesis, Garbage}
  BY <1>2
<1>4. CASE DOMAIN h = 1..5 /\ h = <<V2, id, h[3], pos, h[5]>>
  <2>1. h[1] = V2 /\ h[2] = id /\ h[4] = pos
    BY <1>4
  <2>2. ASSUME NEW i, NEW p, HashOf(h, i, p) PROVE i = id /\ p = pos
    <3>1. 6 \notin DOMAIN h /\ 6 \in 1..6
      BY <1>4
    <3>2. h = <<V2, i, h[3], p, h[5]>>
      BY <2>2, <3>1 DEF HashOf
    <3>3. h[2] = i /\ h[4] = p
      BY <3>2
    <3>. QED BY <2>1, <3>3
  <2>. QED BY <1>3, <2>1, <2>2
<1>5. CASE DOMAIN h = 1..6 /\ h = <<V3, id, h[3], h[4], pos, h[6]>>
  <2>1. h[1] = V3 /\ h[2] = id /\ h[5] = pos
    BY <1>5
  <2>2. ASSUME NEW i, NEW p, HashOf(h, i, p) PROVE i = id /\ p = pos
    <3>1. 6 \in DOMAIN h /\ 6 \notin 1..5
      BY <1>5
    <3>2. h = <<V3, i, h[3], h[4], p, h[6]>>
      BY <2>2, <3>1 DEF HashOf
    <3>3. h[2] = i /\ h[5] = p
      BY <3>2
    <3>. QED BY <2>1, <3>3
  <2>. QED BY <1>3, <2>1, <2>2
<1>. QED BY <1>4, <1>5 DEF HashOf

\* The constants are told apart.
LEMMA ConstantsDiffer ==
    Genesis # Garbage /\ None # Garbage /\ None # Genesis
<1>1. Genesis[1] = "ARE_LEDGER_GENESIS" /\ Garbage[1] = "garbage"
  BY DEF Genesis, Garbage
<1>2. DOMAIN None = 1..0 /\ DOMAIN Genesis = 1..1 /\ DOMAIN Garbage = 1..1
  BY DEF None, Genesis, Garbage
<1>3. 1 \in 1..1 /\ 1 \notin 1..0
  OBVIOUS
<1>. QED BY <1>1, <1>2, <1>3

\* The hash of a row of a known version is of its id and position, and binds its columns.
LEMMA CanonicalIs ==
    ASSUME NEW e, e.hash_version \in {V2, V3}
    PROVE  LET h == canonical_entry_hash_for_version(e) IN
           /\ HashOf(h, e.entry_id, e.chain_position)
           /\ h[1] = e.hash_version /\ h[3] = e.body
           /\ e.hash_version = V2 => h = <<V2, e.entry_id, e.body, e.chain_position, e.previous_hash>>
           /\ e.hash_version = V3 =>
                h = <<V3, e.entry_id, e.body, e.proof, e.chain_position, e.previous_hash>>
<1>1. V2 # V3
  BY DEF V2, V3
<1>2. PICK h : h = canonical_entry_hash_for_version(e)
  OBVIOUS
<1>3. CASE e.hash_version = V2
  <2>1. h = <<V2, e.entry_id, e.body, e.chain_position, e.previous_hash>>
    BY <1>1, <1>2, <1>3 DEF canonical_entry_hash_for_version
  <2>2. DOMAIN h = 1..5 /\ h[3] = e.body /\ h[5] = e.previous_hash /\ h[1] = V2
    BY <2>1
  <2>. QED BY <1>1, <1>2, <1>3, <2>1, <2>2 DEF HashOf
<1>4. CASE e.hash_version = V3
  <2>1. h = <<V3, e.entry_id, e.body, e.proof, e.chain_position, e.previous_hash>>
    BY <1>1, <1>2, <1>4 DEF canonical_entry_hash_for_version
  <2>2. DOMAIN h = 1..6 /\ h[3] = e.body /\ h[4] = e.proof /\ h[6] = e.previous_hash /\ h[1] = V3
    BY <2>1
  <2>. QED BY <1>1, <1>2, <1>4, <2>1, <2>2 DEF HashOf
<1>. QED BY <1>3, <1>4

\* Two rows of known versions with the same hash agree on every column it binds.
LEMMA SameHash ==
    ASSUME NEW e, NEW f, e.hash_version \in {V2, V3}, f.hash_version \in {V2, V3},
           canonical_entry_hash_for_version(e) = canonical_entry_hash_for_version(f)
    PROVE  /\ e.hash_version = f.hash_version /\ e.entry_id = f.entry_id /\ e.body = f.body
           /\ e.chain_position = f.chain_position /\ e.previous_hash = f.previous_hash
           /\ e.hash_version = V3 => e.proof = f.proof
<1>1. PICK h : h = canonical_entry_hash_for_version(e) /\ h = canonical_entry_hash_for_version(f)
  OBVIOUS
<1>2. e.hash_version = h[1] /\ f.hash_version = h[1]
  BY <1>1, CanonicalIs
<1>3. CASE e.hash_version = V2
  <2>1. h = <<V2, e.entry_id, e.body, e.chain_position, e.previous_hash>>
    BY <1>1, <1>3, CanonicalIs
  <2>2. h = <<V2, f.entry_id, f.body, f.chain_position, f.previous_hash>>
    BY <1>1, <1>2, <1>3, CanonicalIs
  <2>. QED BY <1>2, <1>3, <2>1, <2>2 DEF V2, V3
<1>4. CASE e.hash_version = V3
  <2>1. h = <<V3, e.entry_id, e.body, e.proof, e.chain_position, e.previous_hash>>
    BY <1>1, <1>4, CanonicalIs
  <2>2. h = <<V3, f.entry_id, f.body, f.proof, f.chain_position, f.previous_hash>>
    BY <1>1, <1>2, <1>4, CanonicalIs
  <2>. QED BY <1>2, <1>4, <2>1, <2>2
<1>. QED BY <1>3, <1>4

-----------------------------------------------------------------------------
(* Versions of a row *)

\* A stored row keeps id and position, and its hash is damaged or of both; when its hash
\* recomputes, it is as appended but for proof material under V2, or it was rewritten.
LEMMA VersionIs ==
    ASSUME NEW w, IsAppended(w), NEW r, Version(r, w)
    PROVE  /\ r.entry_id = w.entry_id /\ r.chain_position = w.chain_position
           /\ r = [entry_id |-> r.entry_id, hash_version |-> r.hash_version, body |-> r.body,
                   proof |-> r.proof, previous_hash |-> r.previous_hash,
                   chain_position |-> r.chain_position, entry_hash |-> r.entry_hash]
           /\ r.hash_version \in {V2, V3, "unknown"} /\ r.body \in {"accepted", "damaged"}
           /\ r.proof \in {"accepted", "damaged"}
           /\ r.entry_hash = Garbage \/ HashOf(r.entry_hash, r.entry_id, r.chain_position)
           /\ HashValid(r) => /\ r.hash_version = w.hash_version
                              /\ r.previous_hash = w.previous_hash
                              /\ HashOf(r.entry_hash, r.entry_id, r.chain_position)
                              /\ \/ r = w
                                 \/ w.hash_version = V2 /\ r = [w EXCEPT !.proof = r.proof]
                                 \/ r = Rewritten(w)
<1>1. /\ w = [entry_id |-> w.entry_id, hash_version |-> w.hash_version, body |-> "accepted",
              proof |-> "accepted", previous_hash |-> w.previous_hash,
              chain_position |-> w.chain_position, entry_hash |-> w.entry_hash]
      /\ w.hash_version \in {V2, V3} /\ canonical_entry_hash_for_version(w) = w.entry_hash
      /\ w.body = "accepted" /\ w.proof = "accepted"
  BY DEF IsAppended, HashValid
<1>2. HashOf(w.entry_hash, w.entry_id, w.chain_position) /\ w.entry_hash # Garbage /\ w.entry_hash # None
  BY <1>1, CanonicalIs, HashTells
<1>3. CASE r = w
  BY <1>1, <1>2, <1>3
<1>4. CASE r = [w EXCEPT !.body = "damaged"]
  <2>1. r = [entry_id |-> w.entry_id, hash_version |-> w.hash_version, body |-> "damaged",
             proof |-> "accepted", previous_hash |-> w.previous_hash,
             chain_position |-> w.chain_position, entry_hash |-> w.entry_hash]
    BY <1>1, <1>4
  <2>2. r.hash_version \in {V2, V3} /\ r.body # w.body /\ r.entry_hash = w.entry_hash
    BY <1>1, <2>1
  <2>3. ~HashValid(r)
    BY <1>1, <2>2, SameHash DEF HashValid
  <2>. QED BY <1>1, <1>2, <2>1, <2>3
<1>5. CASE r = [w EXCEPT !.proof = "damaged"]
  <2>1. r = [entry_id |-> w.entry_id, hash_version |-> w.hash_version, body |-> "accepted",
             proof |-> "damaged", previous_hash |-> w.previous_hash,
             chain_position |-> w.chain_position, entry_hash |-> w.entry_hash]
    BY <1>1, <1>5
  <2>2. r.hash_version \in {V2, V3} /\ r.proof # w.proof /\ r.entry_hash = w.entry_hash /\ r.proof = "damaged"
    BY <1>1, <2>1
  <2>3. HashValid(r) => w.hash_version = V2
    BY <1>1, <2>2, SameHash DEF HashValid
  <2>. QED BY <1>1, <1>2, <1>5, <2>1, <2>2, <2>3
<1>6. CASE r = [w EXCEPT !.entry_hash = Garbage]
  <2>1. r = [entry_id |-> w.entry_id, hash_version |-> w.hash_version, body |-> "accepted",
             proof |-> "accepted", previous_hash |-> w.previous_hash,
             chain_position |-> w.chain_position, entry_hash |-> Garbage]
    BY <1>1, <1>6
  <2>2. r.hash_version \in {V2, V3} /\ r.entry_hash = Garbage
    BY <1>1, <2>1
  <2>3. ~HashValid(r)
    BY <2>2, CanonicalIs, HashTells DEF HashValid
  <2>. QED BY <1>1, <1>2, <2>1, <2>3
<1>7. CASE r = [w EXCEPT !.previous_hash = Garbage]
  <2>1. r = [entry_id |-> w.entry_id, hash_version |-> w.hash_version, body |-> "accepted",
             proof |-> "accepted", previous_hash |-> Garbage,
             chain_position |-> w.chain_position, entry_hash |-> w.entry_hash]
    BY <1>1, <1>7
  <2>2. r.hash_version \in {V2, V3} /\ r.previous_hash = Garbage /\ r.entry_hash = w.entry_hash
    BY <1>1, <2>1
  <2>3. HashValid(r) => w.previous_hash = Garbage
    BY <1>1, <2>2, SameHash DEF HashValid
  <2>4. HashValid(r) => r = w
    BY <1>1, <2>1, <2>3
  <2>. QED BY <1>1, <1>2, <2>1, <2>4
<1>8. CASE r = [w EXCEPT !.hash_version = "unknown"]
  <2>1. r = [entry_id |-> w.entry_id, hash_version |-> "unknown", body |-> "accepted",
             proof |-> "accepted", previous_hash |-> w.previous_hash,
             chain_position |-> w.chain_position, entry_hash |-> w.entry_hash]
    BY <1>1, <1>8
  <2>2. r.hash_version = "unknown" /\ r.entry_hash = w.entry_hash
    BY <2>1
  <2>3. canonical_entry_hash_for_version(r) = None
    BY <2>2 DEF canonical_entry_hash_for_version, V2, V3
  <2>4. ~HashValid(r)
    BY <1>2, <2>2, <2>3 DEF HashValid
  <2>. QED BY <1>1, <1>2, <2>1, <2>4
<1>9. CASE r = Rewritten(w)
  <2>1. PICK f : f = [w EXCEPT !.body = "damaged"]
    OBVIOUS
  <2>2. f = [entry_id |-> w.entry_id, hash_version |-> w.hash_version, body |-> "damaged",
             proof |-> "accepted", previous_hash |-> w.previous_hash,
             chain_position |-> w.chain_position, entry_hash |-> w.entry_hash]
    BY <1>1, <2>1
  <2>3. PICK h : h = canonical_entry_hash_for_version(f)
    OBVIOUS
  <2>4. r = [f EXCEPT !.entry_hash = h]
    BY <1>9, <2>1, <2>3 DEF Rewritten
  <2>5. r = [entry_id |-> w.entry_id, hash_version |-> w.hash_version, body |-> "damaged",
             proof |-> "accepted", previous_hash |-> w.previous_hash,
             chain_position |-> w.chain_position, entry_hash |-> h]
    BY <2>2, <2>4
  <2>6. HashOf(h, w.entry_id, w.chain_position)
    <3>1. f.hash_version \in {V2, V3} /\ f.entry_id = w.entry_id /\ f.chain_position = w.chain_position
      BY <1>1, <2>2
    <3>. QED BY <2>3, <3>1, CanonicalIs
  <2>. QED BY <1>1, <1>9, <2>5, <2>6
<1>. QED BY <1>3, <1>4, <1>5, <1>6, <1>7, <1>8, <1>9 DEF Version, Damaged

\* A rewritten row has another body, and a hash that recomputes to it.
LEMMA RewrittenIs ==
    ASSUME NEW w, IsAppended(w)
    PROVE  /\ HashValid(Rewritten(w)) /\ Rewritten(w).body = "damaged" /\ Rewritten(w) # w
           /\ Rewritten(w).hash_version \in {V2, V3} /\ Rewritten(w).entry_id = w.entry_id
           /\ Rewritten(w).entry_hash # Garbage
<1>1. /\ w = [entry_id |-> w.entry_id, hash_version |-> w.hash_version, body |-> "accepted",
              proof |-> "accepted", previous_hash |-> w.previous_hash,
              chain_position |-> w.chain_position, entry_hash |-> w.entry_hash]
      /\ w.hash_version \in {V2, V3} /\ w.body = "accepted"
  BY DEF IsAppended
<1>2. PICK f, h, r : /\ f = [w EXCEPT !.body = "damaged"] /\ h = canonical_entry_hash_for_version(f)
                     /\ r = Rewritten(w)
  OBVIOUS
<1>3. r = [f EXCEPT !.entry_hash = h]
  BY <1>2 DEF Rewritten
<1>4. f = [entry_id |-> w.entry_id, hash_version |-> w.hash_version, body |-> "damaged",
           proof |-> "accepted", previous_hash |-> w.previous_hash,
           chain_position |-> w.chain_position, entry_hash |-> w.entry_hash]
  BY <1>1, <1>2
<1>5. r = [entry_id |-> w.entry_id, hash_version |-> w.hash_version, body |-> "damaged",
           proof |-> "accepted", previous_hash |-> w.previous_hash,
           chain_position |-> w.chain_position, entry_hash |-> h]
  BY <1>3, <1>4
<1>6. /\ r.hash_version = f.hash_version /\ r.entry_id = f.entry_id /\ r.body = f.body
      /\ r.proof = f.proof /\ r.chain_position = f.chain_position
      /\ r.previous_hash = f.previous_hash /\ r.entry_hash = h
  BY <1>4, <1>5
<1>7. canonical_entry_hash_for_version(r) = canonical_entry_hash_for_version(f)
  BY <1>6 DEF canonical_entry_hash_for_version
<1>8. HashValid(r)
  BY <1>2, <1>6, <1>7 DEF HashValid
<1>9. h # Garbage
  <2>1. f.hash_version \in {V2, V3}
    BY <1>1, <1>4
  <2>2. HashOf(canonical_entry_hash_for_version(f), f.entry_id, f.chain_position)
    BY <2>1, CanonicalIs
  <2>. QED BY <1>2, <2>2, HashTells
<1>. QED BY <1>1, <1>2, <1>5, <1>8, <1>9

\* Damage to one column leaves the hash or replaces it by one of nothing; a rewrite gives
\* the row a new one.
LEMMA DamagedHash ==
    ASSUME NEW w, IsAppended(w)
    PROVE  /\ \A f \in Damaged(w) : f.entry_hash \in {w.entry_hash, Garbage}
           /\ Rewritten(w).entry_hash \notin {w.entry_hash, Garbage}
           /\ Rewritten(w) \notin Damaged(w)
<1>1. /\ w = [entry_id |-> w.entry_id, hash_version |-> w.hash_version, body |-> "accepted",
              proof |-> "accepted", previous_hash |-> w.previous_hash,
              chain_position |-> w.chain_position, entry_hash |-> w.entry_hash]
      /\ w.hash_version \in {V2, V3} /\ HashValid(w) /\ w.body = "accepted"
  BY DEF IsAppended
<1>2. \A f \in Damaged(w) : f.entry_hash \in {w.entry_hash, Garbage}
  BY <1>1 DEF Damaged
<1>3. PICK r : r = Rewritten(w)
  OBVIOUS
<1>4. r.body = "damaged" /\ r.hash_version \in {V2, V3} /\ HashValid(r) /\ r.entry_hash # Garbage
  BY <1>3, RewrittenIs
<1>5. r.entry_hash # w.entry_hash
  BY <1>1, <1>4, SameHash DEF HashValid
<1>. QED BY <1>2, <1>3, <1>4, <1>5

\* Facts of an appended row.
LEMMA WrittenIs ==
    ASSUME WrittenInv, NEW w \in written
    PROVE  /\ IsAppended(w) /\ IsRow(w) /\ Cardinality(written) \in Nat
           /\ w.chain_position <= w.entry_id /\ w.entry_id <= Cardinality(written)
           /\ HashOf(w.entry_hash, w.entry_id, w.chain_position) /\ w.entry_hash # Garbage
<1>1. IsAppended(w) /\ Cardinality(written) \in Nat /\ Cardinality(written) <= MaxLen
  BY FS_CardinalityType DEF WrittenInv
<1>2. Version(w, w)
  BY DEF Version
<1>3. /\ w.hash_version \in {V2, V3} /\ HashValid(w) /\ w.entry_id \in 1..Cardinality(written)
      /\ w.chain_position \in 1..w.entry_id
  BY <1>1 DEF IsAppended, WrittenInv
<1>4. HashOf(w.entry_hash, w.entry_id, w.chain_position)
  BY <1>1, <1>2, <1>3, VersionIs
<1>5. IsRow(w)
  BY <1>1, <1>2, <1>3, VersionIs, VerifyAssumption DEF IsRow
<1>. QED BY <1>1, <1>3, <1>4, <1>5, HashTells

\* Facts of a stored row.
LEMMA RowIs ==
    ASSUME RowsInv, NEW r \in rows
    PROVE  /\ \E w \in written : Version(r, w) /\ IsAppended(w) /\ r.entry_id = w.entry_id
                                 /\ r.chain_position = w.chain_position
           /\ IsRow(r) /\ Cardinality(written) \in Nat
           /\ r.chain_position <= r.entry_id /\ r.entry_id <= Cardinality(written)
           /\ r.entry_hash = Garbage \/ HashOf(r.entry_hash, r.entry_id, r.chain_position)
<1>1. PICK w \in written : Version(r, w)
  BY DEF RowsInv, Stored
<1>2. WrittenInv
  BY DEF RowsInv
<1>3. /\ IsAppended(w) /\ IsRow(w) /\ Cardinality(written) \in Nat
      /\ w.chain_position <= w.entry_id /\ w.entry_id <= Cardinality(written)
  BY <1>2, WrittenIs
<1>4. /\ r.entry_id = w.entry_id /\ r.chain_position = w.chain_position
      /\ r = [entry_id |-> r.entry_id, hash_version |-> r.hash_version, body |-> r.body,
              proof |-> r.proof, previous_hash |-> r.previous_hash,
              chain_position |-> r.chain_position, entry_hash |-> r.entry_hash]
      /\ r.hash_version \in {V2, V3, "unknown"} /\ r.body \in {"accepted", "damaged"}
      /\ r.proof \in {"accepted", "damaged"}
      /\ r.entry_hash = Garbage \/ HashOf(r.entry_hash, r.entry_id, r.chain_position)
  BY <1>1, <1>3, VersionIs
<1>5. IsRow(r)
  BY <1>3, <1>4 DEF IsRow
<1>. QED BY <1>1, <1>3, <1>4, <1>5

-----------------------------------------------------------------------------
(* Appends *)

\* The row that an append adds.
Adds(e) ==
    /\ rows' = rows \cup {e} /\ written' = written \cup {e} /\ UNCHANGED ver
    /\ Cardinality(written) < MaxLen
    /\ e = [entry_id |-> Cardinality(written) + 1, hash_version |-> e.hash_version,
            body |-> "accepted", proof |-> "accepted", previous_hash |-> e.previous_hash,
            chain_position |-> e.chain_position, entry_hash |-> e.entry_hash]
    /\ e.hash_version \in {V2, V3} /\ HashValid(e)
    /\ \/ rows = {} /\ e.chain_position = 1 /\ e.previous_hash = Genesis
       \/ \E t \in rows : /\ IsTip(t) /\ e.chain_position = t.chain_position + 1
                          /\ e.previous_hash = t.entry_hash

\* A new row carries its own hash.
LEMMA NewRowIs ==
    ASSUME NEW pos, NEW prev, NEW v \in {V2, V3}
    PROVE  LET e == NewRow(pos, prev, v) IN
           /\ e = [entry_id |-> Cardinality(written) + 1, hash_version |-> v,
                   body |-> "accepted", proof |-> "accepted", previous_hash |-> prev,
                   chain_position |-> pos, entry_hash |-> e.entry_hash]
           /\ HashValid(e)
<1>1. PICK u : u = [entry_id |-> Cardinality(written) + 1, hash_version |-> v, body |-> "accepted",
                    proof |-> "accepted", previous_hash |-> prev, chain_position |-> pos,
                    entry_hash |-> None]
  OBVIOUS
<1>2. PICK h : h = canonical_entry_hash_for_version(u)
  OBVIOUS
<1>3. PICK e : e = NewRow(pos, prev, v)
  OBVIOUS
<1>4. e = [u EXCEPT !.entry_hash = h]
  BY <1>1, <1>2, <1>3 DEF NewRow
<1>5. e = [entry_id |-> Cardinality(written) + 1, hash_version |-> v, body |-> "accepted",
           proof |-> "accepted", previous_hash |-> prev, chain_position |-> pos, entry_hash |-> h]
  BY <1>1, <1>4
<1>6. /\ e.entry_id = u.entry_id /\ e.hash_version = u.hash_version /\ e.body = u.body
      /\ e.proof = u.proof /\ e.previous_hash = u.previous_hash
      /\ e.chain_position = u.chain_position /\ e.entry_hash = h
  BY <1>1, <1>5
<1>7. canonical_entry_hash_for_version(e) = canonical_entry_hash_for_version(u)
  BY <1>6 DEF canonical_entry_hash_for_version
<1>. QED BY <1>2, <1>3, <1>5, <1>6, <1>7 DEF HashValid

\* An append adds one row, behind the tip.
LEMMA AppendIs ==
    ASSUME NEW v \in {V2, V3}, Append(v)
    PROVE  \E e : Adds(e)
<1>1. ASSUME NEW pos, NEW prev, NEW e, e = NewRow(pos, prev, v)
      PROVE  /\ e = [entry_id |-> Cardinality(written) + 1, hash_version |-> e.hash_version,
                     body |-> "accepted", proof |-> "accepted", previous_hash |-> e.previous_hash,
                     chain_position |-> e.chain_position, entry_hash |-> e.entry_hash]
             /\ e.hash_version \in {V2, V3} /\ HashValid(e)
             /\ e.chain_position = pos /\ e.previous_hash = prev
  BY <1>1, NewRowIs
<1>2. CASE rows = {} /\ rows' = rows \cup {NewRow(1, Genesis, v)} /\ written' = written \cup {NewRow(1, Genesis, v)}
  <2>1. PICK e : e = NewRow(1, Genesis, v)
    OBVIOUS
  <2>2. Adds(e)
    BY <1>1, <1>2, <2>1 DEF Adds, Append
  <2>. QED BY <2>2
<1>3. ASSUME NEW t \in rows, IsTip(t),
             rows' = rows \cup {NewRow(t.chain_position + 1, t.entry_hash, v)},
             written' = written \cup {NewRow(t.chain_position + 1, t.entry_hash, v)}
      PROVE  \E e : Adds(e)
  <2>1. PICK e : e = NewRow(t.chain_position + 1, t.entry_hash, v)
    OBVIOUS
  <2>2. Adds(e)
    BY <1>1, <1>3, <2>1 DEF Adds, Append
  <2>. QED BY <2>2
<1>. QED BY <1>2, <1>3 DEF Append

\* The new row is none of the rows there were, and above all of them.
LEMMA AddedIs ==
    ASSUME RowsInv, NEW e, Adds(e)
    PROVE  /\ e.entry_id = Cardinality(written) + 1 /\ Cardinality(written) \in Nat
           /\ e.body = "accepted" /\ e.proof = "accepted"
           /\ e \notin rows /\ e \notin written
           /\ \A r \in rows : r.entry_id < e.entry_id /\ r.chain_position < e.chain_position
           /\ \A w \in written : w.entry_id < e.entry_id
           /\ e.chain_position \in 1..e.entry_id
           /\ HashOf(e.entry_hash, e.entry_id, e.chain_position)
           /\ \/ rows = {} /\ e.chain_position = 1 /\ e.previous_hash = Genesis
              \/ \E t \in rows : /\ IsTip(t) /\ e.chain_position = t.chain_position + 1
                                 /\ e.previous_hash = t.entry_hash
<1>1. WrittenInv /\ Cardinality(written) \in Nat
  BY FS_CardinalityType DEF RowsInv, WrittenInv
<1>2. /\ e.entry_id = Cardinality(written) + 1 /\ e.body = "accepted" /\ e.proof = "accepted"
      /\ e.hash_version \in {V2, V3} /\ HashValid(e)
  BY DEF Adds
<1>3. \A w \in written : w.entry_id < e.entry_id
  <2>1. \A w \in written : w.entry_id <= Cardinality(written) /\ w.entry_id \in Int
    BY <1>1, WrittenIs DEF IsRow
  <2>. QED BY <1>1, <1>2, <2>1
<1>4. \A r \in rows : /\ r.entry_id <= Cardinality(written) /\ r.entry_id \in Int
                      /\ r.chain_position \in Nat \ {0} /\ r.chain_position <= r.entry_id
  BY RowIs, VerifyAssumption DEF IsRow
<1>5. HashOf(e.entry_hash, e.entry_id, e.chain_position)
  BY <1>2, CanonicalIs DEF HashValid
<1>6. CASE rows = {} /\ e.chain_position = 1 /\ e.previous_hash = Genesis
  <2>1. e.chain_position \in 1..e.entry_id
    BY <1>1, <1>2, <1>6
  <2>2. e \notin written
    BY <1>1, <1>2, <1>3
  <2>. QED BY <1>1, <1>2, <1>3, <1>5, <1>6, <2>1, <2>2
<1>7. ASSUME NEW t \in rows, IsTip(t), e.chain_position = t.chain_position + 1,
             e.previous_hash = t.entry_hash
      PROVE  /\ e \notin rows /\ e \notin written
             /\ \A r \in rows : r.entry_id < e.entry_id /\ r.chain_position < e.chain_position
             /\ e.chain_position \in 1..e.entry_id
  <2>1. \A r \in rows : r.entry_id < e.entry_id /\ r.chain_position < e.chain_position
    BY <1>1, <1>2, <1>4, <1>7 DEF IsTip
  <2>2. e.chain_position \in 1..e.entry_id
    BY <1>1, <1>2, <1>4, <1>7
  <2>3. e \notin rows /\ e \notin written
    BY <1>1, <1>2, <1>3, <2>1
  <2>. QED BY <2>1, <2>2, <2>3
<1>. QED BY <1>1, <1>2, <1>3, <1>5, <1>6, <1>7 DEF Adds

\* Appending keeps the history well formed.
LEMMA AppendWritten ==
    ASSUME RowsInv, NEW e, Adds(e)
    PROVE  WrittenInv'
<1>1. WrittenInv /\ written' = written \cup {e} /\ Cardinality(written) < MaxLen
  BY DEF RowsInv, Adds
<1>2. /\ e.entry_id = Cardinality(written) + 1 /\ Cardinality(written) \in Nat
      /\ e \notin written /\ \A w \in written : w.entry_id < e.entry_id
      /\ e.chain_position \in 1..e.entry_id
  BY AddedIs
<1>3. IsFiniteSet(written') /\ Cardinality(written') = Cardinality(written) + 1
  BY <1>1, <1>2, FS_AddElement DEF WrittenInv
<1>4. ASSUME NEW w \in written PROVE IsAppended(w) /\ w.entry_id <= Cardinality(written')
  <2>1. IsAppended(w) /\ w.entry_id <= Cardinality(written) /\ w.entry_id \in Nat
    BY <1>1 DEF WrittenInv, IsAppended
  <2>. QED BY <1>2, <1>3, <2>1
<1>5. IsAppended(e) /\ e.entry_id <= Cardinality(written')
  <2>1. /\ e = [entry_id |-> e.entry_id, hash_version |-> e.hash_version, body |-> "accepted",
                proof |-> "accepted", previous_hash |-> e.previous_hash,
                chain_position |-> e.chain_position, entry_hash |-> e.entry_hash]
        /\ e.hash_version \in {V2, V3} /\ HashValid(e)
    BY <1>2 DEF Adds
  <2>2. e.entry_id \in Nat /\ e.entry_id <= Cardinality(written')
    BY <1>2, <1>3
  <2>3. IF e.chain_position = 1 THEN e.previous_hash = Genesis
        ELSE \/ e.previous_hash = Garbage
             \/ /\ HashOf(e.previous_hash, e.previous_hash[2], e.chain_position - 1)
                /\ e.previous_hash[2] < e.entry_id
    <3>1. CASE rows = {} /\ e.chain_position = 1 /\ e.previous_hash = Genesis
      BY <3>1
    <3>2. ASSUME NEW t \in rows, e.chain_position = t.chain_position + 1,
                 e.previous_hash = t.entry_hash
          PROVE  /\ e.chain_position # 1
                 /\ \/ e.previous_hash = Garbage
                    \/ /\ HashOf(e.previous_hash, e.previous_hash[2], e.chain_position - 1)
                       /\ e.previous_hash[2] < e.entry_id
      <4>1. /\ t.chain_position \in Nat \ {0} /\ t.entry_id \in Int /\ t.entry_id < e.entry_id
            /\ t.entry_hash = Garbage \/ HashOf(t.entry_hash, t.entry_id, t.chain_position)
        BY RowIs, AddedIs, VerifyAssumption DEF IsRow
      <4>2. e.chain_position # 1 /\ e.chain_position - 1 = t.chain_position
        BY <3>2, <4>1
      <4>3. HashOf(t.entry_hash, t.entry_id, t.chain_position) => t.entry_hash[2] = t.entry_id
        BY HashTells
      <4>. QED BY <3>2, <4>1, <4>2, <4>3
    <3>. QED BY <3>1, <3>2, AddedIs
  <2>. QED BY <1>2, <2>1, <2>2, <2>3 DEF IsAppended
<1>6. \A w, v \in written' : w.entry_id = v.entry_id => w = v
  <2>1. \A w \in written : w.entry_id # e.entry_id
    <3>1. \A w \in written : w.entry_id \in Int
      BY <1>1, WrittenIs DEF IsRow
    <3>. QED BY <1>2, <3>1
  <2>. QED BY <1>1, <2>1 DEF WrittenInv
<1>7. ASSUME NEW w \in written', NEW p \in 1..w.chain_position
      PROVE  \E v \in written' : v.chain_position = p
  <2>1. CASE w \in written
    BY <1>1, <1>7, <2>1 DEF WrittenInv
  <2>2. CASE w = e /\ p = e.chain_position
    BY <1>1, <2>2
  <2>3. CASE w = e /\ p # e.chain_position
    <3>1. PICK t \in rows : e.chain_position = t.chain_position + 1
      BY <1>7, <2>3, AddedIs
    <3>2. PICK u \in written : t.chain_position = u.chain_position /\ u.chain_position \in Nat
      BY RowIs, WrittenIs, VerifyAssumption DEF IsRow
    <3>3. p \in 1..u.chain_position
      BY <1>7, <2>3, <3>1, <3>2
    <3>. QED BY <1>1, <3>2, <3>3 DEF WrittenInv
  <2>. QED BY <1>1, <2>1, <2>2, <2>3
<1>8. Cardinality(written') <= MaxLen
  BY <1>1, <1>2, <1>3, VerifyAssumption
<1>9. \A w \in written' : IsAppended(w) /\ w.entry_id <= Cardinality(written')
  BY <1>1, <1>4, <1>5
<1>. QED BY <1>3, <1>6, <1>7, <1>8, <1>9 DEF WrittenInv

\* Appending keeps the rows well formed: the new row links to the tip as it is stored.
LEMMA AppendKeepsRows ==
    ASSUME RowsInv, NEW e, Adds(e)
    PROVE  RowsInv'
<1>1. /\ rows' = rows \cup {e} /\ written' = written \cup {e}
      /\ IsFiniteSet(rows) /\ WrittenInv /\ Stored(rows, written) /\ GarbageInv /\ RewriteInv
      /\ CleanLinks
  BY DEF RowsInv, Adds
<1>2. /\ e.entry_id = Cardinality(written) + 1 /\ Cardinality(written) \in Nat
      /\ e.body = "accepted" /\ e \notin rows /\ e \notin written
      /\ \A r \in rows : r.entry_id < e.entry_id /\ r.chain_position < e.chain_position
      /\ \A w \in written : w.entry_id < e.entry_id
      /\ HashOf(e.entry_hash, e.entry_id, e.chain_position)
  BY AddedIs
<1>3. WrittenInv'
  BY AppendWritten
<1>4. /\ IsAppended(e) /\ \A w \in written : IsAppended(w) /\ w.entry_id \in Nat
      /\ \A r \in rows : r.entry_id \in Int /\ r.chain_position \in Int
  BY <1>1, <1>3, RowIs DEF WrittenInv, IsRow, IsAppended
<1>5. IsFiniteSet(rows')
  BY <1>1, FS_AddElement
<1>6. Stored(rows', written')
  <2>1. Version(e, e)
    BY DEF Version
  <2>2. \A r \in rows : r.entry_id # e.entry_id /\ r.chain_position # e.chain_position
    BY <1>2, <1>4
  <2>. QED BY <1>1, <2>1, <2>2 DEF Stored
<1>7. GarbageInv'
  <2>1. e.previous_hash = Garbage =>
          \E r \in rows : r.chain_position = e.chain_position - 1 /\ r.entry_hash = Garbage
    BY <1>4, AddedIs, ConstantsDiffer
  <2>. QED BY <1>1, <2>1 DEF GarbageInv
<1>8. RewriteInv'
  <2>1. ASSUME NEW w \in written', Rewritten(w) \in rows'
        PROVE  \E v \in written' : v.chain_position = w.chain_position + 1
    <3>1. Rewritten(w).body = "damaged" /\ Rewritten(w).entry_id = w.entry_id
      BY <1>1, <1>4, <2>1, RewrittenIs
    <3>2. Rewritten(w) \in rows
      BY <1>1, <1>2, <2>1, <3>1
    <3>3. w # e
      BY <1>2, <1>4, <3>1, <3>2
    <3>. QED BY <1>1, <3>2, <3>3 DEF RewriteInv
  <2>2. ASSUME NEW w \in written', NEW u \in written', u.previous_hash = Rewritten(w).entry_hash
        PROVE  \E v \in written' : v # u /\ v.chain_position = u.chain_position
    <3>1. /\ IsAppended(w) /\ IsAppended(u) /\ w.entry_id \in Nat /\ u.entry_id \in Nat
          /\ w.entry_id <= e.entry_id /\ u.entry_id <= e.entry_id
      BY <1>1, <1>2, <1>4
    <3>2. PICK h : h = Rewritten(w).entry_hash /\ h = u.previous_hash
      BY <2>2
    <3>3. HashOf(h, w.entry_id, w.chain_position)
      <4>1. Version(Rewritten(w), w)
        BY DEF Version
      <4>2. /\ Rewritten(w).entry_hash = Garbage \/ HashOf(Rewritten(w).entry_hash, Rewritten(w).entry_id, Rewritten(w).chain_position)
            /\ Rewritten(w).entry_id = w.entry_id /\ Rewritten(w).chain_position = w.chain_position
        BY <3>1, <4>1, VersionIs
      <4>. QED BY <3>1, <3>2, <4>2, RewrittenIs
    <3>4. h # Genesis /\ h # Garbage /\ h[2] = w.entry_id
      BY <3>3, HashTells
    <3>5. w.entry_id < u.entry_id
      BY <3>1, <3>2, <3>4 DEF IsAppended
    <3>6. w \in written
      BY <1>1, <3>1, <3>5
    <3>7. CASE u \in written
      BY <1>1, <2>2, <3>6, <3>7 DEF RewriteInv
    <3>8. CASE u = e
      <4>1. PICK t \in rows : e.chain_position = t.chain_position + 1 /\ h = t.entry_hash
        BY <3>2, <3>4, <3>8, AddedIs
      <4>2. PICK x \in written : Version(t, x) /\ IsAppended(x)
        BY RowIs
      <4>3. t = Rewritten(x)
        <5>1. h # x.entry_hash
          <6>1. x.entry_hash = canonical_entry_hash_for_version(x) /\ x.hash_version \in {V2, V3} /\ x.body = "accepted"
            BY <4>2 DEF IsAppended, HashValid
          <6>2. h = canonical_entry_hash_for_version(Rewritten(w)) /\ Rewritten(w).hash_version \in {V2, V3}
                /\ Rewritten(w).body = "damaged"
            BY <3>1, <3>2, RewrittenIs DEF HashValid
          <6>. QED BY <6>1, <6>2, SameHash
        <5>. QED BY <3>4, <4>1, <4>2, <5>1, DamagedHash DEF Version
      <4>4. x = w
        <5>1. t.entry_id = x.entry_id /\ HashOf(t.entry_hash, t.entry_id, t.chain_position)
          BY <3>4, <4>1, <4>2, VersionIs
        <5>2. x.entry_id = w.entry_id
          BY <3>4, <4>1, <5>1, HashTells
        <5>. QED BY <1>1, <3>6, <5>2 DEF WrittenInv
      <4>5. PICK v \in written : v.chain_position = w.chain_position + 1
        BY <1>1, <3>6, <4>3, <4>4 DEF RewriteInv
      <4>6. t.chain_position = w.chain_position
        BY <4>2, <4>4, VersionIs
      <4>. QED BY <1>1, <1>2, <3>8, <4>1, <4>5, <4>6
    <3>. QED BY <1>1, <3>7, <3>8
  <2>. QED BY <2>1, <2>2 DEF RewriteInv
<1>9. CleanLinks'
  <2>. SUFFICES ASSUME rows' = written', NEW f \in rows', f.chain_position > 1
                PROVE  \E d \in rows' : /\ d.chain_position = f.chain_position - 1
                                        /\ f.previous_hash = d.entry_hash
    BY DEF CleanLinks
  <2>1. rows = written
    <3>1. rows \cup {e} = written \cup {e}
      BY <1>1
    <3>2. \A x \in rows : x \in written
      BY <1>2, <3>1
    <3>3. \A x \in written : x \in rows
      BY <1>2, <3>1
    <3>. QED BY <3>2, <3>3
  <2>2. CASE f \in rows
    BY <1>1, <2>1, <2>2 DEF CleanLinks
  <2>3. CASE f = e
    BY <1>1, <1>4, <2>3, AddedIs
  <2>. QED BY <1>1, <2>2, <2>3
<1>. QED BY <1>3, <1>5, <1>6, <1>7, <1>8, <1>9 DEF RowsInv

-----------------------------------------------------------------------------
(* Damage *)

\* Damage replaces one row that is stored as appended, or removes it.
LEMMA DamageIs ==
    ASSUME NEW e \in rows, Damage(e)
    PROVE  /\ e \in written /\ written' = written /\ ver' = ver
           /\ \E S : /\ rows' = (rows \ {e}) \cup S
                     /\ \/ S = {}
                        \/ \E f : /\ S = {f} /\ Version(f, e)
                                  /\ f \notin Damaged(e) => ~IsTip(e)
<1>1. CASE \E f \in Damaged(e) : rows' = (rows \ {e}) \cup {f}
  BY <1>1 DEF Damage, Version
<1>2. CASE ~IsTip(e) /\ rows' = (rows \ {e}) \cup {Rewritten(e)}
  <2>1. PICK f : f = Rewritten(e)
    OBVIOUS
  <2>2. PICK S : S = {f}
    OBVIOUS
  <2>3. Version(f, e)
    BY <2>1 DEF Version
  <2>. QED BY <1>2, <2>1, <2>2, <2>3 DEF Damage
<1>3. CASE rows' = rows \ {e}
  <2>1. rows' = (rows \ {e}) \cup {}
    BY <1>3
  <2>. QED BY <2>1 DEF Damage
<1>. QED BY <1>1, <1>2, <1>3 DEF Damage

\* Damage keeps the rows well formed: a hash that is damaged stays damaged, and a row is
\* rewritten only below another.
LEMMA DamageKeepsRows ==
    ASSUME RowsInv, NEW e \in rows, Damage(e)
    PROVE  RowsInv'
<1>1. /\ e \in written /\ written' = written
      /\ IsFiniteSet(rows) /\ WrittenInv /\ Stored(rows, written) /\ GarbageInv /\ RewriteInv
      /\ CleanLinks
  BY DamageIs DEF RowsInv
<1>2. PICK S : /\ rows' = (rows \ {e}) \cup S
               /\ \/ S = {}
                  \/ \E f : /\ S = {f} /\ Version(f, e)
                            /\ f \notin Damaged(e) => ~IsTip(e)
  BY DamageIs
<1>3. IsAppended(e) /\ e.entry_hash # Garbage /\ IsRow(e)
  BY <1>1, WrittenIs
<1>4. \A f \in S : /\ Version(f, e) /\ f.entry_id = e.entry_id /\ f.chain_position = e.chain_position
                   /\ f \notin Damaged(e) => ~IsTip(e)
  BY <1>2, <1>3, VersionIs
<1>5. \A f, g \in S : f = g
  BY <1>2
<1>6. IsFiniteSet(rows')
  <2>1. IsFiniteSet(rows \ {e})
    <3>1. rows \ {e} \subseteq rows
      OBVIOUS
    <3>. QED BY <1>1, <3>1, FS_Subset
  <2>2. IsFiniteSet(S)
    BY <1>2, FS_EmptySet, FS_Singleton
  <2>. QED BY <1>2, <2>1, <2>2, FS_Union
<1>7. WrittenInv'
  BY <1>1 DEF WrittenInv
<1>8. Stored(rows', written')
  <2>1. \A r \in rows \ {e} : r.entry_id # e.entry_id /\ r.chain_position # e.chain_position
    BY <1>1 DEF Stored
  <2>. QED BY <1>1, <1>2, <1>4, <1>5, <2>1 DEF Stored
<1>9. GarbageInv'
  BY <1>1, <1>2, <1>3 DEF GarbageInv
<1>10. RewriteInv'
  <2>1. ASSUME NEW w \in written, Rewritten(w) \in rows'
        PROVE  \E v \in written : v.chain_position = w.chain_position + 1
    <3>1. CASE Rewritten(w) \in rows
      BY <1>1, <3>1 DEF RewriteInv
    <3>2. CASE Rewritten(w) \in S
      <4>1. IsAppended(w) /\ Rewritten(w).entry_id = w.entry_id
        BY <1>1, WrittenIs, RewrittenIs
      <4>2. w = e
        BY <1>1, <1>4, <3>2, <4>1 DEF WrittenInv
      <4>3. ~IsTip(e)
        BY <1>4, <3>2, <4>1, <4>2, DamagedHash
      <4>4. PICK r \in rows : ~(r.chain_position <= e.chain_position)
        BY <4>3 DEF IsTip
      <4>5. PICK u \in written : r.chain_position = u.chain_position
        BY RowIs
      <4>6. u.chain_position \in Nat /\ e.chain_position \in Nat
        BY <1>1, WrittenIs, VerifyAssumption DEF IsRow
      <4>7. e.chain_position + 1 \in 1..u.chain_position
        BY <4>4, <4>5, <4>6
      <4>. QED BY <1>1, <4>2, <4>7 DEF WrittenInv
    <3>. QED BY <1>2, <2>1, <3>1, <3>2
  <2>. QED BY <1>1, <2>1 DEF RewriteInv
<1>11. CleanLinks'
  <2>. SUFFICES ASSUME rows' = written' PROVE rows' = rows
    BY <1>1 DEF CleanLinks
  <2>1. e \in rows'
    BY <1>1
  <2>2. e \in S
    BY <1>2, <2>1
  <2>3. S = {e}
    BY <1>2, <2>2
  <2>. QED BY <1>2, <2>3
<1>. QED BY <1>6, <1>7, <1>8, <1>9, <1>10, <1>11 DEF RowsInv

\* Between the reads of a call rows are added above all others, or a row that was stored as
\* appended is no more.
Grows ==
    /\ rows \subseteq rows'
    /\ \A r \in rows', s \in rows : r \in rows \/ s.chain_position < r.chain_position

\* What happens between the reads of a call.
LEMMA BetweenReads ==
    ASSUME RowsInv, HistoryInv, (\E v \in {V2, V3} : Append(v)) \/ (\E e \in rows : Damage(e))
    PROVE  /\ RowsInv' /\ HistoryInv' /\ ver' = ver /\ written \subseteq written'
           /\ \A w \in written : w \in rows' => w \in rows
           /\ \A r \in rows : r \in rows' \/ r \in written
           /\ Grows \/ \E e \in rows \cap written : e \notin rows'
           /\ \A w \in written', v \in written : w \in written \/ v.entry_id < w.entry_id
<1>0. /\ Stored(ver.before, ver.accepted) /\ ver.accepted \subseteq written
      /\ ver.before \ ver.accepted \subseteq rows
      /\ \A r \in rows, w \in ver.accepted :
           r.entry_id = w.entry_id => r \in ver.before \/ w \in ver.before
  BY DEF HistoryInv
<1>1. ASSUME NEW v \in {V2, V3}, Append(v)
      PROVE  /\ RowsInv' /\ HistoryInv' /\ ver' = ver /\ written \subseteq written'
             /\ \A w \in written : w \in rows' => w \in rows
             /\ \A r \in rows : r \in rows'
             /\ Grows
             /\ \A w \in written', x \in written : w \in written \/ x.entry_id < w.entry_id
  <2>1. PICK e : Adds(e)
    BY <1>1, AppendIs
  <2>2. RowsInv'
    BY <2>1, AppendKeepsRows
  <2>3. rows' = rows \cup {e} /\ written' = written \cup {e} /\ ver' = ver
    BY <2>1 DEF Adds
  <2>4. /\ e \notin written /\ \A w \in written : w.entry_id < e.entry_id
        /\ \A r \in rows : r.chain_position < e.chain_position
    BY <2>1, AddedIs
  <2>5. HistoryInv'
    <3>1. \A w \in ver.accepted : e.entry_id # w.entry_id
      <4>1. \A w \in written : w.entry_id \in Int
        BY WrittenIs DEF RowsInv, IsRow
      <4>. QED BY <1>0, <2>4, <4>1
    <3>. QED BY <1>0, <2>3, <3>1 DEF HistoryInv
  <2>. QED BY <2>2, <2>3, <2>4, <2>5 DEF Grows
<1>2. ASSUME NEW e \in rows, Damage(e)
      PROVE  /\ RowsInv' /\ HistoryInv' /\ ver' = ver /\ written' = written
             /\ \A w \in written : w \in rows' => w \in rows
             /\ \A r \in rows : r \in rows' \/ r \in written
             /\ Grows \/ \E d \in rows \cap written : d \notin rows'
  <2>1. RowsInv'
    BY <1>2, DamageKeepsRows
  <2>2. e \in written /\ written' = written /\ ver' = ver
    BY <1>2, DamageIs
  <2>3. PICK S : /\ rows' = (rows \ {e}) \cup S
                 /\ \/ S = {}
                    \/ \E f : S = {f} /\ Version(f, e)
    BY <1>2, DamageIs
  <2>4. WrittenInv /\ IsAppended(e)
    BY <2>2, WrittenIs DEF RowsInv
  <2>5. \A f \in S : f.entry_id = e.entry_id
    BY <2>3, <2>4, VersionIs
  <2>6. \A w \in written : w.entry_id = e.entry_id => w = e
    BY <2>2, <2>4 DEF WrittenInv
  <2>7. HistoryInv'
    <3>1. ASSUME NEW x \in ver.before, x \notin ver.accepted PROVE x \in rows'
      <4>1. PICK w \in ver.accepted : Version(x, w)
        BY <1>0 DEF Stored
      <4>2. x.entry_id = w.entry_id
        BY <1>0, <2>4, <4>1, WrittenIs, VersionIs
      <4>3. x # e
        BY <1>0, <2>6, <3>1, <4>1, <4>2
      <4>. QED BY <1>0, <2>3, <3>1, <4>3
    <3>2. ASSUME NEW r \in rows', NEW w \in ver.accepted, r.entry_id = w.entry_id
          PROVE  r \in ver.before \/ w \in ver.before
      <4>1. CASE r \in rows
        BY <1>0, <3>2, <4>1
      <4>2. CASE r \in S
        <5>1. w = e
          BY <1>0, <2>5, <2>6, <3>2, <4>2
        <5>. QED BY <1>0, <5>1
      <4>. QED BY <2>3, <4>1, <4>2
    <3>. QED BY <1>0, <2>2, <3>1, <3>2 DEF HistoryInv
  <2>8. \A w \in written : w \in rows' => w \in rows
    BY <2>3, <2>5, <2>6
  <2>9. \A r \in rows : r \in rows' \/ r \in written
    BY <2>2, <2>3
  <2>10. CASE e \in rows'
    <3>1. S = {e}
      BY <2>3, <2>10
    <3>2. rows' = rows
      BY <2>3, <3>1
    <3>3. Grows
      BY <3>2 DEF Grows
    <3>. QED BY <2>1, <2>2, <2>7, <2>8, <2>9, <3>3
  <2>11. CASE e \notin rows'
    BY <2>1, <2>2, <2>7, <2>8, <2>9, <2>11
  <2>. QED BY <2>10, <2>11
<1>. QED BY <1>1, <1>2

\* What was damaged stays damaged; and while no row is damaged, rows are only added.
LEMMA DisturbedStays ==
    ASSUME RowsInv, HistoryInv, (\E v \in {V2, V3} : Append(v)) \/ (\E e \in rows : Damage(e))
    PROVE  /\ Disturbed => Disturbed'
           /\ ~Disturbed' => Grows
           /\ rows' = written' => rows = written /\ Grows
           /\ \A r \in rows : r \in rows' \/ (r \in written' /\ Disturbed')
<1>1. /\ ver' = ver /\ written \subseteq written'
      /\ \A w \in written : w \in rows' => w \in rows
      /\ \A r \in rows : r \in rows' \/ r \in written
      /\ Grows \/ \E e \in rows \cap written : e \notin rows'
      /\ \A w \in written', v \in written : w \in written \/ v.entry_id < w.entry_id
      /\ RowsInv'
  BY BetweenReads
<1>2. /\ ver.accepted \subseteq written
      /\ \A w \in ver.accepted : w \in rows => w \in ver.before
  BY DEF HistoryInv
<1>3. Disturbed <=> \E w \in written \ rows : w \notin ver.accepted \ ver.before
  BY <1>2 DEF Disturbed
<1>4. (\E w \in written' \ rows' : w \notin ver.accepted \ ver.before) => Disturbed'
  BY <1>1 DEF Disturbed
<1>5. Disturbed => Disturbed'
  BY <1>1, <1>3, <1>4
<1>6. ASSUME NEW e \in rows \cap written, e \notin rows'
      PROVE  Disturbed' /\ rows' # written'
  BY <1>1, <1>2, <1>4, <1>6
<1>7. ASSUME rows' = written', Grows PROVE rows = written
  <2>1. \A w \in written : w \in rows
    BY <1>1, <1>7
  <2>2. ASSUME NEW r \in rows PROVE r \in written
    <3>1. r \in written'
      BY <1>7 DEF Grows
    <3>2. PICK w \in written : r.entry_id = w.entry_id
      BY RowIs
    <3>3. w \in written'
      BY <1>1
    <3>. QED BY <1>1, <3>1, <3>2, <3>3 DEF RowsInv, WrittenInv
  <2>. QED BY <2>1, <2>2
<1>8. \A r \in rows : r \in rows' \/ (r \in written' /\ Disturbed')
  BY <1>1, <1>6
<1>. QED BY <1>1, <1>5, <1>6, <1>7, <1>8

-----------------------------------------------------------------------------
(* Pages *)

\* The last entry of a set of rows.
LEMMA LastIs ==
    ASSUME RowsInv, NEW S, S \subseteq rows, S # {}
    PROVE  Last(S) \in S /\ \A f \in S : f.chain_position <= Last(S).chain_position
<1>1. \A r \in S : r.chain_position \in 1..MaxLen /\ MaxLen \in Nat
  BY RowIs, VerifyAssumption DEF IsRow
<1>2. PICK T : T = {MaxLen - r.chain_position : r \in S}
  OBVIOUS
<1>3. T \subseteq Nat /\ T # {}
  BY <1>1, <1>2
<1>4. PICK m \in T : \A k \in T : m <= k
  BY <1>3, LeastNatural
<1>5. PICK e \in S : m = MaxLen - e.chain_position
  BY <1>2
<1>6. ASSUME NEW f \in S PROVE f.chain_position <= e.chain_position
  <2>1. MaxLen - e.chain_position <= MaxLen - f.chain_position
    BY <1>2, <1>4, <1>5
  <2>2. f.chain_position \in 1..MaxLen /\ e.chain_position \in 1..MaxLen
    BY <1>1
  <2>. QED BY <2>1, <2>2, VerifyAssumption
<1>. QED BY <1>6 DEF Last

\* The first entry of a set of rows.
LEMMA FirstIs ==
    ASSUME RowsInv, NEW S, S \subseteq rows, S # {}
    PROVE  \E e \in S : \A f \in S : e.chain_position <= f.chain_position
<1>1. \A r \in S : r.chain_position \in Nat
  BY RowIs, VerifyAssumption DEF IsRow
<1>2. PICK T : T = {r.chain_position : r \in S}
  OBVIOUS
<1>3. T \subseteq Nat /\ T # {}
  BY <1>1, <1>2
<1>4. PICK m \in T : \A k \in T : m <= k
  BY <1>3, LeastNatural
<1>. QED BY <1>2, <1>4

\* A page holds the first rows above a position, and all of them when it is not full.
LEMMA PagedIs ==
    ASSUME RowsInv, NEW a \in Int, NEW n \in Nat \ {0}
    PROVE  /\ Paged(a, n) \subseteq rows /\ IsFiniteSet(Paged(a, n))
           /\ \A e \in Paged(a, n) : e.chain_position > a
           /\ \A e \in Paged(a, n), f \in rows :
                a < f.chain_position /\ f.chain_position < e.chain_position => f \in Paged(a, n)
           /\ Cardinality(Paged(a, n)) < n => \A r \in rows : r.chain_position > a => r \in Paged(a, n)
           /\ Paged(a, n) = {} => \A r \in rows : ~(r.chain_position > a)
<1>1. \A r \in rows : r.chain_position \in Nat
  BY RowIs, VerifyAssumption DEF IsRow
<1>2. PICK B : B = [e \in rows |-> {f \in rows : /\ f.chain_position > a
                                                /\ f.chain_position < e.chain_position}]
  OBVIOUS
<1>3. PICK P : P = Paged(a, n)
  OBVIOUS
<1>4. P = {e \in rows : e.chain_position > a /\ Cardinality(B[e]) < n}
  BY <1>2, <1>3 DEF Paged
<1>5. IsFiniteSet(rows)
  BY DEF RowsInv
<1>6. \A e \in rows : B[e] \subseteq rows /\ IsFiniteSet(B[e]) /\ Cardinality(B[e]) \in Nat
  <2>1. \A e \in rows : B[e] \subseteq rows
    BY <1>2
  <2>. QED BY <1>5, <2>1, FS_Subset, FS_CardinalityType
<1>7. P \subseteq rows /\ IsFiniteSet(P) /\ Cardinality(P) \in Nat
  <2>1. P \subseteq rows
    BY <1>4
  <2>. QED BY <1>5, <2>1, FS_Subset, FS_CardinalityType
<1>8. ASSUME NEW e \in P, NEW f \in rows, a < f.chain_position, f.chain_position < e.chain_position
      PROVE  f \in P
  <2>1. B[f] \subseteq B[e]
    BY <1>1, <1>2, <1>7, <1>8
  <2>2. Cardinality(B[f]) <= Cardinality(B[e])
    BY <1>6, <1>7, <2>1, FS_Subset
  <2>3. Cardinality(B[f]) \in Nat /\ Cardinality(B[e]) \in Nat /\ Cardinality(B[e]) < n
    BY <1>4, <1>6, <1>7
  <2>4. Cardinality(B[f]) < n
    BY <2>2, <2>3
  <2>5. f.chain_position > a
    BY <1>1, <1>8
  <2>. QED BY <1>4, <2>4, <2>5
<1>9. ASSUME Cardinality(P) < n, NEW r \in rows, r.chain_position > a PROVE r \in P
  <2>. SUFFICES ASSUME r \notin P PROVE FALSE
    OBVIOUS
  <2>1. PICK X : X = {x \in rows : x.chain_position > a /\ x \notin P}
    OBVIOUS
  <2>2. X \subseteq rows /\ X # {}
    BY <1>9, <2>1
  <2>3. PICK x \in X : \A y \in X : x.chain_position <= y.chain_position
    BY <2>2, FirstIs
  <2>4. B[x] \subseteq P
    <3>. SUFFICES ASSUME NEW y \in B[x], y \notin P PROVE FALSE
      OBVIOUS
    <3>1. y \in rows /\ y.chain_position > a /\ y.chain_position < x.chain_position
      BY <1>2, <2>2
    <3>2. y \in X
      BY <2>1, <3>1
    <3>. QED BY <1>1, <2>2, <2>3, <3>1, <3>2
  <2>5. Cardinality(B[x]) <= Cardinality(P)
    BY <1>7, <2>4, FS_Subset
  <2>6. Cardinality(B[x]) \in Nat
    BY <1>6, <2>2
  <2>7. Cardinality(B[x]) < n
    BY <1>7, <1>9, <2>5, <2>6
  <2>. QED BY <1>4, <2>1, <2>7
<1>10. P = {} => Cardinality(P) < n
  BY FS_EmptySet
<1>. QED BY <1>3, <1>4, <1>7, <1>8, <1>9, <1>10

\* A page of one row holds the first row above the position.
LEMMA PageOfOne ==
    ASSUME RowsInv, NEW a \in Int
    PROVE  /\ \A e \in Paged(a, 1) : /\ e \in rows /\ e.chain_position > a
                                     /\ \A f \in rows : f.chain_position > a => e.chain_position <= f.chain_position
           /\ \A e \in rows : (/\ e.chain_position > a
                               /\ \A f \in rows : f.chain_position > a => e.chain_position <= f.chain_position)
                              => e \in Paged(a, 1)
           /\ Paged(a, 1) = {} => \A r \in rows : ~(r.chain_position > a)
<1>0. 1 \in Nat \ {0}
  OBVIOUS
<1>1. /\ Paged(a, 1) \subseteq rows /\ \A e \in Paged(a, 1) : e.chain_position > a
      /\ Paged(a, 1) = {} => \A r \in rows : ~(r.chain_position > a)
  BY <1>0, PagedIs
<1>2. \A r \in rows : r.chain_position \in Nat
  BY RowIs, VerifyAssumption DEF IsRow
<1>3. PICK B : B = [e \in rows |-> {f \in rows : /\ f.chain_position > a
                                                /\ f.chain_position < e.chain_position}]
  OBVIOUS
<1>4. Paged(a, 1) = {e \in rows : e.chain_position > a /\ Cardinality(B[e]) < 1}
  BY <1>3 DEF Paged
<1>5. ASSUME NEW e \in rows PROVE Cardinality(B[e]) < 1 <=> B[e] = {}
  <2>1. B[e] \subseteq rows
    BY <1>3
  <2>2. IsFiniteSet(B[e]) /\ Cardinality(B[e]) \in Nat
    BY <2>1, FS_Subset, FS_CardinalityType DEF RowsInv
  <2>3. Cardinality(B[e]) = 0 <=> B[e] = {}
    BY <2>2, FS_EmptySet
  <2>. QED BY <2>2, <2>3
<1>6. ASSUME NEW e \in rows
      PROVE  B[e] = {} <=> \A f \in rows : f.chain_position > a => e.chain_position <= f.chain_position
  BY <1>2, <1>3
<1>. QED BY <1>1, <1>4, <1>5, <1>6

-----------------------------------------------------------------------------
(* The walk over a page *)

\* The page that is read, the entries at which the walk stops, and those it passes.
Page == Paged(ver.after, BatchSize)
Stopping == {e \in Page : Stops(e, Page)}
Good == {e \in Page : \A f \in Stopping : e.chain_position < f.chain_position}

\* A mismatch is none of the other verdicts; without one the entry links and recomputes.
LEMMA MismatchIs ==
    ASSUME NEW e, NEW B
    PROVE  /\ Mismatch(e, B) \in {"no", "chain_link_mismatch", "unsupported_hash_version", "entry_hash_mismatch"}
           /\ Mismatch(e, B) = "no" <=> /\ e.previous_hash = Expected(e, B) /\ HashValid(e)
                                        /\ canonical_entry_hash_for_version(e) # None
<1>1. CASE e.previous_hash # Expected(e, B)
  BY <1>1 DEF Mismatch
<1>2. CASE e.previous_hash = Expected(e, B) /\ canonical_entry_hash_for_version(e) = None
  BY <1>2 DEF Mismatch
<1>3. CASE /\ e.previous_hash = Expected(e, B) /\ canonical_entry_hash_for_version(e) # None
           /\ ~HashValid(e)
  BY <1>3 DEF Mismatch
<1>4. CASE /\ e.previous_hash = Expected(e, B) /\ canonical_entry_hash_for_version(e) # None
           /\ HashValid(e)
  BY <1>4 DEF Mismatch
<1>. QED BY <1>1, <1>2, <1>3, <1>4

\* Only a known version has a hash.
LEMMA KnownVersion ==
    ASSUME NEW e, canonical_entry_hash_for_version(e) # None
    PROVE  e.hash_version \in {V2, V3}
BY DEF canonical_entry_hash_for_version

\* An entry the walk passes has a valid hash and links to the one passed before it, which
\* is at the position below.
LEMMA GoodIs ==
    ASSUME RowsInv, ver.after \in Nat, ver.end \in Int, NEW g \in Good
    PROVE  /\ g \in rows /\ g.chain_position > ver.after /\ g.chain_position <= ver.end
           /\ HashValid(g) /\ HashOf(g.entry_hash, g.entry_id, g.chain_position)
           /\ \E w \in written : /\ Version(g, w) /\ IsAppended(w) /\ g.previous_hash = w.previous_hash
                                 /\ g.chain_position = w.chain_position /\ g.entry_id = w.entry_id
           /\ \A f \in rows : ver.after < f.chain_position /\ f.chain_position < g.chain_position => f \in Good
           /\ \/ /\ g.previous_hash = ver.prev_hash
                 /\ \A f \in rows : ~(ver.after < f.chain_position /\ f.chain_position < g.chain_position)
              \/ \E p \in Good : p.chain_position = g.chain_position - 1 /\ p.entry_hash = g.previous_hash
<1>1. BatchSize \in Nat \ {0} /\ ver.after \in Int
  BY VerifyAssumption
<1>2. /\ Page \subseteq rows /\ \A e \in Page : e.chain_position > ver.after
      /\ \A e \in Page, f \in rows :
           ver.after < f.chain_position /\ f.chain_position < e.chain_position => f \in Page
  BY <1>1, PagedIs DEF Page
<1>3. \A r \in rows : r.chain_position \in Nat \ {0}
  BY RowIs, VerifyAssumption DEF IsRow
<1>4. ASSUME NEW e \in Good
      PROVE  /\ e \in Page /\ e \in rows /\ e.chain_position > ver.after /\ e.chain_position <= ver.end
             /\ e.previous_hash = Expected(e, Page) /\ HashValid(e)
             /\ HashOf(e.entry_hash, e.entry_id, e.chain_position)
             /\ \E w \in written : /\ Version(e, w) /\ IsAppended(w) /\ e.previous_hash = w.previous_hash
                                   /\ e.chain_position = w.chain_position /\ e.entry_id = w.entry_id
  <2>1. e \in Page /\ e \in rows /\ e.chain_position > ver.after
    BY <1>2 DEF Good
  <2>2. e \notin Stopping
    BY <1>3, <2>1 DEF Good
  <2>3. e.chain_position <= ver.end /\ Mismatch(e, Page) = "no"
    BY <1>3, <2>1, <2>2 DEF Stopping, Stops
  <2>4. e.previous_hash = Expected(e, Page) /\ HashValid(e)
    BY <2>3, MismatchIs
  <2>5. PICK w \in written : /\ Version(e, w) /\ IsAppended(w) /\ e.entry_id = w.entry_id
                             /\ e.chain_position = w.chain_position
    BY <2>1, RowIs
  <2>6. e.previous_hash = w.previous_hash /\ HashOf(e.entry_hash, e.entry_id, e.chain_position)
    BY <2>4, <2>5, VersionIs
  <2>. QED BY <2>1, <2>3, <2>4, <2>5, <2>6
<1>5. ASSUME NEW f \in rows, ver.after < f.chain_position, f.chain_position < g.chain_position
      PROVE  f \in Good
  <2>1. f \in Page
    BY <1>2, <1>4, <1>5
  <2>2. ASSUME NEW s \in Stopping PROVE f.chain_position < s.chain_position
    <3>1. g.chain_position < s.chain_position /\ s \in rows
      BY <1>2 DEF Good, Stopping
    <3>. QED BY <1>3, <1>4, <1>5, <3>1
  <2>. QED BY <2>1, <2>2 DEF Good
<1>6. PICK below : below = {f \in Page : f.chain_position < g.chain_position}
  OBVIOUS
<1>7. g.previous_hash = IF below = {} THEN ver.prev_hash ELSE Last(below).entry_hash
  BY <1>4, <1>6 DEF Expected
<1>8. CASE below = {}
  <2>1. \A f \in rows : ~(ver.after < f.chain_position /\ f.chain_position < g.chain_position)
    BY <1>2, <1>4, <1>6, <1>8
  <2>. QED BY <1>4, <1>5, <1>7, <1>8, <2>1
<1>9. CASE below # {}
  <2>1. PICK p \in below : g.previous_hash = p.entry_hash
    <3>1. below \subseteq rows
      BY <1>2, <1>6
    <3>. QED BY <1>7, <1>9, <3>1, LastIs
  <2>2. p \in rows /\ ver.after < p.chain_position /\ p.chain_position < g.chain_position
    BY <1>1, <1>2, <1>3, <1>6
  <2>3. p \in Good
    BY <1>5, <2>2
  <2>4. HashOf(p.entry_hash, p.entry_id, p.chain_position)
    BY <1>4, <2>3
  <2>5. PICK w \in written : /\ IsAppended(w) /\ g.previous_hash = w.previous_hash
                             /\ g.chain_position = w.chain_position
    BY <1>4
  <2>6. w.chain_position # 1
    BY <1>3, <1>4, <2>2, <2>5
  <2>7. HashOf(p.entry_hash, p.entry_hash[2], g.chain_position - 1)
    <3>1. p.entry_hash = w.previous_hash /\ p.entry_hash # Garbage
      BY <2>1, <2>4, <2>5, HashTells
    <3>. QED BY <2>5, <2>6, <3>1 DEF IsAppended
  <2>8. p.chain_position = g.chain_position - 1
    BY <2>4, <2>7, HashTells
  <2>. QED BY <1>4, <1>5, <2>1, <2>3, <2>8
<1>. QED BY <1>8, <1>9

\* The entries the walk passes lie without a gap, and the first links to prev_hash.
LEMMA RunIs ==
    ASSUME RowsInv, ver.after \in Nat, ver.end \in Int, Good # {}
    PROVE  \E F \in Good :
             /\ \A g \in Good : F.chain_position <= g.chain_position /\ g.chain_position <= Last(Good).chain_position
             /\ Last(Good) \in Good
             /\ F.previous_hash = ver.prev_hash
             /\ \A f \in rows : ~(ver.after < f.chain_position /\ f.chain_position < F.chain_position)
             /\ \A q \in F.chain_position..Last(Good).chain_position : \E g \in Good : g.chain_position = q
             /\ Cardinality(Good) = Last(Good).chain_position - F.chain_position + 1
<1>1. Good \subseteq rows /\ \A g \in Good : g.chain_position \in Nat \ {0}
  BY GoodIs, RowIs, VerifyAssumption DEF IsRow
<1>2. PICK F \in Good : \A g \in Good : F.chain_position <= g.chain_position
  BY <1>1, FirstIs
<1>3. PICK L : L = Last(Good) /\ L \in Good /\ \A g \in Good : g.chain_position <= L.chain_position
  BY <1>1, LastIs
<1>4. /\ F.previous_hash = ver.prev_hash
      /\ \A f \in rows : ~(ver.after < f.chain_position /\ f.chain_position < F.chain_position)
  <2>1. ~\E p \in Good : p.chain_position = F.chain_position - 1
    BY <1>1, <1>2
  <2>. QED BY <2>1, GoodIs
<1>5. ASSUME NEW q \in F.chain_position..L.chain_position PROVE \E g \in Good : g.chain_position = q
  <2>. SUFFICES ASSUME \A g \in Good : g.chain_position # q PROVE FALSE
    OBVIOUS
  <2>1. PICK X : X = {g \in Good : g.chain_position > q}
    OBVIOUS
  <2>2. X \subseteq rows /\ X # {}
    BY <1>1, <1>3, <2>1
  <2>3. PICK x \in X : \A y \in X : x.chain_position <= y.chain_position
    BY <2>2, FirstIs
  <2>4. x \in Good /\ x.chain_position > q /\ x.chain_position > F.chain_position
    BY <1>1, <1>2, <2>1
  <2>5. PICK p \in Good : p.chain_position = x.chain_position - 1
    <3>1. F \in rows /\ ver.after < F.chain_position /\ F.chain_position < x.chain_position
      BY <1>1, <2>4, GoodIs
    <3>. QED BY <2>4, <3>1, GoodIs
  <2>6. p.chain_position > q
    BY <1>1, <2>4, <2>5
  <2>7. p \in X
    BY <2>1, <2>6
  <2>. QED BY <1>1, <2>3, <2>4, <2>5, <2>7
<1>6. Cardinality(Good) = L.chain_position - F.chain_position + 1
  <2>1. PICK f : f = [g \in Good |-> g.chain_position]
    OBVIOUS
  <2>2. PICK I : I = F.chain_position..L.chain_position
    OBVIOUS
  <2>3. f \in [Good -> I]
    BY <1>1, <1>2, <1>3, <2>1, <2>2
  <2>4. \A g, h \in Good : f[g] = f[h] => g = h
    BY <1>1, <2>1 DEF RowsInv, Stored
  <2>5. \A q \in I : \E g \in Good : f[g] = q
    BY <1>5, <2>1, <2>2
  <2>6. f \in Bijection(Good, I)
    BY <2>3, <2>4, <2>5 DEF Bijection, Injection, Surjection, IsInjective
  <2>7. IsFiniteSet(Good)
    BY <1>1, FS_Subset DEF RowsInv
  <2>8. Cardinality(Good) = Cardinality(I)
    BY <2>6, <2>7, FS_Bijection DEF ExistsBijection
  <2>9. F.chain_position \in Int /\ L.chain_position \in Int /\ F.chain_position <= L.chain_position
    BY <1>1, <1>2, <1>3
  <2>10. Cardinality(I) = IF F.chain_position > L.chain_position THEN 0 ELSE L.chain_position - F.chain_position + 1
    BY <2>2, <2>9, FS_Interval
  <2>. QED BY <2>8, <2>9, <2>10
<1>. QED BY <1>2, <1>3, <1>4, <1>5, <1>6

\* The locals of a call, all of them.
IsCall(c) ==
    c = [pc |-> c.pc, op |-> c.op, start_entry_id |-> c.start_entry_id,
         end_entry_id |-> c.end_entry_id, start |-> c.start, end |-> c.end,
         prev_hash |-> c.prev_hash, after |-> c.after, checked |-> c.checked,
         outcome |-> c.outcome, before |-> c.before, accepted |-> c.accepted]

\* The locals of a call that do not move with the walk.
SameRange(c, d) ==
    /\ c.op = d.op /\ c.start_entry_id = d.start_entry_id /\ c.end_entry_id = d.end_entry_id
    /\ c.start = d.start /\ c.end = d.end /\ c.before = d.before /\ c.accepted = d.accepted

\* The locals behind the entries the walk passed.
LEMMA WalkedIs ==
    ASSUME RowsInv, CallInv, ver.pc = "batch", NEW c, c = Walked(Good)
    PROVE  /\ IsCall(c) /\ SameRange(c, ver) /\ c.pc = "batch" /\ c.outcome = "none"
           /\ c.after \in ver.after..MaxLen /\ c.checked \in Nat
           /\ c.checked <= c.after - c.start + 1
           /\ Good = {} => c = ver
           /\ Good # {} => /\ c.after = Last(Good).chain_position
                           /\ c.prev_hash = Last(Good).entry_hash
                           /\ c.checked = ver.checked + Cardinality(Good)
                           /\ ver.after < c.after
                           /\ HashOf(c.prev_hash, c.prev_hash[2], c.after)
           /\ \A g \in Good : g.chain_position <= c.after
           /\ \A e \in Stopping : e \in rows /\ e.chain_position > c.after /\ e.chain_position <= MaxLen
<1>1. /\ IsCall(ver) /\ ver.after \in 0..MaxLen /\ ver.checked \in 0..MaxLen /\ ver.start \in 1..MaxLen
      /\ ver.end \in 1..OpenEnd /\ ver.outcome = "none" /\ WalkInv
  BY DEF CallInv, IsCall
<1>2. MaxLen \in Nat /\ ver.after \in Nat /\ ver.end \in Int /\ ver.checked \in Nat /\ ver.start \in Nat
  BY <1>1, VerifyAssumption DEF OpenEnd
<1>3. ver.checked <= ver.after - ver.start + 1
  BY <1>1 DEF WalkInv
<1>4. \A r \in rows : r.chain_position \in 1..MaxLen
  BY RowIs DEF IsRow
<1>5. \A e \in Stopping : e \in rows /\ e.chain_position > ver.after
  BY <1>2, PagedIs, VerifyAssumption DEF Stopping, Page
<1>6. CASE Good = {}
  <2>1. c = ver
    BY <1>6 DEF Walked
  <2>. QED BY <1>1, <1>2, <1>3, <1>4, <1>5, <1>6, <2>1 DEF SameRange
<1>7. CASE Good # {}
  <2>1. PICK n, L : n = Cardinality(Good) /\ L = Last(Good)
    OBVIOUS
  <2>2. c = [ver EXCEPT !.checked = @ + n, !.after = L.chain_position, !.prev_hash = L.entry_hash]
    BY <1>7, <2>1 DEF Walked
  <2>3. c = [pc |-> ver.pc, op |-> ver.op, start_entry_id |-> ver.start_entry_id,
             end_entry_id |-> ver.end_entry_id, start |-> ver.start, end |-> ver.end,
             prev_hash |-> L.entry_hash, after |-> L.chain_position, checked |-> ver.checked + n,
             outcome |-> ver.outcome, before |-> ver.before, accepted |-> ver.accepted]
    BY <1>1, <2>2 DEF IsCall
  <2>4. PICK F \in Good : /\ L \in Good /\ F.chain_position <= L.chain_position
                          /\ \A g \in Good : g.chain_position <= L.chain_position
                          /\ n = L.chain_position - F.chain_position + 1
    BY <1>2, <1>7, <2>1, RunIs
  <2>5. /\ L \in rows /\ F \in rows /\ L.chain_position > ver.after /\ F.chain_position > ver.after
        /\ HashOf(L.entry_hash, L.entry_id, L.chain_position)
    BY <1>2, <2>4, GoodIs
  <2>6. L.chain_position \in 1..MaxLen /\ F.chain_position \in 1..MaxLen
    BY <1>4, <2>5
  <2>7. n \in Nat /\ ver.checked + n <= L.chain_position - ver.start + 1 /\ ver.checked + n \in Nat
    BY <1>2, <1>3, <2>4, <2>5, <2>6
  <2>8. HashOf(L.entry_hash, L.entry_hash[2], L.chain_position)
    BY <2>5, HashTells
  <2>9. \A e \in Stopping : L.chain_position < e.chain_position
    BY <2>4 DEF Good
  <2>10. IsCall(c) /\ SameRange(c, ver) /\ c.pc = "batch" /\ c.outcome = "none"
    BY <1>1, <2>3 DEF IsCall, SameRange
  <2>11. /\ c.after = L.chain_position /\ c.prev_hash = L.entry_hash /\ c.checked = ver.checked + n
         /\ c.start = ver.start
    BY <2>3
  <2>12. c.after \in ver.after..MaxLen /\ c.checked \in Nat /\ c.checked <= c.after - c.start + 1
    BY <1>2, <2>5, <2>6, <2>7, <2>11
  <2>13. \A e \in Stopping : e \in rows /\ e.chain_position > c.after /\ e.chain_position <= MaxLen
    BY <1>4, <1>5, <2>6, <2>9, <2>11
  <2>14. ver.after < c.after
    BY <1>2, <2>5, <2>6, <2>11
  <2>. QED BY <1>7, <2>1, <2>4, <2>8, <2>10, <2>11, <2>12, <2>13, <2>14
<1>. QED BY <1>6, <1>7

\* What reading a page comes to: the call ends at an entry past the range, at a mismatch or
\* behind the last page, or the walk goes on.
LEMMA ReadBatchIs ==
    ASSUME RowsInv, CallInv, ReadBatch
    PROVE  \E c : /\ c = Walked(Good) /\ ver.pc = "batch"
                  /\ \/ /\ ver' = [c EXCEPT !.pc = "done", !.outcome = "valid"]
                        /\ \/ \E e \in Stopping : /\ e.chain_position > ver.end
                                                  /\ \A f \in Stopping : e.chain_position <= f.chain_position
                           \/ Stopping = {} /\ LastPage(Page)
                     \/ \E e \in Stopping :
                          /\ ver' = [c EXCEPT !.pc = "done", !.outcome = Mismatch(e, Page), !.checked = @ + 1]
                          /\ e.chain_position <= ver.end /\ Mismatch(e, Page) # "no"
                          /\ \A f \in Stopping : e.chain_position <= f.chain_position
                     \/ ver' = c /\ Stopping = {} /\ ~LastPage(Page)
<1>1. PICK B, T, c : B = Page /\ T = Stopping /\ c = Walked(Good)
  OBVIOUS
<1>2. ver.pc = "batch"
  BY DEF ReadBatch
<1>3. IsCall(c) /\ c.checked \in Nat /\ ver.end \in Int
  BY <1>1, <1>2, WalkedIs, VerifyAssumption DEF CallInv, OpenEnd
<1>4. \A e \in T : e \in rows /\ e.chain_position \in Int
  BY <1>1, <1>2, WalkedIs, RowIs, VerifyAssumption DEF IsRow
<1>5. /\ B = Paged(ver.after, BatchSize) /\ T = {e \in B : Stops(e, B)}
      /\ c = Walked({e \in B : \A f \in T : e.chain_position < f.chain_position})
  BY <1>1 DEF Page, Stopping, Good
<1>6. \/ \E e \in T :
           /\ \A f \in T : e.chain_position <= f.chain_position
           /\ IF e.chain_position > ver.end
              THEN ver' = [c EXCEPT !.pc = "done", !.outcome = "valid", !.checked = @ + 0]
              ELSE ver' = [c EXCEPT !.pc = "done", !.outcome = Mismatch(e, B), !.checked = @ + 1]
      \/ /\ T = {} /\ LastPage(B)
         /\ ver' = [c EXCEPT !.pc = "done", !.outcome = "valid", !.checked = @ + 0]
      \/ T = {} /\ ~LastPage(B) /\ ver' = c
  BY <1>5 DEF ReadBatch
<1>7. [c EXCEPT !.pc = "done", !.outcome = "valid", !.checked = @ + 0]
        = [c EXCEPT !.pc = "done", !.outcome = "valid"]
  <2>1. PICK k, l : k = c.checked /\ l = k + 0
    OBVIOUS
  <2>2. l = k
    BY <1>3, <2>1
  <2>3. PICK d, e : /\ d = [c EXCEPT !.pc = "done", !.outcome = "valid", !.checked = l]
                    /\ e = [c EXCEPT !.pc = "done", !.outcome = "valid"]
    OBVIOUS
  <2>4. d = [pc |-> "done", op |-> c.op, start_entry_id |-> c.start_entry_id,
             end_entry_id |-> c.end_entry_id, start |-> c.start, end |-> c.end,
             prev_hash |-> c.prev_hash, after |-> c.after, checked |-> k,
             outcome |-> "valid", before |-> c.before, accepted |-> c.accepted]
    BY <1>3, <2>2, <2>3 DEF IsCall
  <2>5. e = [pc |-> "done", op |-> c.op, start_entry_id |-> c.start_entry_id,
             end_entry_id |-> c.end_entry_id, start |-> c.start, end |-> c.end,
             prev_hash |-> c.prev_hash, after |-> c.after, checked |-> k,
             outcome |-> "valid", before |-> c.before, accepted |-> c.accepted]
    BY <1>3, <2>1, <2>3 DEF IsCall
  <2>. QED BY <2>1, <2>3, <2>4, <2>5
<1>8. \A e \in T : ~(e.chain_position > ver.end) => e.chain_position <= ver.end /\ Mismatch(e, B) # "no"
  BY <1>3, <1>4, <1>5 DEF Stops
<1>. QED BY <1>1, <1>2, <1>6, <1>7, <1>8

-----------------------------------------------------------------------------
(* The locals of a call *)

\* A new call is a call, with the locals of verify_chain at their defaults.
LEMMA NewCallIs ==
    ASSUME NEW pc, NEW op, NEW s, NEW t, NEW c, c = NewCall(pc, op, s, t)
    PROVE  /\ IsCall(c)
           /\ c = [pc |-> pc, op |-> op, start_entry_id |-> s, end_entry_id |-> t, start |-> 1,
                   end |-> OpenEnd, prev_hash |-> Genesis, after |-> 0, checked |-> 0,
                   outcome |-> "none", before |-> rows, accepted |-> written]
BY DEF NewCall, IsCall

\* No call is in progress.
LEMMA NoCallIs ==
    NoCall = [pc |-> "idle", op |-> "none", start_entry_id |-> NoId, end_entry_id |-> NoId, start |-> 1,
              end |-> OpenEnd, prev_hash |-> Genesis, after |-> 0, checked |-> 0,
              outcome |-> "none", before |-> {}, accepted |-> {}]
<1>1. PICK c : c = NewCall("idle", "none", NoId, NoId)
  OBVIOUS
<1>2. c = [pc |-> "idle", op |-> "none", start_entry_id |-> NoId, end_entry_id |-> NoId, start |-> 1,
           end |-> OpenEnd, prev_hash |-> Genesis, after |-> 0, checked |-> 0,
           outcome |-> "none", before |-> rows, accepted |-> written]
  BY <1>1, NewCallIs
<1>3. PICK d : d = [c EXCEPT !.before = {}, !.accepted = {}]
  OBVIOUS
<1>4. d = [pc |-> "idle", op |-> "none", start_entry_id |-> NoId, end_entry_id |-> NoId, start |-> 1,
           end |-> OpenEnd, prev_hash |-> Genesis, after |-> 0, checked |-> 0,
           outcome |-> "none", before |-> {}, accepted |-> {}]
  BY <1>2, <1>3
<1>. QED BY <1>1, <1>3, <1>4 DEF NoCall

\* The bounds of the locals at the start.
LEMMA BoundsAre ==
    1 \in 1..MaxLen /\ OpenEnd \in 1..OpenEnd /\ 0 \in 0..MaxLen /\ OpenEnd \in Nat /\ 1..MaxLen \subseteq 1..OpenEnd
BY VerifyAssumption DEF OpenEnd

\* While the rows stay, so do the facts about them; a step of a call keeps its history, and
\* a new call begins it.
LEMMA StepKeepsRows ==
    ASSUME RowsInv, HistoryInv, Step,
           \/ ver'.before = ver.before /\ ver'.accepted = ver.accepted
           \/ ver'.before = rows /\ ver'.accepted = written
           \/ ver'.before = {} /\ ver'.accepted = {}
    PROVE  RowsInv' /\ HistoryInv'
<1>1. rows' = rows /\ written' = written
  BY DEF Step
<1>2. RowsInv'
  BY <1>1 DEF RowsInv, WrittenInv, GarbageInv, RewriteInv, CleanLinks
<1>3. CASE ver'.before = ver.before /\ ver'.accepted = ver.accepted
  BY <1>1, <1>2, <1>3 DEF HistoryInv
<1>4. CASE ver'.before = rows /\ ver'.accepted = written
  BY <1>1, <1>2, <1>4 DEF HistoryInv, RowsInv
<1>5. CASE ver'.before = {} /\ ver'.accepted = {}
  BY <1>1, <1>2, <1>5 DEF HistoryInv, Stored
<1>. QED BY <1>2, <1>3, <1>4, <1>5

\* A call that has its answer.
LEMMA DoneKeeps ==
    ASSUME RowsInv, HistoryInv, Step, IsCall(ver'), ver'.pc = "done",
           \/ ver'.before = ver.before /\ ver'.accepted = ver.accepted
           \/ ver'.before = rows /\ ver'.accepted = written,
           ver'.start \in 1..MaxLen, ver'.end \in 1..OpenEnd, ver'.after \in 0..MaxLen,
           ver'.checked \in 0..MaxLen, ver'.outcome \in Outcomes
    PROVE  VerifyInv'
<1>1. RowsInv' /\ HistoryInv'
  BY StepKeepsRows
<1>2. CallInv'
  BY DEF CallInv, IsCall
<1>. QED BY <1>1, <1>2 DEF VerifyInv

\* A call that ends without walking on.
LEMMA FinishKeeps ==
    ASSUME VerifyInv, Step, NEW o \in Outcomes, Finish(o)
    PROVE  VerifyInv' /\ IsCall(ver') /\ SameRange(ver', ver)
           /\ ver'.pc = "done" /\ ver'.outcome = o /\ ver'.after = ver.after /\ ver'.checked = ver.checked
<1>1. /\ RowsInv /\ HistoryInv /\ IsCall(ver) /\ ver.start \in 1..MaxLen /\ ver.end \in 1..OpenEnd
      /\ ver.after \in 0..MaxLen /\ ver.checked \in 0..MaxLen
  BY DEF VerifyInv, CallInv, IsCall
<1>2. PICK d : d = ver' /\ d = [ver EXCEPT !.pc = "done", !.outcome = o]
  BY DEF Finish
<1>3. d = [pc |-> "done", op |-> ver.op, start_entry_id |-> ver.start_entry_id,
           end_entry_id |-> ver.end_entry_id, start |-> ver.start, end |-> ver.end,
           prev_hash |-> ver.prev_hash, after |-> ver.after, checked |-> ver.checked,
           outcome |-> o, before |-> ver.before, accepted |-> ver.accepted]
  BY <1>1, <1>2 DEF IsCall
<1>4. /\ IsCall(d) /\ SameRange(d, ver) /\ d.pc = "done" /\ d.outcome = o /\ d.after = ver.after
      /\ d.checked = ver.checked
  BY <1>3 DEF IsCall, SameRange
<1>5. VerifyInv'
  BY <1>1, <1>2, <1>4, DoneKeeps DEF SameRange
<1>. QED BY <1>2, <1>4, <1>5

\* The boundary of a call is a position of the chain, or the default.
LEMMA BoundaryIs ==
    ASSUME RowsInv, NEW id, NEW default, NEW pos \in Boundary(id, default)
    PROVE  \/ id = NoId /\ pos = default
           \/ id # NoId /\ pos \in 1..MaxLen /\ \E e \in rows : e.entry_id = id /\ e.chain_position = pos
<1>1. CASE id = NoId
  BY <1>1 DEF Boundary
<1>2. CASE id # NoId
  <2>1. PICK e \in rows : e.entry_id = id /\ e.chain_position = pos
    BY <1>2 DEF Boundary
  <2>. QED BY <1>2, <2>1, RowIs DEF IsRow
<1>. QED BY <1>1, <1>2

\* ReadStart as a change of the locals.
LEMMA ReadStartIs ==
    ASSUME VerifyInv, ReadStart
    PROVE  /\ ver.pc = "start" /\ Step
           /\ \/ /\ Boundary(ver.start_entry_id, 1) = {}
                 /\ \E o \in {"invalid_argument", "not_found"} :
                      Finish(o) /\ (ver.start_entry_id # ForeignId => o = "not_found")
                                /\ (ver.start_entry_id = ForeignId => o = "invalid_argument")
              \/ \E pos \in 1..MaxLen :
                   /\ \/ ver.start_entry_id = NoId /\ pos = 1
                      \/ \E e \in rows : e.entry_id = ver.start_entry_id /\ e.chain_position = pos
                   /\ ver' = [pc |-> "end", op |-> ver.op, start_entry_id |-> ver.start_entry_id,
                              end_entry_id |-> ver.end_entry_id, start |-> pos, end |-> ver.end,
                              prev_hash |-> ver.prev_hash, after |-> pos - 1, checked |-> ver.checked,
                              outcome |-> ver.outcome, before |-> ver.before, accepted |-> ver.accepted]
<1>1. ver.pc = "start" /\ Step /\ RowsInv /\ IsCall(ver)
  BY DEF ReadStart, VerifyInv, CallInv, IsCall
<1>2. CASE Boundary(ver.start_entry_id, 1) = {} /\ Finish(BoundaryError(ver.start_entry_id))
  BY <1>1, <1>2 DEF BoundaryError
<1>3. ASSUME NEW pos \in Boundary(ver.start_entry_id, 1),
             ver' = [ver EXCEPT !.pc = "end", !.start = pos, !.after = pos - 1]
      PROVE  /\ pos \in 1..MaxLen
             /\ \/ ver.start_entry_id = NoId /\ pos = 1
                \/ \E e \in rows : e.entry_id = ver.start_entry_id /\ e.chain_position = pos
             /\ ver' = [pc |-> "end", op |-> ver.op, start_entry_id |-> ver.start_entry_id,
                        end_entry_id |-> ver.end_entry_id, start |-> pos, end |-> ver.end,
                        prev_hash |-> ver.prev_hash, after |-> pos - 1, checked |-> ver.checked,
                        outcome |-> ver.outcome, before |-> ver.before, accepted |-> ver.accepted]
  <2>1. /\ pos \in 1..MaxLen
        /\ \/ ver.start_entry_id = NoId /\ pos = 1
           \/ \E e \in rows : e.entry_id = ver.start_entry_id /\ e.chain_position = pos
    BY <1>1, <1>3, BoundaryIs, BoundsAre
  <2>2. PICK q, d : q = pos - 1 /\ d = [ver EXCEPT !.pc = "end", !.start = pos, !.after = q]
    OBVIOUS
  <2>3. d = [pc |-> "end", op |-> ver.op, start_entry_id |-> ver.start_entry_id,
             end_entry_id |-> ver.end_entry_id, start |-> pos, end |-> ver.end,
             prev_hash |-> ver.prev_hash, after |-> q, checked |-> ver.checked,
             outcome |-> ver.outcome, before |-> ver.before, accepted |-> ver.accepted]
    BY <1>1, <2>2 DEF IsCall
  <2>. QED BY <1>3, <2>1, <2>2, <2>3
<1>. QED BY <1>1, <1>2, <1>3 DEF ReadStart

\* ReadEnd as a change of the locals.
LEMMA ReadEndIs ==
    ASSUME VerifyInv, ReadEnd
    PROVE  /\ ver.pc = "end" /\ Step
           /\ \/ /\ Boundary(ver.end_entry_id, OpenEnd) = {}
                 /\ \E o \in {"invalid_argument", "not_found"} :
                      Finish(o) /\ (ver.end_entry_id # ForeignId => o = "not_found")
                                /\ (ver.end_entry_id = ForeignId => o = "invalid_argument")
              \/ Finish("invalid_argument")
              \/ \E pos \in 1..OpenEnd :
                   /\ \/ ver.end_entry_id = NoId /\ pos = OpenEnd
                      \/ \E e \in rows : e.entry_id = ver.end_entry_id /\ e.chain_position = pos
                   /\ ver.start <= pos
                   /\ ver' = [pc |-> IF ver.start = 1 THEN "batch" ELSE "predecessor", op |-> ver.op,
                              start_entry_id |-> ver.start_entry_id, end_entry_id |-> ver.end_entry_id,
                              start |-> ver.start, end |-> pos,
                              prev_hash |-> ver.prev_hash, after |-> ver.after, checked |-> ver.checked,
                              outcome |-> ver.outcome, before |-> ver.before, accepted |-> ver.accepted]
<1>1. ver.pc = "end" /\ Step /\ RowsInv /\ IsCall(ver) /\ ver.start \in 1..MaxLen
  BY DEF ReadEnd, VerifyInv, CallInv, IsCall
<1>2. CASE Boundary(ver.end_entry_id, OpenEnd) = {} /\ Finish(BoundaryError(ver.end_entry_id))
  BY <1>1, <1>2 DEF BoundaryError
<1>3. ASSUME NEW pos \in Boundary(ver.end_entry_id, OpenEnd), ~(ver.start > pos),
             ver' = [ver EXCEPT !.end = pos, !.pc = IF ver.start = 1 THEN "batch" ELSE "predecessor"]
      PROVE  /\ pos \in 1..OpenEnd
             /\ \/ ver.end_entry_id = NoId /\ pos = OpenEnd
                \/ \E e \in rows : e.entry_id = ver.end_entry_id /\ e.chain_position = pos
             /\ ver.start <= pos
             /\ ver' = [pc |-> IF ver.start = 1 THEN "batch" ELSE "predecessor", op |-> ver.op,
                        start_entry_id |-> ver.start_entry_id, end_entry_id |-> ver.end_entry_id,
                        start |-> ver.start, end |-> pos,
                        prev_hash |-> ver.prev_hash, after |-> ver.after, checked |-> ver.checked,
                        outcome |-> ver.outcome, before |-> ver.before, accepted |-> ver.accepted]
  <2>1. /\ pos \in 1..OpenEnd
        /\ \/ ver.end_entry_id = NoId /\ pos = OpenEnd
           \/ \E e \in rows : e.entry_id = ver.end_entry_id /\ e.chain_position = pos
    BY <1>1, <1>3, BoundaryIs, BoundsAre
  <2>2. ver.start <= pos
    BY <1>1, <1>3, <2>1, BoundsAre, VerifyAssumption
  <2>3. PICK q, d : /\ q = IF ver.start = 1 THEN "batch" ELSE "predecessor"
                    /\ d = [ver EXCEPT !.end = pos, !.pc = q]
    OBVIOUS
  <2>4. d = [pc |-> q, op |-> ver.op, start_entry_id |-> ver.start_entry_id,
             end_entry_id |-> ver.end_entry_id, start |-> ver.start, end |-> pos,
             prev_hash |-> ver.prev_hash, after |-> ver.after, checked |-> ver.checked,
             outcome |-> ver.outcome, before |-> ver.before, accepted |-> ver.accepted]
    BY <1>1, <2>3 DEF IsCall
  <2>. QED BY <1>3, <2>1, <2>2, <2>3, <2>4
<1>. QED BY <1>1, <1>2, <1>3 DEF ReadEnd

\* ReadPredecessor as a change of the locals.
LEMMA ReadPredecessorIs ==
    ASSUME VerifyInv, ReadPredecessor
    PROVE  /\ ver.pc = "predecessor" /\ Step
           /\ \/ Paged(ver.start - 2, 1) = {} /\ Finish("predecessor_not_found")
              \/ \E e \in Paged(ver.start - 2, 1) :
                   ver' = [pc |-> "batch", op |-> ver.op, start_entry_id |-> ver.start_entry_id,
                           end_entry_id |-> ver.end_entry_id, start |-> ver.start, end |-> ver.end,
                           prev_hash |-> e.entry_hash, after |-> ver.after, checked |-> ver.checked,
                           outcome |-> ver.outcome, before |-> ver.before, accepted |-> ver.accepted]
<1>1. IsCall(ver)
  BY DEF VerifyInv, CallInv, IsCall
<1>2. ASSUME NEW e, ver' = [ver EXCEPT !.pc = "batch", !.prev_hash = e.entry_hash]
      PROVE  ver' = [pc |-> "batch", op |-> ver.op, start_entry_id |-> ver.start_entry_id,
                     end_entry_id |-> ver.end_entry_id, start |-> ver.start, end |-> ver.end,
                     prev_hash |-> e.entry_hash, after |-> ver.after, checked |-> ver.checked,
                     outcome |-> ver.outcome, before |-> ver.before, accepted |-> ver.accepted]
  BY <1>1, <1>2 DEF IsCall
<1>. QED BY <1>2 DEF ReadPredecessor

\* The window begins at a position of the chain.
LEMMA WindowStartIs ==
    ASSUME NEW p \in 1..MaxLen
    PROVE  WindowStart(p) \in 1..MaxLen /\ WindowStart(p) <= p
BY VerifyAssumption DEF WindowStart

\* ReadTip as a change of the locals.
LEMMA ReadTipIs ==
    ASSUME VerifyInv, ReadTip
    PROVE  /\ ver.pc = "tip" /\ Step
           /\ \/ /\ rows = {}
                 /\ ver' = [pc |-> "start", op |-> ver.op, start_entry_id |-> ver.start_entry_id,
                            end_entry_id |-> ver.end_entry_id, start |-> ver.start, end |-> ver.end,
                            prev_hash |-> ver.prev_hash, after |-> ver.after, checked |-> ver.checked,
                            outcome |-> ver.outcome, before |-> ver.before, accepted |-> ver.accepted]
              \/ \E t \in rows :
                   /\ IsTip(t)
                   /\ ver' = [pc |-> IF WindowStart(t.chain_position) = 1 THEN "start" ELSE "window",
                              op |-> ver.op, start_entry_id |-> ver.start_entry_id,
                              end_entry_id |-> t.entry_id, start |-> WindowStart(t.chain_position), end |-> ver.end,
                              prev_hash |-> ver.prev_hash, after |-> ver.after, checked |-> ver.checked,
                              outcome |-> ver.outcome, before |-> ver.before, accepted |-> ver.accepted]
<1>1. IsCall(ver)
  BY DEF VerifyInv, CallInv, IsCall
<1>2. ASSUME ver' = [ver EXCEPT !.pc = "start"]
      PROVE  ver' = [pc |-> "start", op |-> ver.op, start_entry_id |-> ver.start_entry_id,
                     end_entry_id |-> ver.end_entry_id, start |-> ver.start, end |-> ver.end,
                     prev_hash |-> ver.prev_hash, after |-> ver.after, checked |-> ver.checked,
                     outcome |-> ver.outcome, before |-> ver.before, accepted |-> ver.accepted]
  BY <1>1, <1>2 DEF IsCall
<1>3. ASSUME NEW x, NEW s, NEW q, ver' = [ver EXCEPT !.end_entry_id = x, !.start = s, !.pc = q]
      PROVE  ver' = [pc |-> q, op |-> ver.op, start_entry_id |-> ver.start_entry_id,
                     end_entry_id |-> x, start |-> s, end |-> ver.end,
                     prev_hash |-> ver.prev_hash, after |-> ver.after, checked |-> ver.checked,
                     outcome |-> ver.outcome, before |-> ver.before, accepted |-> ver.accepted]
  BY <1>1, <1>3 DEF IsCall
<1>4. ASSUME NEW t \in rows, IsTip(t),
             ver' = [ver EXCEPT !.end_entry_id = t.entry_id, !.start = WindowStart(t.chain_position),
                                !.pc = IF WindowStart(t.chain_position) = 1 THEN "start" ELSE "window"]
      PROVE  ver' = [pc |-> IF WindowStart(t.chain_position) = 1 THEN "start" ELSE "window",
                     op |-> ver.op, start_entry_id |-> ver.start_entry_id,
                     end_entry_id |-> t.entry_id, start |-> WindowStart(t.chain_position), end |-> ver.end,
                     prev_hash |-> ver.prev_hash, after |-> ver.after, checked |-> ver.checked,
                     outcome |-> ver.outcome, before |-> ver.before, accepted |-> ver.accepted]
  <2>1. PICK x, s, q : /\ x = t.entry_id /\ s = WindowStart(t.chain_position)
                       /\ q = IF WindowStart(t.chain_position) = 1 THEN "start" ELSE "window"
    OBVIOUS
  <2>2. ver' = [ver EXCEPT !.end_entry_id = x, !.start = s, !.pc = q]
    BY <1>4, <2>1
  <2>3. ver' = [pc |-> q, op |-> ver.op, start_entry_id |-> ver.start_entry_id,
                end_entry_id |-> x, start |-> s, end |-> ver.end,
                prev_hash |-> ver.prev_hash, after |-> ver.after, checked |-> ver.checked,
                outcome |-> ver.outcome, before |-> ver.before, accepted |-> ver.accepted]
    BY <2>2, <1>3
  <2>. QED BY <2>1, <2>3
<1>5. CASE rows = {} /\ ver' = [ver EXCEPT !.pc = "start"]
  BY <1>2, <1>5 DEF ReadTip
<1>6. CASE \E t \in rows :
             /\ IsTip(t)
             /\ ver' = [ver EXCEPT !.end_entry_id = t.entry_id, !.start = WindowStart(t.chain_position),
                                   !.pc = IF WindowStart(t.chain_position) = 1 THEN "start" ELSE "window"]
  BY <1>4, <1>6 DEF ReadTip
<1>. QED BY <1>5, <1>6 DEF ReadTip

\* ReadWindow as a change of the locals.
LEMMA ReadWindowIs ==
    ASSUME VerifyInv, ReadWindow
    PROVE  /\ ver.pc = "window" /\ Step
           /\ \/ Paged(ver.start - 1, 1) = {} /\ Finish("window_start_not_found")
              \/ \E e \in Paged(ver.start - 1, 1) :
                   ver' = [pc |-> "start", op |-> ver.op, start_entry_id |-> e.entry_id,
                           end_entry_id |-> ver.end_entry_id, start |-> ver.start, end |-> ver.end,
                           prev_hash |-> ver.prev_hash, after |-> ver.after, checked |-> ver.checked,
                           outcome |-> ver.outcome, before |-> ver.before, accepted |-> ver.accepted]
<1>1. IsCall(ver)
  BY DEF VerifyInv, CallInv, IsCall
<1>2. ASSUME NEW e, ver' = [ver EXCEPT !.pc = "start", !.start_entry_id = e.entry_id]
      PROVE  ver' = [pc |-> "start", op |-> ver.op, start_entry_id |-> e.entry_id,
                     end_entry_id |-> ver.end_entry_id, start |-> ver.start, end |-> ver.end,
                     prev_hash |-> ver.prev_hash, after |-> ver.after, checked |-> ver.checked,
                     outcome |-> ver.outcome, before |-> ver.before, accepted |-> ver.accepted]
  BY <1>1, <1>2 DEF IsCall
<1>. QED BY <1>2 DEF ReadWindow

\* The read of verify_entry as a new call.
LEMMA VerifyEntryIs ==
    ASSUME NEW id, VerifyEntry(id), RowsInv
    PROVE  /\ ver.pc = "idle" /\ Step
           /\ \/ /\ \A e \in rows : e.entry_id # id
                 /\ ver' = [pc |-> "done", op |-> "entry", start_entry_id |-> id, end_entry_id |-> NoId,
                            start |-> 1, end |-> OpenEnd, prev_hash |-> Genesis, after |-> 0, checked |-> 0,
                            outcome |-> "not_found", before |-> rows, accepted |-> written]
              \/ \E e \in rows :
                   /\ e.entry_id = id /\ canonical_entry_hash_for_version(e) = None
                   /\ ver' = [pc |-> "done", op |-> "entry", start_entry_id |-> id, end_entry_id |-> NoId,
                              start |-> e.chain_position, end |-> OpenEnd, prev_hash |-> e.previous_hash,
                              after |-> 0, checked |-> 0, outcome |-> "unsupported_hash_version",
                              before |-> rows, accepted |-> written]
              \/ \E e \in rows :
                   /\ e.entry_id = id /\ canonical_entry_hash_for_version(e) # None
                   /\ ver' = [pc |-> "link", op |-> "entry", start_entry_id |-> id, end_entry_id |-> NoId,
                              start |-> e.chain_position, end |-> OpenEnd, prev_hash |-> e.previous_hash,
                              after |-> 0, checked |-> IF HashValid(e) THEN 1 ELSE 0, outcome |-> "none",
                              before |-> rows, accepted |-> written]
<1>1. ver.pc = "idle" /\ Step
  BY DEF VerifyEntry, Idle
<1>2. CASE /\ \A e \in rows : e.entry_id # id
           /\ ver' = [NewCall("done", "entry", id, NoId) EXCEPT !.outcome = "not_found"]
  <2>1. PICK c : c = NewCall("done", "entry", id, NoId)
    OBVIOUS
  <2>2. c = [pc |-> "done", op |-> "entry", start_entry_id |-> id, end_entry_id |-> NoId, start |-> 1,
             end |-> OpenEnd, prev_hash |-> Genesis, after |-> 0, checked |-> 0,
             outcome |-> "none", before |-> rows, accepted |-> written]
    BY <2>1, NewCallIs
  <2>3. ver' = [c EXCEPT !.outcome = "not_found"]
    BY <1>2, <2>1
  <2>4. ver' = [pc |-> "done", op |-> "entry", start_entry_id |-> id, end_entry_id |-> NoId,
                start |-> 1, end |-> OpenEnd, prev_hash |-> Genesis, after |-> 0, checked |-> 0,
                outcome |-> "not_found", before |-> rows, accepted |-> written]
    BY <2>2, <2>3
  <2>. QED BY <1>1, <1>2, <2>4
<1>3. ASSUME NEW e \in rows, e.entry_id = id, NEW c,
             c = [NewCall("link", "entry", id, NoId) EXCEPT
                    !.start = e.chain_position, !.prev_hash = e.previous_hash],
             ver' = IF canonical_entry_hash_for_version(e) = None
                    THEN [c EXCEPT !.pc = "done", !.outcome = "unsupported_hash_version"]
                    ELSE [c EXCEPT !.checked = IF HashValid(e) THEN 1 ELSE 0]
      PROVE  \/ /\ canonical_entry_hash_for_version(e) = None
                /\ ver' = [pc |-> "done", op |-> "entry", start_entry_id |-> id, end_entry_id |-> NoId,
                           start |-> e.chain_position, end |-> OpenEnd, prev_hash |-> e.previous_hash,
                           after |-> 0, checked |-> 0, outcome |-> "unsupported_hash_version",
                           before |-> rows, accepted |-> written]
             \/ /\ canonical_entry_hash_for_version(e) # None
                /\ ver' = [pc |-> "link", op |-> "entry", start_entry_id |-> id, end_entry_id |-> NoId,
                           start |-> e.chain_position, end |-> OpenEnd, prev_hash |-> e.previous_hash,
                           after |-> 0, checked |-> IF HashValid(e) THEN 1 ELSE 0, outcome |-> "none",
                           before |-> rows, accepted |-> written]
  <2>1. PICK b : b = NewCall("link", "entry", id, NoId)
    OBVIOUS
  <2>2. b = [pc |-> "link", op |-> "entry", start_entry_id |-> id, end_entry_id |-> NoId, start |-> 1,
             end |-> OpenEnd, prev_hash |-> Genesis, after |-> 0, checked |-> 0,
             outcome |-> "none", before |-> rows, accepted |-> written]
    BY <2>1, NewCallIs
  <2>3. c = [b EXCEPT !.start = e.chain_position, !.prev_hash = e.previous_hash]
    BY <1>3, <2>1
  <2>4. c = [pc |-> "link", op |-> "entry", start_entry_id |-> id, end_entry_id |-> NoId,
             start |-> e.chain_position, end |-> OpenEnd, prev_hash |-> e.previous_hash,
             after |-> 0, checked |-> 0, outcome |-> "none", before |-> rows, accepted |-> written]
    BY <2>2, <2>3
  <2>5. PICK k : k = IF HashValid(e) THEN 1 ELSE 0
    OBVIOUS
  <2>6. CASE canonical_entry_hash_for_version(e) = None
    <3>1. ver' = [c EXCEPT !.pc = "done", !.outcome = "unsupported_hash_version"]
      BY <1>3, <2>6
    <3>2. ver' = [pc |-> "done", op |-> "entry", start_entry_id |-> id, end_entry_id |-> NoId,
                  start |-> e.chain_position, end |-> OpenEnd, prev_hash |-> e.previous_hash,
                  after |-> 0, checked |-> 0, outcome |-> "unsupported_hash_version",
                  before |-> rows, accepted |-> written]
      BY <2>4, <3>1
    <3>. QED BY <2>6, <3>2
  <2>7. CASE canonical_entry_hash_for_version(e) # None
    <3>1. ver' = [c EXCEPT !.checked = k]
      BY <1>3, <2>5, <2>7
    <3>2. ver' = [pc |-> "link", op |-> "entry", start_entry_id |-> id, end_entry_id |-> NoId,
                  start |-> e.chain_position, end |-> OpenEnd, prev_hash |-> e.previous_hash,
                  after |-> 0, checked |-> k, outcome |-> "none",
                  before |-> rows, accepted |-> written]
      BY <2>4, <3>1
    <3>. QED BY <2>5, <2>7, <3>2
  <2>. QED BY <2>6, <2>7
<1>4. CASE \E e \in rows :
             LET c == [NewCall("link", "entry", id, NoId) EXCEPT
                         !.start = e.chain_position, !.prev_hash = e.previous_hash]
             IN  /\ e.entry_id = id
                 /\ ver' = IF canonical_entry_hash_for_version(e) = None
                           THEN [c EXCEPT !.pc = "done", !.outcome = "unsupported_hash_version"]
                           ELSE [c EXCEPT !.checked = IF HashValid(e) THEN 1 ELSE 0]
  <2>1. PICK e \in rows :
             LET c == [NewCall("link", "entry", id, NoId) EXCEPT
                         !.start = e.chain_position, !.prev_hash = e.previous_hash]
             IN  /\ e.entry_id = id
                 /\ ver' = IF canonical_entry_hash_for_version(e) = None
                           THEN [c EXCEPT !.pc = "done", !.outcome = "unsupported_hash_version"]
                           ELSE [c EXCEPT !.checked = IF HashValid(e) THEN 1 ELSE 0]
    BY <1>4
  <2>2. PICK c : c = [NewCall("link", "entry", id, NoId) EXCEPT
                        !.start = e.chain_position, !.prev_hash = e.previous_hash]
    OBVIOUS
  <2>3. /\ e.entry_id = id
        /\ ver' = IF canonical_entry_hash_for_version(e) = None
                  THEN [c EXCEPT !.pc = "done", !.outcome = "unsupported_hash_version"]
                  ELSE [c EXCEPT !.checked = IF HashValid(e) THEN 1 ELSE 0]
    BY <2>1, <2>2
  <2>4. \/ /\ canonical_entry_hash_for_version(e) = None
           /\ ver' = [pc |-> "done", op |-> "entry", start_entry_id |-> id, end_entry_id |-> NoId,
                      start |-> e.chain_position, end |-> OpenEnd, prev_hash |-> e.previous_hash,
                      after |-> 0, checked |-> 0, outcome |-> "unsupported_hash_version",
                      before |-> rows, accepted |-> written]
        \/ /\ canonical_entry_hash_for_version(e) # None
           /\ ver' = [pc |-> "link", op |-> "entry", start_entry_id |-> id, end_entry_id |-> NoId,
                      start |-> e.chain_position, end |-> OpenEnd, prev_hash |-> e.previous_hash,
                      after |-> 0, checked |-> IF HashValid(e) THEN 1 ELSE 0, outcome |-> "none",
                      before |-> rows, accepted |-> written]
    BY <1>3, <2>2, <2>3
  <2>. QED BY <1>1, <2>3, <2>4
<1>. QED BY <1>2, <1>4 DEF VerifyEntry

\* verify_proof answers at once.
LEMMA VerifyProofIs ==
    ASSUME NEW id, VerifyProof(id)
    PROVE  /\ ver.pc = "idle" /\ Step
           /\ \E w \in written, o \in {"not_found", "unsupported_hash_version", "valid", "entry_hash_mismatch"} :
                /\ w.entry_id = id
                /\ \/ o = "not_found" /\ \A e \in rows : e.entry_hash # w.entry_hash
                   \/ /\ o # "not_found"
                      /\ \E e \in rows :
                           /\ e.entry_hash = w.entry_hash
                           /\ o = "valid" <=> HashValid(e) /\ canonical_entry_hash_for_version(e) # None
                /\ ver' = [pc |-> "done", op |-> "proof", start_entry_id |-> id, end_entry_id |-> NoId,
                           start |-> 1, end |-> OpenEnd, prev_hash |-> Genesis, after |-> 0, checked |-> 0,
                           outcome |-> o, before |-> rows, accepted |-> written]
<1>1. ver.pc = "idle" /\ Step
  BY DEF VerifyProof, Idle
<1>2. PICK c : c = NewCall("done", "proof", id, NoId)
  OBVIOUS
<1>3. c = [pc |-> "done", op |-> "proof", start_entry_id |-> id, end_entry_id |-> NoId, start |-> 1,
           end |-> OpenEnd, prev_hash |-> Genesis, after |-> 0, checked |-> 0,
           outcome |-> "none", before |-> rows, accepted |-> written]
  BY <1>2, NewCallIs
<1>4. \A o : ver' = [c EXCEPT !.outcome = o] =>
               ver' = [pc |-> "done", op |-> "proof", start_entry_id |-> id, end_entry_id |-> NoId,
                       start |-> 1, end |-> OpenEnd, prev_hash |-> Genesis, after |-> 0, checked |-> 0,
                       outcome |-> o, before |-> rows, accepted |-> written]
  BY <1>3
<1>5. PICK w \in written :
        /\ w.entry_id = id
        /\ \/ /\ \A e \in rows : e.entry_hash # w.entry_hash
              /\ ver' = [c EXCEPT !.outcome = "not_found"]
           \/ \E e \in rows :
                /\ e.entry_hash = w.entry_hash
                /\ ver' = [c EXCEPT !.outcome =
                             IF canonical_entry_hash_for_version(e) = None
                             THEN "unsupported_hash_version"
                             ELSE IF HashValid(e) THEN "valid" ELSE "entry_hash_mismatch"]
  BY <1>2 DEF VerifyProof
<1>6. CASE /\ \A e \in rows : e.entry_hash # w.entry_hash
           /\ ver' = [c EXCEPT !.outcome = "not_found"]
  BY <1>1, <1>4, <1>5, <1>6
<1>7. ASSUME NEW e \in rows, e.entry_hash = w.entry_hash,
             ver' = [c EXCEPT !.outcome =
                       IF canonical_entry_hash_for_version(e) = None
                       THEN "unsupported_hash_version"
                       ELSE IF HashValid(e) THEN "valid" ELSE "entry_hash_mismatch"]
      PROVE  \E o \in {"unsupported_hash_version", "valid", "entry_hash_mismatch"} :
               /\ o = "valid" <=> HashValid(e) /\ canonical_entry_hash_for_version(e) # None
               /\ ver' = [pc |-> "done", op |-> "proof", start_entry_id |-> id, end_entry_id |-> NoId,
                          start |-> 1, end |-> OpenEnd, prev_hash |-> Genesis, after |-> 0, checked |-> 0,
                          outcome |-> o, before |-> rows, accepted |-> written]
  <2>1. PICK o : o = IF canonical_entry_hash_for_version(e) = None
                     THEN "unsupported_hash_version"
                     ELSE IF HashValid(e) THEN "valid" ELSE "entry_hash_mismatch"
    OBVIOUS
  <2>2. ver' = [c EXCEPT !.outcome = o]
    BY <1>7, <2>1
  <2>3. /\ o \in {"unsupported_hash_version", "valid", "entry_hash_mismatch"}
        /\ o = "valid" <=> HashValid(e) /\ canonical_entry_hash_for_version(e) # None
    BY <2>1
  <2>. QED BY <1>4, <2>2, <2>3
<1>8. CASE \E e \in rows :
             /\ e.entry_hash = w.entry_hash
             /\ ver' = [c EXCEPT !.outcome =
                          IF canonical_entry_hash_for_version(e) = None
                          THEN "unsupported_hash_version"
                          ELSE IF HashValid(e) THEN "valid" ELSE "entry_hash_mismatch"]
  BY <1>1, <1>5, <1>7, <1>8
<1>. QED BY <1>5, <1>6, <1>8

-----------------------------------------------------------------------------
(* The invariant *)

\* It holds when the table is empty.
LEMMA InitHolds ==
    Init => VerifyInv
<1>. SUFFICES ASSUME Init PROVE VerifyInv
  OBVIOUS
<1>1. rows = {} /\ written = {} /\ ver = NoCall
  BY DEF Init
<1>2. ver = [pc |-> "idle", op |-> "none", start_entry_id |-> NoId, end_entry_id |-> NoId, start |-> 1,
             end |-> OpenEnd, prev_hash |-> Genesis, after |-> 0, checked |-> 0,
             outcome |-> "none", before |-> {}, accepted |-> {}]
  BY <1>1, NoCallIs
<1>3. IsFiniteSet(written) /\ Cardinality(written) = 0
  BY <1>1, FS_EmptySet
<1>4. RowsInv
  BY <1>1, <1>3, VerifyAssumption
     DEF RowsInv, WrittenInv, Stored, GarbageInv, RewriteInv, CleanLinks
<1>5. HistoryInv
  BY <1>1, <1>2 DEF HistoryInv, Stored
<1>6. CallInv
  BY <1>2, BoundsAre DEF CallInv, Outcomes
<1>. QED BY <1>4, <1>5, <1>6 DEF VerifyInv

\* It survives what happens between the reads of a call: the row read as the predecessor is
\* still there, or rows were damaged under the call.
LEMMA BetweenReadsKeeps ==
    ASSUME VerifyInv, (\E v \in {V2, V3} : Append(v)) \/ (\E e \in rows : Damage(e))
    PROVE  VerifyInv'
<1>1. RowsInv /\ HistoryInv /\ CallInv
  BY DEF VerifyInv
<1>2. RowsInv' /\ HistoryInv' /\ ver' = ver /\ written \subseteq written'
  BY <1>1, BetweenReads
<1>3. PredecessorInv => PredecessorInv'
  <2>. SUFFICES ASSUME PredecessorInv PROVE PredecessorInv'
    OBVIOUS
  <2>1. PICK r \in rows \cup written :
          /\ ver.prev_hash = r.entry_hash /\ r.chain_position >= ver.start - 1
          /\ r \in rows \/ Disturbed
          /\ r \in ver.accepted => r \in ver.before
    BY DEF PredecessorInv
  <2>2. /\ Disturbed => Disturbed'
        /\ r \in rows => r \in rows' \/ (r \in written' /\ Disturbed')
    BY <1>1, DisturbedStays
  <2>3. r \in rows' \cup written' /\ (r \in rows' \/ Disturbed')
    BY <1>2, <2>1, <2>2
  <2>. QED BY <1>2, <2>1, <2>3 DEF PredecessorInv
<1>4. WalkInv => WalkInv'
  BY <1>2, <1>3 DEF WalkInv
<1>5. CallInv'
  BY <1>1, <1>2, <1>4 DEF CallInv
<1>. QED BY <1>2, <1>5 DEF VerifyInv

\* The reads of verify_chain before the walk keep the invariant.
LEMMA PrepareKeeps ==
    ASSUME VerifyInv, ReadStart \/ ReadEnd \/ ReadTip \/ ReadWindow
    PROVE  VerifyInv'
<1>0. /\ RowsInv /\ HistoryInv /\ CallInv /\ IsCall(ver) /\ ver.start \in 1..MaxLen
      /\ ver.end \in 1..OpenEnd /\ ver.after \in 0..MaxLen /\ ver.checked \in 0..MaxLen
      /\ ver.outcome \in Outcomes /\ (ver.pc # "done" => ver.outcome = "none")
  BY DEF VerifyInv, CallInv, IsCall
<1>1. \A o \in {"invalid_argument", "not_found", "window_start_not_found"} : o \in Outcomes
  BY DEF Outcomes
<1>2. CASE ReadStart
  <2>1. Step /\ ver.pc = "start" /\ ver.op \in Walks /\ ver.checked = 0 /\ ver.prev_hash = Genesis
        /\ ver.end = OpenEnd
    BY <1>0, <1>2, ReadStartIs DEF CallInv
  <2>2. ASSUME NEW o \in {"invalid_argument", "not_found"}, Finish(o) PROVE VerifyInv'
    BY <1>1, <2>1, <2>2, FinishKeeps
  <2>3. ASSUME NEW pos \in 1..MaxLen,
               ver' = [pc |-> "end", op |-> ver.op, start_entry_id |-> ver.start_entry_id,
                       end_entry_id |-> ver.end_entry_id, start |-> pos, end |-> ver.end,
                       prev_hash |-> ver.prev_hash, after |-> pos - 1, checked |-> ver.checked,
                       outcome |-> ver.outcome, before |-> ver.before, accepted |-> ver.accepted]
        PROVE  VerifyInv'
    <3>1. pos - 1 \in 0..MaxLen
      BY VerifyAssumption
    <3>2. RowsInv' /\ HistoryInv'
      BY <1>0, <2>1, <2>3, StepKeepsRows
    <3>3. CallInv'
      BY <1>0, <2>1, <2>3, <3>1 DEF CallInv
    <3>. QED BY <3>2, <3>3 DEF VerifyInv
  <2>. QED BY <1>2, <2>2, <2>3, ReadStartIs
<1>3. CASE ReadEnd
  <2>1. /\ Step /\ ver.pc = "end" /\ ver.op \in Walks /\ ver.after = ver.start - 1 /\ ver.checked = 0
        /\ ver.prev_hash = Genesis
    BY <1>0, <1>3, ReadEndIs DEF CallInv
  <2>2. ASSUME NEW o \in {"invalid_argument", "not_found"}, Finish(o) PROVE VerifyInv'
    BY <1>1, <2>1, <2>2, FinishKeeps
  <2>3. ASSUME NEW pos \in 1..OpenEnd, ver.start <= pos,
               ver' = [pc |-> IF ver.start = 1 THEN "batch" ELSE "predecessor", op |-> ver.op,
                       start_entry_id |-> ver.start_entry_id, end_entry_id |-> ver.end_entry_id,
                       start |-> ver.start, end |-> pos,
                       prev_hash |-> ver.prev_hash, after |-> ver.after, checked |-> ver.checked,
                       outcome |-> ver.outcome, before |-> ver.before, accepted |-> ver.accepted]
        PROVE  VerifyInv'
    <3>1. RowsInv' /\ HistoryInv'
      BY <1>0, <2>1, <2>3, StepKeepsRows
    <3>2. /\ ver'.start = ver.start /\ ver'.end = pos /\ ver'.prev_hash = Genesis
          /\ ver'.after = ver.start - 1 /\ ver'.checked = 0 /\ ver'.op \in Walks
          /\ ver'.pc = IF ver.start = 1 THEN "batch" ELSE "predecessor"
          /\ ver'.outcome = "none" /\ IsCall(ver')
      BY <1>0, <2>1, <2>3 DEF IsCall
    <3>3. ver.start \in Nat \ {0}
      BY <1>0, VerifyAssumption
    <3>4. ver.start = 1 => WalkInv'
      BY <2>3, <3>2, <3>3 DEF WalkInv
    <3>5. ver'.start \in 1..MaxLen /\ ver'.after \in 0..MaxLen /\ ver'.checked \in 0..MaxLen
      BY <1>0, <2>1, <3>2
    <3>6. ver.start # 1 => ver'.start > 1 /\ ver'.start <= ver'.end
      BY <2>3, <3>2, <3>3
    <3>7. "none" \in Outcomes
      BY DEF Outcomes
    <3>8. CallInv'
      BY <3>2, <3>4, <3>5, <3>6, <3>7 DEF CallInv, IsCall
    <3>. QED BY <3>1, <3>8 DEF VerifyInv
  <2>. QED BY <1>3, <2>2, <2>3, ReadEndIs
<1>4. CASE ReadTip
  <2>1. /\ Step /\ ver.pc = "tip" /\ ver.op \in Walks /\ ver.after = 0 /\ ver.checked = 0
        /\ ver.prev_hash = Genesis /\ ver.end = OpenEnd /\ ver.op # "chain"
    BY <1>0, <1>4, ReadTipIs DEF CallInv
  <2>2. ASSUME NEW q \in {"start", "window"}, NEW x, NEW s \in 1..MaxLen, q = "window" => s # 1,
               ver' = [pc |-> q, op |-> ver.op, start_entry_id |-> ver.start_entry_id,
                       end_entry_id |-> x, start |-> s, end |-> ver.end,
                       prev_hash |-> ver.prev_hash, after |-> ver.after, checked |-> ver.checked,
                       outcome |-> ver.outcome, before |-> ver.before, accepted |-> ver.accepted]
        PROVE  VerifyInv'
    <3>1. RowsInv' /\ HistoryInv'
      BY <1>0, <2>1, <2>2, StepKeepsRows
    <3>2. q = "window" => s > 1
      BY <2>2
    <3>3. CallInv'
      BY <1>0, <2>1, <2>2, <3>2 DEF CallInv
    <3>. QED BY <3>1, <3>3 DEF VerifyInv
  <2>3. CASE ver' = [pc |-> "start", op |-> ver.op, start_entry_id |-> ver.start_entry_id,
                     end_entry_id |-> ver.end_entry_id, start |-> ver.start, end |-> ver.end,
                     prev_hash |-> ver.prev_hash, after |-> ver.after, checked |-> ver.checked,
                     outcome |-> ver.outcome, before |-> ver.before, accepted |-> ver.accepted]
    BY <1>0, <2>2, <2>3
  <2>4. ASSUME NEW t \in rows,
               ver' = [pc |-> IF WindowStart(t.chain_position) = 1 THEN "start" ELSE "window",
                       op |-> ver.op, start_entry_id |-> ver.start_entry_id,
                       end_entry_id |-> t.entry_id, start |-> WindowStart(t.chain_position), end |-> ver.end,
                       prev_hash |-> ver.prev_hash, after |-> ver.after, checked |-> ver.checked,
                       outcome |-> ver.outcome, before |-> ver.before, accepted |-> ver.accepted]
        PROVE  VerifyInv'
    <3>1. PICK q, x, s : /\ q = IF WindowStart(t.chain_position) = 1 THEN "start" ELSE "window"
                         /\ x = t.entry_id /\ s = WindowStart(t.chain_position)
      OBVIOUS
    <3>2. s \in 1..MaxLen
      BY <1>0, <3>1, RowIs, WindowStartIs DEF IsRow
    <3>. QED BY <2>2, <2>4, <3>1, <3>2
  <2>. QED BY <1>4, <2>3, <2>4, ReadTipIs
<1>5. CASE ReadWindow
  <2>1. /\ Step /\ ver.pc = "window" /\ ver.op \in Walks /\ ver.after = 0 /\ ver.checked = 0
        /\ ver.prev_hash = Genesis /\ ver.end = OpenEnd /\ ver.op # "chain"
    BY <1>0, <1>5, ReadWindowIs DEF CallInv
  <2>2. CASE Finish("window_start_not_found")
    BY <1>1, <2>1, <2>2, FinishKeeps
  <2>3. ASSUME NEW e \in Paged(ver.start - 1, 1),
               ver' = [pc |-> "start", op |-> ver.op, start_entry_id |-> e.entry_id,
                       end_entry_id |-> ver.end_entry_id, start |-> ver.start, end |-> ver.end,
                       prev_hash |-> ver.prev_hash, after |-> ver.after, checked |-> ver.checked,
                       outcome |-> ver.outcome, before |-> ver.before, accepted |-> ver.accepted]
        PROVE  VerifyInv'
    <3>1. RowsInv' /\ HistoryInv'
      BY <1>0, <2>1, <2>3, StepKeepsRows
    <3>2. CallInv'
      BY <1>0, <2>1, <2>3 DEF CallInv
    <3>. QED BY <3>1, <3>2 DEF VerifyInv
  <2>. QED BY <1>5, <2>2, <2>3, ReadWindowIs
<1>. QED BY <1>2, <1>3, <1>4, <1>5

\* The predecessor read keeps it: it is a row of the table, at or behind the predecessor.
LEMMA ReadPredecessorKeeps ==
    ASSUME VerifyInv, ReadPredecessor
    PROVE  VerifyInv'
<1>0. /\ RowsInv /\ HistoryInv /\ CallInv /\ IsCall(ver) /\ ver.start \in 1..MaxLen
      /\ ver.end \in 1..OpenEnd /\ ver.after \in 0..MaxLen /\ ver.checked \in 0..MaxLen
      /\ ver.outcome \in Outcomes /\ (ver.pc # "done" => ver.outcome = "none")
  BY DEF VerifyInv, CallInv, IsCall
<1>1. /\ Step /\ ver.pc = "predecessor" /\ ver.op \in Walks /\ ver.after = ver.start - 1 /\ ver.checked = 0
      /\ ver.start > 1 /\ ver.start <= ver.end
  BY <1>0, ReadPredecessorIs DEF CallInv
<1>2. CASE Finish("predecessor_not_found")
  BY <1>1, <1>2, FinishKeeps DEF Outcomes
<1>3. ASSUME NEW e \in Paged(ver.start - 2, 1),
             ver' = [pc |-> "batch", op |-> ver.op, start_entry_id |-> ver.start_entry_id,
                     end_entry_id |-> ver.end_entry_id, start |-> ver.start, end |-> ver.end,
                     prev_hash |-> e.entry_hash, after |-> ver.after, checked |-> ver.checked,
                     outcome |-> ver.outcome, before |-> ver.before, accepted |-> ver.accepted]
      PROVE  VerifyInv'
  <2>1. RowsInv' /\ HistoryInv'
    BY <1>0, <1>1, <1>3, StepKeepsRows
  <2>2. ver.start \in Nat /\ ver.start - 2 \in Int
    BY <1>0, VerifyAssumption
  <2>3. e \in rows /\ e.chain_position > ver.start - 2
    BY <1>0, <2>2, PageOfOne
  <2>4. e.chain_position >= ver.start - 1
    <3>1. e.chain_position \in Int
      BY <1>0, <2>3, RowIs DEF IsRow
    <3>. QED BY <2>2, <2>3, <3>1
  <2>5. /\ ver'.start = ver.start /\ ver'.prev_hash = e.entry_hash /\ ver'.end = ver.end
        /\ ver'.after = ver.start - 1 /\ ver'.checked = 0 /\ rows' = rows /\ written' = written
        /\ ver'.accepted = ver.accepted /\ ver'.before = ver.before
    BY <1>1, <1>3 DEF Step
  <2>6. e \in ver.accepted => e \in ver.before
    BY <1>0, <2>3 DEF HistoryInv
  <2>7. PredecessorInv'
    BY <2>3, <2>4, <2>5, <2>6 DEF PredecessorInv
  <2>8. WalkInv'
    BY <1>1, <2>2, <2>5, <2>7 DEF WalkInv
  <2>9. CallInv'
    BY <1>0, <1>1, <1>3, <2>8 DEF CallInv
  <2>. QED BY <2>1, <2>9 DEF VerifyInv
<1>. QED BY <1>2, <1>3, ReadPredecessorIs

\* Reading a page keeps it: what was counted lies between the start and where the walk is.
LEMMA ReadBatchKeeps ==
    ASSUME VerifyInv, ReadBatch
    PROVE  VerifyInv'
<1>0. /\ RowsInv /\ HistoryInv /\ CallInv /\ IsCall(ver) /\ ver.start \in 1..MaxLen
      /\ ver.end \in 1..OpenEnd /\ ver.after \in 0..MaxLen
  BY DEF VerifyInv, CallInv, IsCall
<1>1. Step /\ ver.pc = "batch" /\ ver.op \in Walks /\ WalkInv
  BY <1>0 DEF ReadBatch, CallInv
<1>2. PICK c : c = Walked(Good)
  OBVIOUS
<1>3. /\ IsCall(c) /\ SameRange(c, ver) /\ c.pc = "batch" /\ c.outcome = "none"
      /\ c.after \in ver.after..MaxLen /\ c.checked \in Nat
      /\ c.checked <= c.after - c.start + 1
      /\ Good = {} => c = ver
      /\ Good # {} => ver.after < c.after /\ HashOf(c.prev_hash, c.prev_hash[2], c.after)
      /\ \A e \in Stopping : e \in rows /\ e.chain_position > c.after /\ e.chain_position <= MaxLen
  BY <1>0, <1>1, <1>2, WalkedIs
<1>4. MaxLen \in Nat /\ c.start \in Nat \ {0} /\ c.after \in Nat /\ ver.after \in Nat
  BY <1>0, <1>3, VerifyAssumption DEF SameRange
<1>5. c.after \in 0..MaxLen /\ c.checked \in 0..MaxLen
  BY <1>3, <1>4
<1>6. ASSUME NEW o \in Outcomes, NEW k \in 0..MaxLen,
             ver' = [pc |-> "done", op |-> c.op, start_entry_id |-> c.start_entry_id,
                     end_entry_id |-> c.end_entry_id, start |-> c.start, end |-> c.end,
                     prev_hash |-> c.prev_hash, after |-> c.after, checked |-> k,
                     outcome |-> o, before |-> c.before, accepted |-> c.accepted]
      PROVE  VerifyInv'
  <2>1. /\ IsCall(ver') /\ ver'.pc = "done" /\ ver'.before = ver.before /\ ver'.accepted = ver.accepted
        /\ ver'.start = ver.start /\ ver'.end = ver.end /\ ver'.after = c.after /\ ver'.checked = k
        /\ ver'.outcome = o
    BY <1>3, <1>6 DEF IsCall, SameRange
  <2>. QED BY <1>0, <1>1, <1>5, <1>6, <2>1, DoneKeeps
<1>7. CASE ver' = [c EXCEPT !.pc = "done", !.outcome = "valid"]
  <2>1. ver' = [pc |-> "done", op |-> c.op, start_entry_id |-> c.start_entry_id,
                end_entry_id |-> c.end_entry_id, start |-> c.start, end |-> c.end,
                prev_hash |-> c.prev_hash, after |-> c.after, checked |-> c.checked,
                outcome |-> "valid", before |-> c.before, accepted |-> c.accepted]
    BY <1>3, <1>7 DEF IsCall
  <2>2. "valid" \in Outcomes
    BY DEF Outcomes
  <2>. QED BY <1>5, <1>6, <2>1, <2>2
<1>8. ASSUME NEW e \in Stopping, Mismatch(e, Page) # "no",
             ver' = [c EXCEPT !.pc = "done", !.outcome = Mismatch(e, Page), !.checked = @ + 1]
      PROVE  VerifyInv'
  <2>1. PICK o, k : o = Mismatch(e, Page) /\ k = c.checked + 1
    OBVIOUS
  <2>2. ver' = [c EXCEPT !.pc = "done", !.outcome = o, !.checked = k]
    BY <1>8, <2>1
  <2>3. ver' = [pc |-> "done", op |-> c.op, start_entry_id |-> c.start_entry_id,
                end_entry_id |-> c.end_entry_id, start |-> c.start, end |-> c.end,
                prev_hash |-> c.prev_hash, after |-> c.after, checked |-> k,
                outcome |-> o, before |-> c.before, accepted |-> c.accepted]
    BY <1>3, <2>2 DEF IsCall
  <2>4. o \in Outcomes
    BY <1>8, <2>1, MismatchIs DEF Outcomes
  <2>5. e.chain_position \in Int
    BY <1>0, <1>3, <1>8, RowIs DEF IsRow
  <2>6. c.after < MaxLen
    BY <1>3, <1>4, <1>8, <2>5
  <2>7. k \in 0..MaxLen
    BY <1>3, <1>4, <2>1, <2>6
  <2>. QED BY <1>6, <2>3, <2>4, <2>7
<1>9. CASE ver' = c
  <2>1. RowsInv' /\ HistoryInv'
    BY <1>0, <1>1, <1>3, <1>9, StepKeepsRows DEF SameRange
  <2>2. WalkInv'
    <3>1. CASE Good = {}
      <4>1. ver' = ver /\ rows' = rows /\ written' = written
        BY <1>1, <1>3, <1>9, <3>1 DEF Step
      <4>2. Disturbed' <=> Disturbed
        BY <4>1 DEF Disturbed
      <4>3. PredecessorInv' <=> PredecessorInv
        BY <4>1, <4>2 DEF PredecessorInv
      <4>. QED BY <1>1, <4>1, <4>3 DEF WalkInv
    <3>2. CASE Good # {}
      <4>1. ver'.start = ver.start /\ ver'.end = ver.end /\ ver'.start = c.start
        BY <1>3, <1>9 DEF SameRange
      <4>2. ver.start - 1 <= ver.after /\ ver.start <= ver.end
        BY <1>1 DEF WalkInv
      <4>3. c.start - 1 <= c.after /\ c.start <= c.after /\ ver'.start <= ver'.end
        BY <1>3, <1>4, <3>2, <4>1, <4>2
      <4>. QED BY <1>3, <1>9, <3>2, <4>1, <4>3 DEF WalkInv
    <3>. QED BY <3>1, <3>2
  <2>3. CallInv'
    BY <1>0, <1>1, <1>3, <1>5, <1>9, <2>2 DEF CallInv, IsCall, SameRange, Outcomes
  <2>. QED BY <2>1, <2>3 DEF VerifyInv
<1>10. PICK d : /\ d = Walked(Good)
                /\ \/ ver' = [d EXCEPT !.pc = "done", !.outcome = "valid"]
                   \/ \E e \in Stopping :
                        /\ ver' = [d EXCEPT !.pc = "done", !.outcome = Mismatch(e, Page), !.checked = @ + 1]
                        /\ Mismatch(e, Page) # "no"
                   \/ ver' = d
  BY <1>0, ReadBatchIs
<1>11. d = c
  BY <1>2, <1>10
<1>. QED BY <1>7, <1>8, <1>9, <1>10, <1>11

\* A call of verify_chain or verify_recent_chain begins.
LEMMA NewWalkIs ==
    ASSUME (\E s, t \in Ids : VerifyChain(s, t)) \/ VerifyRecentChain
    PROVE  /\ ver.pc = "idle" /\ Step
           /\ \E q, o, s, t :
                /\ \/ q = "start" /\ o = "chain"
                   \/ q = "tip" /\ o = "recent" /\ s = NoId /\ t = NoId
                /\ ver' = [pc |-> q, op |-> o, start_entry_id |-> s, end_entry_id |-> t, start |-> 1,
                           end |-> OpenEnd, prev_hash |-> Genesis, after |-> 0, checked |-> 0,
                           outcome |-> "none", before |-> rows, accepted |-> written]
<1>1. ASSUME NEW s, NEW t, VerifyChain(s, t)
      PROVE  /\ ver.pc = "idle" /\ Step
             /\ ver' = [pc |-> "start", op |-> "chain", start_entry_id |-> s, end_entry_id |-> t, start |-> 1,
                        end |-> OpenEnd, prev_hash |-> Genesis, after |-> 0, checked |-> 0,
                        outcome |-> "none", before |-> rows, accepted |-> written]
  BY <1>1, NewCallIs DEF VerifyChain, Idle
<1>2. CASE VerifyRecentChain
  <2>1. /\ ver.pc = "idle" /\ Step
        /\ ver' = [pc |-> "tip", op |-> "recent", start_entry_id |-> NoId, end_entry_id |-> NoId, start |-> 1,
                   end |-> OpenEnd, prev_hash |-> Genesis, after |-> 0, checked |-> 0,
                   outcome |-> "none", before |-> rows, accepted |-> written]
    BY <1>2, NewCallIs DEF VerifyRecentChain, Idle
  <2>. QED BY <2>1
<1>3. CASE \E s, t \in Ids : VerifyChain(s, t)
  BY <1>1, <1>3
<1>. QED BY <1>2, <1>3

\* ReadLink answers.
LEMMA ReadLinkIs ==
    ASSUME ReadLink
    PROVE  /\ ver.pc = "link" /\ Step
           /\ \E o \in {"entry_hash_mismatch", "valid", "chain_link_mismatch"} :
                /\ Finish(o) /\ (o = "entry_hash_mismatch" <=> ver.checked = 0)
                /\ o = "chain_link_mismatch" =>
                     ~(IF ver.start = 1 THEN ver.prev_hash = Genesis
                       ELSE \E f \in Paged(ver.start - 2, 1) : f.entry_hash = ver.prev_hash)
<1>1. PICK x : x = (IF ver.start = 1 THEN ver.prev_hash = Genesis
                    ELSE \E f \in Paged(ver.start - 2, 1) : f.entry_hash = ver.prev_hash)
  OBVIOUS
<1>2. PICK o : o = IF ver.checked = 0 THEN "entry_hash_mismatch"
                   ELSE IF x THEN "valid" ELSE "chain_link_mismatch"
  OBVIOUS
<1>3. ver.pc = "link" /\ Step /\ Finish(o)
  BY <1>1, <1>2 DEF ReadLink
<1>4. /\ o \in {"entry_hash_mismatch", "valid", "chain_link_mismatch"}
      /\ (o = "entry_hash_mismatch" <=> ver.checked = 0) /\ (o = "chain_link_mismatch" => ~x)
  BY <1>2
<1>. QED BY <1>1, <1>3, <1>4

\* The other operations keep the invariant.
LEMMA OthersKeep ==
    ASSUME VerifyInv,
           \/ (\E s, t \in Ids : VerifyChain(s, t)) \/ VerifyRecentChain
           \/ \E id \in 1..MaxLen : VerifyEntry(id) \/ VerifyProof(id)
           \/ ReadLink \/ DbError \/ Return
    PROVE  VerifyInv'
<1>0. RowsInv /\ HistoryInv /\ CallInv
  BY DEF VerifyInv
<1>1. CASE (\E s, t \in Ids : VerifyChain(s, t)) \/ VerifyRecentChain
  <2>1. PICK q, o, s, t :
          /\ \/ q = "start" /\ o = "chain"
             \/ q = "tip" /\ o = "recent"
          /\ ver' = [pc |-> q, op |-> o, start_entry_id |-> s, end_entry_id |-> t, start |-> 1,
                     end |-> OpenEnd, prev_hash |-> Genesis, after |-> 0, checked |-> 0,
                     outcome |-> "none", before |-> rows, accepted |-> written]
    BY <1>1, NewWalkIs
  <2>2. Step
    BY <1>1, NewWalkIs
  <2>3. RowsInv' /\ HistoryInv'
    BY <1>0, <2>1, <2>2, StepKeepsRows
  <2>4. CallInv'
    BY <2>1, BoundsAre DEF CallInv, Outcomes, Walks
  <2>. QED BY <2>3, <2>4 DEF VerifyInv
<1>2. ASSUME NEW id \in 1..MaxLen, VerifyEntry(id) PROVE VerifyInv'
  <2>1. Step
    BY <1>0, <1>2, VerifyEntryIs
  <2>2. ASSUME NEW o \in Outcomes, NEW h, NEW s \in 1..MaxLen,
               ver' = [pc |-> "done", op |-> "entry", start_entry_id |-> id, end_entry_id |-> NoId,
                       start |-> s, end |-> OpenEnd, prev_hash |-> h, after |-> 0, checked |-> 0,
                       outcome |-> o, before |-> rows, accepted |-> written]
        PROVE  VerifyInv'
    <3>1. /\ IsCall(ver') /\ ver'.pc = "done" /\ ver'.before = rows /\ ver'.accepted = written
          /\ ver'.start = s /\ ver'.end = OpenEnd /\ ver'.after = 0 /\ ver'.checked = 0
          /\ ver'.outcome = o
      BY <2>2 DEF IsCall
    <3>. QED BY <1>0, <2>1, <2>2, <3>1, BoundsAre, DoneKeeps
  <2>3. \A e \in rows : e.chain_position \in 1..MaxLen
    BY <1>0, RowIs DEF IsRow
  <2>4. "not_found" \in Outcomes /\ "unsupported_hash_version" \in Outcomes /\ "none" \in Outcomes
    BY DEF Outcomes
  <2>5. ASSUME NEW e \in rows,
               ver' = [pc |-> "link", op |-> "entry", start_entry_id |-> id, end_entry_id |-> NoId,
                       start |-> e.chain_position, end |-> OpenEnd, prev_hash |-> e.previous_hash,
                       after |-> 0, checked |-> IF HashValid(e) THEN 1 ELSE 0, outcome |-> "none",
                       before |-> rows, accepted |-> written]
        PROVE  VerifyInv'
    <3>1. PICK k : k = IF HashValid(e) THEN 1 ELSE 0
      OBVIOUS
    <3>2. k \in 0..MaxLen /\ k <= 1
      BY <3>1, VerifyAssumption
    <3>3. ver' = [pc |-> "link", op |-> "entry", start_entry_id |-> id, end_entry_id |-> NoId,
                  start |-> e.chain_position, end |-> OpenEnd, prev_hash |-> e.previous_hash,
                  after |-> 0, checked |-> k, outcome |-> "none", before |-> rows, accepted |-> written]
      BY <2>5, <3>1
    <3>4. RowsInv' /\ HistoryInv'
      BY <1>0, <2>1, <3>3, StepKeepsRows
    <3>5. CallInv'
      BY <2>3, <2>4, <3>2, <3>3, BoundsAre DEF CallInv
    <3>. QED BY <3>4, <3>5 DEF VerifyInv
  <2>. QED BY <1>0, <1>2, <2>2, <2>3, <2>4, <2>5, BoundsAre, VerifyEntryIs
<1>3. ASSUME NEW id \in 1..MaxLen, VerifyProof(id) PROVE VerifyInv'
  <2>1. PICK o \in {"not_found", "unsupported_hash_version", "valid", "entry_hash_mismatch"} :
             ver' = [pc |-> "done", op |-> "proof", start_entry_id |-> id, end_entry_id |-> NoId,
                     start |-> 1, end |-> OpenEnd, prev_hash |-> Genesis, after |-> 0, checked |-> 0,
                     outcome |-> o, before |-> rows, accepted |-> written]
    BY <1>3, VerifyProofIs
  <2>2. Step /\ o \in Outcomes
    BY <1>3, VerifyProofIs DEF Outcomes
  <2>3. /\ IsCall(ver') /\ ver'.pc = "done" /\ ver'.before = rows /\ ver'.accepted = written
        /\ ver'.start = 1 /\ ver'.end = OpenEnd /\ ver'.after = 0 /\ ver'.checked = 0
        /\ ver'.outcome = o
    BY <2>1 DEF IsCall
  <2>. QED BY <1>0, <2>2, <2>3, BoundsAre, DoneKeeps
<1>4. CASE ReadLink
  <2>1. PICK o \in Outcomes : Finish(o)
    BY <1>4, ReadLinkIs DEF Outcomes
  <2>. QED BY <1>4, <2>1, ReadLinkIs, FinishKeeps
<1>5. CASE DbError
  <2>1. "unavailable" \in Outcomes
    BY DEF Outcomes
  <2>. QED BY <1>5, <2>1, FinishKeeps DEF DbError
<1>6. CASE Return
  <2>1. Step /\ ver' = [pc |-> "idle", op |-> "none", start_entry_id |-> NoId, end_entry_id |-> NoId, start |-> 1,
                        end |-> OpenEnd, prev_hash |-> Genesis, after |-> 0, checked |-> 0,
                        outcome |-> "none", before |-> {}, accepted |-> {}]
    BY <1>6, NoCallIs DEF Return
  <2>2. RowsInv' /\ HistoryInv'
    BY <1>0, <2>1, StepKeepsRows
  <2>3. CallInv'
    BY <2>1, BoundsAre DEF CallInv, Outcomes
  <2>. QED BY <2>2, <2>3 DEF VerifyInv
<1>. QED BY <1>1, <1>2, <1>3, <1>4, <1>5, <1>6

\* The steps of the model, one by one.
LEMMA NextIs ==
    ASSUME Next
    PROVE  \/ (\E v \in {V2, V3} : Append(v)) \/ (\E e \in rows : Damage(e))
           \/ ReadStart \/ ReadEnd \/ ReadTip \/ ReadWindow
           \/ ReadPredecessor \/ ReadBatch
           \/ (\E s, t \in Ids : VerifyChain(s, t)) \/ VerifyRecentChain
           \/ \E id \in 1..MaxLen : VerifyEntry(id) \/ VerifyProof(id)
           \/ ReadLink \/ DbError \/ Return
BY DEF Next, VerifierStep

\* Every step keeps the invariant.
LEMMA StepHolds ==
    VerifyInv /\ [Next]_vars => VerifyInv'
<1>. SUFFICES ASSUME VerifyInv, [Next]_vars PROVE VerifyInv'
  OBVIOUS
<1>1. CASE Next
  BY <1>1, NextIs, BetweenReadsKeeps, PrepareKeeps, ReadPredecessorKeeps, ReadBatchKeeps, OthersKeep
<1>2. CASE UNCHANGED vars
  <2>1. Step /\ ver' = ver
    BY <1>2 DEF Step, vars
  <2>2. RowsInv' /\ HistoryInv'
    BY <2>1, StepKeepsRows DEF VerifyInv
  <2>3. Disturbed' <=> Disturbed
    BY <2>1 DEF Disturbed, Step
  <2>4. PredecessorInv' <=> PredecessorInv
    BY <2>1, <2>3 DEF PredecessorInv, Step
  <2>5. CallInv'
    BY <2>1, <2>4 DEF VerifyInv, CallInv, WalkInv
  <2>. QED BY <2>2, <2>5 DEF VerifyInv
<1>. QED BY <1>1, <1>2

\* The rows of a chain and the locals of every verification call are as they should be at
\* every read, whatever is appended or damaged in between.
THEOREM VerifyInvariant == Spec => []VerifyInv
BY InitHolds, StepHolds, PTL DEF Spec

\* The stored rows and the locals of verify_chain have their types: a call walks positions
\* of the chain only, and entries_checked never exceeds the chain.
THEOREM VerifyTypes == Spec => []TypeOK
<1>1. VerifyInv => TypeOK
  <2>. SUFFICES ASSUME VerifyInv PROVE TypeOK
    OBVIOUS
  <2>1. \A e \in rows \cup written : IsRow(e)
    BY RowIs, WrittenIs DEF VerifyInv, RowsInv
  <2>. QED BY <2>1 DEF VerifyInv, CallInv, TypeOK
<1>. QED BY <1>1, VerifyInvariant, PTL

-----------------------------------------------------------------------------
(* verify_entry and verify_proof *)

\* A read of verify_chain is a step of verify_chain or verify_recent_chain, which stays one.
LEMMA WalkStays ==
    ASSUME VerifyInv,
           ReadStart \/ ReadEnd \/ ReadTip \/ ReadWindow \/ ReadPredecessor \/ ReadBatch
    PROVE  /\ ver.op \in Walks /\ ver'.op = ver.op /\ Step /\ ver'.pc # "link" /\ ver'.pc # "idle"
           /\ ver'.before = ver.before /\ ver'.accepted = ver.accepted
<1>1. IsCall(ver) /\ RowsInv /\ CallInv
  BY DEF VerifyInv, CallInv, IsCall
<1>2. \A o \in Outcomes : Step /\ Finish(o) =>
          ver'.op = ver.op /\ ver'.pc = "done" /\ ver'.before = ver.before /\ ver'.accepted = ver.accepted
  BY FinishKeeps DEF SameRange
<1>3. {"invalid_argument", "not_found", "window_start_not_found", "predecessor_not_found"} \subseteq Outcomes
  BY DEF Outcomes
<1>4. CASE ReadStart
  <2>1. Step /\ ver.op \in Walks
    BY <1>1, <1>4, ReadStartIs DEF CallInv
  <2>. QED BY <1>2, <1>3, <1>4, <2>1, ReadStartIs
<1>5. CASE ReadEnd
  <2>1. Step /\ ver.op \in Walks
    BY <1>1, <1>5, ReadEndIs DEF CallInv
  <2>. QED BY <1>2, <1>3, <1>5, <2>1, ReadEndIs
<1>6. CASE ReadTip
  <2>1. Step /\ ver.op \in Walks
    BY <1>1, <1>6, ReadTipIs DEF CallInv
  <2>. QED BY <1>6, <2>1, ReadTipIs
<1>7. CASE ReadWindow
  <2>1. Step /\ ver.op \in Walks
    BY <1>1, <1>7, ReadWindowIs DEF CallInv
  <2>. QED BY <1>2, <1>3, <1>7, <2>1, ReadWindowIs
<1>8. CASE ReadPredecessor
  <2>1. Step /\ ver.op \in Walks
    BY <1>1, <1>8, ReadPredecessorIs DEF CallInv
  <2>. QED BY <1>2, <1>3, <1>8, <2>1, ReadPredecessorIs
<1>9. CASE ReadBatch
  <2>1. Step /\ ver.op \in Walks /\ ver.pc = "batch"
    BY <1>1, <1>9 DEF CallInv, ReadBatch
  <2>2. PICK c : c = Walked(Good)
    OBVIOUS
  <2>3. IsCall(c) /\ SameRange(c, ver) /\ c.pc = "batch"
    BY <1>1, <2>1, <2>2, WalkedIs
  <2>4. \/ ver' = [c EXCEPT !.pc = "done", !.outcome = "valid"]
        \/ \E o, k : ver' = [c EXCEPT !.pc = "done", !.outcome = o, !.checked = k]
        \/ ver' = c
    BY <1>1, <1>9, <2>2, ReadBatchIs
  <2>5. /\ ver'.op = c.op /\ ver'.before = c.before /\ ver'.accepted = c.accepted
        /\ ver'.pc \in {"done", "batch"}
    BY <2>3, <2>4 DEF IsCall
  <2>. QED BY <2>1, <2>3, <2>5 DEF SameRange
<1>. QED BY <1>4, <1>5, <1>6, <1>7, <1>8, <1>9

\* The walks and the point reads are told apart.
LEMMA OpsDiffer ==
    /\ {"entry", "proof"} \cap Walks = {} /\ "none" \notin Walks
    /\ Walks = {"chain", "recent"}
BY DEF Walks

\* A row whose hash recomputes to the one on the receipt is the row the receipt was issued for.
LEMMA FoundByHash ==
    ASSUME RowsInv, NEW w \in written, NEW e \in rows, e.entry_hash = w.entry_hash, HashValid(e),
           canonical_entry_hash_for_version(e) # None
    PROVE  e = w \/ (w.hash_version = V2 /\ e = [w EXCEPT !.proof = e.proof])
<1>1. PICK x \in written : Version(e, x) /\ IsAppended(x) /\ e.entry_id = x.entry_id
  BY RowIs
<1>2. IsAppended(w)
  BY WrittenIs DEF RowsInv
<1>3. e.hash_version \in {V2, V3}
  BY KnownVersion
<1>4. e.entry_id = w.entry_id /\ e.body = w.body /\ w.body = "accepted"
  <2>1. w.hash_version \in {V2, V3} /\ HashValid(w)
    BY <1>2 DEF IsAppended
  <2>2. canonical_entry_hash_for_version(e) = canonical_entry_hash_for_version(w)
    BY <2>1 DEF HashValid
  <2>3. e.entry_id = w.entry_id /\ e.body = w.body
    BY <1>3, <2>1, <2>2, SameHash
  <2>4. w.body = "accepted"
    BY <1>2 DEF IsAppended
  <2>. QED BY <2>3, <2>4
<1>5. x = w
  BY <1>1, <1>4 DEF RowsInv, WrittenInv
<1>6. e # Rewritten(w)
  BY <1>2, <1>4, RewrittenIs
<1>. QED BY <1>1, <1>5, <1>6, VersionIs

\* The invariant of the point reads.
LEMMA PointStep ==
    VerifyInv /\ PointInv /\ [Next]_vars => PointInv'
<1>. SUFFICES ASSUME VerifyInv, PointInv, [Next]_vars PROVE PointInv'
  OBVIOUS
<1>0. RowsInv /\ CallInv /\ IsCall(ver)
  BY DEF VerifyInv, CallInv, IsCall
<1>1. CASE ver' = ver
  BY <1>1 DEF PointInv, PointVerdict, Done, IntactAtStart, Rehashed
<1>2. CASE (\E v \in {V2, V3} : Append(v)) \/ (\E e \in rows : Damage(e))
  BY <1>1, <1>2, BetweenReads DEF VerifyInv
<1>3. ASSUME ver'.pc # "link", ver'.op \in Walks \/ ver'.pc # "done" \/ ver'.outcome # "valid"
      PROVE  PointInv'
  BY <1>3, OpsDiffer DEF PointInv, PointVerdict, Done
<1>4. CASE ReadStart \/ ReadEnd \/ ReadTip \/ ReadWindow \/ ReadPredecessor \/ ReadBatch
  BY <1>3, <1>4, WalkStays
<1>5. CASE (\E s, t \in Ids : VerifyChain(s, t)) \/ VerifyRecentChain
  BY <1>3, <1>5, NewWalkIs
<1>6. ASSUME NEW id \in 1..MaxLen, VerifyEntry(id) PROVE PointInv'
  <2>1. CASE ver'.pc = "done" /\ ver'.outcome # "valid"
    BY <1>3, <2>1
  <2>2. ASSUME NEW e \in rows, e.entry_id = id,
               ver' = [pc |-> "link", op |-> "entry", start_entry_id |-> id, end_entry_id |-> NoId,
                       start |-> e.chain_position, end |-> OpenEnd, prev_hash |-> e.previous_hash,
                       after |-> 0, checked |-> IF HashValid(e) THEN 1 ELSE 0, outcome |-> "none",
                       before |-> rows, accepted |-> written]
        PROVE  PointInv'
    <3>1. /\ ver'.pc = "link" /\ ver'.before = rows /\ ver'.start_entry_id = id
          /\ ver'.checked = 1 => HashValid(e)
      BY <2>2
    <3>. QED BY <2>2, <3>1 DEF PointInv, PointVerdict, Done
  <2>. QED BY <1>0, <1>6, <2>1, <2>2, VerifyEntryIs
<1>7. ASSUME NEW id \in 1..MaxLen, VerifyProof(id) PROVE PointInv'
  <2>1. PICK w \in written, o \in {"not_found", "unsupported_hash_version", "valid", "entry_hash_mismatch"} :
                /\ w.entry_id = id
                /\ \/ o = "not_found" /\ \A e \in rows : e.entry_hash # w.entry_hash
                   \/ /\ o # "not_found"
                      /\ \E e \in rows :
                           /\ e.entry_hash = w.entry_hash
                           /\ o = "valid" <=> HashValid(e) /\ canonical_entry_hash_for_version(e) # None
                /\ ver' = [pc |-> "done", op |-> "proof", start_entry_id |-> id, end_entry_id |-> NoId,
                           start |-> 1, end |-> OpenEnd, prev_hash |-> Genesis, after |-> 0, checked |-> 0,
                           outcome |-> o, before |-> rows, accepted |-> written]
    BY <1>7, VerifyProofIs
  <2>2. /\ ver'.pc = "done" /\ ver'.outcome = o /\ ver'.accepted = written /\ ver'.before = rows
        /\ ver'.start_entry_id = id /\ ver'.op = "proof"
    BY <2>1
  <2>3. CASE o # "valid"
    BY <1>3, <2>2, <2>3
  <2>4. CASE o = "valid"
    <3>1. PICK e \in rows : /\ e.entry_hash = w.entry_hash /\ HashValid(e)
                            /\ canonical_entry_hash_for_version(e) # None
      BY <2>1, <2>4
    <3>2. e = w \/ (w.hash_version = V2 /\ e = [w EXCEPT !.proof = e.proof])
      BY <1>0, <3>1, FoundByHash
    <3>3. \A x \in written : x.entry_id = id => x = w
      BY <1>0, <2>1 DEF RowsInv, WrittenInv
    <3>4. \A x \in ver'.accepted : x.entry_id = ver'.start_entry_id =>
             \E f \in ver'.before : f = x \/ (x.hash_version = V2 /\ f = [x EXCEPT !.proof = f.proof])
      BY <2>2, <3>2, <3>3
    <3>. QED BY <2>2, <3>4 DEF PointInv, PointVerdict, IntactAtStart
  <2>. QED BY <2>3, <2>4
<1>8. CASE ReadLink
  <2>1. PICK o \in {"entry_hash_mismatch", "valid", "chain_link_mismatch"} :
          Finish(o) /\ (o = "entry_hash_mismatch" <=> ver.checked = 0)
    BY <1>8, ReadLinkIs
  <2>2. Step /\ ver.pc = "link" /\ o \in Outcomes
    BY <1>8, ReadLinkIs DEF Outcomes
  <2>3. /\ ver'.pc = "done" /\ ver'.outcome = o /\ ver'.op = ver.op /\ ver'.before = ver.before
        /\ ver'.start_entry_id = ver.start_entry_id /\ ver'.accepted = ver.accepted
    BY <2>1, <2>2, FinishKeeps DEF SameRange
  <2>4. CASE o # "valid"
    BY <1>3, <2>3, <2>4
  <2>5. CASE o = "valid"
    <3>1. ver.op = "entry" /\ ver.checked \in 0..1
      BY <1>0, <2>2 DEF CallInv
    <3>2. ver.checked = 1
      BY <2>1, <2>5, <3>1
    <3>3. PICK e \in ver.before : e.entry_id = ver.start_entry_id /\ HashValid(e)
      BY <2>2, <3>2 DEF PointInv
    <3>. QED BY <2>3, <3>1, <3>3 DEF PointInv, PointVerdict, Rehashed
  <2>. QED BY <2>4, <2>5
<1>9. CASE DbError
  <2>1. "unavailable" \in Outcomes
    BY DEF Outcomes
  <2>2. ver'.pc = "done" /\ ver'.outcome = "unavailable"
    BY <1>9, <2>1, FinishKeeps DEF DbError
  <2>. QED BY <1>3, <2>2
<1>10. CASE Return
  BY <1>3, <1>10, NoCallIs DEF Return
<1>. QED BY <1>1, <1>2, <1>4, <1>5, <1>6, <1>7, <1>8, <1>9, <1>10, NextIs DEF vars

\* A positive answer of verify_entry or verify_proof is about the entry as it was appended;
\* only verify_entry can be led to accept a row that was rewritten with its hash.
THEOREM PointVerdictsHold == Spec => []PointVerdict
<1>1. Init => PointInv
  <2>. SUFFICES ASSUME Init PROVE PointInv
    OBVIOUS
  <2>1. ver.pc = "idle"
    BY NoCallIs DEF Init
  <2>. QED BY <2>1 DEF PointInv, PointVerdict, Done
<1>2. PointInv => PointVerdict
  BY DEF PointInv
<1>. QED BY <1>1, <1>2, PointStep, VerifyInvariant, PTL DEF Spec

-----------------------------------------------------------------------------
(* An undamaged chain *)

\* The rows of an undamaged chain: every hash recomputes, every row links to the one below.
LEMMA CleanRows ==
    ASSUME RowsInv, rows = written
    PROVE  /\ \A e \in rows : /\ HashValid(e) /\ canonical_entry_hash_for_version(e) # None
                              /\ e.chain_position \in Nat \ {0} /\ e.chain_position \in 1..MaxLen
                              /\ e.chain_position = 1 => e.previous_hash = Genesis
                              /\ e.chain_position > 1 =>
                                   \E d \in rows : /\ d.chain_position = e.chain_position - 1
                                                   /\ e.previous_hash = d.entry_hash
           /\ \A e \in rows : \A p \in 1..e.chain_position : \E d \in rows : d.chain_position = p
           /\ \A e, f \in rows : e.chain_position = f.chain_position => e = f
<1>1. \A e \in rows : /\ IsAppended(e) /\ IsRow(e) /\ e.entry_hash = canonical_entry_hash_for_version(e)
                      /\ HashOf(e.entry_hash, e.entry_id, e.chain_position) /\ HashValid(e)
  BY WrittenIs DEF RowsInv, IsAppended, HashValid
<1>2. \A e \in rows : canonical_entry_hash_for_version(e) # None
  BY <1>1, HashTells
<1>3. \A e \in rows : /\ e.chain_position \in Nat \ {0} /\ e.chain_position \in 1..MaxLen
                      /\ e.chain_position = 1 => e.previous_hash = Genesis
  BY <1>1, VerifyAssumption DEF IsRow, IsAppended
<1>4. \A e \in rows : e.chain_position > 1 =>
         \E d \in rows : d.chain_position = e.chain_position - 1 /\ e.previous_hash = d.entry_hash
  BY DEF RowsInv, CleanLinks
<1>5. \A e \in rows : \A p \in 1..e.chain_position : \E d \in rows : d.chain_position = p
  BY DEF RowsInv, WrittenInv
<1>6. \A e, f \in rows : e.chain_position = f.chain_position => e = f
  BY DEF RowsInv, Stored
<1>. QED BY <1>1, <1>2, <1>3, <1>4, <1>5, <1>6

\* In an undamaged chain an entry of the page links to what the walk expects of it.
LEMMA CleanPage ==
    ASSUME RowsInv, rows = written, ver.after \in Nat, HashAt(ver.prev_hash, ver.after), NEW e \in Page
    PROVE  Mismatch(e, Page) = "no"
<1>1. /\ Page \subseteq rows /\ \A f \in Page : f.chain_position > ver.after
      /\ \A f \in rows : ver.after < f.chain_position /\ f.chain_position < e.chain_position => f \in Page
  BY PagedIs, VerifyAssumption DEF Page
<1>2. /\ \A f \in rows : f.chain_position \in Nat \ {0}
      /\ HashValid(e) /\ canonical_entry_hash_for_version(e) # None
      /\ e.chain_position = 1 => e.previous_hash = Genesis
      /\ e.chain_position > 1 =>
           \E d \in rows : d.chain_position = e.chain_position - 1 /\ e.previous_hash = d.entry_hash
      /\ \A f, g \in rows : f.chain_position = g.chain_position => f = g
  BY <1>1, CleanRows
<1>3. PICK below : below = {f \in Page : f.chain_position < e.chain_position}
  OBVIOUS
<1>4. Expected(e, Page) = IF below = {} THEN ver.prev_hash ELSE Last(below).entry_hash
  BY <1>3 DEF Expected
<1>5. ASSUME NEW d \in rows, d.chain_position = e.chain_position - 1, d.chain_position > ver.after
      PROVE  d \in below
  <2>1. ver.after < d.chain_position /\ d.chain_position < e.chain_position
    BY <1>1, <1>2, <1>5
  <2>. QED BY <1>1, <1>3, <2>1
<1>6. CASE below = {} /\ e.chain_position = 1
  <2>1. ver.after = 0
    BY <1>1, <1>6
  <2>2. ver.prev_hash = Genesis
    BY <2>1 DEF HashAt
  <2>. QED BY <1>2, <1>4, <1>6, <2>2, MismatchIs
<1>7. CASE below = {} /\ e.chain_position > 1
  <2>1. PICK d \in rows : d.chain_position = e.chain_position - 1 /\ e.previous_hash = d.entry_hash
    BY <1>2, <1>7
  <2>2. ~(d.chain_position > ver.after)
    BY <1>5, <1>7, <2>1
  <2>3. d.chain_position = ver.after /\ ver.after # 0
    BY <1>1, <1>2, <2>1, <2>2
  <2>4. PICK f \in rows : f.chain_position = ver.after /\ ver.prev_hash = f.entry_hash
    BY <2>3 DEF HashAt
  <2>5. f = d
    BY <1>2, <2>3, <2>4
  <2>. QED BY <1>2, <1>4, <1>7, <2>1, <2>4, <2>5, MismatchIs
<1>8. CASE below # {}
  <2>1. below \subseteq rows
    BY <1>1, <1>3
  <2>2. PICK p : p = Last(below) /\ p \in below /\ \A f \in below : f.chain_position <= p.chain_position
    BY <1>8, <2>1, LastIs
  <2>3. p \in rows /\ p.chain_position < e.chain_position /\ p.chain_position > ver.after
    BY <1>1, <1>3, <2>2
  <2>4. e.chain_position > 1
    BY <1>1, <1>2, <2>3
  <2>5. PICK d \in rows : d.chain_position = e.chain_position - 1 /\ e.previous_hash = d.entry_hash
    BY <1>2, <2>4
  <2>6. d.chain_position > ver.after
    BY <1>1, <1>2, <2>3, <2>5
  <2>7. d \in below
    BY <1>5, <2>5, <2>6
  <2>8. d.chain_position <= p.chain_position
    BY <2>2, <2>7
  <2>9. d.chain_position = p.chain_position
    BY <1>1, <1>2, <2>3, <2>5, <2>8
  <2>10. d = p
    BY <1>2, <2>3, <2>9
  <2>. QED BY <1>2, <1>4, <1>8, <2>2, <2>5, <2>10, MismatchIs
<1>9. e.chain_position = 1 \/ e.chain_position > 1
  BY <1>1, <1>2
<1>. QED BY <1>6, <1>7, <1>8, <1>9

\* The invariant of an undamaged chain.
LEMMA CleanStep ==
    VerifyInv /\ CleanInv /\ [Next]_vars => CleanInv'
<1>. SUFFICES ASSUME VerifyInv, CleanInv, [Next]_vars, (rows = written)' PROVE CleanCall'
  BY DEF CleanInv
<1>0. RowsInv /\ HistoryInv /\ CallInv /\ IsCall(ver)
  BY DEF VerifyInv, CallInv, IsCall
<1>1. CASE ver' = ver /\ rows' = rows /\ written' = written
  BY <1>1 DEF CleanInv, CleanCall, RowAt, Known, HashAt
<1>2. CASE (\E v \in {V2, V3} : Append(v)) \/ (\E e \in rows : Damage(e))
  <2>1. rows = written /\ rows \subseteq rows' /\ ver' = ver
    BY <1>0, <1>2, BetweenReads, DisturbedStays DEF Grows
  <2>2. CleanCall
    BY <2>1 DEF CleanInv
  <2>. QED BY <2>1, <2>2 DEF CleanCall, RowAt, Known, HashAt
<1>3. ASSUME ver'.pc = "done", ver'.outcome \in {"valid", "invalid_argument", "unavailable"}
      PROVE  CleanCall'
  BY <1>3 DEF CleanCall
<1>4. ASSUME Step PROVE rows' = rows /\ rows = written /\ CleanCall /\ written' = written
  BY <1>4 DEF Step, CleanInv
<1>5. ASSUME Step, NEW o \in {"invalid_argument", "not_found"}, Finish(o),
             o = "not_found" => \E id \in {ver.start_entry_id, ver.end_entry_id} :
                                   id # NoId /\ \A w \in ver.accepted : w.entry_id # id
      PROVE  CleanCall'
  <2>1. o \in Outcomes
    BY DEF Outcomes
  <2>2. ver'.pc = "done" /\ ver'.outcome = o /\ SameRange(ver', ver)
    BY <1>5, <2>1, FinishKeeps
  <2>. QED BY <1>3, <1>5, <2>2 DEF CleanCall, SameRange
<1>6. ASSUME Step, NEW id, NEW default, Boundary(id, default) = {}
      PROVE  id # NoId /\ \A w \in ver.accepted : w.entry_id # id
  BY <1>0, <1>4, <1>6 DEF Boundary, HistoryInv
<1>7. CASE ReadStart
  <2>1. Step /\ ver.pc = "start" /\ ver.outcome = "none"
    BY <1>0, <1>7, ReadStartIs DEF CallInv
  <2>2. ASSUME NEW pos \in 1..MaxLen,
               \/ ver.start_entry_id = NoId /\ pos = 1
               \/ \E e \in rows : e.entry_id = ver.start_entry_id /\ e.chain_position = pos,
               ver' = [pc |-> "end", op |-> ver.op, start_entry_id |-> ver.start_entry_id,
                       end_entry_id |-> ver.end_entry_id, start |-> pos, end |-> ver.end,
                       prev_hash |-> ver.prev_hash, after |-> pos - 1, checked |-> ver.checked,
                       outcome |-> ver.outcome, before |-> ver.before, accepted |-> ver.accepted]
        PROVE  CleanCall'
    <3>1. pos = 1 \/ RowAt(pos)
      BY <2>2 DEF RowAt
    <3>. QED BY <1>4, <2>1, <2>2, <3>1 DEF CleanCall, RowAt, Known
  <2>. QED BY <1>5, <1>6, <1>7, <2>1, <2>2, ReadStartIs
<1>8. CASE ReadEnd
  <2>1. Step /\ ver.pc = "end" /\ ver.outcome = "none" /\ ver.prev_hash = Genesis /\ ver.after = ver.start - 1
    BY <1>0, <1>8, ReadEndIs DEF CallInv
  <2>2. CASE Finish("invalid_argument")
    BY <1>5, <2>1, <2>2
  <2>3. ASSUME NEW pos,
               ver' = [pc |-> IF ver.start = 1 THEN "batch" ELSE "predecessor", op |-> ver.op,
                       start_entry_id |-> ver.start_entry_id, end_entry_id |-> ver.end_entry_id,
                       start |-> ver.start, end |-> pos,
                       prev_hash |-> ver.prev_hash, after |-> ver.after, checked |-> ver.checked,
                       outcome |-> ver.outcome, before |-> ver.before, accepted |-> ver.accepted]
        PROVE  CleanCall'
    <3>1. /\ ver'.pc = IF ver.start = 1 THEN "batch" ELSE "predecessor"
          /\ ver'.start = ver.start /\ ver'.after = ver.start - 1 /\ ver'.prev_hash = Genesis
          /\ ver'.outcome = "none"
      BY <2>1, <2>3
    <3>2. ver.start = 1 \/ RowAt(ver.start)
      BY <1>4, <2>1 DEF CleanCall
    <3>. QED BY <1>4, <2>1, <3>1, <3>2 DEF CleanCall, RowAt, HashAt
  <2>. QED BY <1>5, <1>6, <1>8, <2>1, <2>2, <2>3, ReadEndIs
<1>9. CASE ReadTip
  <2>1. Step /\ ver.pc = "tip" /\ ver.outcome = "none" /\ ver.op = "recent"
    BY <1>0, <1>9, ReadTipIs, OpsDiffer DEF CallInv
  <2>2. Known(ver.start_entry_id) /\ Known(ver.end_entry_id)
    BY <1>4, <2>1 DEF CleanCall
  <2>3. CASE ver' = [pc |-> "start", op |-> ver.op, start_entry_id |-> ver.start_entry_id,
                     end_entry_id |-> ver.end_entry_id, start |-> ver.start, end |-> ver.end,
                     prev_hash |-> ver.prev_hash, after |-> ver.after, checked |-> ver.checked,
                     outcome |-> ver.outcome, before |-> ver.before, accepted |-> ver.accepted]
    BY <1>4, <2>1, <2>2, <2>3 DEF CleanCall, Known
  <2>4. ASSUME NEW t \in rows,
               ver' = [pc |-> IF WindowStart(t.chain_position) = 1 THEN "start" ELSE "window",
                       op |-> ver.op, start_entry_id |-> ver.start_entry_id,
                       end_entry_id |-> t.entry_id, start |-> WindowStart(t.chain_position), end |-> ver.end,
                       prev_hash |-> ver.prev_hash, after |-> ver.after, checked |-> ver.checked,
                       outcome |-> ver.outcome, before |-> ver.before, accepted |-> ver.accepted]
        PROVE  CleanCall'
    <3>1. PICK s : s = WindowStart(t.chain_position)
      OBVIOUS
    <3>2. t.chain_position \in 1..MaxLen
      BY <1>0, RowIs DEF IsRow
    <3>3. s \in 1..t.chain_position
      BY <3>1, <3>2, WindowStartIs, VerifyAssumption
    <3>4. RowAt(s)
      BY <1>0, <1>4, <2>1, <3>3, CleanRows DEF RowAt
    <3>5. Known(t.entry_id)
      BY DEF Known
    <3>6. /\ ver'.pc \in {"start", "window"} /\ ver'.start_entry_id = ver.start_entry_id
          /\ ver'.end_entry_id = t.entry_id /\ ver'.start = s /\ ver'.outcome = "none"
      BY <2>1, <2>4, <3>1
    <3>. QED BY <1>4, <2>1, <2>2, <3>4, <3>5, <3>6 DEF CleanCall, RowAt, Known
  <2>. QED BY <1>9, <2>3, <2>4, ReadTipIs
<1>10. CASE ReadWindow
  <2>1. Step /\ ver.pc = "window" /\ ver.outcome = "none" /\ ver.start \in 1..MaxLen /\ ver.start > 1
        /\ ver.op = "recent"
    BY <1>0, <1>10, ReadWindowIs, OpsDiffer DEF CallInv
  <2>2. /\ RowAt(ver.start) /\ Known(ver.end_entry_id) /\ ver.start - 1 \in Int
        /\ ver.start > ver.start - 1
    BY <1>4, <2>1 DEF CleanCall
  <2>3. Paged(ver.start - 1, 1) # {}
    BY <1>0, <2>2, PageOfOne DEF RowAt
  <2>4. ASSUME NEW e \in Paged(ver.start - 1, 1),
               ver' = [pc |-> "start", op |-> ver.op, start_entry_id |-> e.entry_id,
                       end_entry_id |-> ver.end_entry_id, start |-> ver.start, end |-> ver.end,
                       prev_hash |-> ver.prev_hash, after |-> ver.after, checked |-> ver.checked,
                       outcome |-> ver.outcome, before |-> ver.before, accepted |-> ver.accepted]
        PROVE  CleanCall'
    <3>1. e \in rows
      BY <1>0, <2>2, PageOfOne
    <3>2. Known(e.entry_id)
      BY <3>1 DEF Known
    <3>. QED BY <1>4, <2>1, <2>2, <2>4, <3>2 DEF CleanCall, Known
  <2>. QED BY <1>10, <2>3, <2>4, ReadWindowIs
<1>11. CASE ReadPredecessor
  <2>1. Step /\ ver.pc = "predecessor" /\ ver.outcome = "none" /\ ver.start \in 1..MaxLen /\ ver.start > 1
        /\ ver.after = ver.start - 1
    BY <1>0, <1>11, ReadPredecessorIs DEF CallInv
  <2>2. ver.start - 2 \in Int /\ ver.start - 1 # 0
    BY <2>1
  <2>3. PICK s \in rows : s.chain_position = ver.start
    BY <1>4, <2>1 DEF CleanCall, RowAt
  <2>4. PICK d \in rows : d.chain_position = ver.start - 1
    BY <1>0, <1>4, <2>1, <2>3, CleanRows
  <2>5. d.chain_position > ver.start - 2
    BY <2>1, <2>4
  <2>6. Paged(ver.start - 2, 1) # {}
    BY <1>0, <2>2, <2>5, PageOfOne
  <2>7. ASSUME NEW e \in Paged(ver.start - 2, 1),
               ver' = [pc |-> "batch", op |-> ver.op, start_entry_id |-> ver.start_entry_id,
                       end_entry_id |-> ver.end_entry_id, start |-> ver.start, end |-> ver.end,
                       prev_hash |-> e.entry_hash, after |-> ver.after, checked |-> ver.checked,
                       outcome |-> ver.outcome, before |-> ver.before, accepted |-> ver.accepted]
        PROVE  CleanCall'
    <3>1. e \in rows /\ e.chain_position > ver.start - 2 /\ e.chain_position <= d.chain_position
      BY <1>0, <2>2, <2>5, PageOfOne
    <3>2. e.chain_position \in Int
      BY <1>0, <3>1, RowIs DEF IsRow
    <3>3. e.chain_position = ver.start - 1
      BY <2>1, <2>4, <3>1, <3>2
    <3>4. HashAt(e.entry_hash, ver.after)
      BY <2>1, <2>2, <3>1, <3>3 DEF HashAt
    <3>5. ver'.pc = "batch" /\ ver'.prev_hash = e.entry_hash /\ ver'.after = ver.after /\ ver'.outcome = "none"
      BY <2>1, <2>7
    <3>. QED BY <1>4, <2>1, <3>4, <3>5 DEF CleanCall, HashAt
  <2>. QED BY <1>11, <2>6, <2>7, ReadPredecessorIs
<1>12. CASE ReadBatch
  <2>1. Step /\ ver.pc = "batch" /\ ver.outcome = "none" /\ ver.after \in Nat
    <3>1. Step /\ ver.pc = "batch"
      BY <1>12 DEF ReadBatch
    <3>2. ver.outcome = "none" /\ ver.after \in 0..MaxLen
      BY <1>0, <3>1 DEF CallInv
    <3>. QED BY <3>1, <3>2
  <2>2. HashAt(ver.prev_hash, ver.after)
    BY <1>4, <2>1 DEF CleanCall
  <2>3. PICK c : /\ c = Walked(Good)
                 /\ \/ ver' = [c EXCEPT !.pc = "done", !.outcome = "valid"]
                    \/ \E e \in Stopping : Mismatch(e, Page) # "no"
                    \/ ver' = c
    BY <1>0, <1>12, ReadBatchIs
  <2>4. \A e \in Stopping : Mismatch(e, Page) = "no"
    BY <1>0, <1>4, <2>1, <2>2, CleanPage DEF Stopping
  <2>5. /\ IsCall(c) /\ c.pc = "batch" /\ c.outcome = "none"
        /\ Good = {} => c = ver
        /\ Good # {} => /\ c.after = Last(Good).chain_position
                        /\ c.prev_hash = Last(Good).entry_hash
                        /\ ver.after < c.after /\ c.after \in Int
    BY <1>0, <2>1, <2>3, WalkedIs
  <2>6. CASE ver' = [c EXCEPT !.pc = "done", !.outcome = "valid"]
    BY <1>3, <2>5, <2>6 DEF IsCall
  <2>7. CASE ver' = c
    <3>1. HashAt(c.prev_hash, c.after)
      <4>1. CASE Good = {}
        BY <2>2, <2>5, <4>1
      <4>2. CASE Good # {}
        <5>1. Good \subseteq rows
          BY <2>1, PagedIs, VerifyAssumption, <1>0 DEF Good, Page
        <5>2. Last(Good) \in rows
          BY <1>0, <4>2, <5>1, LastIs
        <5>3. c.after # 0
          BY <2>1, <2>5, <4>2
        <5>. QED BY <2>5, <4>2, <5>2, <5>3 DEF HashAt
      <4>. QED BY <4>1, <4>2
    <3>. QED BY <1>4, <2>1, <2>5, <2>7, <3>1 DEF CleanCall, HashAt
  <2>. QED BY <2>3, <2>4, <2>6, <2>7
<1>13. CASE (\E s, t \in Ids : VerifyChain(s, t)) \/ VerifyRecentChain
  <2>1. PICK q, o, s, t :
          /\ \/ q = "start" /\ o = "chain"
             \/ q = "tip" /\ o = "recent" /\ s = NoId /\ t = NoId
          /\ ver' = [pc |-> q, op |-> o, start_entry_id |-> s, end_entry_id |-> t, start |-> 1,
                     end |-> OpenEnd, prev_hash |-> Genesis, after |-> 0, checked |-> 0,
                     outcome |-> "none", before |-> rows, accepted |-> written]
    BY <1>13, NewWalkIs
  <2>2. /\ ver'.pc = q /\ ver'.op = o /\ ver'.start_entry_id = s /\ ver'.end_entry_id = t
        /\ ver'.outcome = "none"
    BY <2>1
  <2>. QED BY <2>1, <2>2 DEF CleanCall, Known
<1>14. ASSUME NEW id \in 1..MaxLen, VerifyEntry(id) PROVE CleanCall'
  <2>1. Step /\ id # NoId
    BY <1>0, <1>14, VerifyEntryIs DEF NoId
  <2>2. CASE /\ \A e \in rows : e.entry_id # id
             /\ ver' = [pc |-> "done", op |-> "entry", start_entry_id |-> id, end_entry_id |-> NoId,
                        start |-> 1, end |-> OpenEnd, prev_hash |-> Genesis, after |-> 0, checked |-> 0,
                        outcome |-> "not_found", before |-> rows, accepted |-> written]
    BY <1>4, <2>1, <2>2 DEF CleanCall
  <2>3. \A e \in rows : canonical_entry_hash_for_version(e) # None
    BY <1>0, <1>4, <2>1, CleanRows
  <2>4. ASSUME NEW e \in rows,
               ver' = [pc |-> "link", op |-> "entry", start_entry_id |-> id, end_entry_id |-> NoId,
                       start |-> e.chain_position, end |-> OpenEnd, prev_hash |-> e.previous_hash,
                       after |-> 0, checked |-> IF HashValid(e) THEN 1 ELSE 0, outcome |-> "none",
                       before |-> rows, accepted |-> written]
        PROVE  CleanCall'
    <3>1. /\ HashValid(e) /\ e.chain_position \in Nat \ {0}
          /\ e.chain_position = 1 => e.previous_hash = Genesis
          /\ e.chain_position > 1 =>
               \E d \in rows : d.chain_position = e.chain_position - 1 /\ e.previous_hash = d.entry_hash
      BY <1>0, <1>4, <2>1, CleanRows
    <3>2. HashAt(e.previous_hash, e.chain_position - 1)
      BY <3>1 DEF HashAt
    <3>3. /\ ver'.pc = "link" /\ ver'.checked = 1 /\ ver'.prev_hash = e.previous_hash
          /\ ver'.start = e.chain_position /\ ver'.outcome = "none"
      BY <2>4, <3>1
    <3>. QED BY <1>4, <2>1, <3>2, <3>3 DEF CleanCall, HashAt
  <2>. QED BY <1>0, <1>14, <2>2, <2>3, <2>4, VerifyEntryIs
<1>15. ASSUME NEW id \in 1..MaxLen, VerifyProof(id) PROVE CleanCall'
  <2>1. PICK w \in written, o \in {"not_found", "unsupported_hash_version", "valid", "entry_hash_mismatch"} :
                /\ w.entry_id = id
                /\ \/ o = "not_found" /\ \A e \in rows : e.entry_hash # w.entry_hash
                   \/ /\ o # "not_found"
                      /\ \E e \in rows :
                           /\ e.entry_hash = w.entry_hash
                           /\ o = "valid" <=> HashValid(e) /\ canonical_entry_hash_for_version(e) # None
                /\ ver' = [pc |-> "done", op |-> "proof", start_entry_id |-> id, end_entry_id |-> NoId,
                           start |-> 1, end |-> OpenEnd, prev_hash |-> Genesis, after |-> 0, checked |-> 0,
                           outcome |-> o, before |-> rows, accepted |-> written]
    BY <1>15, VerifyProofIs
  <2>2. rows = written
    BY <1>4, <1>15, VerifyProofIs
  <2>3. o = "valid"
    BY <1>0, <2>1, <2>2, CleanRows
  <2>. QED BY <1>3, <2>1, <2>3
<1>16. CASE ReadLink
  <2>1. PICK o \in {"entry_hash_mismatch", "valid", "chain_link_mismatch"} :
          /\ Finish(o) /\ (o = "entry_hash_mismatch" <=> ver.checked = 0)
          /\ o = "chain_link_mismatch" =>
               ~(IF ver.start = 1 THEN ver.prev_hash = Genesis
                 ELSE \E f \in Paged(ver.start - 2, 1) : f.entry_hash = ver.prev_hash)
    BY <1>16, ReadLinkIs
  <2>2. Step /\ ver.pc = "link" /\ o \in Outcomes /\ ver.start \in 1..MaxLen
    BY <1>0, <1>16, ReadLinkIs DEF Outcomes, CallInv
  <2>3. ver.checked = 1 /\ HashAt(ver.prev_hash, ver.start - 1)
    BY <1>4, <2>2 DEF CleanCall
  <2>4. CASE ver.start = 1
    BY <1>3, <2>1, <2>2, <2>3, <2>4, FinishKeeps DEF HashAt
  <2>5. CASE ver.start # 1
    <3>1. ver.start - 2 \in Int /\ ver.start - 1 # 0
      BY <2>2, <2>5
    <3>2. PICK e \in rows : e.chain_position = ver.start - 1 /\ ver.prev_hash = e.entry_hash
      BY <2>3, <3>1 DEF HashAt
    <3>3. \A f \in rows : f.chain_position \in Int
      BY <1>0, RowIs DEF IsRow
    <3>4. /\ e.chain_position > ver.start - 2
          /\ \A f \in rows : f.chain_position > ver.start - 2 => e.chain_position <= f.chain_position
      BY <2>2, <3>2, <3>3
    <3>5. e \in Paged(ver.start - 2, 1)
      BY <1>0, <3>1, <3>4, PageOfOne
    <3>6. o = "valid"
      BY <2>1, <2>3, <2>5, <3>2, <3>5
    <3>. QED BY <1>3, <2>1, <2>2, <3>6, FinishKeeps
  <2>. QED BY <2>4, <2>5
<1>17. CASE DbError
  <2>1. "unavailable" \in Outcomes
    BY DEF Outcomes
  <2>2. ver'.pc = "done" /\ ver'.outcome = "unavailable"
    BY <1>17, <2>1, FinishKeeps DEF DbError
  <2>. QED BY <1>3, <2>2
<1>18. CASE Return
  <2>1. ver'.pc = "idle" /\ ver'.outcome = "none"
    BY <1>18, NoCallIs DEF Return
  <2>. QED BY <2>1 DEF CleanCall
<1>. QED BY <1>1, <1>2, <1>7, <1>8, <1>9, <1>10, <1>11, <1>12, <1>13, <1>14, <1>15, <1>16, <1>17, <1>18, NextIs DEF vars

\* An undamaged chain is never reported as damaged, whatever is appended between the reads
\* of a call, and every appended entry is found.
THEOREM CleanChainPasses == Spec => []NoFalseAlarm
<1>1. Init => CleanInv
  <2>. SUFFICES ASSUME Init PROVE CleanInv
    OBVIOUS
  <2>1. ver.pc = "idle" /\ ver.outcome = "none"
    BY NoCallIs DEF Init
  <2>. QED BY <2>1 DEF CleanInv, CleanCall
<1>2. CleanInv => NoFalseAlarm
  BY DEF CleanInv, CleanCall, NoFalseAlarm
<1>. QED BY <1>1, <1>2, CleanStep, VerifyInvariant, PTL DEF Spec

-----------------------------------------------------------------------------
(* The range that a walk covers *)

\* The first entry a page passes is the one above where the walk is; or the walk begins
\* behind rows that were removed under it, with the row it had read as their predecessor.
LEMMA FirstPassed ==
    ASSUME RowsInv, CallInv, ver.pc = "batch", NEW F \in Good, F.previous_hash = ver.prev_hash,
           \A f \in rows : ~(ver.after < f.chain_position /\ f.chain_position < F.chain_position)
    PROVE  \/ F.chain_position = ver.after + 1
           \/ /\ Disturbed /\ ver.after = ver.start - 1
              /\ \E r \in written : /\ r \notin rows /\ r.chain_position = F.chain_position - 1
                                    /\ r.chain_position >= ver.start
                                    /\ r \in ver.accepted => r \in ver.before
<1>1. /\ ver.after \in 0..MaxLen /\ ver.start \in 1..MaxLen /\ ver.end \in 1..OpenEnd /\ WalkInv
  BY DEF CallInv
<1>2. ver.after \in Nat /\ ver.start \in Nat \ {0} /\ ver.end \in Int
  BY <1>1, VerifyAssumption DEF OpenEnd
<1>3. PICK w \in written : /\ IsAppended(w) /\ F.previous_hash = w.previous_hash
                           /\ F.chain_position = w.chain_position
  BY <1>2, GoodIs
<1>4. F.chain_position > ver.after /\ F.chain_position \in Nat \ {0} /\ F \in rows
  <2>1. F.chain_position > ver.after /\ F \in rows
    BY <1>2, GoodIs
  <2>. QED BY <2>1, RowIs, VerifyAssumption DEF IsRow
<1>5. w.previous_hash = ver.prev_hash /\ w.chain_position \in Nat \ {0}
  BY <1>3, <1>4
<1>6. /\ w.chain_position = 1 => ver.prev_hash = Genesis
      /\ w.chain_position # 1 => \/ ver.prev_hash = Garbage
                                 \/ HashOf(ver.prev_hash, ver.prev_hash[2], w.chain_position - 1)
  BY <1>3, <1>5 DEF IsAppended
<1>7. ASSUME NEW id, NEW pos, HashOf(ver.prev_hash, id, pos) PROVE pos = F.chain_position - 1
  BY <1>3, <1>6, <1>7, HashTells
<1>8. CASE ver.start <= ver.after
  <2>1. HashOf(ver.prev_hash, ver.prev_hash[2], ver.after)
    BY <1>1, <1>8 DEF WalkInv
  <2>2. ver.after = F.chain_position - 1
    BY <1>7, <2>1
  <2>. QED BY <1>2, <1>4, <2>2
<1>9. CASE ver.start > ver.after /\ ver.start = 1
  <2>1. ver.prev_hash = Genesis
    BY <1>1, <1>2, <1>9 DEF WalkInv
  <2>2. w.chain_position = 1
    BY <1>6, <2>1, ConstantsDiffer, HashTells
  <2>. QED BY <1>2, <1>3, <1>9, <2>2
<1>10. CASE ver.start > ver.after /\ ver.start > 1
  <2>1. ver.after = ver.start - 1 /\ PredecessorInv
    BY <1>1, <1>2, <1>10 DEF WalkInv
  <2>2. PICK r \in rows \cup written :
          /\ ver.prev_hash = r.entry_hash /\ r.chain_position >= ver.start - 1
          /\ r \in rows \/ Disturbed
          /\ r \in ver.accepted => r \in ver.before
    BY <2>1 DEF PredecessorInv
  <2>3. /\ r.entry_hash = Garbage \/ HashOf(r.entry_hash, r.entry_id, r.chain_position)
        /\ IsRow(r)
    BY RowIs, WrittenIs DEF RowsInv
  <2>4. CASE r.entry_hash = Garbage
    <3>1. PICK g \in rows : g.chain_position = w.chain_position - 1
      BY <1>5, <2>2, <2>4 DEF RowsInv, GarbageInv
    <3>2. ~(ver.after < g.chain_position)
      BY <1>3, <1>4, <3>1
    <3>. QED BY <1>2, <1>3, <1>4, <3>1, <3>2
  <2>5. CASE HashOf(r.entry_hash, r.entry_id, r.chain_position)
    <3>1. r.chain_position = F.chain_position - 1
      BY <1>7, <2>2, <2>5
    <3>2. CASE r \in rows
      <4>1. ~(ver.after < r.chain_position)
        BY <1>4, <3>1, <3>2
      <4>. QED BY <1>2, <1>4, <3>1, <4>1
    <3>3. CASE r \notin rows /\ r.chain_position >= ver.start
      BY <2>1, <2>2, <3>1, <3>3
    <3>4. CASE ~(r.chain_position >= ver.start)
      <4>1. r.chain_position = ver.start - 1
        BY <1>2, <1>4, <2>2, <3>1, <3>4
      <4>. QED BY <1>2, <1>4, <2>1, <3>1, <4>1
    <3>. QED BY <3>2, <3>3, <3>4
  <2>. QED BY <2>3, <2>4, <2>5
<1>. QED BY <1>2, <1>8, <1>9, <1>10

\* A verdict of valid passes every row of the range that is stored above the walk.
LEMMA ValidPasses ==
    ASSUME RowsInv, CallInv, ver.pc = "batch",
           \/ \E e \in Stopping : /\ e.chain_position > ver.end
                                  /\ \A f \in Stopping : e.chain_position <= f.chain_position
           \/ Stopping = {} /\ LastPage(Page),
           NEW r \in rows, r.chain_position > ver.after, r.chain_position <= ver.end
    PROVE  r \in Good
<1>1. ver.after \in Nat /\ ver.end \in Int
  BY VerifyAssumption DEF CallInv, OpenEnd
<1>2. /\ Page \subseteq rows
      /\ \A e \in Page, f \in rows :
           ver.after < f.chain_position /\ f.chain_position < e.chain_position => f \in Page
      /\ Cardinality(Page) < BatchSize => \A f \in rows : f.chain_position > ver.after => f \in Page
  BY <1>1, PagedIs, VerifyAssumption DEF Page
<1>3. \A f \in rows : f.chain_position \in Int
  BY RowIs DEF IsRow
<1>4. CASE Stopping = {} /\ LastPage(Page)
  BY <1>2, <1>4 DEF LastPage, Good
<1>5. ASSUME NEW e \in Stopping, e.chain_position > ver.end,
             \A f \in Stopping : e.chain_position <= f.chain_position
      PROVE  r \in Good
  <2>1. e \in Page /\ e \in rows
    BY <1>2 DEF Stopping
  <2>2. r.chain_position < e.chain_position
    BY <1>1, <1>3, <1>5, <2>1
  <2>3. r \in Page
    BY <1>1, <1>2, <1>3, <2>1, <2>2
  <2>4. ASSUME NEW f \in Stopping PROVE r.chain_position < f.chain_position
    <3>1. f \in rows
      BY <1>2 DEF Stopping
    <3>. QED BY <1>3, <1>5, <2>1, <2>2, <3>1
  <2>. QED BY <2>3, <2>4 DEF Good
<1>. QED BY <1>4, <1>5

\* Unless rows were damaged under the call, the walk counts without a gap.
LEMMA WalkCounts ==
    ASSUME RowsInv, CallInv, ver.pc = "batch", ~Disturbed, ver.checked = ver.after - ver.start + 1,
           NEW c, c = Walked(Good)
    PROVE  c.checked = c.after - c.start + 1
<1>1. ver.after \in Nat /\ ver.start \in Nat /\ ver.end \in Int
  BY VerifyAssumption DEF CallInv, OpenEnd
<1>2. /\ SameRange(c, ver) /\ (Good = {} => c = ver)
      /\ Good # {} => c.after = Last(Good).chain_position /\ c.checked = ver.checked + Cardinality(Good)
  BY WalkedIs
<1>3. CASE Good = {}
  BY <1>2, <1>3
<1>4. CASE Good # {}
  <2>1. PICK F \in Good :
          /\ Last(Good) \in Good /\ F.previous_hash = ver.prev_hash
          /\ \A f \in rows : ~(ver.after < f.chain_position /\ f.chain_position < F.chain_position)
          /\ Cardinality(Good) = Last(Good).chain_position - F.chain_position + 1
    BY <1>1, <1>4, RunIs
  <2>2. F.chain_position = ver.after + 1
    BY <2>1, FirstPassed
  <2>3. Last(Good) \in rows /\ Last(Good).chain_position \in Int
    <3>1. Last(Good) \in rows
      BY <1>1, <2>1, GoodIs
    <3>. QED BY <3>1, RowIs DEF IsRow
  <2>4. c.start = ver.start
    BY <1>2 DEF SameRange
  <2>. QED BY <1>1, <1>2, <1>4, <2>1, <2>2, <2>3, <2>4
<1>. QED BY <1>3, <1>4

\* A window that begins behind a gap passes no row.
LEMMA WindowPasses ==
    ASSUME RowsInv, CallInv, ver.pc = "batch", ~Disturbed, WindowInv(ver.end), Good # {}
    PROVE  ver.start = WindowStart(ver.end)
<1>. SUFFICES ASSUME ver.start # WindowStart(ver.end) PROVE FALSE
  OBVIOUS
<1>1. ver.after \in Nat /\ ver.start \in Nat \ {0} /\ ver.end \in 1..OpenEnd /\ ver.end \in Int /\ WalkInv
  BY VerifyAssumption DEF CallInv, OpenEnd
<1>2. /\ ver.start > WindowStart(ver.end) /\ ver.after < ver.start
      /\ \A f \in rows : f.chain_position \notin WindowStart(ver.end)..(ver.start - 1)
  BY DEF WindowInv
<1>3. WindowStart(ver.end) \in Nat \ {0}
  BY <1>1, VerifyAssumption DEF WindowStart
<1>4. \A f \in rows : f.chain_position # ver.start - 1
  BY <1>1, <1>2, <1>3
<1>5. PICK F \in Good :
        /\ F.previous_hash = ver.prev_hash
        /\ \A f \in rows : ~(ver.after < f.chain_position /\ f.chain_position < F.chain_position)
  BY <1>1, RunIs
<1>6. F.chain_position = ver.after + 1
  BY <1>5, FirstPassed
<1>7. ver.after = ver.start - 1 /\ ver.start > 1 /\ PredecessorInv
  BY <1>1, <1>2, <1>3 DEF WalkInv
<1>8. PICK r \in rows : ver.prev_hash = r.entry_hash
  BY <1>7 DEF PredecessorInv
<1>9. PICK w \in written : /\ IsAppended(w) /\ ver.prev_hash = w.previous_hash
                           /\ w.chain_position = ver.start
  <2>1. PICK w \in written : /\ IsAppended(w) /\ F.previous_hash = w.previous_hash
                             /\ F.chain_position = w.chain_position
    BY <1>1, GoodIs
  <2>. QED BY <1>1, <1>5, <1>6, <1>7, <2>1
<1>10. CASE r.entry_hash = Garbage
  BY <1>4, <1>8, <1>9, <1>10 DEF RowsInv, GarbageInv
<1>11. CASE HashOf(r.entry_hash, r.entry_id, r.chain_position)
  <2>1. ver.prev_hash # Garbage /\ w.chain_position # 1
    BY <1>1, <1>7, <1>8, <1>9, <1>11, HashTells
  <2>2. HashOf(ver.prev_hash, ver.prev_hash[2], ver.start - 1)
    BY <1>9, <2>1 DEF IsAppended
  <2>3. r.chain_position = ver.start - 1
    BY <1>8, <1>11, <2>2, HashTells
  <2>. QED BY <1>4, <2>3
<1>. QED BY <1>10, <1>11, RowIs

\* The window between the reads of a call.
LEMMA WindowStays ==
    ASSUME RowsInv, RowsInv', Grows, ver' = ver, NEW n \in Nat, WindowInv(n)
    PROVE  WindowInv(n)'
<1>1. CASE ver.start = WindowStart(n)
  BY <1>1 DEF WindowInv
<1>2. CASE ver.start # WindowStart(n)
  <2>1. /\ ver.start > WindowStart(n)
        /\ \A f \in rows : f.chain_position \notin WindowStart(n)..(ver.start - 1)
        /\ ver.pc = "batch" => ver.after < ver.start
    BY <1>2 DEF WindowInv
  <2>2. PICK s \in rows : s.chain_position = ver.start
    BY <1>2 DEF WindowInv
  <2>3. s.chain_position \in Int
    BY RowIs DEF IsRow
  <2>4. \A f \in rows' : f \in rows \/ s.chain_position < f.chain_position
    BY DEF Grows
  <2>5. \A f \in rows' : f.chain_position \notin WindowStart(n)..(ver.start - 1)
    BY <2>1, <2>2, <2>3, <2>4
  <2>6. s \in rows'
    BY DEF Grows
  <2>. QED BY <2>1, <2>2, <2>5, <2>6 DEF WindowInv
<1>. QED BY <1>1, <1>2

\* The window survives what happens between the reads of verify_recent_chain.
LEMMA RecentBetweenReads ==
    ASSUME VerifyInv, VerifyInv', RecentInv,
           (\E v \in {V2, V3} : Append(v)) \/ (\E e \in rows : Damage(e))
    PROVE  RecentInv'
<1>0. RowsInv /\ HistoryInv /\ CallInv /\ RowsInv'
  BY DEF VerifyInv
<1>1. ver' = ver
  BY <1>0, BetweenReads
<1>2. CASE Disturbed' \/ ver.op # "recent" \/ ver.pc \in {"idle", "done"}
  BY <1>1, <1>2 DEF RecentInv
<1>3. CASE ~Disturbed' /\ ver.op = "recent" /\ ver.pc \notin {"idle", "done"}
  <2>1. ~Disturbed /\ Grows
    BY <1>0, <1>3, DisturbedStays
  <2>2. /\ rows \subseteq rows'
        /\ \A r \in rows', s \in rows : r \in rows \/ s.chain_position < r.chain_position
    BY <2>1 DEF Grows
  <2>3. \A r \in rows : r.chain_position \in Nat
    BY <1>0, RowIs, VerifyAssumption DEF IsRow
  <2>4. CASE ver.pc = "tip" /\ ver.start_entry_id = NoId /\ ver.end_entry_id = NoId
    BY <1>1, <2>4 DEF RecentInv
  <2>5. CASE ver.pc = "window" /\ \E t \in rows : /\ t.entry_id = ver.end_entry_id
                                                  /\ ver.start = WindowStart(t.chain_position)
    BY <1>1, <2>2, <2>5 DEF RecentInv
  <2>6. CASE ver.pc = "start" /\ ver.start_entry_id = NoId /\ ver.end_entry_id = NoId
    BY <1>1, <2>6 DEF RecentInv
  <2>7. ASSUME ver.pc = "start", NEW t \in rows, t.entry_id = ver.end_entry_id,
               ver.start = WindowStart(t.chain_position),
               \/ ver.start_entry_id = NoId /\ ver.start = 1
               \/ \E e \in rows :
                    /\ e.entry_id = ver.start_entry_id /\ e.chain_position >= ver.start
                    /\ \A f \in rows : f.chain_position \notin ver.start..(e.chain_position - 1)
        PROVE  RecentInv'
    <3>1. CASE ver.start_entry_id = NoId /\ ver.start = 1
      BY <1>1, <2>2, <2>7, <3>1 DEF RecentInv
    <3>2. ASSUME NEW e \in rows, e.entry_id = ver.start_entry_id, e.chain_position >= ver.start,
                 \A f \in rows : f.chain_position \notin ver.start..(e.chain_position - 1)
          PROVE  RecentInv'
      <4>1. \A f \in rows' : f.chain_position \notin ver.start..(e.chain_position - 1)
        BY <2>2, <2>3, <3>2
      <4>. QED BY <1>1, <2>2, <2>7, <3>2, <4>1 DEF RecentInv
    <3>. QED BY <2>7, <3>1, <3>2
  <2>8. CASE ver.pc = "end" /\ ver.end_entry_id = NoId
    BY <1>1, <2>8 DEF RecentInv
  <2>9. ASSUME ver.pc = "end", NEW t \in rows, t.entry_id = ver.end_entry_id, WindowInv(t.chain_position)
        PROVE  RecentInv'
    <3>1. PICK n \in Nat : n = t.chain_position
      BY <2>3
    <3>2. WindowInv(n)'
      BY <1>0, <1>1, <2>1, <2>9, <3>1, WindowStays
    <3>3. t \in rows' /\ t.entry_id = ver'.end_entry_id /\ ver'.pc = "end"
      BY <1>1, <2>2, <2>9
    <3>. QED BY <3>1, <3>2, <3>3 DEF RecentInv
  <2>10. CASE ver.pc \in {"predecessor", "batch"} /\ ver.end = OpenEnd
    BY <1>1, <2>10 DEF RecentInv
  <2>11. CASE ver.pc \in {"predecessor", "batch"} /\ WindowInv(ver.end)
    <3>1. PICK n \in Nat : n = ver.end
      BY <1>0, VerifyAssumption DEF CallInv, OpenEnd
    <3>2. WindowInv(n)'
      BY <1>0, <1>1, <2>1, <2>11, <3>1, WindowStays
    <3>3. ver'.pc \in {"predecessor", "batch"} /\ ver'.end = n
      BY <1>1, <2>11, <3>1
    <3>4. WindowInv(ver.end)'
      BY <3>2, <3>3 DEF WindowInv
    <3>. QED BY <3>3, <3>4 DEF RecentInv
  <2>. QED BY <1>3, <2>1, <2>4, <2>5, <2>6, <2>7, <2>8, <2>9, <2>10, <2>11 DEF RecentInv
<1>. QED BY <1>1, <1>2, <1>3

\* The window survives the reads of verify_recent_chain before the walk.
LEMMA RecentPrepare ==
    ASSUME VerifyInv, RecentInv, ReadStart \/ ReadEnd \/ ReadTip \/ ReadWindow \/ ReadPredecessor
    PROVE  RecentInv'
<1>0. RowsInv /\ HistoryInv /\ CallInv /\ ver.start \in 1..MaxLen
  BY DEF VerifyInv, CallInv
<1>1. /\ Step /\ ver'.op = ver.op /\ ver'.before = ver.before /\ ver'.accepted = ver.accepted
      /\ rows' = rows /\ written' = written
  BY WalkStays DEF Step
<1>2. Disturbed' <=> Disturbed
  BY <1>1 DEF Disturbed
<1>3. CASE Disturbed' \/ ver.op # "recent" \/ ver'.pc = "done"
  BY <1>1, <1>3 DEF RecentInv
<1>. SUFFICES ASSUME ~Disturbed, ver.op = "recent", ver'.pc # "done" PROVE RecentInv'
  BY <1>2, <1>3
<1>4. \A r \in rows : r.entry_id # NoId /\ r.chain_position \in Nat \ {0}
  BY <1>0, RowIs, VerifyAssumption DEF IsRow, NoId
<1>5. \A r, s \in rows : r.entry_id = s.entry_id => r = s
  BY <1>0 DEF RowsInv, Stored
<1>6. \A o \in Outcomes : ~Finish(o)
  BY <1>1, FinishKeeps
<1>7. {"invalid_argument", "not_found", "window_start_not_found", "predecessor_not_found"} \subseteq Outcomes
  BY DEF Outcomes
<1>8. CASE ReadTip
  <2>1. ver.pc = "tip" /\ ver.start_entry_id = NoId /\ ver.end_entry_id = NoId
    BY <1>8, ReadTipIs DEF RecentInv
  <2>2. CASE ver' = [pc |-> "start", op |-> ver.op, start_entry_id |-> ver.start_entry_id,
                     end_entry_id |-> ver.end_entry_id, start |-> ver.start, end |-> ver.end,
                     prev_hash |-> ver.prev_hash, after |-> ver.after, checked |-> ver.checked,
                     outcome |-> ver.outcome, before |-> ver.before, accepted |-> ver.accepted]
    BY <2>1, <2>2 DEF RecentInv
  <2>3. ASSUME NEW t \in rows,
               ver' = [pc |-> IF WindowStart(t.chain_position) = 1 THEN "start" ELSE "window",
                       op |-> ver.op, start_entry_id |-> ver.start_entry_id,
                       end_entry_id |-> t.entry_id, start |-> WindowStart(t.chain_position), end |-> ver.end,
                       prev_hash |-> ver.prev_hash, after |-> ver.after, checked |-> ver.checked,
                       outcome |-> ver.outcome, before |-> ver.before, accepted |-> ver.accepted]
        PROVE  RecentInv'
    <3>1. /\ ver'.pc = IF WindowStart(t.chain_position) = 1 THEN "start" ELSE "window"
          /\ ver'.start_entry_id = NoId /\ ver'.end_entry_id = t.entry_id
          /\ ver'.start = WindowStart(t.chain_position) /\ t \in rows'
      BY <1>1, <2>1, <2>3
    <3>. QED BY <3>1 DEF RecentInv
  <2>. QED BY <1>8, <2>2, <2>3, ReadTipIs
<1>9. CASE ReadWindow
  <2>1. PICK t \in rows : t.entry_id = ver.end_entry_id /\ ver.start = WindowStart(t.chain_position)
    BY <1>9, ReadWindowIs DEF RecentInv
  <2>2. PICK e \in Paged(ver.start - 1, 1) :
           ver' = [pc |-> "start", op |-> ver.op, start_entry_id |-> e.entry_id,
                   end_entry_id |-> ver.end_entry_id, start |-> ver.start, end |-> ver.end,
                   prev_hash |-> ver.prev_hash, after |-> ver.after, checked |-> ver.checked,
                   outcome |-> ver.outcome, before |-> ver.before, accepted |-> ver.accepted]
    BY <1>6, <1>7, <1>9, ReadWindowIs
  <2>3. ver.start \in Nat /\ ver.start - 1 \in Int
    BY <1>0
  <2>4. /\ e \in rows /\ e.chain_position > ver.start - 1
        /\ \A f \in rows : f.chain_position > ver.start - 1 => e.chain_position <= f.chain_position
    BY <1>0, <2>3, PageOfOne
  <2>5. /\ e.chain_position >= ver.start
        /\ \A f \in rows : f.chain_position \notin ver.start..(e.chain_position - 1)
    BY <1>4, <2>3, <2>4
  <2>6. /\ ver'.pc = "start" /\ ver'.start_entry_id = e.entry_id /\ ver'.end_entry_id = ver.end_entry_id
        /\ ver'.start = ver.start
    BY <2>2
  <2>. QED BY <1>1, <2>1, <2>4, <2>5, <2>6 DEF RecentInv
<1>10. CASE ReadStart
  <2>1. PICK pos \in 1..MaxLen :
          /\ \/ ver.start_entry_id = NoId /\ pos = 1
             \/ \E e \in rows : e.entry_id = ver.start_entry_id /\ e.chain_position = pos
          /\ ver' = [pc |-> "end", op |-> ver.op, start_entry_id |-> ver.start_entry_id,
                     end_entry_id |-> ver.end_entry_id, start |-> pos, end |-> ver.end,
                     prev_hash |-> ver.prev_hash, after |-> pos - 1, checked |-> ver.checked,
                     outcome |-> ver.outcome, before |-> ver.before, accepted |-> ver.accepted]
    BY <1>6, <1>7, <1>10, ReadStartIs
  <2>2. ver'.pc = "end" /\ ver'.start = pos /\ ver'.end_entry_id = ver.end_entry_id
    BY <2>1
  <2>3. CASE ver.end_entry_id = NoId
    BY <2>2, <2>3 DEF RecentInv
  <2>4. CASE ver.end_entry_id # NoId
    <3>1. PICK t \in rows :
            /\ t.entry_id = ver.end_entry_id /\ ver.start = WindowStart(t.chain_position)
            /\ \/ ver.start_entry_id = NoId /\ ver.start = 1
               \/ \E e \in rows :
                    /\ e.entry_id = ver.start_entry_id /\ e.chain_position >= ver.start
                    /\ \A f \in rows : f.chain_position \notin ver.start..(e.chain_position - 1)
      BY <1>10, <2>4, ReadStartIs DEF RecentInv
    <3>2. WindowInv(t.chain_position)'
      <4>1. CASE ver.start_entry_id = NoId /\ ver.start = 1
        <5>1. pos = 1
          BY <1>4, <2>1, <4>1
        <5>. QED BY <2>2, <3>1, <4>1, <5>1 DEF WindowInv
      <4>2. ASSUME NEW e \in rows, e.entry_id = ver.start_entry_id, e.chain_position >= ver.start,
                   \A f \in rows : f.chain_position \notin ver.start..(e.chain_position - 1)
            PROVE  WindowInv(t.chain_position)'
        <5>1. pos = e.chain_position
          BY <1>4, <1>5, <2>1, <4>2
        <5>2. pos = ver.start \/ pos > ver.start
          BY <1>0, <1>4, <4>2, <5>1
        <5>. QED BY <1>1, <2>2, <3>1, <4>2, <5>1, <5>2 DEF WindowInv
      <4>. QED BY <3>1, <4>1, <4>2
    <3>. QED BY <1>1, <2>2, <3>1, <3>2 DEF RecentInv
  <2>. QED BY <2>3, <2>4
<1>11. CASE ReadEnd
  <2>1. PICK pos \in 1..OpenEnd :
          /\ \/ ver.end_entry_id = NoId /\ pos = OpenEnd
             \/ \E e \in rows : e.entry_id = ver.end_entry_id /\ e.chain_position = pos
          /\ ver' = [pc |-> IF ver.start = 1 THEN "batch" ELSE "predecessor", op |-> ver.op,
                     start_entry_id |-> ver.start_entry_id, end_entry_id |-> ver.end_entry_id,
                     start |-> ver.start, end |-> pos,
                     prev_hash |-> ver.prev_hash, after |-> ver.after, checked |-> ver.checked,
                     outcome |-> ver.outcome, before |-> ver.before, accepted |-> ver.accepted]
    BY <1>6, <1>7, <1>11, ReadEndIs
  <2>2. /\ ver'.pc \in {"batch", "predecessor"} /\ ver'.start = ver.start /\ ver'.end = pos
        /\ ver'.after = ver.after
    BY <2>1
  <2>3. CASE ver.end_entry_id = NoId
    BY <1>4, <2>1, <2>2, <2>3 DEF RecentInv
  <2>4. CASE ver.end_entry_id # NoId
    <3>1. PICK t \in rows : t.entry_id = ver.end_entry_id /\ WindowInv(t.chain_position)
      BY <1>11, <2>4, ReadEndIs DEF RecentInv
    <3>2. pos = t.chain_position
      BY <1>5, <2>1, <2>4, <3>1
    <3>3. ver.after < ver.start
      <4>1. ver.after = ver.start - 1
        BY <1>0, <1>11, ReadEndIs DEF CallInv
      <4>. QED BY <1>0, <4>1
    <3>4. WindowInv(ver.end)'
      BY <1>1, <2>2, <3>1, <3>2, <3>3 DEF WindowInv
    <3>. QED BY <2>2, <3>4 DEF RecentInv
  <2>. QED BY <2>3, <2>4
<1>12. CASE ReadPredecessor
  <2>1. PICK e \in Paged(ver.start - 2, 1) :
           ver' = [pc |-> "batch", op |-> ver.op, start_entry_id |-> ver.start_entry_id,
                   end_entry_id |-> ver.end_entry_id, start |-> ver.start, end |-> ver.end,
                   prev_hash |-> e.entry_hash, after |-> ver.after, checked |-> ver.checked,
                   outcome |-> ver.outcome, before |-> ver.before, accepted |-> ver.accepted]
    BY <1>6, <1>7, <1>12, ReadPredecessorIs
  <2>2. /\ ver'.pc = "batch" /\ ver'.start = ver.start /\ ver'.end = ver.end
        /\ ver'.after = ver.after
    BY <2>1
  <2>3. ver.pc = "predecessor" /\ (ver.end = OpenEnd \/ WindowInv(ver.end))
    BY <1>12, ReadPredecessorIs DEF RecentInv
  <2>4. ver.after < ver.start
    <3>1. ver.after = ver.start - 1
      BY <1>0, <2>3 DEF CallInv
    <3>. QED BY <1>0, <3>1
  <2>5. WindowInv(ver.end) => WindowInv(ver.end)'
    BY <1>1, <2>2, <2>4 DEF WindowInv
  <2>. QED BY <2>2, <2>3, <2>5 DEF RecentInv
<1>. QED BY <1>8, <1>9, <1>10, <1>11, <1>12

\* No read before the walk gives a verdict of valid, and the walk begins below the start.
LEMMA PrepareIs ==
    ASSUME VerifyInv, ReadStart \/ ReadEnd \/ ReadTip \/ ReadWindow \/ ReadPredecessor
    PROVE  /\ ver'.outcome # "valid" /\ ver'.before = ver.before /\ ver'.accepted = ver.accepted
           /\ ver'.pc = "done" => /\ ver'.after = ver.after /\ ver'.start = ver.start
                                  /\ ver'.checked = 0 /\ ver.checked = 0
           /\ ver'.pc = "batch" => ver'.checked = 0 /\ ver'.after = ver'.start - 1
<1>0. CallInv
  BY DEF VerifyInv
<1>1. {"invalid_argument", "not_found", "window_start_not_found", "predecessor_not_found"} \subseteq Outcomes
  BY DEF Outcomes
<1>2. ASSUME NEW o \in Outcomes, o # "valid", Step, Finish(o), ver.checked = 0
      PROVE  /\ ver'.outcome # "valid" /\ ver'.before = ver.before /\ ver'.accepted = ver.accepted
             /\ ver'.pc = "done" /\ ver'.after = ver.after /\ ver'.start = ver.start /\ ver'.checked = 0
  BY <1>2, FinishKeeps DEF SameRange
<1>3. CASE ReadStart
  <2>1. Step /\ ver.outcome = "none" /\ ver.checked = 0
    BY <1>0, <1>3, ReadStartIs DEF CallInv
  <2>. QED BY <1>1, <1>2, <1>3, <2>1, ReadStartIs
<1>4. CASE ReadEnd
  <2>1. Step /\ ver.outcome = "none" /\ ver.checked = 0 /\ ver.after = ver.start - 1
    BY <1>0, <1>4, ReadEndIs DEF CallInv
  <2>2. CASE \E o \in Outcomes : o # "valid" /\ Finish(o)
    BY <1>2, <2>1, <2>2
  <2>3. ASSUME NEW pos,
               ver' = [pc |-> IF ver.start = 1 THEN "batch" ELSE "predecessor", op |-> ver.op,
                       start_entry_id |-> ver.start_entry_id, end_entry_id |-> ver.end_entry_id,
                       start |-> ver.start, end |-> pos,
                       prev_hash |-> ver.prev_hash, after |-> ver.after, checked |-> ver.checked,
                       outcome |-> ver.outcome, before |-> ver.before, accepted |-> ver.accepted]
        PROVE  /\ ver'.outcome = "none" /\ ver'.before = ver.before /\ ver'.accepted = ver.accepted
               /\ ver'.pc # "done" /\ ver'.checked = 0 /\ ver'.after = ver'.start - 1
    BY <2>1, <2>3
  <2>. QED BY <1>1, <1>4, <2>2, <2>3, ReadEndIs
<1>5. CASE ReadTip
  <2>1. Step /\ ver.outcome = "none"
    BY <1>0, <1>5, ReadTipIs DEF CallInv
  <2>. QED BY <1>5, <2>1, ReadTipIs
<1>6. CASE ReadWindow
  <2>1. Step /\ ver.outcome = "none" /\ ver.checked = 0
    BY <1>0, <1>6, ReadWindowIs DEF CallInv
  <2>. QED BY <1>1, <1>2, <1>6, <2>1, ReadWindowIs
<1>7. CASE ReadPredecessor
  <2>1. Step /\ ver.outcome = "none" /\ ver.checked = 0 /\ ver.after = ver.start - 1
    BY <1>0, <1>7, ReadPredecessorIs DEF CallInv
  <2>. QED BY <1>1, <1>2, <1>7, <2>1, ReadPredecessorIs
<1>. QED BY <1>3, <1>4, <1>5, <1>6, <1>7

\* A page keeps the range: a verdict of valid passed every row of it that was stored
\* throughout.
LEMMA RangeBatch ==
    ASSUME VerifyInv, RangeInv, ReadBatch
    PROVE  RangeInv'
<1>0. /\ RowsInv /\ HistoryInv /\ CallInv /\ ver.after \in 0..MaxLen /\ ver.start \in 1..MaxLen
      /\ ver.end \in 1..OpenEnd /\ ver.pc = "batch" /\ Step /\ RecentInv /\ WalkInv /\ ver.op \in Walks
  BY DEF VerifyInv, CallInv, ReadBatch, RangeInv
<1>1. PICK c : /\ c = Walked(Good)
               /\ \/ /\ ver' = [c EXCEPT !.pc = "done", !.outcome = "valid"]
                     /\ \/ \E e \in Stopping : /\ e.chain_position > ver.end
                                               /\ \A f \in Stopping : e.chain_position <= f.chain_position
                        \/ Stopping = {} /\ LastPage(Page)
                  \/ \E e \in Stopping :
                       ver' = [c EXCEPT !.pc = "done", !.outcome = Mismatch(e, Page), !.checked = @ + 1]
                  \/ ver' = c
  BY <1>0, ReadBatchIs
<1>2. /\ IsCall(c) /\ SameRange(c, ver) /\ c.pc = "batch" /\ c.after \in ver.after..MaxLen
      /\ Good = {} => c = ver
      /\ \A g \in Good : g.chain_position <= c.after
  BY <1>0, <1>1, WalkedIs
<1>3. rows' = rows /\ written' = written
  BY <1>0 DEF Step
<1>4. ~Disturbed => c.checked = c.after - c.start + 1
  <2>1. ~Disturbed => ver.checked = ver.after - ver.start + 1
    BY <1>0 DEF RangeInv
  <2>. QED BY <1>0, <1>1, <2>1, WalkCounts
<1>5. ASSUME ver'.before = ver.before, ver'.accepted = ver.accepted PROVE Disturbed' <=> Disturbed
  BY <1>3, <1>5 DEF Disturbed
<1>6. ~Disturbed /\ ver.op = "recent" => ver.end = OpenEnd \/ WindowInv(ver.end)
  BY <1>0 DEF RecentInv
<1>7. CASE ver' = c
  <2>1. Disturbed' <=> Disturbed
    BY <1>2, <1>5, <1>7 DEF SameRange
  <2>2. RecentInv'
    <3>1. CASE Disturbed \/ ver.op # "recent"
      BY <1>2, <1>7, <2>1, <3>1 DEF RecentInv, SameRange
    <3>2. CASE ~Disturbed /\ ver.op = "recent" /\ ver.end = OpenEnd
      BY <1>2, <1>7, <3>2 DEF RecentInv, SameRange
    <3>3. CASE ~Disturbed /\ ver.op = "recent" /\ WindowInv(ver.end)
      <4>1. CASE Good = {}
        <5>1. ver' = ver
          BY <1>2, <1>7, <4>1
        <5>2. WindowInv(ver.end)'
          BY <1>3, <3>3, <5>1 DEF WindowInv
        <5>. QED BY <1>0, <5>1, <5>2 DEF RecentInv
      <4>2. CASE Good # {}
        <5>1. ver.start = WindowStart(ver.end)
          BY <1>0, <3>3, <4>2, WindowPasses
        <5>2. ver'.start = WindowStart(ver'.end)
          BY <1>2, <1>7, <5>1 DEF SameRange
        <5>3. WindowInv(ver.end)'
          BY <5>2 DEF WindowInv
        <5>. QED BY <1>2, <1>7, <5>3 DEF RecentInv
      <4>. QED BY <4>1, <4>2
    <3>. QED BY <1>6, <3>1, <3>2, <3>3
  <2>. QED BY <1>2, <1>4, <1>7, <2>1, <2>2 DEF RangeInv, RangeCovered, Done
<1>8. ASSUME ver'.pc = "done", ver'.outcome # "valid" PROVE RangeInv'
  BY <1>8 DEF RangeInv, RecentInv, RangeCovered, Done
<1>9. ASSUME NEW e \in Stopping,
             ver' = [c EXCEPT !.pc = "done", !.outcome = Mismatch(e, Page), !.checked = @ + 1]
      PROVE  RangeInv'
  <2>1. PICK o : o = Mismatch(e, Page) /\ o # "valid"
    BY MismatchIs
  <2>2. ver'.pc = "done" /\ ver'.outcome = o
    BY <1>2, <1>9, <2>1 DEF IsCall
  <2>. QED BY <1>8, <2>1, <2>2
<1>10. ASSUME ver' = [c EXCEPT !.pc = "done", !.outcome = "valid"],
              \/ \E e \in Stopping : /\ e.chain_position > ver.end
                                     /\ \A f \in Stopping : e.chain_position <= f.chain_position
              \/ Stopping = {} /\ LastPage(Page)
       PROVE  RangeInv'
  <2>1. /\ ver'.pc = "done" /\ ver'.outcome = "valid" /\ ver'.op = ver.op /\ ver'.start = ver.start
        /\ ver'.end = ver.end /\ ver'.after = c.after /\ ver'.checked = c.checked
        /\ ver'.before = ver.before /\ ver'.accepted = ver.accepted /\ c.start = ver.start
    BY <1>2, <1>10 DEF IsCall, SameRange
  <2>2. Disturbed' <=> Disturbed
    BY <1>5, <2>1
  <2>3. \A r \in rows : r.chain_position > ver.after /\ r.chain_position <= ver.end => r \in Good
    BY <1>0, <1>10, ValidPasses
  <2>4. ASSUME NEW e \in rows, e.chain_position <= ver.end PROVE e.chain_position <= c.after
    <3>1. e.chain_position \in Int /\ ver.after \in Int /\ c.after \in Int /\ ver.after <= c.after
      BY <1>0, <1>2, RowIs DEF IsRow
    <3>2. CASE e.chain_position > ver.after
      BY <1>2, <2>3, <2>4, <3>2
    <3>. QED BY <3>1, <3>2
  <2>5. ASSUME ~Disturbed, ver.op = "recent", ver.end # OpenEnd PROVE ver.start = WindowStart(ver.end)
    <3>1. WindowInv(ver.end)
      BY <1>6, <2>5
    <3>2. CASE Good # {}
      BY <1>0, <2>5, <3>1, <3>2, WindowPasses
    <3>3. CASE Good = {} /\ ver.start # WindowStart(ver.end)
      <4>1. PICK s \in rows : s.chain_position = ver.start
        BY <3>1, <3>3 DEF WindowInv
      <4>2. ver.after < ver.start
        BY <1>0, <3>1, <3>3 DEF WindowInv
      <4>3. ver.start <= ver.end
        BY <1>0 DEF WalkInv
      <4>4. s \in Good
        BY <1>0, <2>3, <4>1, <4>2, <4>3
      <4>. QED BY <3>3, <4>4
    <3>. QED BY <3>2, <3>3
  <2>6. RangeCovered'
    <3>1. \A e \in ver'.before \cap rows' :
            ver'.start <= e.chain_position /\ e.chain_position <= ver'.end => e.chain_position <= ver'.after
      BY <1>3, <2>1, <2>4
    <3>2. ~Disturbed => /\ ver'.checked = ver'.after - ver'.start + 1
                        /\ ver'.op = "recent" /\ ver'.end # OpenEnd => ver'.start = WindowStart(ver'.end)
      BY <1>4, <2>1, <2>5
    <3>3. (written \ rows = ver.accepted \ ver.before)' => ~Disturbed
      BY <2>2 DEF Disturbed
    <3>. QED BY <3>1, <3>2, <3>3 DEF RangeCovered
  <2>. QED BY <2>1, <2>6 DEF RangeInv, RecentInv
<1>. QED BY <1>1, <1>7, <1>9, <1>10

\* Every step keeps the range.
LEMMA RangeStep ==
    VerifyInv /\ VerifyInv' /\ RangeInv /\ [Next]_vars => RangeInv'
<1>. SUFFICES ASSUME VerifyInv, VerifyInv', RangeInv, [Next]_vars PROVE RangeInv'
  OBVIOUS
<1>0. RowsInv /\ HistoryInv /\ CallInv /\ RecentInv /\ RangeCovered
  BY DEF VerifyInv, RangeInv
<1>1. CASE UNCHANGED vars
  BY <1>1 DEF RangeInv, RecentInv, WindowInv, RangeCovered, Disturbed, Done, vars
<1>2. CASE (\E v \in {V2, V3} : Append(v)) \/ (\E e \in rows : Damage(e))
  <2>1. ver' = ver /\ (Disturbed => Disturbed') /\ RecentInv'
    BY <1>0, <1>2, BetweenReads, DisturbedStays, RecentBetweenReads
  <2>2. \A e \in ver.before : e \in rows' => e \in rows
    <3>1. /\ \A w \in written : w \in rows' => w \in rows
          /\ ver.before \ ver.accepted \subseteq rows /\ ver.accepted \subseteq written
      BY <1>0, <1>2, BetweenReads DEF HistoryInv
    <3>. QED BY <3>1
  <2>3. (written \ rows = ver.accepted \ ver.before)' => written \ rows = ver.accepted \ ver.before
    BY <2>1 DEF Disturbed
  <2>4. RangeCovered'
    BY <1>0, <2>1, <2>2, <2>3 DEF RangeCovered, Done
  <2>. QED BY <2>1, <2>4 DEF RangeInv
<1>3. CASE ReadStart \/ ReadEnd \/ ReadTip \/ ReadWindow \/ ReadPredecessor
  <2>1. RecentInv'
    BY <1>0, <1>3, RecentPrepare
  <2>2. /\ ver'.outcome # "valid"
        /\ ver'.pc = "batch" => ver'.checked = 0 /\ ver'.after = ver'.start - 1
    BY <1>3, PrepareIs
  <2>3. ver'.start \in Int
    BY DEF VerifyInv, CallInv
  <2>4. ver'.pc = "batch" => ver'.checked = ver'.after - ver'.start + 1
    BY <2>2, <2>3
  <2>. QED BY <2>1, <2>2, <2>4 DEF RangeInv, RangeCovered
<1>4. CASE ReadBatch
  BY <1>4, RangeBatch
<1>5. ASSUME \/ ver'.pc \in {"idle", "done"} /\ ver'.outcome # "valid"
             \/ ver'.pc # "batch" /\ ver'.op \notin Walks
      PROVE  RangeInv'
  BY <1>5, OpsDiffer DEF RangeInv, RecentInv, RangeCovered, Done
<1>6. CASE (\E s, t \in Ids : VerifyChain(s, t)) \/ VerifyRecentChain
  <2>1. PICK q, o, s, t :
          /\ \/ q = "start" /\ o = "chain"
             \/ q = "tip" /\ o = "recent" /\ s = NoId /\ t = NoId
          /\ ver' = [pc |-> q, op |-> o, start_entry_id |-> s, end_entry_id |-> t, start |-> 1,
                     end |-> OpenEnd, prev_hash |-> Genesis, after |-> 0, checked |-> 0,
                     outcome |-> "none", before |-> rows, accepted |-> written]
    BY <1>6, NewWalkIs
  <2>2. ver'.pc = q /\ ver'.op = o /\ ver'.start_entry_id = s /\ ver'.end_entry_id = t
    BY <2>1
  <2>. QED BY <2>1, <2>2 DEF RangeInv, RecentInv, RangeCovered, Done
<1>7. ASSUME NEW id \in 1..MaxLen, VerifyEntry(id) \/ VerifyProof(id) PROVE RangeInv'
  <2>1. ver'.pc # "batch" /\ ver'.op \in {"entry", "proof"}
    BY <1>0, <1>7, VerifyEntryIs, VerifyProofIs
  <2>. QED BY <1>5, <2>1, OpsDiffer
<1>8. CASE ReadLink
  <2>1. PICK o \in Outcomes : Finish(o)
    BY <1>8, ReadLinkIs DEF Outcomes
  <2>2. ver'.pc = "done" /\ ver'.op = ver.op /\ ver.op = "entry"
    BY <1>0, <1>8, <2>1, ReadLinkIs, FinishKeeps DEF CallInv, SameRange
  <2>. QED BY <1>5, <2>2, OpsDiffer
<1>9. CASE DbError
  <2>1. "unavailable" \in Outcomes
    BY DEF Outcomes
  <2>2. ver'.pc = "done" /\ ver'.outcome = "unavailable"
    BY <1>9, <2>1, FinishKeeps DEF DbError
  <2>. QED BY <1>5, <2>2
<1>10. CASE Return
  <2>1. ver'.pc = "idle" /\ ver'.outcome = "none"
    BY <1>10, NoCallIs DEF Return
  <2>. QED BY <1>5, <2>1
<1>. QED BY <1>1, <1>2, <1>3, <1>4, <1>6, <1>7, <1>8, <1>9, <1>10, NextIs

\* chain_valid covers the range that was asked for: no row between the bounds that was there
\* throughout is skipped; and unless rows were damaged under the call, entries_checked counts
\* the range without a gap and the online window is as long as configured.
THEOREM ValidCoversRange == Spec => []RangeCovered
<1>1. Init => RangeInv
  <2>. SUFFICES ASSUME Init PROVE RangeInv
    OBVIOUS
  <2>1. ver.pc = "idle"
    BY NoCallIs DEF Init
  <2>. QED BY <2>1 DEF RangeInv, RecentInv, RangeCovered, Done
<1>2. RangeInv => RangeCovered
  BY DEF RangeInv
<1>. QED BY <1>1, <1>2, RangeStep, VerifyInvariant, PTL DEF Spec

-----------------------------------------------------------------------------
(* What the walk has passed *)

\* Whoever links to a rewritten row took the place of the row that did before.
LEMMA LinkedToRewritten ==
    ASSUME RowsInv, NEW w \in written, NEW u \in written, u.previous_hash = Rewritten(w).entry_hash,
           u.chain_position = w.chain_position + 1
    PROVE  Replaced(w)
<1>1. PICK v \in written : v # u /\ v.chain_position = u.chain_position
  BY DEF RowsInv, RewriteInv
<1>. QED BY <1>1 DEF Replaced

\* The entries a page passes were sound when the call began, the last of them apart, which
\* may have been rewritten.
LEMMA PassedSound ==
    ASSUME RowsInv, HistoryInv, CallInv, ver.pc = "batch", NEW g \in Good,
           NEW w \in ver.accepted, g.chain_position = w.chain_position, ~Replaced(w)
    PROVE  \/ IntactAtStart(w)
           \/ g = Rewritten(w) /\ Rehashed(w) /\ g = Last(Good)
<1>1. ver.after \in Nat /\ ver.end \in Int
  BY VerifyAssumption DEF CallInv, OpenEnd
<1>2. /\ ver.accepted \subseteq written
      /\ \A r \in rows, x \in ver.accepted : r.entry_id = x.entry_id => r \in ver.before \/ x \in ver.before
  BY DEF HistoryInv
<1>3. PICK u \in written : /\ Version(g, u) /\ IsAppended(u) /\ g.chain_position = u.chain_position
                           /\ g.entry_id = u.entry_id
  BY <1>1, GoodIs
<1>4. u = w
  BY <1>2, <1>3 DEF Replaced
<1>5. g \in rows /\ HashValid(g) /\ g.chain_position > ver.after
  BY <1>1, GoodIs
<1>6. g \in ver.before \/ w \in ver.before
  BY <1>2, <1>3, <1>4, <1>5
<1>7. g = w \/ (w.hash_version = V2 /\ g = [w EXCEPT !.proof = g.proof]) \/ g = Rewritten(w)
  BY <1>3, <1>4, <1>5, VersionIs
<1>8. CASE w \in ver.before \/ g # Rewritten(w)
  BY <1>6, <1>7, <1>8 DEF IntactAtStart
<1>9. CASE w \notin ver.before /\ g = Rewritten(w)
  <2>1. Rehashed(w)
    BY <1>3, <1>4, <1>5, <1>6, <1>9 DEF Rehashed
  <2>2. PICK F \in Good :
          /\ \A h \in Good : F.chain_position <= h.chain_position /\ h.chain_position <= Last(Good).chain_position
          /\ Last(Good) \in Good
          /\ \A q \in F.chain_position..Last(Good).chain_position : \E h \in Good : h.chain_position = q
    BY <1>1, RunIs
  <2>3. \A h \in Good : h \in rows /\ h.chain_position \in Nat
    <3>1. \A h \in Good : h \in rows
      BY <1>1, GoodIs
    <3>. QED BY <3>1, RowIs, VerifyAssumption DEF IsRow
  <2>4. CASE g.chain_position = Last(Good).chain_position
    <3>1. g = Last(Good)
      BY <2>2, <2>3, <2>4 DEF RowsInv, Stored
    <3>. QED BY <1>9, <2>1, <3>1
  <2>5. CASE g.chain_position # Last(Good).chain_position
    <3>1. g.chain_position + 1 \in F.chain_position..Last(Good).chain_position
      BY <2>2, <2>3, <2>5
    <3>2. PICK h \in Good : h.chain_position = g.chain_position + 1
      BY <2>2, <3>1
    <3>3. ver.after < g.chain_position /\ g.chain_position < h.chain_position
      BY <1>1, <1>5, <2>3, <3>2
    <3>4. PICK p \in Good : p.chain_position = h.chain_position - 1 /\ p.entry_hash = h.previous_hash
      BY <1>1, <1>5, <3>3, GoodIs
    <3>5. p.chain_position = g.chain_position
      BY <2>3, <3>2, <3>4
    <3>6. p = g
      BY <2>3, <3>5 DEF RowsInv, Stored
    <3>7. PICK x \in written : h.previous_hash = x.previous_hash /\ h.chain_position = x.chain_position
      BY <1>1, GoodIs
    <3>8. x.previous_hash = Rewritten(w).entry_hash /\ x.chain_position = w.chain_position + 1
      BY <1>9, <3>2, <3>4, <3>6, <3>7
    <3>9. Replaced(w)
      BY <1>2, <3>8, LinkedToRewritten
    <3>. QED BY <3>9
  <2>. QED BY <2>4, <2>5
<1>. QED BY <1>8, <1>9

\* What was passed before the page and in it.
LEMMA WalkSound ==
    ASSUME VerifyInv, SoundInv, ver.pc = "batch", NEW c, c = Walked(Good),
           c.after - ver.start <= c.checked, NEW w \in ver.accepted,
           ver.start <= w.chain_position, w.chain_position <= c.after, ~Replaced(w)
    PROVE  \/ IntactAtStart(w)
           \/ w.chain_position = c.after /\ Rehashed(w) /\ c.prev_hash = Rewritten(w).entry_hash
<1>1. /\ RowsInv /\ HistoryInv /\ CallInv /\ ver.accepted \subseteq written
      /\ WalkInv /\ ver.after \in Nat /\ ver.start \in Nat \ {0} /\ ver.end \in Int /\ ver.checked \in Nat
  BY VerifyAssumption DEF VerifyInv, HistoryInv, CallInv, OpenEnd
<1>2. ver.checked <= ver.after - ver.start + 1
  BY <1>1 DEF WalkInv
<1>3. w \in written /\ w.chain_position \in Nat
  BY <1>1, WrittenIs, VerifyAssumption DEF RowsInv, IsRow
<1>4. /\ Good = {} => c = ver
      /\ Good # {} => /\ c.after = Last(Good).chain_position
                      /\ c.prev_hash = Last(Good).entry_hash
                      /\ c.checked = ver.checked + Cardinality(Good)
  BY <1>1, WalkedIs
<1>5. CASE Good = {}
  BY <1>4, <1>5 DEF SoundInv
<1>6. CASE Good # {}
  <2>1. PICK L : L = Last(Good)
    OBVIOUS
  <2>2. PICK F \in Good :
          /\ L \in Good /\ F.previous_hash = ver.prev_hash /\ F.chain_position <= L.chain_position
          /\ \A f \in rows : ~(ver.after < f.chain_position /\ f.chain_position < F.chain_position)
          /\ \A q \in F.chain_position..L.chain_position : \E g \in Good : g.chain_position = q
          /\ Cardinality(Good) = L.chain_position - F.chain_position + 1
    BY <1>1, <1>6, <2>1, RunIs
  <2>3. \A h \in Good : h \in rows /\ h.chain_position \in Nat /\ h.chain_position > ver.after
    <3>1. \A h \in Good : h \in rows /\ h.chain_position > ver.after
      BY <1>1, GoodIs
    <3>. QED BY <1>1, <3>1, RowIs, VerifyAssumption DEF IsRow
  <2>4. /\ L.chain_position - ver.start <= ver.checked + (L.chain_position - F.chain_position + 1)
        /\ w.chain_position <= L.chain_position
    BY <1>4, <1>6, <2>1, <2>2
  <2>5. F.chain_position <= ver.after + 2 /\ F.chain_position > ver.after
        /\ L.chain_position \in Nat /\ F.chain_position \in Nat
    BY <1>1, <1>2, <2>2, <2>3, <2>4
  <2>6. CASE w.chain_position >= F.chain_position
    <3>1. w.chain_position \in F.chain_position..L.chain_position
      BY <1>3, <2>4, <2>5, <2>6
    <3>2. PICK g \in Good : g.chain_position = w.chain_position
      BY <2>2, <3>1
    <3>3. IntactAtStart(w) \/ (g = Rewritten(w) /\ Rehashed(w) /\ g = Last(Good))
      BY <1>1, <3>2, PassedSound
    <3>. QED BY <1>4, <1>6, <3>2, <3>3
  <2>7. CASE w.chain_position <= ver.after
    <3>1. F.chain_position = ver.after + 1
      <4>1. ver.after # ver.start - 1
        BY <1>1, <1>3, <2>7
      <4>. QED BY <1>1, <2>2, <4>1, FirstPassed
    <3>2. ver.after - ver.start <= ver.checked
      BY <1>1, <2>4, <2>5, <3>1
    <3>3. \/ IntactAtStart(w)
          \/ w.chain_position = ver.after /\ ver.prev_hash = Rewritten(w).entry_hash
      BY <2>7, <3>2 DEF SoundInv
    <3>4. CASE w.chain_position = ver.after /\ ver.prev_hash = Rewritten(w).entry_hash
      <4>1. PICK u \in written : F.previous_hash = u.previous_hash /\ F.chain_position = u.chain_position
        BY <1>1, GoodIs
      <4>2. u.previous_hash = Rewritten(w).entry_hash /\ u.chain_position = w.chain_position + 1
        BY <2>2, <3>1, <3>4, <4>1
      <4>3. Replaced(w)
        BY <1>1, <1>3, <4>2, LinkedToRewritten
      <4>. QED BY <4>3
    <3>. QED BY <3>3, <3>4
  <2>8. CASE w.chain_position > ver.after /\ w.chain_position < F.chain_position
    <3>1. w.chain_position = ver.after + 1 /\ F.chain_position = ver.after + 2
      BY <1>1, <1>3, <2>5, <2>8
    <3>2. F.chain_position # ver.after + 1
      BY <1>1, <3>1
    <3>3. PICK r \in written : /\ r.chain_position = F.chain_position - 1
                               /\ r \in ver.accepted => r \in ver.before
      BY <1>1, <2>2, <3>2, FirstPassed
    <3>4. r.chain_position = w.chain_position
      BY <1>1, <3>1, <3>3
    <3>5. r = w
      BY <1>3, <3>4 DEF Replaced
    <3>. QED BY <3>3, <3>5 DEF IntactAtStart
  <2>9. \/ w.chain_position >= F.chain_position \/ w.chain_position <= ver.after
        \/ w.chain_position > ver.after /\ w.chain_position < F.chain_position
    BY <1>1, <1>3, <2>5
  <2>. QED BY <2>6, <2>7, <2>8, <2>9
<1>. QED BY <1>5, <1>6

\* A call that ends where the walk is.
LEMMA SoundEnds ==
    ASSUME VerifyInv, SoundInv, ver.pc = "batch", NEW c, c = Walked(Good), Step,
           ver'.before = ver.before, ver'.accepted = ver.accepted, ver'.start = ver.start,
           ver'.after = c.after, ver'.prev_hash = c.prev_hash,
           \/ ver'.pc = "batch" /\ ver'.checked = c.checked
           \/ ver'.pc = "done" /\ ver'.checked \in {c.checked, c.checked + 1}
    PROVE  SoundInv'
<1>1. rows' = rows /\ written' = written
  BY DEF Step
<1>2. ASSUME NEW w \in ver.accepted
      PROVE  /\ Replaced(w)' <=> Replaced(w)
             /\ IntactAtStart(w)' <=> IntactAtStart(w)
             /\ Rehashed(w)' <=> Rehashed(w)
  BY <1>1 DEF Replaced, IntactAtStart, Rehashed
<1>3. c.after \in Int /\ c.checked \in Int /\ ver.start \in Int
  <2>1. c.after \in ver.after..MaxLen /\ c.checked \in Nat
    BY WalkedIs DEF VerifyInv
  <2>. QED BY <2>1 DEF VerifyInv, CallInv
<1>4. ASSUME NEW w \in ver.accepted, c.after - ver.start <= c.checked, ver.start <= w.chain_position,
             w.chain_position <= c.after, ~Replaced(w)
      PROVE  \/ IntactAtStart(w)
             \/ w.chain_position = c.after /\ Rehashed(w) /\ c.prev_hash = Rewritten(w).entry_hash
  BY <1>4, WalkSound
<1>5. CASE ver'.pc = "batch"
  <2>1. ver'.checked = c.checked
    BY <1>5
  <2>2. ASSUME NEW w \in ver'.accepted, ver'.after - ver'.start <= ver'.checked,
               ver'.start <= w.chain_position, w.chain_position <= ver'.after, ~Replaced(w)'
        PROVE  \/ IntactAtStart(w)'
               \/ /\ w.chain_position = ver'.after /\ Rehashed(w)'
                  /\ ver'.prev_hash = Rewritten(w).entry_hash
    BY <1>2, <1>4, <2>1, <2>2
  <2>. QED BY <1>5, <2>2 DEF SoundInv, DamageReported, Done
<1>6. CASE ver'.pc = "done"
  <2>1. ver'.checked \in {c.checked, c.checked + 1}
    BY <1>6
  <2>2. ver'.after - ver'.start < ver'.checked => c.after - ver.start <= c.checked
    BY <1>3, <2>1
  <2>3. ASSUME NEW w \in ver'.accepted, ver'.after - ver'.start < ver'.checked,
               ver'.start <= w.chain_position, ~Replaced(w)',
               w.chain_position < ver'.after \/ (w.chain_position = ver'.after /\ ~Rehashed(w)')
        PROVE  IntactAtStart(w)'
    <3>1. w \in ver.accepted /\ w.chain_position \in Int
      <4>1. w \in written
        BY DEF VerifyInv, HistoryInv
      <4>. QED BY <4>1, WrittenIs DEF VerifyInv, RowsInv, IsRow
    <3>2. w.chain_position <= c.after /\ ~(w.chain_position = c.after /\ Rehashed(w))
      BY <1>2, <1>3, <2>3, <3>1
    <3>. QED BY <1>2, <1>4, <2>2, <2>3, <3>1, <3>2
  <2>. QED BY <1>6, <2>3 DEF SoundInv, DamageReported
<1>. QED BY <1>5, <1>6

\* A call that walked past nothing.
LEMMA NothingPassed ==
    ASSUME VerifyInv', ver'.pc \in {"batch", "done"} /\ ver'.op \in Walks => ver'.after < ver'.start
    PROVE  SoundInv'
<1>1. /\ ver'.after \in Int /\ ver'.start \in Int
      /\ \A w \in ver'.accepted : w.chain_position \in Int
  <2>1. ver'.after \in 0..MaxLen /\ ver'.start \in 1..MaxLen /\ WrittenInv' /\ ver'.accepted \subseteq written'
    BY DEF VerifyInv, CallInv, RowsInv, HistoryInv
  <2>2. \A w \in written' : IsAppended(w)
    BY <2>1 DEF WrittenInv
  <2>. QED BY <2>1, <2>2 DEF IsAppended
<1>2. ver'.pc = "batch" => ver'.op \in Walks
  BY DEF VerifyInv, CallInv
<1>. QED BY <1>1, <1>2 DEF SoundInv, DamageReported, Done

\* Every step keeps it.
LEMMA SoundStep ==
    VerifyInv /\ VerifyInv' /\ SoundInv /\ [Next]_vars => SoundInv'
<1>. SUFFICES ASSUME VerifyInv, VerifyInv', SoundInv, [Next]_vars PROVE SoundInv'
  OBVIOUS
<1>0. /\ RowsInv /\ HistoryInv /\ CallInv /\ IsCall(ver) /\ ver.start \in 1..MaxLen
      /\ ver.after \in 0..MaxLen /\ ver.checked \in 0..MaxLen
  BY DEF VerifyInv, CallInv, IsCall
<1>1. ASSUME ver' = ver, written \subseteq written' PROVE SoundInv'
  <2>1. \A w : /\ Replaced(w) => Replaced(w)'
               /\ IntactAtStart(w)' <=> IntactAtStart(w)
               /\ Rehashed(w)' <=> Rehashed(w)
    BY <1>1 DEF Replaced, IntactAtStart, Rehashed
  <2>. QED BY <1>1, <2>1 DEF SoundInv, DamageReported, Done
<1>2. CASE UNCHANGED vars
  BY <1>1, <1>2 DEF vars
<1>3. CASE (\E v \in {V2, V3} : Append(v)) \/ (\E e \in rows : Damage(e))
  BY <1>0, <1>1, <1>3, BetweenReads
<1>4. CASE ReadStart \/ ReadEnd \/ ReadTip \/ ReadWindow \/ ReadPredecessor
  <2>1. /\ ver'.pc = "done" => ver'.after = ver.after /\ ver'.start = ver.start
        /\ ver'.pc = "batch" => ver'.after = ver'.start - 1
    BY <1>4, PrepareIs
  <2>2. ver.pc \in {"start", "end", "tip", "window", "predecessor"}
    BY <1>4, ReadStartIs, ReadEndIs, ReadTipIs, ReadWindowIs, ReadPredecessorIs
  <2>3. ver.after < ver.start
    <3>1. ver.after = 0 \/ ver.after = ver.start - 1
      BY <1>0, <2>2 DEF CallInv
    <3>. QED BY <1>0, <3>1
  <2>4. ver'.start \in Int
    BY DEF VerifyInv, CallInv
  <2>5. ver'.pc \in {"batch", "done"} => ver'.after < ver'.start
    BY <2>1, <2>3, <2>4
  <2>. QED BY <2>5, NothingPassed
<1>5. CASE ReadBatch
  <2>1. PICK c : /\ c = Walked(Good) /\ ver.pc = "batch"
                 /\ \/ ver' = [c EXCEPT !.pc = "done", !.outcome = "valid"]
                    \/ \E o, k : /\ ver' = [c EXCEPT !.pc = "done", !.outcome = o, !.checked = k]
                                 /\ k = c.checked + 1
                    \/ ver' = c
    BY <1>0, <1>5, ReadBatchIs
  <2>2. IsCall(c) /\ SameRange(c, ver) /\ c.pc = "batch"
    BY <1>0, <2>1, WalkedIs
  <2>3. /\ ver'.before = c.before /\ ver'.accepted = c.accepted /\ ver'.start = c.start
        /\ ver'.after = c.after /\ ver'.prev_hash = c.prev_hash
        /\ \/ ver'.pc = "batch" /\ ver'.checked = c.checked
           \/ ver'.pc = "done" /\ ver'.checked \in {c.checked, c.checked + 1}
    <3>1. CASE ver' = [c EXCEPT !.pc = "done", !.outcome = "valid"]
      BY <2>2, <3>1 DEF IsCall
    <3>2. ASSUME NEW o, NEW k, ver' = [c EXCEPT !.pc = "done", !.outcome = o, !.checked = k]
          PROVE  /\ ver'.before = c.before /\ ver'.accepted = c.accepted /\ ver'.start = c.start
                 /\ ver'.after = c.after /\ ver'.prev_hash = c.prev_hash /\ ver'.pc = "done"
                 /\ ver'.checked = k
      BY <2>2, <3>2 DEF IsCall
    <3>3. CASE ver' = c
      BY <2>2, <3>3
    <3>4. CASE \E o, k : /\ ver' = [c EXCEPT !.pc = "done", !.outcome = o, !.checked = k]
                         /\ k = c.checked + 1
      <4>1. PICK o, k : /\ ver' = [c EXCEPT !.pc = "done", !.outcome = o, !.checked = k]
                        /\ k = c.checked + 1
        BY <3>4
      <4>2. /\ ver'.before = c.before /\ ver'.accepted = c.accepted /\ ver'.start = c.start
            /\ ver'.after = c.after /\ ver'.prev_hash = c.prev_hash /\ ver'.pc = "done"
            /\ ver'.checked = k
        BY <4>1, <3>2
      <4>. QED BY <4>1, <4>2
    <3>. QED BY <2>1, <3>1, <3>3, <3>4
  <2>4. Step /\ c.before = ver.before /\ c.accepted = ver.accepted /\ c.start = ver.start
    BY <1>5, <2>2 DEF ReadBatch, SameRange
  <2>. QED BY <2>1, <2>3, <2>4, SoundEnds
<1>6. CASE (\E s, t \in Ids : VerifyChain(s, t)) \/ VerifyRecentChain
  <2>1. ver'.pc \in {"start", "tip"}
    BY <1>6, NewWalkIs
  <2>. QED BY <2>1, NothingPassed
<1>7. ASSUME NEW id \in 1..MaxLen, VerifyEntry(id) \/ VerifyProof(id) PROVE SoundInv'
  <2>1. ver'.op \in {"entry", "proof"}
    BY <1>0, <1>7, VerifyEntryIs, VerifyProofIs
  <2>. QED BY <2>1, OpsDiffer, NothingPassed
<1>8. CASE ReadLink
  <2>1. PICK o \in Outcomes : Finish(o)
    BY <1>8, ReadLinkIs DEF Outcomes
  <2>2. ver'.op = ver.op /\ ver.op = "entry"
    BY <1>0, <1>8, <2>1, ReadLinkIs, FinishKeeps DEF CallInv, SameRange
  <2>. QED BY <2>2, OpsDiffer, NothingPassed
<1>9. CASE DbError
  <2>1. "unavailable" \in Outcomes
    BY DEF Outcomes
  <2>2. /\ ver'.pc = "done" /\ SameRange(ver', ver) /\ ver'.after = ver.after /\ ver'.checked = ver.checked
        /\ ver.pc \notin {"idle", "done"} /\ Step
    BY <1>9, <2>1, FinishKeeps DEF DbError
  <2>3. CASE ver.pc # "batch"
    <3>1. ver.op \in Walks => ver.after = 0 \/ ver.after = ver.start - 1
      BY <1>0, <2>2, <2>3, OpsDiffer DEF CallInv
    <3>2. ver.op \in Walks => ver.after < ver.start
      BY <1>0, <3>1
    <3>. QED BY <2>2, <3>2, NothingPassed DEF SameRange
  <2>4. CASE ver.pc = "batch"
    <3>1. written' = written /\ ver'.before = ver.before /\ ver'.accepted = ver.accepted /\ ver'.start = ver.start
      BY <2>2 DEF Step, SameRange
    <3>2. \A w : /\ Replaced(w)' <=> Replaced(w)
                 /\ IntactAtStart(w)' <=> IntactAtStart(w)
                 /\ Rehashed(w)' <=> Rehashed(w)
      BY <3>1 DEF Replaced, IntactAtStart, Rehashed
    <3>3. ver.after - ver.start < ver.checked => ver.after - ver.start <= ver.checked
      BY <1>0
    <3>4. ASSUME NEW w \in ver.accepted, ver.after - ver.start < ver.checked,
                 ver.start <= w.chain_position, ~Replaced(w),
                 w.chain_position < ver.after \/ (w.chain_position = ver.after /\ ~Rehashed(w))
          PROVE  IntactAtStart(w)
      <4>1. w.chain_position \in Int
        <5>1. w \in written
          BY <1>0 DEF HistoryInv
        <5>. QED BY <1>0, <5>1, WrittenIs DEF RowsInv, IsRow
      <4>2. w.chain_position <= ver.after /\ ~(w.chain_position = ver.after /\ Rehashed(w))
        BY <1>0, <3>4, <4>1
      <4>. QED BY <2>4, <3>3, <3>4, <4>2 DEF SoundInv
    <3>. QED BY <2>2, <3>1, <3>2, <3>4 DEF SoundInv, DamageReported
  <2>. QED BY <2>3, <2>4
<1>10. CASE Return
  <2>1. ver'.pc = "idle"
    BY <1>10, NoCallIs DEF Return
  <2>. QED BY <2>1, NothingPassed
<1>. QED BY <1>2, <1>3, <1>4, <1>5, <1>6, <1>7, <1>8, <1>9, <1>10, NextIs

\* Whatever verify_chain walked past was sound when the call began: damage within the range
\* stops the walk at the damaged row or the next, the end of the chain apart.
THEOREM DamageIsReported == Spec => []DamageReported
<1>1. Init => SoundInv
  <2>. SUFFICES ASSUME Init PROVE SoundInv
    OBVIOUS
  <2>1. ver.pc = "idle"
    BY NoCallIs DEF Init
  <2>. QED BY <2>1 DEF SoundInv, DamageReported, Done
<1>2. SoundInv => DamageReported
  BY DEF SoundInv
<1>. QED BY <1>1, <1>2, SoundStep, VerifyInvariant, PTL DEF Spec
====
