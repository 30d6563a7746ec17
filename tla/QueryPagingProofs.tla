------------------------- MODULE QueryPagingProofs -------------------------
(***************************************************************************)
(* Theorems about QueryPaging, for any entry types, filters, page sizes and   *)
(* numbers of rows.                                                           *)
(***************************************************************************)
EXTENDS QueryPaging, FiniteSetTheorems, FunctionTheorems, SequenceTheorems,
        WellFoundedInduction, TLAPS

-----------------------------------------------------------------------------
(* Rows, orders and pages *)

\* Before is a strict order on rows.
LEMMA BeforeIsOrder ==
    ASSUME NEW e \in Row, NEW f \in Row, NEW g \in Row
    PROVE  ~Before(e, e) /\ (Before(e, f) /\ Before(f, g) => Before(e, g))
  BY QueryAssumption DEF Row, Before

\* The rows listed before the i-th row of a result without ties are the i - 1 rows
\* above it, and every row is listed.
LEMMA OrdersRank ==
    ASSUME NEW S, IsFiniteSet(S), S \subseteq Row, NEW s \in Orders(S),
           \A e, f \in S : Tied(e, f) => e = f
    PROVE  /\ \A i \in 1..Cardinality(S) :
                Cardinality({f \in S : Before(f, s[i])}) = i - 1
           /\ \A e \in S : \E i \in 1..Cardinality(S) : s[i] = e
<1>. DEFINE n == Cardinality(S)
<1>1. n \in Nat
  BY FS_CardinalityType
<1>2. s \in [1..n -> S] /\ \A i, j \in 1..n : i < j => s[i] # s[j] /\ ~Before(s[j], s[i])
  BY DEF Orders
<1>. HIDE DEF n
<1>3. \A i, j \in 1..n : s[i] = s[j] => i = j
  BY <1>1, <1>2
<1>4. s \in Injection(1..n, S)
  BY <1>2, <1>3 DEF Injection, IsInjective
<1>5. IsFiniteSet(1..n) /\ Cardinality(1..n) = Cardinality(S)
  BY <1>1, FS_Interval DEF n
<1>6. s \in Surjection(1..n, S)
  BY <1>4, <1>5, FS_Injection
<1>7. \A e \in S : \E i \in 1..n : s[i] = e
  BY <1>6 DEF Surjection
<1>8. ASSUME NEW i \in 1..n
      PROVE  Cardinality({f \in S : Before(f, s[i])}) = i - 1
  <2>. DEFINE T == {s[j] : j \in 1..(i - 1)}
              g == [j \in 1..(i - 1) |-> s[j]]
  <2>1. 1..(i - 1) \subseteq 1..n /\ i - 1 \in Nat
    BY <1>1
  <2>2. \A j \in 1..(i - 1) : Before(s[j], s[i])
    <3>. TAKE j \in 1..(i - 1)
    <3>1. j \in 1..n /\ j < i
      BY <1>1
    <3>2. s[j] # s[i] /\ ~Before(s[i], s[j]) /\ s[i] \in S /\ s[j] \in S
      BY <1>2, <3>1
    <3>. QED BY <3>2 DEF Tied
  <2>3. ASSUME NEW f \in S, Before(f, s[i]) PROVE f \in T
    <3>1. PICK j \in 1..n : s[j] = f
      BY <1>7
    <3>2. ~(i < j)
      BY <1>2, <2>3, <3>1
    <3>3. j # i
      BY <1>2, <2>3, <3>1, BeforeIsOrder
    <3>4. j \in 1..(i - 1)
      BY <1>1, <3>2, <3>3
    <3>. QED BY <3>1, <3>4
  <2>4. {f \in S : Before(f, s[i])} = T
    BY <1>2, <2>1, <2>2, <2>3
  <2>5. g \in Bijection(1..(i - 1), T)
    BY <1>3, <2>1 DEF Bijection, Injection, Surjection, IsInjective
  <2>6. Cardinality(T) = i - 1
    <3>. HIDE DEF T, g
    <3>1. ExistsBijection(1..(i - 1), T)
      BY <2>5 DEF ExistsBijection
    <3>. QED BY <2>1, <3>1, FS_CountingElements
  <2>. QED BY <2>4, <2>6
<1>. QED BY <1>7, <1>8 DEF n

\* What LIMIT and OFFSET take of a result.
LEMMA PageIs ==
    ASSUME NEW S, IsFiniteSet(S), NEW s \in Orders(S), NEW offset \in Nat, NEW limit \in Nat \ {0}
    PROVE  LET page == Page(s, offset, limit)
               n    == Cardinality(S)
           IN  /\ page \in Seq(S)
               /\ n \in Nat /\ Len(page) \in Nat
               /\ Len(page) = 0 => n <= offset
               /\ offset < n => Len(page) > 0 /\ offset + Len(page) <= n
               /\ \A i \in 1..Len(page) : offset + i \in 1..n /\ page[i] = s[offset + i]
<1>. DEFINE n == Cardinality(S)
            last == Least(offset + limit, Len(s))
            page == Page(s, offset, limit)
<1>1. n \in Nat /\ s \in [1..n -> S]
  BY FS_CardinalityType DEF Orders
<1>2. s \in Seq(S) /\ Len(s) = n
  BY <1>1, SeqDef, LenProperties
<1>3. last \in Nat /\ last <= n /\ (offset < n => offset < last)
  BY <1>1, <1>2 DEF Least
<1>. HIDE DEF n, last
<1>4. \A i \in (offset + 1)..last : s[i] \in S /\ i \in 1..n
  BY <1>1, <1>3
<1>5. /\ SubSeq(s, offset + 1, last) \in Seq(S)
      /\ Len(SubSeq(s, offset + 1, last)) = IF offset + 1 <= last THEN last - (offset + 1) + 1 ELSE 0
      /\ \A i \in 1..(last - (offset + 1) + 1) :
            SubSeq(s, offset + 1, last)[i] = s[offset + 1 + i - 1]
  BY <1>3, <1>4, SubSeqProperties
<1>6. page = SubSeq(s, offset + 1, last)
  BY DEF Page, last
<1>. HIDE DEF page
<1>7. /\ page \in Seq(S)
      /\ Len(page) = IF offset < last THEN last - offset ELSE 0
      /\ \A i \in 1..Len(page) : i \in 1..(last - offset) /\ page[i] = s[offset + i]
  <2>1. last - (offset + 1) + 1 = last - offset /\ (offset + 1 <= last <=> offset < last)
    BY <1>3
  <2>2. \A i \in Int : offset + 1 + i - 1 = offset + i
    OBVIOUS
  <2>. QED BY <1>3, <1>5, <1>6, <2>1, <2>2
<1>8. \A i \in 1..Len(page) : offset + i \in 1..n
  BY <1>1, <1>3, <1>7
<1>. QED BY <1>1, <1>3, <1>7, <1>8 DEF n, page

-----------------------------------------------------------------------------
(* Type correctness *)

\* Only the rows enter the type of a walk, and it grows with them.
LEMMA WalkTypeGrows == rows \subseteq rows' => Walk \subseteq Walk'
<1>. SUFFICES ASSUME rows \subseteq rows', NEW w \in Walk PROVE w \in Walk'
  OBVIOUS
<1>1. w.got \in Seq(rows') /\ w.began \in SUBSET rows'
  BY SeqMonotonic DEF Walk
<1>. QED BY <1>1 DEF Walk

\* The effective page size is positive and at most MaxPageSize.
LEMMA ClampedSize == \A n \in PageSize : clamp_page_size(n) \in 1..MaxPageSize
  BY QueryAssumption DEF clamp_page_size

\* A page and the token that goes with it, as values.
PageStep(s, page, token) ==
    /\ s \in Orders(Matching(walk.query))
    /\ page = Page(s, walk.offset, walk.size)
    /\ token = NextToken(walk.offset + Len(page))
    /\ walk' = [walk EXCEPT !.pc = IF token = NoToken THEN "done" ELSE "count",
                            !.offset = IF token = NoToken THEN @ ELSE token,
                            !.got = @ \o page]

\* The fields of the walk after a page.
LEMMA AfterPage ==
    ASSUME TypeOK, walk.pc = "select", NEW s, NEW page, NEW token, PageStep(s, page, token)
    PROVE  /\ walk \in Walk /\ IsFiniteSet(Matching(walk.query))
           /\ page \in Seq(Matching(walk.query)) /\ Len(page) \in Nat
           /\ walk'.query = walk.query /\ walk'.size = walk.size /\ walk'.total = walk.total
           /\ walk'.began = walk.began /\ walk'.got = walk.got \o page
           /\ \/ /\ walk'.pc = "done" /\ walk.total <= walk.offset + Len(page)
                 /\ walk'.offset = walk.offset
              \/ /\ walk'.pc = "count" /\ walk.offset + Len(page) < walk.total
                 /\ walk'.offset = walk.offset + Len(page)
           /\ UNCHANGED rows => walk' \in Walk'
<1>1. walk \in Walk
  BY DEF TypeOK, Started
<1>2. IsFiniteSet(Matching(walk.query))
  BY FS_Subset DEF TypeOK, Matching
<1>3. walk.offset \in Nat /\ walk.size \in Nat \ {0} /\ walk.total \in Nat /\ walk.got \in Seq(rows)
  BY <1>1, QueryAssumption DEF Walk
<1>4. page \in Seq(Matching(walk.query)) /\ Len(page) \in Nat
  BY <1>2, <1>3, PageIs DEF PageStep
<1>5. /\ walk'.pc = IF token = NoToken THEN "done" ELSE "count"
      /\ walk'.offset = IF token = NoToken THEN walk.offset ELSE token
      /\ walk'.got = walk.got \o page
      /\ walk'.query = walk.query /\ walk'.size = walk.size /\ walk'.total = walk.total
      /\ walk'.began = walk.began
  BY <1>1 DEF PageStep, Walk
<1>6. token = IF walk.offset + Len(page) < walk.total THEN walk.offset + Len(page) ELSE NoToken
  BY DEF PageStep, NextToken
<1>7. token = NoToken <=> walk.total <= walk.offset + Len(page)
  BY <1>3, <1>4, <1>6, QueryAssumption
<1>8. /\ walk'.pc \in {"done", "count"} /\ walk'.offset \in Nat
  BY <1>3, <1>4, <1>5, <1>6
<1>9. walk.got \o page \in Seq(rows)
  <2>1. page \in Seq(rows)
    BY <1>4, SeqMonotonic DEF Matching
  <2>. QED BY <1>3, <2>1, ConcatProperties
<1>10. UNCHANGED rows => walk' \in Walk'
  <2>. SUFFICES ASSUME UNCHANGED rows PROVE walk' \in Walk'
    OBVIOUS
  <2>1. walk' = [pc |-> walk'.pc, query |-> walk.query, size |-> walk.size,
                 offset |-> walk'.offset, total |-> walk.total, began |-> walk.began,
                 got |-> walk'.got]
    BY <1>1, <1>5 DEF PageStep, Walk
  <2>. QED BY <1>1, <1>5, <1>8, <1>9, <2>1 DEF Walk
<1>. QED
  BY <1>1, <1>2, <1>3, <1>4, <1>5, <1>6, <1>7, <1>10

\* A commit adds one row to the rows.
LEMMA CommitAdds ==
    ASSUME TypeOK, NEW t \in EntryType, Commit(t)
    PROVE  \E e \in Row :
             /\ rows' = rows \cup {e} /\ UNCHANGED walk
             /\ late' = (late \/ Below(e))
             /\ overtaken' = (overtaken \/ (walk.pc = "select" /\ Below(e)))
<1>1. PICK a \in Agent :
         LET e == [entry_type |-> t, agent_id |-> a, written_ts |-> inflight[t],
                   chain_position |-> Cardinality(Rows(t)) + 1]
         IN  /\ rows' = rows \cup {e}
             /\ late' = (late \/ Below(e))
             /\ overtaken' = (overtaken \/ (walk.pc = "select" /\ Below(e)))
  BY DEF Commit
<1>2. Cardinality(Rows(t)) + 1 \in Nat \ {0}
  <2>1. IsFiniteSet(Rows(t))
    BY FS_Subset DEF TypeOK, Rows
  <2>. QED BY <2>1, FS_CardinalityType
<1>3. inflight[t] \in 0..MaxClock
  BY DEF Commit, TypeOK
<1>. QED BY <1>1, <1>2, <1>3 DEF Row, Commit

\* Types hold: the page size is positive and capped, whatever the client asked for,
\* and only committed rows are returned (query_entries).
THEOREM QueryTypeCorrect == Spec => []TypeOK
<1>1. Init => TypeOK
  <2>. SUFFICES ASSUME Init PROVE TypeOK
    OBVIOUS
  <2>1. rows \subseteq Row /\ IsFiniteSet(rows) /\ late \in BOOLEAN /\ overtaken \in BOOLEAN
    BY FS_EmptySet DEF Init
  <2>2. inflight \in [EntryType -> {NoAppend} \cup 0..MaxClock] /\ clock \in 0..MaxClock
    BY QueryAssumption DEF Init
  <2>3. ~Started /\ walk \in [pc : {"idle", "failed"}]
    BY DEF Init, NoWalk, Started
  <2>. QED BY <2>1, <2>2, <2>3 DEF TypeOK
<1>2. TypeOK /\ [Next]_vars => TypeOK'
  <2>. SUFFICES ASSUME TypeOK, [Next]_vars PROVE TypeOK'
    OBVIOUS
  <2>. USE QueryAssumption
  <2>1. ASSUME NEW t \in EntryType, TakeTimestamp(t) PROVE TypeOK'
    <3>1. PICK now \in clock..MaxClock : inflight' = [inflight EXCEPT ![t] = now] /\ clock' = now
      BY <2>1 DEF TakeTimestamp
    <3>2. UNCHANGED <<rows, walk, late, overtaken>>
      BY <2>1 DEF TakeTimestamp
    <3>3. now \in 0..MaxClock
      BY DEF TypeOK
    <3>4. inflight' \in [EntryType -> {NoAppend} \cup 0..MaxClock] /\ clock' \in 0..MaxClock
      BY <3>1, <3>3 DEF TypeOK
    <3>. QED BY <3>2, <3>4 DEF TypeOK, Started, Walk
  <2>2. ASSUME NEW t \in EntryType, Commit(t) PROVE TypeOK'
    <3>1. PICK e \in Row :
             /\ rows' = rows \cup {e} /\ UNCHANGED walk
             /\ late' = (late \/ Below(e))
             /\ overtaken' = (overtaken \/ (walk.pc = "select" /\ Below(e)))
      BY <2>2, CommitAdds
    <3>2. rows' \subseteq Row /\ IsFiniteSet(rows')
      BY <3>1, FS_AddElement DEF TypeOK
    <3>3. IF Started' THEN walk' \in Walk' ELSE walk' \in [pc : {"idle", "failed"}]
      BY <3>1, WalkTypeGrows DEF TypeOK, Started
    <3>4. late' \in BOOLEAN /\ overtaken' \in BOOLEAN
      BY <3>1 DEF TypeOK
    <3>5. inflight' \in [EntryType -> {NoAppend} \cup 0..MaxClock] /\ clock' \in 0..MaxClock
      BY <2>2 DEF Commit, TypeOK
    <3>. QED BY <3>2, <3>3, <3>4, <3>5 DEF TypeOK
  <2>3. ASSUME UNCHANGED <<rows, inflight, clock, late, overtaken>>,
               IF Started' THEN walk' \in Walk' ELSE walk' \in [pc : {"idle", "failed"}]
        PROVE  TypeOK'
    BY <2>3 DEF TypeOK
  <2>4. CASE StartWalk
    <3>1. PICK q \in Query, n \in PageSize, t \in {NoToken, Junk} :
             walk' = [pc |-> "count", query |-> q, size |-> clamp_page_size(n),
                  offset |-> parse_page_token(t), total |-> 0, began |-> rows, got |-> <<>>]
      BY <2>4 DEF StartWalk
    <3>2. parse_page_token(t) = 0
      BY DEF parse_page_token
    <3>3. clamp_page_size(n) \in 1..MaxPageSize /\ <<>> \in Seq(rows)
      BY ClampedSize, EmptySeq
    <3>4. walk' \in Walk
      BY <3>1, <3>2, <3>3 DEF Walk
    <3>5. UNCHANGED <<rows, inflight, clock, late, overtaken>> /\ Started'
      BY <2>4, <3>1 DEF StartWalk, Started
    <3>. QED BY <2>3, <3>4, <3>5, WalkTypeGrows
  <2>5. CASE CountRows
    <3>1. walk \in Walk
      BY <2>5 DEF TypeOK, Started, CountRows
    <3>2. Cardinality(Matching(walk.query)) \in Nat
      BY FS_Subset, FS_CardinalityType DEF TypeOK, Matching
    <3>3. walk' \in Walk /\ walk'.pc = "select"
      BY <2>5, <3>1, <3>2 DEF CountRows, Walk
    <3>4. UNCHANGED <<rows, inflight, clock, late, overtaken>> /\ Started'
      BY <2>5, <3>3 DEF CountRows, Started
    <3>. QED BY <2>3, <3>3, <3>4, WalkTypeGrows
  <2>6. CASE SelectPage
    <3>1. PICK s, page, token : PageStep(s, page, token)
      BY <2>6 DEF SelectPage, PageStep
    <3>2. UNCHANGED <<rows, inflight, clock, late, overtaken>>
      BY <2>6 DEF SelectPage
    <3>3. walk' \in Walk' /\ Started'
      BY <2>6, <3>1, <3>2, AfterPage DEF SelectPage, Started
    <3>. QED BY <2>3, <3>2, <3>3
  <2>7. CASE FailCall
    BY <2>3, <2>7 DEF FailCall, Started
  <2>8. CASE Done \/ UNCHANGED vars
    <3>1. UNCHANGED vars
      BY <2>8 DEF Done
    <3>. QED BY <3>1 DEF TypeOK, vars, Started, Walk
  <2>. QED BY <2>1, <2>2, <2>4, <2>5, <2>6, <2>7, <2>8 DEF Next
<1>. QED BY <1>1, <1>2, PTL DEF Spec

-----------------------------------------------------------------------------
(* The walk *)

\* Ranks are numbers below the number of matching rows.
LEMMA RankType ==
    ASSUME TypeOK
    PROVE  /\ IsFiniteSet(Matching(walk.query)) /\ Cardinality(Matching(walk.query)) \in Nat
           /\ \A e : IsFiniteSet(Ahead(e)) /\ Rank(e) \in Nat
           /\ \A e \in Matching(walk.query) : Rank(e) < Cardinality(Matching(walk.query))
<1>. DEFINE M == Matching(walk.query)
<1>1. IsFiniteSet(M) /\ M \subseteq Row
  BY FS_Subset DEF TypeOK, Matching
<1>. HIDE DEF M
<1>2. \A e : Ahead(e) \subseteq M /\ (e \in M => e \notin Ahead(e))
  BY <1>1, BeforeIsOrder DEF Ahead, M
<1>3. Cardinality(M) \in Nat
  BY <1>1, FS_CardinalityType
<1>4. \A e : IsFiniteSet(Ahead(e)) /\ Rank(e) \in Nat /\ Rank(e) <= Cardinality(M)
              /\ (Cardinality(M) = Rank(e) => M = Ahead(e))
  BY <1>1, <1>2, FS_Subset, FS_CardinalityType DEF Rank
<1>5. \A e \in M : Rank(e) < Cardinality(M)
  BY <1>2, <1>3, <1>4
<1>. QED BY <1>1, <1>3, <1>4, <1>5 DEF M

\* A new row only moves rows up, and only those it is listed before.
LEMMA RankMoves ==
    ASSUME TypeOK, TypeOK', UNCHANGED walk, NEW e \in Row, rows' = rows \cup {e},
           NEW x \in Matching(walk.query)
    PROVE  /\ Rank(x) <= Rank(x)'
           /\ ~(Where(walk.query, e) /\ Before(e, x)) => Rank(x)' = Rank(x)
<1>1. /\ Ahead(x) \subseteq Ahead(x)'
      /\ ~(Where(walk.query, e) /\ Before(e, x)) => Ahead(x)' = Ahead(x)
  BY DEF Ahead, Matching
<1>2. IsFiniteSet(Ahead(x)')
  <2>1. Ahead(x)' \subseteq rows' /\ IsFiniteSet(rows')
    BY DEF TypeOK, Ahead, Matching
  <2>. QED BY <2>1, FS_Subset
<1>. QED BY <1>1, <1>2, FS_Subset DEF Rank

\* The commit of a row keeps what the offset stands for.
LEMMA CommitKeeps ==
    ASSUME TypeOK, TypeOK', WalkInv, NEW t \in EntryType, Commit(t)
    PROVE  WalkInv'
<1>1. PICK e \in Row :
         /\ rows' = rows \cup {e} /\ UNCHANGED walk
         /\ late' = (late \/ Below(e))
         /\ overtaken' = (overtaken \/ (walk.pc = "select" /\ Below(e)))
  BY CommitAdds
<1>2. /\ Matching(walk.query) \subseteq Matching(walk.query)'
      /\ \A x \in rows : x \in Matching(walk.query)' => x \in Matching(walk.query)
  BY <1>1 DEF Matching, Where
<1>3. Started' = Started /\ Walking' = Walking /\ Got' = Got /\ (NoTies' => NoTies)
  BY <1>1, <1>2 DEF Started, Walking, Got, NoTies
<1>4. Started' => Got' \subseteq Matching(walk.query)'
  BY <1>2, <1>3 DEF WalkInv
<1>5. walk'.pc = "select" => walk'.total <= Cardinality(Matching(walk.query)')
  <2>. SUFFICES ASSUME walk.pc = "select"
                PROVE  walk.total <= Cardinality(Matching(walk.query)')
    BY <1>1
  <2>1. IsFiniteSet(Matching(walk.query)')
    <3>1. Matching(walk.query)' \subseteq rows' /\ IsFiniteSet(rows')
      BY DEF TypeOK, Matching
    <3>. QED BY <3>1, FS_Subset
  <2>2. Cardinality(Matching(walk.query)) <= Cardinality(Matching(walk.query)')
    BY <1>2, <2>1, FS_Subset
  <2>3. Cardinality(Matching(walk.query)) \in Nat /\ Cardinality(Matching(walk.query)') \in Nat
    BY <2>1, RankType, FS_CardinalityType
  <2>4. walk.total \in Nat /\ walk.total <= Cardinality(Matching(walk.query))
    BY DEF WalkInv, TypeOK, Started, Walk
  <2>. QED BY <2>2, <2>3, <2>4
<1>6. ASSUME Walking, NoTies', ~overtaken' PROVE PassedAreGot' /\ CountCovers'
  <2>0. walk \in Walk
    BY <1>6 DEF TypeOK, Started, Walking
  <2>1. PassedAreGot /\ CountCovers /\ (walk.pc = "select" => ~Below(e))
    BY <1>1, <1>3, <1>6 DEF WalkInv
  <2>2. ASSUME NEW x \in Matching(walk.query)' \cap walk'.began
        PROVE  /\ x \in Matching(walk.query) \cap walk.began
               /\ Rank(x) \in Nat /\ Rank(x)' \in Nat /\ Rank(x) <= Rank(x)'
               /\ walk.pc = "select" => Rank(x)' = Rank(x)
    <3>1. x \in Matching(walk.query) \cap walk.began
      BY <1>1, <1>2, <2>0, <2>2 DEF Walk
    <3>2. Rank(x) \in Nat /\ Rank(x) <= Rank(x)'
      BY <1>1, <3>1, RankType, RankMoves
    <3>3. Rank(x)' \in Nat
      <4>1. Ahead(x)' \subseteq rows' /\ IsFiniteSet(rows')
        BY DEF TypeOK, Ahead, Matching
      <4>. QED BY <4>1, FS_Subset, FS_CardinalityType DEF Rank
    <3>4. walk.pc = "select" => ~(Where(walk.query, e) /\ Before(e, x))
      BY <1>6, <2>1, <3>1 DEF Below
    <3>. QED BY <1>1, <3>1, <3>2, <3>3, <3>4, RankMoves
  <2>3. walk.offset \in Nat /\ walk.total \in Nat
    BY <2>0 DEF Walk
  <2>4. PassedAreGot'
    <3>. SUFFICES ASSUME NEW x \in Matching(walk.query)' \cap walk'.began, Rank(x)' < walk.offset
                  PROVE  x \in Got
      BY <1>1, <1>3 DEF PassedAreGot
    <3>. QED BY <2>1, <2>2, <2>3 DEF PassedAreGot
  <2>5. CountCovers'
    <3>. SUFFICES ASSUME walk.pc = "select", NEW x \in Matching(walk.query)' \cap walk'.began
                  PROVE  Rank(x)' < walk.total
      BY <1>1 DEF CountCovers
    <3>. QED BY <2>1, <2>2, <2>3 DEF CountCovers
  <2>. QED BY <2>4, <2>5
<1>7. ASSUME Walking, NoTies', ~late' PROVE GotIsHead'
  <2>1. GotIsHead /\ ~Below(e) /\ Got \subseteq Matching(walk.query)
    BY <1>1, <1>3, <1>7 DEF WalkInv, Started, Walking
  <2>2. \A i \in DOMAIN walk.got : Rank(walk.got[i])' = Rank(walk.got[i])
    <3>. TAKE i \in DOMAIN walk.got
    <3>1. PICK x \in Matching(walk.query) : x = walk.got[i]
      BY <2>1 DEF Got
    <3>2. ~(Where(walk.query, e) /\ Before(e, x))
      BY <1>7, <2>1, <3>1 DEF Below
    <3>3. Rank(x)' = Rank(x)
      BY <1>1, <3>2, RankMoves
    <3>4. Rank(walk.got[i])' = Rank(x)'
      BY <1>1, <3>1 DEF Rank, Ahead
    <3>. QED BY <3>1, <3>3, <3>4
  <2>. QED BY <1>1, <2>1, <2>2 DEF GotIsHead
<1>8. WalkComplete'
  BY <1>1, <1>3 DEF WalkInv, WalkComplete, Where
<1>9. NoRepeats'
  BY <1>1, <1>3 DEF WalkInv, NoRepeats
<1>. QED BY <1>3, <1>4, <1>5, <1>6, <1>7, <1>8, <1>9 DEF WalkInv

\* The rows a page adds, by their ranks.
LEMMA PageGets ==
    ASSUME TypeOK, WalkInv, walk.pc = "select", NoTies, UNCHANGED rows,
           NEW s, NEW page, NEW token, PageStep(s, page, token)
    PROVE  /\ ~overtaken => \A x \in Matching(walk.query) \cap walk.began :
                               Rank(x) < walk.offset + Len(page) => x \in Got'
           /\ ~late => /\ Len(walk'.got) = walk.offset + Len(page)
                       /\ \A i \in DOMAIN walk'.got : Rank(walk'.got[i]) = i - 1
<1>. DEFINE M == Matching(walk.query)
            n == Cardinality(M)
<1>1. /\ walk \in Walk /\ IsFiniteSet(M) /\ page \in Seq(M) /\ Len(page) \in Nat
      /\ walk'.got = walk.got \o page
  BY AfterPage
<1>2. walk.offset \in Nat /\ walk.size \in Nat \ {0} /\ walk.got \in Seq(rows)
  BY <1>1, QueryAssumption DEF Walk
<1>3. /\ n \in Nat
      /\ \A i \in 1..Len(page) : walk.offset + i \in 1..n /\ page[i] = s[walk.offset + i]
  BY <1>1, <1>2, PageIs DEF PageStep
<1>4. /\ \A i \in 1..n : Rank(s[i]) = i - 1
      /\ \A e \in M : \E i \in 1..n : s[i] = e
  <2>1. M \subseteq Row /\ s \in Orders(M) /\ \A e, f \in M : Tied(e, f) => e = f
    BY DEF TypeOK, Matching, PageStep, NoTies
  <2>2. /\ \A i \in 1..n : Cardinality({f \in M : Before(f, s[i])}) = i - 1
        /\ \A e \in M : \E i \in 1..n : s[i] = e
    BY <1>1, <2>1, OrdersRank
  <2>. QED BY <2>2 DEF Rank, Ahead
<1>5. page \in Seq(rows)
  BY <1>1, SeqMonotonic DEF Matching
<1>6. /\ walk'.got \in Seq(rows) /\ Len(walk'.got) = Len(walk.got) + Len(page)
      /\ \A i \in 1..(Len(walk.got) + Len(page)) :
            walk'.got[i] = IF i <= Len(walk.got) THEN walk.got[i] ELSE page[i - Len(walk.got)]
      /\ Len(walk.got) \in Nat /\ DOMAIN walk.got = 1..Len(walk.got)
      /\ DOMAIN walk'.got = 1..(Len(walk.got) + Len(page))
  BY <1>1, <1>2, <1>5, ConcatProperties, LenProperties
<1>7. ASSUME ~overtaken, NEW x \in M \cap walk.began, Rank(x) < walk.offset + Len(page)
      PROVE  x \in Got'
  <2>0. Rank(x) \in Nat
    BY RankType
  <2>1. CASE Rank(x) < walk.offset
    <3>1. x \in Got
      BY <1>7, <2>1 DEF WalkInv, Walking, PassedAreGot
    <3>2. PICK i \in DOMAIN walk.got : walk.got[i] = x
      BY <3>1 DEF Got
    <3>3. i \in DOMAIN walk'.got /\ walk'.got[i] = x
      BY <1>1, <1>6, <3>2
    <3>. QED BY <3>3 DEF Got
  <2>2. CASE walk.offset <= Rank(x)
    <3>1. PICK i \in 1..n : s[i] = x
      BY <1>4
    <3>2. Rank(x) = i - 1
      BY <1>4, <3>1
    <3>3. PICK j \in 1..Len(page) : walk.offset + j = i
      <4>1. i - walk.offset \in 1..Len(page) /\ walk.offset + (i - walk.offset) = i
        BY <1>1, <1>2, <1>3, <1>7, <2>2, <3>2
      <4>. QED BY <4>1
    <3>4. page[j] = x
      BY <1>2, <1>3, <3>1, <3>3
    <3>5. PICK k \in Nat : k = Len(walk.got) + j
      BY <1>6
    <3>6. /\ k \in 1..(Len(walk.got) + Len(page)) /\ ~(k <= Len(walk.got))
          /\ k - Len(walk.got) = j
      BY <1>1, <1>6, <3>5
    <3>7. k \in DOMAIN walk'.got /\ walk'.got[k] = page[j]
      BY <1>6, <3>6
    <3>. QED BY <3>4, <3>7 DEF Got
  <2>. QED BY <1>2, <2>0, <2>1, <2>2
<1>8. ASSUME ~late
      PROVE  /\ Len(walk'.got) = walk.offset + Len(page)
             /\ \A i \in DOMAIN walk'.got : Rank(walk'.got[i]) = i - 1
  <2>1. Len(walk.got) = walk.offset /\ \A i \in DOMAIN walk.got : Rank(walk.got[i]) = i - 1
    BY <1>8 DEF WalkInv, Walking, GotIsHead
  <2>2. ASSUME NEW i \in DOMAIN walk'.got PROVE Rank(walk'.got[i]) = i - 1
    <3>1. CASE i <= walk.offset
      BY <1>1, <1>6, <2>1, <2>2, <3>1
    <3>2. CASE i > walk.offset
      <4>1. i - walk.offset \in 1..Len(page) /\ i \in Nat
        BY <1>1, <1>2, <1>6, <2>1, <2>2, <3>2
      <4>2. walk'.got[i] = page[i - walk.offset]
        BY <1>2, <1>6, <2>1, <2>2, <3>2
      <4>3. i \in 1..n /\ page[i - walk.offset] = s[i]
        BY <1>2, <1>3, <4>1
      <4>. QED BY <1>4, <4>2, <4>3
    <3>. QED BY <1>2, <1>6, <2>2, <3>1, <3>2
  <2>. QED BY <1>6, <2>1, <2>2
<1>. QED BY <1>7, <1>8

\* While neither the rows nor the query change, nor do the ranks.
LEMMA SameRanks ==
    ASSUME UNCHANGED rows, walk'.query = walk.query
    PROVE  /\ Matching(walk.query)' = Matching(walk.query) /\ (NoTies' <=> NoTies)
           /\ \A x : Rank(x)' = Rank(x)
  BY DEF Matching, NoTies, Rank, Ahead, Where

\* A page keeps what the offset stands for, and the last one completes the walk.
LEMMA SelectKeeps ==
    ASSUME TypeOK, WalkInv, SelectPage
    PROVE  WalkInv'
<1>1. walk.pc = "select" /\ UNCHANGED <<rows, late, overtaken>>
  BY DEF SelectPage
<1>2. PICK s, page, token : PageStep(s, page, token)
  BY DEF SelectPage, PageStep
<1>3. /\ walk \in Walk /\ page \in Seq(Matching(walk.query)) /\ Len(page) \in Nat
      /\ walk'.query = walk.query /\ walk'.began = walk.began /\ walk'.got = walk.got \o page
      /\ walk' \in Walk'
  BY <1>1, <1>2, AfterPage
<1>4. \/ /\ walk'.pc = "done" /\ walk.total <= walk.offset + Len(page)
      \/ /\ walk'.pc = "count" /\ walk'.offset = walk.offset + Len(page)
  BY <1>1, <1>2, AfterPage
<1>5. /\ Matching(walk.query)' = Matching(walk.query) /\ (NoTies' <=> NoTies)
      /\ \A x : Rank(x)' = Rank(x)
  BY <1>1, <1>3, SameRanks
<1>6. ASSUME NoTies
      PROVE  /\ ~overtaken => \A x \in Matching(walk.query) \cap walk.began :
                                 Rank(x) < walk.offset + Len(page) => x \in Got'
             /\ ~late => /\ Len(walk'.got) = walk.offset + Len(page)
                         /\ \A i \in DOMAIN walk'.got : Rank(walk'.got[i]) = i - 1
  BY <1>1, <1>2, <1>6, PageGets
<1>7. Got' \subseteq Matching(walk.query)'
  <2>1. Got \subseteq Matching(walk.query)
    BY <1>1 DEF WalkInv, Started
  <2>2. walk.got \in Seq(Matching(walk.query))
    <3>1. walk.got \in Seq(rows)
      BY <1>3 DEF Walk
    <3>2. \A i \in 1..Len(walk.got) : walk.got[i] \in Matching(walk.query)
      BY <2>1, <3>1, LenProperties DEF Got
    <3>. QED BY <3>1, <3>2, LenProperties, SeqDef
  <2>3. walk'.got \in Seq(Matching(walk.query))
    BY <1>3, <2>2, ConcatProperties
  <2>4. \A i \in DOMAIN walk'.got : walk'.got[i] \in Matching(walk.query)
    BY <2>3, LenProperties, ElementOfSeq
  <2>. QED BY <1>5, <2>4 DEF Got
<1>8. ASSUME Walking', NoTies', ~overtaken' PROVE PassedAreGot' /\ CountCovers'
  <2>1. walk'.pc = "count" /\ walk'.offset = walk.offset + Len(page)
    BY <1>4, <1>8 DEF Walking
  <2>2. \A x \in Matching(walk.query) \cap walk.began :
           Rank(x) < walk.offset + Len(page) => x \in Got'
    BY <1>1, <1>5, <1>6, <1>8
  <2>3. PassedAreGot'
    <3>. SUFFICES ASSUME NEW x \in Matching(walk.query)' \cap walk'.began, Rank(x)' < walk'.offset
                  PROVE  x \in Got'
      BY DEF PassedAreGot
    <3>. QED BY <1>3, <1>5, <2>1, <2>2
  <2>. QED BY <2>1, <2>3 DEF CountCovers
<1>9. ASSUME Walking', NoTies', ~late' PROVE GotIsHead'
  <2>1. walk'.offset = walk.offset + Len(page)
    BY <1>4, <1>9 DEF Walking
  <2>2. /\ Len(walk'.got) = walk.offset + Len(page)
        /\ \A i \in DOMAIN walk'.got : Rank(walk'.got[i]) = i - 1
    BY <1>1, <1>5, <1>6, <1>9
  <2>3. \A i \in DOMAIN walk'.got : Rank(walk.got[i])' = i - 1
    <3>. TAKE i \in DOMAIN walk'.got
    <3>1. PICK x : x = walk'.got[i]
      OBVIOUS
    <3>2. Rank(walk.got[i])' = Rank(x)'
      BY <3>1 DEF Rank, Ahead
    <3>. QED BY <1>5, <2>2, <3>1, <3>2
  <2>. QED BY <2>1, <2>2, <2>3 DEF GotIsHead
<1>10. WalkComplete'
  <2>. SUFFICES ASSUME walk'.pc = "done", ~overtaken', NoTies',
                       NEW x \in walk'.began, Where(walk'.query, x)
                PROVE  x \in Got'
    BY DEF WalkComplete
  <2>1. x \in Matching(walk.query) \cap walk.began
    BY <1>3 DEF Matching, Walk
  <2>2. Rank(x) < walk.total
    BY <1>1, <1>5, <2>1 DEF WalkInv, Walking, CountCovers
  <2>3. Rank(x) \in Nat /\ walk.total \in Nat /\ walk.offset \in Nat
    BY <1>3, RankType DEF Walk
  <2>4. Rank(x) < walk.offset + Len(page)
    BY <1>3, <1>4, <2>2, <2>3
  <2>. QED BY <1>1, <1>5, <1>6, <2>1, <2>4
<1>11. NoRepeats'
  <2>. SUFFICES ASSUME ~late', NoTies',
                       NEW i \in DOMAIN walk'.got, NEW j \in DOMAIN walk'.got, i # j
                PROVE  walk'.got[i] # walk'.got[j]
    BY DEF NoRepeats
  <2>1. Rank(walk'.got[i]) = i - 1 /\ Rank(walk'.got[j]) = j - 1
    BY <1>1, <1>5, <1>6
  <2>2. i \in Int /\ j \in Int
    <3>1. walk'.got \in Seq(rows')
      BY <1>3 DEF Walk
    <3>. QED BY <3>1, LenProperties
  <2>. QED BY <2>1, <2>2
<1>. QED BY <1>4, <1>7, <1>8, <1>9, <1>10, <1>11 DEF WalkInv

\* The offset stands for the rows already returned, whatever is appended meanwhile.
THEOREM WalkInvariant == Spec => []WalkInv
<1>1. Init => WalkInv
  BY DEF Init, NoWalk, WalkInv, Started, Walking, WalkComplete, NoRepeats
<1>2. TypeOK /\ TypeOK' /\ WalkInv /\ [Next]_vars => WalkInv'
  <2>. SUFFICES ASSUME TypeOK, TypeOK', WalkInv, [Next]_vars PROVE WalkInv'
    OBVIOUS
  <2>1. ASSUME UNCHANGED <<rows, walk, late, overtaken>> PROVE WalkInv'
    <3>1. /\ Matching(walk.query)' = Matching(walk.query) /\ (NoTies' <=> NoTies)
          /\ \A x : Rank(x)' = Rank(x)
      BY <2>1, SameRanks
    <3>2. Started' = Started /\ Walking' = Walking /\ Got' = Got
      BY <2>1 DEF Started, Walking, Got
    <3>3. (PassedAreGot /\ CountCovers => PassedAreGot' /\ CountCovers')
          /\ (GotIsHead => GotIsHead')
      BY <2>1 DEF PassedAreGot, CountCovers, GotIsHead, Got, Rank, Ahead, Matching, Where
    <3>4. WalkComplete' /\ NoRepeats'
      BY <2>1, <3>1, <3>2 DEF WalkInv, WalkComplete, NoRepeats, Where
    <3>. QED BY <2>1, <3>1, <3>2, <3>3, <3>4 DEF WalkInv
  <2>2. CASE StartWalk
    <3>1. PICK q \in Query, n \in PageSize, t \in {NoToken, Junk} :
             walk' = [pc |-> "count", query |-> q, size |-> clamp_page_size(n),
                  offset |-> parse_page_token(t), total |-> 0, began |-> rows, got |-> <<>>]
      BY <2>2 DEF StartWalk
    <3>2. walk'.pc = "count" /\ walk'.offset = 0 /\ walk'.got = <<>>
      BY <3>1 DEF parse_page_token
    <3>3. Len(walk'.got) = 0 /\ DOMAIN walk'.got = {} /\ Got' = {}
      BY <3>2, EmptySeq, LenProperties DEF Got
    <3>4. \A x : Rank(x)' \in Nat
      <4>. TAKE x
      <4>1. Ahead(x)' \subseteq rows' /\ IsFiniteSet(rows')
        BY DEF TypeOK, Ahead, Matching
      <4>. QED BY <4>1, FS_Subset, FS_CardinalityType DEF Rank
    <3>5. PassedAreGot' /\ CountCovers' /\ GotIsHead'
      BY <3>2, <3>3, <3>4 DEF PassedAreGot, CountCovers, GotIsHead
    <3>6. WalkComplete' /\ NoRepeats'
      BY <3>2, <3>3 DEF WalkComplete, NoRepeats
    <3>. QED BY <3>2, <3>3, <3>5, <3>6 DEF WalkInv
  <2>3. CASE CountRows
    <3>1. walk \in Walk /\ walk.pc = "count" /\ UNCHANGED <<rows, late, overtaken>>
      BY <2>3 DEF TypeOK, Started, CountRows
    <3>2. /\ walk'.pc = "select" /\ walk'.total = Cardinality(Matching(walk.query))
          /\ walk'.query = walk.query /\ walk'.began = walk.began /\ walk'.got = walk.got
          /\ walk'.offset = walk.offset
      BY <2>3, <3>1 DEF CountRows, Walk
    <3>3. /\ Matching(walk.query)' = Matching(walk.query) /\ (NoTies' <=> NoTies)
          /\ \A x : Rank(x)' = Rank(x)
      BY <3>1, <3>2, SameRanks
    <3>4. Got' = Got /\ Started /\ Walking
      BY <3>1, <3>2 DEF Got, Started, Walking
    <3>5. PassedAreGot => PassedAreGot'
      BY <3>2, <3>3, <3>4 DEF PassedAreGot
    <3>6. CountCovers'
      <4>. SUFFICES ASSUME NEW x \in Matching(walk.query)' \cap walk'.began
                    PROVE  Rank(x)' < walk'.total
        BY DEF CountCovers
      <4>. QED BY <3>2, <3>3, RankType
    <3>7. GotIsHead => GotIsHead'
      BY <3>1, <3>2 DEF GotIsHead, Rank, Ahead, Matching, Where
    <3>8. WalkComplete'
      BY <3>2 DEF WalkComplete
    <3>9. NoRepeats'
      BY <3>1, <3>2, <3>3, <3>4 DEF WalkInv, NoRepeats
    <3>10. walk'.total <= Cardinality(Matching(walk.query)')
      BY <3>2, <3>3, RankType
    <3>. QED BY <3>1, <3>3, <3>4, <3>5, <3>6, <3>7, <3>8, <3>9, <3>10 DEF WalkInv
  <2>4. CASE FailCall
    BY <2>4 DEF FailCall, WalkInv, Started, Walking, WalkComplete, NoRepeats
  <2>5. CASE Done \/ UNCHANGED vars
    BY <2>1, <2>5 DEF Done, vars
  <2>6. ASSUME NEW t \in EntryType, TakeTimestamp(t) PROVE WalkInv'
    BY <2>1, <2>6 DEF TakeTimestamp
  <2>. QED BY <2>2, <2>3, <2>4, <2>5, <2>6, CommitKeeps, SelectKeeps DEF Next
<1>. QED BY <1>1, <1>2, QueryTypeCorrect, PTL DEF Spec

\* A walk that ended returned every matching row that was there when it began, if no
\* row slipped in below others between COUNT and SELECT and the order has no ties
\* (query_entries).
THEOREM WalksComplete == Spec => []WalkComplete
<1>1. WalkInv => WalkComplete
  BY DEF WalkInv
<1>. QED BY <1>1, WalkInvariant, PTL

\* No row is returned twice while none becomes visible below others.
THEOREM WalksRepeatNothing == Spec => []NoRepeats
<1>1. WalkInv => NoRepeats
  BY DEF WalkInv
<1>. QED BY <1>1, WalkInvariant, PTL

\* Every token is larger than the last, by the length of the page it came with.
THEOREM TokensAdvance == Spec => TokenAdvances
<1>. DEFINE Advance ==
        walk.pc = "select" /\ walk'.pc = "count" =>
          /\ walk'.offset > walk.offset
          /\ Len(walk'.got) - Len(walk.got) = walk'.offset - walk.offset
<1>1. TypeOK /\ WalkInv /\ [Next]_vars => [Advance]_vars
  <2>. SUFFICES ASSUME TypeOK, WalkInv, Next, walk.pc = "select", walk'.pc = "count"
                PROVE  /\ walk'.offset > walk.offset
                       /\ Len(walk'.got) - Len(walk.got) = walk'.offset - walk.offset
    OBVIOUS
  <2>1. SelectPage
    <3>1. \A t \in EntryType : TakeTimestamp(t) \/ Commit(t) => UNCHANGED walk
      BY DEF TakeTimestamp, Commit
    <3>2. ~StartWalk /\ ~CountRows /\ ~Done
      BY DEF StartWalk, CountRows, Done
    <3>3. ~FailCall
      BY DEF FailCall
    <3>. QED BY <3>1, <3>2, <3>3 DEF Next
  <2>2. PICK s, page, token : PageStep(s, page, token)
    BY <2>1 DEF SelectPage, PageStep
  <2>3. /\ walk \in Walk /\ IsFiniteSet(Matching(walk.query))
        /\ page \in Seq(Matching(walk.query)) /\ Len(page) \in Nat
        /\ walk'.got = walk.got \o page
        /\ walk.offset + Len(page) < walk.total /\ walk'.offset = walk.offset + Len(page)
    BY <2>2, AfterPage
  <2>4. /\ walk.offset \in Nat /\ walk.size \in Nat \ {0} /\ walk.total \in Nat
        /\ walk.got \in Seq(rows)
    BY <2>3, QueryAssumption DEF Walk
  <2>5. walk.total <= Cardinality(Matching(walk.query)) /\ Cardinality(Matching(walk.query)) \in Nat
    BY RankType DEF WalkInv
  <2>6. walk.offset < Cardinality(Matching(walk.query)) => Len(page) > 0
    BY <2>2, <2>3, <2>4, PageIs DEF PageStep
  <2>7. Len(page) > 0
    BY <2>3, <2>4, <2>5, <2>6
  <2>8. Len(walk'.got) = Len(walk.got) + Len(page) /\ Len(walk.got) \in Nat
    <3>1. page \in Seq(rows)
      BY <2>3, SeqMonotonic DEF Matching
    <3>. QED BY <2>3, <2>4, <3>1, ConcatProperties, LenProperties
  <2>. QED BY <2>3, <2>4, <2>7, <2>8
<1>. QED BY <1>1, QueryTypeCorrect, WalkInvariant, PTL DEF Spec, TokenAdvances

-----------------------------------------------------------------------------
(* The filters *)

\* A bound in milliseconds against stored microseconds.
LEMMA MilliBounds ==
    ASSUME NEW ts \in Nat, NEW b \in Int
    PROVE  /\ timestamp_millis(ts) \in Int
           /\ timestamp_millis(ts) >= b <=> ts >= b * MicrosPerMilli
           /\ ts <= b * MicrosPerMilli => timestamp_millis(ts) <= b
           /\ timestamp_millis(ts) < b => ts <= b * MicrosPerMilli
<1>. DEFINE M == MicrosPerMilli
            d == ts \div M
<1>1. M \in Nat \ {0}
  BY QueryAssumption
<1>2. d \in Int /\ d * M <= ts /\ ts < (d + 1) * M
  BY <1>1
<1>3. timestamp_millis(ts) = d
  BY DEF timestamp_millis
<1>. HIDE DEF d, M
<1>4. \A x, y \in Int : x <= y => x * M <= y * M
  BY <1>1
<1>5. d >= b => ts >= b * M
  BY <1>1, <1>2, <1>4
<1>6. d < b => ts < b * M
  BY <1>1, <1>2, <1>4
<1>7. d > b => ts >= (b + 1) * M
  BY <1>1, <1>2, <1>4
<1>8. (b + 1) * M = b * M + M
  BY <1>1
<1>. QED BY <1>1, <1>2, <1>3, <1>5, <1>6, <1>7, <1>8 DEF M

\* The order of the natural numbers, as a relation.
Less == {p \in Nat \X Nat : p[1] < p[2]}

\* It is well founded.
LEMMA LessWellFounded == IsWellFoundedOn(Less, Nat)
  BY NatLessThanWellFounded, Zenon DEF OpToRel, Less

\* A set of natural numbers has a least one.
LEMMA LeastNatural ==
    ASSUME NEW T \in SUBSET Nat, T # {}
    PROVE  \E m \in T : \A k \in T : m <= k
<1>1. \E m \in T : \A k \in T : ~(<<k, m>> \in Less)
  BY LessWellFounded, WFMin
<1>2. \A k, m \in Nat : <<k, m>> \in Less <=> k < m
  BY DEF Less
<1>3. PICK m \in T : \A k \in T : ~(<<k, m>> \in Less)
  BY <1>1
<1>4. ASSUME NEW k \in T PROVE m <= k
  <2>1. m \in Nat /\ k \in Nat
    OBVIOUS
  <2>2. ~(k < m)
    BY <1>2, <1>3, <2>1
  <2>. QED BY <2>1, <2>2
<1>. QED BY <1>3, <1>4

\* A sequence is a prefix when it agrees with the other one as far as it goes.
LEMMA PrefixIs ==
    ASSUME NEW p \in Seq(STRING), NEW s \in Seq(STRING)
    PROVE  IsPrefix(p, s) <=> Len(p) <= Len(s) /\ \A i \in 1..Len(p) : p[i] = s[i]
<1>1. DOMAIN p = 1..Len(p) /\ Len(p) \in Nat /\ Len(s) \in Nat
  BY LenProperties
<1>2. ASSUME NEW q \in Seq(STRING), Len(p) <= Len(q)
      PROVE  /\ SubSeq(q, 1, Len(p)) \in Seq(STRING) /\ Len(SubSeq(q, 1, Len(p))) = Len(p)
             /\ \A i \in 1..Len(p) : SubSeq(q, 1, Len(p))[i] = q[i]
  <2>1. \A i \in 1..Len(p) : q[i] \in STRING
    <3>1. Len(q) \in Nat
      BY LenProperties
    <3>2. \A i \in 1..Len(p) : i \in 1..Len(q)
      BY <1>1, <1>2, <3>1
    <3>. QED BY <3>2, ElementOfSeq
  <2>2. /\ SubSeq(q, 1, Len(p)) \in Seq(STRING)
        /\ Len(SubSeq(q, 1, Len(p))) = IF 1 <= Len(p) THEN Len(p) - 1 + 1 ELSE 0
        /\ \A i \in 1..(Len(p) - 1 + 1) : SubSeq(q, 1, Len(p))[i] = q[1 + i - 1]
    BY <1>1, <2>1, SubSeqProperties
  <2>3. Len(p) - 1 + 1 = Len(p) /\ \A i \in Int : 1 + i - 1 = i
    BY <1>1
  <2>. QED BY <1>1, <2>2, <2>3
<1>3. IsPrefix(p, s) <=> Len(p) <= Len(s) /\ SubSeq(p, 1, Len(p)) = SubSeq(s, 1, Len(p))
  BY DEF IsPrefix
<1>4. ASSUME Len(p) <= Len(s)
      PROVE  SubSeq(p, 1, Len(p)) = SubSeq(s, 1, Len(p)) <=> \A i \in 1..Len(p) : p[i] = s[i]
  <2>. DEFINE u == SubSeq(p, 1, Len(p))
              v == SubSeq(s, 1, Len(p))
  <2>1. /\ u \in Seq(STRING) /\ v \in Seq(STRING) /\ Len(u) = Len(p) /\ Len(v) = Len(p)
        /\ \A i \in 1..Len(p) : u[i] = p[i] /\ v[i] = s[i]
    BY <1>1, <1>2, <1>4
  <2>. HIDE DEF u, v
  <2>2. (\A i \in 1..Len(u) : u[i] = v[i]) => u = v
    BY <2>1, SeqEqual
  <2>. QED BY <2>1, <2>2 DEF u, v
<1>. QED BY <1>1, <1>3, <1>4

\* The characters of prefix || '%'.
LEMMA PatternIs ==
    ASSUME NEW p \in Seq(STRING)
    PROVE  LET pattern == Append(p, "%") IN
           /\ Len(p) \in Nat /\ Len(pattern) = Len(p) + 1 /\ DOMAIN pattern = 1..(Len(p) + 1)
           /\ pattern[Len(p) + 1] = "%"
           /\ \A i \in 1..Len(p) : pattern[i] = p[i]
<1>. DEFINE S == STRING \cup {"%"}
<1>1. p \in Seq(S) /\ "%" \in S
  BY SeqMonotonic
<1>. HIDE DEF S
<1>2. Append(p, "%") \in Seq(S) /\ Len(p) \in Nat
  BY <1>1, LenProperties, AppendProperties
<1>. QED BY <1>1, <1>2, AppendProperties, LenProperties

\* Cuts that advance by one character each are at their own numbers.
LEMMA CutsCount ==
    ASSUME NEW n \in Nat, NEW cut, cut[0] = 0,
           \A i \in 1..n : cut[i] = cut[i - 1] + 1
    PROVE  \A i \in 0..n : cut[i] = i
<1>. DEFINE T == {i \in 0..n : cut[i] # i}
<1>1. SUFFICES ASSUME T # {} PROVE FALSE
  OBVIOUS
<1>2. PICK m \in T : \A k \in T : m <= k
  <2>1. T \in SUBSET Nat
    OBVIOUS
  <2>. HIDE DEF T
  <2>. QED BY <1>1, <2>1, LeastNatural
<1>3. m \in 1..n /\ m - 1 \in 0..n /\ m - 1 \notin T
  BY <1>2
<1>4. cut[m - 1] = m - 1 /\ cut[m] = cut[m - 1] + 1
  BY <1>3
<1>. QED BY <1>2, <1>3, <1>4

\* A match goes character by character up to the first percent sign or backslash.
LEMMA LiteralMatch ==
    ASSUME NEW p \in Seq(STRING), NEW s \in Seq(STRING), LikePrefix(p, s)
    PROVE  BeginsLike(s, p)
<1>. DEFINE pattern == Append(p, "%")
<1>1. /\ Len(p) \in Nat /\ Len(pattern) = Len(p) + 1 /\ DOMAIN pattern = 1..(Len(p) + 1)
      /\ DOMAIN p = 1..Len(p) /\ \A i \in 1..Len(p) : pattern[i] = p[i]
  BY PatternIs, LenProperties
<1>2. Like(s, pattern) /\ Len(s) \in Nat
  BY LenProperties DEF LikePrefix
<1>. HIDE DEF pattern
<1>3. SUFFICES ASSUME NEW n \in 1..Len(p), \A j \in 1..n : p[j] # "%" /\ p[j] # "\\"
               PROVE  n <= Len(s) /\ (s[n] = p[n] \/ p[n] = AnyCharacter)
  BY <1>1 DEF BeginsLike
<1>4. n \in Nat /\ \A i \in 1..n : /\ i \in DOMAIN pattern /\ pattern[i] = p[i]
                                   /\ pattern[i] # "%" /\ pattern[i] # "\\"
  BY <1>1, <1>3
<1>5. ASSUME NEW escapes \in SUBSET DOMAIN pattern,
             NEW cut \in [0..Len(pattern) -> 0..Len(s)],
             \A i \in DOMAIN pattern :
                i \in escapes <=> pattern[i] = "\\" /\ i - 1 \notin escapes,
             cut[0] = 0,
             \A i \in DOMAIN pattern :
                \/ i \in escapes /\ cut[i] = cut[i - 1]
                \/ /\ i \notin escapes /\ cut[i] = cut[i - 1] + 1
                   /\ \/ s[cut[i]] = pattern[i]
                      \/ pattern[i] = AnyCharacter /\ i - 1 \notin escapes
                \/ pattern[i] = "%" /\ i - 1 \notin escapes /\ cut[i - 1] <= cut[i]
      PROVE  n <= Len(s) /\ (s[n] = p[n] \/ p[n] = AnyCharacter)
  <2>1. \A i \in 1..n : /\ cut[i] = cut[i - 1] + 1
                        /\ s[cut[i]] = pattern[i] \/ pattern[i] = AnyCharacter
    BY <1>4, <1>5
  <2>2. \A i \in 0..n : cut[i] = i
    <3>1. n \in Nat /\ cut[0] = 0 /\ \A i \in 1..n : cut[i] = cut[i - 1] + 1
      BY <1>4, <1>5, <2>1
    <3>. QED BY ONLY <3>1, CutsCount, Zenon
  <2>3. n \in 0..n /\ n \in 1..n /\ n \in 0..Len(pattern)
    BY <1>1, <1>3
  <2>4. cut[n] \in 0..Len(s) /\ cut[n] = n
    BY <2>2, <2>3
  <2>5. s[cut[n]] = pattern[n] \/ pattern[n] = AnyCharacter
    BY <2>1, <2>3
  <2>. QED BY ONLY <1>2, <1>4, <2>3, <2>4, <2>5
<1>. QED BY <1>2, <1>5 DEF Like

\* Where LIKE takes every character for itself, a match begins with the prefix.
LEMMA PlainMatch ==
    ASSUME NEW p \in Seq(STRING), NEW s \in Seq(STRING), LikePrefix(p, s),
           \A i \in DOMAIN p : p[i] # AnyCharacter /\ p[i] # "%" /\ p[i] # "\\"
    PROVE  IsPrefix(p, s)
<1>1. DOMAIN p = 1..Len(p) /\ Len(p) \in Nat /\ Len(s) \in Nat
  BY LenProperties
<1>2. \A i \in 1..Len(p) : i <= Len(s) /\ s[i] = p[i]
  <2>1. ASSUME NEW i \in 1..Len(p) PROVE \A j \in 1..i : j \in DOMAIN p
    BY <1>1
  <2>. QED BY <1>1, <2>1, LiteralMatch DEF BeginsLike
<1>3. Len(p) <= Len(s)
  BY <1>1, <1>2
<1>. QED BY <1>2, <1>3, PrefixIs

\* Without a backslash every text that begins with the prefix matches its pattern.
LEMMA PrefixMatches ==
    ASSUME NEW p \in Seq(STRING), NEW s \in Seq(STRING), IsPrefix(p, s),
           \A i \in DOMAIN p : p[i] # "\\"
    PROVE  LikePrefix(p, s)
<1>. DEFINE pattern == Append(p, "%")
            n == Len(p)
            cut == [i \in 0..Len(pattern) |-> IF i = n + 1 THEN Len(s) ELSE i]
<1>1. /\ n \in Nat /\ Len(pattern) = n + 1 /\ DOMAIN pattern = 1..(n + 1)
      /\ pattern[n + 1] = "%" /\ DOMAIN p = 1..n
      /\ \A i \in 1..n : pattern[i] = p[i]
  BY PatternIs, LenProperties
<1>2. n <= Len(s) /\ (\A i \in 1..n : p[i] = s[i]) /\ Len(s) \in Nat
  BY PrefixIs, LenProperties
<1>3. Like(s, pattern) <=> LikePrefix(p, s)
  BY DEF LikePrefix
<1>. HIDE DEF pattern, n
<1>4. cut \in [0..Len(pattern) -> 0..Len(s)] /\ cut[0] = 0 /\ cut[Len(pattern)] = Len(s)
  BY <1>1, <1>2
<1>5. \A i \in 1..n : cut[i] = cut[i - 1] + 1 /\ s[cut[i]] = pattern[i]
  BY <1>1, <1>2
<1>6. cut[n] <= cut[n + 1] /\ n + 1 - 1 = n
  BY <1>1, <1>2
<1>7. \A i \in DOMAIN pattern : pattern[i] # "\\" /\ (i \in 1..n \/ i = n + 1)
  BY <1>1
<1>. HIDE DEF cut
<1>8. \A i \in DOMAIN pattern :
        \/ cut[i] = cut[i - 1] + 1 /\ s[cut[i]] = pattern[i]
        \/ pattern[i] = "%" /\ cut[i - 1] <= cut[i]
  BY <1>1, <1>5, <1>6, <1>7
<1>9. {} \in SUBSET DOMAIN pattern
  OBVIOUS
<1>. QED BY <1>3, <1>4, <1>7, <1>8, <1>9 DEF Like

\* The WHERE clause against the filters of the in-memory repository.
LEMMA WhereIsReference ==
    ASSUME NEW q \in Query, NEW e \in Row
    PROVE  /\ Where(q, e) =>
                /\ FiltersBesideType(q, e)
                /\ BeginsLike(e.entry_type, q.entry_type)
                /\ Has(q, {AnyCharacter, "%", "\\"}) \/ apply_query_filters(q, e)
           /\ apply_query_filters(q, e) =>
                \/ Where(q, e) \/ Has(q, {"\\"})
                \/ /\ timestamp_millis(e.written_ts) = q.to_ts
                   /\ e.written_ts > q.to_ts * MicrosPerMilli
<1>1. /\ q.entry_type \in Seq(STRING) /\ q.from_ts \in Int /\ q.to_ts \in Int
      /\ e.entry_type \in Seq(STRING) /\ e.written_ts \in Nat
  BY QueryAssumption DEF Row
<1>2. (Unset(q, "from_ts") <=> q.from_ts = 0) /\ (Unset(q, "to_ts") <=> q.to_ts = 0)
  BY DEF Unset
<1>3. PICK L, P \in BOOLEAN : /\ L = LikePrefix(q.entry_type, e.entry_type)
                              /\ P = IsPrefix(q.entry_type, e.entry_type)
  BY DEF LikePrefix, Like, IsPrefix
<1>4. (L => P \/ Has(q, {AnyCharacter, "%", "\\"})) /\ (P => L \/ Has(q, {"\\"}))
  BY <1>1, <1>3, PlainMatch, PrefixMatches DEF Has
<1>5. /\ timestamp_millis(e.written_ts) \in Int
      /\ timestamp_millis(e.written_ts) >= q.from_ts <=> e.written_ts >= q.from_ts * MicrosPerMilli
      /\ e.written_ts <= q.to_ts * MicrosPerMilli => timestamp_millis(e.written_ts) <= q.to_ts
      /\ timestamp_millis(e.written_ts) < q.to_ts => e.written_ts <= q.to_ts * MicrosPerMilli
  BY <1>1, MilliBounds
<1>6. q.to_ts * MicrosPerMilli \in Int
  BY <1>1, QueryAssumption
<1>7. timestamp_millis(e.written_ts) <= q.to_ts =>
        \/ e.written_ts <= q.to_ts * MicrosPerMilli
        \/ /\ timestamp_millis(e.written_ts) = q.to_ts
           /\ e.written_ts > q.to_ts * MicrosPerMilli
  BY <1>1, <1>5, <1>6
<1>8. L \/ Unset(q, "entry_type") => BeginsLike(e.entry_type, q.entry_type)
  <2>1. CASE L
    BY <1>1, <1>3, <2>1, LiteralMatch
  <2>2. CASE Unset(q, "entry_type")
    <3>1. q.entry_type = <<>>
      BY <2>2 DEF Unset
    <3>. QED BY <3>1 DEF BeginsLike
  <2>. QED BY <2>1, <2>2
<1>9. Where(q, e) => FiltersBesideType(q, e)
  BY <1>5 DEF Where, FiltersBesideType
<1>10. apply_query_filters(q, e) <=> (Unset(q, "entry_type") \/ P) /\ FiltersBesideType(q, e)
  BY <1>3 DEF apply_query_filters
<1>11. Where(q, e) => Unset(q, "entry_type") \/ L
  BY <1>3 DEF Where
<1>12. apply_query_filters(q, e) =>
         \/ Where(q, e) \/ Has(q, {"\\"})
         \/ /\ timestamp_millis(e.written_ts) = q.to_ts
            /\ e.written_ts > q.to_ts * MicrosPerMilli
  BY <1>3, <1>4, <1>5, <1>7 DEF Where, apply_query_filters, FiltersBesideType
<1>. QED BY <1>4, <1>8, <1>9, <1>10, <1>11, <1>12

\* For any prefix, bounds and rows the WHERE clause selects what the in-memory
\* repository would, but for wildcards and backslashes in the prefix, up to which the
\* type still agrees with it, and the last millisecond (query_entries,
\* apply_query_filters).
THEOREM FiltersMatchReference == Spec => []FilterMatchesReference
<1>1. TypeOK => FilterMatchesReference
  BY WhereIsReference DEF TypeOK, FilterMatchesReference, Walk
<1>. QED BY <1>1, QueryTypeCorrect, PTL
====
