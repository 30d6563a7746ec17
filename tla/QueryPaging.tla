---------------------------- MODULE QueryPaging ----------------------------
(***************************************************************************)
(* QueryEntries and a client's walk through its pages: the gRPC handler       *)
(* (src/grpc/mod.rs), ImmutableLedgerService::query_entries                   *)
(* (src/service/mod.rs), PostgresLedgerRepository::query_entries              *)
(* (src/repository/postgres.rs) and LedgerClient.query of the Python client.  *)
(*                                                                          *)
(* One call runs two statements, COUNT and SELECT, outside any transaction.   *)
(* A page token is an offset into the rows ordered by time and position.      *)
(* Meanwhile rows are appended: written_ts is read before the transaction, so *)
(* a row may become visible after rows with later times.                      *)
(*                                                                          *)
(* Times are microseconds, as stored; requests and responses use milliseconds.*)
(* An entry type is a sequence of characters, for the LIKE pattern's sake.    *)
(***************************************************************************)
EXTENDS Integers, SequencesExt

CONSTANTS
    EntryType,        \* sequences of characters, one chain each
    Agent,            \* agent_id; stands for source_id and correlation_id too
    Query,            \* filters on the wire: entry_type, agent_id, from_ts, to_ts
    PageSize,         \* page_size on the wire
    DefaultPageSize,  \* 100 in the code
    MaxPageSize,      \* 1000 in the code
    NoToken, Junk,    \* page tokens that are no number
    MicrosPerMilli,   \* 1000
    MaxRows,          \* bound: rows
    MaxClock          \* bound: times

ASSUME QueryAssumption ==
    /\ DefaultPageSize \in 1..MaxPageSize
    /\ MaxPageSize \in Nat
    /\ MicrosPerMilli \in Nat \ {0}
    /\ MaxRows \in Nat
    /\ MaxClock \in Nat
    /\ EntryType \subseteq Seq(STRING)
    /\ Query \subseteq [entry_type : Seq(STRING), agent_id : STRING, from_ts : Int, to_ts : Int]
    /\ PageSize \subseteq Int
    /\ NoToken \notin Int

VARIABLES
    rows,      \* committed rows
    inflight,  \* [EntryType -> written_ts of the append under way, or NoAppend]
    clock,     \* the last reading of Utc::now()
    walk,      \* the client's walk and its current call
    late,      \* a row committed below others since the walk began (history)
    overtaken  \* one did so between COUNT and SELECT (history)

vars == <<rows, inflight, clock, walk, late, overtaken>>

NoAppend == -1

Before(e, f) ==
    \/ e.written_ts < f.written_ts
    \/ e.written_ts = f.written_ts /\ e.chain_position < f.chain_position

Tied(e, f) == ~Before(e, f) /\ ~Before(f, e)

-----------------------------------------------------------------------------
(* Appends: LedgerWrite shows that the rows of a chain are dense and, on       *)
(* clocks that agree, in the order of their times.                             *)

Rows(t) == {e \in rows : e.entry_type = t}

\* Utc::now() for an append; some time has passed since the last one.
TakeTimestamp(t) ==
    /\ inflight[t] = NoAppend
    /\ Cardinality(rows) + Cardinality({u \in EntryType : inflight[u] # NoAppend}) < MaxRows
    /\ \E now \in clock..MaxClock :
         /\ inflight' = [inflight EXCEPT ![t] = now]
         /\ clock' = now
    /\ UNCHANGED <<rows, walk, late, overtaken>>

-----------------------------------------------------------------------------
(* The filters *)

\* LIKE's wildcard for one character.
AnyCharacter == "_"

\* text LIKE pattern.  A backslash that is not itself escaped escapes the next
\* character; else a percent sign stands for any part of the text and an underscore
\* for any character.  The pattern's first i characters match the first cut[i] of
\* the text.
Like(text, pattern) ==
    \E escapes \in SUBSET DOMAIN pattern :
        /\ \A i \in DOMAIN pattern :
             i \in escapes <=> pattern[i] = "\\" /\ i - 1 \notin escapes
        /\ \E cut \in [0..Len(pattern) -> 0..Len(text)] :
             /\ cut[0] = 0 /\ cut[Len(pattern)] = Len(text)
             /\ \A i \in DOMAIN pattern :
                  \/ i \in escapes /\ cut[i] = cut[i - 1]
                  \/ /\ i \notin escapes /\ cut[i] = cut[i - 1] + 1
                     /\ \/ text[cut[i]] = pattern[i]
                        \/ pattern[i] = AnyCharacter /\ i - 1 \notin escapes
                  \/ pattern[i] = "%" /\ i - 1 \notin escapes /\ cut[i - 1] <= cut[i]

\* entry_type LIKE (prefix || '%'), the prefix as it came: it may hold wildcards,
\* and a backslash at its end takes the percent sign's meaning away.
LikePrefix(prefix, entry_type) == Like(entry_type, Append(prefix, "%"))

timestamp_millis(ts) == ts \div MicrosPerMilli

\* The wire's empty string, empty bound and empty token are None.
Unset(q, f) == CASE f \in {"from_ts", "to_ts"} -> q[f] = 0
                 [] f = "entry_type"           -> q[f] = <<>>
                 [] OTHER                      -> q[f] = ""

Where_FromExclusive(q, e) ==
    /\ Unset(q, "entry_type") \/ LikePrefix(q.entry_type, e.entry_type)
    /\ Unset(q, "agent_id") \/ e.agent_id = q.agent_id
    /\ Unset(q, "from_ts") \/ e.written_ts > q.from_ts * MicrosPerMilli
    /\ Unset(q, "to_ts") \/ e.written_ts <= q.to_ts * MicrosPerMilli

\* The WHERE clause of both statements: stored microseconds against the bounds.
Where(q, e) ==
    /\ Unset(q, "entry_type") \/ LikePrefix(q.entry_type, e.entry_type)
    /\ Unset(q, "agent_id") \/ e.agent_id = q.agent_id
    /\ Unset(q, "from_ts") \/ e.written_ts >= q.from_ts * MicrosPerMilli
    /\ Unset(q, "to_ts") \/ e.written_ts <= q.to_ts * MicrosPerMilli

\* The filters of the in-memory repository: the reference.
FiltersBesideType(q, e) ==
    /\ Unset(q, "agent_id") \/ e.agent_id = q.agent_id
    /\ Unset(q, "from_ts") \/ timestamp_millis(e.written_ts) >= q.from_ts
    /\ Unset(q, "to_ts") \/ timestamp_millis(e.written_ts) <= q.to_ts

apply_query_filters(q, e) ==
    /\ Unset(q, "entry_type") \/ IsPrefix(q.entry_type, e.entry_type)
    /\ FiltersBesideType(q, e)

-----------------------------------------------------------------------------
(* The commit of an append *)

Walking == walk.pc \in {"count", "select"}

Matching(q) == {e \in rows : Where(q, e)}

\* The row takes its place below rows the walk is about.
Below(e) ==
    Walking /\ Where(walk.query, e) /\ \E f \in Matching(walk.query) : Before(e, f)

Commit(t) ==
    /\ inflight[t] # NoAppend
    /\ \E a \in Agent :
         LET e == [entry_type |-> t, agent_id |-> a, written_ts |-> inflight[t],
                   chain_position |-> Cardinality(Rows(t)) + 1]
         IN  /\ rows' = rows \cup {e}
             /\ late' = (late \/ Below(e))
             /\ overtaken' = (overtaken \/ (walk.pc = "select" /\ Below(e)))
    /\ inflight' = [inflight EXCEPT ![t] = NoAppend]
    /\ UNCHANGED <<clock, walk>>

-----------------------------------------------------------------------------
(* A call, and the walk *)

\* ORDER BY written_ts, chain_position; the order of equal rows is the server's
\* choice, anew for each statement.
Orders(S) ==
    {s \in [1..Cardinality(S) -> S] :
        \A i, j \in 1..Cardinality(S) : i < j => s[i] # s[j] /\ ~Before(s[j], s[i])}

Least(a, b) == IF a < b THEN a ELSE b

\* OFFSET counted from one.
Page_OneBased(s, offset, limit) ==
    LET first == IF offset = 0 THEN 1 ELSE offset
    IN  SubSeq(s, first, Least(first + limit - 1, Len(s)))

\* LIMIT and OFFSET
Page(s, offset, limit) == SubSeq(s, offset + 1, Least(offset + limit, Len(s)))

clamp_page_size_NoCap(n) == IF n <= 0 THEN DefaultPageSize ELSE n

clamp_page_size(n) ==
    IF n <= 0 THEN DefaultPageSize ELSE IF n > MaxPageSize THEN MaxPageSize ELSE n

parse_page_token(t) == IF t \in {NoToken, Junk} THEN 0 ELSE t

NoWalk == [pc |-> "idle"]

Init ==
    /\ rows = {}
    /\ inflight = [t \in EntryType |-> NoAppend]
    /\ clock = 0
    /\ walk = NoWalk
    /\ late = FALSE
    /\ overtaken = FALSE

\* The first request of a walk; `began` and `got` are history.
StartWalk ==
    /\ walk.pc = "idle"
    /\ \E q \in Query, n \in PageSize, t \in {NoToken, Junk} :
         walk' = [pc |-> "count", query |-> q, size |-> clamp_page_size(n),
                  offset |-> parse_page_token(t), total |-> 0, began |-> rows, got |-> <<>>]
    /\ UNCHANGED <<rows, inflight, clock, late, overtaken>>

CountRows ==
    /\ walk.pc = "count"
    /\ walk' = [walk EXCEPT !.pc = "select", !.total = Cardinality(Matching(walk.query))]
    /\ UNCHANGED <<rows, inflight, clock, late, overtaken>>

NextToken_Early(next_offset) ==
    IF next_offset + 1 < walk.total THEN next_offset ELSE NoToken

NextToken_AtMost(next_offset) ==
    IF next_offset <= walk.total THEN next_offset ELSE NoToken

NextToken(next_offset) == IF next_offset < walk.total THEN next_offset ELSE NoToken

\* SELECT, the answer, and the client's next request: the same with the token.
SelectPage ==
    /\ walk.pc = "select"
    /\ \E s \in Orders(Matching(walk.query)) :
         LET page  == Page(s, walk.offset, walk.size)
             token == NextToken(walk.offset + Len(page))
         IN  walk' = [walk EXCEPT !.pc = IF token = NoToken THEN "done" ELSE "count",
                                  !.offset = IF token = NoToken THEN @ ELSE token,
                                  !.got = @ \o page]
    /\ UNCHANGED <<rows, inflight, clock, late, overtaken>>

\* The pool or a statement fails: Unavailable, which the client raises; what it
\* had gathered is gone.
FailCall ==
    /\ Walking
    /\ walk' = [pc |-> "failed"]
    /\ UNCHANGED <<rows, inflight, clock, late, overtaken>>

Done == walk.pc \in {"done", "failed"} /\ UNCHANGED vars

Next ==
    \/ \E t \in EntryType : TakeTimestamp(t) \/ Commit(t)
    \/ StartWalk \/ CountRows \/ SelectPage \/ FailCall \/ Done

Spec == Init /\ [][Next]_vars

-----------------------------------------------------------------------------
(* Properties *)

Started == walk.pc \in {"count", "select", "done"}

Row == [entry_type : EntryType, agent_id : Agent, written_ts : 0..MaxClock,
        chain_position : Nat \ {0}]

Walk == [pc : {"count", "select", "done"}, query : Query, size : 1..MaxPageSize,
         offset : Nat, total : Nat, began : SUBSET rows, got : Seq(rows)]

\* Types; the effective page size is positive and capped whatever the client asked
\* for, and only committed rows are returned (service/mod.rs, query_entries).
TypeOK ==
    /\ rows \subseteq Row /\ IsFiniteSet(rows)
    /\ inflight \in [EntryType -> {NoAppend} \cup 0..MaxClock]
    /\ clock \in 0..MaxClock
    /\ IF Started THEN walk \in Walk ELSE walk \in [pc : {"idle", "failed"}]
    /\ late \in BOOLEAN /\ overtaken \in BOOLEAN

Got == {walk.got[i] : i \in DOMAIN walk.got}

NoTies == \A e, f \in Matching(walk.query) : Tied(e, f) => e = f

\* A walk that ended returned every matching row that was there when it began,
\* whatever was appended meanwhile, unless a row slipped in below others between
\* the two statements of a call, or the order has ties: rows appended with earlier
\* times push the others up, and the walk meets them again
\* (service/mod.rs, query_entries).
WalkComplete ==
    walk.pc = "done" /\ ~overtaken /\ NoTies =>
        {e \in walk.began : Where(walk.query, e)} \subseteq Got

\* No row is returned twice unless one became visible below others during the walk.
NoRepeats ==
    Started /\ ~late /\ NoTies =>
        \A i, j \in DOMAIN walk.got : i # j => walk.got[i] # walk.got[j]

\* A token is only given with a page that advances: an empty page ends the walk,
\* also when rows appeared after they were counted.
TokenAdvances ==
    [][walk.pc = "select" /\ walk'.pc = "count" =>
          /\ walk'.offset > walk.offset
          /\ Len(walk'.got) - Len(walk.got) = walk'.offset - walk.offset]_vars

Has(q, chars) == \E i \in DOMAIN q.entry_type : q.entry_type[i] \in chars

\* The text begins with the prefix as far as the prefix has no percent sign and no
\* backslash, any character standing for an underscore.
BeginsLike(text, prefix) ==
    \A i \in DOMAIN prefix :
        (\A j \in 1..i : prefix[j] # "%" /\ prefix[j] # "\\") =>
            i <= Len(text) /\ (text[i] = prefix[i] \/ prefix[i] = AnyCharacter)

\* The WHERE clause selects what the in-memory repository would, but for the
\* characters of the prefix that mean something to LIKE and for the end of the
\* range.  Every row selected passes the other filters, and its type begins with the
\* prefix up to underscores and what follows a percent sign or a backslash: only for
\* prefixes without the three does "assert e.entry_type.startswith(prefix)"
\* (tests/run_evidence.py:313) hold of all results.  No row is left out but by a
\* backslash, or in the last millisecond, which loses what was written after its
\* first microsecond.
FilterMatchesReference ==
    Started => \A e \in rows :
        /\ Where(walk.query, e) =>
             /\ FiltersBesideType(walk.query, e)
             /\ BeginsLike(e.entry_type, walk.query.entry_type)
             /\ Has(walk.query, {AnyCharacter, "%", "\\"}) \/ apply_query_filters(walk.query, e)
        /\ apply_query_filters(walk.query, e) =>
             \/ Where(walk.query, e) \/ Has(walk.query, {"\\"})
             \/ /\ timestamp_millis(e.written_ts) = walk.query.to_ts
                /\ e.written_ts > walk.query.to_ts * MicrosPerMilli

\* "QueryEntries pagination returns all entries across pages"
\* (tests/run_evidence.py:328): without ties, a finished walk has every matching
\* row that was committed before it began.
PagesReturnAll ==
    walk.pc = "done" /\ NoTies => {e \in walk.began : Where(walk.query, e)} \subseteq Got

-----------------------------------------------------------------------------
(* The inductive invariant behind the walk's properties *)

\* The rows of the walk that are listed before e, and how many they are.
Ahead(e) == {f \in Matching(walk.query) : Before(f, e)}

Rank(e) == Cardinality(Ahead(e))

\* A row only leaves the part of the list still to come through a page.
PassedAreGot ==
    \A e \in Matching(walk.query) \cap walk.began : Rank(e) < walk.offset => e \in Got

\* The count covers every row the walk is about: one that was moved up since
\* would have been overtaken.
CountCovers ==
    walk.pc = "select" =>
        \A e \in Matching(walk.query) \cap walk.began : Rank(e) < walk.total

\* Without late rows the pages so far are the head of the list.
GotIsHead ==
    /\ Len(walk.got) = walk.offset
    /\ \A i \in DOMAIN walk.got : Rank(walk.got[i]) = i - 1

\* What the offset stands for while rows are appended under the walk
\* (service/mod.rs, query_entries).
WalkInv ==
    /\ Started => Got \subseteq Matching(walk.query)
    /\ walk.pc = "select" => walk.total <= Cardinality(Matching(walk.query))
    /\ Walking /\ NoTies =>
         /\ ~overtaken => PassedAreGot /\ CountCovers
         /\ ~late => GotIsHead
    /\ WalkComplete /\ NoRepeats
====
