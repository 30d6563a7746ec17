--------------------------- MODULE MCQueryPaging ---------------------------
(***************************************************************************)
(* Instances of QueryPaging: two chains whose names end in characters that mean *)
(* something to LIKE, prefixes with each of the three, two microseconds to the  *)
(* millisecond, pages of one and two rows.                                      *)
(***************************************************************************)
EXTENDS QueryPaging

Types == {<<"a", "_">>, <<"a", "\\">>}

Filter(type, agent, from, to) ==
    [entry_type |-> type, agent_id |-> agent, from_ts |-> from, to_ts |-> to]

Queries == {Filter(<<>>, "", 0, 0), Filter(<<"a", "_">>, "", 0, 0),
            Filter(<<"a">>, "x", 1, 0), Filter(<<>>, "", 0, 1),
            Filter(<<"%", "\\", "_">>, "", 0, 0), Filter(<<"a", "\\">>, "", 0, 0)}

Everything == {Filter(<<>>, "", 0, 0)}

Sizes == {-1, 1, 5}
====
