---------------------------- MODULE MCQueryPlane ----------------------------
(* A small corpus and the requests made of it, for the instances of QueryPlane. *)
EXTENDS QueryPlane

CONSTANTS d1, d2, d3, f1, f2, e1

\* d1 is recent, d2 old, d3 has no date.
Years == [d \in Docs |-> CASE d = d1 -> 2 [] d = d2 -> 1 [] OTHER -> 0]
Hops == [f \in Facts |-> IF f = f1 THEN 1 ELSE 3]
Stated == [f \in Facts |-> IF f = f1 THEN {d1, d3} ELSE {d2}]

Req(mode, client, privileged, after, since) ==
  [mode |-> mode, client |-> client, privileged |-> privileged, after |-> after, since |-> since]
Asked == {Req("auto", "live", FALSE, 0, 2), Req("auto", "mock", TRUE, 1, 2),
          Req("fast", "mock", FALSE, 0, 0), Req("research", "live", FALSE, 0, 2),
          Req("research", "mock", FALSE, 2, 0)}
Decompositions == {<<>>, <<"text">>, <<"both">>, <<"text", "graph">>}

Proposed == {[tool |-> "search_text", k |-> 2],
             [tool |-> "graph_lookup", hops |-> 1, narrow |-> FALSE],
             [tool |-> "graph_lookup", hops |-> 5, narrow |-> TRUE],
             [tool |-> "resolve_entity"], [tool |-> "browse"]}
Written == {{}, {Chunk(d1)}, {Chunk(d3), Edge(f1)}, {Chunk(d2), <<"chunk", "made up">>}}
Worded == {Edge(f2), Chunk(d3)}
=============================================================================
