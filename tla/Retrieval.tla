------------------------------ MODULE Retrieval ------------------------------
(***************************************************************************)
(* The pure part of answering a question: which rows a search may return   *)
(* (retrieval/lexical.py, vector.py), how ranked lists are fused           *)
(* (fusion.py), and which claims of an answer are kept (query/verify.py).  *)
(*                                                                         *)
(* Text and vectors are abstract: a text query matches any of the eligible *)
(* chunks, in any order; a vector query ranks all of them.                 *)
(***************************************************************************)
EXTENDS Integers, Sequences, FiniteSets, SequencesExt

CONSTANTS Docs,       \* documents; each has one chunk
          Internal,   \* those whose license is "internal-only"
          Published,  \* Published[d]: the year of d, 0 if it has no date
          Facts,      \* edges of the knowledge graph
          Distance,   \* Distance[f]: hops from the entity asked about to f
          Entities,
          RrfK,       \* settings.rrf_k
          TopK        \* settings.lexical_top_k and vector_top_k

ASSUME FiniteAssumption == IsFiniteSet(Docs) /\ IsFiniteSet(Facts) /\ IsFiniteSet(Entities)
ASSUME DocAssumption == Internal \subseteq Docs /\ Published \in [Docs -> Nat]
ASSUME FactAssumption == Distance \in [Facts -> Nat]
ASSUME RankAssumption == RrfK \in Nat /\ TopK \in Nat \ {0}

\* Ids of sources; "edge_" and the like are the prefixes of the kinds.
Chunk(d) == <<"chunk", d>>
Edge(f) == <<"edge", f>>
Ent(e) == <<"ent", e>>
Id == {Chunk(d) : d \in Docs} \cup {Edge(f) : f \in Facts} \cup {Ent(e) : e \in Entities}

\* What a search may return when the filters ask for documents since `after` (0: any).
\* A document without a date does not pass such a filter.
InScope(d, after) == after = 0 \/ Published[d] >= after

Eligible(indexed, after) == {Chunk(d) : d \in {x \in indexed : InScope(x, after)}}

Rankings(S, n) == Injection(1..n, S)

\* At most k of the matching chunks, best first.
LexicalHits(indexed, after, k) ==
  UNION {Rankings(Eligible(indexed, after), n) : n \in 0..k}

\* The k nearest of the eligible chunks.
VectorHits(indexed, after, k) ==
  LET n == Cardinality(Eligible(indexed, after))
  IN Rankings(Eligible(indexed, after), IF n < k THEN n ELSE k)

\* What the lists hold, and where a list has it.
Met(lists) == UNION {ToSet(lists[i]) : i \in DOMAIN lists}
Rank(id, list) == Min({i \in DOMAIN list : list[i] = id})

\* Sums of 1/(rrf_k + rank), times a common multiple of the denominators: no list is longer
\* than there are chunks.
CommonMultiple ==
  LET product[n \in 0..Cardinality(Docs)] == IF n = 0 THEN 1 ELSE (RrfK + n) * product[n - 1]
  IN product[Cardinality(Docs)]

Share(id, list) == IF id \in ToSet(list) THEN CommonMultiple \div (RrfK + Rank(id, list)) ELSE 0

ScoreOf(id, lists) ==
  LET sum[n \in 0..Len(lists)] == IF n = 0 THEN 0 ELSE sum[n - 1] + Share(id, lists[n])
  IN sum[Len(lists)]

\* Going through the lists one meets a, and has not met b.
MetFirst(a, b, lists) ==
  \E i \in DOMAIN lists :
    /\ a \in ToSet(lists[i])
    /\ b \in ToSet(lists[i]) => Rank(a, lists[i]) < Rank(b, lists[i])
    /\ \A h \in 1..(i - 1) : b \notin ToSet(lists[h])

\* Variant: sorted without reverse=True.
Behind(a, b, lists) ==
  \/ ScoreOf(a, lists) < ScoreOf(b, lists)
  \/ ScoreOf(a, lists) = ScoreOf(b, lists) /\ MetFirst(a, b, lists)

\* a comes before b in the fused list: a better score, or the same and met first.
Ahead(a, b, lists) ==
  \/ ScoreOf(a, lists) > ScoreOf(b, lists)
  \/ ScoreOf(a, lists) = ScoreOf(b, lists) /\ MetFirst(a, b, lists)

\* The first k of the fused list: less than k come before.
Best(lists, k) ==
  {id \in Met(lists) : Cardinality({x \in Met(lists) : Ahead(x, id, lists)}) < k}

\* Every list that holds b holds a, and ranks it before b.
Dominates(a, b, lists) ==
  \A i \in DOMAIN lists : b \in ToSet(lists[i]) =>
    a \in ToSet(lists[i]) /\ Rank(a, lists[i]) < Rank(b, lists[i])

\* A sentence is the set of ids it cites, an answer a set of sentences. Sentences that cite
\* nothing valid are dropped.
Claims(sentences, valid) == {ids \cap valid : ids \in sentences} \ {{}}

\* The facts a traversal reaches; the depth is capped at three.
Reached(mirror, hops) ==
  {f \in Facts : mirror[f] # {} /\ Distance[f] <= IF hops < 3 THEN hops ELSE 3}

\* The sources graph_lookup_for_question returns: each fact with its evidence chunks.
GraphSources(mirror, indexed, hops) ==
  LET reached == Reached(mirror, hops)
  IN {Edge(f) : f \in reached} \cup {Chunk(d) : d \in indexed \cap UNION {mirror[f] : f \in reached}}
=============================================================================
