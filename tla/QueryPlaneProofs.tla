--------------------------- MODULE QueryPlaneProofs ---------------------------
(***************************************************************************)
(* Safety of QueryPlane and Retrieval for any corpus, any requests, any    *)
(* proposals of a model and any budget.  What a query has read stays true  *)
(* while documents are ingested, because the corpus only grows; so what is *)
(* in the context was admissible whenever it got there.                    *)
(***************************************************************************)
EXTENDS QueryPlane, Induction, FiniteSetTheorems, SequenceTheorems

-----------------------------------------------------------------------------
(* The invariant. *)

\* A chunk in S has its row, and a fact in S its evidence.
Backed(S) == /\ \A d \in Docs : Chunk(d) \in S => d \in indexed
             /\ \A f \in Facts : Edge(f) \in S => mirror[f] # {}

\* Neo4j lists d as evidence of a fact.
Evident(d) == \E f \in Facts : d \in mirror[f]

\* What the searches and lookups have found.
FoundInv ==
  /\ Met(lists) \subseteq Eligible(indexed, After)
  /\ Backed(facts) /\ \A d \in Docs : Chunk(d) \in facts => Evident(d)

\* Fit to be shown to the caller of answer().
Admissible(d) == /\ d \in Internal => request.privileged
                 /\ After = 0 \/ Published[d] >= After \/ Evident(d)

\* What answers are verified against, and what the closing event names.
ContextInv ==
  /\ Backed(context) /\ Backed(retrieved)
  /\ request.mode # "research" => \A d \in Docs : Chunk(d) \in context => Admissible(d)

\* Which of the two loops the request is in, and what it is working on.
PhaseInv ==
  /\ phase \in {"planning", "routing", "graph", "ranking", "writing"} => request.mode # "research"
  /\ phase \in {"thinking", "acting", "fusing", "looking_up", "resolving", "concluding"} =>
       request.mode = "research"
  /\ phase \in {"lexical", "vector", "fusing"} /\ request.mode = "research" =>
       call \in Calls /\ call.tool = "search_text"
  /\ phase \in {"lexical", "vector", "graph"} /\ request.mode # "research" => routes # <<>>

\* The client is told of nothing that is not recorded.
ResponseInv ==
  phase = "done" => UNION response.claims = response.sources /\ response.sources \subseteq retrieved

IInv == TypeOK /\ FoundInv /\ ContextInv /\ PhaseInv /\ ResponseInv

-----------------------------------------------------------------------------
(* Facts about the operators the model is built from. *)

\* A source has one kind, and one document or fact behind it.
LEMMA Names ==
  /\ \A d \in Docs : Chunk(d) \in Id
  /\ \A f \in Facts : Edge(f) \in Id
  /\ \A e \in Entities : Ent(e) \in Id
  /\ \A c, d : Chunk(c) = Chunk(d) => c = d
  /\ \A f, g : Edge(f) = Edge(g) => f = g
  /\ \A d, f : Chunk(d) # Edge(f)
  /\ \A d, e : Chunk(d) # Ent(e) /\ Edge(d) # Ent(e)
<1>1. \A c, d : Chunk(c) = Chunk(d) => c = d
  BY DEF Chunk
<1>2. \A f, g : Edge(f) = Edge(g) => f = g
  BY DEF Edge
<1>3. \A d, f : Chunk(d) # Edge(f)
  BY DEF Chunk, Edge
<1>4. \A d, e : Chunk(d) # Ent(e) /\ Edge(d) # Ent(e)
  BY DEF Chunk, Edge, Ent
<1>5. QED
  BY <1>1, <1>2, <1>3, <1>4 DEF Id

\* There are finitely many sources.
LEMMA IdFinite == IsFiniteSet(Id)
<1> DEFINE chunk == [d \in Docs |-> Chunk(d)]
           edge == [f \in Facts |-> Edge(f)]
           ent == [e \in Entities |-> Ent(e)]
<1>1. IsFiniteSet({Chunk(d) : d \in Docs})
  <2>1. chunk \in Surjection(Docs, {Chunk(d) : d \in Docs})
    BY DEF Surjection
  <2>2. QED
    BY <2>1, FiniteAssumption, FS_Surjection
<1>2. IsFiniteSet({Edge(f) : f \in Facts})
  <2>1. edge \in Surjection(Facts, {Edge(f) : f \in Facts})
    BY DEF Surjection
  <2>2. QED
    BY <2>1, FiniteAssumption, FS_Surjection
<1>3. IsFiniteSet({Ent(e) : e \in Entities})
  <2>1. ent \in Surjection(Entities, {Ent(e) : e \in Entities})
    BY DEF Surjection
  <2>2. QED
    BY <2>1, FiniteAssumption, FS_Surjection
<1>4. QED
  BY <1>1, <1>2, <1>3, FS_Union DEF Id

\* No list, no hit.
LEMMA MetNothing == Met(<<>>) = {}
<1>1. DOMAIN <<>> = {}
  OBVIOUS
<1>2. QED
  BY <1>1 DEF Met

\* A list more, and its hits.
LEMMA MetMore ==
  ASSUME NEW S, NEW lists0 \in Seq(Seq(S)), NEW hits \in Seq(S)
  PROVE  Met(Append(lists0, hits)) = Met(lists0) \cup ToSet(hits)
<1> DEFINE more == Append(lists0, hits)
           n == Len(lists0)
<1>1. n \in Nat /\ DOMAIN lists0 = 1..n /\ DOMAIN more = 1..(n + 1)
      /\ more[n + 1] = hits /\ \A i \in 1..n : more[i] = lists0[i]
  OBVIOUS
<1> HIDE DEF more, n
<1>2. \A i \in 1..(n + 1) : i = n + 1 \/ i \in 1..n
  BY <1>1
<1>3. 1..n \subseteq 1..(n + 1) /\ n + 1 \in 1..(n + 1)
  BY <1>1
<1>4. Met(more) = Met(lists0) \cup ToSet(hits)
  BY <1>1, <1>2, <1>3 DEF Met
<1>5. QED
  BY <1>4 DEF more

\* A sequence over S holds what is in S.
LEMMA HeldIn ==
  ASSUME NEW S, NEW s \in Seq(S)
  PROVE  ToSet(s) \subseteq S
  BY DEF ToSet

\* A ranking is a list of what it ranks.
LEMMA RankingsAreLists ==
  ASSUME NEW S, NEW n \in Nat, NEW s \in Rankings(S, n)
  PROVE  s \in Seq(S)
  BY DEF Rankings, Injection

\* The eligible chunks are sources.
LEMMA EligibleType == ASSUME NEW D \in SUBSET Docs, NEW after
                      PROVE  Eligible(D, after) \subseteq Id
  BY Names DEF Eligible

\* A search returns a list of eligible chunks.
LEMMA HitsAreEligible ==
  ASSUME NEW D \in SUBSET Docs, NEW after, NEW k \in Nat,
         NEW hits \in LexicalHits(D, after, k) \cup VectorHits(D, after, k)
  PROVE  hits \in Seq(Eligible(D, after))
<1>1. CASE hits \in LexicalHits(D, after, k)
  <2>1. PICK n \in 0..k : hits \in Rankings(Eligible(D, after), n)
    BY <1>1 DEF LexicalHits
  <2>2. n \in Nat
    OBVIOUS
  <2>3. QED
    BY <2>1, <2>2, RankingsAreLists
<1>2. CASE hits \in VectorHits(D, after, k)
  <2>1. IsFiniteSet(Eligible(D, after))
    BY EligibleType, IdFinite, FS_Subset
  <2>2. Cardinality(Eligible(D, after)) \in Nat
    BY <2>1, FS_CardinalityType
  <2>3. PICK n \in Nat : hits \in Rankings(Eligible(D, after), n)
    BY <1>2, <2>2 DEF VectorHits
  <2>4. QED
    BY <2>3, RankingsAreLists
<1>3. QED
  BY <1>1, <1>2

\* A graph lookup returns facts that have evidence, and chunks that are evidence.
LEMMA GraphSourcesFacts ==
  ASSUME NEW M \in [Facts -> SUBSET Docs], NEW D \in SUBSET Docs, NEW hops,
         NEW S, S \subseteq GraphSources(M, D, hops)
  PROVE  /\ S \subseteq Id
         /\ \A d \in Docs : Chunk(d) \in S => d \in D /\ \E f \in Facts : d \in M[f]
         /\ \A f \in Facts : Edge(f) \in S => M[f] # {}
<1>1. \A f \in Reached(M, hops) : f \in Facts /\ M[f] # {}
  BY DEF Reached
<1>2. \A x \in S : \/ \E f \in Reached(M, hops) : x = Edge(f)
                   \/ \E d \in D : x = Chunk(d) /\ \E f \in Reached(M, hops) : d \in M[f]
  BY DEF GraphSources
<1>3. QED
  BY <1>1, <1>2, Names

\* The best hits are hits.
LEMMA BestAreMet == ASSUME NEW L, NEW k
                    PROVE  Best(L, k) \subseteq Met(L)
  BY DEF Best

-----------------------------------------------------------------------------
(* Scores. *)

\* Where a list has an id it holds.
LEMMA RankOf ==
  ASSUME NEW list \in Seq(Id), NEW id \in ToSet(list)
  PROVE  Rank(id, list) \in DOMAIN list /\ Rank(id, list) \in Nat \ {0}
<1> DEFINE S == {i \in DOMAIN list : list[i] = id}
<1>1. DOMAIN list \subseteq Nat \ {0} /\ S \subseteq DOMAIN list /\ S # {}
  BY DEF ToSet
<1>2. S \in SUBSET Nat
  BY <1>1
<1> HIDE DEF S
<1>3. \E x \in S : \A y \in S : x <= y
  BY <1>1, <1>2, LeastOf
<1>4. Min(S) \in S
  BY <1>3 DEF Min
<1>5. QED
  BY <1>1, <1>4 DEF Rank, S

\* The denominators have a common multiple.
LEMMA CommonMultipleType == CommonMultiple \in Nat
<1> DEFINE N == Cardinality(Docs)
           step == [n \in 1..N |-> [v \in Nat |-> (RrfK + n) * v]]
           Product(g) == g = [n \in 0..N |-> IF n = 0 THEN 1 ELSE (RrfK + n) * g[n - 1]]
<1>a. N \in Nat
  BY FiniteAssumption, FS_CardinalityType
<1> HIDE DEF N
<1>1. N \in Nat /\ \A k \in 1..N, v \in Nat : step[k][v] = (RrfK + k) * v /\ step[k][v] \in Nat
  BY <1>a, RankAssumption
<1> HIDE DEF step
<1>2. PICK g : Follows(g, step, 1, N, Nat)
  <2>1. Steps(step, N, Nat)
    BY <1>1 DEF Steps
  <2>2. QED
    BY <1>1, <2>1, Recursion
<1>3. \A k \in 1..N : g[k - 1] \in Nat
  BY <1>1, <1>2 DEF Follows
<1>4. \A k \in 0..N : g[k] = IF k = 0 THEN 1 ELSE (RrfK + k) * g[k - 1]
  BY <1>1, <1>2, <1>3 DEF Follows
<1>5. Product(g)
  BY <1>2, <1>4 DEF Follows
<1> DEFINE product == CHOOSE h : Product(h)
<1>6. Product(product)
  BY <1>5
<1> HIDE DEF product
<1> DEFINE S == {n \in Nat : n \in 0..N => product[n] \in Nat}
<1>7. S = Nat
  <2>1. 0 \in S
    BY <1>1, <1>6
  <2>2. ASSUME NEW n \in S
        PROVE  n + 1 \in S
    <3>1. CASE n + 1 \in 0..N
      <4>1. /\ n \in 0..N /\ product[n] \in Nat
            /\ n + 1 # 0 /\ (n + 1) - 1 = n /\ RrfK + (n + 1) \in Nat
        BY <1>1, <2>2, <3>1, RankAssumption
      <4>2. product[n + 1] = (RrfK + (n + 1)) * product[n]
        BY <1>6, <3>1, <4>1
      <4>3. product[n + 1] \in Nat
        BY <4>1, <4>2
      <4>4. QED
        BY <2>2, <4>3
    <3>2. CASE n + 1 \notin 0..N
      BY <2>2, <3>2
    <3>3. QED
      BY <3>1, <3>2
  <2>3. S \in SUBSET Nat
    OBVIOUS
  <2> HIDE DEF S
  <2>4. QED
    BY <2>1, <2>2, <2>3, FirstFailure
<1>8. product[N] \in Nat
  <2>1. N \in S
    BY <1>1, <1>7
  <2>2. QED
    BY <1>1, <2>1
<1>9. CommonMultiple = product[N]
  BY DEF CommonMultiple, product, Product, N
<1>10. QED
  BY <1>8, <1>9

\* A smaller divisor leaves no smaller quotient.
LEMMA DivisionMonotone ==
  ASSUME NEW x \in Nat, NEW m \in Nat \ {0}, NEW n \in Nat \ {0}, m <= n
  PROVE  x \div n \in Nat /\ x \div n <= x \div m
<1> DEFINE p == x \div m
           q == x \div n
<1>1. p \in Nat /\ q \in Nat
  OBVIOUS
<1>2. x < m * (p + 1)
  OBVIOUS
<1>3. n * q <= x
  OBVIOUS
<1> HIDE DEF p, q
<1>4. SUFFICES ASSUME q >= p + 1
               PROVE  FALSE
  BY <1>1 DEF p, q
<1>5. m * (p + 1) <= m * q
  BY <1>1, <1>4
<1>6. m * q <= n * q
  BY <1>1
<1>7. m * (p + 1) \in Int /\ m * q \in Int /\ n * q \in Int
  BY <1>1
<1>8. QED
  BY <1>2, <1>3, <1>5, <1>6, <1>7

\* What a list adds to a score is a natural number.
LEMMA ShareType ==
  ASSUME NEW list \in Seq(Id), NEW id \in Id
  PROVE  Share(id, list) \in Nat
<1>1. CASE id \in ToSet(list)
  <2>1. RrfK + Rank(id, list) \in Nat \ {0}
    BY <1>1, RankOf, RankAssumption
  <2>2. CommonMultiple \div (RrfK + Rank(id, list)) \in Nat
    BY <2>1, CommonMultipleType, DivisionMonotone
  <2>3. QED
    BY <1>1, <2>2 DEF Share
<1>2. CASE id \notin ToSet(list)
  BY <1>2 DEF Share
<1>3. QED
  BY <1>1, <1>2

\* A better rank adds no less to a score.
LEMMA ShareMonotone ==
  ASSUME NEW list \in Seq(Id), NEW a \in Id, NEW b \in Id,
         b \in ToSet(list) => a \in ToSet(list) /\ Rank(a, list) < Rank(b, list)
  PROVE  Share(b, list) <= Share(a, list)
<1>1. CASE b \in ToSet(list)
  <2>1. a \in ToSet(list) /\ Rank(a, list) < Rank(b, list)
    BY <1>1
  <2>2. /\ RrfK + Rank(a, list) \in Nat \ {0} /\ RrfK + Rank(b, list) \in Nat \ {0}
        /\ RrfK + Rank(a, list) <= RrfK + Rank(b, list)
    <3>1. Rank(a, list) \in Nat \ {0} /\ Rank(b, list) \in Nat \ {0}
      BY <1>1, <2>1, RankOf
    <3>2. QED
      BY <2>1, <3>1, RankAssumption
  <2>3. CommonMultiple \div (RrfK + Rank(b, list)) <= CommonMultiple \div (RrfK + Rank(a, list))
    BY <2>2, CommonMultipleType, DivisionMonotone
  <2>4. QED
    BY <1>1, <2>1, <2>3 DEF Share
<1>2. CASE b \notin ToSet(list)
  BY <1>2, ShareType DEF Share
<1>3. QED
  BY <1>1, <1>2

\* A score is the last of the sums over the first lists.
LEMMA ScoreIsSum ==
  ASSUME NEW L \in Seq(Seq(Id)), NEW id \in Id
  PROVE  \E sum : /\ ScoreOf(id, L) = sum[Len(L)]
                  /\ sum[0] = 0
                  /\ \A n \in 1..Len(L) : sum[n] = sum[n - 1] + Share(id, L[n])
<1> DEFINE N == Len(L)
           step == [n \in 1..N |-> [v \in Nat |-> v + Share(id, L[n])]]
           Sum(g) == g = [n \in 0..N |-> IF n = 0 THEN 0 ELSE g[n - 1] + Share(id, L[n])]
<1>1. N \in Nat /\ \A n \in 1..N : L[n] \in Seq(Id)
  OBVIOUS
<1> HIDE DEF N
<1>2. \A n \in 1..N : Share(id, L[n]) \in Nat
  BY <1>1, ShareType
<1>3. \A k \in 1..N, v \in Nat : step[k][v] = v + Share(id, L[k]) /\ step[k][v] \in Nat
  BY <1>2
<1> HIDE DEF step
<1>4. PICK g : Follows(g, step, 0, N, Nat)
  <2>1. Steps(step, N, Nat)
    BY <1>3 DEF Steps
  <2>2. QED
    BY <1>1, <2>1, Recursion
<1>5. \A k \in 1..N : g[k - 1] \in Nat
  BY <1>1, <1>4 DEF Follows
<1>6. \A k \in 0..N : g[k] = IF k = 0 THEN 0 ELSE g[k - 1] + Share(id, L[k])
  <2>1. \A k \in 1..N : g[k] = g[k - 1] + Share(id, L[k])
    BY <1>3, <1>4, <1>5 DEF Follows
  <2>2. \A k \in 0..N : k = 0 \/ (k # 0 /\ k \in 1..N)
    BY <1>1
  <2>3. g[0] = 0
    BY <1>4 DEF Follows
  <2> HIDE DEF step
  <2>4. QED
    BY <2>1, <2>2, <2>3
<1>7. Sum(g)
  BY <1>4, <1>6 DEF Follows
<1> DEFINE sum == CHOOSE h : Sum(h)
<1>8. Sum(sum)
  BY <1>7
<1>9. ScoreOf(id, L) = sum[N]
  BY DEF ScoreOf, N
<1> HIDE DEF sum
<1>10. sum[0] = 0 /\ \A n \in 1..N : sum[n] = sum[n - 1] + Share(id, L[n])
  BY <1>1, <1>8
<1>11. QED
  BY <1>9, <1>10 DEF N

\* What no list ranks lower has no smaller score.
LEMMA ScoreMonotone ==
  ASSUME NEW L \in Seq(Seq(Id)), NEW a \in Id, NEW b \in Id, Dominates(a, b, L)
  PROVE  ScoreOf(a, L) \in Nat /\ ScoreOf(b, L) \in Nat /\ ScoreOf(b, L) <= ScoreOf(a, L)
<1> DEFINE N == Len(L)
<1>1. N \in Nat /\ DOMAIN L = 1..N /\ \A n \in 1..N : L[n] \in Seq(Id)
  OBVIOUS
<1> HIDE DEF N
<1>2. PICK sa : /\ ScoreOf(a, L) = sa[N] /\ sa[0] = 0
                /\ \A n \in 1..N : sa[n] = sa[n - 1] + Share(a, L[n])
  BY ScoreIsSum DEF N
<1>3. PICK sb : /\ ScoreOf(b, L) = sb[N] /\ sb[0] = 0
                /\ \A n \in 1..N : sb[n] = sb[n - 1] + Share(b, L[n])
  BY ScoreIsSum DEF N
<1>4. ASSUME NEW n \in 1..N
      PROVE  /\ Share(a, L[n]) \in Nat /\ Share(b, L[n]) \in Nat
             /\ Share(b, L[n]) <= Share(a, L[n])
  <2>1. L[n] \in Seq(Id) /\ n \in DOMAIN L
    BY <1>1
  <2>2. b \in ToSet(L[n]) => a \in ToSet(L[n]) /\ Rank(a, L[n]) < Rank(b, L[n])
    BY <2>1 DEF Dominates
  <2>3. QED
    BY <2>1, <2>2, ShareType, ShareMonotone
<1> DEFINE S == {n \in Nat : n \in 0..N => sa[n] \in Nat /\ sb[n] \in Nat /\ sb[n] <= sa[n]}
<1>5. 0 \in S
  BY <1>2, <1>3
<1>6. ASSUME NEW n \in S
      PROVE  n + 1 \in S
  <2>1. CASE n + 1 \in 0..N
    <3>1. n \in Nat /\ n \in 0..N /\ n + 1 \in 1..N /\ (n + 1) - 1 = n
      BY <1>1, <1>6, <2>1
    <3>2. sa[n] \in Nat /\ sb[n] \in Nat /\ sb[n] <= sa[n]
      BY <1>6, <3>1
    <3>3. sa[n + 1] = sa[n] + Share(a, L[n + 1]) /\ sb[n + 1] = sb[n] + Share(b, L[n + 1])
      BY <1>2, <1>3, <3>1
    <3>4. QED
      BY <1>4, <3>1, <3>2, <3>3
  <2>2. CASE n + 1 \notin 0..N
    BY <1>6, <2>2
  <2>3. QED
    BY <2>1, <2>2
<1>7. S \in SUBSET Nat
  OBVIOUS
<1>8. S = Nat
  <2> HIDE DEF S
  <2>1. QED
    BY <1>5, <1>6, <1>7, FirstFailure
<1>9. N \in S /\ N \in 0..N
  BY <1>1, <1>8
<1>10. QED
  BY <1>2, <1>3, <1>9

\* A score is a natural number.
LEMMA ScoreType ==
  ASSUME NEW L \in Seq(Seq(Id)), NEW id \in Id
  PROVE  ScoreOf(id, L) \in Nat
<1> DEFINE N == Len(L)
<1>1. N \in Nat /\ \A n \in 1..N : L[n] \in Seq(Id)
  OBVIOUS
<1> HIDE DEF N
<1>2. PICK sum : /\ ScoreOf(id, L) = sum[N] /\ sum[0] = 0
                 /\ \A n \in 1..N : sum[n] = sum[n - 1] + Share(id, L[n])
  BY ScoreIsSum DEF N
<1> DEFINE S == {n \in Nat : n \in 0..N => sum[n] \in Nat}
<1>3. 0 \in S
  BY <1>2
<1>4. ASSUME NEW n \in S
      PROVE  n + 1 \in S
  <2>1. CASE n + 1 \in 0..N
    <3>1. n \in Nat /\ n \in 0..N /\ n + 1 \in 1..N /\ (n + 1) - 1 = n
      BY <1>1, <1>4, <2>1
    <3>2. sum[n] \in Nat /\ sum[n + 1] = sum[n] + Share(id, L[n + 1])
      BY <1>2, <1>4, <3>1
    <3>3. Share(id, L[n + 1]) \in Nat
      BY <1>1, <3>1, ShareType
    <3>4. QED
      BY <3>1, <3>2, <3>3
  <2>2. CASE n + 1 \notin 0..N
    BY <1>4, <2>2
  <2>3. QED
    BY <2>1, <2>2
<1>5. S \in SUBSET Nat
  OBVIOUS
<1>6. S = Nat
  <2> HIDE DEF S
  <2>1. QED
    BY <1>3, <1>4, <1>5, FirstFailure
<1>7. N \in S /\ N \in 0..N
  BY <1>1, <1>6
<1>8. QED
  BY <1>2, <1>7

-----------------------------------------------------------------------------
(* The order of the fused list. *)

\* What every list that holds b ranks before b is ahead of b.
LEMMA DominatesIsAhead ==
  ASSUME NEW L \in Seq(Seq(Id)), NEW a \in Id, NEW b \in Met(L), b \in Id, Dominates(a, b, L)
  PROVE  a \in Met(L) /\ Ahead(a, b, L)
<1> DEFINE N == Len(L)
           S == {i \in 1..N : b \in ToSet(L[i])}
<1>1. N \in Nat /\ DOMAIN L = 1..N
  OBVIOUS
<1> HIDE DEF N
<1>2. S \in SUBSET Nat /\ S # {}
  BY <1>1 DEF Met
<1>3. PICK i \in S : \A j \in S : i <= j
  <2> HIDE DEF S
  <2>1. QED
    BY <1>2, LeastOf
<1>4. i \in DOMAIN L /\ b \in ToSet(L[i])
  BY <1>1, <1>3
<1>5. a \in ToSet(L[i]) /\ Rank(a, L[i]) < Rank(b, L[i])
  BY <1>4 DEF Dominates
<1>6. \A h \in 1..(i - 1) : b \notin ToSet(L[h])
  <2>1. ASSUME NEW h \in 1..(i - 1), b \in ToSet(L[h])
        PROVE  FALSE
    <3>1. h \in 1..N /\ h < i
      BY <1>1, <1>4
    <3>2. h \in S
      BY <2>1, <3>1
    <3>3. i <= h /\ i \in Nat
      BY <1>2, <1>3, <3>2
    <3>4. QED
      BY <3>1, <3>3
  <2>2. QED
    BY <2>1
<1>7. MetFirst(a, b, L)
  BY <1>4, <1>5, <1>6 DEF MetFirst
<1>8. ScoreOf(a, L) \in Nat /\ ScoreOf(b, L) \in Nat /\ ScoreOf(b, L) <= ScoreOf(a, L)
  BY ScoreMonotone
<1>9. a \in Met(L)
  BY <1>4, <1>5 DEF Met
<1>10. QED
  BY <1>7, <1>8, <1>9 DEF Ahead

\* Met before what is met before b: met before b.
LEMMA MetFirstTransitive ==
  ASSUME NEW L \in Seq(Seq(Id)), NEW x \in Id, NEW a \in Id, NEW b \in Id,
         MetFirst(x, a, L), MetFirst(a, b, L)
  PROVE  MetFirst(x, b, L)
<1>1. PICK i \in DOMAIN L : /\ x \in ToSet(L[i])
                            /\ a \in ToSet(L[i]) => Rank(x, L[i]) < Rank(a, L[i])
                            /\ \A h \in 1..(i - 1) : a \notin ToSet(L[h])
  BY DEF MetFirst
<1>2. PICK j \in DOMAIN L : /\ a \in ToSet(L[j])
                            /\ b \in ToSet(L[j]) => Rank(a, L[j]) < Rank(b, L[j])
                            /\ \A h \in 1..(j - 1) : b \notin ToSet(L[h])
  BY DEF MetFirst
<1>3. i \in Nat \ {0} /\ j \in Nat \ {0} /\ L[i] \in Seq(Id)
  OBVIOUS
<1>4. i <= j
  <2>1. SUFFICES ASSUME j < i
                 PROVE  FALSE
    BY <1>3
  <2>2. j \in 1..(i - 1)
    BY <1>3, <2>1
  <2>3. QED
    BY <1>1, <1>2, <2>2
<1>5. \A h \in 1..(i - 1) : b \notin ToSet(L[h])
  <2>1. \A h \in 1..(i - 1) : h \in 1..(j - 1)
    BY <1>3, <1>4
  <2>2. QED
    BY <1>2, <2>1
<1>6. b \in ToSet(L[i]) => Rank(x, L[i]) < Rank(b, L[i])
  <2>1. SUFFICES ASSUME b \in ToSet(L[i])
                 PROVE  Rank(x, L[i]) < Rank(b, L[i])
    OBVIOUS
  <2>2. i = j
    <3>1. ~(i < j)
      <4>1. i < j => i \in 1..(j - 1)
        BY <1>3
      <4>2. QED
        BY <1>2, <2>1, <4>1
    <3>2. QED
      BY <1>3, <1>4, <3>1
  <2>3. Rank(x, L[i]) < Rank(a, L[i]) /\ Rank(a, L[i]) < Rank(b, L[i])
    BY <1>1, <1>2, <2>1, <2>2
  <2>4. Rank(x, L[i]) \in Nat /\ Rank(a, L[i]) \in Nat /\ Rank(b, L[i]) \in Nat
    <3>1. a \in ToSet(L[i])
      BY <1>2, <2>2
    <3>2. QED
      BY <1>1, <1>3, <2>1, <3>1, RankOf
  <2>5. QED
    BY <2>3, <2>4
<1>7. QED
  BY <1>1, <1>5, <1>6 DEF MetFirst

\* Ahead of what is ahead of b: ahead of b.
LEMMA AheadTransitive ==
  ASSUME NEW L \in Seq(Seq(Id)), NEW x \in Id, NEW a \in Id, NEW b \in Id,
         Ahead(x, a, L), Ahead(a, b, L)
  PROVE  Ahead(x, b, L)
<1>1. ScoreOf(x, L) \in Nat /\ ScoreOf(a, L) \in Nat /\ ScoreOf(b, L) \in Nat
  BY ScoreType
<1>2. CASE ScoreOf(x, L) > ScoreOf(b, L)
  BY <1>2 DEF Ahead
<1>3. CASE ~(ScoreOf(x, L) > ScoreOf(b, L))
  <2>1. /\ ScoreOf(x, L) = ScoreOf(a, L) /\ MetFirst(x, a, L)
        /\ ScoreOf(a, L) = ScoreOf(b, L) /\ MetFirst(a, b, L)
    BY <1>1, <1>3 DEF Ahead
  <2>2. QED
    BY <2>1, MetFirstTransitive DEF Ahead
<1>4. QED
  BY <1>2, <1>3

\* What is ahead of one of the best is one of the best.
LEMMA AheadOfBest ==
  ASSUME NEW L \in Seq(Seq(Id)), Met(L) \subseteq Id, NEW k \in Int,
         NEW a \in Met(L), NEW b \in Best(L, k), Ahead(a, b, L)
  PROVE  a \in Best(L, k)
<1> DEFINE A == {x \in Met(L) : Ahead(x, a, L)}
           B == {x \in Met(L) : Ahead(x, b, L)}
<1>1. a \in Id /\ b \in Id
  BY DEF Best
<1>2. A \subseteq B
  BY <1>1, AheadTransitive
<1>3. B \subseteq Id /\ IsFiniteSet(Id)
  BY IdFinite
<1>4. Cardinality(B) < k
  BY DEF Best
<1> HIDE DEF A, B
<1>5. IsFiniteSet(B)
  BY <1>3, FS_Subset
<1>6. Cardinality(A) <= Cardinality(B)
  BY <1>2, <1>5, FS_Subset
<1>7. Cardinality(A) \in Nat /\ Cardinality(B) \in Nat
  BY <1>2, <1>5, FS_Subset, FS_CardinalityType
<1>8. Cardinality(A) < k
  BY <1>4, <1>6, <1>7
<1>9. QED
  BY <1>8 DEF A, Best

-----------------------------------------------------------------------------
(* The corpus grows. *)

\* What is backed by a corpus is backed by a larger one.
LEMMA Grows ==
  ASSUME TypeOK, indexed \subseteq indexed', \A f \in Facts : mirror[f] \subseteq mirror'[f]
  PROVE  /\ \A S : Backed(S) => Backed(S)'
         /\ \A d \in Docs : Evident(d) => Evident(d)'
         /\ \A after : Eligible(indexed, after) \subseteq Eligible(indexed, after)'
  BY DEF Backed, Evident, Eligible

\* Ingestion preserves IInv.
LEMMA IngestInv ==
  ASSUME IInv, indexed' \subseteq Docs, mirror' \in [Facts -> SUBSET Docs],
         indexed \subseteq indexed', \A f \in Facts : mirror[f] \subseteq mirror'[f],
         UNCHANGED <<request, phase, searchVars, agentVars, context, resultVars>>
  PROVE  IInv'
<1>1. /\ UNCHANGED <<request, phase, routes, lists, facts, call, seen, steps, tokens>>
      /\ UNCHANGED <<context, answer, response, retrieved>>
  BY DEF searchVars, agentVars, resultVars
<1>2. TypeOK' /\ PhaseInv' /\ ResponseInv' /\ After' = After
  BY <1>1 DEF IInv, TypeOK, PhaseInv, ResponseInv, After
<1>3. TypeOK /\ FoundInv /\ ContextInv
  BY DEF IInv
<1>4. /\ \A S : Backed(S) => Backed(S)'
      /\ \A d \in Docs : Evident(d) => Evident(d)'
      /\ \A after : Eligible(indexed, after) \subseteq Eligible(indexed, after)'
  BY <1>3, Grows
<1>5. FoundInv'
  BY <1>1, <1>2, <1>3, <1>4 DEF FoundInv
<1>6. ContextInv'
  BY <1>1, <1>2, <1>3, <1>4 DEF ContextInv, Admissible
<1>7. QED
  BY <1>2, <1>5, <1>6 DEF IInv

-----------------------------------------------------------------------------
(* The steps of the request. *)

\* A step of the request leaves the corpus alone, and what it backs.
LEMMA Frame ==
  ASSUME UNCHANGED <<corpusVars, request>>
  PROVE  /\ UNCHANGED <<indexed, mirror, request>>
         /\ \A S : Backed(S)' <=> Backed(S)
         /\ \A d : Evident(d)' <=> Evident(d)
         /\ \A d : Admissible(d)' <=> Admissible(d)
<1>1. UNCHANGED <<indexed, mirror, request>>
  BY DEF corpusVars
<1>2. After' = After
  BY <1>1 DEF After
<1>3. QED
  BY <1>1, <1>2 DEF Backed, Evident, Admissible

\* What was found stays what it was if no list and no fact is added.
LEMMA FoundKept ==
  ASSUME FoundInv, UNCHANGED <<corpusVars, request>>,
         lists' = lists \/ lists' = <<>>, facts' = facts
  PROVE  FoundInv'
<1>1. After' = After /\ indexed' = indexed /\ mirror' = mirror
  BY Frame DEF After
<1>2. Met(lists') \subseteq Met(lists)
  BY MetNothing
<1>3. QED
  BY <1>1, <1>2 DEF FoundInv, Backed, Evident

\* A step that shows nothing new keeps the context's invariant.
LEMMA ContextKept ==
  ASSUME ContextInv, UNCHANGED <<corpusVars, request, context, retrieved>>
  PROVE  ContextInv'
<1>1. UNCHANGED <<request, context, retrieved>>
  OBVIOUS
<1>2. QED
  BY <1>1, Frame DEF ContextInv

\* An open request has no response to be wrong about.
LEMMA NoResponse == ASSUME phase' # "done"
                    PROVE  ResponseInv'
  BY DEF ResponseInv

\* The session is opened.
LEMMA OpenSessionInv == ASSUME IInv, OpenSession
                        PROVE  IInv'
<1>1. /\ phase' = IF request.mode = "research" THEN "thinking" ELSE "planning"
      /\ UNCHANGED <<corpusVars, request>>
      /\ UNCHANGED <<indexed, mirror, request, routes, lists, facts, call, seen, steps, tokens>>
      /\ UNCHANGED <<context, answer, response, retrieved>>
  BY DEF OpenSession, Goto, corpusVars, searchVars, agentVars, resultVars
<1>2. TypeOK' /\ PhaseInv'
  BY <1>1 DEF IInv, TypeOK, PhaseInv, Phase
<1>3. FoundInv' /\ ContextInv' /\ ResponseInv'
  BY <1>1, FoundKept, ContextKept, NoResponse DEF IInv
<1>4. QED
  BY <1>2, <1>3 DEF IInv

\* A search appends a list of eligible chunks.
LEMMA SearchInv ==
  ASSUME IInv, phase \in {"lexical", "vector"},
         UNCHANGED <<corpusVars, request, routes, facts, agentVars, context, resultVars>>,
         NEW hits \in LexicalHits(indexed, After, Limit) \cup VectorHits(indexed, After, Limit),
         lists' = Append(lists, hits),
         phase' = IF phase = "lexical" THEN "vector"
                  ELSE IF request.mode = "research" THEN "fusing" ELSE "graph"
  PROVE  IInv'
<1>1. /\ UNCHANGED <<corpusVars, request>>
      /\ UNCHANGED <<indexed, mirror, request, routes, facts, call, seen, steps, tokens>>
      /\ UNCHANGED <<context, answer, response, retrieved>>
  BY DEF corpusVars, agentVars, resultVars
<1>2. Limit \in Nat
  BY RankAssumption, CallAssumption DEF IInv, PhaseInv, Limit
<1>3. hits \in Seq(Eligible(indexed, After))
  BY <1>2, HitsAreEligible DEF IInv, TypeOK
<1>4. Eligible(indexed, After) \subseteq Id
  BY EligibleType DEF IInv, TypeOK
<1>5. hits \in Seq(Id) /\ ToSet(hits) \subseteq Eligible(indexed, After)
  BY <1>3, <1>4, HeldIn
<1>6. lists \in Seq(Seq(Id))
  BY DEF IInv, TypeOK
<1>7. lists' \in Seq(Seq(Id)) /\ Met(lists') = Met(lists) \cup ToSet(hits)
  BY <1>5, <1>6, MetMore
<1>8. TypeOK' /\ PhaseInv'
  BY <1>1, <1>7 DEF IInv, TypeOK, PhaseInv, Phase
<1>9. FoundInv'
  BY <1>1, <1>5, <1>7, Frame DEF IInv, FoundInv, After
<1>10. ContextInv' /\ ResponseInv'
  BY <1>1, ContextKept, NoResponse DEF IInv
<1>11. QED
  BY <1>8, <1>9, <1>10 DEF IInv

\* Steps of the lexical search preserve IInv.
LEMMA SearchLexicalInv == ASSUME IInv, SearchLexical
                          PROVE  IInv'
<1>1. PICK hits \in LexicalHits(indexed, After, Limit) : lists' = Append(lists, hits)
  BY DEF SearchLexical
<1>2. /\ phase = "lexical" /\ phase' = "vector"
      /\ UNCHANGED <<corpusVars, request, routes, facts, agentVars, context, resultVars>>
  BY DEF SearchLexical, Goto
<1>3. QED
  BY <1>1, <1>2, SearchInv

\* Steps of the vector search preserve IInv.
LEMMA SearchVectorInv == ASSUME IInv, SearchVector
                         PROVE  IInv'
<1>1. PICK hits \in VectorHits(indexed, After, Limit) : lists' = Append(lists, hits)
  BY DEF SearchVector
<1>2. /\ phase = "vector" /\ phase' = IF request.mode = "research" THEN "fusing" ELSE "graph"
      /\ UNCHANGED <<corpusVars, request, routes, facts, agentVars, context, resultVars>>
  BY DEF SearchVector, Goto
<1>3. QED
  BY <1>1, <1>2, SearchInv

\* Whatever routes the subquestions get, IInv is preserved.
LEMMA DecomposeInv == ASSUME IInv, Decompose
                      PROVE  IInv'
<1>1. /\ phase = "planning" /\ phase' = "routing"
      /\ UNCHANGED <<corpusVars, request>>
      /\ UNCHANGED <<indexed, mirror, request, lists, facts, call, seen, steps, tokens>>
      /\ UNCHANGED <<context, answer, response, retrieved>>
  BY DEF Decompose, Goto, corpusVars, agentVars, resultVars
<1>2. routes' \in Seq(Route)
  <2>1. <<"both">> \in Seq(Route) /\ <<"text">> \in Seq(Route)
    BY DEF Route
  <2>2. {<<"both">>, <<"text">>} \subseteq Seq(Route) /\ Routes \subseteq Seq(Route)
    BY <2>1, RequestAssumption
  <2>3. routes' \in {<<"both">>, <<"text">>} \/ routes' \in Routes
    BY DEF Decompose
  <2>4. QED
    BY <2>2, <2>3
<1>3. TypeOK' /\ PhaseInv'
  BY <1>1, <1>2 DEF IInv, TypeOK, PhaseInv, Phase
<1>4. FoundInv' /\ ContextInv' /\ ResponseInv'
  BY <1>1, FoundKept, ContextKept, NoResponse DEF IInv
<1>5. QED
  BY <1>3, <1>4 DEF IInv

\* A subquestion is left to do when one is begun.
LEMMA NextSubquestionInv == ASSUME IInv, NextSubquestion
                            PROVE  IInv'
<1>1. /\ phase = "routing"
      /\ phase' \in {"ranking", "graph", "lexical"} /\ (phase' # "ranking" => routes # <<>>)
      /\ UNCHANGED <<corpusVars, request>>
      /\ UNCHANGED <<indexed, mirror, request, routes, lists, facts, call, seen, steps, tokens>>
      /\ UNCHANGED <<context, answer, response, retrieved>>
  BY DEF NextSubquestion, Goto, corpusVars, searchVars, agentVars, resultVars
<1>2. TypeOK' /\ PhaseInv'
  BY <1>1 DEF IInv, TypeOK, PhaseInv, Phase
<1>3. FoundInv' /\ ContextInv' /\ ResponseInv'
  BY <1>1, FoundKept, ContextKept, NoResponse DEF IInv
<1>4. QED
  BY <1>2, <1>3 DEF IInv

\* The graph lookup of a subquestion.
LEMMA LookupGraphInv == ASSUME IInv, LookupGraph
                        PROVE  IInv'
<1>1. /\ phase = "graph" /\ phase' = "routing" /\ routes' = Tail(routes)
      /\ UNCHANGED <<corpusVars, request>>
      /\ UNCHANGED <<indexed, mirror, request, lists, call, seen, steps, tokens>>
      /\ UNCHANGED <<context, answer, response, retrieved>>
  BY DEF LookupGraph, Goto, corpusVars, agentVars, resultVars
<1>2. request.mode # "research" /\ routes # <<>> /\ routes \in Seq(Route)
  BY <1>1 DEF IInv, TypeOK, PhaseInv
<1>3. Tail(routes) \in Seq(Route)
  BY <1>2
<1> DEFINE sources == GraphSources(mirror, indexed, 2)
<1>a. facts' = facts \cup sources \/ facts' = facts \cup {}
  BY DEF LookupGraph
<1> HIDE DEF sources
<1>4. PICK found \in SUBSET sources : facts' = facts \cup found
  BY <1>a
<1>5. /\ found \subseteq Id
      /\ \A d \in Docs : Chunk(d) \in found => d \in indexed /\ Evident(d)
      /\ \A f \in Facts : Edge(f) \in found => mirror[f] # {}
  <2>1. mirror \in [Facts -> SUBSET Docs] /\ indexed \in SUBSET Docs
    BY DEF IInv, TypeOK
  <2>2. QED
    BY <2>1, GraphSourcesFacts DEF Evident, sources
<1>6. TypeOK' /\ PhaseInv'
  BY <1>1, <1>2, <1>3, <1>4, <1>5 DEF IInv, TypeOK, PhaseInv, Phase
<1>7. FoundInv'
  BY <1>1, <1>4, <1>5 DEF IInv, FoundInv, Backed, Evident, After
<1>8. ContextInv' /\ ResponseInv'
  BY <1>1, ContextKept, NoResponse DEF IInv
<1>9. QED
  BY <1>6, <1>7, <1>8 DEF IInv

\* What is ranked is filtered by the license of the documents there are by now.
LEMMA PermittedAdmissible ==
  ASSUME IInv, request.mode # "research", NEW ranked, ranked \subseteq Candidates
  PROVE  /\ Permitted(ranked) \subseteq Id /\ Backed(Permitted(ranked))
         /\ \A d \in Docs : Chunk(d) \in Permitted(ranked) => Admissible(d)
<1> DEFINE P == Permitted(ranked)
<1>1. P \subseteq Met(lists) \cup facts
  BY DEF Permitted, Candidates
<1>2. \A x \in Met(lists) : \E d \in indexed : x = Chunk(d) /\ InScope(d, After)
  BY DEF IInv, FoundInv, Eligible
<1>3. Met(lists) \subseteq Id /\ facts \subseteq Id /\ indexed \subseteq Docs
  BY <1>2, Names DEF IInv, TypeOK
<1>4. Backed(facts) /\ \A d \in Docs : Chunk(d) \in facts => Evident(d)
  BY DEF IInv, FoundInv
<1>5. ASSUME NEW d \in Docs, Chunk(d) \in P
      PROVE  d \in indexed /\ (InScope(d, After) \/ Evident(d))
  BY <1>1, <1>2, <1>4, <1>5, Names DEF Backed
<1>6. ASSUME NEW d \in Docs, Chunk(d) \in P
      PROVE  Admissible(d)
  <2>1. d \in indexed /\ Chunk(d) \in ranked
    BY <1>5, <1>6 DEF Permitted
  <2>2. Chunk(d) \in WithMetadata(ranked)
    BY <2>1 DEF WithMetadata, ChunkIds
  <2>3. d \in Internal => request.privileged
    BY <1>6, <2>2 DEF Permitted
  <2>4. After = 0 \/ Published[d] >= After \/ Evident(d)
    BY <1>5, <1>6 DEF InScope
  <2>5. QED
    BY <2>3, <2>4 DEF Admissible
<1>7. \A f \in Facts : Edge(f) \in P => mirror[f] # {}
  BY <1>1, <1>2, <1>4, Names DEF Backed
<1>8. QED
  BY <1>1, <1>3, <1>5, <1>6, <1>7 DEF Backed

\* What is handed to the model is admissible.
LEMMA RankAndFilterInv == ASSUME IInv, RankAndFilter
                          PROVE  IInv'
<1>1. /\ phase = "ranking" /\ phase' = "writing"
      /\ UNCHANGED <<corpusVars, request>>
      /\ UNCHANGED <<indexed, mirror, request, routes, lists, facts, call, seen, steps, tokens>>
      /\ UNCHANGED <<answer, response, retrieved>>
  BY DEF RankAndFilter, Goto, corpusVars, searchVars, agentVars, resultVars
<1>2. PICK ranked \in Reranked(Candidates) : context' = Permitted(ranked)
  BY DEF RankAndFilter
<1>3. ranked \subseteq Candidates
  BY <1>2 DEF Reranked, kSubset
<1>4. request.mode # "research"
  BY <1>1 DEF IInv, PhaseInv
<1>5. /\ context' \subseteq Id /\ Backed(context')
      /\ \A d \in Docs : Chunk(d) \in context' => Admissible(d)
  BY <1>2, <1>3, <1>4, PermittedAdmissible
<1>6. TypeOK' /\ PhaseInv'
  BY <1>1, <1>4, <1>5 DEF IInv, TypeOK, PhaseInv, Phase
<1>7. FoundInv' /\ ResponseInv'
  BY <1>1, FoundKept, NoResponse DEF IInv
<1>8. ContextInv'
  BY <1>1, <1>5 DEF IInv, ContextInv, Backed, Admissible, Evident, After
<1>9. QED
  BY <1>6, <1>7, <1>8 DEF IInv

\* Whoever answers an answer() of what is in S cites ids of S, or what a live model makes up.
LEMMA AnswersAreSentences == ASSUME NEW S \in SUBSET Id
                             PROVE  \A A \in LiveAnswers \cup MockAnswers(S) :
                                      A \subseteq Sentences \cup SUBSET Id
<1>1. \A A \in LiveAnswers : A \subseteq Sentences
  BY DEF LiveAnswers
<1>2. ASSUME NEW A \in MockAnswers(S)
      PROVE  A \subseteq SUBSET Id
  <2>1. CASE S = {}
    BY <1>2, <2>1 DEF MockAnswers
  <2>2. CASE S # {}
    <3>1. PICK T \in kSubset(IF Cardinality(S) < 5 THEN Cardinality(S) ELSE 5, S) :
            A = {{id} : id \in T}
      BY <1>2, <2>2 DEF MockAnswers
    <3>2. T \subseteq Id
      BY <3>1 DEF kSubset
    <3>3. QED
      BY <3>1, <3>2
  <2>3. QED
    BY <2>1, <2>2
<1>3. QED
  BY <1>1, <1>2

\* A response tells of the sources it was verified against, and records them.
LEMMA RespondInv ==
  ASSUME IInv, NEW sentences, Respond(sentences, context, context, context),
         answer' \subseteq Sentences \cup SUBSET Id,
         UNCHANGED <<corpusVars, request, searchVars, agentVars, context>>
  PROVE  IInv'
<1>1. /\ UNCHANGED <<corpusVars, request>>
      /\ UNCHANGED <<indexed, mirror, request, routes, lists, facts, call, seen, steps, tokens>>
      /\ UNCHANGED context
  BY DEF corpusVars, searchVars, agentVars
<1> DEFINE kept == Claims(sentences, context)
<1>2. /\ phase' = "done" /\ retrieved' = context
      /\ response' = [claims |-> kept, sources |-> context \cap UNION kept]
  BY DEF Respond, Goto
<1>3. \A ids \in kept : ids \subseteq context
  BY DEF Claims
<1>4. context \subseteq Id
  BY DEF IInv, TypeOK
<1> HIDE DEF kept
<1>5. kept \in SUBSET SUBSET Id /\ UNION kept \subseteq context
  BY <1>3, <1>4
<1>6. response' \in Response /\ retrieved' \subseteq Id
  BY <1>2, <1>4, <1>5 DEF Response
<1>7. TypeOK' /\ PhaseInv'
  BY <1>1, <1>2, <1>6 DEF IInv, TypeOK, PhaseInv, Phase
<1>8. FoundInv'
  BY <1>1, FoundKept DEF IInv
<1>9. ContextInv'
  BY <1>1, <1>2, Frame DEF IInv, ContextInv
<1>10. ResponseInv'
  BY <1>2, <1>5 DEF ResponseInv
<1>11. QED
  BY <1>7, <1>8, <1>9, <1>10 DEF IInv

\* The answer of answer() is verified against its context.
LEMMA SynthesizeInv == ASSUME IInv, Synthesize
                       PROVE  IInv'
<1>1. /\ answer' \in Answers(context) /\ Respond(answer', context, context, context)
      /\ UNCHANGED <<corpusVars, request, searchVars, agentVars, context>>
  BY DEF Synthesize, ValidIds
<1>2. context \in SUBSET Id
  BY DEF IInv, TypeOK
<1>3. answer' \subseteq Sentences \cup SUBSET Id
  BY <1>1, <1>2, AnswersAreSentences DEF Answers
<1>4. QED
  BY <1>1, <1>3, RespondInv

\* The answer of the agent is verified against what it gathered.
LEMMA ConcludeInv == ASSUME IInv, Conclude
                     PROVE  IInv'
<1>1. /\ Respond(answer, context, context, context) /\ answer' = answer
      /\ UNCHANGED <<corpusVars, request, searchVars, agentVars, context>>
  BY DEF Conclude
<1>2. answer' \subseteq Sentences \cup SUBSET Id
  BY <1>1 DEF IInv, TypeOK
<1>3. QED
  BY <1>1, <1>2, RespondInv

\* A step is counted only while the budget lasts.
LEMMA StepCounted ==
  ASSUME TypeOK, ~Exhausted, NEW cost \in Costs, NEW executed, RecordStep(cost, executed)
  PROVE  steps' \in 0..MaxSteps /\ tokens' \in Nat
<1>1. steps \in Nat /\ steps < MaxSteps /\ MaxSteps \in Nat /\ tokens \in Nat /\ cost \in Nat
  BY BudgetAssumption DEF TypeOK, Exhausted
<1>2. QED
  BY <1>1 DEF RecordStep

\* A proposed call is counted.
LEMMA NextActionInv == ASSUME IInv, NextAction
                       PROVE  IInv'
<1>1. /\ phase = "thinking" /\ ~Exhausted /\ phase' = "acting"
      /\ UNCHANGED <<corpusVars, request>>
      /\ UNCHANGED <<indexed, mirror, request, routes, lists, facts, seen>>
      /\ UNCHANGED <<context, answer, response, retrieved>>
  BY DEF NextAction, Goto, corpusVars, searchVars, resultVars
<1>2. PICK c \in Proposals, cost \in Costs : call' = c /\ RecordStep(cost, Fresh(c))
  BY DEF NextAction
<1>3. c \in Calls
  BY DEF Proposals
<1>4. steps' \in 0..MaxSteps /\ tokens' \in Nat
  BY <1>1, <1>2, StepCounted DEF IInv
<1>5. request.mode = "research"
  BY <1>1 DEF IInv, PhaseInv
<1>6. TypeOK' /\ PhaseInv'
  BY <1>1, <1>2, <1>3, <1>4, <1>5 DEF IInv, TypeOK, PhaseInv, Phase
<1>7. FoundInv' /\ ContextInv' /\ ResponseInv'
  BY <1>1, FoundKept, ContextKept, NoResponse DEF IInv
<1>8. QED
  BY <1>6, <1>7 DEF IInv

\* The phase of a call is that of its tool.
LEMMA DispatchInv == ASSUME IInv, Dispatch
                     PROVE  IInv'
<1>1. /\ phase = "acting" /\ phase' \in {PhaseOf(call), "thinking"}
      /\ seen' \in {seen, seen \cup {call}}
      /\ UNCHANGED <<corpusVars, request>>
      /\ UNCHANGED <<indexed, mirror, request, routes, lists, facts, steps, tokens>>
      /\ UNCHANGED <<context, answer, response, retrieved>>
  BY DEF Dispatch, Goto, corpusVars, searchVars, resultVars
<1>2. request.mode = "research" /\ call \in Calls \cup {NoCall}
  BY <1>1 DEF IInv, TypeOK, PhaseInv
<1>3. ASSUME Fresh(call)
      PROVE  TypeOK' /\ PhaseInv'
  <2>1. /\ seen' = seen \cup {call} /\ phase' = PhaseOf(call) /\ call' = call
        /\ call.tool \in {"search_text", "graph_lookup", "resolve_entity"}
    BY <1>3 DEF Dispatch, Goto, Fresh, Tool
  <2>2. call \in Calls
    BY <1>2, <2>1 DEF NoCall
  <2>3. /\ phase' \in {"lexical", "looking_up", "resolving"}
        /\ phase' = "lexical" => call.tool = "search_text"
    BY <2>1 DEF PhaseOf
  <2>4. QED
    BY <1>1, <1>2, <2>1, <2>2, <2>3 DEF IInv, TypeOK, PhaseInv, Phase
<1>4. ASSUME ~Fresh(call)
      PROVE  TypeOK' /\ PhaseInv'
  <2>1. call' = NoCall /\ phase' = "thinking" /\ seen' = seen
    BY <1>4 DEF Dispatch, Goto
  <2>2. QED
    BY <1>1, <1>2, <2>1 DEF IInv, TypeOK, PhaseInv, Phase
<1>5. TypeOK' /\ PhaseInv' /\ phase' # "done"
  <2>1. PhaseOf(call) # "done" \/ ~Fresh(call)
    BY DEF PhaseOf, Fresh, Tool
  <2>2. phase' # "done"
    BY <1>1, <2>1 DEF Dispatch, Goto
  <2>3. QED
    BY <1>3, <1>4, <2>2
<1>6. FoundInv' /\ ContextInv' /\ ResponseInv'
  BY <1>1, <1>5, FoundKept, ContextKept, NoResponse DEF IInv
<1>7. QED
  BY <1>5, <1>6 DEF IInv

\* A finish is counted, and its answer is made of sentences.
LEMMA FinishInv == ASSUME IInv, Finish
                   PROVE  IInv'
<1>1. /\ phase = "thinking" /\ ~Exhausted /\ phase' = "concluding"
      /\ UNCHANGED <<corpusVars, request>>
      /\ UNCHANGED <<indexed, mirror, request, routes, lists, facts, call, seen>>
      /\ UNCHANGED <<context, response, retrieved>>
  BY DEF Finish, Goto, corpusVars, searchVars
<1>2. PICK final \in Finals, citations \in BOOLEAN, cost \in Costs :
        answer' = (IF citations THEN final ELSE {}) /\ RecordStep(cost, TRUE)
  BY DEF Finish
<1>3. context \in SUBSET Id /\ request.mode = "research"
  BY <1>1 DEF IInv, TypeOK, PhaseInv
<1>4. final \subseteq Sentences \cup SUBSET Id
  <2>1. final \in LiveAnswers \cup MockAnswers(context) \/ final = {}
    BY <1>2 DEF Finals
  <2>2. QED
    BY <1>3, <2>1, AnswersAreSentences
<1>5. answer' \subseteq Sentences \cup SUBSET Id
  BY <1>2, <1>4
<1>6. steps' \in 0..MaxSteps /\ tokens' \in Nat
  BY <1>1, <1>2, StepCounted DEF IInv
<1>7. TypeOK' /\ PhaseInv'
  BY <1>1, <1>3, <1>5, <1>6 DEF IInv, TypeOK, PhaseInv, Phase
<1>8. FoundInv' /\ ContextInv' /\ ResponseInv'
  BY <1>1, FoundKept, ContextKept, NoResponse DEF IInv
<1>9. QED
  BY <1>7, <1>8 DEF IInv

\* What a tool of the agent found joins the context, if the corpus backs it.
LEMMA GatherInv ==
  ASSUME IInv, request.mode = "research", NEW found \in SUBSET Id, Backed(found), Gather(found)
  PROVE  IInv'
<1>1. /\ phase' = "thinking" /\ context' = context \cup found /\ lists' = <<>> /\ call' = NoCall
      /\ UNCHANGED <<corpusVars, request>>
      /\ UNCHANGED <<indexed, mirror, request, routes, facts, seen, steps, tokens>>
      /\ UNCHANGED <<answer, response, retrieved>>
  BY DEF Gather, Goto, corpusVars, resultVars
<1>2. TypeOK' /\ PhaseInv'
  BY <1>1 DEF IInv, TypeOK, PhaseInv, Phase
<1>3. FoundInv' /\ ResponseInv'
  BY <1>1, FoundKept, NoResponse DEF IInv
<1>4. ContextInv'
  BY <1>1 DEF IInv, ContextInv, Backed
<1>5. QED
  BY <1>2, <1>3, <1>4 DEF IInv

\* The best hits are chunks of indexed documents.
LEMMA SearchTextInv == ASSUME IInv, SearchText
                       PROVE  IInv'
<1>1. phase = "fusing" /\ Gather(BestHits)
  BY DEF SearchText
<1>2. request.mode = "research"
  BY <1>1 DEF IInv, PhaseInv
<1>3. BestHits \subseteq Eligible(indexed, After)
  BY BestAreMet DEF IInv, FoundInv, BestHits
<1>4. indexed \in SUBSET Docs
  BY DEF IInv, TypeOK
<1>5. BestHits \subseteq Id
  BY <1>3, <1>4, EligibleType
<1>6. Backed(BestHits)
  BY <1>3, <1>4, Names DEF Backed, Eligible
<1>7. QED
  BY <1>1, <1>2, <1>5, <1>6, GatherInv

\* What a lookup returns has its evidence, and so has any part of it.
LEMMA GraphLookupInv == ASSUME IInv, GraphLookup
                        PROVE  IInv'
<1>1. phase = "looking_up" /\ \E S \in SUBSET GraphSources(mirror, indexed, call.hops) : Gather(S)
  <2> DEFINE sources == GraphSources(mirror, indexed, call.hops)
  <2>1. PICK known \in BOOLEAN :
          Gather(IF call.narrow THEN (IF known THEN sources ELSE {}) \cap Mentioning
                                ELSE IF known THEN sources ELSE {})
    BY DEF GraphLookup
  <2> DEFINE found == IF known THEN sources ELSE {}
             S == IF call.narrow THEN found \cap Mentioning ELSE found
  <2>2. Gather(S)
    BY <2>1
  <2>3. S \subseteq sources
    OBVIOUS
  <2> HIDE DEF S
  <2>4. phase = "looking_up"
    BY DEF GraphLookup
  <2>5. QED
    BY <2>2, <2>3, <2>4
<1>2. PICK S \in SUBSET GraphSources(mirror, indexed, call.hops) : Gather(S)
  BY <1>1
<1>3. request.mode = "research"
  BY <1>1 DEF IInv, PhaseInv
<1>4. mirror \in [Facts -> SUBSET Docs] /\ indexed \in SUBSET Docs
  BY DEF IInv, TypeOK
<1>5. S \in SUBSET Id /\ Backed(S)
  BY <1>4, GraphSourcesFacts DEF Backed
<1>6. QED
  BY <1>2, <1>3, <1>5, GatherInv

\* Entities need no backing.
LEMMA ResolveEntityInv == ASSUME IInv, ResolveEntity
                          PROVE  IInv'
<1>1. PICK found \in {{}} \cup {{Ent(e)} : e \in Entities} : Gather(found)
  BY DEF ResolveEntity
<1>2. request.mode = "research"
  BY DEF ResolveEntity, IInv, PhaseInv
<1>3. found \in SUBSET Id /\ Backed(found)
  BY Names DEF Backed
<1>4. QED
  BY <1>1, <1>2, <1>3, GatherInv

\* A request that fails preserves IInv.
LEMMA AbortInv == ASSUME IInv, Abort
                  PROVE  IInv'
<1>1. /\ phase' = "failed"
      /\ UNCHANGED <<corpusVars, request>>
      /\ UNCHANGED <<indexed, mirror, request, routes, lists, facts, call, seen, steps, tokens>>
      /\ UNCHANGED <<context, answer, response, retrieved>>
  BY DEF Abort, Goto, corpusVars, searchVars, agentVars, resultVars
<1>2. TypeOK' /\ PhaseInv'
  BY <1>1 DEF IInv, TypeOK, PhaseInv, Phase
<1>3. FoundInv' /\ ContextInv' /\ ResponseInv'
  BY <1>1, FoundKept, ContextKept, NoResponse DEF IInv
<1>4. QED
  BY <1>2, <1>3 DEF IInv

-----------------------------------------------------------------------------
(* The theorems. *)

\* IInv holds at first.
LEMMA InitIInv == ASSUME Init
                  PROVE  IInv
<1>1. TypeOK
  <2>1. lists \in Seq(Seq(Id)) /\ routes \in Seq(Route)
    BY DEF Init
  <2>2. mirror \in [Facts -> SUBSET Docs] /\ request \in Requests /\ indexed \subseteq Docs
    BY DEF Init
  <2>3. steps \in 0..MaxSteps /\ tokens \in Nat
    BY BudgetAssumption DEF Init
  <2>4. response \in Response
    BY DEF Init, Response
  <2>5. QED
    BY <2>1, <2>2, <2>3, <2>4 DEF Init, TypeOK, Phase
<1>2. FoundInv
  BY MetNothing DEF Init, FoundInv, Backed
<1>3. ContextInv /\ PhaseInv /\ ResponseInv
  BY DEF Init, ContextInv, Backed, PhaseInv, ResponseInv
<1>4. QED
  BY <1>1, <1>2, <1>3 DEF IInv

\* Every step preserves IInv.
LEMMA NextIInv == ASSUME IInv, [Next]_vars
                  PROVE  IInv'
<1>1. ASSUME NEW d \in Docs, IndexDocument(d)
      PROVE  IInv'
  <2>1. /\ indexed' = indexed \cup {d} /\ mirror' = mirror
        /\ UNCHANGED <<request, phase, searchVars, agentVars, context, resultVars>>
    BY <1>1 DEF IndexDocument
  <2>2. indexed' \subseteq Docs /\ mirror' \in [Facts -> SUBSET Docs] /\ indexed \subseteq indexed'
    BY <2>1 DEF IInv, TypeOK
  <2>3. \A f \in Facts : mirror[f] \subseteq mirror'[f]
    BY <2>1
  <2>4. QED
    BY <2>1, <2>2, <2>3, IngestInv
<1>2. ASSUME NEW f \in Facts, NEW d \in Docs, MirrorEdge(f, d)
      PROVE  IInv'
  <2>1. /\ indexed' = indexed /\ mirror' = [mirror EXCEPT ![f] = @ \cup {d}]
        /\ UNCHANGED <<request, phase, searchVars, agentVars, context, resultVars>>
    BY <1>2 DEF MirrorEdge
  <2>2. indexed' \subseteq Docs /\ mirror' \in [Facts -> SUBSET Docs] /\ indexed \subseteq indexed'
    BY <2>1 DEF IInv, TypeOK
  <2>3. \A g \in Facts : mirror[g] \subseteq mirror'[g]
    BY <2>1 DEF IInv, TypeOK
  <2>4. QED
    BY <2>1, <2>2, <2>3, IngestInv
<1>3. CASE UNCHANGED vars
  <2>1. /\ indexed' = indexed /\ mirror' = mirror
        /\ UNCHANGED <<request, phase, searchVars, agentVars, context, resultVars>>
    BY <1>3 DEF vars, corpusVars
  <2>2. indexed' \subseteq Docs /\ mirror' \in [Facts -> SUBSET Docs] /\ indexed \subseteq indexed'
    BY <2>1 DEF IInv, TypeOK
  <2>3. \A f \in Facts : mirror[f] \subseteq mirror'[f]
    BY <2>1
  <2>4. QED
    BY <2>1, <2>2, <2>3, IngestInv
<1>4. CASE Step
  BY <1>4, OpenSessionInv, SearchLexicalInv, SearchVectorInv, DecomposeInv, NextSubquestionInv,
     LookupGraphInv, RankAndFilterInv, SynthesizeInv, NextActionInv, DispatchInv, FinishInv,
     SearchTextInv, GraphLookupInv, ResolveEntityInv, ConcludeInv DEF Step
<1>5. QED
  BY <1>1, <1>2, <1>3, <1>4, AbortInv DEF Next

\* IInv is an invariant.
LEMMA IInvHolds == Spec => []IInv
<1>1. Init => IInv
  BY InitIInv
<1>2. IInv /\ [Next]_vars => IInv'
  BY NextIInv
<1>3. QED
  BY <1>1, <1>2, PTL DEF Spec

\* Every variable keeps to its type; the agent takes no more steps than it may.
THEOREM TypeCorrect == Spec => []TypeOK
<1>1. IInv => TypeOK
  BY DEF IInv
<1>2. QED
  BY <1>1, IInvHolds, PTL

\* With the Postgres lexical backend, what answer() hands to the model passed the license rule, and the filters unless a fact of
\* the graph rests on it.
THEOREM EvidenceIsFit == Spec => []EvidenceIsAdmissible
<1>1. IInv => EvidenceIsAdmissible
  BY DEF IInv, ContextInv, Admissible, Evident, EvidenceIsAdmissible
<1>2. QED
  BY <1>1, IInvHolds, PTL

\* With that backend, a response cites what it lists, the closing event names all of it, and all of it exists.
THEOREM ResponseIsRecorded == Spec => []RecordsAgree
<1>1. IInv => RecordsAgree
  BY DEF IInv, ContextInv, ResponseInv, Backed, RecordsAgree
<1>2. QED
  BY <1>1, IInvHolds, PTL

\* No hit that search_text returns pushed out one that every search ranks before it.
THEOREM BestSurvive == Spec => []BestHitsSurvive
<1>1. IInv => BestHitsSurvive
  <2>1. SUFFICES ASSUME IInv, phase = "fusing", NEW a \in Id, NEW b \in BestHits,
                        Dominates(a, b, lists)
                 PROVE  a \in BestHits
    BY DEF BestHitsSurvive
  <2>2. lists \in Seq(Seq(Id)) /\ Met(lists) \subseteq Id
    <3>1. indexed \in SUBSET Docs /\ lists \in Seq(Seq(Id))
      BY <2>1 DEF IInv, TypeOK
    <3>2. Met(lists) \subseteq Eligible(indexed, After)
      BY <2>1 DEF IInv, FoundInv
    <3>3. QED
      BY <3>1, <3>2, EligibleType
  <2>3. call.k \in Int
    BY <2>1, CallAssumption DEF IInv, PhaseInv
  <2>4. b \in Best(lists, call.k) /\ b \in Met(lists) /\ b \in Id
    BY <2>1, <2>2, BestAreMet DEF BestHits
  <2>5. a \in Met(lists) /\ Ahead(a, b, lists)
    BY <2>1, <2>2, <2>4, DominatesIsAhead
  <2>6. QED
    BY <2>2, <2>3, <2>4, <2>5, AheadOfBest DEF BestHits
<1>2. QED
  BY <1>1, IInvHolds, PTL
=============================================================================
