---------------------------- MODULE CrawlerProofs -----------------------------
(***************************************************************************)
(* The crawl stays in its bounds and misses nothing, for any site, any     *)
(* job and any answers of the sites.  The second is the correctness of     *)
(* breadth-first search on a graph that is being discovered: the queue     *)
(* holds one level and then the next, so that a url is first popped at     *)
(* its distance from the seeds.                                            *)
(***************************************************************************)
EXTENDS Crawler, Induction, FiniteSetTheorems, SequenceTheorems

-----------------------------------------------------------------------------
(* The invariant. *)

\* The phases in which a url that was popped is being dealt with.
Busy == {"robots", "waiting", "asking", "ingesting", "following"}

\* What is yielded is kept, and was allowed by what was known of its site.
Heeded(u) == robots[Domain[u]] # "unknown" /\ (robots[Domain[u]] = "rules" => u \notin Disallowed)
PageInv ==
  /\ IsFiniteSet(pageCache) /\ pageCache \subseteq seen /\ Emitted <= job.pages
  /\ \A u \in pageCache : Served[u] \in Html /\ Heeded(u)
  /\ phase \in Busy => current \in Urls \X Nat /\ Url \in seen
  /\ phase \in {"robots", "waiting", "asking"} => Url \notin pageCache /\ Emitted < job.pages
  /\ phase \in {"waiting", "asking"} => Heeded(Url)
  /\ phase \in {"ingesting", "following"} => Url \in pageCache
  /\ phase = "done" /\ Emitted < job.pages => queue = <<>>

\* The crawler's clock of a site is behind the one since the site was last asked.
PaceInv ==
  /\ \A d \in Domains : idle[d] <= quiet[d]
  /\ phase = "asking" /\ attempt = 1 => idle[Here] = 0 /\ quiet[Here] >= Delay

\* The counter of ingested pages counts contents.
StoreInv ==
  /\ IsFiniteSet(stored) /\ stats["ingested"] = Cardinality(stored)
  /\ \A u \in stored : \E v \in pageCache : Served[v] = u
  /\ phase = "done" => rowCount = stats["ingested"]

\* The pages whose links are in the queue.
Followed == pageCache \ (IF phase \in {"ingesting", "following"} THEN {Url} ELSE {})

\* The queue holds one level of the search and then the next.
QueueInv ==
  /\ \A i \in DOMAIN queue : /\ queue[i][1] \in Within(job.seeds, queue[i][2], Followed)
                             /\ queue[i][2] <= job.depth
                             /\ Depth <= queue[i][2] /\ queue[i][2] <= Depth + 1
  /\ \A i, j \in DOMAIN queue : i < j => queue[i][2] <= queue[j][2]

\* What was taken is in reach; what is being dealt with is in no shorter reach.
TakenInv ==
  /\ Depth \in Nat /\ Depth <= job.depth
  /\ \A u \in seen : Domain[u] \in Allowed /\ u \in Within(job.seeds, Depth, Followed)
  /\ phase \in Busy => \A n \in Nat : n < Depth => Url \notin Within(job.seeds, n, Followed)

\* What is in reach was taken, or waits no deeper than it is.
Covered(u, n) == u \in seen \/ \E i \in DOMAIN queue : queue[i][1] = u /\ queue[i][2] <= n
CoverInv ==
  \A n \in Nat : n <= job.depth =>
    \A u \in Within(job.seeds, n, Followed) : Domain[u] \in Allowed => Covered(u, n)

\* Of a run that failed only the bounds are known.
BoundInv == \A u \in seen : Domain[u] \in Allowed /\ u \in Within(job.seeds, job.depth, pageCache)

SearchInv == IF phase = "failed" THEN BoundInv ELSE QueueInv /\ TakenInv /\ CoverInv

IInv == TypeOK /\ PageInv /\ PaceInv /\ StoreInv /\ SearchInv

-----------------------------------------------------------------------------
(* What is within reach of the seeds. *)

\* Links lead to urls.
LEMMA LinksType == ASSUME NEW u \in Urls
                   PROVE  ToSet(Links(u)) \subseteq Urls /\ Links(u) \in Seq(Urls)
<1>1. <<Served[u], u>> \in Urls \X Urls
  BY SiteAssumption
<1>2. Links(u) \in Seq(Urls)
  BY <1>1, SiteAssumption DEF Links
<1>3. QED
  BY <1>2 DEF ToSet

\* One link further from the urls in v, over these pages.
Beyond(v, pages) == v \cup UNION {ToSet(Links(u)) : u \in v \cap pages}

\* The recursion that defines Within.
LEMMA WithinIs ==
  ASSUME NEW seeds \in Seq(Urls), NEW pages
  PROVE  /\ Within(seeds, 0, pages) = ToSet(seeds)
         /\ \A n \in Nat :
              /\ Within(seeds, n, pages) \subseteq Urls
              /\ Within(seeds, n + 1, pages) = Beyond(Within(seeds, n, pages), pages)
<1> DEFINE V == SUBSET Urls
           step == [k \in Nat |-> [v \in V |-> Beyond(v, pages)]]
           Def(g) == g = [k \in Nat |-> IF k = 0 THEN ToSet(seeds)
                            ELSE g[k - 1] \cup UNION {ToSet(Links(u)) : u \in g[k - 1] \cap pages}]
<1>1. \A v \in V : Beyond(v, pages) \in V
  BY LinksType DEF Beyond
<1>2. ToSet(seeds) \in V
  BY DEF ToSet
<1>3. \A k \in Nat, v \in V : step[k][v] = Beyond(v, pages)
  OBVIOUS
<1> HIDE DEF step
<1>4. \A n \in Nat : Steps(step, n, V)
  BY <1>1, <1>3 DEF Steps
<1>5. PICK g : FollowsAlways(g, step, ToSet(seeds), V)
  BY <1>2, <1>4, RecursionAlways
<1>6. /\ g \in [Nat -> V]
      /\ \A k \in Nat : g[k] = IF k = 0 THEN ToSet(seeds) ELSE Beyond(g[k - 1], pages)
  <2>1. \A k \in Nat : k # 0 => k - 1 \in Nat /\ (k - 1) + 1 = k
    OBVIOUS
  <2>2. g \in [Nat -> V] /\ g[0] = ToSet(seeds) /\ \A k \in Nat : g[k + 1] = step[k + 1][g[k]]
    BY <1>5 DEF FollowsAlways
  <2>3. \A k \in Nat : k # 0 => g[k] = Beyond(g[k - 1], pages)
    BY <1>3, <2>1, <2>2
  <2> HIDE DEF V
  <2>4. QED
    BY <2>2, <2>3
<1>7. Def(g)
  BY <1>6 DEF Beyond
<1> DEFINE reach == CHOOSE h : Def(h)
<1>8. Def(reach)
  BY <1>7
<1>9. \A n : Within(seeds, n, pages) = reach[n]
  BY DEF Within
<1> HIDE DEF reach
<1>10. reach[0] = ToSet(seeds) /\ \A n \in Nat : reach[n + 1] = Beyond(reach[n], pages)
  <2>1. \A k \in Nat : reach[k] = IF k = 0 THEN ToSet(seeds) ELSE Beyond(reach[k - 1], pages)
    BY <1>8 DEF Beyond
  <2>2. \A n \in Nat : n + 1 \in Nat /\ n + 1 # 0 /\ (n + 1) - 1 = n
    OBVIOUS
  <2>3. QED
    BY <2>1, <2>2
<1> HIDE DEF Def
<1> DEFINE S == {n \in Nat : reach[n] \in V}
<1>11. S = Nat
  <2>1. 0 \in S /\ \A n \in S : n + 1 \in S
    <3>1. \A n \in Nat : reach[n] \in V => reach[n + 1] \in V
      BY <1>1, <1>10
    <3> HIDE DEF V
    <3>2. QED
      BY <1>2, <1>10, <3>1
  <2>2. S \in SUBSET Nat
    OBVIOUS
  <2> HIDE DEF S
  <2>3. QED
    BY <2>1, <2>2, FirstFailure
<1>12. \A n \in Nat : reach[n] \subseteq Urls
  BY <1>11
<1>13. QED
  BY <1>9, <1>10, <1>12

\* One more link, for one number of links.
LEMMA WithinNext ==
  ASSUME NEW seeds \in Seq(Urls), NEW pages, NEW n \in Nat
  PROVE  /\ Within(seeds, n, pages) \subseteq Urls
         /\ Within(seeds, n + 1, pages) = Beyond(Within(seeds, n, pages), pages)
  BY WithinIs

\* A step further is no less.
LEMMA WithinDeeper ==
  ASSUME NEW seeds \in Seq(Urls), NEW pages, NEW m \in Nat, NEW n \in Nat, m <= n
  PROVE  Within(seeds, m, pages) \subseteq Within(seeds, n, pages)
<1> DEFINE S == {k \in Nat : Within(seeds, m, pages) \subseteq Within(seeds, m + k, pages)}
<1>1. 0 \in S
  BY m + 0 = m
<1>2. ASSUME NEW k \in S
      PROVE  k + 1 \in S
  <2>1. k \in Nat /\ m + k \in Nat /\ (m + k) + 1 = m + (k + 1)
    BY <1>2
  <2>2. Within(seeds, m + k, pages) \subseteq Within(seeds, (m + k) + 1, pages)
    BY <2>1, WithinNext DEF Beyond
  <2>3. QED
    BY <1>2, <2>1, <2>2
<1>3. S \in SUBSET Nat
  OBVIOUS
<1>4. S = Nat
  <2> HIDE DEF S
  <2>1. QED
    BY <1>1, <1>2, <1>3, FirstFailure
<1>5. n - m \in Nat /\ m + (n - m) = n
  OBVIOUS
<1>6. n - m \in S
  BY <1>4, <1>5
<1>7. QED
  BY <1>5, <1>6

\* More pages reach no less.
LEMMA WithinMore ==
  ASSUME NEW seeds \in Seq(Urls), NEW P, NEW Q, P \subseteq Q, NEW n \in Nat
  PROVE  Within(seeds, n, P) \subseteq Within(seeds, n, Q)
<1> DEFINE S == {k \in Nat : Within(seeds, k, P) \subseteq Within(seeds, k, Q)}
<1>1. 0 \in S
  BY WithinIs
<1>2. ASSUME NEW k \in S
      PROVE  k + 1 \in S
  <2>1. k \in Nat /\ Within(seeds, k, P) \subseteq Within(seeds, k, Q)
    BY <1>2
  <2>2. Within(seeds, k + 1, P) \subseteq Within(seeds, k + 1, Q)
    <3>1. Beyond(Within(seeds, k, P), P) \subseteq Beyond(Within(seeds, k, Q), Q)
      BY <2>1 DEF Beyond
    <3>2. QED
      BY <2>1, <3>1, WithinNext
  <2>3. QED
    BY <2>1, <2>2
<1>3. S \in SUBSET Nat
  OBVIOUS
<1>4. S = Nat
  <2> HIDE DEF S
  <2>1. QED
    BY <1>1, <1>2, <1>3, FirstFailure
<1>5. QED
  BY <1>4

\* v is at least d links away.
NoNearer(v, d, seeds, P) == \A n \in Nat : n < d => v \notin Within(seeds, n, P)

\* A page changes nothing up to its own distance.
LEMMA WithinUpTo ==
  ASSUME NEW seeds \in Seq(Urls), NEW P, NEW v, NEW d \in Nat, NoNearer(v, d, seeds, P)
  PROVE  \A n \in Nat : n <= d => Within(seeds, n, P \cup {v}) = Within(seeds, n, P)
<1> DEFINE Q == P \cup {v}
           S == {n \in Nat : n <= d => Within(seeds, n, Q) = Within(seeds, n, P)}
<1>1. 0 \in S
  BY WithinIs
<1>2. ASSUME NEW n \in S
      PROVE  n + 1 \in S
  <2>1. CASE n + 1 <= d
    <3>1. n \in Nat /\ n < d /\ n <= d
      BY <1>2, <2>1
    <3>2. Within(seeds, n, Q) = Within(seeds, n, P) /\ v \notin Within(seeds, n, P)
      BY <1>2, <3>1 DEF NoNearer
    <3>3. Within(seeds, n, Q) \cap Q = Within(seeds, n, P) \cap P
      BY <3>2
    <3>4. Within(seeds, n + 1, Q) = Within(seeds, n + 1, P)
      <4>1. Beyond(Within(seeds, n, Q), Q) = Beyond(Within(seeds, n, P), P)
        BY <3>2, <3>3 DEF Beyond
      <4>2. QED
        BY <3>1, <4>1, WithinNext
    <3>5. QED
      BY <3>1, <3>4
  <2>2. CASE ~(n + 1 <= d)
    BY <1>2, <2>2
  <2>3. QED
    BY <2>1, <2>2
<1>3. S \in SUBSET Nat
  OBVIOUS
<1>4. S = Nat
  <2> HIDE DEF S
  <2>1. QED
    BY <1>1, <1>2, <1>3, FirstFailure
<1>5. QED
  BY <1>4

-----------------------------------------------------------------------------
(* Clocks and the queue. *)

\* The smaller of two numbers.
LEMMA MinOfTwo == ASSUME NEW a \in Int, NEW b \in Int
                  PROVE  Min({a, b}) = IF a <= b THEN a ELSE b
<1> DEFINE m == IF a <= b THEN a ELSE b
<1>1. m \in {a, b} /\ \A y \in {a, b} : m <= y
  OBVIOUS
<1>2. \A x \in {a, b} : (\A y \in {a, b} : x <= y) => x = m
  OBVIOUS
<1> HIDE DEF m
<1>3. Min({a, b}) = m
  BY <1>1, <1>2 DEF Min
<1>4. QED
  BY <1>3 DEF m

\* Clocks stop at the delay.
LEMMA LaterIs ==
  ASSUME NEW clock \in [Domains -> 0..Delay], NEW time \in Nat
  PROVE  /\ Later(clock, time) \in [Domains -> 0..Delay]
         /\ \A d \in Domains :
              Later(clock, time)[d] = IF Delay <= clock[d] + time THEN Delay ELSE clock[d] + time
<1>1. \A d \in Domains : clock[d] \in 0..Delay /\ Delay \in Nat
  BY LimitAssumption
<1>2. \A d \in Domains : Min({Delay, clock[d] + time}) =
                           IF Delay <= clock[d] + time THEN Delay ELSE clock[d] + time
  BY <1>1, MinOfTwo
<1>3. QED
  BY <1>1, <1>2 DEF Later

\* The clock of one is not ahead of the other's for ever.
LEMMA LaterOrder ==
  ASSUME NEW c \in [Domains -> 0..Delay], NEW e \in [Domains -> 0..Delay], NEW time \in Nat,
         \A d \in Domains : c[d] <= e[d]
  PROVE  \A d \in Domains : Later(c, time)[d] <= Later(e, time)[d]
<1>1. TAKE d \in Domains
<1>2. c[d] \in 0..Delay /\ e[d] \in 0..Delay /\ c[d] <= e[d] /\ Delay \in Nat
  BY LimitAssumption
<1>3. /\ Later(c, time)[d] = IF Delay <= c[d] + time THEN Delay ELSE c[d] + time
      /\ Later(e, time)[d] = IF Delay <= e[d] + time THEN Delay ELSE e[d] + time
  BY LaterIs
<1>4. QED
  BY <1>2, <1>3

\* Taking the oldest entry leaves the others in their order.
LEMMA PoppedIs ==
  ASSUME NEW S, NEW q \in Seq(S), q # <<>>
  PROVE  /\ Len(q) \in Nat \ {0} /\ q[1] \in S
         /\ RemoveAt(q, 1) \in Seq(S) /\ Len(RemoveAt(q, 1)) = Len(q) - 1
         /\ \A i \in 1..(Len(q) - 1) : RemoveAt(q, 1)[i] = q[i + 1]
<1>1. Len(q) \in Nat \ {0} /\ q[1] \in S
  OBVIOUS
<1>2. /\ SubSeq(q, 1, 0) = <<>> /\ SubSeq(q, 2, Len(q)) \in Seq(S)
      /\ Len(SubSeq(q, 2, Len(q))) = Len(q) - 1
      /\ \A i \in 1..(Len(q) - 1) : SubSeq(q, 2, Len(q))[i] = q[i + 1]
  <2>1. SubSeq(q, 1, 0) = <<>>
    OBVIOUS
  <2>2. \A i \in 2..Len(q) : q[i] \in S
    BY <1>1
  <2>3. /\ SubSeq(q, 2, Len(q)) \in Seq(S)
        /\ Len(SubSeq(q, 2, Len(q))) = IF 2 <= Len(q) THEN Len(q) - 2 + 1 ELSE 0
        /\ \A i \in 1..(Len(q) - 2 + 1) : SubSeq(q, 2, Len(q))[i] = q[2 + i - 1]
    BY <1>1, <2>2, SubSeqProperties
  <2>4. Len(q) - 2 + 1 = Len(q) - 1 /\ \A i \in 1..(Len(q) - 1) : 2 + i - 1 = i + 1
    BY <1>1
  <2>5. (IF 2 <= Len(q) THEN Len(q) - 2 + 1 ELSE 0) = Len(q) - 1
    <3>1. \A m \in Nat \ {0} : (IF 2 <= m THEN m - 2 + 1 ELSE 0) = m - 1
      OBVIOUS
    <3>2. QED
      BY <1>1, <3>1
  <2>6. QED
    BY <2>1, <2>3, <2>4, <2>5
<1>3. RemoveAt(q, 1) = SubSeq(q, 2, Len(q))
  <2>1. RemoveAt(q, 1) = SubSeq(q, 1, 1 - 1) \o SubSeq(q, 1 + 1, Len(q))
    BY DEF RemoveAt
  <2>2. 1 - 1 = 0 /\ 1 + 1 = 2
    OBVIOUS
  <2>3. \A s \in Seq(S) : <<>> \o s = s
    OBVIOUS
  <2>4. QED
    BY <1>2, <2>1, <2>2, <2>3
<1>4. QED
  BY <1>1, <1>2, <1>3

\* What appending does to a sequence, as a step of the queue uses it.
LEMMA AppendShape ==
  ASSUME NEW S, NEW s \in Seq(S), NEW e \in S
  PROVE  /\ Append(s, e) \in Seq(S) /\ Len(Append(s, e)) = Len(s) + 1
         /\ DOMAIN Append(s, e) = 1..(Len(s) + 1) /\ DOMAIN s = 1..Len(s)
         /\ Append(s, e)[Len(s) + 1] = e /\ \A i \in 1..Len(s) : Append(s, e)[i] = s[i]
OBVIOUS

\* more is the queue with entries for some of the urls in new at the next depth.
Lengthened(more, new) ==
  /\ more \in Seq(Urls \X Nat) /\ Len(queue) <= Len(more)
  /\ \A i \in DOMAIN queue : more[i] = queue[i]
  /\ \A i \in DOMAIN more : i > Len(queue) => more[i][1] \in new /\ more[i][2] = Depth + 1
  /\ \A u \in new : u \in seen \/ \E i \in DOMAIN more : more[i] = <<u, Depth + 1>>

\* The loop over the links appends those that were not taken.
LEMMA LongerIs ==
  ASSUME queue \in Seq(Urls \X Nat), Depth \in Nat, NEW links \in Seq(Urls)
  PROVE  Lengthened(Longer(links), ToSet(links))
<1> DEFINE V == Seq(Urls \X Nat)
           N == Len(links)
           With(q, n) == IF links[n] \in seen THEN q ELSE Append(q, <<links[n], Depth + 1>>)
           step == [n \in 1..N |-> [q \in V |-> With(q, n)]]
           Def(g) == g = [n \in 0..N |->
                            CASE n = 0 -> queue
                              [] n > 0 /\ links[n] \in seen -> g[n - 1]
                              [] OTHER -> Append(g[n - 1], <<links[n], Depth + 1>>)]
<1>1. N \in Nat /\ \A n \in 1..N : links[n] \in Urls /\ links[n] \in ToSet(links)
  BY DEF ToSet
<1>2. \A n \in 1..N, q \in V : With(q, n) \in V
  <2>1. TAKE n \in 1..N, q \in V
  <2>2. <<links[n], Depth + 1>> \in Urls \X Nat
    BY <1>1
  <2>3. QED
    BY <2>2
<1> HIDE DEF With, N
<1>3. \A n \in 1..N, q \in V : step[n][q] = With(q, n)
  OBVIOUS
<1> HIDE DEF step, V
<1>4. Steps(step, N, V)
  BY <1>2, <1>3 DEF Steps
<1>5. PICK g : Follows(g, step, queue, N, V)
  BY <1>1, <1>4, Recursion DEF V
<1>6. \A n \in 0..N : g[n] = IF n = 0 THEN queue ELSE With(g[n - 1], n)
  <2>1. \A n \in 0..N : n # 0 => n \in 1..N /\ n - 1 \in 0..N
    BY <1>1
  <2>2. QED
    BY <1>3, <1>5, <2>1 DEF Follows
<1>7. Def(g)
  <2>1. \A n \in 0..N : (CASE n = 0 -> queue
                           [] n > 0 /\ links[n] \in seen -> g[n - 1]
                           [] OTHER -> Append(g[n - 1], <<links[n], Depth + 1>>))
                        = IF n = 0 THEN queue ELSE With(g[n - 1], n)
    BY <1>1 DEF With
  <2>2. g = [n \in 0..N |-> g[n]]
    BY <1>5 DEF Follows
  <2>3. QED
    BY <1>6, <2>1, <2>2
<1> DEFINE after == CHOOSE h : Def(h)
<1>8. Def(after)
  BY <1>7
<1>9. Longer(links) = after[N]
  BY DEF Longer, N
<1> HIDE DEF after
<1>10. after[0] = queue /\ \A n \in 1..N : after[n] = With(after[n - 1], n)
  <2>1. 0 \in 0..N /\ \A n \in 1..N : n \in 0..N /\ n # 0 /\ n > 0
    BY <1>1
  <2>2. \A n \in 0..N : after[n] =
          CASE n = 0 -> queue
            [] n > 0 /\ links[n] \in seen -> after[n - 1]
            [] OTHER -> Append(after[n - 1], <<links[n], Depth + 1>>)
    BY <1>8
  <2>3. after[0] = queue
    <3>1. ~(0 > 0)
      OBVIOUS
    <3>2. after[0] = CASE 0 = 0 -> queue
                       [] 0 > 0 /\ links[0] \in seen -> after[0 - 1]
                       [] OTHER -> Append(after[0 - 1], <<links[0], Depth + 1>>)
      BY <2>1, <2>2
    <3>3. QED
      BY <3>1, <3>2
  <2>4. ASSUME NEW n \in 1..N
        PROVE  after[n] = With(after[n - 1], n)
    <3>1. n \in 0..N /\ n # 0 /\ n > 0
      BY <2>1
    <3>2. CASE links[n] \in seen
      BY <2>2, <3>1, <3>2 DEF With
    <3>3. CASE links[n] \notin seen
      BY <2>2, <3>1, <3>3 DEF With
    <3>4. QED
      BY <3>2, <3>3
  <2>5. QED
    BY <2>3, <2>4
<1> HIDE DEF Def
<1> DEFINE Upto(n) == {links[i] : i \in 1..n}
           S == {n \in Nat : n \in 0..N => Lengthened(after[n], Upto(n))}
<1>11. 0 \in S
  <2>1. Upto(0) = {}
    OBVIOUS
  <2>2. Lengthened(queue, {})
    BY DEF Lengthened
  <2>3. QED
    BY <1>10, <2>1, <2>2
<1>12. ASSUME NEW n \in S
       PROVE  n + 1 \in S
  <2>1. CASE n + 1 \in 0..N
    <3>1. n \in Nat /\ n \in 0..N /\ n + 1 \in 1..N /\ (n + 1) - 1 = n
      BY <1>1, <1>12, <2>1
    <3>2. Lengthened(after[n], Upto(n)) /\ after[n + 1] = With(after[n], n + 1)
      BY <1>10, <1>12, <3>1
    <3>3. Upto(n + 1) = Upto(n) \cup {links[n + 1]}
      <4>1. \A i : i \in 1..(n + 1) <=> i \in 1..n \/ i = n + 1
        BY <3>1
      <4>2. QED
        BY <4>1
    <3>4. <<links[n + 1], Depth + 1>> \in Urls \X Nat
      BY <1>1, <3>1
    <3> HIDE DEF Upto
    <3>5. Lengthened(after[n + 1], Upto(n + 1))
      <4> DEFINE q == after[n]
                 x == <<links[n + 1], Depth + 1>>
                 m == Len(q)
      <4>1. CASE links[n + 1] \in seen
        BY <3>2, <3>3, <4>1 DEF Lengthened, With
      <4>2. CASE links[n + 1] \notin seen
        <5>1. after[n + 1] = Append(q, x) /\ q \in Seq(Urls \X Nat) /\ m \in Nat
          <6>1. after[n + 1] = Append(q, x)
            BY <3>2, <4>2 DEF With
          <6>2. q \in Seq(Urls \X Nat)
            BY <3>2 DEF Lengthened
          <6>3. QED
            BY <6>1, <6>2
        <5>2. /\ Append(q, x) \in Seq(Urls \X Nat) /\ Len(Append(q, x)) = m + 1
              /\ DOMAIN Append(q, x) = 1..(m + 1) /\ DOMAIN q = 1..m
              /\ Append(q, x)[m + 1] = x /\ \A i \in 1..m : Append(q, x)[i] = q[i]
          <6>1. x \in Urls \X Nat /\ q \in Seq(Urls \X Nat)
            BY <3>4, <5>1
          <6> HIDE DEF q, x
          <6>2. QED
            BY <6>1, AppendShape DEF m
        <5>3. Len(queue) \in Nat /\ DOMAIN queue = 1..Len(queue) /\ Len(queue) <= m
          BY <3>2 DEF Lengthened
        <5>4. x[1] = links[n + 1] /\ x[2] = Depth + 1
          OBVIOUS
        <5> DEFINE more == Append(q, x)
        <5> HIDE DEF more, m, x, q
        <5>5. /\ more \in Seq(Urls \X Nat) /\ Len(more) = m + 1 /\ DOMAIN more = 1..(m + 1)
              /\ DOMAIN q = 1..m /\ more[m + 1] = x /\ \A i \in 1..m : more[i] = q[i]
          BY <5>2 DEF more
        <5>6. /\ \A i \in DOMAIN queue : q[i] = queue[i]
              /\ \A i \in DOMAIN q : i > Len(queue) => q[i][1] \in Upto(n) /\ q[i][2] = Depth + 1
              /\ \A u \in Upto(n) : u \in seen \/ \E i \in DOMAIN q : q[i] = <<u, Depth + 1>>
          BY <3>2 DEF Lengthened, q
        <5>7. \A i \in 1..(m + 1) : i = m + 1 \/ i \in 1..m
          BY <5>1
        <5>8. 1..m \subseteq 1..(m + 1) /\ m + 1 \in 1..(m + 1) /\ 1..Len(queue) \subseteq 1..m
          BY <5>1, <5>3
        <5>9. \A i \in DOMAIN queue : more[i] = queue[i]
          BY <5>3, <5>5, <5>6, <5>8
        <5>10. \A i \in DOMAIN more : i > Len(queue) =>
                 more[i][1] \in Upto(n + 1) /\ more[i][2] = Depth + 1
          BY <3>3, <5>4, <5>5, <5>6, <5>7
        <5>11. \A u \in Upto(n + 1) :
                 u \in seen \/ \E i \in DOMAIN more : more[i] = <<u, Depth + 1>>
          BY <3>3, <5>5, <5>6, <5>8 DEF x
        <5>12. Len(queue) <= Len(more)
          BY <5>1, <5>3, <5>5
        <5>13. Lengthened(more, Upto(n + 1))
          BY <5>5, <5>9, <5>10, <5>11, <5>12 DEF Lengthened
        <5>14. QED
          BY <5>1, <5>13 DEF more
      <4>3. QED
        BY <4>1, <4>2
    <3>6. QED
      BY <1>12, <3>5
  <2>2. CASE n + 1 \notin 0..N
    BY <1>12, <2>2
  <2>3. QED
    BY <2>1, <2>2
<1>13. S \in SUBSET Nat
  OBVIOUS
<1>14. S = Nat
  <2> HIDE DEF S
  <2>1. QED
    BY <1>11, <1>12, <1>13, FirstFailure
<1> HIDE DEF S
<1>15. N \in S /\ N \in 0..N
  BY <1>1, <1>14
<1>16. Upto(N) = ToSet(links)
  BY DEF ToSet, N
<1>17. QED
  BY <1>9, <1>15, <1>16 DEF S

-----------------------------------------------------------------------------
(* What the steps have in common. *)

\* The run's parameters are what they are said to be.
LEMMA JobType == ASSUME TypeOK
                 PROVE  job.seeds \in Seq(Urls) /\ job.depth \in Nat /\ job.pages \in Nat
  BY JobAssumption DEF TypeOK, Job

\* The pages followed are among those kept.
LEMMA FollowedPages == Followed \subseteq pageCache
  BY DEF Followed

\* A step that takes no url, queues none and has followed no page goes on with the search.
LEMMA SearchKept ==
  ASSUME SearchInv, phase # "failed", phase' # "failed", phase' \in Busy => phase \in Busy,
         job' = job, queue' = queue, seen' = seen, current' = current, Followed' = Followed
  PROVE  SearchInv'
<1>1. QueueInv /\ TakenInv /\ CoverInv
  BY DEF SearchInv
<1>2. Depth' = Depth /\ Url' = Url /\ Allowed' = Allowed
  BY DEF Depth, Url, Allowed
<1>3. QueueInv'
  BY <1>1, <1>2 DEF QueueInv
<1>4. TakenInv'
  BY <1>1, <1>2 DEF TakenInv
<1>5. CoverInv'
  BY <1>1, <1>2 DEF CoverInv, Covered
<1>6. QED
  BY <1>3, <1>4, <1>5 DEF SearchInv

\* What was taken is within the bounds, whether the run goes on or has failed.
LEMMA TakenBounds ==
  ASSUME TypeOK, SearchInv
  PROVE  BoundInv
<1>1. CASE phase = "failed"
  BY <1>1 DEF SearchInv
<1>2. CASE phase # "failed"
  <2>1. TakenInv
    BY <1>2 DEF SearchInv
  <2>2. job.seeds \in Seq(Urls) /\ job.depth \in Nat /\ Depth \in Nat /\ Depth <= job.depth
    BY <2>1, JobType DEF TakenInv
  <2>3. Within(job.seeds, Depth, Followed) \subseteq Within(job.seeds, job.depth, Followed)
    BY <2>2, WithinDeeper
  <2>4. Within(job.seeds, job.depth, Followed) \subseteq Within(job.seeds, job.depth, pageCache)
    BY <2>2, FollowedPages, WithinMore
  <2>5. QED
    BY <2>1, <2>3, <2>4 DEF TakenInv, BoundInv
<1>3. QED
  BY <1>1, <1>2

\* A step that stores nothing and does not end the run leaves the store in order.
LEMMA StoreKept ==
  ASSUME StoreInv, pageCache \subseteq pageCache', stored' = stored, stats' = stats, phase' # "done"
  PROVE  StoreInv'
<1>1. \A v \in pageCache : v \in pageCache'
  OBVIOUS
<1>2. QED
  BY <1>1 DEF StoreInv

\* Clocks that stand still are in order, unless a request comes next.
LEMMA PaceKept ==
  ASSUME PaceInv, idle' = idle, quiet' = quiet, phase' # "asking"
  PROVE  PaceInv'
  BY DEF PaceInv

\* The clocks after a request.
LEMMA PassedIs ==
  ASSUME IInv, phase = "asking", NEW time \in Nat, Passed(time)
  PROVE  /\ idle' \in [Domains -> 0..Delay] /\ quiet' \in [Domains -> 0..Delay]
         /\ \A d \in Domains : idle'[d] <= quiet'[d]
<1> DEFINE before == IF attempt = 1 THEN [quiet EXCEPT ![Here] = 0] ELSE quiet
<1>1. idle' = Later(idle, time) /\ quiet' = Later(before, time)
  BY DEF Passed
<1>2. idle \in [Domains -> 0..Delay] /\ quiet \in [Domains -> 0..Delay] /\ Delay \in Nat
  BY LimitAssumption DEF IInv, TypeOK
<1>3. (\A d \in Domains : idle[d] <= quiet[d]) /\ (attempt = 1 => idle[Here] = 0)
  BY DEF IInv, PaceInv
<1>4. before \in [Domains -> 0..Delay] /\ \A d \in Domains : idle[d] <= before[d]
  <2>1. CASE attempt = 1
    <3> DEFINE fresh == [quiet EXCEPT ![Here] = 0]
    <3>1. fresh \in [Domains -> 0..Delay]
      <4>1. 0 \in 0..Delay
        BY <1>2
      <4>2. QED
        BY <1>2, <4>1
    <3>2. \A d \in Domains : fresh[d] = IF d = Here THEN 0 ELSE quiet[d]
      BY <1>2
    <3>3. \A d \in Domains : idle[d] <= fresh[d]
      <4>1. TAKE d \in Domains
      <4>2. CASE d = Here
        BY <1>3, <2>1, <3>2, <4>2
      <4>3. CASE d # Here
        BY <1>3, <3>2, <4>3
      <4>4. QED
        BY <4>2, <4>3
    <3> HIDE DEF fresh
    <3>4. before = fresh
      BY <2>1 DEF fresh
    <3>5. QED
      BY <3>1, <3>3, <3>4
  <2>2. CASE attempt # 1
    BY <1>2, <1>3, <2>2
  <2>3. QED
    BY <2>1, <2>2
<1> HIDE DEF before
<1>5. QED
  BY <1>1, <1>2, <1>4, LaterIs, LaterOrder

-----------------------------------------------------------------------------
(* The steps. *)

\* What is dealt with is a url of some domain.
LEMMA HereIs ==
  ASSUME IInv, phase \in Busy
  PROVE  Url \in Urls /\ Here \in Domains /\ Url \in seen
  BY DEF IInv, PageInv, Url, Here, Domains

\* The end of a crawl.
LEMMA FinishInv == ASSUME IInv, Finish
                   PROVE  IInv'
<1>1. /\ phase = "popping" /\ phase' = "done" /\ rowCount' = stats["ingested"]
      /\ UNCHANGED <<job, queue, seen, current, robots, pageCache, idle, quiet, attempt>>
      /\ UNCHANGED <<text, chunks, stored, quarantined, stats>>
  BY DEF Finish, frontier, net
<1>2. stats["ingested"] \in Nat
  BY DEF IInv, TypeOK, Status
<1>3. TypeOK'
  BY <1>1, <1>2 DEF IInv, TypeOK, Phase
<1>4. PageInv' /\ PaceInv' /\ StoreInv'
  <2>1. Emitted \in Nat /\ job.pages \in Nat
    BY FS_CardinalityType, JobType DEF IInv, PageInv, Emitted
  <2>2. Emitted < job.pages => queue = <<>>
    BY <2>1 DEF Finish
  <2>3. QED
    BY <1>1, <2>2, PaceKept DEF IInv, PageInv, Busy, StoreInv, Emitted, Heeded
<1>5. Followed' = Followed
  BY <1>1 DEF Followed
<1>6. SearchInv'
  BY <1>1, <1>5, SearchKept DEF IInv, Busy
<1>7. QED
  BY <1>3, <1>4, <1>6 DEF IInv

\* A run that fails keeps its bounds.
LEMMA AbortInv == ASSUME IInv, Abort
                  PROVE  IInv'
<1>1. /\ phase \in Busy /\ phase' = "failed"
      /\ UNCHANGED <<job, queue, seen, current, robots, pageCache, idle, quiet, attempt>>
      /\ UNCHANGED <<text, chunks, stored, quarantined, stats, rowCount>>
  BY DEF Abort, frontier, net, ingest, Busy
<1>2. TypeOK'
  BY <1>1 DEF IInv, TypeOK, Phase
<1>3. PageInv' /\ PaceInv' /\ StoreInv'
  BY <1>1, PaceKept, StoreKept DEF IInv, PageInv, Busy, Emitted, Heeded
<1>4. BoundInv
  BY TakenBounds DEF IInv
<1>5. SearchInv'
  BY <1>1, <1>4 DEF SearchInv, BoundInv, Allowed
<1>6. QED
  BY <1>2, <1>3, <1>5 DEF IInv

\* The rules of a site are known after the check, and heeded.
LEMMA CheckRobotsInv == ASSUME IInv, CheckRobots
                        PROVE  IInv'
<1>1. /\ phase = "robots" /\ phase' \in {"waiting", "popping"}
      /\ UNCHANGED <<job, queue, seen, current, pageCache, idle, quiet, attempt>>
      /\ UNCHANGED <<text, chunks, stored, quarantined, stats, rowCount>>
  BY DEF CheckRobots, frontier, ingest
<1>2. PICK rules \in IF robots[Here] = "unknown" THEN {"rules", "allow_all"} ELSE {robots[Here]} :
        /\ robots' = [robots EXCEPT ![Here] = rules]
        /\ phase' = IF Permits(rules, Url) THEN "waiting" ELSE "popping"
  BY DEF CheckRobots
<1>3. Url \in Urls /\ Here \in Domains
  BY <1>1, HereIs DEF Busy
<1>4. robots \in [Domains -> {"unknown", "rules", "allow_all"}]
  BY DEF IInv, TypeOK
<1>5. rules \in {"rules", "allow_all"} /\ (robots[Here] = "unknown" \/ rules = robots[Here])
  BY <1>2, <1>3, <1>4
<1>6. /\ robots' \in [Domains -> {"unknown", "rules", "allow_all"}]
      /\ robots'[Here] = rules
      /\ \A d \in Domains : robots[d] # "unknown" => robots'[d] = robots[d]
  BY <1>2, <1>3, <1>4, <1>5
<1>7. TypeOK'
  BY <1>1, <1>6 DEF IInv, TypeOK, Phase, Url
<1>8. PageInv'
  <2>1. pageCache \subseteq Urls
    BY DEF IInv, TypeOK
  <2>2. \A u \in pageCache : Domain[u] \in Domains
    BY <2>1 DEF Domains
  <2>3. \A u \in pageCache : Served[u] \in Html /\ Heeded(u)'
    BY <1>6, <2>2 DEF IInv, PageInv, Heeded
  <2>4. phase' = "waiting" => Heeded(Url)'
    <3>1. SUFFICES ASSUME Permits(rules, Url)
                   PROVE  Heeded(Url)'
      BY <1>2
    <3>2. robots'[Domain[Url]] = rules
      BY <1>6 DEF Here
    <3>3. Url' = Url
      BY <1>1 DEF Url
    <3>4. QED
      BY <1>5, <3>1, <3>2, <3>3 DEF Heeded, Permits
  <2>5. QED
    BY <1>1, <2>3, <2>4 DEF IInv, PageInv, Busy, Emitted, Url
<1>9. PaceInv' /\ StoreInv'
  BY <1>1, PaceKept, StoreKept DEF IInv
<1>10. Followed' = Followed
  BY <1>1 DEF Followed
<1>11. SearchInv'
  BY <1>1, <1>10, SearchKept DEF IInv, Busy
<1>12. QED
  BY <1>7, <1>8, <1>9, <1>11 DEF IInv

\* After the wait the delay is over.
LEMMA PolitenessWaitInv == ASSUME IInv, PolitenessWait
                           PROVE  IInv'
<1> DEFINE wait == Delay - idle[Here]
<1>1. /\ phase = "waiting" /\ phase' = "asking" /\ attempt' = 1
      /\ idle' = [Later(idle, wait) EXCEPT ![Here] = 0] /\ quiet' = Later(quiet, wait)
      /\ UNCHANGED <<job, queue, seen, current, robots, pageCache>>
      /\ UNCHANGED <<text, chunks, stored, quarantined, stats, rowCount>>
  BY DEF PolitenessWait, StampAfter, frontier, ingest
<1>2. Here \in Domains /\ Here' = Here
  BY <1>1, HereIs DEF Busy, Here, Url
<1>3. idle \in [Domains -> 0..Delay] /\ quiet \in [Domains -> 0..Delay] /\ Delay \in Nat
  BY LimitAssumption DEF IInv, TypeOK
<1>4. wait \in Nat /\ \A d \in Domains : idle[d] <= quiet[d]
  BY <1>2, <1>3 DEF IInv, PaceInv
<1> HIDE DEF wait
<1>5. /\ Later(idle, wait) \in [Domains -> 0..Delay] /\ quiet' \in [Domains -> 0..Delay]
      /\ \A d \in Domains : Later(idle, wait)[d] <= quiet'[d]
      /\ quiet'[Here] = IF Delay <= quiet[Here] + wait THEN Delay ELSE quiet[Here] + wait
  BY <1>1, <1>2, <1>3, <1>4, LaterIs, LaterOrder
<1>6. idle' \in [Domains -> 0..Delay] /\ \A d \in Domains : idle'[d] <= quiet'[d]
  <2>1. \A d \in Domains : idle'[d] = IF d = Here THEN 0 ELSE Later(idle, wait)[d]
    BY <1>1, <1>5
  <2>2. 0 \in 0..Delay /\ \A d \in Domains : quiet'[d] \in 0..Delay
    BY <1>3, <1>5
  <2>3. \A d \in Domains : idle'[d] <= quiet'[d]
    <3>1. TAKE d \in Domains
    <3>2. idle'[d] = 0 \/ idle'[d] = Later(idle, wait)[d]
      BY <2>1
    <3>3. quiet'[d] \in Nat
      BY <1>3, <2>2
    <3>4. QED
      BY <1>5, <3>2, <3>3
  <2>4. idle' \in [Domains -> 0..Delay]
    BY <1>1, <1>5, <2>2
  <2>5. QED
    BY <2>3, <2>4
<1>7. quiet'[Here] >= Delay /\ idle'[Here] = 0
  <2>1. idle[Here] \in 0..Delay /\ quiet[Here] \in 0..Delay /\ idle[Here] <= quiet[Here]
    BY <1>2, <1>3, <1>4
  <2>2. Delay <= quiet[Here] + wait
    BY <1>3, <2>1 DEF wait
  <2>3. quiet'[Here] = Delay
    BY <1>5, <2>2
  <2>4. QED
    BY <1>1, <1>2, <1>3, <1>5, <2>3
<1>8. TypeOK'
  BY <1>1, <1>5, <1>6, LimitAssumption DEF IInv, TypeOK, Phase
<1>9. PageInv'
  BY <1>1 DEF IInv, PageInv, Busy, Emitted, Heeded, Url
<1>10. PaceInv'
  BY <1>2, <1>6, <1>7 DEF PaceInv
<1>11. StoreInv'
  BY <1>1, StoreKept DEF IInv
<1>12. Followed' = Followed
  BY <1>1 DEF Followed
<1>13. SearchInv'
  BY <1>1, <1>12, SearchKept DEF IInv, Busy
<1>14. QED
  BY <1>8, <1>9, <1>10, <1>11, <1>13 DEF IInv

\* A request that brings no page.
LEMMA NoPageInv ==
  ASSUME IInv, phase = "asking", NEW time \in Nat, Passed(time),
         attempt' \in 1..MaxAttempts, phase' = "popping" \/ (phase' = "asking" /\ attempt' # 1),
         UNCHANGED <<job, frontier, robots, pageCache, ingest>>
  PROVE  IInv'
<1>1. /\ UNCHANGED <<job, queue, seen, current, robots, pageCache>>
      /\ UNCHANGED <<text, chunks, stored, quarantined, stats, rowCount>>
  BY DEF frontier, ingest
<1>2. /\ idle' \in [Domains -> 0..Delay] /\ quiet' \in [Domains -> 0..Delay]
      /\ \A d \in Domains : idle'[d] <= quiet'[d]
  BY PassedIs
<1>3. TypeOK'
  BY <1>1, <1>2 DEF IInv, TypeOK, Phase
<1>4. PageInv'
  BY <1>1 DEF IInv, PageInv, Busy, Emitted, Heeded, Url
<1>5. PaceInv'
  BY <1>2 DEF PaceInv
<1>6. StoreInv'
  BY <1>1, StoreKept DEF IInv
<1>7. Followed' = Followed
  BY <1>1 DEF Followed
<1>8. SearchInv'
  BY <1>1, <1>7, SearchKept DEF IInv, Busy
<1>9. QED
  BY <1>3, <1>4, <1>5, <1>6, <1>8 DEF IInv

\* Too many redirects.
LEMMA GiveUpInv == ASSUME IInv, GiveUp
                   PROVE  IInv'
<1>1. attempt' \in 1..MaxAttempts
  BY DEF GiveUp, IInv, TypeOK
<1>2. 0 \in Nat
  OBVIOUS
<1>3. QED
  BY <1>1, <1>2, NoPageInv DEF GiveUp

\* An attempt that failed, the last one or not.
LEMMA FailInv == ASSUME IInv, NEW time \in 0..1, Fail(time)
                 PROVE  IInv'
<1>1. attempt \in 1..MaxAttempts /\ MaxAttempts \in Nat
  BY LimitAssumption DEF IInv, TypeOK
<1>2. time \in Nat /\ time + 1 \in Nat
  OBVIOUS
<1>3. CASE attempt < MaxAttempts
  <2>1. attempt' = attempt + 1 /\ phase' = "asking" /\ Passed(time + 1)
    BY <1>3 DEF Fail, NextAttempt
  <2>2. attempt' \in 1..MaxAttempts /\ attempt' # 1
    BY <1>1, <1>3, <2>1
  <2>3. QED
    BY <1>2, <2>1, <2>2, NoPageInv DEF Fail
<1>4. CASE ~(attempt < MaxAttempts)
  <2>1. phase' = "popping" /\ Passed(time) /\ attempt' = attempt
    BY <1>4 DEF Fail
  <2>2. QED
    BY <1>1, <1>2, <2>1, NoPageInv DEF Fail
<1>5. QED
  BY <1>3, <1>4

\* A page that was asked for for the first time: its links come later.
LEMMA GetInv == ASSUME IInv, NEW time \in 0..1, Get(time)
                PROVE  IInv'
<1>1. /\ phase = "asking" /\ Passed(time) /\ time \in Nat
      /\ UNCHANGED <<job, queue, seen, current, robots, attempt>>
      /\ UNCHANGED <<text, chunks, stored, quarantined, stats, rowCount>>
  BY DEF Get, frontier, ingest
<1>2. /\ idle' \in [Domains -> 0..Delay] /\ quiet' \in [Domains -> 0..Delay]
      /\ \A d \in Domains : idle'[d] <= quiet'[d]
  BY <1>1, PassedIs
<1>3. \/ Served[Url] \notin Html /\ phase' = "popping" /\ pageCache' = pageCache
      \/ Served[Url] \in Html /\ phase' = "ingesting" /\ pageCache' = pageCache \cup {Url}
  BY DEF Get, CacheKey
<1>4. Url \in Urls /\ Url \in seen /\ Url \notin pageCache /\ Url' = Url
  BY <1>1, HereIs DEF Busy, IInv, PageInv, Url
<1>5. TypeOK'
  BY <1>1, <1>2, <1>3, <1>4 DEF IInv, TypeOK, Phase
<1>6. PageInv'
  <2>1. /\ IsFiniteSet(pageCache) /\ Cardinality(pageCache) \in Nat /\ job.pages \in Nat
        /\ Cardinality(pageCache) < job.pages
    BY <1>1, FS_CardinalityType, JobType DEF IInv, PageInv, Emitted
  <2>2. IsFiniteSet(pageCache') /\ Cardinality(pageCache') <= job.pages
    <3>1. CASE pageCache' = pageCache
      BY <2>1, <3>1
    <3>2. CASE pageCache' = pageCache \cup {Url}
      <4>1. /\ IsFiniteSet(pageCache \cup {Url})
            /\ Cardinality(pageCache \cup {Url}) = Cardinality(pageCache) + 1
        BY <1>4, <2>1, FS_AddElement
      <4>2. QED
        BY <2>1, <3>2, <4>1
    <3>3. QED
      BY <1>3, <3>1, <3>2
  <2>3. /\ pageCache \subseteq seen /\ Heeded(Url) /\ current \in Urls \X Nat
        /\ \A u \in pageCache : Served[u] \in Html /\ Heeded(u)
    BY <1>1 DEF IInv, PageInv, Busy
  <2>4. \A u \in pageCache' : u \in seen /\ Served[u] \in Html /\ Heeded(u)
    BY <1>3, <1>4, <2>3
  <2>5. \A u : Heeded(u)' <=> Heeded(u)
    BY <1>1 DEF Heeded
  <2>6. QED
    BY <1>1, <1>3, <1>4, <2>2, <2>3, <2>4, <2>5 DEF PageInv, Emitted, Busy
<1>7. PaceInv'
  BY <1>2, <1>3 DEF PaceInv
<1>8. StoreInv'
  BY <1>1, <1>3, StoreKept DEF IInv
<1>9. Followed' = Followed
  BY <1>1, <1>3, <1>4 DEF Followed
<1>10. SearchInv'
  BY <1>1, <1>3, <1>9, SearchKept DEF IInv, Busy
<1>11. QED
  BY <1>5, <1>6, <1>7, <1>8, <1>10 DEF IInv

\* A page is counted as ingested with the first document of its content.
LEMMA IngestPageInv == ASSUME IInv, NEW time \in 0..1, IngestPage(time)
                       PROVE  IInv'
<1>1. /\ phase = "ingesting" /\ phase' = "following" /\ time \in Nat
      /\ idle' = Later(idle, time) /\ quiet' = Later(quiet, time)
      /\ UNCHANGED <<job, queue, seen, current, robots, pageCache, attempt, rowCount>>
  BY DEF IngestPage, frontier
<1>2. Url \in Urls /\ Url \in pageCache /\ Url' = Url /\ Served[Url] \in Urls
  BY <1>1, HereIs, SiteAssumption DEF Busy, IInv, PageInv, Url
<1>3. /\ idle \in [Domains -> 0..Delay] /\ quiet \in [Domains -> 0..Delay]
      /\ \A d \in Domains : idle[d] <= quiet[d]
  BY DEF IInv, TypeOK, PaceInv
<1>4. /\ idle' \in [Domains -> 0..Delay] /\ quiet' \in [Domains -> 0..Delay]
      /\ \A d \in Domains : idle'[d] <= quiet'[d]
  BY <1>1, <1>3, LaterIs, LaterOrder
<1>5. /\ stats \in [Status -> Nat] /\ stored \subseteq Urls /\ IsFiniteSet(stored)
      /\ quarantined \subseteq Urls
      /\ stats["ingested"] = Cardinality(stored) /\ rowCount \in 0..stats["ingested"]
      /\ text = <<>> \/ text \in UNION {Texts[u] : u \in stored}
      /\ \A u \in stored : \E v \in pageCache : Served[v] = u
  BY DEF IInv, TypeOK, StoreInv
<1>6. /\ stats' \in [Status -> Nat] /\ stored' \subseteq Urls /\ IsFiniteSet(stored')
      /\ quarantined' \subseteq Urls
      /\ stats'["ingested"] = Cardinality(stored') /\ rowCount \in 0..stats'["ingested"]
      /\ text' = <<>> \/ text' \in UNION {Texts[u] : u \in stored'}
      /\ \A u \in stored' : \E v \in pageCache : Served[v] = u
  <2>1. CASE /\ stats' = [stats EXCEPT !["ingested"] = @ + 1]
             /\ Fetched \notin stored /\ stored' = stored \cup {Fetched}
             /\ text' \in Texts[Fetched] /\ UNCHANGED quarantined
    <3>1. stats' \in [Status -> Nat] /\ stats'["ingested"] = stats["ingested"] + 1
      BY <1>5, <2>1 DEF Status
    <3>2. IsFiniteSet(stored') /\ Cardinality(stored') = Cardinality(stored) + 1
      BY <1>5, <2>1, FS_AddElement
    <3>3. rowCount \in 0..stats'["ingested"]
      <4>1. stats["ingested"] \in Nat
        BY <1>5 DEF Status
      <4>2. QED
        BY <1>5, <3>1, <4>1
    <3>4. QED
      BY <1>2, <1>5, <2>1, <3>1, <3>2, <3>3 DEF Fetched
  <2>2. CASE /\ stats' \in {[stats EXCEPT !["duplicate"] = @ + 1],
                             [stats EXCEPT !["quarantined"] = @ + 1],
                             [stats EXCEPT !["error"] = @ + 1]}
             /\ quarantined' \in {quarantined, quarantined \cup {Fetched}}
             /\ UNCHANGED <<text, stored>>
    <3>1. stats' \in [Status -> Nat] /\ stats'["ingested"] = stats["ingested"]
      BY <1>5, <2>2 DEF Status
    <3>2. quarantined' \subseteq Urls
      BY <1>2, <1>5, <2>2 DEF Fetched
    <3>3. QED
      BY <1>5, <2>2, <3>1, <3>2
  <2>3. QED
    BY <2>1, <2>2 DEF IngestPage, Count
<1>7. TypeOK'
  BY <1>1, <1>2, <1>4, <1>6 DEF IInv, TypeOK, Phase
<1>8. PageInv'
  BY <1>1, <1>2 DEF IInv, PageInv, Busy, Emitted, Heeded
<1>9. PaceInv'
  BY <1>1, <1>4 DEF PaceInv
<1>10. StoreInv'
  BY <1>1, <1>6 DEF StoreInv
<1>11. Followed' = Followed
  BY <1>1, <1>2 DEF Followed
<1>12. SearchInv'
  BY <1>1, <1>11, SearchKept DEF IInv, Busy
<1>13. QED
  BY <1>7, <1>8, <1>9, <1>10, <1>12 DEF IInv

\* A url is taken at its distance: the queue's head is no deeper than the rest, and whatever
\* is nearer was taken or is queued.
LEMMA PopInv == ASSUME IInv, Pop
                PROVE  IInv'
<1> DEFINE entry == queue[1]
           u0 == queue[1][1]
           e == queue[1][2]
           last == Len(queue)
           reach(n) == Within(job.seeds, n, pageCache)
<1>1. /\ phase = "popping" /\ queue # <<>> /\ Emitted < job.pages /\ queue' = RemoveAt(queue, 1)
      /\ UNCHANGED <<job, robots, pageCache, idle, quiet, attempt>>
      /\ UNCHANGED <<text, chunks, stored, quarantined, stats, rowCount>>
  BY DEF Pop, Oldest, net, ingest
<1>2. \/ /\ u0 \in seen \/ Domain[u0] \notin Allowed
         /\ phase' = "popping" /\ seen' = seen /\ current' = current
      \/ /\ u0 \notin seen /\ Domain[u0] \in Allowed
         /\ phase' = "robots" /\ seen' = seen \cup {u0} /\ current' = entry
  BY <1>1 DEF Pop, Oldest
<1>3. QueueInv /\ TakenInv /\ CoverInv /\ Followed = pageCache /\ Followed' = pageCache
  BY <1>1, <1>2 DEF IInv, SearchInv, Followed
<1>4. queue \in Seq(Urls \X Nat) /\ job.seeds \in Seq(Urls) /\ job.depth \in Nat
  BY JobType DEF IInv, TypeOK
<1>5. /\ last \in Nat \ {0} /\ entry \in Urls \X Nat /\ queue' \in Seq(Urls \X Nat)
      /\ Len(queue') = last - 1 /\ \A i \in 1..(last - 1) : queue'[i] = queue[i + 1]
  BY <1>1, <1>4, PoppedIs
<1>6. u0 \in Urls /\ e \in Nat
  BY <1>5
<1>7. DOMAIN queue = 1..last /\ DOMAIN queue' = 1..(last - 1)
  BY <1>4, <1>5
<1>8. /\ 1 \in DOMAIN queue
      /\ \A i \in DOMAIN queue : queue[i][2] \in Nat /\ (i = 1 \/ i - 1 \in DOMAIN queue')
      /\ \A i \in DOMAIN queue' : i + 1 \in DOMAIN queue /\ queue'[i] = queue[i + 1] /\ 1 < i + 1
      /\ \A i \in DOMAIN queue' : i \in Int
  <2>1. \A i \in DOMAIN queue : queue[i] \in Urls \X Nat
    BY <1>4
  <2>2. 1 \in 1..last /\ \A i \in 1..last : i = 1 \/ i - 1 \in 1..(last - 1)
    BY <1>5
  <2>3. \A i \in 1..(last - 1) : i + 1 \in 1..last /\ 1 < i + 1 /\ i \in Int
    BY <1>5
  <2>4. QED
    BY <1>5, <1>7, <2>1, <2>2, <2>3
<1>9. /\ \A i \in DOMAIN queue : /\ queue[i][1] \in reach(queue[i][2]) /\ queue[i][2] <= job.depth
                                 /\ Depth <= queue[i][2] /\ queue[i][2] <= Depth + 1
      /\ \A i, j \in DOMAIN queue : i < j => queue[i][2] <= queue[j][2]
  BY <1>3 DEF QueueInv
<1>10. \A i \in DOMAIN queue : e <= queue[i][2]
  <2>1. TAKE i \in DOMAIN queue
  <2>2. i = 1 \/ 1 < i
    BY <1>5, <1>7
  <2>3. QED
    BY <1>6, <1>8, <1>9, <2>2
<1>11. /\ Depth \in Nat /\ Depth <= job.depth
       /\ \A u \in seen : Domain[u] \in Allowed /\ u \in reach(Depth)
  BY <1>3 DEF TakenInv
<1>12. \A n \in Nat : n <= job.depth =>
         \A u \in reach(n) : Domain[u] \in Allowed => Covered(u, n)
  BY <1>3 DEF CoverInv
<1>13. Allowed' = Allowed /\ pageCache \subseteq seen /\ seen \subseteq seen'
  BY <1>1, <1>2 DEF Allowed, IInv, PageInv
<1>14. TypeOK'
  <2>1. seen' \subseteq Urls
    BY <1>2, <1>6 DEF IInv, TypeOK
  <2>2. phase' \in Phase /\ phase' # "ingesting"
    BY <1>2 DEF Phase
  <2>3. QED
    BY <1>1, <1>5, <2>1, <2>2 DEF IInv, TypeOK
<1>15. PageInv'
  <2>1. \A u : Heeded(u)' <=> Heeded(u)
    BY <1>1 DEF Heeded
  <2>2. phase' = "robots" => /\ current' \in Urls \X Nat /\ Url' \in seen'
                             /\ Url' \notin pageCache
    BY <1>2, <1>5, <1>13 DEF Url
  <2>3. QED
    BY <1>1, <1>2, <1>13, <2>1, <2>2 DEF IInv, PageInv, Busy, Emitted
<1>16. PaceInv' /\ StoreInv'
  BY <1>1, <1>2, PaceKept, StoreKept DEF IInv
<1>17. \A i \in DOMAIN queue' : /\ queue'[i][1] \in reach(queue'[i][2]) /\ queue'[i][2] \in Nat
                                /\ queue'[i][2] <= job.depth /\ e <= queue'[i][2]
                                /\ Depth <= queue'[i][2] /\ queue'[i][2] <= Depth + 1
  BY <1>8, <1>9, <1>10
<1>18. \A i, j \in DOMAIN queue' : i < j => queue'[i][2] <= queue'[j][2]
  <2>1. ASSUME NEW i \in DOMAIN queue', NEW j \in DOMAIN queue', i < j
        PROVE  queue'[i][2] <= queue'[j][2]
    <3>1. /\ i + 1 \in DOMAIN queue /\ j + 1 \in DOMAIN queue
          /\ queue'[i] = queue[i + 1] /\ queue'[j] = queue[j + 1]
      BY <1>8
    <3>2. i + 1 < j + 1
      BY <1>8, <2>1
    <3>3. QED
      BY <1>9, <3>1, <3>2
  <2>2. QED
    BY <2>1
<1>19. e <= job.depth /\ Depth <= e /\ e <= Depth + 1 /\ u0 \in reach(e)
  BY <1>8, <1>9
<1>20. QueueInv'
  <2>1. Depth' = Depth \/ Depth' = e
    BY <1>2 DEF Depth
  <2>2. \A i \in DOMAIN queue' : Depth' <= queue'[i][2] /\ queue'[i][2] <= Depth' + 1
    BY <1>6, <1>11, <1>17, <1>19, <2>1
  <2>3. QED
    BY <1>1, <1>3, <1>17, <1>18, <2>2 DEF QueueInv
<1>21. TakenInv'
  <2>1. CASE phase' = "popping"
    <3>1. seen' = seen /\ Depth' = Depth
      BY <1>2, <2>1 DEF Depth
    <3>2. QED
      BY <1>1, <1>3, <1>11, <1>13, <2>1, <3>1 DEF TakenInv, Busy
  <2>2. CASE phase' = "robots"
    <3>1. /\ u0 \notin seen /\ Domain[u0] \in Allowed
          /\ seen' = seen \cup {u0} /\ Depth' = e /\ Url' = u0
      BY <1>2, <2>2 DEF Depth, Url
    <3>2. reach(Depth) \subseteq reach(e)
      BY <1>4, <1>6, <1>11, <1>19, WithinDeeper
    <3>3. \A u \in seen' : Domain[u] \in Allowed /\ u \in reach(e)
      BY <1>11, <1>19, <3>1, <3>2
    <3>4. ASSUME NEW n \in Nat, n < e
          PROVE  u0 \notin reach(n)
      <4>1. SUFFICES ASSUME u0 \in reach(n) PROVE FALSE
        OBVIOUS
      <4>2. n <= job.depth
        BY <1>4, <1>6, <1>19, <3>4
      <4>3. PICK i \in DOMAIN queue : queue[i][1] = u0 /\ queue[i][2] <= n
        BY <1>12, <3>1, <4>1, <4>2 DEF Covered
      <4>4. e <= queue[i][2] /\ queue[i][2] \in Nat
        BY <1>8, <1>10
      <4>5. QED
        BY <1>6, <3>4, <4>3, <4>4
    <3>5. QED
      BY <1>1, <1>3, <1>6, <1>13, <1>19, <3>1, <3>3, <3>4 DEF TakenInv
  <2>3. QED
    BY <1>2, <2>1, <2>2
<1>22. CoverInv'
  <2>1. SUFFICES ASSUME NEW n \in Nat, n <= job.depth, NEW u \in reach(n), Domain[u] \in Allowed
                 PROVE  Covered(u, n)'
    BY <1>1, <1>3, <1>13 DEF CoverInv
  <2>2. Covered(u, n)
    BY <1>12, <2>1
  <2>3. CASE u \in seen
    BY <1>13, <2>3 DEF Covered
  <2>4. CASE u \notin seen
    <3>1. PICK i \in DOMAIN queue : queue[i][1] = u /\ queue[i][2] <= n
      BY <2>2, <2>4 DEF Covered
    <3>2. CASE i = 1
      BY <1>2, <2>1, <2>4, <3>1, <3>2 DEF Covered
    <3>3. CASE i # 1
      <4>1. i - 1 \in DOMAIN queue' /\ (i - 1) + 1 = i
        BY <1>5, <1>7, <1>8, <3>3
      <4>2. queue'[i - 1] = queue[i]
        BY <1>8, <4>1
      <4>3. QED
        BY <3>1, <4>1, <4>2 DEF Covered
    <3>4. QED
      BY <3>2, <3>3
  <2>5. QED
    BY <2>3, <2>4
<1>23. SearchInv'
  BY <1>2, <1>20, <1>21, <1>22 DEF SearchInv
<1>24. QED
  BY <1>14, <1>15, <1>16, <1>23 DEF IInv

\* The links of a page change nothing nearer than one step beyond the page; there they are
\* queued, and what is further is reached from pages that were taken before.
LEMMA FollowLinksInv == ASSUME IInv, FollowLinks
                        PROVE  IInv'
<1> DEFINE old(n) == Within(job.seeds, n, Followed)
           new(n) == Within(job.seeds, n, pageCache)
<1>1. /\ phase = "following" /\ phase' = "popping" /\ text' = <<>>
      /\ UNCHANGED <<job, seen, current, robots, pageCache, idle, quiet, attempt>>
      /\ UNCHANGED <<stored, quarantined, stats, rowCount>>
  BY DEF FollowLinks, net
<1>2. QueueInv /\ TakenInv /\ CoverInv
  BY <1>1 DEF IInv, SearchInv
<1>3. /\ queue \in Seq(Urls \X Nat) /\ job.seeds \in Seq(Urls) /\ job.depth \in Nat
      /\ Url \in Urls /\ Url \in pageCache /\ pageCache \subseteq seen
  BY <1>1, JobType, HereIs DEF Busy, IInv, TypeOK, PageInv
<1>4. Followed' = pageCache /\ pageCache = Followed \cup {Url}
  BY <1>1, <1>3 DEF Followed
<1>5. Depth' = Depth /\ Url' = Url /\ Allowed' = Allowed
  BY <1>1 DEF Depth, Url, Allowed
<1>6. /\ Depth \in Nat /\ Depth <= job.depth
      /\ \A u \in seen : Domain[u] \in Allowed /\ u \in old(Depth)
      /\ \A n \in Nat : n < Depth => Url \notin old(n)
  BY <1>1, <1>2 DEF TakenInv, Busy
<1>7. \A n \in Nat : n <= Depth => new(n) = old(n)
  <2>1. NoNearer(Url, Depth, job.seeds, Followed)
    BY <1>6 DEF NoNearer
  <2>2. \A n \in Nat : n <= Depth =>
          Within(job.seeds, n, Followed \cup {Url}) = Within(job.seeds, n, Followed)
    BY <1>3, <1>6, <2>1, WithinUpTo
  <2>3. QED
    BY <1>4, <2>2
<1>8. \A n \in Nat : old(n) \subseteq new(n)
  BY <1>3, FollowedPages, WithinMore
<1>9. /\ \A n \in Nat : new(n) \subseteq Urls /\ new(n + 1) = Beyond(new(n), pageCache)
      /\ \A n \in Nat : old(n + 1) = Beyond(old(n), Followed)
  BY <1>3, WithinIs
<1>10. /\ \A i \in DOMAIN queue : /\ queue[i][1] \in old(queue[i][2]) /\ queue[i][2] <= job.depth
                                  /\ Depth <= queue[i][2] /\ queue[i][2] <= Depth + 1
       /\ \A i, j \in DOMAIN queue : i < j => queue[i][2] <= queue[j][2]
  BY <1>2 DEF QueueInv
<1>11. \A n \in Nat : n <= job.depth =>
         \A u \in old(n) : Domain[u] \in Allowed => Covered(u, n)
  BY <1>2 DEF CoverInv
<1> HIDE DEF old, new
<1>12. /\ queue' \in Seq(Urls \X Nat) /\ Len(queue) <= Len(queue')
       /\ \A i \in DOMAIN queue : queue'[i] = queue[i]
       /\ \A i \in DOMAIN queue' : i > Len(queue) =>
            queue'[i][1] \in ToSet(Links(Url)) /\ queue'[i][2] = Depth + 1 /\ Depth < job.depth
       /\ Depth < job.depth =>
            \A u \in ToSet(Links(Url)) :
              u \in seen \/ \E i \in DOMAIN queue' : queue'[i] = <<u, Depth + 1>>
  <2>1. CASE Depth < job.depth
    <3>1. Links(Url) \in Seq(Urls)
      BY <1>3, LinksType
    <3>2. Lengthened(queue', ToSet(Links(Url)))
      BY <1>3, <1>6, <2>1, <3>1, LongerIs DEF FollowLinks
    <3>3. QED
      BY <2>1, <3>2 DEF Lengthened
  <2>2. CASE ~(Depth < job.depth)
    <3>1. queue' = queue /\ Len(queue) \in Nat /\ DOMAIN queue = 1..Len(queue)
      BY <1>3, <2>2 DEF FollowLinks
    <3>2. \A i \in 1..Len(queue) : ~(i > Len(queue))
      BY <3>1
    <3>3. QED
      BY <1>3, <2>2, <3>1, <3>2
  <2>3. QED
    BY <2>1, <2>2
<1>13. /\ DOMAIN queue = 1..Len(queue) /\ DOMAIN queue' = 1..Len(queue')
       /\ Len(queue) \in Nat /\ Len(queue') \in Nat /\ DOMAIN queue \subseteq DOMAIN queue'
       /\ \A i \in DOMAIN queue' :
            i \in Nat /\ queue'[i][2] \in Nat /\ (i \in DOMAIN queue \/ i > Len(queue))
  <2>1. \A i \in DOMAIN queue' : queue'[i] \in Urls \X Nat
    BY <1>12
  <2>2. /\ DOMAIN queue = 1..Len(queue) /\ DOMAIN queue' = 1..Len(queue')
        /\ Len(queue) \in Nat /\ Len(queue') \in Nat
    BY <1>3, <1>12
  <2>3. \A i \in 1..Len(queue') : i \in Nat /\ (i \in 1..Len(queue) \/ i > Len(queue))
    BY <2>2
  <2>4. 1..Len(queue) \subseteq 1..Len(queue')
    BY <1>12, <2>2
  <2>5. QED
    BY <2>1, <2>2, <2>3, <2>4
<1>14. TypeOK'
  BY <1>1, <1>12 DEF IInv, TypeOK, Phase
<1>15. PageInv'
  BY <1>1 DEF IInv, PageInv, Busy, Emitted, Heeded
<1>16. PaceInv' /\ StoreInv'
  BY <1>1, PaceKept, StoreKept DEF IInv
<1>17. QueueInv'
  <2>1. ASSUME NEW i \in DOMAIN queue'
        PROVE  /\ queue'[i][1] \in new(queue'[i][2]) /\ queue'[i][2] <= job.depth
               /\ Depth <= queue'[i][2] /\ queue'[i][2] <= Depth + 1
    <3>1. CASE i \in DOMAIN queue
      BY <1>8, <1>10, <1>12, <1>13, <3>1
    <3>2. CASE i > Len(queue)
      <4>1. queue'[i][1] \in ToSet(Links(Url)) /\ queue'[i][2] = Depth + 1 /\ Depth < job.depth
        BY <1>12, <3>2
      <4>2. Url \in new(Depth)
        BY <1>3, <1>6, <1>7
      <4>3. queue'[i][1] \in new(Depth + 1)
        <5>1. ToSet(Links(Url)) \subseteq Beyond(new(Depth), pageCache)
          BY <1>3, <4>2 DEF Beyond
        <5>2. QED
          BY <1>6, <1>9, <4>1, <5>1
      <4>4. QED
        BY <1>3, <1>6, <4>1, <4>3
    <3>3. QED
      BY <1>13, <3>1, <3>2
  <2>2. ASSUME NEW i \in DOMAIN queue', NEW j \in DOMAIN queue', i < j
        PROVE  queue'[i][2] <= queue'[j][2]
    <3>1. CASE j \in DOMAIN queue
      <4>1. i \in DOMAIN queue
        BY <1>13, <2>2, <3>1
      <4>2. QED
        BY <1>10, <1>12, <2>2, <3>1, <4>1
    <3>2. CASE j > Len(queue)
      BY <1>12, <2>1, <3>2
    <3>3. QED
      BY <1>13, <3>1, <3>2
  <2>3. QED
    BY <1>1, <1>4, <1>5, <2>1, <2>2 DEF QueueInv, new
<1>18. TakenInv'
  <2>1. \A u \in seen : Domain[u] \in Allowed /\ u \in new(Depth)
    BY <1>6, <1>7
  <2>2. phase' \notin Busy
    BY <1>1 DEF Busy
  <2>3. QED
    BY <1>1, <1>4, <1>5, <1>6, <2>1, <2>2 DEF TakenInv, new
<1>19. ASSUME NEW u, NEW m \in Nat, NEW n \in Nat, m <= n, Covered(u, m)
       PROVE  Covered(u, n)'
  <2>1. CASE u \in seen
    BY <1>1, <2>1 DEF Covered
  <2>2. CASE u \notin seen
    <3>1. PICK i \in DOMAIN queue : queue[i][1] = u /\ queue[i][2] <= m
      BY <1>19, <2>2 DEF Covered
    <3>2. i \in DOMAIN queue' /\ queue'[i] = queue[i] /\ queue'[i][2] \in Nat
      BY <1>12, <1>13
    <3>3. queue'[i][1] = u /\ queue'[i][2] <= n
      BY <1>19, <3>1, <3>2
    <3>4. QED
      BY <3>2, <3>3 DEF Covered
  <2>3. QED
    BY <2>1, <2>2
<1>20. \A n \in Nat : n <= job.depth =>
         \A u \in new(n) : Domain[u] \in Allowed => Covered(u, n)'
  <2> DEFINE S == {n \in Nat : n <= job.depth =>
                     \A u \in new(n) : Domain[u] \in Allowed => Covered(u, n)'}
  <2>1. ASSUME NEW n \in Nat, n <= Depth
        PROVE  n \in S
    <3>1. n <= job.depth /\ new(n) = old(n) /\ n <= n
      BY <1>3, <1>6, <1>7, <2>1
    <3>2. \A u \in new(n) : Domain[u] \in Allowed => Covered(u, n)
      BY <1>11, <3>1
    <3>3. QED
      BY <1>19, <3>1, <3>2
  <2>2. ASSUME NEW n \in S, ~(n + 1 <= Depth)
        PROVE  n + 1 \in S
    <3>1. n \in Nat /\ n + 1 \in Nat /\ n <= n + 1 /\ Depth <= n /\ Depth + 1 <= n + 1
      BY <1>6, <2>2
    <3>2. SUFFICES ASSUME n + 1 <= job.depth, NEW u \in new(n + 1), Domain[u] \in Allowed
                   PROVE  Covered(u, n + 1)'
      BY <3>1
    <3>3. Depth < job.depth /\ n <= job.depth /\ Depth + 1 <= job.depth /\ Depth + 1 \in Nat
      BY <1>3, <1>6, <3>1, <3>2
    <3>4. u \in new(n) \/ \E x \in new(n) \cap pageCache : u \in ToSet(Links(x))
      BY <1>9, <3>1, <3>2 DEF Beyond
    <3>5. CASE u \in new(n)
      <4>1. Covered(u, n)'
        BY <2>2, <3>2, <3>3, <3>5
      <4>2. CASE u \in seen
        BY <1>1, <4>2 DEF Covered
      <4>3. CASE u \notin seen
        <5>1. PICK i \in DOMAIN queue' : queue'[i][1] = u /\ queue'[i][2] <= n
          BY <1>1, <4>1, <4>3 DEF Covered
        <5>2. queue'[i][2] <= n + 1
          BY <1>13, <3>1, <5>1
        <5>3. QED
          BY <5>1, <5>2 DEF Covered
      <4>4. QED
        BY <4>2, <4>3
    <3>6. CASE \E x \in pageCache : u \in ToSet(Links(x))
      <4>1. PICK x \in pageCache : u \in ToSet(Links(x))
        BY <3>6
      <4>2. CASE x = Url
        <5>1. u \in seen \/ \E i \in DOMAIN queue' : queue'[i] = <<u, Depth + 1>>
          BY <1>12, <3>3, <4>1, <4>2
        <5>2. CASE u \in seen
          BY <1>1, <5>2 DEF Covered
        <5>3. CASE \E i \in DOMAIN queue' : queue'[i] = <<u, Depth + 1>>
          <6>1. PICK i \in DOMAIN queue' : queue'[i] = <<u, Depth + 1>>
            BY <5>3
          <6>2. queue'[i][1] = u /\ queue'[i][2] <= n + 1
            BY <3>1, <6>1
          <6>3. QED
            BY <6>2 DEF Covered
        <5>4. QED
          BY <5>1, <5>2, <5>3
      <4>3. CASE x # Url
        <5>1. x \in Followed /\ x \in old(Depth)
          BY <1>3, <1>4, <1>6, <4>1, <4>3
        <5>2. u \in old(Depth + 1)
          BY <1>6, <1>9, <4>1, <5>1 DEF Beyond
        <5>3. Covered(u, Depth + 1)
          BY <1>11, <3>2, <3>3, <5>2
        <5>4. QED
          BY <1>19, <3>1, <3>3, <5>3
      <4>4. QED
        BY <4>2, <4>3
    <3>7. QED
      BY <3>4, <3>5, <3>6
  <2>3. 0 \in S
    <3>1. 0 \in Nat /\ 0 <= Depth
      BY <1>6
    <3>2. QED
      BY <2>1, <3>1
  <2>4. ASSUME NEW n \in S
        PROVE  n + 1 \in S
    <3>1. n + 1 \in Nat
      OBVIOUS
    <3>2. QED
      BY <2>1, <2>2, <3>1
  <2>5. S \in SUBSET Nat
    OBVIOUS
  <2>6. S = Nat
    <3> HIDE DEF S
    <3>1. QED
      BY <2>3, <2>4, <2>5, FirstFailure
  <2>7. QED
    BY <2>6
<1>21. CoverInv'
  BY <1>1, <1>4, <1>5, <1>20 DEF CoverInv, new
<1>22. SearchInv'
  BY <1>1, <1>17, <1>18, <1>21 DEF SearchInv
<1>23. QED
  BY <1>14, <1>15, <1>16, <1>22 DEF IInv

-----------------------------------------------------------------------------
(* The invariant holds. *)

\* The seeds are the first level of the search.
LEMMA InitIInv == Init => IInv
<1> SUFFICES ASSUME Init PROVE IInv
  OBVIOUS
<1>1. /\ job.seeds \in Seq(Urls) /\ job.depth \in Nat /\ job.pages \in Nat
      /\ phase = IF job.seeds = <<>> THEN "done" ELSE "popping"
      /\ queue = [i \in DOMAIN job.seeds |-> <<job.seeds[i], 0>>]
      /\ seen = {} /\ pageCache = {} /\ stored = {} /\ quarantined = {} /\ rowCount = 0
      /\ attempt = 1
      /\ stats = [s \in Status |-> 0] /\ idle = [d \in Domains |-> Delay] /\ quiet = idle
      /\ job \in Jobs /\ robots = [d \in Domains |-> "unknown"] /\ text = <<>>
  BY JobAssumption DEF Init, Job
<1>2. Depth = 0
  BY DEF Init, Depth
<1>3. /\ DOMAIN job.seeds = 1..Len(job.seeds) /\ Len(job.seeds) \in Nat
      /\ \A i \in DOMAIN job.seeds : job.seeds[i] \in Urls
  BY <1>1
<1>4. /\ queue \in Seq(Urls \X Nat) /\ DOMAIN queue = DOMAIN job.seeds
      /\ \A i \in DOMAIN queue : queue[i] = <<job.seeds[i], 0>>
  BY <1>1, <1>3
<1>5. TypeOK
  <2>1. Delay \in 0..Delay /\ 1 \in 1..MaxAttempts /\ 0 \in 0..0
    BY LimitAssumption
  <2>2. stats \in [Status -> Nat] /\ stats["ingested"] = 0
    BY <1>1 DEF Status
  <2>3. phase \in Phase /\ phase # "ingesting"
    BY <1>1 DEF Phase
  <2>4. QED
    BY <1>1, <1>4, <2>1, <2>2, <2>3 DEF TypeOK
<1>6. IsFiniteSet({}) /\ Cardinality({}) = 0
  BY FS_EmptySet
<1>7. PageInv
  <2>1. phase = "done" => queue = <<>>
    <3>1. job.seeds = <<>> => DOMAIN job.seeds = {}
      OBVIOUS
    <3>2. phase = "done" => DOMAIN queue = {}
      BY <1>1, <1>4, <3>1
    <3>3. QED
      BY <1>4, <3>2
  <2>2. QED
    BY <1>1, <1>6, <2>1 DEF PageInv, Busy, Emitted
<1>8. PaceInv
  BY <1>1, LimitAssumption DEF PaceInv
<1>9. StoreInv
  BY <1>1, <1>6 DEF StoreInv, Status
<1>10. Followed = {}
  BY <1>1 DEF Followed
<1>11. Within(job.seeds, 0, {}) = ToSet(job.seeds)
  BY <1>1, WithinIs
<1>12. QueueInv
  <2>1. \A i \in DOMAIN queue : queue[i][1] = job.seeds[i] /\ queue[i][2] = 0
    BY <1>4
  <2>2. \A i \in DOMAIN queue : queue[i][1] \in ToSet(job.seeds)
    BY <1>3, <1>4, <2>1 DEF ToSet
  <2>3. \A i \in DOMAIN queue : queue[i][1] \in Within(job.seeds, queue[i][2], Followed)
    BY <1>10, <1>11, <2>1, <2>2
  <2>4. 0 <= job.depth /\ Depth <= 0 /\ 0 <= Depth + 1 /\ 0 <= 0
    BY <1>1, <1>2
  <2>5. QED
    BY <2>1, <2>3, <2>4 DEF QueueInv
<1>13. TakenInv
  BY <1>1, <1>2 DEF TakenInv, Busy
<1>14. CoverInv
  <2>1. \A n \in Nat : Within(job.seeds, n, {}) = ToSet(job.seeds)
    <3> DEFINE S == {n \in Nat : Within(job.seeds, n, {}) = ToSet(job.seeds)}
    <3>1. 0 \in S
      BY <1>11
    <3>2. ASSUME NEW n \in S
          PROVE  n + 1 \in S
      <4>1. Within(job.seeds, n + 1, {}) = Beyond(Within(job.seeds, n, {}), {})
        BY <1>1, WithinNext
      <4>2. \A w : Beyond(w, {}) = w
        BY DEF Beyond
      <4>3. QED
        BY <3>2, <4>1, <4>2
    <3>3. S \in SUBSET Nat
      OBVIOUS
    <3>4. S = Nat
      <4> HIDE DEF S
      <4>1. QED
        BY <3>1, <3>2, <3>3, FirstFailure
    <3>5. QED
      BY <3>4
  <2>2. SUFFICES ASSUME NEW n \in Nat, NEW u \in ToSet(job.seeds)
                 PROVE  Covered(u, n)
    BY <1>10, <2>1 DEF CoverInv
  <2>3. PICK i \in DOMAIN job.seeds : job.seeds[i] = u
    BY DEF ToSet
  <2>4. i \in DOMAIN queue /\ queue[i][1] = u /\ queue[i][2] = 0 /\ 0 <= n
    BY <1>4, <2>3
  <2>5. QED
    BY <2>4 DEF Covered
<1>15. SearchInv
  BY <1>1, <1>12, <1>13, <1>14 DEF SearchInv
<1>16. QED
  BY <1>5, <1>7, <1>8, <1>9, <1>15 DEF IInv

\* Every step preserves the invariant.
LEMMA NextIInv == IInv /\ [Next]_vars => IInv'
<1> SUFFICES ASSUME IInv, [Next]_vars PROVE IInv'
  OBVIOUS
<1>1. CASE Pop
  BY <1>1, PopInv
<1>2. CASE Finish
  BY <1>2, FinishInv
<1>3. CASE CheckRobots
  BY <1>3, CheckRobotsInv
<1>4. CASE PolitenessWait
  BY <1>4, PolitenessWaitInv
<1>5. CASE GiveUp
  BY <1>5, GiveUpInv
<1>6. CASE FollowLinks
  BY <1>6, FollowLinksInv
<1>7. ASSUME NEW time \in 0..1, Fail(time) \/ Get(time) \/ IngestPage(time)
      PROVE  IInv'
  BY <1>7, FailInv, GetInv, IngestPageInv
<1>8. CASE Abort
  BY <1>8, AbortInv
<1>9. CASE UNCHANGED vars
  <2>1. /\ UNCHANGED <<job, phase, queue, seen, current, robots, pageCache, idle, quiet, attempt>>
        /\ UNCHANGED <<text, chunks, stored, quarantined, stats, rowCount>>
    BY <1>9 DEF vars, frontier, net, ingest
  <2>2. TypeOK' /\ PageInv' /\ PaceInv' /\ StoreInv'
    BY <2>1 DEF IInv, TypeOK, PageInv, PaceInv, StoreInv, Emitted, Heeded, Url, Here, Busy
  <2>3. Followed' = Followed /\ Depth' = Depth /\ Url' = Url /\ Allowed' = Allowed
    BY <2>1 DEF Followed, Depth, Url, Allowed
  <2>4. QueueInv' = QueueInv /\ TakenInv' = TakenInv /\ CoverInv' = CoverInv /\ BoundInv' = BoundInv
    BY <2>1, <2>3 DEF QueueInv, TakenInv, CoverInv, BoundInv, Covered
  <2>5. QED
    BY <2>1, <2>2, <2>4 DEF IInv, SearchInv
<1>10. QED
  BY <1>1, <1>2, <1>3, <1>4, <1>5, <1>6, <1>7, <1>8, <1>9 DEF Next, Step

\* Every reachable state satisfies the invariant.
LEMMA IInvHolds == Spec => []IInv
  BY InitIInv, NextIInv, PTL DEF Spec

-----------------------------------------------------------------------------
(* The results. *)

\* The variables of a crawl keep their types.
THEOREM TypeCorrect == Spec => []TypeOK
<1>1. IInv => TypeOK
  BY DEF IInv
<1>2. QED
  BY <1>1, IInvHolds, PTL

\* A url is only asked for in the crawl's scope, depth and rate and as its site allows, and
\* the pages yielded are among them and no more than asked for.
THEOREM StaysInBounds == Spec => []CrawlStaysInBounds
<1>1. ASSUME IInv
      PROVE  CrawlStaysInBounds
  <2>1. BoundInv
    BY <1>1, TakenBounds DEF IInv
  <2>2. \A u \in pageCache : /\ u \in seen /\ Served[u] \in Html
                             /\ robots[Domain[u]] = "rules" => u \notin Disallowed
    BY <1>1 DEF IInv, PageInv, Heeded
  <2>3. phase = "asking" => /\ robots[Here] = "rules" => Url \notin Disallowed
                            /\ attempt = 1 => quiet[Here] >= Delay
    BY <1>1 DEF IInv, PageInv, PaceInv, Heeded, Here
  <2>4. Emitted <= job.pages
    BY <1>1 DEF IInv, PageInv
  <2>5. QED
    BY <2>1, <2>2, <2>3, <2>4 DEF CrawlStaysInBounds, BoundInv
<1>2. QED
  BY <1>1, IInvHolds, PTL

\* A crawl that ends below its page limit has taken every url of its scope that is within
\* its depth, and the catalog is told of one document per content.
THEOREM MissesNothing == Spec => []CrawlMissesNothing
<1>1. ASSUME IInv
      PROVE  CrawlMissesNothing
  <2>1. SUFFICES ASSUME phase = "done"
                 PROVE  /\ Emitted < job.pages =>
                             \A u \in Within(job.seeds, job.depth, pageCache) :
                               Domain[u] \in Allowed => u \in seen
                        /\ rowCount = Cardinality(stored)
                        /\ \A u \in stored : \E v \in pageCache : Served[v] = u
    BY DEF CrawlMissesNothing
  <2>2. rowCount = Cardinality(stored) /\ \A u \in stored : \E v \in pageCache : Served[v] = u
    BY <1>1, <2>1 DEF IInv, StoreInv
  <2>3. ASSUME Emitted < job.pages, NEW u \in Within(job.seeds, job.depth, pageCache),
               Domain[u] \in Allowed
        PROVE  u \in seen
    <3>1. queue = <<>> /\ DOMAIN <<>> = {}
      BY <1>1, <2>1, <2>3 DEF IInv, PageInv
    <3>2. CoverInv /\ Followed = pageCache /\ job.depth \in Nat
      BY <1>1, <2>1, JobType DEF IInv, SearchInv, Followed
    <3>3. Covered(u, job.depth)
      BY <2>3, <3>2 DEF CoverInv
    <3>4. QED
      BY <3>1, <3>3 DEF Covered
  <2>4. QED
    BY <2>2, <2>3
<1>2. QED
  BY <1>1, IInvHolds, PTL

-----------------------------------------------------------------------------
(* chunk_text.  Sums, and the least and the greatest of a bounded set. *)

\* The recursion that defines SumTo.
LEMMA SumToIs ==
  ASSUME NEW N \in Nat, NEW f \in [1..N -> Nat]
  PROVE  /\ SumTo(f, 0) = 0
         /\ \A n \in 0..N : SumTo(f, n) \in Nat
         /\ \A n \in 1..N : SumTo(f, n) = SumTo(f, n - 1) + f[n]
<1> DEFINE step == [k \in 1..N |-> [v \in Nat |-> v + f[k]]]
           Def(h, n) == h = [k \in 0..n |-> IF k = 0 THEN 0 ELSE h[k - 1] + f[k]]
<1>1. \A k \in 1..N, v \in Nat : step[k][v] = v + f[k] /\ v + f[k] \in Nat
  OBVIOUS
<1> HIDE DEF step
<1>2. Steps(step, N, Nat)
  BY <1>1 DEF Steps
<1>3. PICK g : Follows(g, step, 0, N, Nat)
  BY <1>2, Recursion
<1>4. /\ \A k \in 0..N : g[k] \in Nat
      /\ g[0] = 0
      /\ \A k \in 1..N : g[k] = g[k - 1] + f[k]
  <2>1. \A k \in 1..N : k - 1 \in 0..N
    OBVIOUS
  <2>2. QED
    BY <1>1, <1>3, <2>1 DEF Follows
<1>5. ASSUME NEW n \in 0..N
      PROVE  SumTo(f, n) = g[n]
  <2> DEFINE sum == CHOOSE h : Def(h, n)
             gn == [k \in 0..n |-> g[k]]
             S == {k \in Nat : k \in 0..n => sum[k] = g[k]}
  <2>1. \A k \in 0..n : k = 0 \/ (k \in 1..N /\ k - 1 \in 0..n)
    OBVIOUS
  <2>2. Def(gn, n)
    BY <1>4, <2>1
  <2>3. Def(sum, n)
    BY <2>2
  <2>4. SumTo(f, n) = sum[n]
    BY DEF SumTo
  <2> HIDE DEF sum
  <2>5. /\ sum[0] = 0
        /\ \A k \in 0..n : k # 0 => sum[k] = sum[k - 1] + f[k]
    BY <2>3
  <2>6. 0 \in S
    BY <1>4, <2>5
  <2>7. ASSUME NEW k \in S
        PROVE  k + 1 \in S
    <3>1. SUFFICES ASSUME k + 1 \in 0..n
                   PROVE  sum[k + 1] = g[k + 1]
      BY <2>7
    <3>2. k \in 0..n /\ k + 1 \in 1..N /\ k + 1 # 0 /\ (k + 1) - 1 = k
      BY <2>7, <3>1
    <3>3. sum[k] = g[k]
      BY <2>7, <3>2
    <3>4. QED
      BY <1>4, <2>5, <3>1, <3>2, <3>3
  <2>8. S \in SUBSET Nat
    OBVIOUS
  <2>9. S = Nat
    <3> HIDE DEF S
    <3>1. QED
      BY <2>6, <2>7, <2>8, FirstFailure
  <2>10. QED
    BY <2>4, <2>9
<1>6. 0 \in 0..N /\ \A n \in 1..N : n \in 0..N /\ n - 1 \in 0..N
  OBVIOUS
<1>7. \A n \in 0..N : SumTo(f, n) = g[n]
  BY <1>5
<1>8. \A n \in 1..N : SumTo(f, n) = SumTo(f, n - 1) + f[n]
  BY <1>4, <1>6, <1>7
<1>9. QED
  BY <1>4, <1>6, <1>7, <1>8

\* A sum of more is no less.
LEMMA SumToGrows ==
  ASSUME NEW N \in Nat, NEW f \in [1..N -> Nat], NEW m \in 0..N, NEW n \in m..N
  PROVE  SumTo(f, m) <= SumTo(f, n)
<1> DEFINE g == [k \in 0..N |-> SumTo(f, k)]
<1>1. g \in [0..N -> Int] /\ g[m] = SumTo(f, m) /\ g[n] = SumTo(f, n)
  BY SumToIs
<1>2. \A k \in 1..N : g[k - 1] <= g[k]
  <2>1. TAKE k \in 1..N
  <2>2. k - 1 \in 0..N /\ k \in 0..N /\ f[k] \in Nat
    OBVIOUS
  <2>3. SumTo(f, k) = SumTo(f, k - 1) + f[k] /\ SumTo(f, k - 1) \in Nat
    BY <2>2, SumToIs
  <2>4. QED
    BY <2>2, <2>3
<1> HIDE DEF g
<1>3. g[m] <= g[n]
  BY <1>1, <1>2, Climbs
<1>4. QED
  BY <1>1, <1>3

\* The least and the greatest of a set.
LEMMA MinIs ==
  ASSUME NEW S \in SUBSET Nat, S # {}
  PROVE  Min(S) \in S /\ \A x \in S : Min(S) <= x
<1>1. \E x \in S : \A y \in S : x <= y
  BY LeastOf
<1>2. QED
  BY <1>1 DEF Min

LEMMA MaxIs ==
  ASSUME NEW N \in Nat, NEW S \in SUBSET (0..N), S # {}
  PROVE  Max(S) \in S /\ \A x \in S : Max(S) >= x
<1> DEFINE R == {N - x : x \in S}
<1>1. R \in SUBSET Nat /\ R # {}
  <2>1. \A x \in S : N - x \in Nat
    OBVIOUS
  <2>2. QED
    BY <2>1
<1>2. PICK r \in R : \A y \in R : r <= y
  <2> HIDE DEF R
  <2>1. QED
    BY <1>1, LeastOf
<1>3. PICK x \in S : r = N - x
  BY <1>2
<1>4. \A y \in S : N - y \in R
  OBVIOUS
<1>5. \A y \in S : x >= y
  <2>1. TAKE y \in S
  <2>2. N - x <= N - y
    BY <1>2, <1>3, <1>4
  <2>3. x \in Nat /\ y \in Nat
    BY <1>3
  <2>4. QED
    BY <2>2, <2>3
<1>6. QED
  BY <1>5 DEF Max

-----------------------------------------------------------------------------
(* The windows. *)

\* What is needed of the units to cut them into windows.
Countable(units) ==
  /\ Len(units) \in Nat /\ DOMAIN units = 1..Len(units)
  /\ \A u \in 1..Len(units) : units[u].count \in Nat

\* The tokens of a window are a sum that grows at both ends.
LEMMA TokensIs ==
  ASSUME NEW units, Countable(units), NEW i \in 1..(Len(units) + 1), NEW j \in i..(Len(units) + 1)
  PROVE  /\ Tokens(units, i, j) \in Nat
         /\ Tokens(units, i, i) = 0
         /\ j <= Len(units) => Tokens(units, i, j + 1) = Tokens(units, i, j) + units[j].count
         /\ \A h \in 1..i : Tokens(units, i, j) <= Tokens(units, h, j)
<1> DEFINE L == Len(units)
           counts == [u \in DOMAIN units |-> units[u].count]
           sum(k) == SumTo(counts, k)
<1>1. L \in Nat /\ counts \in [1..L -> Nat] /\ \A u \in 1..L : counts[u] = units[u].count
  BY DEF Countable
<1>2. \A a, b : Tokens(units, a, b) = sum(b - 1) - sum(a - 1)
  BY DEF Tokens
<1> HIDE DEF counts
<1>3. \A k \in 0..L : sum(k) \in Nat
  BY <1>1, SumToIs
<1>4. \A k \in 1..L : sum(k) = sum(k - 1) + counts[k]
  BY <1>1, SumToIs
<1>5. \A m \in 0..L : \A n \in m..L : sum(m) <= sum(n)
  BY <1>1, SumToGrows
<1> HIDE DEF sum
<1>6. /\ i \in Nat /\ j \in Nat /\ i - 1 \in 0..L /\ j - 1 \in (i - 1)..L /\ j - 1 \in 0..L
      /\ (j + 1) - 1 = j
  BY <1>1
<1>7. sum(j - 1) \in Nat /\ sum(i - 1) \in Nat /\ sum(i - 1) <= sum(j - 1)
  BY <1>3, <1>5, <1>6
<1>8. Tokens(units, i, j) \in Nat /\ Tokens(units, i, i) = 0
  BY <1>2, <1>7
<1>9. ASSUME j <= L
      PROVE  Tokens(units, i, j + 1) = Tokens(units, i, j) + units[j].count
  <2>1. j \in 1..L
    BY <1>1, <1>6, <1>9
  <2>2. sum(j) = sum(j - 1) + counts[j] /\ counts[j] = units[j].count /\ counts[j] \in Nat
    BY <1>1, <1>4, <2>1
  <2>3. QED
    BY <1>2, <1>6, <1>7, <2>2
<1>10. ASSUME NEW h \in 1..i
       PROVE  Tokens(units, i, j) <= Tokens(units, h, j)
  <2>1. h - 1 \in 0..L /\ i - 1 \in (h - 1)..L
    BY <1>1, <1>6
  <2>2. sum(h - 1) <= sum(i - 1) /\ sum(h - 1) \in Nat
    BY <1>3, <1>5, <2>1
  <2>3. QED
    BY <1>2, <1>7, <2>2
<1>11. QED
  BY <1>8, <1>9, <1>10

\* Where a window ends: after its first unit, not beyond the last, and no sooner than it must.
Ends(units, i, j) ==
  \/ j > Len(units)
  \/ Tokens(units, i, j) >= ChunkTarget
  \/ Tokens(units, i, j) > 0 /\ Tokens(units, i, j + 1) > ChunkMax

LEMMA StopIs ==
  ASSUME NEW units, Countable(units), NEW i \in 1..Len(units)
  PROVE  /\ Stop(units, i) \in (i + 1)..(Len(units) + 1)
         /\ Ends(units, i, Stop(units, i))
         /\ \A j \in (i + 1)..(Stop(units, i) - 1) : ~Ends(units, i, j)
         /\ \/ Tokens(units, i, Stop(units, i)) <= ChunkMax
            \/ Tokens(units, i, Stop(units, i) - 1) = 0
<1> DEFINE L == Len(units)
           S == {j \in (i + 1)..(L + 1) : Ends(units, i, j)}
           stop == Stop(units, i)
<1>1. L \in Nat /\ i \in Nat /\ i <= L
  BY DEF Countable
<1>2. stop = Min(S)
  BY DEF Stop, Ends
<1>3. S \in SUBSET Nat
  BY <1>1
<1>4. L + 1 \in S
  BY <1>1 DEF Ends
<1> HIDE DEF S
<1>5. stop \in S /\ \A j \in S : stop <= j
  BY <1>2, <1>3, <1>4, MinIs
<1>6. stop \in (i + 1)..(L + 1) /\ Ends(units, i, stop)
  BY <1>5 DEF S
<1> HIDE DEF stop
<1>7. ASSUME NEW j \in (i + 1)..(stop - 1)
      PROVE  ~Ends(units, i, j)
  <2>1. j \in (i + 1)..(L + 1) /\ ~(stop <= j)
    BY <1>1, <1>6
  <2>2. j \notin S
    BY <1>5, <2>1
  <2>3. QED
    BY <2>1, <2>2 DEF S
<1>8. Tokens(units, i, stop) <= ChunkMax \/ Tokens(units, i, stop - 1) = 0
  <2>1. CASE stop = i + 1
    <3>1. i \in 1..(L + 1) /\ i \in i..(L + 1) /\ stop - 1 = i
      BY <1>1, <2>1
    <3>2. QED
      BY <3>1, TokensIs
  <2>2. CASE stop # i + 1
    <3>1. stop - 1 \in (i + 1)..(stop - 1) /\ (stop - 1) + 1 = stop
      BY <1>1, <1>6, <2>2
    <3>2. ~(Tokens(units, i, stop - 1) > 0 /\ Tokens(units, i, stop) > ChunkMax)
      BY <1>7, <3>1 DEF Ends
    <3>3. i \in 1..(L + 1) /\ stop \in i..(L + 1) /\ stop - 1 \in i..(L + 1)
      BY <1>1, <1>6
    <3>4. Tokens(units, i, stop) \in Nat /\ Tokens(units, i, stop - 1) \in Nat
      BY <3>3, TokensIs
    <3>5. QED
      BY <3>2, <3>4, ChunkAssumption
  <2>3. QED
    BY <2>1, <2>2
<1>9. QED
  BY <1>6, <1>7, <1>8 DEF stop

\* What the next window repeats is not the whole window, and the next ends no sooner.
LEMMA NextWindow ==
  ASSUME NEW units, Countable(units), NEW i \in 1..Len(units), Stop(units, i) <= Len(units),
         NEW k, k = Stop(units, i) - Back(units, i, Stop(units, i))
  PROVE  k \in (i + 1)..Stop(units, i) /\ Stop(units, i) <= Stop(units, k)
<1> DEFINE L == Len(units)
           stop == Stop(units, i)
           fits(b) == \/ b <= 1
                      \/ Tokens(units, stop - b, stop) * 100 <= Tokens(units, i, stop) * OverlapPct
           B == {b \in 0..(stop - i - 1) : fits(b)}
<1>1. L \in Nat /\ i \in Nat /\ i <= L
  BY DEF Countable
<1>2. stop \in (i + 1)..(L + 1) /\ stop <= L
  BY StopIs
<1>3. \A j \in (i + 1)..(stop - 1) : ~Ends(units, i, j)
  BY StopIs
<1>4. Back(units, i, stop) = Max(B)
  BY DEF Back
<1> HIDE DEF stop, fits
<1>5. stop - i - 1 \in Nat /\ B \in SUBSET (0..(stop - i - 1))
  BY <1>1, <1>2
<1>6. 0 \in B
  BY <1>5 DEF fits
<1> HIDE DEF B
<1>7. Max(B) \in 0..(stop - i - 1)
  BY <1>5, <1>6, MaxIs
<1>8. k \in (i + 1)..stop
  BY <1>1, <1>2, <1>4, <1>7 DEF stop
<1>9. k \in 1..L
  BY <1>1, <1>2, <1>8
<1>10. Stop(units, k) \in (k + 1)..(L + 1) /\ Ends(units, k, Stop(units, k))
  BY <1>9, StopIs
<1>11. ASSUME ~(stop <= Stop(units, k))
       PROVE  FALSE
  <2> DEFINE j == Stop(units, k)
  <2>1. j \in (i + 1)..(stop - 1) /\ j \in k..(L + 1) /\ j + 1 \in k..(L + 1) /\ ~(j > L)
    BY <1>1, <1>2, <1>8, <1>10, <1>11
  <2>2. ~Ends(units, i, j)
    BY <1>3, <2>1
  <2>3. /\ i \in 1..k /\ k \in 1..(L + 1) /\ i \in 1..(L + 1)
        /\ j \in i..(L + 1) /\ j + 1 \in i..(L + 1)
    BY <1>1, <1>2, <1>8, <2>1
  <2>4. Ends(units, k, j)
    BY <1>10
  <2> HIDE DEF j
  <2>5. /\ Tokens(units, k, j) <= Tokens(units, i, j)
        /\ Tokens(units, k, j + 1) <= Tokens(units, i, j + 1)
    BY <2>1, <2>3, TokensIs
  <2>6. /\ Tokens(units, k, j) \in Nat /\ Tokens(units, i, j) \in Nat
        /\ Tokens(units, k, j + 1) \in Nat /\ Tokens(units, i, j + 1) \in Nat
    BY <2>1, <2>3, TokensIs
  <2>7. QED
    BY <2>1, <2>2, <2>4, <2>5, <2>6, ChunkAssumption DEF Ends
<1>12. QED
  BY <1>8, <1>11 DEF stop

\* The windows begin at at[0], at[1], ...; the last of them reaches the end.
Windows(units, at, count) ==
  /\ at \in [Nat -> 1..Len(units)] /\ count \in 1..Len(units)
  /\ at[0] = 1
  /\ \A n \in 1..count : Stop(units, at[n - 1]) > Len(units) <=> n = count
  /\ \A n \in 1..count : n # count =>
       at[n] = Stop(units, at[n - 1]) - Back(units, at[n - 1], Stop(units, at[n - 1]))

\* chunk_text has a last window, because each begins after the one before.
LEMMA ChunksAreWindows ==
  ASSUME NEW lines, Countable(Units(lines)), Units(lines) # <<>>, Len(Units(lines)) # 0
  PROVE  \E at, count :
           /\ Windows(Units(lines), at, count)
           /\ ChunkText(lines) =
                [n \in 1..count |->
                   Chunk(Units(lines), at[n - 1], Stop(Units(lines), at[n - 1]), n - 1)]
<1> DEFINE units == Units(lines)
           L == Len(units)
           V == 1..L
           Onward(i) == IF Stop(units, i) > L THEN i
                        ELSE Stop(units, i) - Back(units, i, Stop(units, i))
           step == [k \in Nat |-> [v \in V |-> Onward(v)]]
           Def(h) == h = [n \in Nat |-> IF n = 0 THEN 1 ELSE
                            LET i == h[n - 1]
                                j == Stop(units, i)
                            IN  IF j > L THEN i ELSE j - Back(units, i, j)]
           at == CHOOSE h : Def(h)
           C == {n \in 1..L : Stop(units, at[n - 1]) > L}
           count == Min(C)
<1>1. Countable(units) /\ units # <<>> /\ L # 0
  OBVIOUS
<1>2. ChunkText(lines) = [n \in 1..count |-> Chunk(units, at[n - 1], Stop(units, at[n - 1]), n - 1)]
  BY <1>1 DEF ChunkText
<1> HIDE DEF units
<1>3. L \in Nat /\ 1 \in V
  BY <1>1 DEF Countable
<1>4. ASSUME NEW i \in V
      PROVE  /\ Stop(units, i) \in (i + 1)..(L + 1)
             /\ Stop(units, i) <= L => Onward(i) \in (i + 1)..L
             /\ Onward(i) \in V
  <2>1. i \in Nat /\ i <= L /\ Stop(units, i) \in (i + 1)..(L + 1)
    BY <1>1, <1>3, StopIs
  <2>2. ASSUME Stop(units, i) <= L
        PROVE  Onward(i) \in (i + 1)..L
    <3> DEFINE k == Stop(units, i) - Back(units, i, Stop(units, i))
    <3>1. k \in (i + 1)..Stop(units, i)
      BY <1>1, <2>2, NextWindow
    <3>2. Onward(i) = k
      BY <1>3, <2>1, <2>2
    <3> HIDE DEF k
    <3>3. QED
      BY <1>3, <2>1, <2>2, <3>1, <3>2
  <2>3. CASE Stop(units, i) > L
    BY <1>3, <2>1, <2>3
  <2>4. CASE Stop(units, i) <= L
    BY <1>3, <2>1, <2>2, <2>4
  <2>5. QED
    BY <1>3, <2>1, <2>2, <2>3, <2>4
<1> HIDE DEF Onward
<1>5. \A k \in Nat, v \in V : step[k][v] = Onward(v)
  OBVIOUS
<1> HIDE DEF step
<1>6. PICK g : FollowsAlways(g, step, 1, V)
  <2>1. \A n \in Nat : Steps(step, n, V)
    BY <1>4, <1>5 DEF Steps
  <2>2. QED
    BY <1>3, <2>1, RecursionAlways
<1>7. g \in [Nat -> V] /\ \A n \in Nat : g[n] = IF n = 0 THEN 1 ELSE Onward(g[n - 1])
  <2>1. \A k \in Nat : k # 0 => k - 1 \in Nat /\ (k - 1) + 1 = k
    OBVIOUS
  <2> HIDE DEF V
  <2>2. QED
    BY <1>5, <1>6, <2>1 DEF FollowsAlways
<1>8. Def(g)
  BY <1>7 DEF Onward
<1>9. Def(at)
  BY <1>8
<1> HIDE DEF at
<1>10. at[0] = 1 /\ \A n \in Nat : at[n + 1] = Onward(at[n])
  <2>1. \A n \in Nat : at[n] = IF n = 0 THEN 1 ELSE Onward(at[n - 1])
    BY <1>9 DEF Onward
  <2>2. \A n \in Nat : n + 1 \in Nat /\ n + 1 # 0 /\ (n + 1) - 1 = n
    OBVIOUS
  <2>3. QED
    BY <2>1, <2>2
<1> DEFINE T == {n \in Nat : at[n] \in V}
<1>11. T = Nat
  <2>1. 0 \in T
    BY <1>3, <1>10
  <2>2. ASSUME NEW n \in T
        PROVE  n + 1 \in T
    <3>1. at[n] \in V /\ n \in Nat
      BY <2>2
    <3>2. Onward(at[n]) \in V
      BY <1>4, <3>1
    <3>3. at[n + 1] = Onward(at[n])
      BY <1>10, <3>1
    <3> HIDE DEF V
    <3>4. QED
      BY <3>1, <3>2, <3>3
  <2>3. T \in SUBSET Nat
    OBVIOUS
  <2> HIDE DEF T
  <2>4. QED
    BY <2>1, <2>2, <2>3, FirstFailure
<1>12. at \in [Nat -> V]
  BY <1>9, <1>11
<1>13. C # {}
  <2>1. SUFFICES ASSUME C = {}
                 PROVE  FALSE
    OBVIOUS
  <2>2. \A n \in 1..L : Stop(units, at[n - 1]) <= L
    <3>1. TAKE n \in 1..L
    <3>2. n - 1 \in Nat /\ ~(Stop(units, at[n - 1]) > L)
      BY <2>1
    <3>3. at[n - 1] \in V
      BY <1>12, <3>2
    <3> DEFINE i == at[n - 1]
    <3> HIDE DEF i
    <3>4. i \in V
      BY <3>3 DEF i
    <3>5. Stop(units, i) \in (i + 1)..(L + 1) /\ i \in Nat
      BY <1>4, <3>4
    <3>6. ~(Stop(units, i) > L)
      BY <3>2 DEF i
    <3>7. Stop(units, i) <= L
      BY <1>3, <3>5, <3>6
    <3>8. QED
      BY <3>7 DEF i
  <2> DEFINE A == {n \in Nat : n <= L => at[n] >= n + 1}
  <2>3. 0 \in A
    BY <1>10
  <2>4. ASSUME NEW n \in A
        PROVE  n + 1 \in A
    <3>1. SUFFICES ASSUME n + 1 <= L
                   PROVE  at[n + 1] >= (n + 1) + 1
      BY <2>4
    <3>2. n \in Nat /\ n <= L /\ n + 1 \in 1..L /\ (n + 1) - 1 = n
      BY <1>3, <2>4, <3>1
    <3>3. Stop(units, at[n]) <= L
      BY <2>2, <3>2
    <3>4. at[n] \in V /\ at[n] >= n + 1
      BY <1>12, <2>4, <3>2
    <3>5. at[n + 1] \in (at[n] + 1)..L
      BY <1>4, <1>10, <3>2, <3>3, <3>4
    <3>6. QED
      BY <3>2, <3>4, <3>5
  <2>5. A \in SUBSET Nat
    OBVIOUS
  <2>6. A = Nat
    <3> HIDE DEF A
    <3>1. QED
      BY <2>3, <2>4, <2>5, FirstFailure
  <2>7. at[L] >= L + 1
    <3>1. L \in A
      BY <1>3, <2>6
    <3>2. QED
      BY <1>3, <3>1
  <2>8. at[L] \in V
    BY <1>3, <1>12
  <2>9. QED
    BY <1>3, <2>7, <2>8
<1>14. C \in SUBSET Nat
  BY <1>3
<1>15. C \subseteq 1..L /\ \A n \in 1..L : n \in C <=> Stop(units, at[n - 1]) > L
  OBVIOUS
<1> HIDE DEF C
<1>16. count \in C /\ \A n \in C : count <= n
  BY <1>13, <1>14, MinIs
<1> HIDE DEF count
<1>17. count \in 1..L /\ \A n \in 1..count : Stop(units, at[n - 1]) > L <=> n = count
  <2>1. count \in 1..L
    BY <1>15, <1>16
  <2>2. \A n \in 1..count : n \in 1..L /\ (count <= n => n = count)
    BY <2>1
  <2>3. QED
    BY <1>15, <1>16, <2>1, <2>2
<1>18. ASSUME NEW n \in 1..count, n # count
       PROVE  at[n] = Stop(units, at[n - 1]) - Back(units, at[n - 1], Stop(units, at[n - 1]))
  <2>1. n - 1 \in Nat /\ (n - 1) + 1 = n
    BY <1>17
  <2>2. at[n] = Onward(at[n - 1])
    BY <1>10, <2>1
  <2>3. ~(Stop(units, at[n - 1]) > L)
    BY <1>17, <1>18
  <2>4. QED
    BY <2>2, <2>3 DEF Onward
<1>19. Windows(units, at, count)
  BY <1>10, <1>12, <1>17, <1>18 DEF Windows
<1>20. QED
  BY <1>2, <1>19 DEF units

\* A window follows the one before without a gap; it begins later and ends no sooner.
LEMMA WindowsFollow ==
  ASSUME NEW units, Countable(units), NEW at, NEW count, Windows(units, at, count)
  PROVE  /\ count \in Nat
         /\ \A n \in 1..count : /\ n - 1 \in Nat /\ n \in Nat /\ at[n - 1] \in 1..Len(units)
                                /\ Stop(units, at[n - 1]) \in (at[n - 1] + 1)..(Len(units) + 1)
                                /\ \/ Tokens(units, at[n - 1], Stop(units, at[n - 1])) <= ChunkMax
                                   \/ Tokens(units, at[n - 1], Stop(units, at[n - 1]) - 1) = 0
         /\ \A n \in 1..count : n # count =>
              /\ at[n] \in (at[n - 1] + 1)..Stop(units, at[n - 1])
              /\ Stop(units, at[n - 1]) <= Stop(units, at[n])
<1>1. Len(units) \in Nat /\ count \in Nat /\ at \in [Nat -> 1..Len(units)]
  <2>1. Len(units) \in Nat
    BY DEF Countable
  <2>2. at \in [Nat -> 1..Len(units)]
    BY DEF Windows
  <2>3. count \in 1..Len(units)
    BY DEF Windows
  <2>4. count \in Nat
    BY <2>1, <2>3
  <2>5. QED
    BY <2>1, <2>2, <2>4
<1>2. ASSUME NEW n \in 1..count
      PROVE  /\ n - 1 \in Nat /\ n \in Nat /\ at[n - 1] \in 1..Len(units)
             /\ Stop(units, at[n - 1]) \in (at[n - 1] + 1)..(Len(units) + 1)
             /\ \/ Tokens(units, at[n - 1], Stop(units, at[n - 1])) <= ChunkMax
                \/ Tokens(units, at[n - 1], Stop(units, at[n - 1]) - 1) = 0
  <2>1. n - 1 \in Nat /\ n \in Nat
    BY <1>1
  <2>2. at[n - 1] \in 1..Len(units)
    BY <1>1, <2>1
  <2>3. QED
    BY <2>1, <2>2, StopIs
<1>3. ASSUME NEW n \in 1..count, n # count
      PROVE  /\ at[n] \in (at[n - 1] + 1)..Stop(units, at[n - 1])
             /\ Stop(units, at[n - 1]) <= Stop(units, at[n])
  <2> DEFINE i == at[n - 1]
  <2>1. ~(Stop(units, i) > Len(units)) /\ at[n] = Stop(units, i) - Back(units, i, Stop(units, i))
    BY <1>3 DEF Windows
  <2>2. i \in 1..Len(units) /\ Stop(units, i) \in (i + 1)..(Len(units) + 1)
    BY <1>2
  <2> HIDE DEF i
  <2>3. Stop(units, i) <= Len(units)
    BY <1>1, <2>1, <2>2
  <2>4. at[n] \in (i + 1)..Stop(units, i) /\ Stop(units, i) <= Stop(units, at[n])
    BY <2>1, <2>2, <2>3, NextWindow
  <2>5. QED
    BY <2>4 DEF i
<1>4. QED
  BY <1>1, <1>2, <1>3

\* Together the windows hold every unit.
LEMMA WindowsCover ==
  ASSUME NEW units, Countable(units), NEW at, NEW count, Windows(units, at, count),
         NEW u \in 1..Len(units)
  PROVE  \E n \in 1..count : u \in at[n - 1]..(Stop(units, at[n - 1]) - 1)
<1> DEFINE In(n) == u \in at[n - 1]..(Stop(units, at[n - 1]) - 1)
           S == {n \in Nat : n \in 1..count /\ u < Stop(units, at[n - 1])
                               => \E m \in 1..count : In(m)}
<1>1. /\ Len(units) \in Nat /\ count \in Nat /\ count \in 1..count /\ u \in Nat /\ u <= Len(units)
      /\ at[0] = 1
  BY DEF Countable, Windows
<1>2. \A n \in 1..count : at[n - 1] \in Nat /\ Stop(units, at[n - 1]) \in Nat
  <2>1. TAKE n \in 1..count
  <2>2. at[n - 1] \in 1..Len(units) /\ Stop(units, at[n - 1]) \in (at[n - 1] + 1)..(Len(units) + 1)
    BY WindowsFollow
  <2>3. at[n - 1] \in Nat
    BY <1>1, <2>2
  <2>4. QED
    BY <1>1, <2>2, <2>3
<1>3. \A n \in 1..count : at[n - 1] <= u /\ u < Stop(units, at[n - 1]) => In(n)
  BY <1>1, <1>2
<1> HIDE DEF In
<1>4. 0 \in S
  OBVIOUS
<1>5. ASSUME NEW n \in S
      PROVE  n + 1 \in S
  <2>1. SUFFICES ASSUME n + 1 \in 1..count, u < Stop(units, at[n])
                 PROVE  \E m \in 1..count : In(m)
    <3>1. n \in Nat /\ (n + 1) - 1 = n
      BY <1>5
    <3>2. QED
      BY <3>1
  <2>2. n \in Nat /\ (n + 1) - 1 = n /\ at[n] \in Nat
    <3>1. n \in Nat /\ (n + 1) - 1 = n
      BY <1>5
    <3>2. QED
      BY <1>2, <2>1, <3>1
  <2>3. CASE at[n] <= u
    BY <1>3, <2>1, <2>2, <2>3
  <2>4. CASE u < at[n] /\ n = 0
    BY <1>1, <2>4
  <2>5. CASE u < at[n] /\ n # 0
    <3>1. n \in 1..count /\ n # count
      BY <1>1, <2>1, <2>2, <2>5
    <3>2. at[n] \in (at[n - 1] + 1)..Stop(units, at[n - 1])
      BY <3>1, WindowsFollow
    <3>3. u < Stop(units, at[n - 1])
      BY <1>1, <1>2, <2>2, <2>5, <3>1, <3>2
    <3>4. QED
      BY <1>5, <3>1, <3>3
  <2>6. QED
    BY <1>1, <2>2, <2>3, <2>4, <2>5
<1>6. S \in SUBSET Nat
  OBVIOUS
<1>7. S = Nat
  <2> HIDE DEF S
  <2>1. QED
    BY <1>4, <1>5, <1>6, FirstFailure
<1>8. Stop(units, at[count - 1]) > Len(units) /\ Stop(units, at[count - 1]) \in Nat
  BY <1>1, <1>2 DEF Windows
<1>9. count \in S
  BY <1>1, <1>7
<1>10. u < Stop(units, at[count - 1])
  BY <1>1, <1>8
<1>11. QED
  BY <1>1, <1>9, <1>10 DEF In

-----------------------------------------------------------------------------
(* The units. *)

\* The parts of a line; one that is split has an entry in again for each of its pieces.
LEMMA LineParts ==
  ASSUME NEW line \in Line
  PROVE  /\ line.before \in Nat /\ line.after \in Nat /\ Len(line.tokens) \in Nat
         /\ \A n \in 1..Len(line.tokens) : line.tokens[n] \in BOOLEAN
         /\ Len(line.tokens) > ChunkMax =>
              \A p \in 1..PieceCount(Len(line.tokens)) : line.again[p] \in Nat \ {0}
<1>1. line \in [before: Nat, tokens: Seq(BOOLEAN), after: Nat, again: Seq(Nat \ {0})]
  BY DEF Line
<1>2. Len(line.tokens) > ChunkMax => Len(line.again) = PieceCount(Len(line.tokens))
  BY DEF Line
<1>3. QED
  BY <1>1, <1>2

\* More tokens decode to no fewer characters.
LEMMA CharsStep ==
  ASSUME NEW line \in Line, NEW n \in 1..Len(line.tokens), Chars(line, n - 1) \in Nat
  PROVE  Chars(line, n) \in Nat /\ Chars(line, n - 1) <= Chars(line, n)
<1> DEFINE K(m) == {k \in 1..m : line.tokens[k]}
           torn(m) == IF m > 0 /\ ~line.tokens[m] THEN 1 ELSE 0
<1>1. /\ Len(line.tokens) \in Nat /\ n \in Nat /\ n - 1 \in Nat /\ n > 0
      /\ \A k \in 1..Len(line.tokens) : line.tokens[k] \in BOOLEAN
  BY DEF Line
<1>2. \A m \in Nat : IsFiniteSet(K(m)) /\ Cardinality(K(m)) \in Nat
  <2>1. TAKE m \in Nat
  <2>2. IsFiniteSet(1..m)
    BY FS_Interval
  <2>3. K(m) \subseteq 1..m
    OBVIOUS
  <2>4. IsFiniteSet(K(m))
    BY <2>2, <2>3, FS_Subset
  <2>5. QED
    BY <2>4, FS_CardinalityType
<1>3. \A m : Chars(line, m) = Cardinality(K(m)) + torn(m)
  BY DEF Chars
<1>4. torn(n - 1) \in {0, 1} /\ torn(n) = (IF line.tokens[n] THEN 0 ELSE 1)
  BY <1>1
<1>5. line.tokens[n] => K(n) = K(n - 1) \cup {n} /\ n \notin K(n - 1)
  BY <1>1
<1>6. ~line.tokens[n] => K(n) = K(n - 1)
  BY <1>1
<1> HIDE DEF K, torn
<1>7. Cardinality(K(n)) \in Nat /\ Cardinality(K(n - 1)) \in Nat
  BY <1>1, <1>2
<1>8. CASE line.tokens[n]
  <2>1. Cardinality(K(n)) = Cardinality(K(n - 1)) + 1
    BY <1>1, <1>2, <1>5, <1>8, FS_AddElement
  <2>2. torn(n) = 0
    BY <1>4, <1>8
  <2>3. QED
    BY <1>3, <1>4, <1>7, <2>1, <2>2
<1>9. CASE ~line.tokens[n]
  <2>1. Cardinality(K(n)) = Cardinality(K(n - 1)) /\ torn(n) = 1
    BY <1>4, <1>6, <1>9
  <2>2. QED
    BY <1>3, <1>4, <1>7, <2>1
<1>10. QED
  BY <1>8, <1>9

LEMMA CharsGrow ==
  ASSUME NEW line \in Line
  PROVE  /\ Len(line.tokens) \in Nat
         /\ \A n \in 0..Len(line.tokens) : Chars(line, n) \in Nat
         /\ \A m, n \in 0..Len(line.tokens) : m <= n => Chars(line, m) <= Chars(line, n)
<1> DEFINE N == Len(line.tokens)
           g == [n \in 0..N |-> Chars(line, n)]
           S == {n \in Nat : n \in 0..N => Chars(line, n) \in Nat}
<1>1. N \in Nat
  BY DEF Line
<1>2. Chars(line, 0) = 0
  <2>1. {k \in 1..0 : line.tokens[k]} = {}
    OBVIOUS
  <2>2. QED
    BY <2>1, FS_EmptySet DEF Chars
<1>3. ASSUME NEW n \in S
      PROVE  n + 1 \in S
  <2>1. SUFFICES ASSUME n + 1 \in 0..N
                 PROVE  Chars(line, n + 1) \in Nat
    BY <1>3
  <2>2. n + 1 \in 1..N /\ (n + 1) - 1 = n /\ Chars(line, n) \in Nat
    BY <1>1, <1>3, <2>1
  <2>3. QED
    BY <2>2, CharsStep
<1>4. S \in SUBSET Nat /\ 0 \in S
  BY <1>2
<1>5. S = Nat
  <2> HIDE DEF S
  <2>1. QED
    BY <1>3, <1>4, FirstFailure
<1>6. \A n \in 0..N : Chars(line, n) \in Nat
  BY <1>1, <1>5
<1>7. g \in [0..N -> Int] /\ \A n \in 0..N : g[n] = Chars(line, n)
  BY <1>6
<1>8. \A n \in 1..N : g[n - 1] <= g[n]
  <2>1. TAKE n \in 1..N
  <2>2. n - 1 \in 0..N /\ n \in 0..N /\ Chars(line, n - 1) \in Nat
    BY <1>1, <1>6
  <2>3. QED
    BY <1>7, <2>2, CharsStep
<1> HIDE DEF g
<1>9. ASSUME NEW m \in 0..N, NEW n \in 0..N, m <= n
      PROVE  Chars(line, m) <= Chars(line, n)
  <2>1. n \in m..N
    BY <1>1, <1>9
  <2>2. g[m] <= g[n]
    BY <1>1, <1>7, <1>8, <2>1, Climbs
  <2>3. QED
    BY <1>7, <2>2
<1>10. QED
  BY <1>1, <1>6, <1>9

\* No token decodes to no character, and one to at least one.
LEMMA CharsEnds ==
  ASSUME NEW line \in Line
  PROVE  Chars(line, 0) = 0 /\ \A n \in 1..Len(line.tokens) : Chars(line, n) > 0
<1> DEFINE K(m) == {k \in 1..m : line.tokens[k]}
           torn(m) == IF m > 0 /\ ~line.tokens[m] THEN 1 ELSE 0
<1>1. \A m : Chars(line, m) = Cardinality(K(m)) + torn(m)
  BY DEF Chars
<1>2. Chars(line, 0) = 0
  <2>1. K(0) = {} /\ torn(0) = 0
    OBVIOUS
  <2>2. QED
    BY <1>1, <2>1, FS_EmptySet
<1>3. ASSUME NEW n \in 1..Len(line.tokens)
      PROVE  Chars(line, n) > 0
  <2>1. n \in Nat /\ n > 0
    BY DEF Line
  <2>2. IsFiniteSet(K(n)) /\ Cardinality(K(n)) \in Nat
    <3>1. IsFiniteSet(1..n) /\ K(n) \subseteq 1..n
      BY <2>1, FS_Interval
    <3>2. IsFiniteSet(K(n))
      BY <3>1, FS_Subset
    <3>3. QED
      BY <3>2, FS_CardinalityType
  <2>3. \/ n \in K(n) /\ torn(n) = 0
        \/ torn(n) = 1
    BY <2>1
  <2> HIDE DEF K, torn
  <2>4. n \in K(n) => Cardinality(K(n)) # 0
    BY <2>2, FS_EmptySet
  <2>5. QED
    BY <1>1, <2>2, <2>3, <2>4
<1>4. QED
  BY <1>2, <1>3

\* A line ends before the next begins.
LEMMA OffsetGrows ==
  ASSUME NEW lines \in Seq(Line)
  PROVE  /\ \A k \in 1..(Len(lines) + 1) : Offset(lines, k) \in Nat
         /\ \A k \in 1..Len(lines) : \A l \in (k + 1)..(Len(lines) + 1) :
              Offset(lines, k) + lines[k].before + Chars(lines[k], Len(lines[k].tokens))
                <= Offset(lines, l)
<1> DEFINE N == Len(lines)
           size == [l \in DOMAIN lines |->
                      lines[l].before + Chars(lines[l], Len(lines[l].tokens)) + lines[l].after]
           sum(k) == SumTo(size, k)
<1>1. N \in Nat /\ DOMAIN lines = 1..N /\ \A k \in 1..N : lines[k] \in Line
  OBVIOUS
<1>2. \A k \in 1..N : /\ lines[k].before \in Nat /\ lines[k].after \in Nat
                      /\ Chars(lines[k], Len(lines[k].tokens)) \in Nat
  <2>1. TAKE k \in 1..N
  <2>2. lines[k] \in Line /\ Len(lines[k].tokens) \in Nat
    BY <1>1, CharsGrow
  <2>3. Len(lines[k].tokens) \in 0..Len(lines[k].tokens)
    BY <2>2
  <2>4. Chars(lines[k], Len(lines[k].tokens)) \in Nat
    BY <2>2, <2>3, CharsGrow
  <2>5. QED
    BY <2>2, <2>4 DEF Line
<1>3. size \in [1..N -> Nat]
  BY <1>1, <1>2
<1>4. \A k \in 1..N :
        size[k] = lines[k].before + Chars(lines[k], Len(lines[k].tokens)) + lines[k].after
  BY <1>1
<1>5. \A k : Offset(lines, k) = sum(k - 1)
  BY DEF Offset
<1> HIDE DEF size
<1>6. \A k \in 0..N : sum(k) \in Nat
  BY <1>1, <1>3, SumToIs
<1>7. \A k \in 1..N : sum(k) = sum(k - 1) + size[k]
  BY <1>1, <1>3, SumToIs
<1>8. \A m \in 0..N : \A n \in m..N : sum(m) <= sum(n)
  BY <1>1, <1>3, SumToGrows
<1> HIDE DEF sum
<1>9. ASSUME NEW k \in 1..(N + 1)
      PROVE  Offset(lines, k) \in Nat
  <2>1. k - 1 \in 0..N
    BY <1>1
  <2>2. QED
    BY <1>5, <1>6, <2>1
<1>10. ASSUME NEW k \in 1..N, NEW l \in (k + 1)..(N + 1)
       PROVE  Offset(lines, k) + lines[k].before + Chars(lines[k], Len(lines[k].tokens))
                <= Offset(lines, l)
  <2> DEFINE b == lines[k].before
             c == Chars(lines[k], Len(lines[k].tokens))
             a == lines[k].after
  <2>1. k \in 0..N /\ k - 1 \in 0..N /\ l - 1 \in k..N /\ l - 1 \in 0..N
    BY <1>1
  <2>2. sum(k - 1) \in Nat /\ sum(k) \in Nat /\ sum(l - 1) \in Nat /\ sum(k) <= sum(l - 1)
    BY <1>6, <1>8, <2>1
  <2>3. sum(k) = sum(k - 1) + size[k] /\ size[k] = b + c + a
    BY <1>4, <1>7
  <2>4. b \in Nat /\ c \in Nat /\ a \in Nat
    BY <1>2
  <2>5. Offset(lines, k) = sum(k - 1) /\ Offset(lines, l) = sum(l - 1)
    BY <1>5
  <2> HIDE DEF a, b, c
  <2>6. Offset(lines, k) + b + c <= Offset(lines, l)
    BY <2>2, <2>3, <2>4, <2>5
  <2>7. QED
    BY <2>6 DEF b, c
<1>11. QED
  BY <1>9, <1>10

\* Multiples of the maximum.
LEMMA Multiples ==
  ASSUME NEW a \in Int, NEW b \in Int, a <= b
  PROVE  /\ a * ChunkMax \in Int /\ (a - 1) * ChunkMax = a * ChunkMax - ChunkMax
         /\ a * ChunkMax <= b * ChunkMax
BY ChunkAssumption

\* The tokens of piece p of a line of n.
PieceFirst(p) == (p - 1) * ChunkMax + 1
PieceLast(p, n) == Min({p * ChunkMax, n})

LEMMA Rounding ==
  ASSUME NEW n \in Nat
  PROVE  /\ PieceCount(n) \in Nat
         /\ n <= PieceCount(n) * ChunkMax
         /\ PieceCount(n) * ChunkMax < n + ChunkMax
<1>1. n + ChunkMax - 1 \in Nat /\ ChunkMax \in Nat \ {0}
  BY ChunkAssumption
<1> DEFINE x == n + ChunkMax - 1
           q == x \div ChunkMax
<1>2. q \in Nat /\ ChunkMax * q <= x /\ x < ChunkMax * (q + 1)
  BY <1>1
<1> HIDE DEF q
<1>3. /\ ChunkMax * q = q * ChunkMax /\ ChunkMax * (q + 1) = q * ChunkMax + ChunkMax
      /\ q * ChunkMax \in Int
  BY <1>1, <1>2
<1>4. q \in Nat /\ n <= q * ChunkMax /\ q * ChunkMax < n + ChunkMax
  BY <1>1, <1>2, <1>3
<1>5. QED
  BY <1>4 DEF q, PieceCount

\* The pieces are no larger than the maximum, in order, and hold every token.
LEMMA PieceBounds ==
  ASSUME NEW n \in Nat
  PROVE  /\ \A p \in 1..PieceCount(n) :
              /\ PieceFirst(p) \in Nat /\ PieceLast(p, n) \in Nat
              /\ 1 <= PieceFirst(p) /\ PieceFirst(p) <= PieceLast(p, n) /\ PieceLast(p, n) <= n
              /\ PieceLast(p, n) - PieceFirst(p) < ChunkMax
              /\ PieceLast(p, n) < PieceFirst(p + 1)
              /\ n <= ChunkMax => PieceFirst(p) = 1 /\ PieceLast(p, n) = n
         /\ \A t \in 1..n : \E p \in 1..PieceCount(n) : PieceFirst(p) <= t /\ t <= PieceLast(p, n)
<1> DEFINE N == PieceCount(n)
<1>1. N \in Nat /\ n <= N * ChunkMax /\ N * ChunkMax < n + ChunkMax /\ N * ChunkMax \in Int
  BY Rounding, Multiples
<1>2. ChunkMax \in Nat \ {0}
  BY ChunkAssumption
<1> HIDE DEF N
<1>3. ASSUME NEW p \in Int, 1 <= p
      PROVE  /\ p * ChunkMax \in Nat /\ ChunkMax <= p * ChunkMax
             /\ PieceFirst(p) = p * ChunkMax - ChunkMax + 1 /\ PieceFirst(p + 1) = p * ChunkMax + 1
             /\ PieceLast(p, n) = IF p * ChunkMax <= n THEN p * ChunkMax ELSE n
  <2>1. /\ p * ChunkMax \in Int /\ 1 * ChunkMax <= p * ChunkMax /\ 1 * ChunkMax = ChunkMax
        /\ (p - 1) * ChunkMax = p * ChunkMax - ChunkMax /\ (p + 1) - 1 = p
    BY <1>2, <1>3, Multiples
  <2>2. p * ChunkMax \in Nat
    BY <1>2, <2>1
  <2>3. {p * ChunkMax, n} \in SUBSET Nat /\ {p * ChunkMax, n} # {}
    BY <2>2
  <2>4. /\ PieceLast(p, n) \in {p * ChunkMax, n}
        /\ PieceLast(p, n) <= p * ChunkMax /\ PieceLast(p, n) <= n
    BY <2>3, MinIs DEF PieceLast
  <2>5. PieceLast(p, n) = IF p * ChunkMax <= n THEN p * ChunkMax ELSE n
    BY <2>2, <2>4
  <2>6. QED
    BY <2>1, <2>2, <2>5 DEF PieceFirst
<1>4. ASSUME NEW p \in 1..N
      PROVE  /\ PieceFirst(p) \in Nat /\ PieceLast(p, n) \in Nat
             /\ 1 <= PieceFirst(p) /\ PieceFirst(p) <= PieceLast(p, n) /\ PieceLast(p, n) <= n
             /\ PieceLast(p, n) - PieceFirst(p) < ChunkMax
             /\ PieceLast(p, n) < PieceFirst(p + 1)
             /\ n <= ChunkMax => PieceFirst(p) = 1 /\ PieceLast(p, n) = n
  <2>1. p \in Int /\ 1 <= p /\ p <= N
    BY <1>1
  <2>2. p * ChunkMax <= N * ChunkMax
    BY <1>1, <2>1, Multiples
  <2> DEFINE x == p * ChunkMax
             f == PieceFirst(p)
             l == PieceLast(p, n)
             g == PieceFirst(p + 1)
  <2>3. /\ x \in Nat /\ ChunkMax <= x /\ f = x - ChunkMax + 1 /\ g = x + 1
        /\ l = IF x <= n THEN x ELSE n
    BY <1>3, <2>1
  <2> HIDE DEF f, l, g
  <2>4. x < n + ChunkMax
    BY <1>1, <1>2, <2>2, <2>3
  <2> HIDE DEF x
  <2>5. /\ f \in Nat /\ l \in Nat /\ 1 <= f /\ f <= l /\ l <= n /\ l - f < ChunkMax /\ l < g
    BY <1>2, <2>3, <2>4
  <2>6. n <= ChunkMax => f = 1 /\ l = n
    <3>1. SUFFICES ASSUME n <= ChunkMax
                   PROVE  f = 1 /\ l = n
      OBVIOUS
    <3>2. p = 1
      <4>1. SUFFICES ASSUME 2 <= p
                     PROVE  FALSE
        BY <2>1
      <4>2. 2 * ChunkMax <= p * ChunkMax /\ 2 * ChunkMax = ChunkMax + ChunkMax
        BY <1>2, <2>1, <4>1, Multiples
      <4>3. QED
        BY <1>2, <2>3, <2>4, <3>1, <4>2 DEF x
    <3>3. x = ChunkMax
      BY <1>2, <3>2 DEF x
    <3>4. QED
      BY <1>2, <2>3, <3>1, <3>3
  <2>7. QED
    BY <2>5, <2>6 DEF f, l, g
<1>5. ASSUME NEW t \in 1..n
      PROVE  \E p \in 1..N : PieceFirst(p) <= t /\ t <= PieceLast(p, n)
  <2> DEFINE p == PieceCount(t)
  <2>1. t \in Nat /\ 1 <= t /\ t <= n
    OBVIOUS
  <2>2. p \in Nat /\ t <= p * ChunkMax /\ p * ChunkMax < t + ChunkMax
    BY <2>1, Rounding
  <2> HIDE DEF p
  <2>3. 1 <= p
    <3>1. SUFFICES ASSUME p = 0
                   PROVE  FALSE
      BY <2>2
    <3>2. 0 * ChunkMax = 0
      BY <1>2
    <3>3. QED
      BY <2>1, <2>2, <3>1, <3>2
  <2>4. /\ p * ChunkMax \in Nat
        /\ PieceFirst(p) = p * ChunkMax - ChunkMax + 1
        /\ PieceLast(p, n) = IF p * ChunkMax <= n THEN p * ChunkMax ELSE n
    BY <1>3, <2>2, <2>3
  <2>5. PieceFirst(p) <= t /\ t <= PieceLast(p, n)
    BY <1>2, <2>1, <2>2, <2>4
  <2>6. p <= N
    <3>1. SUFFICES ASSUME N + 1 <= p
                   PROVE  FALSE
      BY <1>1, <2>2
    <3>2. (N + 1) * ChunkMax <= p * ChunkMax
      BY <1>1, <2>2, <3>1, Multiples
    <3>3. (N + 1) * ChunkMax = N * ChunkMax + ChunkMax
      BY <1>1, <1>2
    <3>4. QED
      BY <1>1, <1>2, <2>1, <2>2, <2>4, <3>2, <3>3
  <2>7. QED
    BY <1>1, <2>2, <2>3, <2>5, <2>6
<1>6. QED
  BY <1>4, <1>5 DEF N

\* A unit is a part of a line, cut from no more tokens than the maximum, with its span; it
\* counts as none if the span is empty, and as what it was cut from if its line is not split.
FitUnits(lines) ==
  {u \in [line: Nat, first: Nat, last: Nat, start: Nat, end: Nat, count: Nat] :
     LET line == lines[u.line]
         length == Len(line.tokens)
         start == Offset(lines, u.line) + line.before
     IN  /\ u.line \in 1..Len(lines)
         /\ 1 <= u.first /\ u.first <= u.last /\ u.last <= length
         /\ u.last - u.first < ChunkMax
         /\ length <= ChunkMax => u.last - u.first + 1 = length
         /\ u.start = start + Chars(line, u.first - 1)
         /\ u.end = start + Chars(line, u.last)
         /\ u.count = 0 <=> u.start = u.end
         /\ length <= ChunkMax => u.count = length}

LEMMA UnitFits ==
  ASSUME NEW lines \in Seq(Line), NEW k \in 1..Len(lines), NEW first \in Nat, NEW last \in Nat,
         NEW p \in 1..PieceCount(Len(lines[k].tokens)),
         1 <= first, first <= last, last <= Len(lines[k].tokens), last - first < ChunkMax,
         Len(lines[k].tokens) <= ChunkMax => first = 1 /\ last = Len(lines[k].tokens)
  PROVE  /\ Unit(lines, k, p, first, last) \in FitUnits(lines)
         /\ Unit(lines, k, p, first, last).line = k
         /\ Unit(lines, k, p, first, last).first = first
         /\ Unit(lines, k, p, first, last).last = last
<1> DEFINE start == Offset(lines, k) + lines[k].before
           u == Unit(lines, k, p, first, last)
           length == Len(lines[k].tokens)
           count == TokenCount(lines[k], p, first, last)
           from == Chars(lines[k], first - 1)
           to == Chars(lines[k], last)
<1>1. /\ Len(lines) \in Nat /\ lines[k] \in Line /\ k \in Nat /\ k \in 1..(Len(lines) + 1)
      /\ lines[k].before \in Nat
  <2>1. Len(lines) \in Nat /\ lines[k] \in Line /\ k \in Nat
    OBVIOUS
  <2>2. QED
    BY <2>1, LineParts
<1>2. Offset(lines, k) \in Nat /\ start \in Nat
  BY <1>1, OffsetGrows
<1>3. length \in Nat
  BY <1>1, CharsGrow
<1>4. first - 1 \in 0..length /\ last \in 0..length
  BY <1>3
<1>5. from \in Nat /\ to \in Nat
  BY <1>1, <1>4, CharsGrow
<1>6. count \in Nat /\ (count = 0 <=> from = to) /\ (length <= ChunkMax => count = length)
  <2>1. CASE length <= ChunkMax
    <3>1. first = 1 /\ last = length /\ length # 0 /\ last - first + 1 = length
      BY <1>3, <2>1
    <3>2. count = length
      BY <3>1 DEF TokenCount
    <3>3. from = 0 /\ to > 0
      BY <1>1, <1>3, <3>1, CharsEnds
    <3>4. QED
      BY <1>3, <3>1, <3>2, <3>3
  <2>2. CASE length > ChunkMax
    <3>1. last - first + 1 # length
      BY <1>3, <2>2, ChunkAssumption
    <3>2. lines[k].again[p] \in Nat \ {0}
      BY <1>1, <2>2, LineParts
    <3>3. count = IF from = to THEN 0 ELSE lines[k].again[p]
      BY <3>1 DEF TokenCount
    <3>4. QED
      BY <1>3, <2>2, <3>2, <3>3, ChunkAssumption
  <2>3. QED
    BY <1>3, <2>1, <2>2, ChunkAssumption
<1>7. u = [line |-> k, first |-> first, last |-> last,
           start |-> start + from, end |-> start + to, count |-> count]
  BY DEF Unit
<1>8. /\ start + from \in Nat /\ start + to \in Nat
      /\ start + from = start + to <=> from = to
  <2> HIDE DEF start, from, to
  <2>1. QED
    BY <1>2, <1>5
<1> HIDE DEF u, count
<1>9. /\ u.line = k /\ u.first = first /\ u.last = last /\ u.count = count
      /\ u.start = start + from /\ u.end = start + to
  BY <1>7
<1>10. /\ u \in [line: Nat, first: Nat, last: Nat, start: Nat, end: Nat, count: Nat]
       /\ u.count = 0 <=> u.start = u.end
  <2> HIDE DEF start, from, to
  <2>1. QED
    BY <1>1, <1>6, <1>7, <1>8, <1>9
<1>11. length <= ChunkMax => u.last - u.first + 1 = length /\ u.count = length
  BY <1>3, <1>6, <1>9
<1>12. u \in FitUnits(lines)
  BY <1>9, <1>10, <1>11 DEF FitUnits
<1>13. QED
  BY <1>9, <1>12 DEF u

\* The span of a unit is one of the text.
LEMMA UnitSpans ==
  ASSUME NEW lines \in Seq(Line), NEW u \in FitUnits(lines)
  PROVE  /\ u.start \in Nat /\ u.end \in Nat
         /\ u.start <= u.end /\ u.end <= Offset(lines, Len(lines) + 1)
         /\ u.count \in Nat /\ (u.count = 0 <=> u.start = u.end)
         /\ u.last - u.first < ChunkMax
         /\ u.count > ChunkMax => u.last - u.first + 1 # Len(lines[u.line].tokens)
<1> DEFINE line == lines[u.line]
           length == Len(line.tokens)
           start == Offset(lines, u.line) + line.before
<1>1. /\ u.line \in 1..Len(lines) /\ u.first \in Nat /\ u.last \in Nat
      /\ u.start \in Nat /\ u.end \in Nat
      /\ 1 <= u.first /\ u.first <= u.last /\ u.last <= length
      /\ u.last - u.first < ChunkMax
      /\ u.start = start + Chars(line, u.first - 1)
      /\ u.end = start + Chars(line, u.last)
  BY DEF FitUnits
<1>2. Len(lines) \in Nat /\ line \in Line /\ length \in Nat /\ line.before \in Nat
  <2>1. Len(lines) \in Nat /\ line \in Line
    BY <1>1
  <2>2. QED
    BY <2>1, CharsGrow DEF Line
<1>3. /\ u.first - 1 \in 0..length /\ u.last \in 0..length /\ length \in 0..length
      /\ u.first - 1 <= u.last
  <2> HIDE DEF length, start, line
  <2>1. QED
    BY <1>1, <1>2
<1>4. /\ Chars(line, u.first - 1) \in Nat /\ Chars(line, u.last) \in Nat
      /\ Chars(line, length) \in Nat
      /\ Chars(line, u.first - 1) <= Chars(line, u.last)
      /\ Chars(line, u.last) <= Chars(line, length)
  BY <1>1, <1>2, <1>3, CharsGrow
<1>5. /\ Offset(lines, u.line) \in Nat /\ Offset(lines, Len(lines) + 1) \in Nat
      /\ start + Chars(line, length) <= Offset(lines, Len(lines) + 1)
  <2>1. /\ u.line \in 1..(Len(lines) + 1) /\ Len(lines) + 1 \in 1..(Len(lines) + 1)
        /\ Len(lines) + 1 \in (u.line + 1)..(Len(lines) + 1)
    BY <1>1, <1>2
  <2>2. QED
    BY <1>1, <2>1, OffsetGrows
<1>6. start \in Nat
  BY <1>2, <1>5
<1> HIDE DEF start, length, line
<1>7. u.start <= u.end /\ u.end <= Offset(lines, Len(lines) + 1)
  <2> DEFINE from == Chars(line, u.first - 1)
             to == Chars(line, u.last)
             all == Chars(line, length)
             size == Offset(lines, Len(lines) + 1)
  <2>1. /\ u.start = start + from /\ u.end = start + to
        /\ from \in Nat /\ to \in Nat /\ all \in Nat /\ from <= to /\ to <= all
        /\ size \in Nat /\ start \in Nat /\ start + all <= size
    BY <1>1, <1>4, <1>5, <1>6
  <2> HIDE DEF from, to, all, size
  <2>2. u.start <= u.end /\ u.end <= size
    BY <2>1
  <2>3. QED
    BY <2>2 DEF size
<1>8. u.count > ChunkMax => u.last - u.first + 1 # length
  <2>1. length <= ChunkMax => u.count = length
    BY DEF FitUnits, length, line
  <2>2. QED
    BY <1>1, <1>2, <2>1, ChunkAssumption
<1>9. u.count \in Nat /\ (u.count = 0 <=> u.start = u.end)
  BY DEF FitUnits
<1>10. QED
  BY <1>1, <1>7, <1>8, <1>9 DEF length, line

\* A unit of the same line is ahead if it ends before the other begins.
Ahead(u, v) == u.line < v.line \/ (u.line = v.line /\ u.last < v.first)

LEMMA SpansInOrder ==
  ASSUME NEW lines \in Seq(Line), NEW u \in FitUnits(lines), NEW v \in FitUnits(lines), Ahead(u, v)
  PROVE  u.start <= v.start /\ u.end <= v.end
<1> DEFINE c(w, n) == Chars(lines[w.line], n)
           start(w) == Offset(lines, w.line) + lines[w.line].before
<1>1. ASSUME NEW w \in FitUnits(lines)
      PROVE  /\ w.line \in 1..Len(lines) /\ w.line \in Nat /\ w.first \in Nat /\ w.last \in Nat
             /\ 1 <= w.first /\ w.first <= w.last
             /\ w.first - 1 \in 0..Len(lines[w.line].tokens)
             /\ w.last \in 0..Len(lines[w.line].tokens)
             /\ w.last <= Len(lines[w.line].tokens) /\ Len(lines[w.line].tokens) \in Nat
             /\ lines[w.line] \in Line /\ lines[w.line].before \in Nat
             /\ w.start = start(w) + c(w, w.first - 1) /\ w.end = start(w) + c(w, w.last)
             /\ w.start \in Nat /\ w.end \in Nat /\ w.start <= w.end
  <2>1. /\ w.line \in 1..Len(lines) /\ w.line \in Nat /\ w.first \in Nat /\ w.last \in Nat
        /\ 1 <= w.first /\ w.first <= w.last /\ w.last <= Len(lines[w.line].tokens)
        /\ w.start = start(w) + c(w, w.first - 1) /\ w.end = start(w) + c(w, w.last)
    BY DEF FitUnits
  <2>2. lines[w.line] \in Line /\ Len(lines[w.line].tokens) \in Nat
    <3>1. lines[w.line] \in Line
      BY <2>1
    <3>2. QED
      BY <3>1, CharsGrow
  <2>3. w.start \in Nat /\ w.end \in Nat /\ w.start <= w.end
    BY UnitSpans
  <2>4. lines[w.line].before \in Nat
    BY <2>2 DEF Line
  <2>5. w.first - 1 \in 0..Len(lines[w.line].tokens) /\ w.last \in 0..Len(lines[w.line].tokens)
    BY <2>1, <2>2
  <2>6. QED
    BY <2>1, <2>2, <2>3, <2>4, <2>5
<1>2. CASE u.line = v.line
  <2>1. u.last < v.first
    BY <1>1, <1>2 DEF Ahead
  <2>2. start(u) = start(v) /\ lines[u.line] = lines[v.line]
    BY <1>2
  <2>3. u.first - 1 <= v.first - 1 /\ u.last <= v.last
    BY <1>1, <2>1
  <2>4. c(u, u.first - 1) <= c(v, v.first - 1) /\ c(u, u.last) <= c(v, v.last)
    BY <1>1, <2>2, <2>3, CharsGrow
  <2>5. /\ c(u, u.first - 1) \in Nat /\ c(v, v.first - 1) \in Nat
        /\ c(u, u.last) \in Nat /\ c(v, v.last) \in Nat
    BY <1>1, CharsGrow
  <2>6. start(v) \in Nat
    <3>1. Offset(lines, v.line) \in Nat
      BY <1>1, OffsetGrows
    <3>2. QED
      BY <1>1, <3>1
  <2>7. /\ u.start = start(u) + c(u, u.first - 1) /\ u.end = start(u) + c(u, u.last)
        /\ v.start = start(v) + c(v, v.first - 1) /\ v.end = start(v) + c(v, v.last)
    BY <1>1
  <2> HIDE DEF c, start
  <2>8. QED
    BY <2>2, <2>4, <2>5, <2>6, <2>7
<1>3. CASE u.line # v.line
  <2> DEFINE l == Len(lines[u.line].tokens)
  <2>1. u.line < v.line /\ v.line \in (u.line + 1)..(Len(lines) + 1)
    BY <1>1, <1>3 DEF Ahead
  <2>2. start(u) + c(u, l) <= Offset(lines, v.line)
    BY <1>1, <2>1, OffsetGrows
  <2>3. c(u, u.last) <= c(u, l) /\ c(u, u.last) \in Nat /\ c(u, l) \in Nat
    <3>1. l \in 0..l /\ u.last <= l /\ l \in Nat
      BY <1>1
    <3>2. QED
      BY <1>1, <3>1, CharsGrow
  <2>4. Offset(lines, v.line) \in Nat /\ Offset(lines, u.line) \in Nat
    <3>1. v.line \in 1..(Len(lines) + 1) /\ u.line \in 1..(Len(lines) + 1)
      BY <1>1
    <3>2. QED
      BY <3>1, OffsetGrows
  <2>5. c(v, v.first - 1) \in Nat
    BY <1>1, CharsGrow
  <2>6. start(u) \in Nat /\ start(v) \in Nat /\ Offset(lines, v.line) <= start(v)
    BY <1>1, <2>4
  <2>7. u.end = start(u) + c(u, u.last) /\ v.start = start(v) + c(v, v.first - 1)
    BY <1>1
  <2> HIDE DEF c, start, l
  <2>8. u.end <= v.start
    BY <2>2, <2>3, <2>4, <2>5, <2>6, <2>7
  <2>9. u.start <= u.end /\ v.start <= v.end /\ u.start \in Nat /\ u.end \in Nat
        /\ v.start \in Nat /\ v.end \in Nat
    BY <1>1
  <2>10. QED
    BY <2>8, <2>9
<1>4. QED
  BY <1>2, <1>3

\* us cuts the first k lines into units, in order, with every token in one of them.
Cuts(us, lines, k) ==
  /\ us \in Seq(FitUnits(lines))
  /\ \A i \in 1..Len(us) : us[i].line \in 1..k
  /\ \A i \in 2..Len(us) : Ahead(us[i - 1], us[i])
  /\ \A l \in 1..k : \A t \in 1..Len(lines[l].tokens) :
       \E i \in 1..Len(us) : us[i].line = l /\ us[i].first <= t /\ t <= us[i].last

\* So do the pieces of line k.
LEMMA PiecesAre ==
  ASSUME NEW lines \in Seq(Line), NEW k \in 1..Len(lines)
  PROVE  LET ps == Pieces(lines, k)
         IN  /\ ps \in Seq(FitUnits(lines))
             /\ \A p \in 1..Len(ps) : ps[p].line = k
             /\ \A p \in 2..Len(ps) : Ahead(ps[p - 1], ps[p])
             /\ \A t \in 1..Len(lines[k].tokens) :
                  \E p \in 1..Len(ps) : ps[p].first <= t /\ t <= ps[p].last
<1> DEFINE n == Len(lines[k].tokens)
           N == PieceCount(n)
           unit(p) == Unit(lines, k, p, PieceFirst(p), PieceLast(p, n))
           ps == [p \in 1..N |-> unit(p)]
<1>1. lines[k] \in Line /\ n \in Nat
  <2>1. lines[k] \in Line
    OBVIOUS
  <2>2. QED
    BY <2>1, CharsGrow
<1>2. N \in Nat
  BY <1>1, Rounding
<1>3. Pieces(lines, k) = ps
  BY DEF Pieces, PieceFirst, PieceLast
<1>4. ASSUME NEW p \in 1..N
      PROVE  /\ unit(p) \in FitUnits(lines) /\ unit(p).line = k
             /\ unit(p).first = PieceFirst(p) /\ unit(p).last = PieceLast(p, n)
             /\ PieceLast(p, n) < PieceFirst(p + 1)
  <2>1. /\ PieceFirst(p) \in Nat /\ PieceLast(p, n) \in Nat
        /\ 1 <= PieceFirst(p) /\ PieceFirst(p) <= PieceLast(p, n) /\ PieceLast(p, n) <= n
        /\ PieceLast(p, n) - PieceFirst(p) < ChunkMax
        /\ PieceLast(p, n) < PieceFirst(p + 1)
        /\ n <= ChunkMax => PieceFirst(p) = 1 /\ PieceLast(p, n) = n
    BY <1>1, PieceBounds
  <2>2. QED
    BY <2>1, UnitFits
<1> HIDE DEF N, unit
<1>5. Len(ps) = N /\ \A p \in 1..N : ps[p] = unit(p)
  BY <1>2
<1>6. ps \in Seq(FitUnits(lines))
  BY <1>2, <1>4
<1> HIDE DEF ps
<1>7. \A p \in 1..Len(ps) : ps[p].line = k
  BY <1>4, <1>5
<1>8. ASSUME NEW p \in 2..Len(ps)
      PROVE  Ahead(ps[p - 1], ps[p])
  <2>1. p - 1 \in 1..N /\ p \in 1..N /\ (p - 1) + 1 = p
    BY <1>2, <1>5
  <2>2. /\ unit(p - 1).line = k /\ unit(p).line = k
        /\ unit(p - 1).last < PieceFirst(p) /\ unit(p).first = PieceFirst(p)
    BY <1>4, <2>1
  <2>3. QED
    BY <1>5, <2>1, <2>2 DEF Ahead
<1>9. ASSUME NEW t \in 1..n
      PROVE  \E p \in 1..Len(ps) : ps[p].first <= t /\ t <= ps[p].last
  <2>1. PICK p \in 1..N : PieceFirst(p) <= t /\ t <= PieceLast(p, n)
    BY <1>1, PieceBounds DEF N
  <2>2. QED
    BY <1>4, <1>5, <2>1
<1>10. QED
  BY <1>3, <1>6, <1>7, <1>8, <1>9

\* Another line cut.
LEMMA CutsNext ==
  ASSUME NEW lines \in Seq(Line), NEW k \in 1..Len(lines), NEW us, Cuts(us, lines, k - 1)
  PROVE  Cuts(us \o Pieces(lines, k), lines, k)
<1> DEFINE ps == Pieces(lines, k)
           F == FitUnits(lines)
           all == us \o ps
<1>1. us \in Seq(F) /\ k \in Nat
  BY DEF Cuts
<1>2. /\ ps \in Seq(F)
      /\ \A p \in 1..Len(ps) : ps[p].line = k
      /\ \A p \in 2..Len(ps) : Ahead(ps[p - 1], ps[p])
      /\ \A t \in 1..Len(lines[k].tokens) :
           \E p \in 1..Len(ps) : ps[p].first <= t /\ t <= ps[p].last
  BY PiecesAre
<1> HIDE DEF ps, F
<1>3. Len(us) \in Nat /\ Len(ps) \in Nat
  BY <1>1, <1>2
<1>4. /\ all \in Seq(F) /\ Len(all) = Len(us) + Len(ps)
      /\ \A i \in 1..Len(us) + Len(ps) : all[i] = IF i <= Len(us) THEN us[i] ELSE ps[i - Len(us)]
  BY <1>1, <1>2, ConcatProperties
<1> HIDE DEF all
<1>5. /\ \A i \in 1..Len(us) : i \in 1..Len(all) /\ all[i] = us[i]
      /\ \A p \in 1..Len(ps) : Len(us) + p \in 1..Len(all) /\ all[Len(us) + p] = ps[p]
  <2>1. ASSUME NEW i \in 1..Len(us)
        PROVE  i \in 1..Len(all) /\ all[i] = us[i]
    BY <1>3, <1>4
  <2>2. ASSUME NEW p \in 1..Len(ps)
        PROVE  Len(us) + p \in 1..Len(all) /\ all[Len(us) + p] = ps[p]
    <3>1. /\ Len(us) + p \in 1..Len(us) + Len(ps) /\ ~(Len(us) + p <= Len(us))
          /\ (Len(us) + p) - Len(us) = p
      BY <1>3
    <3>2. QED
      BY <1>4, <3>1
  <2>3. QED
    BY <2>1, <2>2
<1>6. \A i \in 1..Len(all) : i \in 1..Len(us) \/ \E p \in 1..Len(ps) : i = Len(us) + p
  <2>1. TAKE i \in 1..Len(all)
  <2>2. i \in 1..Len(us) \/ (i - Len(us) \in 1..Len(ps) /\ i = Len(us) + (i - Len(us)))
    BY <1>3, <1>4
  <2>3. QED
    BY <2>2
<1>7. \A i \in 1..Len(us) : us[i].line \in 1..k /\ us[i].line < k
  BY <1>1 DEF Cuts
<1>8. ASSUME NEW i \in 1..Len(all)
      PROVE  all[i].line \in 1..k
  <2>1. CASE i \in 1..Len(us)
    BY <1>5, <1>7, <2>1
  <2>2. ASSUME NEW p \in 1..Len(ps), i = Len(us) + p
        PROVE  all[i].line \in 1..k
    <3>1. all[i].line = k
      BY <1>2, <1>5, <2>2
    <3>2. k \in 1..k
      BY <1>1
    <3>3. QED
      BY <3>1, <3>2
  <2>3. QED
    BY <1>6, <2>1, <2>2
<1>9. ASSUME NEW i \in 2..Len(all)
      PROVE  Ahead(all[i - 1], all[i])
  <2>1. i \in 1..Len(all) /\ i - 1 \in 1..Len(all)
    BY <1>3, <1>4
  <2>2. CASE i \in 1..Len(us)
    <3>1. i \in 2..Len(us) /\ i - 1 \in 1..Len(us)
      BY <1>3, <2>2
    <3>2. QED
      BY <1>5, <2>2, <3>1 DEF Cuts
  <2>3. CASE i = Len(us) + 1
    <3>1. i - 1 = Len(us) /\ 1 \in 1..Len(ps) /\ Len(us) \in 1..Len(us)
      BY <1>3, <1>4, <2>1, <2>3
    <3>2. all[i - 1] = us[Len(us)] /\ all[i] = ps[1]
      BY <1>5, <2>3, <3>1
    <3>3. us[Len(us)].line < k /\ ps[1].line = k
      BY <1>2, <1>7, <3>1
    <3>4. QED
      BY <3>2, <3>3 DEF Ahead
  <2>4. CASE i > Len(us) + 1
    <3> DEFINE p == i - Len(us)
    <3>1. /\ p \in 2..Len(ps) /\ p \in 1..Len(ps) /\ p - 1 \in 1..Len(ps)
          /\ i = Len(us) + p /\ i - 1 = Len(us) + (p - 1)
      BY <1>3, <1>4, <2>1, <2>4
    <3> HIDE DEF p
    <3>2. all[i] = ps[p] /\ all[i - 1] = ps[p - 1]
      BY <1>5, <3>1
    <3>3. QED
      BY <1>2, <3>1, <3>2
  <2>5. QED
    BY <1>3, <2>1, <2>2, <2>3, <2>4
<1>10. ASSUME NEW l \in 1..k, NEW t \in 1..Len(lines[l].tokens)
       PROVE  \E i \in 1..Len(all) : all[i].line = l /\ all[i].first <= t /\ t <= all[i].last
  <2>1. CASE l = k
    <3>1. PICK p \in 1..Len(ps) : ps[p].first <= t /\ t <= ps[p].last
      BY <1>2, <2>1
    <3>2. QED
      BY <1>2, <1>5, <2>1, <3>1
  <2>2. CASE l # k
    <3>1. l \in 1..(k - 1)
      BY <1>1, <2>2
    <3>2. PICK i \in 1..Len(us) : us[i].line = l /\ us[i].first <= t /\ t <= us[i].last
      BY <3>1 DEF Cuts
    <3>3. QED
      BY <1>5, <3>2
  <2>3. QED
    BY <2>1, <2>2
<1>11. Cuts(all, lines, k)
  BY <1>4, <1>8, <1>9, <1>10 DEF Cuts, F
<1>12. QED
  BY <1>11 DEF all, ps

\* The units are the whole text cut.
LEMMA UnitsAre ==
  ASSUME NEW lines \in Seq(Line)
  PROVE  Cuts(Units(lines), lines, Len(lines))
<1> DEFINE N == Len(lines)
           V == Seq(FitUnits(lines))
           step == [k \in 1..N |-> [us \in V |-> us \o Pieces(lines, k)]]
           Def(h) == h = [k \in 0..N |-> IF k = 0 THEN <<>> ELSE h[k - 1] \o Pieces(lines, k)]
           upto == CHOOSE h : Def(h)
<1>1. N \in Nat /\ <<>> \in V
  OBVIOUS
<1>2. \A k \in 1..N, us \in V : step[k][us] = us \o Pieces(lines, k) /\ us \o Pieces(lines, k) \in V
  <2>1. TAKE k \in 1..N, us \in V
  <2>2. Pieces(lines, k) \in V
    BY PiecesAre
  <2>3. us \o Pieces(lines, k) \in V
    BY <2>2, ConcatProperties
  <2>4. QED
    BY <2>3
<1> HIDE DEF step
<1>3. PICK g : Follows(g, step, <<>>, N, V)
  <2>1. Steps(step, N, V)
    BY <1>2 DEF Steps
  <2> HIDE DEF V, N
  <2>2. QED
    BY <1>1, <2>1, Recursion
<1>4. /\ g \in [0..N -> V]
      /\ \A k \in 0..N : g[k] = IF k = 0 THEN <<>> ELSE g[k - 1] \o Pieces(lines, k)
  <2>1. \A k \in 0..N : k # 0 => k \in 1..N /\ k - 1 \in 0..N
    BY <1>1
  <2> HIDE DEF V
  <2>2. QED
    BY <1>2, <1>3, <2>1 DEF Follows
<1>5. Def(g)
  BY <1>4
<1>6. Def(upto)
  BY <1>5
<1>7. Units(lines) = upto[N]
  BY DEF Units
<1> HIDE DEF upto
<1>8. upto[0] = <<>> /\ \A k \in 1..N : upto[k] = upto[k - 1] \o Pieces(lines, k)
  <2>1. 0 \in 0..N /\ \A k \in 1..N : k \in 0..N /\ k # 0
    BY <1>1
  <2>2. \A k \in 0..N : upto[k] = IF k = 0 THEN <<>> ELSE upto[k - 1] \o Pieces(lines, k)
    BY <1>6
  <2>3. QED
    BY <2>1, <2>2
<1> DEFINE S == {k \in Nat : k \in 0..N => Cuts(upto[k], lines, k)}
<1>9. 0 \in S
  <2>1. Cuts(<<>>, lines, 0)
    <3>1. Len(<<>>) = 0 /\ 1..0 = {} /\ 2..0 = {}
      OBVIOUS
    <3>2. QED
      BY <1>1, <3>1 DEF Cuts
  <2>2. QED
    BY <1>8, <2>1
<1>10. ASSUME NEW k \in S
       PROVE  k + 1 \in S
  <2>1. SUFFICES ASSUME k + 1 \in 0..N
                 PROVE  Cuts(upto[k + 1], lines, k + 1)
    BY <1>10
  <2>2. k + 1 \in 1..N /\ (k + 1) - 1 = k /\ Cuts(upto[k], lines, k)
    BY <1>1, <1>10, <2>1
  <2>3. Cuts(upto[k] \o Pieces(lines, k + 1), lines, k + 1)
    BY <2>2, CutsNext
  <2>4. QED
    BY <1>8, <2>2, <2>3
<1>11. S \in SUBSET Nat
  OBVIOUS
<1>12. S = Nat
  <2> HIDE DEF S
  <2>1. QED
    BY <1>9, <1>10, <1>11, FirstFailure
<1>13. Cuts(upto[N], lines, N)
  BY <1>1, <1>12
<1>14. QED
  BY <1>7, <1>13

-----------------------------------------------------------------------------
(* The promises of chunk_text. *)

\* What the units are, as far as the windows and the promises go.
LEMMA UnitFacts ==
  ASSUME NEW lines \in Seq(Line)
  PROVE  /\ Units(lines) \in Seq(FitUnits(lines)) /\ Countable(Units(lines))
         /\ \A v \in 1..Len(Units(lines)) : \A u \in 1..v :
              /\ Units(lines)[u].start <= Units(lines)[v].start
              /\ Units(lines)[u].end <= Units(lines)[v].end
<1> DEFINE units == Units(lines)
           L == Len(units)
           starts == [u \in 0..L |-> IF u = 0 THEN 0 ELSE units[u].start]
           ends == [u \in 0..L |-> IF u = 0 THEN 0 ELSE units[u].end]
<1>1. units \in Seq(FitUnits(lines)) /\ \A u \in 2..L : Ahead(units[u - 1], units[u])
  BY UnitsAre DEF Cuts
<1> HIDE DEF units
<1>2. L \in Nat /\ DOMAIN units = 1..L /\ \A u \in 1..L : units[u] \in FitUnits(lines)
  BY <1>1
<1>3. Countable(units)
  BY <1>2, UnitSpans DEF Countable
<1>4. \A u \in 1..L : units[u].start \in Nat /\ units[u].end \in Nat
  BY <1>2, UnitSpans
<1>5. /\ starts \in [0..L -> Int] /\ ends \in [0..L -> Int]
      /\ starts[0] = 0 /\ ends[0] = 0
      /\ \A u \in 1..L : starts[u] = units[u].start /\ ends[u] = units[u].end
  BY <1>2, <1>4
<1> HIDE DEF starts, ends
<1>6. \A u \in 1..L : starts[u - 1] <= starts[u] /\ ends[u - 1] <= ends[u]
  <2>1. TAKE u \in 1..L
  <2>2. CASE u = 1
    BY <1>2, <1>4, <1>5, <2>2
  <2>3. CASE u # 1
    <3>1. u \in 2..L /\ u - 1 \in 1..L
      BY <1>2, <2>3
    <3>2. units[u - 1].start <= units[u].start /\ units[u - 1].end <= units[u].end
      BY <1>1, <1>2, <3>1, SpansInOrder
    <3>3. QED
      BY <1>5, <3>1, <3>2
  <2>4. QED
    BY <2>2, <2>3
<1>7. ASSUME NEW v \in 1..L, NEW u \in 1..v
      PROVE  units[u].start <= units[v].start /\ units[u].end <= units[v].end
  <2>1. u \in 0..L /\ v \in u..L /\ u \in 1..L
    BY <1>2
  <2>2. starts[u] <= starts[v] /\ ends[u] <= ends[v]
    BY <1>2, <1>5, <1>6, <2>1, Climbs
  <2>3. QED
    BY <1>5, <2>1, <2>2
<1>8. QED
  BY <1>1, <1>3, <1>7 DEF units

\* Every character of a line is in the span of the unit that holds the token it begins with.
LEMMA CharsInUnits ==
  ASSUME NEW lines \in Seq(Line), NEW k \in 1..Len(lines),
         NEW m \in 0..(Chars(lines[k], Len(lines[k].tokens)) - 1)
  PROVE  \E u \in 1..Len(Units(lines)) :
           LET at == Offset(lines, k) + lines[k].before + m
               unit == Units(lines)[u]
           IN  unit.line = k /\ unit.start <= at /\ at < unit.end
<1> DEFINE n == Len(lines[k].tokens)
           c(t) == Chars(lines[k], t)
           begin == Offset(lines, k) + lines[k].before
           units == Units(lines)
           T == {t \in 0..n : m < c(t)}
<1>1. /\ lines[k] \in Line /\ n \in Nat /\ \A t \in 0..n : c(t) \in Nat
      /\ \A s, t \in 0..n : s <= t => c(s) <= c(t)
  <2>1. lines[k] \in Line
    OBVIOUS
  <2>2. QED
    BY <2>1, CharsGrow
<1>2. begin \in Nat /\ m \in Nat
  <2>1. k \in 1..(Len(lines) + 1) /\ lines[k].before \in Nat
    BY <1>1, LineParts
  <2>2. Offset(lines, k) \in Nat
    BY <2>1, OffsetGrows
  <2>3. QED
    BY <2>1, <2>2
<1>3. n \in T /\ T \in SUBSET Nat
  BY <1>1
<1> HIDE DEF n, c, begin
<1>4. PICK t \in T : \A s \in T : t <= s
  <2> HIDE DEF T
  <2>1. QED
    BY <1>3, LeastOf
<1>5. t \in 0..n /\ m < c(t)
  BY <1>4
<1>6. c(0) <= m
  <2>1. c(0) = 0
    BY <1>1, CharsEnds DEF c
  <2>2. QED
    BY <1>2, <2>1
<1>7. t \in 1..n /\ t - 1 \in 0..n /\ ~(t <= t - 1)
  BY <1>1, <1>2, <1>5, <1>6
<1>8. c(t - 1) <= m
  <2>1. t - 1 \notin T
    BY <1>4, <1>7
  <2>2. ~(m < c(t - 1))
    BY <1>7, <2>1
  <2>3. QED
    BY <1>1, <1>2, <1>7, <2>2
<1> HIDE DEF T
<1>9. PICK u \in 1..Len(units) : units[u].line = k /\ units[u].first <= t /\ t <= units[u].last
  BY <1>7, UnitsAre DEF Cuts, n
<1>10. units[u] \in FitUnits(lines)
  BY <1>9, UnitFacts
<1> HIDE DEF units
<1>11. /\ units[u].first \in Nat /\ units[u].last \in Nat /\ 1 <= units[u].first
       /\ units[u].last <= n
       /\ units[u].start = begin + c(units[u].first - 1)
       /\ units[u].end = begin + c(units[u].last)
  BY <1>9, <1>10 DEF FitUnits, begin, c, n
<1>12. /\ units[u].first - 1 \in 0..n /\ units[u].last \in 0..n
       /\ units[u].first - 1 <= t - 1 /\ t <= units[u].last
  <2> DEFINE first == units[u].first
             last == units[u].last
  <2>1. /\ first \in Nat /\ last \in Nat /\ 1 <= first /\ last <= n /\ first <= t /\ t <= last
        /\ t \in 1..n /\ n \in Nat
    BY <1>1, <1>7, <1>9, <1>11
  <2> HIDE DEF first, last
  <2>2. first - 1 \in 0..n /\ last \in 0..n /\ first - 1 <= t - 1
    BY <2>1
  <2>3. QED
    BY <2>1, <2>2 DEF first, last
<1>13. c(units[u].first - 1) <= c(t - 1) /\ c(t) <= c(units[u].last)
  BY <1>1, <1>5, <1>7, <1>12
<1>14. /\ c(units[u].first - 1) \in Nat /\ c(t - 1) \in Nat /\ c(t) \in Nat
       /\ c(units[u].last) \in Nat
  BY <1>1, <1>5, <1>7, <1>12
<1>15. units[u].start <= begin + m /\ begin + m < units[u].end
  <2> DEFINE from == c(units[u].first - 1)
             to == c(units[u].last)
  <2>1. /\ units[u].start = begin + from /\ units[u].end = begin + to
        /\ from \in Nat /\ to \in Nat /\ begin \in Nat /\ m \in Nat
        /\ c(t - 1) \in Nat /\ c(t) \in Nat
        /\ from <= c(t - 1) /\ c(t - 1) <= m /\ m < c(t) /\ c(t) <= to
    BY <1>2, <1>5, <1>8, <1>11, <1>13, <1>14
  <2> HIDE DEF from, to
  <2>2. from <= m /\ m < to
    BY <2>1
  <2>3. QED
    BY <2>1, <2>2
<1>16. QED
  BY <1>9, <1>15 DEF begin, units

\* A window whose units are all empty holds no token.
LEMMA EmptyWindow ==
  ASSUME NEW units, Countable(units), NEW i \in 1..Len(units), NEW j \in i..(Len(units) + 1),
         \A u \in i..(j - 1) : units[u].count = 0
  PROVE  Tokens(units, i, j) = 0
<1> DEFINE S == {m \in Nat : m \in i..j => Tokens(units, i, m) = 0}
<1>1. /\ Len(units) \in Nat /\ i \in Nat /\ j \in Nat
      /\ i \in 1..(Len(units) + 1) /\ i \in i..(Len(units) + 1)
  BY DEF Countable
<1>2. Tokens(units, i, i) = 0
  BY <1>1, TokensIs
<1>3. 0 \in S
  BY <1>1
<1>4. ASSUME NEW m \in S
      PROVE  m + 1 \in S
  <2>1. SUFFICES ASSUME m + 1 \in i..j
                 PROVE  Tokens(units, i, m + 1) = 0
    BY <1>4
  <2>2. CASE m + 1 = i
    BY <1>2, <2>2
  <2>3. CASE m + 1 # i
    <3>1. m \in i..j /\ m \in i..(j - 1) /\ m \in i..(Len(units) + 1) /\ m <= Len(units)
      BY <1>1, <1>4, <2>1, <2>3
    <3>2. Tokens(units, i, m) = 0 /\ units[m].count = 0
      BY <1>4, <3>1
    <3>3. Tokens(units, i, m + 1) = Tokens(units, i, m) + units[m].count
      BY <1>1, <3>1, TokensIs
    <3>4. QED
      BY <3>2, <3>3
  <2>4. QED
    BY <2>2, <2>3
<1>5. S \in SUBSET Nat
  OBVIOUS
<1>6. S = Nat
  <2> HIDE DEF S
  <2>1. QED
    BY <1>3, <1>4, <1>5, FirstFailure
<1>7. j \in i..j
  BY <1>1
<1>8. QED
  BY <1>1, <1>6, <1>7

\* The span of a window is one of the text, and empty only at its end.
LEMMA WindowSpan ==
  ASSUME NEW lines \in Seq(Line), NEW i \in 1..Len(Units(lines))
  PROVE  LET units == Units(lines)
             to == Stop(units, i) - 1
         IN  /\ units[i].start \in Nat /\ units[to].end \in Nat
             /\ units[to].end <= Offset(lines, Len(lines) + 1)
             /\ \/ units[i].start < units[to].end
                \/ units[i].start = units[to].end /\ to = Len(units)
<1> DEFINE units == Units(lines)
           L == Len(units)
           stop == Stop(units, i)
           to == stop - 1
<1>1. /\ units \in Seq(FitUnits(lines)) /\ Countable(units)
      /\ \A v \in 1..L : \A u \in 1..v : /\ units[u].start <= units[v].start
                                          /\ units[u].end <= units[v].end
  BY UnitFacts
<1>2. i \in 1..L
  OBVIOUS
<1> HIDE DEF units
<1>3. L \in Nat /\ \A u \in 1..L : units[u] \in FitUnits(lines)
  BY <1>1
<1>4. stop \in (i + 1)..(L + 1) /\ Ends(units, i, stop)
  BY <1>1, <1>2, StopIs
<1> HIDE DEF stop
<1>5. to \in 1..L /\ i \in 1..to /\ i \in Nat /\ to \in Nat
  BY <1>2, <1>3, <1>4
<1>6. \A u \in 1..L : /\ units[u].start \in Nat /\ units[u].end \in Nat
                      /\ units[u].start <= units[u].end
                      /\ units[u].end <= Offset(lines, Len(lines) + 1)
                      /\ units[u].count = 0 <=> units[u].start = units[u].end
  BY <1>3, UnitSpans
<1>7. units[i].start <= units[to].start /\ units[to].start <= units[to].end
  BY <1>1, <1>5, <1>6
<1>8. ASSUME units[i].start = units[to].end, to # L
      PROVE  FALSE
  <2>1. \A u \in i..to : units[u].count = 0
    <3>1. TAKE u \in i..to
    <3>2. u \in 1..L /\ u \in 1..to /\ i \in 1..u
      BY <1>3, <1>5
    <3>3. units[i].start <= units[u].start /\ units[u].end <= units[to].end
      BY <1>1, <1>5, <3>2
    <3>4. units[u].start = units[u].end
      BY <1>2, <1>5, <1>6, <1>8, <3>2, <3>3
    <3>5. QED
      BY <1>6, <3>2, <3>4
  <2>2. stop \in i..(L + 1) /\ stop \in 1..L /\ i \in 1..(L + 1) /\ ~(stop > L)
    BY <1>2, <1>3, <1>4, <1>5, <1>8
  <2>3. Tokens(units, i, stop) = 0
    BY <1>1, <1>2, <2>1, <2>2, EmptyWindow
  <2>4. QED
    BY <1>4, <2>2, <2>3, ChunkAssumption DEF Ends
<1>9. /\ units[i].start \in Nat /\ units[to].end \in Nat
      /\ units[to].end <= Offset(lines, Len(lines) + 1)
      /\ units[i].start < units[to].end \/ (units[i].start = units[to].end /\ to = L)
  <2>1. /\ units[i].start \in Nat /\ units[to].end \in Nat /\ units[to].start \in Nat
        /\ units[to].end <= Offset(lines, Len(lines) + 1)
    BY <1>2, <1>5, <1>6
  <2>2. units[i].start < units[to].end \/ units[i].start = units[to].end
    BY <1>7, <2>1
  <2>3. QED
    BY <1>8, <2>1, <2>2
<1>10. QED
  BY <1>9 DEF units, stop

\* chunk_text keeps its promises for every text.
LEMMA ChunkTextIsGood ==
  ASSUME NEW lines \in Seq(Line)
  PROVE  GoodChunking(lines, ChunkText(lines))
<1> DEFINE units == Units(lines)
           L == Len(units)
           cut == ChunkText(lines)
           Whole(u) == u.last - u.first + 1 = Len(lines[u.line].tokens)
           Covers(k, m, c) == \E u \in c.from..c.to :
                                LET at == Offset(lines, k) + lines[k].before + m
                                IN  /\ units[u].line = k
                                    /\ units[u].start <= at /\ at < units[u].end
           Sized(c) == /\ Tokens(units, c.from, c.to + 1) > ChunkMax =>
                            Tokens(units, c.from, c.to) = 0 /\ ~Whole(units[c.to])
                       /\ 0 <= c.start /\ c.end <= Offset(lines, Len(lines) + 1)
                       /\ c.start < c.end \/ (c.start = c.end /\ c.to = L)
           Succeeds(c, d) == /\ c.from < d.from /\ d.from <= c.to + 1 /\ c.to <= d.to
                             /\ c.start <= d.start /\ c.end <= d.end
                             /\ d.ordinal = c.ordinal + 1
<1>1. /\ units \in Seq(FitUnits(lines)) /\ Countable(units)
      /\ \A v \in 1..L : \A u \in 1..v : /\ units[u].start <= units[v].start
                                          /\ units[u].end <= units[v].end
  BY UnitFacts
<1>2. \A k \in 1..Len(lines) : \A m \in 0..(Chars(lines[k], Len(lines[k].tokens)) - 1) :
        \E u \in 1..L : LET at == Offset(lines, k) + lines[k].before + m
                        IN  units[u].line = k /\ units[u].start <= at /\ at < units[u].end
  BY CharsInUnits
<1>3. \A k \in DOMAIN lines : k \in 1..Len(lines)
  OBVIOUS
<1>4. \A u \in ToSet(units) : /\ u.last - u.first < ChunkMax
                              /\ Len(lines[u.line].tokens) <= ChunkMax => Whole(u)
  <2>1. TAKE u \in ToSet(units)
  <2>2. u \in FitUnits(lines)
    BY <1>1 DEF ToSet
  <2>3. QED
    BY <2>2 DEF FitUnits
<1>5. SUFFICES /\ \A k \in 1..Len(lines) : \A m \in 0..(Chars(lines[k], Len(lines[k].tokens)) - 1) :
                    \E c \in ToSet(cut) : Covers(k, m, c)
               /\ \A c \in ToSet(cut) : Sized(c)
               /\ \A n \in 1..(Len(cut) - 1) : Succeeds(cut[n], cut[n + 1])
  <2>1. \A k \in DOMAIN lines : \A m \in 0..(Chars(lines[k], Len(lines[k].tokens)) - 1) :
          \E c \in ToSet(cut) : Covers(k, m, c)
    <3> HIDE DEF Covers, cut
    <3>1. QED
      BY <1>3, <1>5
  <2>2. \A c \in ToSet(cut) : Sized(c)
    BY <1>5
  <2>3. \A n \in 1..(Len(cut) - 1) : Succeeds(cut[n], cut[n + 1])
    BY <1>5
  <2>4. QED
    BY <1>4, <2>1, <2>2, <2>3, Zenon DEF GoodChunking
<1>6. L \in Nat
  BY <1>1
<1>7. CASE units = <<>>
  <2>1. cut = <<>>
    BY <1>7 DEF ChunkText
  <2>2. L = 0 /\ ToSet(cut) = {} /\ Len(cut) = 0
    BY <1>7, <2>1 DEF ToSet
  <2>3. 1..L = {} /\ 1..(Len(cut) - 1) = {}
    BY <2>2
  <2> HIDE DEF units, cut, Sized, Succeeds, Covers
  <2>4. QED
    BY <1>2, <2>2, <2>3
<1>8. CASE units # <<>>
  <2>1. L # 0
    BY <1>1, <1>8, EmptySeq
  <2>2. PICK at, count :
          /\ Windows(units, at, count)
          /\ cut = [n \in 1..count |-> Chunk(units, at[n - 1], Stop(units, at[n - 1]), n - 1)]
    BY <1>1, <1>8, <2>1, ChunksAreWindows
  <2> DEFINE from(n) == at[n - 1]
             stop(n) == Stop(units, at[n - 1])
             Made(n) == [ordinal |-> n - 1, from |-> from(n), to |-> stop(n) - 1,
                         start |-> units[from(n)].start, end |-> units[stop(n) - 1].end]
  <2>3. /\ count \in Nat
        /\ \A n \in 1..count : /\ n - 1 \in Nat /\ n \in Nat /\ from(n) \in 1..L
                               /\ stop(n) \in (from(n) + 1)..(L + 1)
                               /\ \/ Tokens(units, from(n), stop(n)) <= ChunkMax
                                  \/ Tokens(units, from(n), stop(n) - 1) = 0
        /\ \A n \in 1..count : n # count =>
             at[n] \in (from(n) + 1)..stop(n) /\ stop(n) <= Stop(units, at[n])
    BY <1>1, <2>2, WindowsFollow
  <2>4. \A n \in 1..count : cut[n] = Made(n)
    BY <2>2 DEF Chunk
  <2>5. DOMAIN cut = 1..count /\ Len(cut) = count
    BY <2>2, <2>3
  <2>6. ToSet(cut) = {cut[n] : n \in 1..count}
    BY <2>5 DEF ToSet
  <2>7. ASSUME NEW n \in 1..count
        PROVE  /\ units[from(n)].start \in Nat /\ units[stop(n) - 1].end \in Nat
               /\ units[stop(n) - 1].end <= Offset(lines, Len(lines) + 1)
               /\ \/ units[from(n)].start < units[stop(n) - 1].end
                  \/ units[from(n)].start = units[stop(n) - 1].end /\ stop(n) - 1 = L
    BY <2>3, WindowSpan
  <2> HIDE DEF units, cut
  <2>8. ASSUME NEW k \in 1..Len(lines),
               NEW m \in 0..(Chars(lines[k], Len(lines[k].tokens)) - 1)
        PROVE  \E c \in ToSet(cut) : Covers(k, m, c)
    <3>1. PICK u \in 1..L : LET place == Offset(lines, k) + lines[k].before + m
                            IN  units[u].line = k /\ units[u].start <= place /\ place < units[u].end
      BY <1>2
    <3>2. PICK n \in 1..count : u \in from(n)..(stop(n) - 1)
      BY <1>1, <2>2, WindowsCover
    <3> HIDE DEF from, stop
    <3>3. cut[n].from = from(n) /\ cut[n].to = stop(n) - 1
      <4>1. cut[n] = Made(n)
        BY <2>4
      <4>2. QED
        BY <4>1
    <3>4. Covers(k, m, cut[n])
      BY <3>1, <3>2, <3>3
    <3> HIDE DEF Covers
    <3>5. QED
      BY <2>6, <3>4
  <2>9. ASSUME NEW n \in 1..count
        PROVE  Sized(cut[n])
    <3>1. /\ from(n) \in 1..L /\ stop(n) \in (from(n) + 1)..(L + 1)
          /\ \/ Tokens(units, from(n), stop(n)) <= ChunkMax
             \/ Tokens(units, from(n), stop(n) - 1) = 0
      BY <2>3
    <3>2. /\ units[from(n)].start \in Nat /\ units[stop(n) - 1].end \in Nat
          /\ units[stop(n) - 1].end <= Offset(lines, Len(lines) + 1)
          /\ \/ units[from(n)].start < units[stop(n) - 1].end
             \/ units[from(n)].start = units[stop(n) - 1].end /\ stop(n) - 1 = L
      BY <2>7
    <3> HIDE DEF from, stop
    <3>3. /\ cut[n].from = from(n) /\ cut[n].to = stop(n) - 1
          /\ cut[n].start = units[from(n)].start /\ cut[n].end = units[stop(n) - 1].end
      <4>1. cut[n] = Made(n)
        BY <2>4
      <4>2. QED
        BY <4>1
    <3>4. (stop(n) - 1) + 1 = stop(n)
      BY <1>6, <3>1
    <3>5. ASSUME Tokens(units, from(n), stop(n)) > ChunkMax
          PROVE  Tokens(units, from(n), stop(n) - 1) = 0 /\ ~Whole(units[stop(n) - 1])
      <4> DEFINE last == stop(n) - 1
      <4>1. /\ last \in 1..L /\ last \in from(n)..(L + 1) /\ last <= L /\ last + 1 = stop(n)
            /\ from(n) \in 1..(L + 1) /\ stop(n) \in from(n)..(L + 1)
        BY <1>6, <3>1
      <4>2. Tokens(units, from(n), stop(n)) \in Nat
        BY <1>1, <4>1, TokensIs
      <4>3. Tokens(units, from(n), last) = 0
        BY <3>1, <3>5, <4>2, ChunkAssumption
      <4>4. Tokens(units, from(n), stop(n)) = Tokens(units, from(n), last) + units[last].count
        BY <1>1, <4>1, TokensIs
      <4> HIDE DEF last
      <4>5. /\ units[last].count \in Nat
            /\ units[last].count > ChunkMax => ~Whole(units[last])
        <5>1. units[last] \in FitUnits(lines)
          BY <1>1, <4>1
        <5>2. QED
          BY <5>1, UnitSpans
      <4>6. units[last].count > ChunkMax
        BY <3>5, <4>3, <4>4, <4>5
      <4>7. QED
        BY <4>3, <4>5, <4>6 DEF last
    <3> HIDE DEF Whole
    <3>6. QED
      BY <3>2, <3>3, <3>4, <3>5
  <2>10. ASSUME NEW n \in 1..(Len(cut) - 1)
         PROVE  Succeeds(cut[n], cut[n + 1])
    <3>1. n \in 1..count /\ n # count /\ n + 1 \in 1..count /\ (n + 1) - 1 = n /\ n \in Nat
      BY <2>3, <2>5
    <3>2. /\ from(n) \in 1..L /\ stop(n) \in (from(n) + 1)..(L + 1)
          /\ from(n + 1) \in 1..L /\ stop(n + 1) \in (from(n + 1) + 1)..(L + 1)
      BY <2>3, <3>1
    <3>3. from(n + 1) \in (from(n) + 1)..stop(n) /\ stop(n) <= stop(n + 1)
      BY <2>3, <3>1
    <3> DEFINE c == cut[n]
               d == cut[n + 1]
    <3> HIDE DEF from, stop
    <3>4. /\ c.ordinal = n - 1 /\ c.from = from(n) /\ c.to = stop(n) - 1
          /\ c.start = units[from(n)].start /\ c.end = units[stop(n) - 1].end
      <4>1. c = Made(n)
        BY <2>4, <3>1
      <4>2. QED
        BY <4>1
    <3>5. /\ d.ordinal = n /\ d.from = from(n + 1) /\ d.to = stop(n + 1) - 1
          /\ d.start = units[from(n + 1)].start /\ d.end = units[stop(n + 1) - 1].end
      <4>1. d = Made(n + 1)
        BY <2>4, <3>1
      <4>2. QED
        BY <3>1, <4>1
    <3> HIDE DEF c, d
    <3>6. /\ from(n) \in 1..from(n + 1)
          /\ stop(n) - 1 \in 1..(stop(n + 1) - 1) /\ stop(n + 1) - 1 \in 1..L
      BY <1>6, <3>2, <3>3
    <3>7. c.start <= d.start /\ c.end <= d.end
      BY <1>1, <3>2, <3>4, <3>5, <3>6
    <3>8. c.from < d.from /\ d.from <= c.to + 1 /\ c.to <= d.to /\ d.ordinal = c.ordinal + 1
      <4>1. from(n) \in Nat /\ stop(n) \in Nat /\ from(n + 1) \in Nat /\ stop(n + 1) \in Nat
        BY <1>6, <3>2
      <4>2. from(n) < from(n + 1) /\ from(n + 1) <= stop(n) /\ stop(n) <= stop(n + 1)
        BY <3>3, <4>1
      <4>3. QED
        BY <3>1, <3>4, <3>5, <4>1, <4>2
    <3>9. QED
      BY <3>7, <3>8 DEF c, d
  <2>11. \A c \in ToSet(cut) : Sized(c)
    <3> HIDE DEF Sized
    <3>1. QED
      BY <2>6, <2>9
  <2> HIDE DEF Covers, Sized, Succeeds
  <2>12. QED
    BY <2>8, <2>10, <2>11
<1>9. QED
  BY <1>7, <1>8

\* What is kept of a page's text are the chunks chunk_text makes of it.
ChunkInv == text # <<>> => chunks = ChunkText(text)

\* Whatever the text of a page that is stored and whatever its pieces are encoded to, every
\* character of its lines lies in the span of a chunk's unit, no piece is cut from more tokens
\* than the maximum, only a chunk that is one piece of a split line may be counted at more,
\* and the chunks follow each other without a gap, with spans of the text.
THEOREM ChunksAreGood == Spec => []ChunksCoverText
<1>1. Init => ChunkInv
  BY DEF Init, ChunkInv
<1>2. ASSUME ChunkInv, [Next]_vars
      PROVE  ChunkInv'
  <2> USE <1>2 DEF ChunkInv
  <2>1. ASSUME NEW time \in 0..1, IngestPage(time)
        PROVE  ChunkInv'
    BY <2>1 DEF IngestPage
  <2>2. CASE FollowLinks
    BY <2>2 DEF FollowLinks
  <2>3. ASSUME UNCHANGED <<text, chunks>>
        PROVE  ChunkInv'
    BY <2>3
  <2>4. CASE Pop \/ GiveUp \/ Abort \/ UNCHANGED vars
    BY <2>3, <2>4 DEF Pop, GiveUp, Abort, vars, ingest
  <2>5. CASE Finish
    BY <2>3, <2>5 DEF Finish
  <2>6. CASE CheckRobots \/ PolitenessWait
    BY <2>3, <2>6 DEF CheckRobots, PolitenessWait, ingest
  <2>7. ASSUME NEW time \in 0..1, Fail(time) \/ Get(time)
        PROVE  ChunkInv'
    BY <2>3, <2>7 DEF Fail, Get, ingest
  <2>8. QED
    BY <2>1, <2>2, <2>4, <2>5, <2>6, <2>7 DEF Next, Step
<1>3. ASSUME IInv, ChunkInv
      PROVE  ChunksCoverText
  <2>1. SUFFICES ASSUME text # <<>>
                 PROVE  GoodChunking(text, ChunkText(text))
    BY <1>3 DEF ChunkInv, ChunksCoverText
  <2>2. TypeOK
    BY <1>3 DEF IInv
  <2>3. text \in Seq(Line)
    BY <2>1, <2>2, JobAssumption DEF TypeOK
  <2>4. QED
    BY <2>3, ChunkTextIsGood
<1>4. QED
  BY <1>1, <1>2, <1>3, IInvHolds, PTL DEF Spec
=============================================================================
