------------------------------ MODULE Induction -------------------------------
(***************************************************************************)
(* Induction and recursion on the naturals, for the proofs about what the  *)
(* loops of the code compute.  The principles are stated for sets and      *)
(* functions, not for operators, so that they can be cited.                *)
(***************************************************************************)
EXTENDS Integers, WellFoundedInduction, TLAPS

\* A property of naturals that is false somewhere is false somewhere first.
LEMMA FirstFailure ==
  ASSUME NEW S \in SUBSET Nat, 0 \in S, \A n \in S : n + 1 \in S
  PROVE  S = Nat
<1> DEFINE R == OpToRel(<, Nat)
           B == Nat \ S
<1>1. \A x, y \in Nat : x < y => <<x, y>> \in R
  BY DEF OpToRel
<1>2. IsWellFoundedOn(R, Nat)
  BY NatLessThanWellFounded
<1> HIDE DEF R
<1>3. SUFFICES ASSUME B # {} PROVE FALSE
  OBVIOUS
<1>4. PICK x \in B : \A y \in B : ~(<<y, x>> \in R)
  BY <1>2, <1>3, WFMin
<1>5. x \in Nat /\ x \notin S /\ \A y \in Nat : y < x => y \in S
  BY <1>1, <1>4
<1>6. x # 0 /\ x - 1 \in Nat /\ x - 1 < x
  BY <1>5
<1>7. x - 1 \in S
  BY <1>5, <1>6
<1>8. (x - 1) + 1 \in S
  BY <1>7
<1>9. QED
  BY <1>5, <1>8

\* What grows from each to the next grows.
LEMMA Climbs ==
  ASSUME NEW N \in Nat, NEW g \in [0..N -> Int], \A n \in 1..N : g[n - 1] <= g[n],
         NEW m \in 0..N, NEW n \in m..N
  PROVE  g[m] <= g[n]
<1> DEFINE S == {k \in Nat : k \in m..N => g[m] <= g[k]}
<1>1. 0 \in S
  OBVIOUS
<1>2. ASSUME NEW k \in S
      PROVE  k + 1 \in S
  <2>1. SUFFICES ASSUME k + 1 \in m..N
                 PROVE  g[m] <= g[k + 1]
    BY <1>2
  <2>2. CASE m = k + 1
    BY <2>2
  <2>3. CASE m # k + 1
    <3>1. k \in m..N /\ k \in 0..N /\ k + 1 \in 1..N /\ (k + 1) - 1 = k /\ k + 1 \in 0..N
      BY <1>2, <2>1, <2>3
    <3>2. g[m] <= g[k] /\ g[k] <= g[k + 1]
      BY <1>2, <3>1
    <3>3. QED
      BY <3>1, <3>2
  <2>4. QED
    BY <2>2, <2>3
<1>3. S \in SUBSET Nat
  OBVIOUS
<1>4. S = Nat
  <2> HIDE DEF S
  <2>1. QED
    BY <1>1, <1>2, <1>3, FirstFailure
<1>5. n \in Nat
  OBVIOUS
<1>6. QED
  BY <1>4, <1>5

\* A set of naturals that is not empty has a least element.
LEMMA LeastOf ==
  ASSUME NEW S \in SUBSET Nat, S # {}
  PROVE  \E x \in S : \A y \in S : x <= y
<1> DEFINE R == OpToRel(<, Nat)
<1>1. \A x, y \in Nat : x < y => <<x, y>> \in R
  BY DEF OpToRel
<1>2. IsWellFoundedOn(R, Nat)
  BY NatLessThanWellFounded
<1> HIDE DEF R
<1>3. PICK x \in S : \A y \in S : ~(<<y, x>> \in R)
  BY <1>2, WFMin
<1>4. ASSUME NEW y \in S
      PROVE  x <= y
  <2>1. x \in Nat /\ y \in Nat /\ ~(y < x)
    BY <1>1, <1>3
  <2>2. QED
    BY <2>1
<1>5. QED
  BY <1>4

\* step[k] makes a value of one in V; g goes from start by step, up to N or for ever.
Steps(step, N, V) == \A k \in 1..N, v \in V : step[k][v] \in V
Follows(g, step, start, N, V) ==
  g \in [0..N -> V] /\ g[0] = start /\ \A k \in 1..N : g[k] = step[k][g[k - 1]]
FollowsAlways(g, step, start, V) ==
  g \in [Nat -> V] /\ g[0] = start /\ \A k \in Nat : g[k + 1] = step[k + 1][g[k]]

\* A function may be defined by what each value is made of the one before.
LEMMA Recursion ==
  ASSUME NEW V, NEW N \in Nat, NEW start \in V, NEW step, Steps(step, N, V)
  PROVE  \E g : Follows(g, step, start, N, V)
<1> USE DEF Steps, Follows
<1> DEFINE P(n) == \E g \in [0..n -> V] :
                     g[0] = start /\ \A k \in 1..n : g[k] = step[k][g[k - 1]]
           S == {n \in Nat : n \in 0..N => P(n)}
<1>1. 0 \in S
  <2> DEFINE g == [k \in 0..0 |-> start]
  <2>1. g \in [0..0 -> V] /\ g[0] = start /\ \A k \in 1..0 : g[k] = step[k][g[k - 1]]
    OBVIOUS
  <2> HIDE DEF g
  <2>2. P(0)
    BY <2>1
  <2>3. QED
    BY <2>2
<1>2. ASSUME NEW n \in S
      PROVE  n + 1 \in S
  <2>1. SUFFICES ASSUME n + 1 \in 0..N
                 PROVE  P(n + 1)
    <3> HIDE DEF P
    <3>1. QED
      BY <1>2
  <2>2. n \in Nat /\ n \in 0..N /\ n + 1 \in 1..N
    BY <1>2, <2>1
  <2>3. P(n)
    <3> HIDE DEF P
    <3>1. QED
      BY <1>2, <2>2
  <2>4. PICK g \in [0..n -> V] : g[0] = start /\ \A k \in 1..n : g[k] = step[k][g[k - 1]]
    BY <2>3
  <2>5. n \in 0..n /\ g[n] \in V
    BY <2>2, <2>4
  <2>6. step[n + 1][g[n]] \in V
    BY <2>2, <2>5
  <2> DEFINE h == [k \in 0..(n + 1) |-> IF k = n + 1 THEN step[n + 1][g[n]] ELSE g[k]]
  <2>7. /\ \A k \in 0..n : k \in 0..(n + 1) /\ h[k] = g[k]
        /\ h[n + 1] = step[n + 1][g[n]]
        /\ h \in [0..(n + 1) -> V]
    <3>1. n + 1 \in 0..(n + 1) /\ n + 1 \notin 0..n
      BY <2>2
    <3>2. \A k \in 0..(n + 1) : k = n + 1 \/ k \in 0..n
      BY <2>2
    <3>3. \A k \in 0..n : k \in 0..(n + 1)
      BY <2>2
    <3>4. QED
      BY <2>4, <2>6, <3>1, <3>2, <3>3
  <2> HIDE DEF h
  <2>8. \A k \in 1..(n + 1) : h[k] = step[k][h[k - 1]]
    <3>1. TAKE k \in 1..(n + 1)
    <3>2. CASE k = n + 1
      BY <2>2, <2>5, <2>7, <3>2
    <3>3. CASE k # n + 1
      <4>1. k \in 1..n /\ k \in 0..n /\ k - 1 \in 0..n
        BY <2>2, <3>3
      <4>2. QED
        BY <2>4, <2>7, <4>1
    <3>4. QED
      BY <3>2, <3>3
  <2>9. 0 \in 0..n
    BY <2>2
  <2>10. QED
    BY <2>4, <2>7, <2>8, <2>9
<1>3. S \in SUBSET Nat
  OBVIOUS
<1>4. S = Nat
  <2> HIDE DEF S
  <2>1. QED
    BY <1>1, <1>2, <1>3, FirstFailure
<1>5. N \in S /\ N \in 0..N
  BY <1>4
<1> HIDE DEF P
<1>6. P(N)
  BY <1>5
<1>7. QED
  BY <1>6 DEF P

\* There is one such function: two agree as far as both go.
LEMMA RecursionUnique ==
  ASSUME NEW V, NEW step, NEW start, NEW M \in Nat, NEW N \in Nat, M <= N,
         NEW g, Follows(g, step, start, M, V), NEW h, Follows(h, step, start, N, V)
  PROVE  \A k \in 0..M : g[k] = h[k]
<1> DEFINE S == {k \in Nat : k \in 0..M => g[k] = h[k]}
<1>1. 0 \in S
  BY DEF Follows
<1>2. ASSUME NEW k \in S
      PROVE  k + 1 \in S
  <2>1. CASE k + 1 \in 0..M
    <3>1. k \in 0..M /\ k + 1 \in 1..M /\ k + 1 \in 1..N /\ (k + 1) - 1 = k
      BY <1>2, <2>1
    <3>2. g[k] = h[k]
      BY <1>2, <3>1
    <3>3. g[k + 1] = step[k + 1][g[k]] /\ h[k + 1] = step[k + 1][h[k]]
      BY <3>1 DEF Follows
    <3>4. QED
      BY <1>2, <3>2, <3>3
  <2>2. CASE k + 1 \notin 0..M
    BY <1>2, <2>2
  <2>3. QED
    BY <2>1, <2>2
<1>3. S \in SUBSET Nat
  OBVIOUS
<1>4. S = Nat
  <2> HIDE DEF S
  <2>1. QED
    BY <1>1, <1>2, <1>3, FirstFailure
<1>5. QED
  BY <1>4

\* A function on all naturals may be defined in the same way.
LEMMA RecursionAlways ==
  ASSUME NEW V, NEW start \in V, NEW step, \A n \in Nat : Steps(step, n, V)
  PROVE  \E g : FollowsAlways(g, step, start, V)
<1> DEFINE upTo(n) == CHOOSE g : Follows(g, step, start, n, V)
<1>1. \A n \in Nat : Follows(upTo(n), step, start, n, V)
  <2>1. TAKE n \in Nat
  <2>2. \E g : Follows(g, step, start, n, V)
    BY Recursion
  <2>3. QED
    BY <2>2
<1> HIDE DEF upTo
<1> DEFINE g == [n \in Nat |-> upTo(n)[n]]
<1>2. g \in [Nat -> V]
  <2>1. \A n \in Nat : upTo(n)[n] \in V
    <3>1. TAKE n \in Nat
    <3>2. upTo(n) \in [0..n -> V] /\ n \in 0..n
      BY <1>1 DEF Follows
    <3>3. QED
      BY <3>2
  <2>2. QED
    BY <2>1
<1>3. g[0] = start
  BY <1>1 DEF Follows
<1>4. \A n \in Nat : g[n + 1] = step[n + 1][g[n]]
  <2>1. TAKE n \in Nat
  <2>2. n + 1 \in Nat /\ n <= n + 1 /\ n \in 0..n /\ n + 1 \in 1..(n + 1) /\ (n + 1) - 1 = n
    OBVIOUS
  <2>3. Follows(upTo(n), step, start, n, V) /\ Follows(upTo(n + 1), step, start, n + 1, V)
    BY <1>1, <2>2
  <2>4. upTo(n + 1)[n + 1] = step[n + 1][upTo(n + 1)[n]]
    BY <2>2, <2>3 DEF Follows
  <2>5. upTo(n)[n] = upTo(n + 1)[n]
    BY <2>2, <2>3, RecursionUnique
  <2>6. QED
    BY <2>2, <2>4, <2>5
<1> HIDE DEF g
<1>5. QED
  BY <1>2, <1>3, <1>4 DEF FollowsAlways
=============================================================================
