------------------------------ MODULE FoldLemmas ------------------------------
(***************************************************************************)
(* What FoldLeft computes, for lists of any length: the proofs about the   *)
(* modules that fold start from here.  Induction over the indices is done  *)
(* on sets of them, as the least one that is missing.                      *)
(***************************************************************************)
EXTENDS Naturals, SequencesExt, WellFoundedInduction, TLAPS

-------------------------------------------------------------------------------
(* Indices.                                                                *)

\* Every set of numbers has a least one.
LEMMA SmallestElement ==
  ASSUME NEW S, S \subseteq Nat, S # {}
  PROVE  \E n \in S : \A m \in S : ~(m < n)
<1> DEFINE R == OpToRel(<, Nat)
<1>1. IsWellFoundedOn(R, Nat)
  BY NatLessThanWellFounded DEF OpToRel
<1>2. PICK n \in S : \A m \in S : ~(<<m, n>> \in R)
  <2> HIDE DEF R
  <2> QED BY <1>1, WFMin
<1> QED BY <1>2 DEF OpToRel

\* A set of indices that has 0, and the next of each of its own, has all.
LEMMA EveryIndex ==
  ASSUME NEW N \in Nat, NEW S, 0 \in S, \A n \in 0 .. N - 1 : n \in S => n + 1 \in S
  PROVE  N \in S
<1> SUFFICES ASSUME N \notin S PROVE FALSE
  OBVIOUS
<1> DEFINE Missing == (0 .. N) \ S
<1>1. PICK n \in Missing : \A m \in Missing : ~(m < n)
  <2>1. N \in Missing /\ Missing \subseteq Nat
    OBVIOUS
  <2> HIDE DEF Missing
  <2> QED BY <2>1, SmallestElement
<1>2. n \in Nat /\ n # 0 /\ n <= N /\ n \notin S
  BY <1>1
<1>3. n - 1 \in 0 .. N - 1 /\ n - 1 < n /\ (n - 1) + 1 = n
  BY <1>2
<1>4. n - 1 \in S
  BY <1>1, <1>3
<1> QED BY <1>2, <1>3, <1>4

\* Numbers in a list have a bound.
LEMMA Bounded ==
  ASSUME NEW N \in Nat, NEW f, \A k \in 1 .. N : f[k] \in Nat
  PROVE  \E b \in Nat : \A k \in 1 .. N : f[k] <= b
<1> DEFINE Good == {n \in 0 .. N : \E b \in Nat : \A k \in 1 .. n : f[k] <= b}
<1>1. 0 \in Good
  OBVIOUS
<1>2. ASSUME NEW n \in 0 .. N - 1, n \in Good PROVE n + 1 \in Good
  <2>1. PICK b \in Nat : \A k \in 1 .. n : f[k] <= b
    BY <1>2
  <2>2. f[n + 1] \in Nat /\ n + 1 \in 0 .. N
    OBVIOUS
  <2>3. PICK c \in Nat : b <= c /\ f[n + 1] <= c
    <3>1. b + f[n + 1] \in Nat /\ b <= b + f[n + 1] /\ f[n + 1] <= b + f[n + 1]
      BY <2>2
    <3> QED BY <3>1
  <2>4. \A k \in 1 .. n + 1 : f[k] <= c
    <3> TAKE k \in 1 .. n + 1
    <3>1. CASE k = n + 1
      BY <2>3, <3>1
    <3>2. CASE k # n + 1
      <4>1. k \in 1 .. n /\ f[k] \in Nat /\ f[k] <= b
        BY <2>1, <3>2
      <4> QED BY <2>3, <4>1
    <3> QED BY <3>1, <3>2
  <2> QED BY <2>2, <2>4
<1>3. N \in Good
  <2> HIDE DEF Good
  <2> QED BY <1>1, <1>2, EveryIndex
<1> QED BY <1>3

\* What is not below any other is the maximum.
LEMMA Largest ==
  ASSUME NEW n \in Nat, NEW S, n \in S, \A m \in S : m \in Nat /\ m <= n
  PROVE  Max(S) = n
<1>1. \A m \in S : n >= m
  OBVIOUS
<1>2. \A x \in S : (\A m \in S : x >= m) => x = n
  OBVIOUS
<1> QED BY <1>1, <1>2 DEF Max

\* The maximum of some indices is one of them.
LEMMA LargestIsOne ==
  ASSUME NEW N \in Nat, NEW S \in SUBSET (1 .. N), S # {}
  PROVE  Max(S) \in S /\ \A m \in S : m <= Max(S)
<1> DEFINE Gaps == {N - k : k \in S}
<1>1. Gaps \subseteq Nat /\ Gaps # {}
  <2>1. \A k \in S : k \in Nat /\ N - k \in Nat
    OBVIOUS
  <2> QED BY <2>1
<1>2. PICK d \in Gaps : \A m \in Gaps : ~(m < d)
  <2> HIDE DEF Gaps
  <2> QED BY <1>1, SmallestElement
<1>3. PICK n \in S : d = N - n
  BY <1>2
<1>4. ASSUME NEW m \in S PROVE m \in Nat /\ m <= n
  <2>1. ~(N - m < N - n)
    BY <1>2, <1>3
  <2> QED BY <2>1
<1>5. n \in Nat
  BY <1>4
<1>6. Max(S) = n
  BY <1>4, <1>5, Largest
<1> QED BY <1>4, <1>6

-------------------------------------------------------------------------------
(* Folds.                                                                  *)

\* g is the function that FoldLeft goes by: what it makes of the first of the
\* N elements is at the set of their indices.
Folding(g, T, base, step, N) ==
  /\ g \in [SUBSET (1 .. N) -> T]
  /\ \A S \in SUBSET (1 .. N) :
       g[S] = IF S = {} THEN base ELSE step[Max(S)][g[S \ {Max(S)}]]

\* It exists, whatever is folded.
LEMMA FoldExists ==
  ASSUME NEW T, NEW base \in T, NEW N \in Nat, NEW step \in [1 .. N -> [T -> T]]
  PROVE  \E g : Folding(g, T, base, step, N)
<1> DEFINE Solved(n) ==
      \E g \in [SUBSET (1 .. n) -> T] : \A S \in SUBSET (1 .. n) :
        g[S] = IF S = {} THEN base ELSE step[Max(S)][g[S \ {Max(S)}]]
<1>1. Solved(0)
  <2> DEFINE g == [S \in SUBSET (1 .. 0) |-> base]
  <2>1. g \in [SUBSET (1 .. 0) -> T]
    OBVIOUS
  <2>2. \A S \in SUBSET (1 .. 0) : S = {} /\ g[S] = base
    OBVIOUS
  <2> HIDE DEF g
  <2> QED BY <2>1, <2>2
<1>2. ASSUME NEW n \in 0 .. N - 1, Solved(n) PROVE Solved(n + 1)
  <2>1. PICK g \in [SUBSET (1 .. n) -> T] : \A S \in SUBSET (1 .. n) :
          g[S] = IF S = {} THEN base ELSE step[Max(S)][g[S \ {Max(S)}]]
    BY <1>2
  <2> DEFINE h == [S \in SUBSET (1 .. n + 1) |->
                     IF n + 1 \in S THEN step[n + 1][g[S \ {n + 1}]] ELSE g[S]]
  <2>2. ASSUME NEW S \in SUBSET (1 .. n + 1)
        PROVE  h[S] \in T /\ h[S] = IF S = {} THEN base ELSE step[Max(S)][h[S \ {Max(S)}]]
    <3>1. CASE n + 1 \in S
      <4>1. n + 1 \in Nat /\ n + 1 \in 1 .. N /\ \A m \in S : m \in Nat /\ m <= n + 1
        OBVIOUS
      <4>2. Max(S) = n + 1
        BY <3>1, <4>1, Largest
      <4>3. /\ S \ {n + 1} \in SUBSET (1 .. n) /\ S \ {n + 1} \in SUBSET (1 .. n + 1)
            /\ n + 1 \notin S \ {n + 1}
        OBVIOUS
      <4>4. h[S] = step[n + 1][g[S \ {n + 1}]] /\ h[S \ {n + 1}] = g[S \ {n + 1}]
        BY <3>1, <4>3
      <4>5. g[S \ {n + 1}] \in T /\ S # {}
        BY <2>1, <3>1, <4>3
      <4>6. step[n + 1][g[S \ {n + 1}]] \in T
        BY <4>1, <4>5
      <4> HIDE DEF h
      <4> QED BY <4>2, <4>4, <4>5, <4>6
    <3>2. CASE n + 1 \notin S
      <4>1. S \in SUBSET (1 .. n)
        BY <3>2
      <4>2. ASSUME NEW m PROVE S \ {m} \in SUBSET (1 .. n) /\ n + 1 \notin S \ {m}
        BY <4>1, <3>2
      <4>3. h[S] = g[S] /\ \A m : h[S \ {m}] = g[S \ {m}]
        BY <4>1, <4>2, <3>2
      <4> HIDE DEF h
      <4> QED BY <2>1, <4>1, <4>3
    <3> QED BY <3>1, <3>2
  <2>3. h \in [SUBSET (1 .. n + 1) -> T]
    <3>1. \A S \in SUBSET (1 .. n + 1) : h[S] \in T
      BY <2>2
    <3> QED BY <3>1
  <2> HIDE DEF h
  <2> QED BY <2>2, <2>3
<1> DEFINE Levels == {n \in 0 .. N : Solved(n)}
<1>3. 0 \in Levels /\ \A n \in 0 .. N - 1 : n \in Levels => n + 1 \in Levels
  <2>1. 0 \in 0 .. N /\ \A n \in 0 .. N - 1 : n + 1 \in 0 .. N
    OBVIOUS
  <2> HIDE DEF Solved
  <2>2. \A n \in 0 .. N - 1 : Solved(n) => Solved(n + 1)
    BY <1>2
  <2> QED BY <1>1, <2>1, <2>2
<1>4. N \in Levels
  <2> HIDE DEF Levels
  <2> QED BY <1>3, EveryIndex
<1> QED BY <1>4 DEF Folding

\* Such a function goes from index to index.
LEMMA EachPrefix ==
  ASSUME NEW N \in Nat, NEW n \in 0 .. N - 1
  PROVE  /\ Max(1 .. n + 1) = n + 1 /\ (1 .. n + 1) \ {n + 1} = 1 .. n
         /\ 1 .. n + 1 \in SUBSET (1 .. N) /\ 1 .. n + 1 # {}
<1>1. n + 1 \in 1 .. n + 1 /\ \A k \in 1 .. n + 1 : k \in 1 .. N
  OBVIOUS
<1>2. n + 1 \in Nat /\ \A m \in 1 .. n + 1 : m \in Nat /\ m <= n + 1
  OBVIOUS
<1>3. Max(1 .. n + 1) = n + 1
  BY <1>1, <1>2, Largest
<1> QED BY <1>1, <1>3
===============================================================================
