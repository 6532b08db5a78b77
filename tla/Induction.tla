----------------------------- MODULE Induction ------------------------------
(***************************************************************************)
(* Induction over numbers and finite sets, and what it shows of functions  *)
(* defined by recursion: they exist, and what a sum is.  The hypothesis of *)
(* an induction is a set, not a predicate: {n \in Nat : P(n)} for P.  So a *)
(* proof can cite these lemmas with any P, and they rest only on the well- *)
(* foundedness of inclusion between finite sets.                           *)
(***************************************************************************)
EXTENDS Functions, FiniteSetTheorems, TLAPS

(* A set of natural numbers has a least element: 0 .. m for the least m is *)
(* the smallest of the sets 0 .. k.                                        *)
LEMMA LeastNatural ==
  ASSUME NEW S \in SUBSET Nat, S # {}
  PROVE  \E m \in S : \A k \in S : m <= k
<1>1. PICK b \in S : TRUE
  OBVIOUS
<1>. DEFINE U == 0 .. b
            T == {0 .. k : k \in S \cap U}
<1>2. b \in Nat /\ IsFiniteSet(U)
  BY <1>1, FS_Interval
<1>3. FiniteSubsetsOf(U) = SUBSET U
  BY <1>2, FS_FiniteSubsetsOfFinite
<1>4. IsWellFoundedOn(StrictSubsetOrdering(U), SUBSET U)
  BY <1>3, FS_StrictSubsetOrderingWellFounded
<1>5. T \subseteq SUBSET U /\ T # {}
  BY <1>2
<1>6. PICK X \in T : \A Y \in T : ~ (<<Y, X>> \in StrictSubsetOrdering(U))
  BY <1>4, <1>5, WFMin
<1>7. PICK m \in S \cap U : X = 0 .. m
  BY <1>6
<1>8. ASSUME NEW k \in S, k < m PROVE FALSE
  <2>1. k \in Nat /\ m \in Nat /\ k \in U
    BY <1>2, <1>7, <1>8
  <2>2. 0 .. k \in T
    BY <2>1
  <2>3. 0 .. k \subseteq 0 .. m /\ 0 .. k # 0 .. m
    <3>1. m \in 0 .. m /\ m \notin 0 .. k
      BY <1>8, <2>1
    <3>. QED
      BY <1>8, <2>1, <3>1
  <2>4. <<0 .. k, X>> \in StrictSubsetOrdering(U)
    BY <1>5, <1>6, <1>7, <2>2, <2>3 DEF StrictSubsetOrdering
  <2>. QED
    BY <1>6, <2>2, <2>4
<1>. QED
  BY <1>7, <1>8

(* A set with 0 that is closed under + 1 has all natural numbers.          *)
LEMMA InductiveSet ==
  ASSUME NEW S, 0 \in S, \A n \in Nat : n \in S => n + 1 \in S
  PROVE  Nat \subseteq S
<1>. SUFFICES ASSUME Nat \ S # {} PROVE FALSE
  OBVIOUS
<1>1. PICK m \in Nat \ S : \A k \in Nat \ S : m <= k
  BY LeastNatural
<1>2. m # 0 /\ m - 1 \in Nat /\ m - 1 < m
  BY <1>1
<1>. QED
  BY <1>1, <1>2

(* Some member of a set of subsets includes no other.                      *)
LEMMA SmallestSubset ==
  ASSUME NEW S, IsFiniteSet(S), NEW B \in SUBSET (SUBSET S), B # {}
  PROVE  \E X \in B : \A Y \in B : Y \subseteq X => Y = X
<1>1. FiniteSubsetsOf(S) = SUBSET S
  BY FS_FiniteSubsetsOfFinite
<1>2. IsWellFoundedOn(StrictSubsetOrdering(S), SUBSET S)
  BY <1>1, FS_StrictSubsetOrderingWellFounded
<1>3. PICK X \in B : \A Y \in B : ~ (<<Y, X>> \in StrictSubsetOrdering(S))
  BY <1>2, WFMin
<1>. QED
  BY <1>3 DEF StrictSubsetOrdering

(* A set that has each subset of S whose strict subsets it has, has all.   *)
LEMMA SubsetInduction ==
  ASSUME NEW S, IsFiniteSet(S), NEW C,
         \A T \in SUBSET S : (\A U \in SUBSET T : U # T => U \in C) => T \in C
  PROVE  SUBSET S \subseteq C
<1>. DEFINE B == (SUBSET S) \ C
<1>. SUFFICES ASSUME B # {} PROVE FALSE
  OBVIOUS
<1>1. PICK X \in B : \A Y \in B : Y \subseteq X => Y = X
  <2>1. B \in SUBSET (SUBSET S)
    OBVIOUS
  <2>. HIDE DEF B
  <2>. QED
    BY <2>1, SmallestSubset
<1>2. ASSUME NEW Y \in SUBSET X, Y # X PROVE Y \in C
  BY <1>1, <1>2
<1>. QED
  BY <1>1, <1>2
-----------------------------------------------------------------------------
(* A function on 0 .. N can be given its first value and a step from each  *)
(* value to the next; F holds the steps.                                   *)
HasRecursion(N, V, a, F) ==
  \E g \in [0 .. N -> V] :
    /\ g[0] = a
    /\ \A n \in 1 .. N : g[n] = F[n][g[n - 1]]

LEMMA RecursiveFunction ==
  ASSUME NEW N \in Nat, NEW V, NEW a \in V, NEW F \in [1 .. N -> [V -> V]]
  PROVE  HasRecursion(N, V, a, F)
<1>. DEFINE upTo(m, g) == /\ g \in [0 .. N -> V]
                          /\ g[0] = a
                          /\ \A n \in 1 .. N : n <= m => g[n] = F[n][g[n - 1]]
            C == {m \in Nat : \E g : upTo(m, g)}
<1>1. 0 \in C
  <2>1. upTo(0, [n \in 0 .. N |-> a])
    OBVIOUS
  <2>. QED
    BY <2>1
<1>2. ASSUME NEW m \in Nat, m \in C PROVE m + 1 \in C
  <2>1. PICK g : upTo(m, g)
    BY <1>2
  <2>2. CASE m + 1 \notin 1 .. N
    <3>1. upTo(m + 1, g)
      BY <2>1, <2>2
    <3>. QED
      BY <3>1
  <2>3. CASE m + 1 \in 1 .. N
    <3>. DEFINE h == [g EXCEPT ![m + 1] = F[m + 1][g[m]]]
    <3>1. g[m] \in V /\ m \in 0 .. N /\ m + 1 \in 0 .. N
      BY <2>1, <2>3
    <3>2. h \in [0 .. N -> V] /\ h[m + 1] = F[m + 1][g[m]]
      BY <2>1, <3>1
    <3>3. \A n \in 0 .. N : n <= m => h[n] = g[n]
      BY <2>1, <3>1
    <3>4. \A n \in 1 .. N : n <= m + 1 => h[n] = F[n][h[n - 1]]
      <4>. SUFFICES ASSUME NEW n \in 1 .. N, n <= m + 1
                    PROVE  h[n] = F[n][h[n - 1]]
        OBVIOUS
      <4>1. n - 1 \in 0 .. N /\ h[n - 1] = g[n - 1]
        BY <3>3
      <4>2. CASE n = m + 1
        BY <3>2, <4>1, <4>2
      <4>3. CASE n <= m
        BY <2>1, <3>3, <4>1, <4>3
      <4>. QED
        BY <4>2, <4>3
    <3>5. h[0] = a
      BY <2>1, <3>3
    <3>6. upTo(m + 1, h)
      BY <3>2, <3>4, <3>5
    <3>. HIDE DEF upTo, h
    <3>. QED
      BY <3>6
  <2>. QED
    BY <2>2, <2>3
<1>3. N \in C
  BY <1>1, <1>2, InductiveSet
<1>4. PICK g : upTo(N, g)
  BY <1>3
<1>. QED
  BY <1>4 DEF HasRecursion
-----------------------------------------------------------------------------
First(s) == CHOOSE x \in s : TRUE

(* The equation by which a fold over the subsets of D adds up f.           *)
SumEquation(g, f, D) ==
  g = [s \in SUBSET D |->
         IF s = {} THEN 0 ELSE f[First(s)] + g[s \ {First(s)}]]

(* The recursion of SumFunction over the subsets of a finite set has a     *)
(* solution, one cardinality after the other.                              *)
LEMMA SumDefined ==
  ASSUME NEW D, IsFiniteSet(D), NEW f
  PROVE  \E g : SumEquation(g, f, D)
<1>. DEFINE body(g, s) == IF s = {} THEN 0 ELSE f[First(s)] + g[s \ {First(s)}]
            upTo(m, g) == \A s \in SUBSET D : Cardinality(s) <= m => g[s] = body(g, s)
            C == {m \in Nat : \E g : upTo(m, g)}
<1>1. \A s \in SUBSET D : Cardinality(s) \in Nat /\ (Cardinality(s) = 0 <=> s = {})
  BY FS_Subset, FS_CardinalityType, FS_EmptySet
<1>2. ASSUME NEW s \in SUBSET D, s # {}
      PROVE  /\ s \ {First(s)} \in SUBSET D
             /\ Cardinality(s \ {First(s)}) = Cardinality(s) - 1
  <2>1. First(s) \in s
    BY <1>2 DEF First
  <2>. QED
    BY <2>1, FS_Subset, FS_RemoveElement
<1>3. 0 \in C
  <2>1. upTo(0, [s \in SUBSET D |-> 0])
    BY <1>1
  <2>. QED
    BY <2>1
<1>4. ASSUME NEW m \in Nat, m \in C PROVE m + 1 \in C
  <2>1. PICK g : upTo(m, g)
    BY <1>4
  <2>. DEFINE h == [s \in SUBSET D |-> IF Cardinality(s) <= m THEN g[s] ELSE body(g, s)]
  <2>2. ASSUME NEW s \in SUBSET D, Cardinality(s) <= m + 1
        PROVE  h[s] = body(g, s)
    BY <2>1, <2>2
  <2>3. ASSUME NEW s \in SUBSET D, Cardinality(s) <= m + 1
        PROVE  body(h, s) = body(g, s)
    <3>1. CASE s = {}
      BY <3>1
    <3>2. CASE s # {}
      <4>. DEFINE r == s \ {First(s)}
      <4>1. r \in SUBSET D /\ Cardinality(r) <= m
        BY <1>1, <1>2, <2>3, <3>2
      <4>2. h[r] = g[r]
        BY <4>1
      <4>. QED
        BY <3>2, <4>2
    <3>. QED
      BY <3>1, <3>2
  <2>4. upTo(m + 1, h)
    BY <2>2, <2>3
  <2>. HIDE DEF upTo, h
  <2>. QED
    BY <2>4
<1>5. Cardinality(D) \in C
  BY <1>1, <1>3, <1>4, InductiveSet
<1>6. PICK g : upTo(Cardinality(D), g)
  BY <1>5
<1>7. \A s \in SUBSET D : g[s] = body(g, s)
  BY <1>6, FS_Subset
<1>. DEFINE h == [s \in SUBSET D |-> g[s]]
<1>8. \A s \in SUBSET D : body(h, s) = body(g, s)
  BY <1>2
<1>9. SumEquation(h, f, D)
  BY <1>7, <1>8 DEF SumEquation
<1>. QED
  BY <1>9

SumOver(f, D) == CHOOSE g : SumEquation(g, f, D)

(* SumOver is the function that SumFunction of Functions.tla recurs on.    *)
LEMMA SumIsSumOver ==
  ASSUME NEW f
  PROVE  SumFunction(f) = SumOver(f, DOMAIN f)[DOMAIN f]
BY DEF SumFunction, SumFunctionOnSet, FoldFunctionOnSet, MapThenFoldSet,
       SumOver, SumEquation, First

(* So the sum over a set is that of one element and of the others.         *)
LEMMA SumUnfolds ==
  ASSUME NEW D, IsFiniteSet(D), NEW f, NEW s \in SUBSET D
  PROVE  SumOver(f, D)[s] =
           IF s = {} THEN 0 ELSE f[First(s)] + SumOver(f, D)[s \ {First(s)}]
<1>1. SumEquation(SumOver(f, D), f, D)
  BY SumDefined DEF SumOver
<1>. QED
  BY <1>1 DEF SumEquation

(* A counter per element, all at 0, sums to 0.                             *)
LEMMA SumOfZeros ==
  ASSUME NEW D, IsFiniteSet(D)
  PROVE  SumFunction([d \in D |-> 0]) = 0
<1>. DEFINE f == [d \in D |-> 0]
            C == {s \in SUBSET D : SumOver(f, D)[s] = 0}
<1>1. ASSUME NEW T \in SUBSET D, \A U \in SUBSET T : U # T => U \in C
      PROVE  T \in C
  <2>1. CASE T = {}
    BY <2>1, SumUnfolds
  <2>2. CASE T # {}
    <3>1. First(T) \in T
      BY <2>2 DEF First
    <3>2. T \ {First(T)} \in C /\ f[First(T)] = 0
      BY <1>1, <3>1
    <3>. QED
      BY <2>2, <3>2, SumUnfolds
  <2>. QED
    BY <2>1, <2>2
<1>2. D \in C
  <2>. HIDE DEF C
  <2>. QED
    BY <1>1, SubsetInduction
<1>. QED
  BY <1>2, SumIsSumOver

(* The sum of counters is a counter.                                       *)
LEMMA SumIsNat ==
  ASSUME NEW D, IsFiniteSet(D), NEW f \in [D -> Nat]
  PROVE  SumFunction(f) \in Nat
<1>. DEFINE C == {s \in SUBSET D : SumOver(f, D)[s] \in Nat}
<1>1. ASSUME NEW T \in SUBSET D, \A U \in SUBSET T : U # T => U \in C
      PROVE  T \in C
  <2>1. CASE T = {}
    BY <2>1, SumUnfolds
  <2>2. CASE T # {}
    <3>1. First(T) \in T
      BY <2>2 DEF First
    <3>2. T \ {First(T)} \in C /\ f[First(T)] \in Nat
      BY <1>1, <3>1
    <3>3. SumOver(f, D)[T] = f[First(T)] + SumOver(f, D)[T \ {First(T)}]
      BY <2>2, SumUnfolds
    <3>. QED
      BY <3>2, <3>3
  <2>. QED
    BY <2>1, <2>2
<1>2. D \in C
  <2>. HIDE DEF C
  <2>. QED
    BY <1>1, SubsetInduction
<1>. QED
  BY <1>2, SumIsSumOver

(* When one counter goes up by one, so does the sum.                       *)
LEMMA SumCountsUp ==
  ASSUME NEW D, IsFiniteSet(D), NEW f \in [D -> Nat], NEW x \in D
  PROVE  SumFunction([f EXCEPT ![x] = @ + 1]) = SumFunction(f) + 1
<1>. DEFINE g == [f EXCEPT ![x] = @ + 1]
            C == {s \in SUBSET D :
                    /\ SumOver(f, D)[s] \in Nat
                    /\ SumOver(g, D)[s] =
                         IF x \in s THEN SumOver(f, D)[s] + 1 ELSE SumOver(f, D)[s]}
<1>1. ASSUME NEW T \in SUBSET D, \A U \in SUBSET T : U # T => U \in C
      PROVE  T \in C
  <2>1. CASE T = {}
    BY <2>1, SumUnfolds
  <2>2. CASE T # {}
    <3>1. First(T) \in T
      BY <2>2 DEF First
    <3>. DEFINE y == First(T)
                R == T \ {y}
    <3>2. R \in C
      BY <1>1, <3>1
    <3>6. f[y] \in Nat /\ g[y] = IF y = x THEN f[y] + 1 ELSE f[y]
      BY <3>1
    <3>3. /\ SumOver(f, D)[T] = f[y] + SumOver(f, D)[R]
          /\ SumOver(g, D)[T] = g[y] + SumOver(g, D)[R]
      BY <2>2, SumUnfolds
    <3>4. x \in T <=> x = y \/ x \in R
      BY <3>1
    <3>5. x = y => x \notin R
      OBVIOUS
    <3>. QED
      BY <3>2, <3>3, <3>4, <3>5, <3>6
  <2>. QED
    BY <2>1, <2>2
<1>2. D \in C
  <2>. HIDE DEF C
  <2>. QED
    BY <1>1, SubsetInduction
<1>3. DOMAIN f = D /\ DOMAIN g = D
  OBVIOUS
<1>4. SumFunction(f) = SumOver(f, D)[D] /\ SumFunction(g) = SumOver(g, D)[D]
  BY <1>3, SumIsSumOver
<1>. QED
  BY <1>2, <1>4

(* The same of a sum over some of the counters.                            *)
LEMMA SumOnSetIsSumOver ==
  ASSUME NEW f, NEW D
  PROVE  SumFunctionOnSet(f, D) = SumOver(f, D)[D]
BY DEF SumFunctionOnSet, FoldFunctionOnSet, MapThenFoldSet, SumOver, SumEquation,
       First

LEMMA SumOfNoughts ==
  ASSUME NEW D, IsFiniteSet(D), NEW f, \A d \in D : f[d] = 0
  PROVE  SumFunctionOnSet(f, D) = 0
<1>. DEFINE C == {s \in SUBSET D : SumOver(f, D)[s] = 0}
<1>1. ASSUME NEW T \in SUBSET D, \A U \in SUBSET T : U # T => U \in C
      PROVE  T \in C
  <2>1. CASE T = {}
    BY <2>1, SumUnfolds
  <2>2. CASE T # {}
    <3>1. First(T) \in T
      BY <2>2 DEF First
    <3>2. T \ {First(T)} \in C /\ f[First(T)] = 0
      BY <1>1, <3>1
    <3>3. SumOver(f, D)[T] = f[First(T)] + SumOver(f, D)[T \ {First(T)}]
      BY <2>2, SumUnfolds
    <3>. QED
      BY <3>2, <3>3
  <2>. QED
    BY <2>1, <2>2
<1>2. D \in C
  <2>. HIDE DEF C
  <2>. QED
    BY <1>1, SubsetInduction
<1>. QED
  BY <1>2, SumOnSetIsSumOver

(* When one term changes by k, so does the sum, if it has that term.       *)
ChangesAt(f, g, D, x, k) ==
  \A d \in D : f[d] \in Int /\ g[d] = f[d] + IF d = x THEN k ELSE 0

LEMMA SumChanges ==
  ASSUME NEW D, IsFiniteSet(D), NEW f, NEW g, NEW x, NEW k \in Int,
         ChangesAt(f, g, D, x, k)
  PROVE  /\ SumFunctionOnSet(f, D) \in Int
         /\ SumFunctionOnSet(g, D) =
              SumFunctionOnSet(f, D) + IF x \in D THEN k ELSE 0
<1>. DEFINE C == {s \in SUBSET D :
                    /\ SumOver(f, D)[s] \in Int
                    /\ SumOver(g, D)[s] =
                         SumOver(f, D)[s] + IF x \in s THEN k ELSE 0}
<1>1. ASSUME NEW T \in SUBSET D, \A U \in SUBSET T : U # T => U \in C
      PROVE  T \in C
  <2>1. CASE T = {}
    <3>1. SumOver(f, D)[T] = 0 /\ SumOver(g, D)[T] = 0
      BY <2>1, SumUnfolds
    <3>. QED
      BY <2>1, <3>1
  <2>2. CASE T # {}
    <3>1. First(T) \in T
      BY <2>2 DEF First
    <3>. DEFINE y == First(T)
                R == T \ {y}
    <3>2. R \in C
      BY <1>1, <3>1
    <3>3. f[y] \in Int /\ g[y] = f[y] + IF y = x THEN k ELSE 0
      BY <3>1 DEF ChangesAt
    <3>4. /\ SumOver(f, D)[T] = f[y] + SumOver(f, D)[R]
          /\ SumOver(g, D)[T] = g[y] + SumOver(g, D)[R]
      BY <2>2, SumUnfolds
    <3>5. x \in T <=> x = y \/ x \in R
      BY <3>1
    <3>6. x = y => x \notin R
      OBVIOUS
    <3>. QED
      BY <3>2, <3>3, <3>4, <3>5, <3>6
  <2>. QED
    BY <2>1, <2>2
<1>2. D \in C
  <2>. HIDE DEF C
  <2>. QED
    BY <1>1, SubsetInduction
<1>. QED
  BY <1>2, SumOnSetIsSumOver
=============================================================================
