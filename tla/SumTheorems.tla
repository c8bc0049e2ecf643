------------------------------ MODULE SumTheorems ------------------------------
(***************************************************************************)
(* Facts about data that several proofs need: induction over the natural   *)
(* numbers, least elements, and what MapThenSumSet of the community        *)
(* modules computes for a finite set of integers.                          *)
(***************************************************************************)
EXTENDS Integers, FiniteSets, FiniteSetsExt, FiniteSetTheorems, WellFoundedInduction, TLAPS

-----------------------------------------------------------------------------
(* Induction over the natural numbers, for a set instead of a predicate.   *)

\* A set with 0 and the successors of its elements holds every natural number (the
\* least natural outside it would be a successor).
LEMMA Induction ==
  ASSUME NEW S, 0 \in S, \A n \in Nat : n \in S => n + 1 \in S
  PROVE  Nat \subseteq S
<1> DEFINE Missed == Nat \ S
           Less == OpToRel(<, Nat)
<1>1. ASSUME Missed # {} PROVE FALSE
  <2>1. IsWellFoundedOn(Less, Nat)
    BY NatLessThanWellFounded, Zenon
  <2>2. Missed \subseteq Nat
    OBVIOUS
  <2> HIDE DEF Missed, Less
  <2>3. PICK m \in Missed : \A n \in Missed : <<n, m>> \notin Less
    BY <1>1, <2>1, <2>2, WFMin
  <2> USE DEF Missed
  <2>4. m \in Nat /\ m # 0
    OBVIOUS
  <2>5. m - 1 \in Nat /\ m - 1 < m
    BY <2>4
  <2>6. <<m - 1, m>> \in Less
    BY <2>4, <2>5 DEF Less, OpToRel
  <2>7. m - 1 \in S
    BY <2>3, <2>5, <2>6
  <2>8. (m - 1) + 1 \in S
    BY <2>5, <2>7
  <2> QED
    BY <2>4, <2>8
<1> QED
  BY <1>1

-----------------------------------------------------------------------------
(* MapThenSumSet is a sum.                                                 *)

\* The recursive function behind MapThenSumSet.
Pick(s) == CHOOSE y \in s : TRUE
IsSum(f, x, S) ==
  f = [s \in SUBSET S |-> IF s = {} THEN 0 ELSE x[Pick(s)] + f[s \ {Pick(s)}]]
SumOver(x, S) == MapThenSumSet(LAMBDA g : x[g], S)

\* SumOver is the value at S of a function with that equation.
LEMMA SumUnfolds ==
  ASSUME NEW S, NEW x
  PROVE  SumOver(x, S) = (CHOOSE f : IsSum(f, x, S))[S]
BY DEF SumOver, MapThenSumSet, MapThenFoldSet, IsSum, Pick

\* The equation of a sum at s.
SumAt(f, x, s) == f[s] = IF s = {} THEN 0 ELSE x[Pick(s)] + f[s \ {Pick(s)}]
Small(S, n) == {s \in SUBSET S : Cardinality(s) <= n}

\* The sets with at most n members, without the one that a sum takes first.
LEMMA SmallSets ==
  ASSUME NEW S, IsFiniteSet(S), NEW n \in Nat
  PROVE  /\ Small(S, 0) = {{}}
         /\ Small(S, n) \subseteq Small(S, n + 1)
         /\ \A s \in Small(S, n) : s # {} => s \ {Pick(s)} \in Small(S, n) /\ Pick(s) \in S
         /\ \A s \in Small(S, n + 1) : s # {} => s \ {Pick(s)} \in Small(S, n)
         /\ Small(S, Cardinality(S)) = SUBSET S
<1>1. \A s \in SUBSET S : IsFiniteSet(s) /\ Cardinality(s) \in Nat /\ Cardinality(s) <= Cardinality(S)
  BY FS_Subset, FS_CardinalityType
<1>2. \A s \in SUBSET S : s # {} => Pick(s) \in s
  BY DEF Pick
<1>3. \A s \in SUBSET S : s # {} => Cardinality(s \ {Pick(s)}) = Cardinality(s) - 1
  BY <1>1, <1>2, FS_RemoveElement
<1>4. \A s \in SUBSET S : Cardinality(s) = 0 <=> s = {}
  BY <1>1, FS_EmptySet
<1>5. Small(S, 0) = {{}}
  <2>1. \A s \in SUBSET S : Cardinality(s) <= 0 <=> s = {}
    BY <1>1, <1>4
  <2> QED
    BY <2>1 DEF Small
<1>6. Small(S, n) \subseteq Small(S, n + 1)
  BY <1>1 DEF Small
<1>7. \A s \in Small(S, n) : s # {} => s \ {Pick(s)} \in Small(S, n) /\ Pick(s) \in S
  BY <1>1, <1>2, <1>3 DEF Small
<1>8. \A s \in Small(S, n + 1) : s # {} => s \ {Pick(s)} \in Small(S, n)
  BY <1>1, <1>2, <1>3 DEF Small
<1>9. Small(S, Cardinality(S)) = SUBSET S
  BY <1>1 DEF Small
<1> QED
  BY <1>5, <1>6, <1>7, <1>8, <1>9

\* Every finite set has a sum.
LEMMA SumExists ==
  ASSUME NEW S, IsFiniteSet(S), NEW x, \A g \in S : x[g] \in Int
  PROVE  \E f : IsSum(f, x, S)
<1> DEFINE Known == {n \in Nat : \E f \in [Small(S, n) -> Int] : \A s \in Small(S, n) : SumAt(f, x, s)}
<1>1. 0 \in Known
  <2> DEFINE f == [s \in Small(S, 0) |-> 0]
  <2>1. f \in [Small(S, 0) -> Int] /\ \A s \in Small(S, 0) : SumAt(f, x, s)
    BY SmallSets DEF SumAt
  <2> QED
    BY <2>1
<1>2. ASSUME NEW n \in Nat, n \in Known PROVE n + 1 \in Known
  <2>1. PICK f \in [Small(S, n) -> Int] : \A s \in Small(S, n) : SumAt(f, x, s)
    BY <1>2
  <2> DEFINE g == [s \in Small(S, n + 1) |->
                     IF s \in Small(S, n) THEN f[s] ELSE x[Pick(s)] + f[s \ {Pick(s)}]]
  <2>2. ASSUME NEW s \in Small(S, n + 1) PROVE g[s] \in Int /\ SumAt(g, x, s)
    <3>1. CASE s \in Small(S, n)
      <4>1. s # {} => s \ {Pick(s)} \in Small(S, n) /\ s \ {Pick(s)} \in Small(S, n + 1)
        BY <3>1, SmallSets
      <4>2. g[s] = f[s] /\ (s # {} => g[s \ {Pick(s)}] = f[s \ {Pick(s)}])
        BY <3>1, <4>1
      <4>3. SumAt(f, x, s)
        BY <3>1, <2>1
      <4> HIDE DEF g
      <4>4. SumAt(g, x, s)
        BY <4>2, <4>3 DEF SumAt
      <4> QED
        BY <2>1, <3>1, <4>2, <4>4
    <3>2. CASE s \notin Small(S, n)
      <4>1. s # {}
        <5>1. {} \in Small(S, n)
          BY FS_EmptySet DEF Small
        <5> QED
          BY <3>2, <5>1
      <4>2. s \ {Pick(s)} \in Small(S, n) /\ s \ {Pick(s)} \in Small(S, n + 1) /\ Pick(s) \in S
        <5>1. n + 1 \in Nat
          OBVIOUS
        <5> QED
          BY <4>1, <5>1, SmallSets
      <4>3. g[s] = x[Pick(s)] + f[s \ {Pick(s)}] /\ g[s \ {Pick(s)}] = f[s \ {Pick(s)}]
        BY <3>2, <4>2
      <4> HIDE DEF g
      <4>4. x[Pick(s)] \in Int /\ f[s \ {Pick(s)}] \in Int
        BY <2>1, <4>2
      <4> QED
        BY <4>1, <4>3, <4>4 DEF SumAt
    <3> QED
      BY <3>1, <3>2
  <2>3. g \in [Small(S, n + 1) -> Int]
    <3>1. g = [s \in Small(S, n + 1) |-> g[s]]
      OBVIOUS
    <3> HIDE DEF g
    <3> QED
      BY <2>2, <3>1
  <2> HIDE DEF g
  <2>4. \E h \in [Small(S, n + 1) -> Int] : \A s \in Small(S, n + 1) : SumAt(h, x, s)
    BY <2>2, <2>3
  <2> QED
    BY <2>4
<1>3. Nat \subseteq Known
  <2> HIDE DEF Known
  <2> QED
    BY <1>1, <1>2, Induction
<1>4. Cardinality(S) \in Known
  <2> HIDE DEF Known
  <2> QED
    BY <1>3, FS_CardinalityType
<1>5. Small(S, Cardinality(S)) = SUBSET S
  BY SmallSets, FS_CardinalityType
<1>6. PICK f \in [SUBSET S -> Int] : \A s \in SUBSET S : SumAt(f, x, s)
  BY <1>4, <1>5
<1>7. IsSum(f, x, S)
  BY <1>6 DEF IsSum, SumAt
<1> QED
  BY <1>7

\* A sum of integers is an integer, and depends on the terms alone.
LEMMA SumFacts ==
  ASSUME NEW S, IsFiniteSet(S), NEW x, NEW y, \A g \in S : x[g] \in Int /\ y[g] = x[g]
  PROVE  SumOver(x, S) \in Int /\ SumOver(y, S) = SumOver(x, S)
<1> DEFINE f == CHOOSE f : IsSum(f, x, S)
           h == CHOOSE h : IsSum(h, y, S)
           Known == {n \in Nat : \A s \in Small(S, n) : f[s] \in Int /\ h[s] = f[s]}
<1>1. IsSum(f, x, S) /\ IsSum(h, y, S)
  <2>1. \A g \in S : y[g] \in Int
    OBVIOUS
  <2> QED
    BY <2>1, SumExists
<1>2. SumOver(x, S) = f[S] /\ SumOver(y, S) = h[S]
  BY SumUnfolds
<1> HIDE DEF f, h
<1>3. \A s \in SUBSET S : SumAt(f, x, s) /\ SumAt(h, y, s)
  BY <1>1 DEF IsSum, SumAt
<1>0. f[{}] = 0 /\ h[{}] = 0
  <2>1. {} \in SUBSET S
    OBVIOUS
  <2> QED
    BY <1>3, <2>1 DEF SumAt
<1>4. 0 \in Known
  <2>1. Small(S, 0) = {{}}
    BY SmallSets
  <2>2. \A s \in Small(S, 0) : f[s] = 0 /\ h[s] = 0
    BY <1>0, <2>1, Zenon
  <2> QED
    BY <2>2
<1>5. ASSUME NEW n \in Nat, n \in Known PROVE n + 1 \in Known
  <2>1. ASSUME NEW s \in Small(S, n + 1) PROVE f[s] \in Int /\ h[s] = f[s]
    <3>1. s \in SUBSET S
      BY DEF Small
    <3>2. CASE s = {}
      <4>1. f[s] = 0 /\ h[s] = 0
        BY <1>0, <3>2, Zenon
      <4> QED
        BY <4>1
    <3>3. CASE s # {}
      <4>1. s \ {Pick(s)} \in Small(S, n)
        BY <3>3, SmallSets
      <4>2. Pick(s) \in S
        BY <3>1, <3>3 DEF Pick
      <4>3. f[s \ {Pick(s)}] \in Int /\ h[s \ {Pick(s)}] = f[s \ {Pick(s)}]
        BY <1>5, <4>1
      <4>4. f[s] = x[Pick(s)] + f[s \ {Pick(s)}] /\ h[s] = y[Pick(s)] + h[s \ {Pick(s)}]
        BY <1>3, <3>1, <3>3 DEF SumAt
      <4> QED
        BY <4>2, <4>3, <4>4
    <3> QED
      BY <3>2, <3>3
  <2> QED
    BY <2>1
<1>6. Nat \subseteq Known
  <2> HIDE DEF Known
  <2> QED
    BY <1>4, <1>5, Induction
<1>7. Cardinality(S) \in Known
  <2> HIDE DEF Known
  <2> QED
    BY <1>6, FS_CardinalityType
<1>8. S \in Small(S, Cardinality(S))
  BY SmallSets, FS_CardinalityType
<1> QED
  BY <1>2, <1>7, <1>8

\* A set of natural numbers has a least one, which Min is.
LEMMA LeastNatural ==
  ASSUME NEW S \in SUBSET Nat, S # {}
  PROVE  Min(S) \in S /\ \A x \in S : Min(S) <= x
<1> DEFINE Less == OpToRel(<, Nat)
<1>1. IsWellFoundedOn(Less, Nat)
  BY NatLessThanWellFounded, Zenon
<1> HIDE DEF Less
<1>2. PICK m \in S : \A n \in S : <<n, m>> \notin Less
  BY <1>1, WFMin
<1> USE DEF Less
<1>3. \A n \in S : ~(n < m)
  BY <1>2 DEF OpToRel
<1>4. \E x \in S : \A y \in S : x <= y
  BY <1>3
<1> QED
  BY <1>4 DEF Min

\* A sum over a part of the set is what the sum over the set computes on the way.
LEMMA SumOfPart ==
  ASSUME NEW S, IsFiniteSet(S), NEW x, \A g \in S : x[g] \in Int, NEW f, IsSum(f, x, S),
         NEW T \in SUBSET S
  PROVE  SumOver(x, T) = f[T]
<1> DEFINE h == CHOOSE h : IsSum(h, x, T)
           Known == {n \in Nat : \A s \in Small(T, n) : h[s] = f[s]}
<1>1. IsFiniteSet(T)
  BY FS_Subset
<1>2. IsSum(h, x, T)
  BY <1>1, SumExists
<1>3. SumOver(x, T) = h[T]
  BY SumUnfolds
<1> HIDE DEF h
<1>4. \A s \in SUBSET T : SumAt(f, x, s) /\ SumAt(h, x, s)
  BY <1>2 DEF IsSum, SumAt
<1>5. 0 \in Known
  <2>1. Small(T, 0) = {{}} /\ {} \in SUBSET T
    BY <1>1, SmallSets
  <2>2. f[{}] = 0 /\ h[{}] = 0
    BY <1>4, <2>1 DEF SumAt
  <2> QED
    BY <2>1, <2>2
<1>6. ASSUME NEW n \in Nat, n \in Known PROVE n + 1 \in Known
  <2>1. ASSUME NEW s \in Small(T, n + 1) PROVE h[s] = f[s]
    <3>1. s \in SUBSET T
      BY DEF Small
    <3>2. s # {} => h[s \ {Pick(s)}] = f[s \ {Pick(s)}]
      BY <1>1, <1>6, SmallSets
    <3> QED
      BY <1>4, <3>1, <3>2 DEF SumAt
  <2> QED
    BY <2>1
<1>7. Nat \subseteq Known
  <2> HIDE DEF Known
  <2> QED
    BY <1>5, <1>6, Induction
<1>8. Cardinality(T) \in Known
  <2> HIDE DEF Known
  <2> QED
    BY <1>1, <1>7, FS_CardinalityType
<1>9. T \in Small(T, Cardinality(T))
  BY <1>1, SmallSets, FS_CardinalityType
<1> QED
  BY <1>3, <1>8, <1>9

\* Any member may be taken out of a sum, not only the one that it takes first.
LEMMA SumWithout ==
  ASSUME NEW S, IsFiniteSet(S), NEW x, \A g \in S : x[g] \in Int, NEW p \in S
  PROVE  SumOver(x, S) = x[p] + SumOver(x, S \ {p})
<1>1. PICK f : IsSum(f, x, S)
  BY SumExists
<1>2. \A s \in SUBSET S : SumAt(f, x, s)
  BY <1>1 DEF IsSum, SumAt
<1>3. \A s \in SUBSET S : f[s] \in Int
  <2> SUFFICES ASSUME NEW s \in SUBSET S PROVE f[s] \in Int
    OBVIOUS
  <2>1. SumOver(x, s) = f[s] /\ IsFiniteSet(s)
    BY <1>1, SumOfPart, FS_Subset
  <2>2. \A g \in s : x[g] \in Int /\ x[g] = x[g]
    OBVIOUS
  <2>3. SumOver(x, s) \in Int
    BY <2>1, <2>2, SumFacts
  <2> QED
    BY <2>1, <2>3
<1> DEFINE Known == {n \in Nat : \A s \in Small(S, n) : \A g \in s : f[s] = x[g] + f[s \ {g}]}
<1>4. 0 \in Known
  BY SmallSets
<1>5. ASSUME NEW n \in Nat, n \in Known PROVE n + 1 \in Known
  <2> SUFFICES ASSUME NEW s \in Small(S, n + 1), NEW g \in s
               PROVE  f[s] = x[g] + f[s \ {g}]
    OBVIOUS
  <2> DEFINE q == Pick(s)
  <2>1. s \in SUBSET S /\ q \in s /\ x[q] \in Int /\ x[g] \in Int
    BY DEF Small, Pick
  <2>2. f[s] = x[q] + f[s \ {q}]
    BY <1>2, <2>1 DEF SumAt
  <2>3. s \ {q} \in Small(S, n)
    BY <2>1, SmallSets
  <2>4. CASE q = g
    BY <2>2, <2>4
  <2>5. CASE q # g
    <3>1. f[s \ {q}] = x[g] + f[(s \ {q}) \ {g}]
      BY <1>5, <2>1, <2>3, <2>5
    <3>2. s \ {g} \in Small(S, n)
      <4>1. IsFiniteSet(s) /\ IsFiniteSet(s \ {g})
        BY <2>1, FS_Subset
      <4>2. Cardinality(s \ {g}) = Cardinality(s) - 1 /\ Cardinality(s) \in Nat
        BY <4>1, FS_RemoveElement, FS_CardinalityType
      <4> QED
        BY <2>1, <4>2 DEF Small
    <3>3. f[s \ {g}] = x[q] + f[(s \ {g}) \ {q}]
      BY <1>5, <2>1, <2>5, <3>2
    <3>4. (s \ {g}) \ {q} = (s \ {q}) \ {g} /\ (s \ {q}) \ {g} \in SUBSET S
      BY <2>1
    <3>5. f[(s \ {q}) \ {g}] \in Int
      BY <1>3, <3>4
    <3> DEFINE rest == f[(s \ {q}) \ {g}]
               left == f[s \ {g}]
               right == f[s \ {q}]
    <3>6. left = x[q] + rest /\ right = x[g] + rest /\ f[s] = x[q] + right /\ rest \in Int
      BY <2>2, <3>1, <3>3, <3>4, <3>5, Zenon
    <3>7. f[s] = x[g] + left
      <4> HIDE DEF q, rest, left, right
      <4> QED
        BY <2>1, <3>6
    <3> QED
      BY <3>7
  <2> QED
    BY <2>4, <2>5
<1>6. Nat \subseteq Known
  <2> HIDE DEF Known
  <2> QED
    BY <1>4, <1>5, Induction
<1>7. Cardinality(S) \in Known
  <2> HIDE DEF Known
  <2> QED
    BY <1>6, FS_CardinalityType
<1>8. S \in Small(S, Cardinality(S))
  BY SmallSets, FS_CardinalityType
<1>9. f[S] = x[p] + f[S \ {p}]
  BY <1>7, <1>8
<1> QED
  BY <1>1, <1>9, SumOfPart
-----------------------------------------------------------------------------
(* Folds.                                                                  *)

\* What holds of the empty set, and of a set when it holds without the member that a
\* fold takes first, holds of every finite set.
LEMMA PickInduction ==
  ASSUME NEW S, IsFiniteSet(S), NEW D, {} \in D,
         \A s \in SUBSET S : s # {} /\ s \ {Pick(s)} \in D => s \in D
  PROVE  S \in D
<1> DEFINE Known == {n \in Nat : Small(S, n) \subseteq D}
<1>1. 0 \in Known
  BY SmallSets
<1>2. ASSUME NEW n \in Nat, n \in Known PROVE n + 1 \in Known
  <2> SUFFICES ASSUME NEW s \in Small(S, n + 1) PROVE s \in D
    OBVIOUS
  <2>1. s \in SUBSET S
    BY DEF Small
  <2>2. s # {} => s \ {Pick(s)} \in Small(S, n)
    BY SmallSets
  <2>3. s # {} => s \ {Pick(s)} \in D
    BY <1>2, <2>2
  <2> QED
    BY <2>1, <2>3
<1>3. Nat \subseteq Known
  <2> HIDE DEF Known
  <2> QED
    BY <1>1, <1>2, Induction
<1>4. Cardinality(S) \in Known
  <2> HIDE DEF Known
  <2> QED
    BY <1>3, FS_CardinalityType
<1>5. S \in Small(S, Cardinality(S))
  BY SmallSets, FS_CardinalityType
<1> QED
  BY <1>4, <1>5

\* The equation of a fold that applies a step for every member.
FoldAt(f, base, step, s) == f[s] = IF s = {} THEN base ELSE step[f[s \ {Pick(s)}]]

\* Such a fold exists, with values in any set that the step does not leave.
LEMMA FoldExists ==
  ASSUME NEW S, IsFiniteSet(S), NEW D, NEW base \in D, NEW step \in [D -> D]
  PROVE  \E f \in [SUBSET S -> D] : \A s \in SUBSET S : FoldAt(f, base, step, s)
<1> DEFINE Known == {n \in Nat : \E f \in [Small(S, n) -> D] : \A s \in Small(S, n) : FoldAt(f, base, step, s)}
<1>1. 0 \in Known
  <2> DEFINE f == [s \in Small(S, 0) |-> base]
  <2>1. f \in [Small(S, 0) -> D] /\ \A s \in Small(S, 0) : FoldAt(f, base, step, s)
    BY SmallSets DEF FoldAt
  <2> QED
    BY <2>1
<1>2. ASSUME NEW n \in Nat, n \in Known PROVE n + 1 \in Known
  <2>1. PICK f \in [Small(S, n) -> D] : \A s \in Small(S, n) : FoldAt(f, base, step, s)
    BY <1>2
  <2> DEFINE g == [s \in Small(S, n + 1) |->
                     IF s \in Small(S, n) THEN f[s] ELSE step[f[s \ {Pick(s)}]]]
  <2>2. ASSUME NEW s \in Small(S, n + 1) PROVE g[s] \in D /\ FoldAt(g, base, step, s)
    <3>1. CASE s \in Small(S, n)
      <4>1. s # {} => s \ {Pick(s)} \in Small(S, n) /\ s \ {Pick(s)} \in Small(S, n + 1)
        BY <3>1, SmallSets
      <4>2. g[s] = f[s] /\ (s # {} => g[s \ {Pick(s)}] = f[s \ {Pick(s)}])
        BY <3>1, <4>1
      <4>3. FoldAt(f, base, step, s)
        BY <3>1, <2>1
      <4> HIDE DEF g
      <4>4. FoldAt(g, base, step, s)
        BY <4>2, <4>3 DEF FoldAt
      <4> QED
        BY <2>1, <3>1, <4>2, <4>4
    <3>2. CASE s \notin Small(S, n)
      <4>1. s # {}
        <5>1. {} \in Small(S, n)
          BY FS_EmptySet DEF Small
        <5> QED
          BY <3>2, <5>1
      <4>2. s \ {Pick(s)} \in Small(S, n) /\ s \ {Pick(s)} \in Small(S, n + 1)
        <5>1. n + 1 \in Nat
          OBVIOUS
        <5> QED
          BY <4>1, <5>1, SmallSets
      <4>3. g[s] = step[f[s \ {Pick(s)}]] /\ g[s \ {Pick(s)}] = f[s \ {Pick(s)}]
        BY <3>2, <4>2
      <4> HIDE DEF g
      <4>4. f[s \ {Pick(s)}] \in D
        BY <2>1, <4>2
      <4>5. step[f[s \ {Pick(s)}]] \in D
        BY <4>4
      <4> QED
        BY <4>1, <4>3, <4>5 DEF FoldAt
    <3> QED
      BY <3>1, <3>2
  <2>3. g \in [Small(S, n + 1) -> D]
    <3>1. g = [s \in Small(S, n + 1) |-> g[s]]
      OBVIOUS
    <3> HIDE DEF g
    <3> QED
      BY <2>2, <3>1
  <2> HIDE DEF g
  <2>4. \E h \in [Small(S, n + 1) -> D] : \A s \in Small(S, n + 1) : FoldAt(h, base, step, s)
    BY <2>2, <2>3
  <2> QED
    BY <2>4
<1>3. Nat \subseteq Known
  <2> HIDE DEF Known
  <2> QED
    BY <1>1, <1>2, Induction
<1>4. Cardinality(S) \in Known
  <2> HIDE DEF Known
  <2> QED
    BY <1>3, FS_CardinalityType
<1>5. Small(S, Cardinality(S)) = SUBSET S
  BY SmallSets, FS_CardinalityType
<1> QED
  BY <1>4, <1>5

\* A sum of naturals over a part of a set.
LEMMA SumOfSubset ==
  ASSUME NEW S, IsFiniteSet(S), NEW x, \A g \in S : x[g] \in Nat, NEW T \in SUBSET S
  PROVE  SumOver(x, T) \in Int /\ SumOver(x, S) \in Int /\ SumOver(x, T) <= SumOver(x, S)
<1> DEFINE D == {s \in SUBSET S : SumOver(x, T \cap s) <= SumOver(x, s)}
<1>1. ASSUME NEW s \in SUBSET S
      PROVE  SumOver(x, s) \in Int /\ IsFiniteSet(s) /\ \A g \in s : x[g] \in Int /\ x[g] \in Nat
  <2>1. IsFiniteSet(s) /\ \A g \in s : x[g] \in Int /\ x[g] \in Nat
    BY FS_Subset
  <2> QED
    BY <2>1, SumFacts
<1>2. {} \in D
  <2>1. T \cap {} = {} /\ SumOver(x, {}) \in Int
    BY <1>1
  <2> QED
    BY <2>1
<1>3. ASSUME NEW s \in SUBSET S, s # {}, s \ {Pick(s)} \in D PROVE s \in D
  <2> DEFINE e == Pick(s)
             t == s \ {e}
  <2>1. e \in s
    BY <1>3 DEF Pick
  <2>2. t \in SUBSET S /\ T \cap s \in SUBSET S /\ T \cap t \in SUBSET S
    OBVIOUS
  <2>3. SumOver(x, s) = x[e] + SumOver(x, t)
    BY <1>1, <2>1, SumWithout
  <2>4. SumOver(x, T \cap t) <= SumOver(x, t)
    BY <1>3
  <2>5. x[e] \in Nat /\ SumOver(x, t) \in Int /\ SumOver(x, T \cap t) \in Int
    BY <1>1, <2>1, <2>2
  <2> HIDE DEF e
  <2>6. CASE e \in T
    <3>1. e \in T \cap s /\ (T \cap s) \ {e} = T \cap t
      BY <2>1, <2>6
    <3>2. SumOver(x, T \cap s) = x[e] + SumOver(x, T \cap t)
      BY <1>1, <2>2, <3>1, SumWithout
    <3> DEFINE parts == SumOver(x, T \cap t)
               whole == SumOver(x, t)
    <3>3. x[e] \in Int /\ parts \in Int /\ whole \in Int /\ parts <= whole
      BY <2>4, <2>5
    <3>4. SumOver(x, T \cap s) = x[e] + parts /\ SumOver(x, s) = x[e] + whole
      BY <2>3, <3>2
    <3> HIDE DEF parts, whole
    <3> QED
      BY <3>3, <3>4
  <2>7. CASE e \notin T
    <3>1. T \cap s = T \cap t
      BY <2>1, <2>7
    <3> DEFINE parts == SumOver(x, T \cap t)
               whole == SumOver(x, t)
    <3>2. x[e] \in Nat /\ parts \in Int /\ whole \in Int /\ parts <= whole
      BY <2>4, <2>5
    <3>3. SumOver(x, T \cap s) = parts /\ SumOver(x, s) = x[e] + whole
      BY <2>3, <3>1
    <3> HIDE DEF parts, whole
    <3>4. SumOver(x, T \cap s) <= SumOver(x, s)
      BY <3>2, <3>3
    <3> QED
      BY <3>4
  <2> QED
    BY <2>6, <2>7
<1> HIDE DEF D
<1>4. S \in D
  BY <1>2, <1>3, PickInduction
<1>5. T \cap S = T
  OBVIOUS
<1> QED
  BY <1>1, <1>4, <1>5 DEF D

-----------------------------------------------------------------------------
(* Numbers.                                                                *)

\* A finite set of natural numbers has a greatest one, which Max is.
LEMMA GreatestNatural ==
  ASSUME NEW S \in SUBSET Nat, IsFiniteSet(S), S # {}
  PROVE  Max(S) \in S /\ \A x \in S : x <= Max(S)
<1> DEFINE D == {s \in SUBSET S : s = {} \/ \E m \in s : \A x \in s : x <= m}
<1>1. {} \in D
  OBVIOUS
<1>2. ASSUME NEW s \in SUBSET S, s # {}, s \ {Pick(s)} \in D PROVE s \in D
  <2>1. Pick(s) \in s /\ Pick(s) \in Nat
    BY <1>2 DEF Pick
  <2>2. CASE s \ {Pick(s)} = {}
    <3>1. \A x \in s : x <= Pick(s)
      BY <2>1, <2>2
    <3> QED
      BY <2>1, <3>1
  <2>3. CASE s \ {Pick(s)} # {}
    <3>1. PICK m \in s \ {Pick(s)} : \A x \in s \ {Pick(s)} : x <= m
      BY <1>2, <2>3
    <3>2. CASE Pick(s) <= m
      <4>1. \A x \in s : x <= m
        BY <3>1, <3>2
      <4> QED
        BY <4>1
    <3>3. CASE ~(Pick(s) <= m)
      <4>1. \A x \in s : x <= Pick(s)
        BY <2>1, <3>1, <3>3
      <4> QED
        BY <2>1, <4>1
    <3> QED
      BY <3>2, <3>3
  <2> QED
    BY <2>2, <2>3
<1>3. S \in D
  <2> HIDE DEF D
  <2> QED
    BY <1>1, <1>2, PickInduction
<1>4. PICK m \in S : \A x \in S : x <= m
  BY <1>3
<1>5. \E m1 \in S : \A y \in S : m1 >= y
  BY <1>4
<1>6. Max(S) \in S /\ \A y \in S : Max(S) >= y
  BY <1>5 DEF Max
<1> QED
  BY <1>6

\* A sum of percentages, weighted, is at most a hundred times the sum of the weights.
LEMMA SumOfPercentages ==
  ASSUME NEW S, IsFiniteSet(S), NEW x, NEW y,
         \A g \in S : x[g] \in Nat /\ y[g] \in Nat /\ x[g] <= 100 * y[g]
  PROVE  SumOver(x, S) \in Nat /\ SumOver(y, S) \in Nat /\ SumOver(x, S) <= 100 * SumOver(y, S)
<1> DEFINE f == CHOOSE f : IsSum(f, x, S)
           h == CHOOSE h : IsSum(h, y, S)
           D == {s \in SUBSET S : f[s] \in Nat /\ h[s] \in Nat /\ f[s] <= 100 * h[s]}
<1>1. IsSum(f, x, S) /\ IsSum(h, y, S)
  <2>1. \A g \in S : x[g] \in Int /\ y[g] \in Int
    OBVIOUS
  <2> QED
    BY <2>1, SumExists
<1>2. SumOver(x, S) = f[S] /\ SumOver(y, S) = h[S]
  BY SumUnfolds
<1> HIDE DEF f, h
<1>3. \A s \in SUBSET S : SumAt(f, x, s) /\ SumAt(h, y, s)
  BY <1>1 DEF IsSum, SumAt
<1>4. {} \in D
  <2>1. {} \in SUBSET S
    OBVIOUS
  <2>2. f[{}] = 0 /\ h[{}] = 0
    BY <1>3, <2>1 DEF SumAt
  <2> QED
    BY <2>1, <2>2
<1>5. ASSUME NEW s \in SUBSET S, s # {}, s \ {Pick(s)} \in D PROVE s \in D
  <2>1. Pick(s) \in S
    BY <1>5 DEF Pick
  <2>2. f[s] = x[Pick(s)] + f[s \ {Pick(s)}] /\ h[s] = y[Pick(s)] + h[s \ {Pick(s)}]
    BY <1>3, <1>5 DEF SumAt
  <2>3. /\ f[s \ {Pick(s)}] \in Nat /\ h[s \ {Pick(s)}] \in Nat
        /\ f[s \ {Pick(s)}] <= 100 * h[s \ {Pick(s)}]
    BY <1>5
  <2>4. x[Pick(s)] \in Nat /\ y[Pick(s)] \in Nat /\ x[Pick(s)] <= 100 * y[Pick(s)]
    BY <2>1
  <2>5. f[s] \in Nat /\ h[s] \in Nat /\ f[s] <= 100 * h[s]
    BY <2>2, <2>3, <2>4
  <2> QED
    BY <2>5
<1>6. S \in D
  <2> HIDE DEF D
  <2> QED
    BY <1>4, <1>5, PickInduction
<1> QED
  BY <1>2, <1>6

\* The values of a function on a finite set are finitely many.
LEMMA FiniteValues ==
  ASSUME NEW S, IsFiniteSet(S), NEW f, S \subseteq DOMAIN f
  PROVE  IsFiniteSet({f[x] : x \in S})
<1> DEFINE T == {f[x] : x \in S}
           g == [x \in S |-> f[x]]
<1>1. g \in Surjection(S, T)
  BY DEF Surjection
<1> HIDE DEF g, T
<1>2. IsFiniteSet(T)
  BY <1>1, FS_Surjection
<1> QED
  BY <1>2 DEF T
================================================================================
