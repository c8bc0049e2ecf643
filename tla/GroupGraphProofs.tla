--------------------------- MODULE GroupGraphProofs ---------------------------
(***************************************************************************)
(* Proofs about GroupGraph: createNewAncestors leaves the cache equal to   *)
(* the transitive closure of the relations, for any groups and instants.   *)
(***************************************************************************)
EXTENDS GroupGraph, FiniteSetTheorems, WellFoundedInduction, TLAPS

-----------------------------------------------------------------------------
(* Induction over the natural numbers, for a set instead of a predicate.   *)

\* A set with 0 and the successors of its elements holds every natural number (the
\* least natural outside it would be a successor).
LEMMA Induction ==
  ASSUME NEW S, 0 \in S, \A n \in Nat : n \in S => n + 1 \in S
  PROVE  Nat \subseteq S
<1> DEFINE Outside == Nat \ S
           Less == OpToRel(<, Nat)
<1>1. ASSUME Outside # {} PROVE FALSE
  <2>1. IsWellFoundedOn(Less, Nat)
    BY NatLessThanWellFounded, Zenon
  <2>2. Outside \subseteq Nat
    OBVIOUS
  <2> HIDE DEF Outside, Less
  <2>3. PICK m \in Outside : \A n \in Outside : <<n, m>> \notin Less
    BY <1>1, <2>1, <2>2, WFMin
  <2> USE DEF Outside
  <2>4. m \in Nat /\ m # 0
    OBVIOUS
  <2>5. m - 1 \in Nat /\ m - 1 < m
    BY <2>4
  <2>6. <<m - 1, m>> \in Less
    BY <2>4, <2>5 DEF Less, OpToRel
  <2>7. m - 1 \in S
    BY <2>3, <2>5, <2>6
  <2>8. (m - 1) + 1 \in S
    BY <2>5, <2>7
  <2> QED
    BY <2>4, <2>8
<1> QED
  BY <1>1

-----------------------------------------------------------------------------
(* ReachableFrom is the least set closed under the relations.              *)

\* The number of groups, and the recursive function behind ReachableFrom.
Size == Cardinality(Groups)
IsReach(f, g, R) ==
  f = [n \in 0..Size |-> IF n = 0 THEN {g} ELSE Successors(f[n - 1], R)]
ReachAt(f, g, R, n) == f[n] = IF n = 0 THEN {g} ELSE Successors(f[n - 1], R)

\* ReachableFrom is the last step.
LEMMA ReachUnfolds ==
  ASSUME NEW g, NEW R
  PROVE  ReachableFrom(g, R) = (CHOOSE f : IsReach(f, g, R))[Size]
BY DEF ReachableFrom, IsReach, Size

\* There are finitely many groups.
LEMMA SizeIsNatural == Size \in Nat
BY FS_CardinalityType, GraphConstants DEF Size

\* The steps can be taken.
LEMMA ReachExists ==
  ASSUME NEW g, NEW R
  PROVE  \E f : IsReach(f, g, R)
<1> DEFINE Known == {n \in Nat : \E f : \A i \in 0..n : ReachAt(f, g, R, i)}
<1>1. 0 \in Known
  <2> DEFINE f == [i \in 0..0 |-> {g}]
  <2>1. \A i \in 0..0 : ReachAt(f, g, R, i)
    BY DEF ReachAt
  <2> QED
    BY <2>1
<1>2. ASSUME NEW n \in Nat, n \in Known PROVE n + 1 \in Known
  <2>1. PICK f : \A i \in 0..n : ReachAt(f, g, R, i)
    BY <1>2
  <2> DEFINE h == [i \in 0..(n + 1) |-> IF i = n + 1 THEN Successors(f[n], R) ELSE f[i]]
  <2>2. ASSUME NEW i \in 0..(n + 1) PROVE ReachAt(h, g, R, i)
    <3>1. CASE i = n + 1
      <4>1. h[i] = Successors(f[n], R) /\ h[i - 1] = f[n] /\ i # 0
        BY <3>1
      <4> QED
        BY <3>1, <4>1 DEF ReachAt
    <3>2. CASE i # n + 1
      <4>1. h[i] = f[i] /\ i \in 0..n /\ (i # 0 => h[i - 1] = f[i - 1])
        BY <3>2
      <4> HIDE DEF h
      <4>2. ReachAt(f, g, R, i)
        BY <2>1, <4>1
      <4> QED
        BY <4>1, <4>2 DEF ReachAt
    <3> QED
      BY <3>1, <3>2
  <2> HIDE DEF h
  <2> QED
    BY <2>2
<1>3. Nat \subseteq Known
  <2> HIDE DEF Known
  <2> QED
    BY <1>1, <1>2, Induction
<1>4. PICK f : \A i \in 0..Size : ReachAt(f, g, R, i)
  BY <1>3, SizeIsNatural
<1> DEFINE h == [i \in 0..Size |-> f[i]]
<1>5. h = [n \in 0..Size |-> IF n = 0 THEN {g} ELSE Successors(h[n - 1], R)]
  <2>1. ASSUME NEW i \in 0..Size
        PROVE  h[i] = IF i = 0 THEN {g} ELSE Successors(h[i - 1], R)
    <3>1. h[i] = f[i] /\ (i # 0 => h[i - 1] = f[i - 1])
      BY SizeIsNatural
    <3> HIDE DEF h
    <3>2. ReachAt(f, g, R, i)
      BY <1>4
    <3> QED
      BY <3>1, <3>2, Zenon DEF ReachAt
  <2> QED
    BY <2>1
<1> HIDE DEF h
<1> QED
  BY <1>5 DEF IsReach

\* Rows between groups.
RowsOfGroups == Groups \X Groups \X Nat

\* The groups reachable from g are the least set with g that the relations do not leave:
\* after as many steps as there are groups, a step adds nothing.
LEMMA ReachIsLeast ==
  ASSUME NEW g \in Groups, NEW R \in SUBSET RowsOfGroups
  PROVE  /\ g \in ReachableFrom(g, R) /\ ReachableFrom(g, R) \subseteq Groups
         /\ \A r \in R : r[1] \in ReachableFrom(g, R) => r[2] \in ReachableFrom(g, R)
         /\ \A X : g \in X /\ (\A r \in R : r[1] \in X => r[2] \in X) => ReachableFrom(g, R) \subseteq X
<1> DEFINE f == CHOOSE f : IsReach(f, g, R)
           Known == {n \in Nat : n <= Size =>
                       /\ g \in f[n] /\ f[n] \subseteq Groups
                       /\ \A X : g \in X /\ (\A r \in R : r[1] \in X => r[2] \in X) => f[n] \subseteq X
                       /\ Successors(f[n], R) = f[n] \/ Cardinality(f[n]) >= n + 1}
<1>1. IsReach(f, g, R) /\ ReachableFrom(g, R) = f[Size]
  BY ReachExists, ReachUnfolds
<1> HIDE DEF f
<1>2. \A n \in 0..Size : ReachAt(f, g, R, n)
  BY <1>1, SizeIsNatural DEF IsReach, ReachAt
<1>3. f[0] = {g}
  <2>1. ReachAt(f, g, R, 0)
    BY <1>2, SizeIsNatural
  <2> QED
    BY <2>1, Zenon DEF ReachAt
<1>4. ASSUME NEW n \in Nat, n + 1 <= Size PROVE f[n + 1] = Successors(f[n], R)
  <2>1. ReachAt(f, g, R, n + 1) /\ n + 1 # 0 /\ (n + 1) - 1 = n
    BY <1>2, <1>4, SizeIsNatural
  <2> QED
    BY <2>1 DEF ReachAt
<1>5. 0 \in Known
  <2>1. Cardinality({g}) = 1
    BY FS_Singleton
  <2> QED
    BY <1>3, <2>1
<1>6. ASSUME NEW n \in Nat, n \in Known PROVE n + 1 \in Known
  <2> SUFFICES ASSUME n + 1 <= Size
               PROVE  /\ g \in f[n + 1] /\ f[n + 1] \subseteq Groups
                      /\ \A X : g \in X /\ (\A r \in R : r[1] \in X => r[2] \in X) => f[n + 1] \subseteq X
                      /\ \/ Successors(f[n + 1], R) = f[n + 1]
                         \/ Cardinality(f[n + 1]) >= (n + 1) + 1
    OBVIOUS
  <2>1. /\ g \in f[n] /\ f[n] \subseteq Groups
        /\ \A X : g \in X /\ (\A r \in R : r[1] \in X => r[2] \in X) => f[n] \subseteq X
        /\ Successors(f[n], R) = f[n] \/ Cardinality(f[n]) >= n + 1
    <3>1. n <= Size
      BY SizeIsNatural
    <3> QED
      BY <1>6, <3>1
  <2>2. f[n + 1] = Successors(f[n], R)
    BY <1>4
  <2>3. f[n] \subseteq f[n + 1] /\ g \in f[n + 1] /\ f[n + 1] \subseteq Groups
    BY <2>1, <2>2 DEF Successors, RowsOfGroups
  <2>4. \A X : g \in X /\ (\A r \in R : r[1] \in X => r[2] \in X) => f[n + 1] \subseteq X
    BY <2>1, <2>2 DEF Successors
  <2>5. \/ Successors(f[n + 1], R) = f[n + 1]
        \/ Cardinality(f[n + 1]) >= (n + 1) + 1
    <3>1. CASE f[n + 1] = f[n]
      BY <2>2, <3>1
    <3>2. CASE f[n + 1] # f[n]
      <4>1. Cardinality(f[n]) >= n + 1
        BY <2>1, <2>2, <3>2
      <4>2. PICK x \in f[n + 1] : x \notin f[n]
        BY <2>3, <3>2
      <4>3. IsFiniteSet(f[n + 1]) /\ IsFiniteSet(f[n])
        BY <2>1, <2>3, FS_Subset, GraphConstants
      <4>4. Cardinality(f[n] \cup {x}) = Cardinality(f[n]) + 1 /\ IsFiniteSet(f[n] \cup {x})
        BY <4>2, <4>3, FS_AddElement
      <4>5. Cardinality(f[n] \cup {x}) <= Cardinality(f[n + 1])
        BY <2>3, <4>2, <4>3, FS_Subset
      <4>6. Cardinality(f[n]) \in Nat /\ Cardinality(f[n + 1]) \in Nat
        BY <4>3, FS_CardinalityType
      <4> QED
        BY <4>1, <4>4, <4>5, <4>6
    <3> QED
      BY <3>1, <3>2
  <2> QED
    BY <2>3, <2>4, <2>5
<1>7. Nat \subseteq Known
  <2> HIDE DEF Known
  <2> QED
    BY <1>5, <1>6, Induction
<1>8. /\ g \in f[Size] /\ f[Size] \subseteq Groups
      /\ \A X : g \in X /\ (\A r \in R : r[1] \in X => r[2] \in X) => f[Size] \subseteq X
      /\ Successors(f[Size], R) = f[Size] \/ Cardinality(f[Size]) >= Size + 1
  BY <1>7, SizeIsNatural
<1>9. Successors(f[Size], R) = f[Size]
  <2>1. Cardinality(f[Size]) <= Size /\ Cardinality(f[Size]) \in Nat
    BY <1>8, FS_Subset, FS_CardinalityType, GraphConstants DEF Size
  <2> QED
    BY <1>8, <2>1, SizeIsNatural
<1>10. \A r \in R : r[1] \in f[Size] => r[2] \in f[Size]
  BY <1>9 DEF Successors
<1> QED
  BY <1>1, <1>8, <1>10

\* The last relation on the way, transitivity and monotony.
LEMMA ReachFacts ==
  ASSUME NEW g \in Groups, NEW R \in SUBSET RowsOfGroups
  PROVE  /\ \A h \in ReachableFrom(g, R) : h # g => \E r \in R : r[2] = h /\ r[1] \in ReachableFrom(g, R)
         /\ \A h \in ReachableFrom(g, R) : ReachableFrom(h, R) \subseteq ReachableFrom(g, R)
         /\ \A S \in SUBSET RowsOfGroups : R \subseteq S => ReachableFrom(g, R) \subseteq ReachableFrom(g, S)
<1> DEFINE C == ReachableFrom(g, R)
<1>1. /\ g \in C /\ C \subseteq Groups
      /\ \A r \in R : r[1] \in C => r[2] \in C
      /\ \A X : g \in X /\ (\A r \in R : r[1] \in X => r[2] \in X) => C \subseteq X
  BY ReachIsLeast
<1>2. ASSUME NEW h \in C PROVE ReachableFrom(h, R) \subseteq C
  BY <1>1, <1>2, ReachIsLeast
<1>3. ASSUME NEW S \in SUBSET RowsOfGroups, R \subseteq S
      PROVE  C \subseteq ReachableFrom(g, S)
  <2>1. /\ g \in ReachableFrom(g, S)
        /\ \A r \in S : r[1] \in ReachableFrom(g, S) => r[2] \in ReachableFrom(g, S)
    BY ReachIsLeast
  <2> QED
    BY <1>1, <1>3, <2>1
<1>4. ASSUME NEW h \in C, h # g PROVE \E r \in R : r[2] = h /\ r[1] \in C
  <2> DEFINE X == {g} \cup {x \in Groups : \E r \in R : r[2] = x /\ r[1] \in C}
  <2>1. \A r \in R : r[2] \in Groups
    BY DEF RowsOfGroups
  <2>2. X \subseteq C
    BY <1>1
  <2>3. g \in X /\ \A r \in R : r[1] \in X => r[2] \in X
    BY <2>1, <2>2
  <2>4. h \in X
    <3> HIDE DEF C, X
    <3> QED
      BY <1>1, <1>4, <2>3
  <2> QED
    BY <1>4, <2>4
<1> QED
  BY <1>2, <1>3, <1>4

-----------------------------------------------------------------------------
(* The cache of the ancestors, on a record of the tables.                  *)

Rows(G) == G \X G \X (1..Forever)

\* The relations that count at instant t, among R.
At(R, t) == {r \in R : t < r[3] /\ ~IsTeamMembership(r)}

\* The cache A says at t that a is an ancestor of c.
Knows(A, a, c, t) == \E r \in A : r[1] = a /\ r[2] = c /\ t < r[3]

\* The cache has the ancestors of c among the groups G, now and later.
Right(A, G, R, c) ==
  \A t \in now..MaxTime, a \in G : Knows(A, a, c, t) <=> c \in ReachableFrom(a, At(R, t))

\* No cycles, expired relations included: among any groups, one has no parent.
Sourced(R) ==
  \A T \in SUBSET Groups : T # {} =>
    \E g \in T : \A r \in R : r[2] = g /\ ~IsTeamMembership(r) => r[1] \notin T

Typed(s, G) ==
  /\ now \in 1..MaxTime
  /\ G \subseteq Groups
  /\ s.rel \subseteq Rows(G) /\ s.anc \subseteq Rows(G) /\ s.todo \subseteq G
  /\ \A g \in G : <<g, g, Forever>> \in s.anc
  /\ Sourced(s.rel)

Sound(s, G) ==
  /\ Typed(s, G)
  /\ s.todo = {}
  /\ \A c \in G : Right(s.anc, G, s.rel, c)

\* The types of what a row holds.
LEMMA RowFacts ==
  ASSUME NEW G, G \subseteq Groups, NEW R, R \subseteq Rows(G)
  PROVE  /\ \A r \in R : r[1] \in G /\ r[2] \in G /\ r[3] \in 1..Forever /\ r[3] \in Nat
         /\ \A t : At(R, t) \in SUBSET RowsOfGroups
<1>1. Forever \in Nat
  BY GraphConstants DEF Forever
<1>2. \A r \in R : r[1] \in G /\ r[2] \in G /\ r[3] \in 1..Forever /\ r \in G \X G \X (1..Forever)
  BY DEF Rows
<1>3. \A r \in R : r[3] \in Nat
  BY <1>1, <1>2
<1>4. G \X G \X (1..Forever) \subseteq RowsOfGroups
  BY <1>1 DEF RowsOfGroups
<1>5. \A t : At(R, t) \in SUBSET RowsOfGroups
  BY <1>2, <1>4 DEF At
<1> QED
  BY <1>2, <1>3, <1>5

\* Where relations changed and their children are todo, a group that is reached in one
\* of the two graphs is reached in the other or from a group that is todo.
LEMMA ReachedOrMarked ==
  ASSUME NEW G, G \subseteq Groups, NEW R, R \subseteq Rows(G), NEW S, S \subseteq Rows(G),
         NEW todos, todos \subseteq G, NEW t, NEW a \in G,
         \A r \in S \ R : ~IsTeamMembership(r) => r[2] \in todos
  PROVE  \A c \in ReachableFrom(a, At(S, t)) :
           \/ c \in ReachableFrom(a, At(R, t))
           \/ \E x \in todos : c \in ReachableFrom(x, At(R, t))
<1> DEFINE Q == At(R, t)
           X == ReachableFrom(a, Q) \cup UNION {ReachableFrom(x, Q) : x \in todos}
<1>1. Q \in SUBSET RowsOfGroups /\ At(S, t) \in SUBSET RowsOfGroups
  BY RowFacts
<1>2. \A x \in G : x \in ReachableFrom(x, Q)
                   /\ \A r \in Q : r[1] \in ReachableFrom(x, Q) => r[2] \in ReachableFrom(x, Q)
  <2> HIDE DEF Q
  <2> QED
    BY <1>1, ReachIsLeast
<1>3. ASSUME NEW r \in At(S, t), r[1] \in X PROVE r[2] \in X
  <2>1. CASE r \in R
    <3>1. r \in Q
      BY <2>1 DEF At
    <3> HIDE DEF Q
    <3> QED
      BY <1>2, <1>3, <3>1
  <2>2. CASE r \notin R
    <3>1. r[2] \in todos
      BY <2>2 DEF At
    <3> HIDE DEF Q
    <3> QED
      BY <1>2, <3>1
  <2> QED
    BY <2>1, <2>2
<1>4. a \in X
  <2> HIDE DEF Q
  <2> QED
    BY <1>2
<1>5. ReachableFrom(a, At(S, t)) \subseteq X
  <2>1. a \in Groups
    OBVIOUS
  <2> HIDE DEF X
  <2> QED
    BY <1>1, <1>3, <1>4, <2>1, ReachIsLeast
<1> HIDE DEF Q
<1> QED
  BY <1>5 DEF Q

\* After MarkDescendants, the ancestors of the groups that are not todo are right.
LEMMA MarkedIsRight ==
  ASSUME NEW o, NEW s, NEW G, Sound(o, G), Typed(s, G), s.anc = o.anc,
         \A r \in (s.rel \ o.rel) \cup (o.rel \ s.rel) : ~IsTeamMembership(r) => r[2] \in s.todo,
         NEW c \in G, c \notin MarkDescendants(s).todo
  PROVE  Right(s.anc, G, s.rel, c)
<1> SUFFICES ASSUME NEW t \in now..MaxTime, NEW a \in G
             PROVE  Knows(s.anc, a, c, t) <=> c \in ReachableFrom(a, At(s.rel, t))
  BY DEF Right
<1>1. G \subseteq Groups /\ s.rel \subseteq Rows(G) /\ o.rel \subseteq Rows(G) /\ s.todo \subseteq G
  BY DEF Sound, Typed
<1>2. Knows(s.anc, a, c, t) <=> c \in ReachableFrom(a, At(o.rel, t))
  BY DEF Sound, Right
<1>3. \A x \in s.todo : c \notin ReachableFrom(x, At(o.rel, t))
  <2> SUFFICES ASSUME NEW x \in s.todo, c \in ReachableFrom(x, At(o.rel, t)) PROVE FALSE
    OBVIOUS
  <2>1. Knows(s.anc, x, c, t)
    BY <1>1 DEF Sound, Right
  <2>2. c \in MarkDescendants(s).todo
    BY <2>1 DEF Knows, MarkDescendants, Tables
  <2> QED
    BY <2>2
<1>4. \A x \in s.todo : c \notin ReachableFrom(x, At(s.rel, t))
  <2>1. \A x \in s.todo : c \in ReachableFrom(x, At(s.rel, t)) =>
           \/ c \in ReachableFrom(x, At(o.rel, t))
           \/ \E y \in s.todo : c \in ReachableFrom(y, At(o.rel, t))
    BY <1>1, ReachedOrMarked, ZenonT(60)
  <2> QED
    BY <1>3, <2>1
<1>5. c \in ReachableFrom(a, At(s.rel, t)) => c \in ReachableFrom(a, At(o.rel, t))
  BY <1>1, <1>3, ReachedOrMarked, ZenonT(60)
<1>6. c \in ReachableFrom(a, At(o.rel, t)) => c \in ReachableFrom(a, At(s.rel, t))
  BY <1>1, <1>4, ReachedOrMarked, ZenonT(60)
<1> QED
  BY <1>2, <1>5, <1>6

\* Among instants there is a latest.
LEMMA LatestInstant ==
  ASSUME NEW C, C \subseteq 1..Forever, C # {}
  PROVE  \E i \in C : \A j \in C : j <= i
<1> DEFINE Known == {n \in Nat : \A D \in SUBSET (1..n) : D # {} => \E i \in D : \A j \in D : j <= i}
<1>1. 0 \in Known
  <2>1. 1..0 = {}
    OBVIOUS
  <2>2. \A D \in SUBSET (1..0) : D # {} => FALSE
    BY <2>1, Zenon
  <2> QED
    BY <2>2
<1>2. ASSUME NEW n \in Nat, n \in Known PROVE n + 1 \in Known
  <2> SUFFICES ASSUME NEW D \in SUBSET (1..(n + 1)), D # {}
               PROVE  \E i \in D : \A j \in D : j <= i
    OBVIOUS
  <2>1. CASE n + 1 \in D
    BY <2>1
  <2>2. CASE n + 1 \notin D
    <3>1. D \in SUBSET (1..n)
      BY <2>2
    <3> QED
      BY <1>2, <3>1
  <2> QED
    BY <2>1, <2>2
<1>3. Nat \subseteq Known
  <2> HIDE DEF Known
  <2> QED
    BY <1>1, <1>2, Induction
<1>4. Forever \in Known
  <2>1. Forever \in Nat
    BY GraphConstants DEF Forever
  <2> HIDE DEF Known
  <2> QED
    BY <1>3, <2>1
<1> QED
  BY <1>4

\* The longest paths know what the paths know.
LEMMA LongestKnows ==
  ASSUME NEW P, P \subseteq Rows(Groups), NEW a, NEW c, NEW t \in Nat
  PROVE  Knows(Longest(P), a, c, t) <=> Knows(P, a, c, t)
<1>1. Longest(P) \subseteq P
  BY DEF Longest
<1>2. Knows(Longest(P), a, c, t) => Knows(P, a, c, t)
  BY <1>1 DEF Knows
<1>3. ASSUME Knows(P, a, c, t) PROVE Knows(Longest(P), a, c, t)
  <2>1. PICK p \in P : p[1] = a /\ p[2] = c /\ t < p[3]
    BY <1>3 DEF Knows
  <2> DEFINE C == {q[3] : q \in {q \in P : q[1] = a /\ q[2] = c}}
  <2>2. \A q \in P : q[3] \in 1..Forever
    BY DEF Rows
  <2>3. C \subseteq 1..Forever /\ p[3] \in C
    BY <2>1, <2>2
  <2>4. PICK i \in C : \A j \in C : j <= i
    <3> HIDE DEF C
    <3> QED
      BY <2>3, LatestInstant
  <2>5. PICK q \in P : q[1] = a /\ q[2] = c /\ q[3] = i
    BY <2>4
  <2>6. \A z \in P : z[1] = a /\ z[2] = c => z[3] <= q[3]
    BY <2>4, <2>5
  <2>7. q \in Longest(P)
    BY <2>5, <2>6 DEF Longest
  <2>8. p[3] <= q[3] /\ p[3] \in Int /\ q[3] \in Int
    BY <2>1, <2>2, <2>6, GraphConstants DEF Forever
  <2>9. t < q[3]
    BY <2>1, <2>8
  <2> QED
    BY <2>5, <2>7, <2>9 DEF Knows
<1> QED
  BY <1>2, <1>3

-----------------------------------------------------------------------------
(* createNewAncestors.                                                     *)

\* A turn keeps the types.
LEMMA TurnKeepsTypes ==
  ASSUME NEW s, NEW G, Typed(s, G)
  PROVE  /\ Typed(ProcessOnce(s), G)
         /\ ProcessOnce(s).rel = s.rel
         /\ ProcessOnce(s).todo = s.todo \ Processing(s)
         /\ Processing(s) \subseteq s.todo
         /\ Paths(s, Processing(s)) \subseteq Rows(G)
         /\ ProcessOnce(s).anc = {r \in s.anc : r[2] \notin Processing(s) \/ r[1] = r[2]}
                                   \cup Longest(Paths(s, Processing(s)))
<1> DEFINE processing == Processing(s)
           P == Paths(s, processing)
           kept == {r \in s.anc : r[2] \notin processing \/ r[1] = r[2]}
<1>1. /\ now \in 1..MaxTime /\ G \subseteq Groups
      /\ s.rel \subseteq Rows(G) /\ s.anc \subseteq Rows(G) /\ s.todo \subseteq G
      /\ \A g \in G : <<g, g, Forever>> \in s.anc
      /\ Sourced(s.rel)
  BY DEF Typed
<1>2. processing \subseteq s.todo
  BY DEF Processing
<1> HIDE DEF processing
<1>3. ProcessOnce(s) = Tables(s.rel, kept \cup Longest(P), s.todo \ processing)
  BY DEF ProcessOnce, processing
<1>4. P \subseteq Rows(G)
  <2> SUFFICES ASSUME NEW j \in Joined(s, processing)
               PROVE  <<j[1][1], j[2][2], Least(j[1][3], j[2][3])>> \in Rows(G)
    BY DEF Paths
  <2>1. j \in s.anc \X s.rel
    BY DEF Joined
  <2>2. j[1] \in s.anc /\ j[2] \in s.rel
    BY <2>1
  <2>3. j[1][1] \in G /\ j[1][3] \in 1..Forever /\ j[2][2] \in G /\ j[2][3] \in 1..Forever
    BY <1>1, <2>2, RowFacts
  <2>4. Least(j[1][3], j[2][3]) \in 1..Forever
    BY <2>3 DEF Least
  <2> QED
    BY <2>3, <2>4 DEF Rows
<1> HIDE DEF P
<1>5. Longest(P) \subseteq P
  BY DEF Longest
<1>6. kept \subseteq s.anc /\ \A g \in G : <<g, g, Forever>> \in kept
  BY <1>1
<1> HIDE DEF kept
<1>7. /\ ProcessOnce(s).rel = s.rel /\ ProcessOnce(s).todo = s.todo \ processing
      /\ ProcessOnce(s).anc = kept \cup Longest(P)
  BY <1>3 DEF Tables
<1>8. Typed(ProcessOnce(s), G)
  BY <1>1, <1>2, <1>4, <1>5, <1>6, <1>7 DEF Typed
<1> QED
  BY <1>2, <1>4, <1>7, <1>8 DEF processing, kept, P

\* What the paths to a group that is processed know: its parents' ancestors.
LEMMA PathsKnow ==
  ASSUME NEW s, NEW G, Typed(s, G), NEW a \in G, NEW c \in Processing(s), NEW t \in now..MaxTime
  PROVE  Knows(Paths(s, Processing(s)), a, c, t)
           <=> \E r \in At(s.rel, t) : r[2] = c /\ Knows(s.anc, a, r[1], t)
<1> DEFINE processing == Processing(s)
           J == Joined(s, processing)
<1>1. /\ now \in Nat /\ t \in Nat /\ now <= t
      /\ s.rel \subseteq Rows(G) /\ s.anc \subseteq Rows(G) /\ G \subseteq Groups
  BY GraphConstants DEF Typed
<1>2. \A r \in s.rel : r[3] \in Nat
  BY <1>1, RowFacts
<1>3. \A r \in s.anc : r[3] \in Nat
  BY <1>1, RowFacts
<1> HIDE DEF processing
<1>4. ASSUME Knows(Paths(s, processing), a, c, t)
      PROVE  \E r \in At(s.rel, t) : r[2] = c /\ Knows(s.anc, a, r[1], t)
  <2>1. PICK j \in J : j[1][1] = a /\ j[2][2] = c /\ t < Least(j[1][3], j[2][3])
    BY <1>4 DEF Knows, Paths
  <2>2. /\ j \in s.anc \X s.rel /\ j[1][2] = j[2][1] /\ ~IsTeamMembership(j[2])
    BY DEF Joined
  <2>3. j[1] \in s.anc /\ j[2] \in s.rel
    BY <2>2
  <2>4. t < j[1][3] /\ t < j[2][3]
    BY <1>1, <1>2, <1>3, <2>1, <2>3 DEF Least
  <2>5. j[2] \in At(s.rel, t)
    BY <2>2, <2>3, <2>4 DEF At
  <2>6. Knows(s.anc, a, j[2][1], t)
    BY <2>1, <2>2, <2>3, <2>4 DEF Knows
  <2> QED
    BY <2>1, <2>5, <2>6
<1>5. ASSUME NEW r \in At(s.rel, t), r[2] = c, Knows(s.anc, a, r[1], t)
      PROVE  Knows(Paths(s, processing), a, c, t)
  <2>1. r \in s.rel /\ t < r[3] /\ ~IsTeamMembership(r)
    BY DEF At
  <2>2. PICK q \in s.anc : q[1] = a /\ q[2] = r[1] /\ t < q[3]
    BY <1>5 DEF Knows
  <2> DEFINE j == <<q, r>>
  <2>3. j[1] = q /\ j[2] = r /\ j \in s.anc \X s.rel
    BY <2>1
  <2> HIDE DEF j
  <2>4. IsActual(q) /\ IsActual(r)
    BY <1>1, <1>2, <1>3, <2>1, <2>2 DEF IsActual
  <2>5. c \in processing
    BY DEF processing
  <2>6. j \in J
    BY <1>5, <2>1, <2>2, <2>3, <2>4, <2>5 DEF Joined
  <2> DEFINE path == <<j[1][1], j[2][2], Least(j[1][3], j[2][3])>>
  <2>7. path \in Paths(s, processing)
    BY <2>6 DEF Paths
  <2>8. path[1] = a /\ path[2] = c /\ path[3] = Least(q[3], r[3])
    BY <1>5, <2>2, <2>3
  <2>9. t < Least(q[3], r[3])
    BY <2>1, <2>2 DEF Least
  <2> HIDE DEF path
  <2> QED
    BY <2>7, <2>8, <2>9 DEF Knows
<1> QED
  BY <1>4, <1>5 DEF processing

\* A turn: the ancestors of the groups it processes are right, since those of their parents
\* are, and something is processed while there is something to do.
LEMMA TurnIsRight ==
  ASSUME NEW s, NEW G, Typed(s, G), \A c \in G \ s.todo : Right(s.anc, G, s.rel, c)
  PROVE  /\ \A c \in G \ ProcessOnce(s).todo : Right(ProcessOnce(s).anc, G, s.rel, c)
         /\ s.todo # {} => Processing(s) # {}
<1> DEFINE processing == Processing(s)
           P == Paths(s, processing)
           A == ProcessOnce(s).anc
<1>1. /\ now \in 1..MaxTime /\ now \in Nat /\ G \subseteq Groups
      /\ s.rel \subseteq Rows(G) /\ s.anc \subseteq Rows(G) /\ s.todo \subseteq G
      /\ \A g \in G : <<g, g, Forever>> \in s.anc
      /\ Sourced(s.rel)
  BY GraphConstants DEF Typed
<1>2. /\ ProcessOnce(s).todo = s.todo \ processing /\ processing \subseteq s.todo
      /\ P \subseteq Rows(G)
      /\ A = {r \in s.anc : r[2] \notin processing \/ r[1] = r[2]} \cup Longest(P)
  BY TurnKeepsTypes
<1>3. s.todo # {} => processing # {}
  <2> SUFFICES ASSUME s.todo # {} PROVE processing # {}
    OBVIOUS
  <2>1. PICK g \in s.todo : \A r \in s.rel : r[2] = g /\ ~IsTeamMembership(r) => r[1] \notin s.todo
    BY <1>1 DEF Sourced
  <2>2. g \in Processing(s)
    BY <2>1 DEF Processing
  <2> QED
    BY <2>2
<1>4. \A p \in P : p[2] \in processing
  BY DEF Paths, Joined
<1>5. ASSUME NEW c \in processing, NEW r \in s.rel, r[2] = c, ~IsTeamMembership(r)
      PROVE  r[1] \in G /\ r[1] \notin s.todo
  <2>1. r[1] \in G
    BY <1>1, RowFacts
  <2>2. r[1] \notin s.todo
    BY <1>5 DEF Processing
  <2> QED
    BY <2>1, <2>2
<1> HIDE DEF processing, P, A
<1>6. ASSUME NEW c \in G, c \notin s.todo \ processing, NEW t \in now..MaxTime, NEW a \in G
      PROVE  Knows(A, a, c, t) <=> c \in ReachableFrom(a, At(s.rel, t))
  <2> DEFINE Q == At(s.rel, t)
  <2>1. t \in Nat /\ t < Forever
    BY <1>1, GraphConstants DEF Forever
  <2>2. Q \in SUBSET RowsOfGroups
    BY <1>1, RowFacts
  <2>3. CASE c \notin processing
    <3>1. \A p \in Longest(P) : p[2] # c
      BY <1>4, <2>3 DEF Longest
    <3>2. Knows(A, a, c, t) <=> Knows(s.anc, a, c, t)
      BY <1>2, <2>3, <3>1 DEF Knows
    <3>3. Right(s.anc, G, s.rel, c)
      BY <1>6, <2>3
    <3> QED
      BY <3>2, <3>3 DEF Right
  <2>4. CASE c \in processing
    <3>1. Knows(A, a, c, t) <=> a = c \/ Knows(Longest(P), a, c, t)
      <4>1. a = c => Knows(A, a, c, t)
        <5>1. <<c, c, Forever>> \in A
          BY <1>1, <1>2
        <5> QED
          BY <2>1, <5>1 DEF Knows
      <4>2. Knows(Longest(P), a, c, t) => Knows(A, a, c, t)
        BY <1>2 DEF Knows
      <4>3. Knows(A, a, c, t) /\ a # c => Knows(Longest(P), a, c, t)
        BY <1>2, <2>4 DEF Knows
      <4> QED
        BY <4>1, <4>2, <4>3
    <3>2. Knows(Longest(P), a, c, t) <=> Knows(P, a, c, t)
      <4>1. P \subseteq Rows(Groups)
        BY <1>1, <1>2 DEF Rows
      <4> QED
        BY <2>1, <4>1, LongestKnows
    <3>3. Knows(P, a, c, t) <=> \E r \in Q : r[2] = c /\ Knows(s.anc, a, r[1], t)
      BY <2>4, PathsKnow DEF processing, P
    <3>4. ASSUME NEW r \in Q, r[2] = c
          PROVE  Knows(s.anc, a, r[1], t) <=> r[1] \in ReachableFrom(a, Q)
      <4>1. r \in s.rel /\ ~IsTeamMembership(r)
        BY DEF At
      <4>2. r[1] \in G /\ r[1] \notin s.todo
        BY <1>5, <2>4, <3>4, <4>1
      <4>3. Right(s.anc, G, s.rel, r[1])
        BY <4>2
      <4> QED
        BY <4>3 DEF Right
    <3> HIDE DEF Q
    <3>5. a \in Groups
      BY <1>1
    <3>6. a = c => c \in ReachableFrom(a, Q)
      BY <2>2, <3>5, ReachIsLeast
    <3>7. (\E r \in Q : r[2] = c /\ r[1] \in ReachableFrom(a, Q)) => c \in ReachableFrom(a, Q)
      BY <2>2, <3>5, ReachIsLeast
    <3>8. c \in ReachableFrom(a, Q) => a = c \/ \E r \in Q : r[2] = c /\ r[1] \in ReachableFrom(a, Q)
      BY <2>2, <3>5, ReachFacts
    <3>9. (\E r \in Q : r[2] = c /\ Knows(s.anc, a, r[1], t))
            <=> \E r \in Q : r[2] = c /\ r[1] \in ReachableFrom(a, Q)
      BY <3>4
    <3>10. Knows(A, a, c, t) <=> c \in ReachableFrom(a, Q)
      BY <3>1, <3>2, <3>3, <3>6, <3>7, <3>8, <3>9
    <3> QED
      BY <3>10 DEF Q
  <2> QED
    BY <2>3, <2>4
<1>7. \A c \in G \ (s.todo \ processing) : Right(A, G, s.rel, c)
  BY <1>6 DEF Right
<1> QED
  BY <1>2, <1>3, <1>7 DEF A, processing

\* The recursive function behind createNewAncestors.
IsTurns(f, s) ==
  f = [n \in 0..Size |-> IF n = 0 THEN MarkDescendants(s) ELSE ProcessOnce(f[n - 1])]
TurnAt(f, s, n) == f[n] = IF n = 0 THEN MarkDescendants(s) ELSE ProcessOnce(f[n - 1])

\* CreateNewAncestors is the last turn.
LEMMA TurnsUnfold ==
  ASSUME NEW s
  PROVE  CreateNewAncestors(s) = (CHOOSE f : IsTurns(f, s))[Size]
BY DEF CreateNewAncestors, IsTurns, Size

\* The turns can be taken.
LEMMA TurnsExist ==
  ASSUME NEW s
  PROVE  \E f : IsTurns(f, s)
<1> DEFINE Known == {n \in Nat : \E f : \A i \in 0..n : TurnAt(f, s, i)}
<1>1. 0 \in Known
  <2> DEFINE f == [i \in 0..0 |-> MarkDescendants(s)]
  <2>1. \A i \in 0..0 : TurnAt(f, s, i)
    BY DEF TurnAt
  <2> QED
    BY <2>1
<1>2. ASSUME NEW n \in Nat, n \in Known PROVE n + 1 \in Known
  <2>1. PICK f : \A i \in 0..n : TurnAt(f, s, i)
    BY <1>2
  <2> DEFINE h == [i \in 0..(n + 1) |-> IF i = n + 1 THEN ProcessOnce(f[n]) ELSE f[i]]
  <2>2. ASSUME NEW i \in 0..(n + 1) PROVE TurnAt(h, s, i)
    <3>1. CASE i = n + 1
      <4>1. h[i] = ProcessOnce(f[n]) /\ h[i - 1] = f[n] /\ i # 0
        BY <3>1
      <4> QED
        BY <3>1, <4>1 DEF TurnAt
    <3>2. CASE i # n + 1
      <4>1. h[i] = f[i] /\ i \in 0..n /\ (i # 0 => h[i - 1] = f[i - 1])
        BY <3>2
      <4> HIDE DEF h
      <4>2. TurnAt(f, s, i)
        BY <2>1, <4>1
      <4> QED
        BY <4>1, <4>2 DEF TurnAt
    <3> QED
      BY <3>1, <3>2
  <2> HIDE DEF h
  <2> QED
    BY <2>2
<1>3. Nat \subseteq Known
  <2> HIDE DEF Known
  <2> QED
    BY <1>1, <1>2, Induction
<1>4. PICK f : \A i \in 0..Size : TurnAt(f, s, i)
  BY <1>3, SizeIsNatural
<1> DEFINE h == [i \in 0..Size |-> f[i]]
<1>5. h = [n \in 0..Size |-> IF n = 0 THEN MarkDescendants(s) ELSE ProcessOnce(h[n - 1])]
  <2>1. ASSUME NEW i \in 0..Size
        PROVE  h[i] = IF i = 0 THEN MarkDescendants(s) ELSE ProcessOnce(h[i - 1])
    <3>1. h[i] = f[i] /\ (i # 0 => h[i - 1] = f[i - 1])
      BY SizeIsNatural
    <3> HIDE DEF h
    <3>2. TurnAt(f, s, i)
      BY <1>4
    <3> QED
      BY <3>1, <3>2, Zenon DEF TurnAt
  <2> QED
    BY <2>1
<1> HIDE DEF h
<1> QED
  BY <1>5 DEF IsTurns

\* createNewAncestors, called with the children of the changed relations marked: nothing is
\* left to do, and the cache is right for the new relations.
LEMMA RecomputedIsSound ==
  ASSUME NEW o, NEW s, NEW G, Sound(o, G), Typed(s, G), s.anc = o.anc,
         \A r \in (s.rel \ o.rel) \cup (o.rel \ s.rel) : ~IsTeamMembership(r) => r[2] \in s.todo
  PROVE  Sound(CreateNewAncestors(s), G) /\ CreateNewAncestors(s).rel = s.rel
<1> DEFINE f == CHOOSE f : IsTurns(f, s)
           Known == {n \in Nat : n <= Size =>
                       /\ Typed(f[n], G) /\ f[n].rel = s.rel
                       /\ \A c \in G \ f[n].todo : Right(f[n].anc, G, s.rel, c)
                       /\ f[n].todo = {} \/ Cardinality(f[n].todo) + n <= Size}
<1>1. IsTurns(f, s) /\ CreateNewAncestors(s) = f[Size]
  BY TurnsExist, TurnsUnfold
<1> HIDE DEF f
<1>2. \A n \in 0..Size : TurnAt(f, s, n)
  BY <1>1, SizeIsNatural DEF IsTurns, TurnAt
<1>3. f[0] = MarkDescendants(s)
  <2>1. TurnAt(f, s, 0)
    BY <1>2, SizeIsNatural
  <2> QED
    BY <2>1, Zenon DEF TurnAt
<1>4. ASSUME NEW n \in Nat, n + 1 <= Size PROVE f[n + 1] = ProcessOnce(f[n])
  <2>1. TurnAt(f, s, n + 1) /\ n + 1 # 0 /\ (n + 1) - 1 = n
    BY <1>2, <1>4, SizeIsNatural
  <2> QED
    BY <2>1 DEF TurnAt
<1>5. G \subseteq Groups /\ IsFiniteSet(Groups)
  BY GraphConstants DEF Typed
<1>6. \A T \in SUBSET G : IsFiniteSet(T) /\ Cardinality(T) \in Nat /\ Cardinality(T) <= Size
  <2>1. \A T \in SUBSET G : T \subseteq Groups
    BY <1>5
  <2> QED
    BY <1>5, <2>1, FS_Subset, FS_CardinalityType DEF Size
<1>7. 0 \in Known
  <2> DEFINE m == MarkDescendants(s)
  <2>1. /\ m.rel = s.rel /\ m.anc = s.anc
        /\ m.todo = s.todo \cup {r[2] : r \in {r \in s.anc : r[1] \in s.todo}}
    BY DEF MarkDescendants, Tables
  <2>2. \A r \in s.anc : r[2] \in G
    BY <1>5, RowFacts DEF Typed
  <2>3. Typed(m, G)
    BY <2>1, <2>2 DEF Typed
  <2>4. \A c \in G \ m.todo : Right(m.anc, G, s.rel, c)
    BY <2>1, MarkedIsRight
  <2>5. Cardinality(m.todo) + 0 <= Size
    BY <1>6, <2>3, SizeIsNatural DEF Typed
  <2> HIDE DEF m
  <2>6. f[0] = m
    BY <1>3 DEF m
  <2> QED
    BY <2>1, <2>3, <2>4, <2>5, <2>6
<1>8. ASSUME NEW n \in Nat, n \in Known PROVE n + 1 \in Known
  <2> SUFFICES ASSUME n + 1 <= Size
               PROVE  /\ Typed(f[n + 1], G) /\ f[n + 1].rel = s.rel
                      /\ \A c \in G \ f[n + 1].todo : Right(f[n + 1].anc, G, s.rel, c)
                      /\ f[n + 1].todo = {} \/ Cardinality(f[n + 1].todo) + (n + 1) <= Size
    OBVIOUS
  <2> DEFINE w == f[n]
  <2>1. /\ Typed(w, G) /\ w.rel = s.rel
        /\ \A c \in G \ w.todo : Right(w.anc, G, s.rel, c)
        /\ w.todo = {} \/ Cardinality(w.todo) + n <= Size
    <3>1. n <= Size
      BY SizeIsNatural
    <3> QED
      BY <1>8, <3>1
  <2>2. f[n + 1] = ProcessOnce(w)
    BY <1>4
  <2> HIDE DEF w
  <2>3. /\ Typed(ProcessOnce(w), G) /\ ProcessOnce(w).rel = s.rel
        /\ ProcessOnce(w).todo = w.todo \ Processing(w) /\ Processing(w) \subseteq w.todo
    BY <2>1, TurnKeepsTypes
  <2>4. /\ \A c \in G \ ProcessOnce(w).todo : Right(ProcessOnce(w).anc, G, s.rel, c)
        /\ w.todo # {} => Processing(w) # {}
    BY <2>1, TurnIsRight
  <2>5. w.todo \ Processing(w) = {} \/ Cardinality(w.todo \ Processing(w)) + (n + 1) <= Size
    <3>1. CASE w.todo = {}
      BY <3>1
    <3>2. CASE w.todo # {}
      <4>1. PICK x \in Processing(w) : x \in w.todo
        BY <2>3, <2>4, <3>2
      <4>2. w.todo \in SUBSET G /\ w.todo \ Processing(w) \in SUBSET G /\ w.todo \ {x} \in SUBSET G
        BY <2>1 DEF Typed
      <4>3. Cardinality(w.todo \ {x}) = Cardinality(w.todo) - 1 /\ IsFiniteSet(w.todo \ {x})
        BY <1>6, <4>1, <4>2, FS_RemoveElement
      <4>4. w.todo \ Processing(w) \subseteq w.todo \ {x}
        BY <4>1
      <4>5. Cardinality(w.todo \ Processing(w)) <= Cardinality(w.todo \ {x})
        BY <4>3, <4>4, FS_Subset
      <4>6. Cardinality(w.todo) \in Nat /\ Cardinality(w.todo \ Processing(w)) \in Nat
        BY <1>6, <4>2
      <4> QED
        BY <2>1, <3>2, <4>3, <4>5, <4>6, SizeIsNatural
    <3> QED
      BY <3>1, <3>2
  <2> QED
    BY <2>2, <2>3, <2>4, <2>5
<1>9. Nat \subseteq Known
  <2> HIDE DEF Known
  <2> QED
    BY <1>7, <1>8, Induction
<1> DEFINE e == f[Size]
<1>10. /\ Typed(e, G) /\ e.rel = s.rel
       /\ \A c \in G \ e.todo : Right(e.anc, G, s.rel, c)
       /\ e.todo = {} \/ Cardinality(e.todo) + Size <= Size
  BY <1>9, SizeIsNatural
<1> HIDE DEF e
<1>11. e.todo = {}
  <2>1. e.todo \in SUBSET G
    BY <1>10 DEF Typed
  <2>2. Cardinality(e.todo) = 0 \/ e.todo = {}
    BY <1>6, <1>10, <2>1, SizeIsNatural
  <2> QED
    BY <1>6, <2>1, <2>2, FS_EmptySet
<1>12. Sound(e, G)
  BY <1>10, <1>11 DEF Sound
<1> QED
  BY <1>1, <1>10, <1>12 DEF e

-----------------------------------------------------------------------------
(* Cycles.                                                                 *)

\* Fewer relations make no cycle.
LEMMA FewerAreSourced ==
  ASSUME NEW R, NEW S, \A r \in R : ~IsTeamMembership(r) => r \in S, Sourced(S)
  PROVE  Sourced(R)
BY DEF Sourced

\* A relation from a group that its child does not reach makes no cycle.
LEMMA OneMoreIsSourced ==
  ASSUME NEW G, G \subseteq Groups, NEW R, R \subseteq Rows(G), Sourced(R),
         NEW p \in G, NEW c \in G, NEW e,
         ~IsTeamMembership(<<p, c, e>>) => p \notin ReachableFrom(c, At(R, 0))
  PROVE  Sourced(R \cup {<<p, c, e>>})
<1> DEFINE row == <<p, c, e>>
           D == ReachableFrom(c, At(R, 0))
<1>1. CASE IsTeamMembership(row)
  BY <1>1, FewerAreSourced
<1>2. CASE ~IsTeamMembership(row)
  <2>1. c \in Groups /\ At(R, 0) \in SUBSET RowsOfGroups
    BY RowFacts
  <2>2. /\ c \in D
        /\ \A r \in At(R, 0) : r[1] \in D => r[2] \in D
    BY <2>1, ReachIsLeast
  <2>3. p \notin D
    BY <1>2
  <2>4. \A r \in R : ~IsTeamMembership(r) => r \in At(R, 0)
    BY RowFacts DEF At
  <2> HIDE DEF D
  <2>5. ASSUME NEW T \in SUBSET Groups, T # {}
        PROVE  \E g \in T : \A r \in R \cup {row} : r[2] = g /\ ~IsTeamMembership(r) => r[1] \notin T
    <3>1. row[1] = p /\ row[2] = c
      OBVIOUS
    <3> HIDE DEF row
    <3>2. CASE T \subseteq D
      <4>1. PICK g \in T : \A r \in R : r[2] = g /\ ~IsTeamMembership(r) => r[1] \notin T
        BY <2>5 DEF Sourced
      <4> QED
        BY <2>3, <3>1, <3>2, <4>1
    <3>3. CASE ~(T \subseteq D)
      <4>1. PICK g \in T \ D : \A r \in R : r[2] = g /\ ~IsTeamMembership(r) => r[1] \notin T \ D
        BY <2>5, <3>3 DEF Sourced
      <4>2. \A r \in R : r[2] = g /\ ~IsTeamMembership(r) => r[1] \notin D
        BY <2>2, <2>4, <4>1
      <4> QED
        BY <2>2, <3>1, <4>1, <4>2
    <3> QED
      BY <3>2, <3>3
  <2> QED
    BY <2>5 DEF Sourced
<1> QED
  BY <1>1, <1>2

\* Without cycles no child reaches its parent.
LEMMA SourcedIsAcyclic ==
  ASSUME NEW G, G \subseteq Groups, NEW R, R \subseteq Rows(G), Sourced(R), NEW t,
         NEW r \in At(R, t)
  PROVE  r[1] \notin ReachableFrom(r[2], At(R, t))
<1> DEFINE Q == At(R, t)
           T == {g \in Groups : g \in ReachableFrom(r[2], Q) /\ r[1] \in ReachableFrom(g, Q)}
<1> SUFFICES ASSUME r[1] \in ReachableFrom(r[2], Q) PROVE FALSE
  OBVIOUS
<1>1. r \in R /\ r[1] \in Groups /\ r[2] \in Groups /\ Q \in SUBSET RowsOfGroups
  BY RowFacts DEF At
<1>2. \A q \in Q : q \in R /\ ~IsTeamMembership(q) /\ q[1] \in Groups /\ q[2] \in Groups
  BY RowFacts DEF At
<1>3. r \in Q
  OBVIOUS
<1> HIDE DEF Q
<1>4. \A g \in Groups : /\ g \in ReachableFrom(g, Q) /\ ReachableFrom(g, Q) \subseteq Groups
                        /\ \A q \in Q : q[1] \in ReachableFrom(g, Q) => q[2] \in ReachableFrom(g, Q)
                        /\ \A h \in ReachableFrom(g, Q) : ReachableFrom(h, Q) \subseteq ReachableFrom(g, Q)
                        /\ \A h \in ReachableFrom(g, Q) : h # g =>
                             \E q \in Q : q[2] = h /\ q[1] \in ReachableFrom(g, Q)
  BY <1>1, ReachIsLeast, ReachFacts
<1>5. r[1] \in T /\ r[2] \in T
  BY <1>1, <1>4
<1>6. PICK g \in T : \A q \in R : q[2] = g /\ ~IsTeamMembership(q) => q[1] \notin T
  BY <1>5 DEF Sourced
<1>7. CASE g = r[2]
  BY <1>2, <1>3, <1>5, <1>6, <1>7
<1>8. CASE g # r[2]
  <2>1. PICK q \in Q : q[2] = g /\ q[1] \in ReachableFrom(r[2], Q)
    BY <1>1, <1>4, <1>8
  <2>2. q[1] \in Groups /\ g \in ReachableFrom(q[1], Q)
    BY <1>2, <1>4, <2>1
  <2>3. ReachableFrom(g, Q) \subseteq ReachableFrom(q[1], Q)
    BY <1>4, <2>2
  <2>4. q[1] \in T
    BY <2>1, <2>2, <2>3
  <2> QED
    BY <1>2, <1>6, <2>1, <2>4
<1> QED
  BY <1>7, <1>8

\* Two groups that reach each other are one.
LEMMA ReachIsAntisymmetric ==
  ASSUME NEW G, G \subseteq Groups, NEW R, R \subseteq Rows(G), Sourced(R), NEW t,
         NEW g \in G, NEW h \in ReachableFrom(g, At(R, t)), g \in ReachableFrom(h, At(R, t))
  PROVE  h = g
<1> DEFINE Q == At(R, t)
<1> SUFFICES ASSUME h # g PROVE FALSE
  OBVIOUS
<1>1. g \in Groups /\ Q \in SUBSET RowsOfGroups
  BY RowFacts
<1>2. \A q \in Q : q[1] \notin ReachableFrom(q[2], Q)
  BY SourcedIsAcyclic
<1> HIDE DEF Q
<1>3. h \in ReachableFrom(g, Q) /\ g \in ReachableFrom(h, Q) /\ h \in Groups
  BY <1>1, ReachIsLeast DEF Q
<1>4. PICK q \in Q : q[2] = h /\ q[1] \in ReachableFrom(g, Q)
  BY <1>1, <1>3, ReachFacts
<1>5. q[1] \in ReachableFrom(h, Q)
  BY <1>1, <1>3, <1>4, ReachFacts
<1> QED
  BY <1>2, <1>4, <1>5

-----------------------------------------------------------------------------
(* The changes of the tables.                                              *)

\* Relations of teams with their members do not count.
LEMMA TeamRowsAreSound ==
  ASSUME NEW o, NEW s, NEW G, Sound(o, G), s.anc = o.anc, s.todo = {}, s.rel \subseteq Rows(G),
         \A r \in (s.rel \ o.rel) \cup (o.rel \ s.rel) : IsTeamMembership(r)
  PROVE  Sound(s, G)
<1>1. Sourced(s.rel)
  <2>1. \A r \in s.rel : ~IsTeamMembership(r) => r \in o.rel
    OBVIOUS
  <2> QED
    BY <2>1, FewerAreSourced DEF Sound, Typed
<1>2. \A t : At(s.rel, t) = At(o.rel, t)
  BY DEF At
<1>3. Typed(s, G)
  BY <1>1 DEF Sound, Typed
<1>4. \A c \in G : Right(s.anc, G, s.rel, c)
  BY <1>2 DEF Sound, Right
<1> QED
  BY <1>3, <1>4 DEF Sound

\* A relation is inserted or changed, and the ancestors are computed.
LEMMA PutIsSound ==
  ASSUME NEW o, NEW s, NEW G, Sound(o, G), NEW p \in G, NEW c \in G, NEW e \in 1..Forever,
         ~IsTeamMembership(<<p, c, e>>) => p \notin ReachableFrom(c, At(o.rel, 0)),
         s.rel = {r \in o.rel : r[1] # p \/ r[2] # c} \cup {<<p, c, e>>},
         s.anc = o.anc, s.todo \subseteq G, Marked({<<p, c, e>>}) \subseteq s.todo
  PROVE  Sound(CreateNewAncestors(s), G) /\ CreateNewAncestors(s).rel = s.rel
<1> DEFINE row == <<p, c, e>>
           R == {r \in o.rel : r[1] # p \/ r[2] # c}
<1>1. G \subseteq Groups /\ o.rel \subseteq Rows(G) /\ Sourced(o.rel)
  BY DEF Sound, Typed
<1>2. row[1] = p /\ row[2] = c /\ row \in Rows(G)
  BY DEF Rows
<1>3. Sourced(o.rel \cup {row})
  BY <1>1, OneMoreIsSourced
<1>4. s.rel = R \cup {row} /\ R \subseteq o.rel
  OBVIOUS
<1> HIDE DEF row, R
<1>5. Sourced(s.rel)
  <2>1. \A r \in s.rel : r \in o.rel \cup {row}
    BY <1>4
  <2> QED
    BY <1>3, <2>1, FewerAreSourced
<1>6. Typed(s, G)
  BY <1>1, <1>2, <1>4, <1>5 DEF Sound, Typed
<1>7. ASSUME NEW r \in (s.rel \ o.rel) \cup (o.rel \ s.rel), ~IsTeamMembership(r)
      PROVE  r[2] \in s.todo
  <2>1. r = row \/ (r[1] = p /\ r[2] = c)
    BY <1>4 DEF R
  <2>2. r[1] = p /\ r[2] = c
    BY <1>2, <2>1
  <2>3. ~IsTeamMembership(row)
    BY <1>2, <1>7, <2>2 DEF IsTeamMembership
  <2>4. c \in Marked({row})
    BY <1>2, <2>3 DEF Marked
  <2> QED
    BY <2>2, <2>4 DEF row
<1> QED
  BY <1>6, <1>7, RecomputedIsSound

\* Relations are deleted, and the ancestors are computed.
LEMMA DeletedIsSound ==
  ASSUME NEW o, NEW G, Sound(o, G), NEW rows, rows \subseteq o.rel
  PROVE  /\ Sound(CreateNewAncestors(DeleteRelations(o, rows)), G)
         /\ CreateNewAncestors(DeleteRelations(o, rows)).rel = o.rel \ rows
<1> DEFINE s == DeleteRelations(o, rows)
<1>1. s.rel = o.rel \ rows /\ s.anc = o.anc /\ s.todo = o.todo \cup Marked(rows)
  BY DEF DeleteRelations, Tables
<1> HIDE DEF s
<1>2. G \subseteq Groups /\ o.rel \subseteq Rows(G)
  BY DEF Sound, Typed
<1>3. \A r \in o.rel : r[2] \in G
  BY <1>2, RowFacts
<1>4. Sourced(s.rel)
  <2>1. \A r \in s.rel : r \in o.rel
    BY <1>1
  <2> QED
    BY <2>1, FewerAreSourced DEF Sound, Typed
<1>5. s.todo \subseteq G
  BY <1>1, <1>3 DEF Marked, Sound, Typed
<1>6. Typed(s, G)
  BY <1>1, <1>4, <1>5 DEF Sound, Typed
<1>7. \A r \in (s.rel \ o.rel) \cup (o.rel \ s.rel) : ~IsTeamMembership(r) => r[2] \in s.todo
  BY <1>1 DEF Marked
<1>8. Sound(CreateNewAncestors(s), G) /\ CreateNewAncestors(s).rel = s.rel
  BY <1>1, <1>6, <1>7, RecomputedIsSound
<1> QED
  BY <1>1, <1>8 DEF s

\* The relations of some groups are deleted.
LEMMA UnlinkIsSound ==
  ASSUME NEW o, NEW G, Sound(o, G), NEW D
  PROVE  Sound(Unlink(o, D), G) /\ Unlink(o, D).rel = o.rel \ LinkedTo(o.rel, D)
<1>1. CASE LinkedTo(o.rel, D) = {}
  BY <1>1 DEF Unlink
<1>2. CASE LinkedTo(o.rel, D) # {}
  <2>1. LinkedTo(o.rel, D) \subseteq o.rel
    BY DEF LinkedTo
  <2> QED
    BY <1>2, <2>1, DeletedIsSound DEF Unlink
<1> QED
  BY <1>1, <1>2

\* Groups without relations are deleted, with their rows of the cache.
LEMMA RestrictedIsSound ==
  ASSUME NEW o, NEW G, Sound(o, G), NEW D, LinkedTo(o.rel, D) = {}
  PROVE  Sound(Tables(o.rel, o.anc \ LinkedTo(o.anc, D), o.todo \ D), G \ D)
<1> DEFINE s == Tables(o.rel, o.anc \ LinkedTo(o.anc, D), o.todo \ D)
<1>1. s.rel = o.rel /\ s.anc = o.anc \ LinkedTo(o.anc, D) /\ s.todo = {}
  BY DEF Tables, Sound
<1> HIDE DEF s
<1>2. /\ G \subseteq Groups /\ o.rel \subseteq Rows(G) /\ o.anc \subseteq Rows(G)
      /\ now \in 1..MaxTime /\ Sourced(o.rel) /\ \A g \in G : <<g, g, Forever>> \in o.anc
  BY DEF Sound, Typed
<1>3. \A r \in o.rel : r[1] \in G \ D /\ r[2] \in G \ D /\ r[3] \in 1..Forever /\ r \in G \X G \X (1..Forever)
  BY <1>2, RowFacts DEF LinkedTo, Rows
<1>4. \A r \in s.anc : r[1] \in G \ D /\ r[2] \in G \ D /\ r[3] \in 1..Forever /\ r \in G \X G \X (1..Forever)
  BY <1>1, <1>2, RowFacts DEF LinkedTo, Rows
<1>5. o.rel \subseteq Rows(G \ D)
  BY <1>3 DEF Rows
<1>6. s.anc \subseteq Rows(G \ D)
  BY <1>4 DEF Rows
<1>7. \A g \in G \ D : <<g, g, Forever>> \in s.anc
  BY <1>1, <1>2 DEF LinkedTo
<1>8. Typed(s, G \ D)
  BY <1>1, <1>2, <1>5, <1>6, <1>7 DEF Typed
<1>9. \A a, c \in G \ D : \A t : Knows(s.anc, a, c, t) <=> Knows(o.anc, a, c, t)
  BY <1>1 DEF Knows, LinkedTo
<1>10. \A c \in G \ D : Right(s.anc, G \ D, s.rel, c)
  BY <1>1, <1>9 DEF Right, Sound
<1> QED
  BY <1>1, <1>8, <1>10 DEF Sound, s

\* A group is created, its own ancestor.
LEMMA CreatedIsSound ==
  ASSUME NEW o, NEW G, Sound(o, G), NEW g \in Groups, g \notin G
  PROVE  Sound(Tables(o.rel, o.anc \cup {<<g, g, Forever>>}, o.todo), G \cup {g})
<1> DEFINE s == Tables(o.rel, o.anc \cup {<<g, g, Forever>>}, o.todo)
           own == <<g, g, Forever>>
           H == G \cup {g}
<1>1. s.rel = o.rel /\ s.anc = o.anc \cup {own} /\ s.todo = {}
  BY DEF Tables, Sound
<1> HIDE DEF s
<1>2. /\ G \subseteq Groups /\ o.rel \subseteq Rows(G) /\ o.anc \subseteq Rows(G)
      /\ now \in 1..MaxTime /\ Sourced(o.rel) /\ \A h \in G : <<h, h, Forever>> \in o.anc
  BY DEF Sound, Typed
<1>3. Forever \in 1..Forever /\ Forever \in Nat /\ MaxTime \in Nat /\ MaxTime < Forever
  BY GraphConstants DEF Forever
<1>4. own \in Rows(H) /\ own[1] = g /\ own[2] = g /\ own[3] = Forever
  BY <1>3 DEF Rows
<1>5. Rows(G) \subseteq Rows(H)
  BY DEF Rows
<1>6. Typed(s, H)
  BY <1>1, <1>2, <1>4, <1>5 DEF Typed
<1> HIDE DEF own
<1>7. ASSUME NEW a \in H, NEW c \in H, NEW t \in now..MaxTime
      PROVE  Knows(s.anc, a, c, t) <=> c \in ReachableFrom(a, At(s.rel, t))
  <2> DEFINE Q == At(o.rel, t)
  <2>1. Q \in SUBSET RowsOfGroups /\ \A r \in Q : r[1] \in G /\ r[2] \in G
    BY <1>2, RowFacts DEF At
  <2>2. t < Forever
    BY <1>2, <1>3
  <2>3. Knows(s.anc, a, c, t) <=> (a = g /\ c = g) \/ Knows(o.anc, a, c, t)
    BY <1>1, <1>4, <2>2 DEF Knows
  <2>4. Knows(o.anc, a, c, t) => a \in G /\ c \in G
    BY <1>2, RowFacts DEF Knows
  <2>5. c \in ReachableFrom(a, At(s.rel, t)) <=> c \in ReachableFrom(a, Q)
    BY <1>1
  <2>6. CASE a = g
    <3>1. g \in {g} /\ \A r \in Q : r[1] \in {g} => r[2] \in {g}
      BY <2>1
    <3> HIDE DEF Q
    <3>2. ReachableFrom(g, Q) \subseteq {g} /\ g \in ReachableFrom(g, Q)
      BY <2>1, <3>1, ReachIsLeast
    <3> QED
      BY <2>3, <2>4, <2>5, <2>6, <3>2
  <2>7. CASE a # g
    <3>1. a \in G /\ a \in Groups
      BY <1>2, <2>7
    <3>2. CASE c = g
      <4> HIDE DEF Q
      <4>1. ReachableFrom(a, Q) \subseteq G
        BY <2>1, <3>1, ReachIsLeast
      <4> QED
        BY <2>3, <2>4, <2>5, <2>7, <3>2, <4>1
    <3>3. CASE c # g
      <4>1. c \in G
        BY <3>3
      <4>2. Right(o.anc, G, o.rel, c)
        BY <4>1 DEF Sound
      <4>3. Knows(o.anc, a, c, t) <=> c \in ReachableFrom(a, Q)
        BY <3>1, <4>2 DEF Right
      <4> QED
        BY <2>3, <2>5, <2>7, <4>3
    <3> QED
      BY <3>2, <3>3
  <2> QED
    BY <2>6, <2>7
<1>8. \A c \in H : Right(s.anc, H, s.rel, c)
  BY <1>7 DEF Right
<1> QED
  BY <1>1, <1>6, <1>8 DEF Sound, s, own

-----------------------------------------------------------------------------
(* The inductive invariant.                                                *)

\* What the services relate: a user has no child, members of a team are users, and only
\* a Class has a child that is a Class, for ever.
KindOfRow(r) ==
  /\ Type[r[1]] = "Base" => Type[r[2]] = "User"
  /\ Type[r[1]] = "Class" =>
       \/ Type[r[2]] = "User"
       \/ Type[r[2]] \in {"Class", "Team"} /\ r[3] = Forever
  /\ Type[r[1]] = "Team" => Type[r[2]] = "User"
  /\ Type[r[1]] = "ContestParticipants" => Type[r[2]] \in {"User", "Team"}
  /\ Type[r[1]] # "User"

GraphInv ==
  /\ Sound(Current, groups)
  /\ AllUsers \in groups
  /\ \A r \in relations : KindOfRow(r)

\* What the invariant says of the tables.
LEMMA InvFacts ==
  ASSUME GraphInv
  PROVE  /\ Sound(Current, groups) /\ Current.rel = relations /\ Current.anc = anc
         /\ Current.todo = {} /\ todo = {}
         /\ groups \subseteq Groups /\ relations \subseteq Rows(groups) /\ anc \subseteq Rows(groups)
         /\ now \in 1..MaxTime /\ Sourced(relations)
BY DEF GraphInv, Sound, Typed, Current, Tables

\* The tables a transaction commits are sound in the next state.
LEMMA CommitIsSound ==
  ASSUME NEW s, NEW G, Sound(s, G), AllUsers \in G, \A r \in s.rel : KindOfRow(r),
         relations' = s.rel, anc' = s.anc, todo' = s.todo, groups' = G, now' = now
  PROVE  GraphInv'
<1>1. Current'.rel = s.rel /\ Current'.anc = s.anc /\ Current'.todo = s.todo
  BY DEF Current, Tables
<1>2. Typed(Current, groups)'
  BY <1>1 DEF Sound, Typed
<1>3. \A c \in G : Right(Current.anc, groups, Current.rel, c)'
  BY <1>1 DEF Sound, Right
<1>4. Sound(Current, groups)'
  BY <1>1, <1>2, <1>3 DEF Sound
<1> QED
  BY <1>4 DEF GraphInv

\* Nothing is below a user or a team (the relations of a team with its members do not count).
LEMMA NothingBelow ==
  ASSUME GraphInv, NEW c \in groups, Type[c] \in {"User", "Team"}, NEW t
  PROVE  ReachableFrom(c, At(relations, t)) \subseteq {c}
<1>1. c \in Groups /\ At(relations, t) \in SUBSET RowsOfGroups
  BY InvFacts, RowFacts
<1>2. \A r \in At(relations, t) : r[1] # c
  BY DEF At, IsTeamMembership, GraphInv, KindOfRow
<1>3. c \in {c} /\ \A r \in At(relations, t) : r[1] \in {c} => r[2] \in {c}
  BY <1>2
<1> QED
  BY <1>1, <1>3, ReachIsLeast

\* CreateRelation: a group that is not below the child now never was, because a relation
\* between Classes does not expire and nothing but a Class is above a Class.
LEMMA NoWayBack ==
  ASSUME GraphInv, NEW p \in groups, NEW c \in groups, DirectRelationAllowed(p, c),
         ~HasRow(anc, c, p)
  PROVE  p \notin ReachableFrom(c, At(relations, 0))
<1>0. Type[p] = "Class" /\ Type[c] \in {"Class", "Team"}
  BY DEF DirectRelationAllowed
<1>1. CASE Type[c] = "Team"
  <2>1. ReachableFrom(c, At(relations, 0)) \subseteq {c} /\ p # c
    BY <1>0, <1>1, NothingBelow
  <2> QED
    BY <2>1
<1>2. CASE Type[c] = "Class"
  <2> DEFINE D == ReachableFrom(c, At(relations, now))
             X == D \cup {h \in Groups : Type[h] # "Class"}
  <2>1. /\ c \in Groups /\ p \in Groups /\ now \in now..MaxTime /\ now < Forever /\ now \in Nat
        /\ At(relations, 0) \in SUBSET RowsOfGroups /\ At(relations, now) \in SUBSET RowsOfGroups
        /\ \A r \in relations : r[1] \in Groups /\ r[2] \in Groups
    BY InvFacts, RowFacts, GraphConstants DEF Forever
  <2>2. ~Knows(anc, c, p, now)
    BY DEF HasRow, Knows
  <2>3. p \notin D
    <3>1. Right(anc, groups, relations, p)
      BY InvFacts DEF Sound
    <3> QED
      BY <2>1, <2>2, <3>1 DEF Right
  <2>4. c \in D /\ \A r \in At(relations, now) : r[1] \in D => r[2] \in D
    BY <2>1, ReachIsLeast
  <2> HIDE DEF D
  <2>5. ASSUME NEW r \in At(relations, 0), r[1] \in X PROVE r[2] \in X
    <3>1. r \in relations /\ KindOfRow(r) /\ r[1] \in Groups /\ r[2] \in Groups /\ ~IsTeamMembership(r)
      BY <2>1 DEF At, GraphInv
    <3>2. CASE Type[r[2]] # "Class"
      BY <3>1, <3>2
    <3>3. CASE Type[r[2]] = "Class"
      <4>1. Type[r[1]] \in Types
        BY <3>1, GraphConstants
      <4>2. Type[r[1]] = "Class" /\ r[3] = Forever
        BY <3>1, <3>3, <4>1 DEF KindOfRow, Types
      <4>3. r \in At(relations, now) /\ r[1] \in D
        BY <2>1, <2>5, <3>1, <4>2 DEF At
      <4> QED
        BY <2>4, <4>3
    <3> QED
      BY <3>2, <3>3
  <2>6. c \in X /\ p \notin X
    BY <1>0, <2>3, <2>4
  <2> HIDE DEF X
  <2>7. ReachableFrom(c, At(relations, 0)) \subseteq X
    BY <2>1, <2>5, <2>6, ReachIsLeast
  <2> QED
    BY <2>6, <2>7
<1> QED
  BY <1>0, <1>1, <1>2

-----------------------------------------------------------------------------
(* Each action keeps the invariant.                                        *)

\* A relation is put and its consequences are computed.
LEMMA PutKeepsInv ==
  ASSUME GraphInv, NEW p \in groups, NEW c \in groups, NEW e \in 1..Forever,
         ~IsTeamMembership(<<p, c, e>>) => p \notin ReachableFrom(c, At(relations, 0)),
         KindOfRow(<<p, c, e>>), UNCHANGED groups,
         NEW o, o.anc = anc, o.todo \subseteq groups,
         {r \in o.rel : r[1] # p \/ r[2] # c} = {r \in relations : r[1] # p \/ r[2] # c},
         Commit(CreateNewAncestors(PutRelation(o, p, c, e)))
  PROVE  GraphInv'
<1> DEFINE s == PutRelation(o, p, c, e)
           row == <<p, c, e>>
           done == CreateNewAncestors(s)
<1>1. /\ s.rel = {r \in relations : r[1] # p \/ r[2] # c} \cup {row}
      /\ s.anc = anc /\ s.todo = o.todo \cup Marked({row})
  BY DEF PutRelation, Tables
<1>2. Marked({row}) \subseteq {c}
  BY DEF Marked
<1>3. s.todo \subseteq groups /\ Marked({row}) \subseteq s.todo
  BY <1>1, <1>2
<1> HIDE DEF s
<1>4. Sound(Current, groups) /\ Current.rel = relations /\ Current.anc = anc
  BY InvFacts
<1>5. Sound(done, groups) /\ done.rel = s.rel
  BY <1>1, <1>3, <1>4, PutIsSound, ZenonT(60)
<1> HIDE DEF row
<1>6. \A r \in done.rel : KindOfRow(r)
  BY <1>1, <1>5 DEF GraphInv, row
<1>7. relations' = done.rel /\ anc' = done.anc /\ todo' = done.todo /\ now' = now
  BY DEF Commit, s
<1>8. AllUsers \in groups
  BY DEF GraphInv
<1> HIDE DEF done
<1> QED
  BY <1>5, <1>6, <1>7, <1>8, CommitIsSound

\* Relations are deleted and the consequences are computed.
LEMMA DeleteKeepsInv ==
  ASSUME GraphInv, NEW rows, rows \subseteq relations, UNCHANGED groups,
         Commit(CreateNewAncestors(DeleteRelations(Current, rows)))
  PROVE  GraphInv'
<1> DEFINE done == CreateNewAncestors(DeleteRelations(Current, rows))
<1>1. Sound(done, groups) /\ done.rel = relations \ rows
  BY InvFacts, DeletedIsSound
<1>2. relations' = done.rel /\ anc' = done.anc /\ todo' = done.todo /\ now' = now
  BY DEF Commit
<1> HIDE DEF done
<1>3. AllUsers \in groups /\ \A r \in done.rel : KindOfRow(r)
  BY <1>1 DEF GraphInv
<1> QED
  BY <1>1, <1>2, <1>3, CommitIsSound

\* The members of a team change and the ancestors are left alone.
LEMMA TeamKeepsInv ==
  ASSUME GraphInv, NEW s, s.anc = anc, s.todo = todo, s.rel \subseteq Rows(groups),
         \A r \in (s.rel \ relations) \cup (relations \ s.rel) : IsTeamMembership(r),
         \A r \in s.rel : KindOfRow(r), UNCHANGED groups, Commit(s)
  PROVE  GraphInv'
<1>1. Sound(s, groups)
  BY InvFacts, TeamRowsAreSound
<1>2. relations' = s.rel /\ anc' = s.anc /\ todo' = s.todo /\ now' = now /\ AllUsers \in groups
  BY DEF Commit, GraphInv
<1> QED
  BY <1>1, <1>2, CommitIsSound

\* The trigger after_insert_groups.
LEMMA CreateGroupKeepsInv ==
  ASSUME GraphInv, NEW g \in Groups, CreateGroup(g)
  PROVE  GraphInv'
<1> DEFINE s == Tables(relations, anc \cup {<<g, g, Forever>>}, todo)
<1>1. s.rel = relations /\ s.anc = anc \cup {<<g, g, Forever>>} /\ s.todo = todo
  BY DEF Tables
<1>2. Current.rel = relations /\ Current.anc = anc /\ Current.todo = todo /\ Sound(Current, groups)
  BY InvFacts
<1>3. Sound(s, groups \cup {g})
  BY <1>2, CreatedIsSound DEF CreateGroup
<1>4. /\ groups' = groups \cup {g} /\ relations' = s.rel /\ anc' = s.anc /\ todo' = s.todo
      /\ now' = now
  BY <1>1 DEF CreateGroup
<1>5. AllUsers \in groups \cup {g} /\ \A r \in s.rel : KindOfRow(r)
  BY <1>1 DEF GraphInv
<1> HIDE DEF s
<1> QED
  BY <1>3, <1>4, <1>5, CommitIsSound

\* The user is created, then attached to AllUsers.
LEMMA CreateUserKeepsInv ==
  ASSUME GraphInv, NEW u \in Groups, CreateUser(u)
  PROVE  GraphInv'
<1> DEFINE o == Tables(relations, anc \cup {<<u, u, Forever>>}, todo)
           G == groups \cup {u}
           row == <<AllUsers, u, Forever>>
           s == PutRelation(o, AllUsers, u, Forever)
           done == CreateNewAncestors(s)
<1>1. o.rel = relations /\ o.anc = anc \cup {<<u, u, Forever>>} /\ o.todo = todo
  BY DEF Tables
<1>2. u \notin groups /\ Type[u] = "User" /\ groups' = G /\ Commit(done)
  BY DEF CreateUser
<1>3. Sound(o, G)
  <2>1. Current.rel = relations /\ Current.anc = anc /\ Current.todo = todo /\ Sound(Current, groups)
    BY InvFacts
  <2> QED
    BY <1>2, <2>1, CreatedIsSound
<1>4. /\ s.rel = {r \in o.rel : r[1] # AllUsers \/ r[2] # u} \cup {row} /\ s.anc = o.anc
      /\ s.todo = o.todo \cup Marked({row})
  BY DEF PutRelation, Tables
<1> HIDE DEF s, o
<1>5. Marked({row}) \subseteq {u} /\ s.todo \subseteq G /\ Marked({row}) \subseteq s.todo
  <2>1. Marked({row}) \subseteq {u}
    BY DEF Marked
  <2> QED
    BY <1>1, <1>4, <2>1, InvFacts
<1>6. AllUsers \notin ReachableFrom(u, At(o.rel, 0))
  <2>1. u \in Groups /\ At(relations, 0) \in SUBSET RowsOfGroups /\ \A r \in At(relations, 0) : r[1] \in groups
    BY InvFacts, RowFacts DEF At
  <2>2. u \in {u} /\ \A r \in At(relations, 0) : r[1] \in {u} => r[2] \in {u}
    BY <1>2, <2>1
  <2>3. ReachableFrom(u, At(relations, 0)) \subseteq {u}
    BY <2>1, <2>2, ReachIsLeast
  <2> QED
    BY <1>1, <1>2, <2>3 DEF GraphInv
<1>7. AllUsers \in G /\ u \in G /\ Forever \in 1..Forever
  BY GraphConstants DEF GraphInv, Forever
<1>8. Sound(done, G) /\ done.rel = s.rel
  <2> HIDE DEF G
  <2> QED
    BY <1>3, <1>4, <1>5, <1>6, <1>7, PutIsSound
<1>9. KindOfRow(row)
  <2>1. row[1] = AllUsers /\ row[2] = u
    OBVIOUS
  <2> QED
    BY <1>2, <2>1, GraphConstants DEF KindOfRow
<1> HIDE DEF row, done
<1>10. \A r \in done.rel : KindOfRow(r)
  BY <1>1, <1>4, <1>8, <1>9 DEF GraphInv
<1>11. relations' = done.rel /\ anc' = done.anc /\ todo' = done.todo /\ now' = now
  BY <1>2 DEF Commit
<1> QED
  BY <1>2, <1>7, <1>8, <1>10, <1>11, CommitIsSound

\* CreateRelation, after the check that it makes no cycle.
LEMMA AddChildKeepsInv ==
  ASSUME GraphInv, NEW p \in Groups, NEW c \in Groups, CreateRelation(p, c)
  PROVE  GraphInv'
<1> DEFINE o == DeleteRelations(Current, RowsOf(p, c))
<1>1. o.rel = relations \ RowsOf(p, c) /\ o.anc = anc /\ o.todo = todo \cup Marked(RowsOf(p, c))
  BY DEF DeleteRelations, Tables, Current
<1> HIDE DEF o
<1>2. /\ p \in groups /\ c \in groups /\ DirectRelationAllowed(p, c) /\ UNCHANGED groups
      /\ p \notin ReachableFrom(c, At(relations, 0))
      /\ Commit(CreateNewAncestors(PutRelation(o, p, c, Forever)))
  BY NoWayBack DEF CreateRelation, o
<1>3. {r \in o.rel : r[1] # p \/ r[2] # c} = {r \in relations : r[1] # p \/ r[2] # c}
  BY <1>1 DEF RowsOf
<1>4. o.todo \subseteq groups
  BY <1>1, <1>2, InvFacts DEF Marked, RowsOf
<1>5. Forever \in 1..Forever
  BY GraphConstants DEF Forever
<1>6. KindOfRow(<<p, c, Forever>>)
  BY <1>2 DEF DirectRelationAllowed, KindOfRow
<1> QED
  BY <1>1, <1>2, <1>3, <1>4, <1>5, <1>6, PutKeepsInv

\* A user joins a group or a team.
LEMMA JoinKeepsInv ==
  ASSUME GraphInv, NEW p \in Groups, NEW u \in Groups, JoinGroup(p, u)
  PROVE  GraphInv'
<1> DEFINE row == <<p, u, Forever>>
           s == PutRelation(Current, p, u, Forever)
<1>1. /\ p \in groups /\ u \in groups /\ Type[p] \in {"Class", "Team"} /\ Type[u] = "User"
      /\ UNCHANGED groups
      /\ Commit(IF Type[p] = "Team" THEN s ELSE CreateNewAncestors(s))
  BY DEF JoinGroup
<1>2. Current.rel = relations /\ Current.anc = anc /\ Current.todo = todo /\ todo = {}
  BY InvFacts DEF Current, Tables
<1>3. Forever \in 1..Forever
  BY GraphConstants DEF Forever
<1>4. KindOfRow(row)
  <2>1. row[1] = p /\ row[2] = u
    OBVIOUS
  <2> QED
    BY <1>1, <2>1 DEF KindOfRow
<1>5. CASE Type[p] = "Team"
  <2>1. s.rel = {r \in relations : r[1] # p \/ r[2] # u} \cup {row} /\ s.anc = anc
        /\ s.todo = todo \cup Marked({row})
    BY <1>2 DEF PutRelation, Tables
  <2> HIDE DEF s
  <2>2. row[1] = p /\ row[2] = u /\ row \in Rows(groups)
    BY <1>1, <1>3 DEF Rows
  <2> HIDE DEF row
  <2>3. IsTeamMembership(row) /\ Marked({row}) = {}
    BY <1>5, <2>2 DEF IsTeamMembership, Marked
  <2>4. s.todo = todo /\ s.rel \subseteq Rows(groups)
    BY <2>1, <2>2, <2>3, InvFacts
  <2>5. \A r \in (s.rel \ relations) \cup (relations \ s.rel) : IsTeamMembership(r)
    BY <1>5, <2>1, <2>3 DEF IsTeamMembership
  <2>6. \A r \in s.rel : KindOfRow(r)
    BY <1>4, <2>1 DEF GraphInv
  <2>7. Commit(s)
    BY <1>1, <1>5
  <2> QED
    BY <1>1, <2>1, <2>4, <2>5, <2>6, <2>7, TeamKeepsInv
<1>6. CASE Type[p] = "Class"
  <2>1. p \notin ReachableFrom(u, At(relations, 0))
    BY <1>1, <1>6, NothingBelow
  <2>2. Commit(CreateNewAncestors(PutRelation(Current, p, u, Forever)))
    BY <1>1, <1>6
  <2> QED
    BY <1>1, <1>2, <1>3, <1>4, <2>1, <2>2, PutKeepsInv
<1> QED
  BY <1>1, <1>5, <1>6

\* A user leaves a group or a team.
LEMMA LeaveKeepsInv ==
  ASSUME GraphInv, NEW p \in Groups, NEW u \in Groups, QuitGroup(p, u)
  PROVE  GraphInv'
<1> DEFINE rows == RowsOf(p, u)
           s == DeleteRelations(Current, rows)
<1>1. /\ Type[p] \in {"Class", "Team"} /\ UNCHANGED groups
      /\ Commit(IF Type[p] = "Team" THEN s ELSE CreateNewAncestors(s))
  BY DEF QuitGroup
<1>2. Current.rel = relations /\ Current.anc = anc /\ Current.todo = todo
  BY DEF Current, Tables
<1>3. rows \subseteq relations /\ \A r \in rows : r[1] = p
  BY DEF RowsOf
<1> HIDE DEF rows
<1>4. CASE Type[p] = "Team"
  <2>1. s.rel = relations \ rows /\ s.anc = anc /\ s.todo = todo \cup Marked(rows)
    BY <1>2 DEF DeleteRelations, Tables
  <2> HIDE DEF s
  <2>2. \A r \in rows : IsTeamMembership(r)
    BY <1>3, <1>4 DEF IsTeamMembership
  <2>3. s.todo = todo
    BY <2>1, <2>2 DEF Marked
  <2>4. s.rel \subseteq Rows(groups) /\ \A r \in s.rel : KindOfRow(r)
    BY <2>1, InvFacts DEF GraphInv
  <2>5. \A r \in (s.rel \ relations) \cup (relations \ s.rel) : IsTeamMembership(r)
    BY <1>3, <2>1, <2>2
  <2>6. Commit(s)
    BY <1>1, <1>4
  <2> QED
    BY <1>1, <2>1, <2>3, <2>4, <2>5, <2>6, TeamKeepsInv
<1>5. CASE Type[p] = "Class"
  <2>1. Commit(CreateNewAncestors(DeleteRelations(Current, rows)))
    BY <1>1, <1>5
  <2> QED
    BY <1>1, <1>3, <2>1, DeleteKeepsInv
<1> QED
  BY <1>1, <1>4, <1>5

\* The participation of a user or a team starts, ends or is moved.
LEMMA ParticipationKeepsInv ==
  ASSUME GraphInv, NEW k \in Groups, NEW x \in Groups, NEW e \in 1..Forever,
         Participation(k, x), UNCHANGED groups,
         Commit(CreateNewAncestors(PutRelation(Current, k, x, e)))
  PROVE  GraphInv'
<1>1. /\ k \in groups /\ x \in groups
      /\ Type[k] = "ContestParticipants" /\ Type[x] \in {"User", "Team"}
  BY DEF Participation
<1>2. Current.rel = relations /\ Current.anc = anc /\ Current.todo = {}
  BY InvFacts
<1>3. k \notin ReachableFrom(x, At(relations, 0))
  BY <1>1, NothingBelow
<1>4. KindOfRow(<<k, x, e>>)
  BY <1>1 DEF KindOfRow
<1> QED
  BY <1>1, <1>2, <1>3, <1>4, PutKeepsInv

\* The deletion of a group that is neither a user's nor a Base group, with its orphans.
LEMMA DeletionKeepsInv ==
  ASSUME GraphInv, NEW g \in groups, Type[g] \in {"Class", "Team"},
         DeleteGroupAndOrphanedDescendants(g)
  PROVE  GraphInv'
<1> DEFINE alone == Unlink(Current, {g})
           orphans == Orphans(alone, Candidates(g))
           final == Unlink(alone, orphans)
           deleted == orphans \cup {g}
           s == Tables(final.rel, final.anc \ LinkedTo(final.anc, deleted), final.todo \ deleted)
<1>1. /\ groups' = groups \ deleted /\ relations' = s.rel /\ anc' = s.anc /\ todo' = s.todo
      /\ now' = now
  BY DEF DeleteGroupAndOrphanedDescendants, Tables
<1>2. Sound(alone, groups) /\ alone.rel = relations \ LinkedTo(relations, {g})
  BY InvFacts, UnlinkIsSound
<1>3. AllUsers \notin orphans /\ AllUsers # g
  BY GraphConstants DEF Orphans, Candidates
<1> HIDE DEF alone, orphans
<1>4. Sound(final, groups) /\ final.rel = alone.rel \ LinkedTo(alone.rel, orphans)
  BY <1>2, UnlinkIsSound
<1> HIDE DEF final
<1>5. LinkedTo(final.rel, deleted) = {}
  BY <1>2, <1>4 DEF LinkedTo
<1>6. Sound(s, groups \ deleted)
  BY <1>4, <1>5, RestrictedIsSound
<1>7. \A r \in s.rel : r \in relations
  BY <1>2, <1>4 DEF Tables
<1> HIDE DEF s
<1>8. AllUsers \in groups \ deleted /\ \A r \in s.rel : KindOfRow(r)
  BY <1>3, <1>7 DEF GraphInv
<1> QED
  BY <1>1, <1>6, <1>8, CommitIsSound

\* Relations deleted on request, with the child itself when it is an orphan.
LEMMA RemoveChildKeepsInv ==
  ASSUME GraphInv, NEW p \in Groups, NEW c \in Groups, NEW deleteOrphans \in BOOLEAN,
         DeleteRelation(p, c, deleteOrphans)
  PROVE  GraphInv'
<1>1. c \in groups /\ Type[c] \in {"Class", "Team"} /\ RowsOf(p, c) \subseteq relations
  BY DEF DeleteRelation, DirectRelationAllowed, RowsOf
<1>2. \/ DeleteGroupAndOrphanedDescendants(c)
      \/ Commit(CreateNewAncestors(DeleteRelations(Current, RowsOf(p, c)))) /\ UNCHANGED groups
  BY DEF DeleteRelation
<1> QED
  BY <1>1, <1>2, DeletionKeepsInv, DeleteKeepsInv

\* The cache says what becomes of the ancestors when nothing but time passes.
LEMMA TickKeepsInv ==
  ASSUME GraphInv, Tick
  PROVE  GraphInv'
<1>1. /\ now < MaxTime /\ now' = now + 1 /\ UNCHANGED <<groups, relations, anc, todo>>
      /\ now \in 1..MaxTime /\ MaxTime \in Nat
  BY InvFacts, GraphConstants DEF Tick
<1>2. Current' = Current
  BY <1>1 DEF Current
<1>3. now' \in 1..MaxTime /\ \A t \in now'..MaxTime : t \in now..MaxTime
  BY <1>1
<1>4. Typed(Current, groups)'
  BY <1>1, <1>2, <1>3, InvFacts DEF Sound, Typed
<1>5. \A c \in groups : Right(Current.anc, groups, Current.rel, c)'
  BY <1>1, <1>2, <1>3, InvFacts DEF Sound, Right
<1>6. Sound(Current, groups)'
  BY <1>1, <1>2, <1>4, <1>5, InvFacts DEF Sound
<1> QED
  BY <1>1, <1>6 DEF GraphInv

\* At the start each group is its own ancestor.
LEMMA GraphInitInv ==
  ASSUME GraphInit
  PROVE  GraphInv
<1>1. /\ now = 1 /\ groups = Initially /\ relations = {} /\ todo = {}
      /\ anc = {<<g, g, Forever>> : g \in Initially}
      /\ Current.rel = {} /\ Current.anc = anc /\ Current.todo = {}
  BY DEF GraphInit, Current, Tables
<1>2. MaxTime \in Nat \ {0} /\ Forever \in 1..Forever /\ MaxTime < Forever /\ Initially \subseteq Groups
  BY GraphConstants DEF Forever
<1>3. anc \subseteq Rows(groups) /\ \A g \in groups : <<g, g, Forever>> \in anc
  BY <1>1, <1>2 DEF Rows
<1>4. Typed(Current, groups)
  BY <1>1, <1>2, <1>3 DEF Typed, Sourced
<1>5. ASSUME NEW c \in groups, NEW t \in now..MaxTime, NEW a \in groups
      PROVE  Knows(anc, a, c, t) <=> c \in ReachableFrom(a, At({}, t))
  <2>1. Knows(anc, a, c, t) <=> a = c
    <3>1. t < Forever
      BY <1>1, <1>2
    <3>2. <<a, a, Forever>> \in anc /\ \A r \in anc : r[1] = r[2]
      BY <1>1
    <3>3. <<a, a, Forever>>[1] = a /\ <<a, a, Forever>>[2] = a /\ <<a, a, Forever>>[3] = Forever
      OBVIOUS
    <3> QED
      BY <3>1, <3>2, <3>3 DEF Knows
  <2>2. At({}, t) = {} /\ a \in Groups
    BY <1>1, <1>2 DEF At
  <2>3. a \in ReachableFrom(a, {}) /\ ReachableFrom(a, {}) \subseteq {a}
    BY <2>2, ReachIsLeast
  <2> QED
    BY <2>1, <2>2, <2>3
<1>6. Sound(Current, groups)
  BY <1>1, <1>4, <1>5 DEF Sound, Right
<1> QED
  BY <1>1, <1>6, GraphConstants DEF GraphInv

\* Each step of the services keeps the invariant.
LEMMA GraphNextInv ==
  ASSUME GraphInv, [GraphNext]_graphVars
  PROVE  GraphInv'
<1>1. ASSUME NEW g \in Groups, CreateGroup(g) \/ CreateUser(g) \/ DeleteGroup(g)
      PROVE  GraphInv'
  <2>1. CASE DeleteGroup(g)
    BY <2>1, DeletionKeepsInv DEF DeleteGroup
  <2> QED
    BY <1>1, <2>1, CreateGroupKeepsInv, CreateUserKeepsInv
<1>2. ASSUME NEW p \in Groups, NEW c \in Groups,
             \/ CreateRelation(p, c) \/ JoinGroup(p, c) \/ QuitGroup(p, c)
             \/ \E deleteOrphans \in BOOLEAN : DeleteRelation(p, c, deleteOrphans)
      PROVE  GraphInv'
  BY <1>2, AddChildKeepsInv, JoinKeepsInv, LeaveKeepsInv, RemoveChildKeepsInv
<1>3. ASSUME NEW k \in Groups, NEW x \in Groups, NEW e \in 1..Forever,
             Enter(k, x, e) \/ SetAdditionalTime(k, x, e)
      PROVE  GraphInv'
  BY <1>3, ParticipationKeepsInv DEF Enter, SetAdditionalTime
<1>4. ASSUME NEW k \in Groups, NEW x \in Groups, EndAttempt(k, x)
      PROVE  GraphInv'
  <2>1. now \in 1..Forever
    BY InvFacts, GraphConstants DEF Forever
  <2> QED
    BY <1>4, <2>1, ParticipationKeepsInv DEF EndAttempt
<1>5. CASE UNCHANGED graphVars
  <2>1. Current' = Current /\ UNCHANGED <<now, groups, relations>>
    BY <1>5 DEF graphVars, Current
  <2>2. Sound(Current, groups)'
    BY <2>1 DEF GraphInv, Sound, Typed, Right
  <2> QED
    BY <2>1, <2>2 DEF GraphInv
<1> QED
  BY <1>1, <1>2, <1>3, <1>4, <1>5, TickKeepsInv, Zenon DEF GraphNext

-----------------------------------------------------------------------------
(* Theorems.                                                               *)

\* The invariant holds in every state.
THEOREM GraphInvariant == GraphSpec => []GraphInv
<1>1. GraphInit => GraphInv
  BY GraphInitInv
<1>2. GraphInv /\ [GraphNext]_graphVars => GraphInv'
  BY GraphNextInv
<1> QED
  BY <1>1, <1>2, PTL DEF GraphSpec

\* GraphTypeOK: no row of a relation or of the cache refers to a group that was deleted.
THEOREM GraphTypeCorrect == GraphSpec => []GraphTypeOK
<1>1. GraphInv => GraphTypeOK
  <2> SUFFICES ASSUME GraphInv PROVE GraphTypeOK
    OBVIOUS
  <2> QED
    BY InvFacts DEF GraphTypeOK, Rows
<1> QED
  BY <1>1, GraphInvariant, PTL

\* AncestorsAreTheClosure: groups_ancestors_active is the transitive closure of the
\* active relations, at the current instant and at every later one.
THEOREM CacheIsTheClosure == GraphSpec => []AncestorsAreTheClosure
<1>1. GraphInv => AncestorsAreTheClosure
  <2> SUFFICES ASSUME GraphInv PROVE AncestorsAreTheClosure
    OBVIOUS
  <2>1. /\ todo = {} /\ groups \subseteq Groups /\ relations \subseteq Rows(groups)
        /\ anc \subseteq Rows(groups) /\ \A c \in groups : Right(anc, groups, relations, c)
    BY InvFacts DEF Sound
  <2>2. ASSUME NEW t \in now..MaxTime, NEW a \in groups
        PROVE  {r[2] : r \in {r \in anc : r[1] = a /\ t < r[3]}} = ReachableFrom(a, RelationsAt(t))
    <3> DEFINE Q == At(relations, t)
               X == {r[2] : r \in {r \in anc : r[1] = a /\ t < r[3]}}
    <3>1. RelationsAt(t) = Q
      BY DEF RelationsAt, At
    <3>2. Q \in SUBSET RowsOfGroups /\ \A r \in Q : r[2] \in groups
      BY <2>1, RowFacts DEF At
    <3>3. \A c \in groups : Knows(anc, a, c, t) <=> c \in ReachableFrom(a, Q)
      BY <2>1 DEF Right
    <3> HIDE DEF Q
    <3>4. a \in Groups /\ a \in groups /\ \A r \in Q : r[1] \in groups => r[2] \in groups
      BY <2>1, <3>2
    <3>5. ReachableFrom(a, Q) \subseteq groups
      BY <3>2, <3>4, ReachIsLeast
    <3>6. X \subseteq groups
      BY <2>1, RowFacts
    <3>7. \A c : c \in X <=> Knows(anc, a, c, t)
      BY DEF Knows
    <3> HIDE DEF X
    <3>8. X = ReachableFrom(a, Q)
      BY <3>3, <3>5, <3>6, <3>7
    <3> QED
      BY <3>1, <3>8 DEF X
  <2> QED
    BY <2>1, <2>2 DEF AncestorsAreTheClosure
<1> QED
  BY <1>1, GraphInvariant, PTL

\* RelationsAreAcyclic: CreateRelation never closes a cycle, though it only looks at the
\* cache, where what expired is no longer found.
THEOREM NoCycleEvenExpired == GraphSpec => []RelationsAreAcyclic
<1>1. GraphInv => RelationsAreAcyclic
  <2> SUFFICES ASSUME GraphInv, NEW r \in RelationsAt(0)
               PROVE  r[1] \notin ReachableFrom(r[2], RelationsAt(0))
    BY DEF RelationsAreAcyclic
  <2>1. RelationsAt(0) = At(relations, 0)
    BY DEF RelationsAt, At
  <2> QED
    BY <2>1, InvFacts, SourcedIsAcyclic
<1> QED
  BY <1>1, GraphInvariant, PTL

\* A deletion takes with it the descendants that no active parent keeps, and no other.
LEMMA DeletionTakesOrphans ==
  ASSUME GraphInv, NEW g \in groups, DeleteGroupAndOrphanedDescendants(g),
         NEW h \in groups, Type[h] \notin {"Base", "User"},
         NEW d \in groups \ groups', d # h, Actual(anc, d, h)
  PROVE  h \in groups' <=> \E p \in groups' : Actual(relations, p, h)
<1> DEFINE alone == Unlink(Current, {g})
           orphans == Orphans(alone, Candidates(g))
           Cand == Candidates(g)
           Q == At(relations, now)
           R1 == At(alone.rel, now)
<1>1. groups' = groups \ (orphans \cup {g})
  BY DEF DeleteGroupAndOrphanedDescendants
<1>2. Sound(alone, groups) /\ alone.rel = relations \ LinkedTo(relations, {g})
  BY InvFacts, UnlinkIsSound
<1>3. /\ groups \subseteq Groups /\ relations \subseteq Rows(groups) /\ alone.rel \subseteq Rows(groups)
      /\ Sourced(relations) /\ Sourced(alone.rel) /\ now \in now..MaxTime
      /\ \A c \in groups : Right(anc, groups, relations, c)
      /\ \A c \in groups : Right(alone.anc, groups, alone.rel, c)
  <2> HIDE DEF alone
  <2>1. /\ groups \subseteq Groups /\ relations \subseteq Rows(groups)
        /\ Sourced(relations) /\ now \in now..MaxTime
    BY InvFacts
  <2>2. \A c \in groups : Right(anc, groups, relations, c)
    BY InvFacts DEF Sound
  <2>3. /\ alone.rel \subseteq Rows(groups) /\ Sourced(alone.rel)
        /\ \A c \in groups : Right(alone.anc, groups, alone.rel, c)
    BY <1>2 DEF Sound, Typed
  <2> QED
    BY <2>1, <2>2, <2>3
<1>4. \A a, c \in groups : Actual(anc, a, c) <=> c \in ReachableFrom(a, Q)
  BY <1>3 DEF Right, Knows, Actual, IsActual
<1>5. \A a, c \in groups : Actual(alone.anc, a, c) <=> c \in ReachableFrom(a, R1)
  <2> HIDE DEF alone
  <2> QED
    BY <1>3 DEF Right, Knows, Actual, IsActual
<1>6. \A c : c \in Cand <=> /\ c \in groups /\ c # g /\ c \in ReachableFrom(g, Q)
                            /\ Type[c] \notin {"Base", "User"}
  BY <1>4 DEF Candidates
<1>7. \A c : c \in orphans <=>
               c \in Cand /\ \A a \in groups \ {c} : c \in ReachableFrom(a, R1) => a \in Cand
  <2> HIDE DEF alone, R1
  <2>1. Cand \subseteq groups
    BY <1>6
  <2> QED
    BY <1>5, <2>1 DEF Orphans
<1>8. \A r \in relations : r[1] \in groups /\ r[2] \in groups /\ KindOfRow(r)
  BY <1>3, RowFacts DEF GraphInv
<1>9. /\ Q \in SUBSET RowsOfGroups /\ R1 \in SUBSET RowsOfGroups
      /\ \A r \in R1 : r \in relations /\ now < r[3] /\ r[1] # g
  <2>1. \A r \in R1 : r \in relations /\ now < r[3] /\ r[1] # g
    BY <1>2 DEF At, LinkedTo
  <2> QED
    BY <1>3, <2>1, RowFacts
<1>10. \A r \in relations : now < r[3] /\ r[2] = h /\ h # g /\ r[1] # g => r \in R1
  <2>1. \A r \in relations : r[2] = h => ~IsTeamMembership(r)
    BY <1>8 DEF KindOfRow, IsTeamMembership
  <2> QED
    BY <1>2, <2>1 DEF At, LinkedTo
<1>11. \A r \in R1 : r[1] \notin ReachableFrom(r[2], R1)
  <2> HIDE DEF alone
  <2> QED
    BY <1>3, SourcedIsAcyclic
<1>12. \A x \in ReachableFrom(g, Q) : g \in ReachableFrom(x, Q) => x = g
  BY <1>3, ReachIsAntisymmetric
<1> HIDE DEF alone, orphans, Cand, Q, R1
<1>13. h \in Cand
  <2>1. d \in groups /\ (d = g \/ d \in Cand) /\ h \in ReachableFrom(d, Q)
    BY <1>1, <1>4, <1>7
  <2>2. d \in ReachableFrom(g, Q) /\ ReachableFrom(d, Q) \subseteq ReachableFrom(g, Q)
    <3>1. g \in ReachableFrom(g, Q) /\ \A x \in ReachableFrom(g, Q) :
                                         ReachableFrom(x, Q) \subseteq ReachableFrom(g, Q)
      BY <1>3, <1>9, ReachIsLeast, ReachFacts
    <3> QED
      BY <1>6, <2>1, <3>1
  <2>3. h # g
    BY <1>12, <2>1, <2>2
  <2> QED
    BY <1>6, <2>1, <2>2, <2>3
<1>14. \A a \in groups : /\ a \in ReachableFrom(a, R1) /\ ReachableFrom(a, R1) \subseteq Groups
                         /\ \A r \in R1 : r[1] \in ReachableFrom(a, R1) => r[2] \in ReachableFrom(a, R1)
                         /\ \A x \in ReachableFrom(a, R1) : x # a =>
                              \E r \in R1 : r[2] = x /\ r[1] \in ReachableFrom(a, R1)
  BY <1>3, <1>9, ReachIsLeast, ReachFacts
<1>15. ASSUME NEW p \in groups', Actual(relations, p, h) PROVE h \in groups'
  <2>1. p \in groups /\ p \notin orphans /\ p # g /\ h # g
    BY <1>1, <1>6, <1>13, <1>15
  <2>2. PICK r \in R1 : r[1] = p /\ r[2] = h
    BY <1>10, <1>15, <2>1 DEF Actual, IsActual
  <2> SUFFICES ASSUME h \in orphans PROVE FALSE
    BY <1>1, <2>1
  <2>3. p # h /\ h \in ReachableFrom(p, R1)
    BY <1>11, <1>14, <2>1, <2>2
  <2>4. p \in Cand
    BY <1>7, <2>1, <2>3
  <2>5. PICK a \in groups \ {p} : p \in ReachableFrom(a, R1) /\ a \notin Cand
    BY <1>7, <2>1, <2>4
  <2>6. h \in ReachableFrom(a, R1) /\ a # h
    BY <1>13, <1>14, <2>2, <2>5
  <2> QED
    BY <1>7, <2>5, <2>6
<1>16. ASSUME h \in groups' PROVE \E p \in groups' : Actual(relations, p, h)
  <2>1. PICK a \in groups \ {h} : h \in ReachableFrom(a, R1) /\ a \notin Cand
    BY <1>1, <1>7, <1>13, <1>16
  <2>2. PICK r \in R1 : r[2] = h /\ r[1] \in ReachableFrom(a, R1)
    BY <1>14, <2>1
  <2>3. r[1] \in groups /\ r[1] # g /\ Actual(relations, r[1], h)
    BY <1>8, <1>9, <2>2 DEF Actual, IsActual
  <2>4. r[1] \notin orphans
    BY <1>7, <2>1, <2>2
  <2> QED
    BY <1>1, <2>3, <2>4
<1> QED
  BY <1>15, <1>16

\* OnlyOrphansAreDeleted: of the descendants of a deleted group, a service deletes the
\* orphans and spares the others.
THEOREM OrphansGoOthersStay == GraphSpec => OnlyOrphansAreDeleted
<1>1. ASSUME GraphInv, [GraphNext]_graphVars, NEW h \in groups, Type[h] \notin {"Base", "User"},
             NEW d \in groups \ groups', d # h, Actual(anc, d, h)
      PROVE  h \in groups' <=> \E p \in groups' : Actual(relations, p, h)
  <2>1. \/ groups \subseteq groups'
        \/ \E g \in groups : DeleteGroupAndOrphanedDescendants(g)
    BY <1>1, Zenon DEF GraphNext, graphVars, CreateGroup, CreateUser, DeleteGroup, CreateRelation, DeleteRelation,
       JoinGroup, QuitGroup, EndAttempt, Enter, SetAdditionalTime, Tick
  <2> QED
    BY <1>1, <2>1, DeletionTakesOrphans
<1>2. GraphInv /\ [GraphNext]_graphVars =>
        [\A g \in groups :
           (/\ Type[g] \notin {"Base", "User"}
            /\ \E d \in groups \ groups' : d # g /\ Actual(anc, d, g))
           => (g \in groups' <=> \E p \in groups' : Actual(relations, p, g))]_graphVars
  BY <1>1
<1> QED
  BY <1>2, GraphInvariant, PTL DEF GraphSpec, OnlyOrphansAreDeleted

===============================================================================
