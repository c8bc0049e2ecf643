---------------------- MODULE ContestParticipationProofs ----------------------
(***************************************************************************)
(* Proofs about ContestParticipation and, at the end, TeamParticipation.   *)
(***************************************************************************)
EXTENDS ContestParticipation, TeamParticipation, SumTheorems, TLAPS

-----------------------------------------------------------------------------
(* TotalAdditionalTime is a sum (see SumTheorems).                          *)

\* The additional time of a participant is an integer, and depends on its groups alone.
LEMMA TotalFacts ==
  ASSUME NEW x \in [Groups -> Int \cup {NoExtra}], NEW y, NEW p,
         \A g \in Groups : p \in DescendantsOf[g] => y[g] = x[g]
  PROVE  /\ TotalAdditionalTime(p, x) \in Int
         /\ ExtraGroups(p, y) = ExtraGroups(p, x)
         /\ TotalAdditionalTime(p, y) = TotalAdditionalTime(p, x)
<1> DEFINE S == ExtraGroups(p, x)
<1>1. IsFiniteSet(S)
  BY FS_Subset, ContestConstants DEF ExtraGroups
<1>2. \A g \in S : x[g] \in Int /\ y[g] = x[g]
  BY DEF ExtraGroups
<1>3. ExtraGroups(p, y) = S
  BY DEF ExtraGroups
<1>4. TotalAdditionalTime(p, x) = SumOver(x, S) /\ TotalAdditionalTime(p, y) = SumOver(y, S)
  BY <1>3 DEF TotalAdditionalTime, SumOver
<1> HIDE DEF S
<1>5. SumOver(x, S) \in Int /\ SumOver(y, S) = SumOver(x, S)
  BY <1>1, <1>2, SumFacts
<1> QED
  BY <1>3, <1>4, <1>5 DEF S

-----------------------------------------------------------------------------
(* The chain of an attempt.                                                *)

\* The recursive function behind ChainOf, for the attempts s of a participant.
IsChains(c, s) ==
  c = [j \in 0..Len(s) |-> IF j = 0 THEN {} ELSE {j} \cup c[s[j].parent]]
Chain(s, i) == (CHOOSE c : IsChains(c, s))[i]

\* Attempts are created under the ones that are there.
Parented(s) == \A j \in 1..Len(s) : s[j].parent \in 0..(j - 1)

\* ChainOf is Chain.
LEMMA ChainOfIsChain == \A p, i : ChainOf(p, i) = Chain(attempts[p], i)
BY DEF ChainOf, Chain, IsChains

\* The equation of the chain of j.
ChainAt(c, s, j) == c[j] = IF j = 0 THEN {} ELSE {j} \cup c[s[j].parent]

\* Every list of attempts has its chains.
LEMMA ChainsExist ==
  ASSUME NEW s, Len(s) \in Nat, Parented(s)
  PROVE  \E c : IsChains(c, s)
<1> DEFINE Known == {n \in Nat : n <= Len(s) => \E c : \A j \in 0..n : ChainAt(c, s, j)}
<1>1. 0 \in Known
  <2> DEFINE c == [j \in 0..0 |-> {}]
  <2>1. \A j \in 0..0 : ChainAt(c, s, j)
    BY DEF ChainAt
  <2> QED
    BY <2>1
<1>2. ASSUME NEW n \in Nat, n \in Known PROVE n + 1 \in Known
  <2> SUFFICES ASSUME n + 1 <= Len(s)
               PROVE  \E c : \A j \in 0..(n + 1) : ChainAt(c, s, j)
    OBVIOUS
  <2>1. PICK c : \A j \in 0..n : ChainAt(c, s, j)
    BY <1>2
  <2> DEFINE d == [j \in 0..(n + 1) |-> IF j = n + 1 THEN {j} \cup c[s[j].parent] ELSE c[j]]
  <2>2. ASSUME NEW j \in 0..(n + 1) PROVE ChainAt(d, s, j)
    <3>1. j # 0 => s[j].parent \in 0..n
      BY DEF Parented
    <3>2. j # 0 => d[s[j].parent] = c[s[j].parent]
      BY <3>1
    <3>3. CASE j = n + 1
      <4>1. d[j] = {j} \cup c[s[j].parent] /\ j # 0
        BY <3>3
      <4> QED
        BY <3>2, <4>1 DEF ChainAt
    <3>4. CASE j # n + 1
      <4>1. d[j] = c[j] /\ j \in 0..n
        BY <3>4
      <4> HIDE DEF d
      <4>2. ChainAt(c, s, j)
        BY <2>1, <4>1
      <4> QED
        BY <3>2, <4>1, <4>2 DEF ChainAt
    <3> QED
      BY <3>3, <3>4
  <2> HIDE DEF d
  <2> QED
    BY <2>2
<1>3. Nat \subseteq Known
  <2> HIDE DEF Known
  <2> QED
    BY <1>1, <1>2, Induction
<1>4. PICK c : \A j \in 0..Len(s) : ChainAt(c, s, j)
  BY <1>3
<1> DEFINE d == [j \in 0..Len(s) |-> c[j]]
<1>5. \A j \in 0..Len(s) : j # 0 => s[j].parent \in 0..Len(s)
  BY DEF Parented
<1>6. d = [j \in 0..Len(s) |-> IF j = 0 THEN {} ELSE {j} \cup d[s[j].parent]]
  <2>1. \A j \in 0..Len(s) : d[j] = IF j = 0 THEN {} ELSE {j} \cup d[s[j].parent]
    BY <1>4, <1>5 DEF ChainAt
  <2> QED
    BY <2>1
<1> HIDE DEF d
<1> QED
  BY <1>6 DEF IsChains

\* The chain of an attempt: itself and the chain of its parent.
LEMMA ChainEquation ==
  ASSUME NEW s, Len(s) \in Nat, Parented(s)
  PROVE  /\ Chain(s, 0) = {}
         /\ \A j \in 1..Len(s) : Chain(s, j) = {j} \cup Chain(s, s[j].parent)
<1> DEFINE c == CHOOSE c : IsChains(c, s)
<1>1. IsChains(c, s)
  BY ChainsExist
<1>2. \A i : Chain(s, i) = c[i]
  BY DEF Chain
<1> HIDE DEF c
<1>3. \A j \in 0..Len(s) : ChainAt(c, s, j)
  BY <1>1 DEF IsChains, ChainAt
<1>4. c[0] = {}
  <2>1. ChainAt(c, s, 0)
    BY <1>3
  <2> QED
    BY <2>1, Zenon DEF ChainAt
<1>5. ASSUME NEW j \in 1..Len(s) PROVE c[j] = {j} \cup c[s[j].parent]
  <2>1. ChainAt(c, s, j) /\ j # 0
    BY <1>3
  <2> QED
    BY <2>1, Zenon DEF ChainAt
<1> QED
  BY <1>2, <1>4, <1>5, Zenon

\* A chain goes from the attempt down to earlier ones, and holds their chains.
LEMMA ChainFacts ==
  ASSUME NEW s, Len(s) \in Nat, Parented(s), NEW j \in 1..Len(s)
  PROVE  /\ j \in Chain(s, j) /\ Chain(s, j) \subseteq 1..j
         /\ \A k \in Chain(s, j) : Chain(s, k) \subseteq Chain(s, j)
<1> DEFINE Known == {n \in Nat : \A i \in 0..Len(s) : i <= n =>
                       /\ Chain(s, i) \subseteq 1..i
                       /\ \A k \in Chain(s, i) : Chain(s, k) \subseteq Chain(s, i)}
<1>1. 0 \in Known
  <2>1. \A i \in 0..Len(s) : i <= 0 => i = 0
    OBVIOUS
  <2>2. \A i : i = 0 => Chain(s, i) = {}
    BY ChainEquation, Zenon
  <2> QED
    BY <2>1, <2>2
<1>2. ASSUME NEW n \in Nat, n \in Known PROVE n + 1 \in Known
  <2> SUFFICES ASSUME NEW i \in 0..Len(s), i <= n + 1
               PROVE  /\ Chain(s, i) \subseteq 1..i
                      /\ \A k \in Chain(s, i) : Chain(s, k) \subseteq Chain(s, i)
    OBVIOUS
  <2>1. CASE i <= n
    BY <1>2, <2>1
  <2>2. CASE ~(i <= n)
    <3>1. i \in 1..Len(s) /\ s[i].parent \in 0..(i - 1) /\ s[i].parent <= n /\ s[i].parent \in 0..Len(s)
      BY <2>2 DEF Parented
    <3>2. Chain(s, i) = {i} \cup Chain(s, s[i].parent)
      BY <3>1, ChainEquation
    <3>3. /\ Chain(s, s[i].parent) \subseteq 1..s[i].parent
          /\ \A k \in Chain(s, s[i].parent) : Chain(s, k) \subseteq Chain(s, s[i].parent)
      BY <1>2, <3>1
    <3>4. 1..s[i].parent \subseteq 1..i /\ i \in 1..i
      BY <3>1
    <3> QED
      BY <3>2, <3>3, <3>4
  <2> QED
    BY <2>1, <2>2
<1>3. Nat \subseteq Known
  <2> HIDE DEF Known
  <2> QED
    BY <1>1, <1>2, Induction
<1>4. /\ Chain(s, j) \subseteq 1..j
      /\ \A k \in Chain(s, j) : Chain(s, k) \subseteq Chain(s, j)
  BY <1>3
<1> QED
  BY <1>4, ChainEquation

\* The parents alone decide.
LEMMA ChainSame ==
  ASSUME NEW s, NEW t, Len(s) \in Nat, Len(t) \in Nat, Parented(s), Parented(t),
         NEW m \in Nat, m <= Len(s), m <= Len(t),
         \A j \in 1..m : t[j].parent = s[j].parent
  PROVE  \A j \in 0..m : Chain(t, j) = Chain(s, j)
<1> DEFINE Known == {n \in Nat : \A i \in 0..m : i <= n => Chain(t, i) = Chain(s, i)}
<1>1. 0 \in Known
  <2>1. \A i \in 0..m : i <= 0 => i = 0
    OBVIOUS
  <2>2. \A i : i = 0 => Chain(t, i) = {} /\ Chain(s, i) = {}
    BY ChainEquation, Zenon
  <2> QED
    BY <2>1, <2>2
<1>2. ASSUME NEW n \in Nat, n \in Known PROVE n + 1 \in Known
  <2> SUFFICES ASSUME NEW i \in 0..m, i <= n + 1 PROVE Chain(t, i) = Chain(s, i)
    OBVIOUS
  <2>1. CASE i <= n
    BY <1>2, <2>1
  <2>2. CASE ~(i <= n)
    <3>1. i \in 1..m /\ i \in 1..Len(s) /\ i \in 1..Len(t)
      BY <2>2
    <3>2. s[i].parent \in 0..(i - 1) /\ t[i].parent = s[i].parent
      BY <3>1 DEF Parented
    <3>3. s[i].parent \in 0..m /\ s[i].parent <= n
      BY <3>1, <3>2
    <3>4. Chain(t, s[i].parent) = Chain(s, s[i].parent)
      BY <1>2, <3>3
    <3>5. Chain(s, i) = {i} \cup Chain(s, s[i].parent) /\ Chain(t, i) = {i} \cup Chain(t, t[i].parent)
      BY <3>1, ChainEquation
    <3> QED
      BY <3>2, <3>4, <3>5
  <2> QED
    BY <2>1, <2>2
<1>3. Nat \subseteq Known
  <2> HIDE DEF Known
  <2> QED
    BY <1>1, <1>2, Induction
<1> QED
  BY <1>3

-----------------------------------------------------------------------------
(* The inductive invariant, for the attempts s of a participant, the       *)
(* expiry e of its membership, its additional time and the instant t.      *)

AttemptRows ==
  [item : {"contest", "task"}, parent : Nat, started : Nat, until : Int, ended : Nat \cup {NULL}]

Active(a, t) == a.ended = NULL /\ t < a.until
Contests(s) == {i \in 1..Len(s) : s[i].item = "contest"}
LatestOf(s) == Max(Contests(s))
Unended(s) == {i \in Contests(s) : s[i].ended = NULL}
EarlierEnded(s) == \A i \in Unended(s) : i = LatestOf(s)

AttemptsOK(s) ==
  /\ s \in Seq(AttemptRows)
  /\ Parented(s)
  /\ \A i \in Contests(s) : s[i].parent = 0

\* Only the latest participation may be under way.
EarlierOver(s, t) == \A i, j \in Contests(s) : i < j => s[i].until <= t

\* The one under way has the time of the contest.
Timed(s, additional, t) ==
  EarlierEnded(s) =>
    \A i \in Contests(s) : Active(s[i], t) => s[i].until = s[i].started + Duration + additional

\* The membership and the latest participation end together, or both are over.
Together(s, e, t) ==
  /\ e = NULL <=> Contests(s) = {}
  /\ EarlierEnded(s) /\ Contests(s) # {} =>
       \/ s[LatestOf(s)].ended = NULL /\ s[LatestOf(s)].until = e
       \/ e <= t /\ s[LatestOf(s)].until <= t

\* What is under an ended attempt is ended and over.
ClosedBelow(s, t) ==
  EarlierEnded(s) =>
    \A j \in 1..Len(s) : \A i \in Chain(s, j) :
      s[i].ended # NULL => s[j].ended # NULL /\ s[j].until <= t

ParticipantInv(s, e, additional, t) ==
  /\ AttemptsOK(s)
  /\ e \in Int \cup {NULL}
  /\ EarlierOver(s, t)
  /\ Timed(s, additional, t)
  /\ Together(s, e, t)
  /\ ClosedBelow(s, t)

ContestInv ==
  /\ now \in Nat
  /\ attempts \in [Participants -> Seq(AttemptRows)]
  /\ expires \in [Participants -> Int \cup {NULL}]
  /\ extra \in [Groups -> Extras \cup {NoExtra}]
  /\ \A p \in Participants :
       ParticipantInv(attempts[p], expires[p], TotalAdditionalTime(p, extra), now)

-----------------------------------------------------------------------------
(* The latest participation, and the first start.                          *)

\* The latest participation is one, and none is after it.
LEMMA LatestFacts ==
  ASSUME NEW s, Len(s) \in Nat, Contests(s) # {}
  PROVE  LatestOf(s) \in Contests(s) /\ \A i \in Contests(s) : i <= LatestOf(s)
<1> DEFINE Known == {n \in Nat : \A C \in SUBSET (1..n) : C # {} => \E i \in C : \A j \in C : i >= j}
<1>1. 0 \in Known
  <2>1. 1..0 = {}
    OBVIOUS
  <2>2. \A C \in SUBSET (1..0) : C # {} => FALSE
    BY <2>1, Zenon
  <2> QED
    BY <2>2
<1>2. ASSUME NEW n \in Nat, n \in Known PROVE n + 1 \in Known
  <2> SUFFICES ASSUME NEW C \in SUBSET (1..(n + 1)), C # {}
               PROVE  \E i \in C : \A j \in C : i >= j
    OBVIOUS
  <2>1. CASE n + 1 \in C
    BY <2>1
  <2>2. CASE n + 1 \notin C
    <3>1. C \in SUBSET (1..n)
      BY <2>2
    <3> QED
      BY <1>2, <3>1
  <2> QED
    BY <2>1, <2>2
<1>3. Nat \subseteq Known
  <2> HIDE DEF Known
  <2> QED
    BY <1>1, <1>2, Induction
<1>4. \E i \in Contests(s) : \A j \in Contests(s) : i >= j
  <2>1. \A C \in SUBSET (1..Len(s)) : C # {} => \E i \in C : \A j \in C : i >= j
    BY <1>3
  <2>2. Contests(s) \in SUBSET (1..Len(s))
    BY DEF Contests
  <2> QED
    BY <2>1, <2>2
<1>5. LatestOf(s) \in Contests(s) /\ \A j \in Contests(s) : LatestOf(s) >= j
  BY <1>4 DEF LatestOf, Max
<1> QED
  BY <1>5 DEF Contests

\* Two lists of attempts with the same participations.
LEMMA SameContests ==
  ASSUME NEW s, NEW t, Len(t) = Len(s), \A j \in 1..Len(s) : t[j].item = s[j].item
  PROVE  Contests(t) = Contests(s) /\ LatestOf(t) = LatestOf(s)
BY DEF Contests, LatestOf

\* The participations of a list that grew.
LEMMA AppendedAttempt ==
  ASSUME NEW s \in Seq(AttemptRows), NEW a \in AttemptRows
  PROVE  /\ Append(s, a) \in Seq(AttemptRows)
         /\ Len(s) \in Nat /\ Len(Append(s, a)) = Len(s) + 1
         /\ \A j \in 1..Len(s) : Append(s, a)[j] = s[j] /\ s[j] \in AttemptRows
         /\ Append(s, a)[Len(s) + 1] = a
         /\ Contests(Append(s, a)) =
              IF a.item = "contest" THEN Contests(s) \cup {Len(s) + 1} ELSE Contests(s)
<1>1. /\ Append(s, a) \in Seq(AttemptRows)
      /\ Len(s) \in Nat /\ Len(Append(s, a)) = Len(s) + 1
      /\ \A j \in 1..Len(s) : Append(s, a)[j] = s[j] /\ s[j] \in AttemptRows
      /\ Append(s, a)[Len(s) + 1] = a
  OBVIOUS
<1> DEFINE t == Append(s, a)
<1> HIDE DEF t
<1>2. /\ Len(s) \in Nat /\ Len(t) = Len(s) + 1
      /\ \A j \in 1..Len(s) : t[j] = s[j]
      /\ t[Len(s) + 1] = a
  BY <1>1 DEF t
<1>3. Contests(t) = IF a.item = "contest" THEN Contests(s) \cup {Len(s) + 1} ELSE Contests(s)
  <2>1. 1..Len(t) = (1..Len(s)) \cup {Len(s) + 1}
    BY <1>2
  <2>2. CASE a.item = "contest"
    BY <1>2, <2>1, <2>2 DEF Contests
  <2>3. CASE a.item # "contest"
    BY <1>2, <2>1, <2>3 DEF Contests
  <2> QED
    BY <2>2, <2>3
<1> QED
  BY <1>1, <1>3 DEF t

-----------------------------------------------------------------------------
(* What the services do to one participant.                                *)

\* A latest participation that is not ended, where an earlier one would break EarlierEnded.
LEMMA OnlyUnended ==
  ASSUME NEW s, Len(s) \in Nat, EarlierEnded(s), Unended(s) # {}
  PROVE  /\ Unended(s) = {LatestOf(s)} /\ Cardinality(Unended(s)) = 1
         /\ Contests(s) # {} /\ LatestOf(s) \in Contests(s) /\ s[LatestOf(s)].ended = NULL
<1>1. Unended(s) = {LatestOf(s)}
  BY DEF EarlierEnded
<1>2. LatestOf(s) \in Contests(s) /\ s[LatestOf(s)].ended = NULL
  BY <1>1 DEF Unended
<1> QED
  BY <1>1, <1>2, FS_Singleton

\* The type of the instants of a participation.
LEMMA RowTypes ==
  ASSUME NEW s, AttemptsOK(s)
  PROVE  /\ Len(s) \in Nat
         /\ \A j \in 1..Len(s) : s[j] \in AttemptRows /\ s[j].until \in Int /\ s[j].started \in Nat
         /\ \A i \in Contests(s) : i \in 1..Len(s)
<1>1. s \in Seq(AttemptRows)
  BY DEF AttemptsOK
<1>2. Len(s) \in Nat /\ \A j \in 1..Len(s) : s[j] \in AttemptRows
  BY <1>1
<1>3. \A a \in AttemptRows : a.until \in Int /\ a.started \in Nat
  BY DEF AttemptRows
<1> QED
  BY <1>2, <1>3 DEF Contests

\* Time passes.
LEMMA TickKeeps ==
  ASSUME NEW s, NEW e, NEW additional, NEW t \in Nat, ParticipantInv(s, e, additional, t)
  PROVE  ParticipantInv(s, e, additional, t + 1)
<1>1. AttemptsOK(s) /\ e \in Int \cup {NULL}
  BY DEF ParticipantInv
<1>2. Len(s) \in Nat /\ \A j \in 1..Len(s) : s[j].until \in Int
  BY <1>1, RowTypes
<1>3. \A i \in Contests(s) : i \in 1..Len(s)
  BY <1>1, RowTypes
<1>4. EarlierOver(s, t + 1)
  <2>1. EarlierOver(s, t)
    BY DEF ParticipantInv
  <2> QED
    BY <1>2, <1>3, <2>1 DEF EarlierOver
<1>5. Timed(s, additional, t + 1)
  <2>1. Timed(s, additional, t)
    BY DEF ParticipantInv
  <2> QED
    BY <1>2, <1>3, <2>1 DEF Timed, Active
<1>6. Together(s, e, t + 1)
  <2>1. Together(s, e, t)
    BY DEF ParticipantInv
  <2>2. Contests(s) # {} => e \in Int /\ s[LatestOf(s)].until \in Int
    BY <1>1, <1>2, <1>3, <2>1, LatestFacts DEF Together
  <2> QED
    BY <2>1, <2>2 DEF Together
<1>7. ClosedBelow(s, t + 1)
  <2>1. ClosedBelow(s, t)
    BY DEF ParticipantInv
  <2> QED
    BY <1>2, <2>1 DEF ClosedBelow
<1> QED
  BY <1>1, <1>4, <1>5, <1>6, <1>7 DEF ParticipantInv

\* The chain of a participation is itself.
LEMMA ContestChain ==
  ASSUME NEW s, AttemptsOK(s), NEW j \in Contests(s)
  PROVE  Chain(s, j) = {j}
<1>1. Len(s) \in Nat /\ j \in 1..Len(s)
  BY RowTypes
<1>2. Parented(s) /\ s[j].parent = 0
  BY DEF AttemptsOK
<1>3. Chain(s, j) = {j} \cup Chain(s, s[j].parent) /\ Chain(s, 0) = {}
  BY <1>1, <1>2, ChainEquation
<1> QED
  BY <1>2, <1>3

\* The chains of a list that grew.
LEMMA AppendedChains ==
  ASSUME NEW s, AttemptsOK(s), NEW a \in AttemptRows, a.parent \in 0..Len(s)
  PROVE  /\ Parented(Append(s, a))
         /\ \A j \in 0..Len(s) : Chain(Append(s, a), j) = Chain(s, j)
         /\ Chain(Append(s, a), Len(s) + 1) = {Len(s) + 1} \cup Chain(s, a.parent)
<1> DEFINE n == Append(s, a)
<1>1. s \in Seq(AttemptRows) /\ Parented(s)
  BY DEF AttemptsOK
<1>2. /\ Len(s) \in Nat /\ Len(n) = Len(s) + 1
      /\ \A j \in 1..Len(s) : n[j] = s[j]
      /\ n[Len(s) + 1] = a
  BY <1>1, AppendedAttempt
<1> HIDE DEF n
<1>3. Parented(n)
  BY <1>1, <1>2 DEF Parented
<1>4. \A j \in 0..Len(s) : Chain(n, j) = Chain(s, j)
  <2>1. Len(n) \in Nat /\ Len(s) <= Len(n) /\ Len(s) <= Len(s)
    BY <1>2
  <2>2. \A j \in 1..Len(s) : n[j].parent = s[j].parent
    BY <1>2
  <2> QED
    BY <1>1, <1>2, <1>3, <2>1, <2>2, ChainSame
<1>5. Chain(n, Len(s) + 1) = {Len(s) + 1} \cup Chain(n, n[Len(s) + 1].parent)
  BY <1>2, <1>3, ChainEquation
<1> QED
  BY <1>2, <1>3, <1>4, <1>5 DEF n

\* enter, by a participant none of whose participations has time left.
LEMMA EnterKeeps ==
  ASSUME NEW s, NEW e, NEW additional \in Int, NEW t \in Nat, ParticipantInv(s, e, additional, t),
         \A i \in Contests(s) : ~(t < s[i].until),
         NEW a \in AttemptRows, a.item = "contest", a.parent = 0, a.started = t, a.ended = NULL,
         a.until = t + Duration + additional
  PROVE  ParticipantInv(Append(s, a), a.until, additional, t)
<1> DEFINE n == Append(s, a)
           L == Len(s) + 1
<1>1. AttemptsOK(s) /\ s \in Seq(AttemptRows)
  BY DEF ParticipantInv, AttemptsOK
<1>2. /\ n \in Seq(AttemptRows)
      /\ Len(s) \in Nat /\ Len(n) = Len(s) + 1
      /\ \A j \in 1..Len(s) : n[j] = s[j] /\ s[j].until \in Int
      /\ n[L] = a
      /\ Contests(n) = Contests(s) \cup {L}
  BY <1>1, AppendedAttempt, RowTypes
<1>3. /\ Parented(n)
      /\ \A j \in 0..Len(s) : Chain(n, j) = Chain(s, j)
      /\ Chain(n, L) = {L}
  <2>1. a.parent \in 0..Len(s) /\ Parented(s)
    BY <1>1, <1>2 DEF AttemptsOK
  <2>2. Chain(s, a.parent) = {}
    BY <1>2, <2>1, ChainEquation
  <2> QED
    BY <1>1, <2>1, <2>2, AppendedChains
<1>4. a.until \in Int /\ L \in Nat /\ L \notin 1..Len(s)
  BY <1>2, ContestConstants
<1> HIDE DEF n
<1>5. \A i \in Contests(s) : i \in 1..Len(s) /\ i < L
  BY <1>2 DEF Contests
<1>6. LatestOf(n) = L
  <2>1. LatestOf(n) \in Contests(n) /\ \A i \in Contests(n) : i <= LatestOf(n)
    <3>1. Len(n) \in Nat /\ Contests(n) # {}
      BY <1>2
    <3> QED
      BY <3>1, LatestFacts
  <2>2. LatestOf(n) >= L /\ (LatestOf(n) = L \/ LatestOf(n) < L)
    BY <1>2, <1>5, <2>1
  <2> QED
    BY <1>2, <1>5, <2>1, <2>2
<1>7. AttemptsOK(n)
  <2>1. \A i \in Contests(s) : s[i].parent = 0
    BY <1>1 DEF AttemptsOK
  <2> QED
    BY <1>2, <1>3, <1>5, <2>1 DEF AttemptsOK
<1>8. EarlierOver(n, t)
  <2> SUFFICES ASSUME NEW i \in Contests(n), NEW j \in Contests(n), i < j PROVE n[i].until <= t
    BY DEF EarlierOver
  <2>1. i \in Contests(s)
    BY <1>2, <1>5
  <2> QED
    BY <1>2, <1>5, <2>1
<1>9. \A i \in Contests(s) : n[i].until <= t
  BY <1>2, <1>5
<1>10. Timed(n, additional, t)
  <2> SUFFICES ASSUME NEW i \in Contests(n), Active(n[i], t)
               PROVE  n[i].until = n[i].started + Duration + additional
    BY DEF Timed
  <2>1. i = L
    <3>1. t < n[i].until
      BY DEF Active
    <3>2. i \in Contests(s) => FALSE
      BY <1>2, <1>5, <1>9, <3>1
    <3> QED
      BY <1>2, <3>2
  <2> QED
    BY <1>2, <2>1
<1>11. Together(n, a.until, t)
  BY <1>2, <1>4, <1>6, ContestConstants DEF Together
<1>12. ClosedBelow(n, t)
  <2> SUFFICES ASSUME EarlierEnded(n), NEW j \in 1..Len(n), NEW i \in Chain(n, j), n[i].ended # NULL
               PROVE  n[j].ended # NULL /\ n[j].until <= t
    BY DEF ClosedBelow
  <2>1. CASE j = L
    BY <1>2, <1>3, <2>1
  <2>2. CASE j # L
    <3>1. j \in 1..Len(s) /\ i \in Chain(s, j)
      BY <1>2, <1>3, <2>2
    <3>2. i \in 1..Len(s)
      BY <1>1, <1>2, <3>1, ChainFacts DEF AttemptsOK
    <3>3. EarlierEnded(s)
      \* All the earlier participations are ended, the new one being the latest.
      <4>1. \A k \in Unended(s) : k \in Unended(n)
        BY <1>2, <1>5 DEF Unended
      <4>2. \A k \in Unended(s) : k \in Contests(s)
        BY DEF Unended
      <4> QED
        BY <1>5, <1>6, <4>1, <4>2 DEF EarlierEnded
    <3>4. ClosedBelow(s, t)
      BY DEF ParticipantInv
    <3>5. s[i].ended # NULL
      BY <1>2, <3>2
    <3>6. s[j].ended # NULL /\ s[j].until <= t
      BY <3>1, <3>3, <3>4, <3>5 DEF ClosedBelow
    <3> QED
      BY <1>2, <3>1, <3>6
  <2> QED
    BY <2>1, <2>2
<1> QED
  BY <1>4, <1>7, <1>8, <1>10, <1>11, <1>12 DEF ParticipantInv, n

\* createAttempt, under an attempt whose chain is active.
LEMMA CreateKeeps ==
  ASSUME NEW s, NEW e, NEW additional \in Int, NEW t \in Nat, ParticipantInv(s, e, additional, t),
         NEW a \in AttemptRows, a.item = "task", a.parent \in 1..Len(s), a.ended = NULL,
         \A i \in Chain(s, a.parent) : s[i].ended = NULL
  PROVE  ParticipantInv(Append(s, a), e, additional, t)
<1> DEFINE n == Append(s, a)
           L == Len(s) + 1
<1>1. AttemptsOK(s) /\ s \in Seq(AttemptRows)
  BY DEF ParticipantInv, AttemptsOK
<1>2. /\ n \in Seq(AttemptRows)
      /\ Len(s) \in Nat /\ Len(n) = Len(s) + 1
      /\ \A j \in 1..Len(s) : n[j] = s[j]
      /\ n[L] = a
      /\ Contests(n) = Contests(s)
  <2>1. a.item # "contest"
    OBVIOUS
  <2> QED
    BY <1>1, <2>1, AppendedAttempt
<1>3. /\ Parented(n)
      /\ \A j \in 0..Len(s) : Chain(n, j) = Chain(s, j)
      /\ Chain(n, L) = {L} \cup Chain(s, a.parent)
  <2>1. a.parent \in 0..Len(s)
    BY <1>2
  <2> QED
    BY <1>1, <2>1, AppendedChains
<1> HIDE DEF n
<1>4. \A i \in Contests(s) : i \in 1..Len(s) /\ n[i] = s[i]
  BY <1>2 DEF Contests
<1>5. LatestOf(n) = LatestOf(s) /\ Unended(n) = Unended(s)
  BY <1>2, <1>4 DEF LatestOf, Unended
<1>6. EarlierEnded(n) <=> EarlierEnded(s)
  BY <1>5 DEF EarlierEnded
<1>7. AttemptsOK(n) /\ EarlierOver(n, t)
  <2>1. EarlierOver(s, t)
    BY DEF ParticipantInv
  <2> QED
    BY <1>1, <1>2, <1>3, <1>4, <2>1 DEF AttemptsOK, EarlierOver
<1>8. Timed(n, additional, t)
  <2>1. Timed(s, additional, t)
    BY DEF ParticipantInv
  <2> QED
    BY <1>2, <1>4, <1>6, <2>1 DEF Timed
<1>9. Together(n, e, t)
  <2>1. Together(s, e, t)
    BY DEF ParticipantInv
  <2>2. Contests(s) # {} => n[LatestOf(s)] = s[LatestOf(s)]
    BY <1>2, <1>4, LatestFacts
  <2> QED
    BY <1>2, <1>5, <1>6, <2>1, <2>2 DEF Together
<1>10. ClosedBelow(n, t)
  <2> SUFFICES ASSUME EarlierEnded(n), NEW j \in 1..Len(n), NEW i \in Chain(n, j), n[i].ended # NULL
               PROVE  n[j].ended # NULL /\ n[j].until <= t
    BY DEF ClosedBelow
  <2>1. CASE j = L
    <3>1. i = L \/ i \in Chain(s, a.parent)
      BY <1>3, <2>1
    <3>2. i # L
      BY <1>2
    <3>3. i \in Chain(s, a.parent) /\ i \in 1..Len(s)
      BY <1>1, <1>2, <3>1, <3>2, ChainFacts DEF AttemptsOK
    <3> QED
      BY <1>2, <3>3
  <2>2. CASE j # L
    <3>1. j \in 1..Len(s) /\ i \in Chain(s, j)
      BY <1>2, <1>3, <2>2
    <3>2. i \in 1..Len(s)
      BY <1>1, <1>2, <3>1, ChainFacts DEF AttemptsOK
    <3>3. ClosedBelow(s, t) /\ EarlierEnded(s)
      BY <1>6 DEF ParticipantInv
    <3>4. s[i].ended # NULL
      BY <1>2, <3>2
    <3>5. s[j].ended # NULL /\ s[j].until <= t
      BY <3>1, <3>3, <3>4 DEF ClosedBelow
    <3> QED
      BY <1>2, <3>1, <3>5
  <2> QED
    BY <2>1, <2>2
<1>11. e \in Int \cup {NULL}
  BY DEF ParticipantInv
<1> QED
  BY <1>7, <1>8, <1>9, <1>10, <1>11 DEF ParticipantInv, n

\* A list of attempts in which rows changed, but neither their kind nor their parents.
LEMMA SameTree ==
  ASSUME NEW s, AttemptsOK(s), NEW n \in Seq(AttemptRows), Len(n) = Len(s),
         \A j \in 1..Len(s) : n[j].item = s[j].item /\ n[j].parent = s[j].parent
  PROVE  /\ AttemptsOK(n)
         /\ Contests(n) = Contests(s) /\ LatestOf(n) = LatestOf(s)
         /\ \A j \in 1..Len(s) : Chain(n, j) = Chain(s, j)
<1>1. Len(s) \in Nat /\ Parented(s) /\ \A i \in Contests(s) : i \in 1..Len(s) /\ s[i].parent = 0
  BY RowTypes DEF AttemptsOK
<1>2. Contests(n) = Contests(s) /\ LatestOf(n) = LatestOf(s)
  BY SameContests
<1>3. Parented(n)
  BY <1>1 DEF Parented
<1>4. AttemptsOK(n)
  BY <1>1, <1>2, <1>3 DEF AttemptsOK
<1>5. \A j \in 0..Len(s) : Chain(n, j) = Chain(s, j)
  <2>1. Len(n) \in Nat /\ Len(s) <= Len(s) /\ Len(s) <= Len(n)
    BY <1>1
  <2> QED
    BY <1>1, <1>3, <2>1, ChainSame
<1> QED
  BY <1>2, <1>4, <1>5

\* A participation that has time left is the latest.
LEMMA LatestHasTime ==
  ASSUME NEW s, AttemptsOK(s), NEW t \in Nat, EarlierOver(s, t), NEW i \in Contests(s), t < s[i].until
  PROVE  i = LatestOf(s)
<1>1. Len(s) \in Nat /\ i \in 1..Len(s) /\ s[i].until \in Int
  BY RowTypes
<1>2. LatestOf(s) \in Contests(s) /\ i <= LatestOf(s) /\ LatestOf(s) \in 1..Len(s)
  BY <1>1, LatestFacts, RowTypes
<1>3. i < LatestOf(s) => s[i].until <= t
  BY <1>2 DEF EarlierOver
<1> QED
  BY <1>1, <1>2, <1>3

\* endAttempt: the attempts whose chain holds i are ended, and the membership with them if
\* one of them is a participation.
LEMMA EndKeeps ==
  ASSUME NEW s, NEW e, NEW additional \in Int, NEW t \in Nat, ParticipantInv(s, e, additional, t),
         NEW i \in 1..Len(s), Active(s[i], t),
         NEW n \in Seq(AttemptRows), Len(n) = Len(s),
         \A j \in 1..Len(s) :
           /\ n[j].item = s[j].item /\ n[j].parent = s[j].parent /\ n[j].started = s[j].started
           /\ i \notin Chain(s, j) => n[j] = s[j]
           /\ i \in Chain(s, j) => n[j].ended # NULL /\ n[j].until <= t /\ n[j].until <= s[j].until,
         NEW f, \A j \in Contests(s) : i \in Chain(s, j) /\ e \in Int => f \in Int /\ f <= t /\ f <= e,
         (\A j \in Contests(s) : i \notin Chain(s, j)) => f = e
  PROVE  ParticipantInv(n, f, additional, t)
<1>1. AttemptsOK(s) /\ Len(s) \in Nat /\ e \in Int \cup {NULL}
  BY RowTypes DEF ParticipantInv
<1>2. \A j \in Contests(s) : j \in 1..Len(s) /\ Chain(s, j) = {j}
  BY <1>1, ContestChain, RowTypes
<1>3. /\ AttemptsOK(n)
      /\ Contests(n) = Contests(s) /\ LatestOf(n) = LatestOf(s)
      /\ \A j \in 1..Len(s) : Chain(n, j) = Chain(s, j)
  BY <1>1, SameTree
<1>4. \A j \in 1..Len(s) : n[j] \in AttemptRows /\ n[j].until \in Int /\ s[j].until \in Int
  BY <1>1, <1>3, RowTypes
\* A participation that is ended here is the latest.
<1>5. \A j \in Contests(s) : j # i => n[j] = s[j]
  BY <1>2
<1>6. i \in Contests(s) => i = LatestOf(s)
  <2>1. EarlierOver(s, t) /\ t < s[i].until
    BY DEF ParticipantInv, Active
  <2> QED
    BY <1>1, <2>1, LatestHasTime
<1>7. EarlierEnded(n) => EarlierEnded(s)
  <2> SUFFICES ASSUME EarlierEnded(n), NEW j \in Unended(s) PROVE j = LatestOf(s)
    BY DEF EarlierEnded
  <2>1. j \in Contests(s) /\ s[j].ended = NULL
    BY DEF Unended
  <2>2. CASE j = i
    BY <1>6, <2>1, <2>2
  <2>3. CASE j # i
    <3>1. j \in Unended(n)
      BY <1>3, <1>5, <2>1, <2>3 DEF Unended
    <3> QED
      BY <1>3, <3>1 DEF EarlierEnded
  <2> QED
    BY <2>2, <2>3
<1>8. EarlierOver(n, t)
  <2>1. EarlierOver(s, t)
    BY DEF ParticipantInv
  <2>2. \A j \in Contests(s) : n[j].until <= s[j].until
    <3>1. \A j \in 1..Len(s) : s[j].until <= s[j].until
      BY <1>4
    <3> QED
      BY <1>2, <3>1
  <2> QED
    BY <1>2, <1>4, <1>3, <2>1, <2>2 DEF EarlierOver
<1>9. Timed(n, additional, t)
  <2>1. Timed(s, additional, t)
    BY DEF ParticipantInv
  <2>2. ASSUME NEW j \in Contests(s), Active(n[j], t) PROVE n[j] = s[j]
    <3>1. n[j].ended = NULL
      BY <2>2 DEF Active
    <3> QED
      BY <1>2, <3>1
  <2> QED
    BY <1>3, <1>7, <2>1, <2>2 DEF Timed
<1>10. Together(n, f, t)
  <2>1. Together(s, e, t)
    BY DEF ParticipantInv
  <2>2. CASE i \in Contests(s)
    <3>1. e \in Int
      BY <1>1, <2>1, <2>2 DEF Together
    <3>2. f \in Int /\ f <= t
      BY <1>2, <2>2, <3>1
    <3>3. n[LatestOf(s)].until <= t
      BY <1>2, <1>6, <2>2
    <3> QED
      BY <1>3, <2>2, <3>2, <3>3, ContestConstants DEF Together
  <2>3. CASE i \notin Contests(s)
    <3>1. f = e /\ \A j \in Contests(s) : n[j] = s[j]
      BY <1>2, <1>5, <2>3
    <3>2. Contests(s) # {} => n[LatestOf(s)] = s[LatestOf(s)]
      BY <1>1, <3>1, LatestFacts
    <3> QED
      BY <1>3, <1>7, <2>1, <3>1, <3>2 DEF Together
  <2> QED
    BY <2>2, <2>3
<1>11. ClosedBelow(n, t)
  <2> SUFFICES ASSUME EarlierEnded(n), NEW j \in 1..Len(s), NEW k \in Chain(s, j), n[k].ended # NULL
               PROVE  n[j].ended # NULL /\ n[j].until <= t
    BY <1>3 DEF ClosedBelow
  <2>1. Parented(s)
    BY <1>1 DEF AttemptsOK
  <2>2. k \in 1..Len(s) /\ Chain(s, k) \subseteq Chain(s, j)
    BY <1>1, <2>1, ChainFacts
  <2>3. CASE i \in Chain(s, j)
    BY <2>3
  <2>4. CASE i \notin Chain(s, j)
    <3>1. n[k] = s[k] /\ n[j] = s[j]
      BY <2>2, <2>4
    <3>2. ClosedBelow(s, t) /\ EarlierEnded(s)
      BY <1>7 DEF ParticipantInv
    <3>3. s[k].ended # NULL
      BY <3>1
    <3>4. s[j].ended # NULL /\ s[j].until <= t
      BY <3>2, <3>3 DEF ClosedBelow
    <3> QED
      BY <3>1, <3>4
  <2> QED
    BY <2>3, <2>4
<1>12. f \in Int \cup {NULL}
  <2>1. CASE i \in Contests(s)
    <3>1. e \in Int
      BY <1>1, <2>1 DEF ParticipantInv, Together
    <3> QED
      BY <1>2, <2>1, <3>1
  <2>2. CASE i \notin Contests(s)
    BY <1>1, <1>2, <2>2
  <2> QED
    BY <2>1, <2>2
<1> QED
  BY <1>3, <1>8, <1>9, <1>10, <1>11, <1>12 DEF ParticipantInv

\* setAdditionalTime, for a participant without a row in new_expires_at.
LEMMA OthersKeep ==
  ASSUME NEW s, NEW e, NEW additional, NEW t, ParticipantInv(s, e, additional, t),
         NEW more, more = additional \/ e = NULL \/ Unended(s) = {}
  PROVE  ParticipantInv(s, e, more, t)
<1>1. Timed(s, additional, t) /\ Together(s, e, t)
  BY DEF ParticipantInv
<1>2. \A i \in Contests(s) : Active(s[i], t) => i \in Unended(s)
  BY DEF Active, Unended
<1>3. Timed(s, more, t)
  <2>1. CASE more = additional
    BY <1>1, <2>1
  <2>2. CASE e = NULL
    BY <1>1, <2>2 DEF Together, Timed
  <2>3. CASE Unended(s) = {}
    BY <1>2, <2>3 DEF Timed
  <2> QED
    BY <2>1, <2>2, <2>3
<1> QED
  BY <1>3 DEF ParticipantInv

\* setAdditionalTime, for a participant with one: d is its new_expires_at.
LEMMA ExtraKeeps ==
  ASSUME NEW s, NEW e, NEW additional, NEW t \in Nat, ParticipantInv(s, e, additional, t),
         e # NULL, Unended(s) # {},
         NEW more \in Int, NEW d \in Int,
         EarlierEnded(s) => d = s[LatestOf(s)].started + Duration + more,
         NEW n \in Seq(AttemptRows), Len(n) = Len(s),
         \A j \in 1..Len(s) :
           /\ n[j].item = s[j].item /\ n[j].parent = s[j].parent
           /\ n[j].started = s[j].started /\ n[j].ended = s[j].ended
           /\ j # LatestOf(s) => n[j] = s[j],
         n[LatestOf(s)].until = IF t < d \/ t < s[LatestOf(s)].until THEN d ELSE s[LatestOf(s)].until
  PROVE  ParticipantInv(n, d, more, t)
<1>1. AttemptsOK(s) /\ Len(s) \in Nat
  BY RowTypes DEF ParticipantInv
<1>2. Contests(s) # {} /\ \A j \in Contests(s) : j \in 1..Len(s)
  BY <1>1, RowTypes DEF Unended
<1>3. LatestOf(s) \in Contests(s) /\ \A j \in Contests(s) : j <= LatestOf(s)
  BY <1>1, <1>2, LatestFacts
<1>4. /\ AttemptsOK(n)
      /\ Contests(n) = Contests(s) /\ LatestOf(n) = LatestOf(s)
      /\ \A j \in 1..Len(s) : Chain(n, j) = Chain(s, j)
  BY <1>1, SameTree
<1>5. Unended(n) = Unended(s) /\ (EarlierEnded(n) <=> EarlierEnded(s))
  BY <1>2, <1>4 DEF Unended, EarlierEnded
<1>6. EarlierOver(n, t)
  <2> SUFFICES ASSUME NEW i \in Contests(s), NEW j \in Contests(s), i < j PROVE n[i].until <= t
    BY <1>4 DEF EarlierOver
  <2>1. i # LatestOf(s) /\ s[i].until <= t
    BY <1>2, <1>3 DEF ParticipantInv, EarlierOver
  <2> QED
    BY <1>2, <2>1
<1> DEFINE l == LatestOf(s)
<1>7. l \in 1..Len(s) /\ s[l].until \in Int /\ n[l].started = s[l].started /\ n[l].ended = s[l].ended
  BY <1>1, <1>2, <1>3, RowTypes
<1> HIDE DEF l
<1>8. \/ n[l].until = d
      \/ n[l].until = s[l].until /\ d <= t /\ s[l].until <= t
  <2>1. CASE t < d \/ t < s[l].until
    BY <2>1 DEF l
  <2>2. CASE ~(t < d \/ t < s[l].until)
    BY <1>7, <2>2 DEF l
  <2> QED
    BY <2>1, <2>2
<1>9. ASSUME EarlierEnded(s)
      PROVE  /\ Unended(s) = {l} /\ s[l].ended = NULL
             /\ d = s[l].started + Duration + more
  BY <1>1, <1>9, OnlyUnended DEF l
<1>10. Timed(n, more, t)
  <2> SUFFICES ASSUME EarlierEnded(s), NEW j \in Contests(s), Active(n[j], t)
               PROVE  n[j].until = n[j].started + Duration + more
    BY <1>4, <1>5 DEF Timed
  <2>1. j \in 1..Len(s) /\ n[j].ended = NULL /\ t < n[j].until
    BY <1>2 DEF Active
  <2>2. j = l
    <3>1. j \in Unended(s)
      BY <2>1 DEF Unended
    <3> QED
      BY <1>9, <3>1
  <2>3. n[l].until = d
    BY <1>7, <1>8, <2>1, <2>2
  <2> QED
    BY <1>7, <1>9, <2>2, <2>3
<1>11. Together(n, d, t)
  <2>1. d # NULL
    BY ContestConstants
  <2>2. EarlierEnded(s) => \/ n[l].ended = NULL /\ n[l].until = d
                           \/ d <= t /\ n[l].until <= t
    BY <1>7, <1>8, <1>9
  <2> QED
    BY <1>2, <1>4, <1>5, <2>1, <2>2 DEF Together, l
<1>12. ClosedBelow(n, t)
  <2> SUFFICES ASSUME EarlierEnded(s), NEW j \in 1..Len(s), NEW i \in Chain(s, j), n[i].ended # NULL
               PROVE  n[j].ended # NULL /\ n[j].until <= t
    BY <1>4, <1>5 DEF ClosedBelow
  <2>1. i \in 1..Len(s)
    BY <1>1, ChainFacts DEF AttemptsOK
  <2>2. s[j].ended # NULL /\ s[j].until <= t
    BY <2>1 DEF ParticipantInv, ClosedBelow
  <2>3. j # l
    BY <1>9, <2>2
  <2> QED
    BY <2>2, <2>3 DEF l
<1> QED
  BY <1>4, <1>6, <1>10, <1>11, <1>12 DEF ParticipantInv

-----------------------------------------------------------------------------
(* The actions.                                                            *)

\* The operators of the model, for the attempts of one participant.
LEMMA Translation ==
  ASSUME NEW p
  PROVE  /\ Participations(p) = Contests(attempts[p])
         /\ NotEnded(p) = Unended(attempts[p])
         /\ LatestAttempt(p) = LatestOf(attempts[p])
         /\ \A a : IsActive(a) <=> Active(a, now)
         /\ EarlierOnesAreEnded(p) <=> EarlierEnded(attempts[p])
BY DEF Participations, Contests, IdsOf, NotEnded, Unended, LatestAttempt, LatestOf, IsActive,
       Active, EarlierOnesAreEnded, EarlierEnded

\* One participant moves.
LEMMA OneMoves ==
  ASSUME ContestInv, UNCHANGED <<now, extra>>,
         NEW p \in Participants, NEW n \in Seq(AttemptRows), NEW e \in Int \cup {NULL},
         attempts' = [attempts EXCEPT ![p] = n], expires' = [expires EXCEPT ![p] = e],
         ParticipantInv(n, e, TotalAdditionalTime(p, extra), now)
  PROVE  ContestInv'
<1>1. /\ attempts' \in [Participants -> Seq(AttemptRows)]
      /\ expires' \in [Participants -> Int \cup {NULL}]
  BY DEF ContestInv
<1>2. ASSUME NEW q \in Participants
      PROVE  ParticipantInv(attempts'[q], expires'[q], TotalAdditionalTime(q, extra), now)
  <2>1. CASE q = p
    BY <2>1 DEF ContestInv
  <2>2. CASE q # p
    BY <2>2 DEF ContestInv
  <2> QED
    BY <2>1, <2>2
<1>3. \A q \in Participants :
        ParticipantInv(attempts'[q], expires'[q], TotalAdditionalTime(q, extra'), now')
  BY <1>2
<1> QED
  BY <1>1, <1>3 DEF ContestInv

\* What the invariant says of a participant.
LEMMA OfParticipant ==
  ASSUME ContestInv, NEW p \in Participants
  PROVE  /\ ParticipantInv(attempts[p], expires[p], TotalAdditionalTime(p, extra), now)
         /\ AttemptsOK(attempts[p]) /\ attempts[p] \in Seq(AttemptRows) /\ Len(attempts[p]) \in Nat
         /\ expires[p] \in Int \cup {NULL}
         /\ TotalAdditionalTime(p, extra) \in Int /\ now \in Nat
<1>1. ParticipantInv(attempts[p], expires[p], TotalAdditionalTime(p, extra), now)
  BY DEF ContestInv
<1>2. AttemptsOK(attempts[p]) /\ attempts[p] \in Seq(AttemptRows) /\ Len(attempts[p]) \in Nat
  BY <1>1, RowTypes DEF ParticipantInv, AttemptsOK
<1>3. extra \in [Groups -> Int \cup {NoExtra}]
  BY ContestConstants DEF ContestInv
<1>4. TotalAdditionalTime(p, extra) \in Int
  BY <1>3, TotalFacts
<1> QED
  BY <1>1, <1>2, <1>4 DEF ContestInv

\* enter.
LEMMA EnterStep ==
  ASSUME ContestInv, NEW p \in Participants, Enter(p)
  PROVE  ContestInv'
<1> DEFINE until == now + Duration + TotalAdditionalTime(p, extra)
           a == NewAttempt("contest", 0, until)
<1>1. /\ IsReady(p)
      /\ attempts' = [attempts EXCEPT ![p] = Append(attempts[p], a)]
      /\ expires' = [expires EXCEPT ![p] = until]
      /\ UNCHANGED <<now, extra>>
  BY DEF Enter
<1>2. until \in Int
  BY OfParticipant, ContestConstants
<1>3. /\ a \in AttemptRows /\ a.item = "contest" /\ a.parent = 0 /\ a.started = now
      /\ a.ended = NULL /\ a.until = until
  BY <1>2, OfParticipant DEF NewAttempt, AttemptRows
<1> HIDE DEF a
<1>4. \A i \in Contests(attempts[p]) : ~(now < attempts[p][i].until)
  BY <1>1, Translation DEF IsReady, IsStarted, MayStillSubmit
<1>5. ParticipantInv(Append(attempts[p], a), a.until, TotalAdditionalTime(p, extra), now)
  BY <1>3, <1>4, OfParticipant, EnterKeeps
<1>6. Append(attempts[p], a) \in Seq(AttemptRows)
  BY <1>3, OfParticipant
<1> QED
  BY <1>1, <1>2, <1>3, <1>5, <1>6, OneMoves

\* createAttempt.
LEMMA CreateAttemptStep ==
  ASSUME ContestInv, NEW p \in Participants, NEW parent \in IdsOf(p), CreateAttempt(p, parent)
  PROVE  ContestInv'
<1> DEFINE a == NewAttempt("task", parent, Forever)
<1>1. /\ \A i \in ChainOf(p, parent) : IsActive(attempts[p][i])
      /\ attempts' = [attempts EXCEPT ![p] = Append(attempts[p], a)]
      /\ UNCHANGED <<now, expires, extra>>
  BY DEF CreateAttempt
<1>2. parent \in 1..Len(attempts[p]) /\ parent \in Nat
  BY DEF IdsOf
<1>3. Forever \in Int
  BY ContestConstants DEF Forever
<1>4. a \in AttemptRows /\ a.item = "task" /\ a.parent = parent /\ a.ended = NULL
  BY <1>2, <1>3, OfParticipant DEF NewAttempt, AttemptRows
<1> HIDE DEF a
<1>5. \A i \in Chain(attempts[p], parent) : attempts[p][i].ended = NULL
  BY <1>1, ChainOfIsChain DEF IsActive
<1>6. ParticipantInv(Append(attempts[p], a), expires[p], TotalAdditionalTime(p, extra), now)
  BY <1>2, <1>4, <1>5, OfParticipant, CreateKeeps
<1>7. Append(attempts[p], a) \in Seq(AttemptRows)
  BY <1>4, OfParticipant
<1>8. expires' = [expires EXCEPT ![p] = expires[p]]
  BY <1>1 DEF ContestInv
<1> QED
  BY <1>1, <1>6, <1>7, <1>8, OfParticipant, OneMoves

\* What it is to end an attempt.
LEMMA EndedFacts ==
  ASSUME NEW a \in AttemptRows, now \in Nat
  PROVE  /\ Ended(a) \in AttemptRows
         /\ Ended(a).item = a.item /\ Ended(a).parent = a.parent /\ Ended(a).started = a.started
         /\ Ended(a).ended # NULL
         /\ Ended(a).until <= now /\ Ended(a).until <= a.until
<1> DEFINE ended == IF a.ended = NULL THEN now ELSE a.ended
           until == LeastOf(now, a.until)
<1>1. a.until \in Int /\ a.ended \in Nat \cup {NULL}
  BY DEF AttemptRows
<1>2. until \in Int /\ until <= now /\ until <= a.until
  BY <1>1 DEF LeastOf
<1>3. ended \in Nat /\ ended # NULL
  BY <1>1, ContestConstants
<1>4. Ended(a) = [a EXCEPT !.ended = ended, !.until = until]
  BY DEF Ended
<1> HIDE DEF ended, until
<1>5. /\ Ended(a) \in AttemptRows
      /\ Ended(a).item = a.item /\ Ended(a).parent = a.parent /\ Ended(a).started = a.started
      /\ Ended(a).ended = ended /\ Ended(a).until = until
  BY <1>2, <1>3, <1>4 DEF AttemptRows
<1> QED
  BY <1>2, <1>3, <1>5

\* endAttempt.
LEMMA EndAttemptStep ==
  ASSUME ContestInv, NEW p \in Participants, NEW i \in IdsOf(p), EndAttempt(p, i)
  PROVE  ContestInv'
<1> DEFINE s == attempts[p]
           toUpdate == DescendantAttempts(p, i)
           n == [j \in 1..Len(s) |-> IF i \in Chain(s, j) THEN Ended(s[j]) ELSE s[j]]
           f == IF toUpdate \cap Participations(p) = {} THEN expires[p] ELSE LeastOf(now, expires[p])
<1>1. /\ AttemptsOK(s) /\ s \in Seq(AttemptRows) /\ Len(s) \in Nat /\ i \in 1..Len(s)
      /\ ParticipantInv(s, expires[p], TotalAdditionalTime(p, extra), now)
      /\ TotalAdditionalTime(p, extra) \in Int /\ now \in Nat /\ expires[p] \in Int \cup {NULL}
  BY OfParticipant DEF IdsOf
<1>2. \A j \in 1..Len(s) : j \in toUpdate <=> i \in Chain(s, j)
  BY ChainOfIsChain DEF DescendantAttempts, IdsOf
<1>3. IsActive(s[i]) /\ UNCHANGED <<now, extra>>
  BY DEF EndAttempt
<1>4. attempts' = [attempts EXCEPT ![p] = n]
  <2>1. attempts' = [attempts EXCEPT ![p] =
              [j \in IdsOf(p) |-> IF j \in toUpdate THEN Ended(s[j]) ELSE s[j]]]
    BY DEF EndAttempt
  <2>2. [j \in IdsOf(p) |-> IF j \in toUpdate THEN Ended(s[j]) ELSE s[j]] = n
    BY <1>2 DEF IdsOf
  <2> QED
    BY <2>1, <2>2
<1>5. expires' = [expires EXCEPT ![p] = f]
  <2>1. expires \in [Participants -> Int \cup {NULL}]
    BY DEF ContestInv
  <2>2. expires' = IF toUpdate \cap Participations(p) = {} THEN expires
                   ELSE [expires EXCEPT ![p] = LeastOf(now, expires[p])]
    BY DEF EndAttempt
  <2>3. CASE toUpdate \cap Participations(p) = {}
    BY <2>1, <2>2, <2>3
  <2>4. CASE toUpdate \cap Participations(p) # {}
    BY <2>2, <2>4
  <2> QED
    BY <2>3, <2>4
<1>6. \A j \in 1..Len(s) : s[j] \in AttemptRows
  BY <1>1
<1>7. n \in Seq(AttemptRows) /\ Len(n) = Len(s)
  <2>1. \A j \in 1..Len(s) : (IF i \in Chain(s, j) THEN Ended(s[j]) ELSE s[j]) \in AttemptRows
    BY <1>1, <1>6, EndedFacts
  <2>2. n \in [1..Len(s) -> AttemptRows]
    BY <2>1
  <2> HIDE DEF n
  <2> QED
    BY <1>1, <2>2
<1>8. \A j \in 1..Len(s) :
        /\ n[j].item = s[j].item /\ n[j].parent = s[j].parent /\ n[j].started = s[j].started
        /\ i \notin Chain(s, j) => n[j] = s[j]
        /\ i \in Chain(s, j) => n[j].ended # NULL /\ n[j].until <= now /\ n[j].until <= s[j].until
  <2> SUFFICES ASSUME NEW j \in 1..Len(s)
               PROVE  /\ n[j].item = s[j].item /\ n[j].parent = s[j].parent /\ n[j].started = s[j].started
                      /\ i \notin Chain(s, j) => n[j] = s[j]
                      /\ i \in Chain(s, j) => /\ n[j].ended # NULL
                                              /\ n[j].until <= now /\ n[j].until <= s[j].until
    OBVIOUS
  <2>1. CASE i \in Chain(s, j)
    <3>1. n[j] = Ended(s[j])
      BY <2>1
    <3> HIDE DEF n
    <3> QED
      BY <1>1, <1>6, <2>1, <3>1, EndedFacts
  <2>2. CASE i \notin Chain(s, j)
    BY <2>2
  <2> QED
    BY <2>1, <2>2
<1>9. /\ \A j \in Contests(s) : j \in 1..Len(s)
      /\ Participations(p) = Contests(s)
      /\ Contests(s) # {} => expires[p] \in Int
  BY <1>1, RowTypes, Translation DEF ParticipantInv, Together
<1>10. /\ \A j \in Contests(s) : i \in Chain(s, j) /\ expires[p] \in Int =>
            f \in Int /\ f <= now /\ f <= expires[p]
       /\ (\A j \in Contests(s) : i \notin Chain(s, j)) => f = expires[p]
       /\ f \in Int \cup {NULL}
  <2>1. toUpdate \cap Participations(p) = {} <=> \A j \in Contests(s) : i \notin Chain(s, j)
    BY <1>2, <1>9
  <2> HIDE DEF toUpdate
  <2>2. CASE toUpdate \cap Participations(p) = {}
    BY <1>1, <2>1, <2>2
  <2>3. CASE toUpdate \cap Participations(p) # {}
    <3>1. f = LeastOf(now, expires[p]) /\ expires[p] \in Int
      BY <1>9, <2>3
    <3>2. f \in Int /\ f <= now /\ f <= expires[p]
      BY <1>1, <3>1 DEF LeastOf
    <3> QED
      BY <2>1, <2>3, <3>2
  <2> QED
    BY <2>2, <2>3
<1>11. Active(s[i], now)
  BY <1>3, Translation
<1> HIDE DEF s, n, f, toUpdate
<1>12. ParticipantInv(n, f, TotalAdditionalTime(p, extra), now)
  BY <1>1, <1>7, <1>8, <1>10, <1>11, EndKeeps
<1> QED
  BY <1>3, <1>4, <1>5, <1>7, <1>10, <1>12, OneMoves

\* NOW() advances.
LEMMA TickStep ==
  ASSUME ContestInv, Tick
  PROVE  ContestInv'
<1>1. now' = now + 1 /\ UNCHANGED <<attempts, expires, extra>> /\ now \in Nat
  BY DEF Tick, ContestInv
<1>2. ASSUME NEW p \in Participants
      PROVE  ParticipantInv(attempts[p], expires[p], TotalAdditionalTime(p, extra), now + 1)
  BY <1>1, OfParticipant, TickKeeps
<1>3. \A p \in Participants :
        ParticipantInv(attempts'[p], expires'[p], TotalAdditionalTime(p, extra'), now')
  BY <1>1, <1>2
<1> QED
  BY <1>1, <1>3 DEF ContestInv

\* The new_expires_at of a participant is an instant, and counts one participation if only
\* the latest is not ended.
LEMMA NewExpiresAtFacts ==
  ASSUME ContestInv, NEW p \in Participants, NEW x \in [Groups -> Int \cup {NoExtra}],
         NotEnded(p) # {}
  PROVE  /\ NewExpiresAt(p, x) \in Int
         /\ EarlierEnded(attempts[p]) =>
              NewExpiresAt(p, x) = attempts[p][LatestOf(attempts[p])].started + Duration
                                     + TotalAdditionalTime(p, x)
<1> DEFINE s == attempts[p]
           starts == {attempts[p][i].started : i \in NotEnded(p)}
<1>1. AttemptsOK(s) /\ Len(s) \in Nat /\ NotEnded(p) = Unended(s)
  BY OfParticipant, Translation
<1>2. \A i \in Unended(s) : i \in 1..Len(s) /\ s[i].started \in Nat
  BY <1>1, RowTypes DEF Unended
<1>3. starts \in SUBSET Nat /\ starts # {}
  BY <1>1, <1>2
<1>4. FirstStart(p) = Min(starts)
  BY DEF FirstStart
<1>5. FirstStart(p) \in starts
  <2> HIDE DEF starts
  <2> QED
    BY <1>3, <1>4, LeastNatural
<1>6. Cardinality(NotEnded(p)) \in Int
  <2>1. IsFiniteSet(1..Len(s))
    BY <1>1, FS_Interval
  <2>2. Unended(s) \subseteq 1..Len(s)
    BY <1>2
  <2>3. IsFiniteSet(Unended(s))
    BY <2>1, <2>2, FS_Subset
  <2> QED
    BY <1>1, <2>3, FS_CardinalityType
<1>7. TotalAdditionalTime(p, x) \in Int
  BY TotalFacts
<1>8. NewExpiresAt(p, x) =
        FirstStart(p) + Duration + Cardinality(NotEnded(p)) * TotalAdditionalTime(p, x)
  BY DEF NewExpiresAt
<1>9. FirstStart(p) \in Int /\ Duration \in Int
  BY <1>3, <1>5, ContestConstants
<1>10. NewExpiresAt(p, x) \in Int
  BY <1>6, <1>7, <1>8, <1>9
<1>11. ASSUME EarlierEnded(s)
       PROVE  NewExpiresAt(p, x) = s[LatestOf(s)].started + Duration + TotalAdditionalTime(p, x)
  <2>1. NotEnded(p) = {LatestOf(s)} /\ Cardinality(NotEnded(p)) = 1
    <3>1. Unended(s) # {}
      BY <1>1
    <3> HIDE DEF s
    <3> QED
      BY <1>1, <1>11, <3>1, OnlyUnended
  <2>2. FirstStart(p) = s[LatestOf(s)].started
    BY <1>5, <2>1
  <2> HIDE DEF s
  <2> QED
    BY <1>7, <1>8, <1>9, <2>1, <2>2
<1> QED
  BY <1>10, <1>11

\* setAdditionalTime.
LEMMA SetAdditionalTimeStep ==
  ASSUME ContestInv, NEW g \in Groups, NEW seconds \in Extras, SetAdditionalTime(g, seconds)
  PROVE  ContestInv'
<1> DEFINE x == ExtraAfter(g, seconds)
           affected == Affected(g, x)
<1>1. /\ extra' = x /\ now' = now /\ now \in Nat
      /\ expires' = [p \in Participants |-> IF p \in affected THEN NewExpiresAt(p, x) ELSE expires[p]]
      /\ attempts' = [p \in Participants |->
           IF p \in affected /\ Moves(p, NewExpiresAt(p, x))
             THEN [attempts[p] EXCEPT ![LatestAttempt(p)].until = NewExpiresAt(p, x)]
             ELSE attempts[p]]
  BY DEF SetAdditionalTime, ContestInv
<1>2. x \in [Groups -> Extras \cup {NoExtra}] /\ \A h \in Groups : h # g => x[h] = extra[h]
  BY DEF ExtraAfter, ContestInv
<1>3. x = extra \/ x[g] # NoExtra
  BY ContestConstants DEF ExtraAfter, ContestInv
<1>4. extra \in [Groups -> Int \cup {NoExtra}] /\ x \in [Groups -> Int \cup {NoExtra}]
  BY <1>2, ContestConstants DEF ContestInv
<1> HIDE DEF x
<1>5. ASSUME NEW p \in Participants
      PROVE  /\ attempts'[p] \in Seq(AttemptRows)
             /\ expires'[p] \in Int \cup {NULL}
             /\ ParticipantInv(attempts'[p], expires'[p], TotalAdditionalTime(p, x), now)
  <2> DEFINE s == attempts[p]
             d == NewExpiresAt(p, x)
  <2>1. /\ ParticipantInv(s, expires[p], TotalAdditionalTime(p, extra), now)
        /\ AttemptsOK(s) /\ s \in Seq(AttemptRows) /\ Len(s) \in Nat
        /\ expires[p] \in Int \cup {NULL}
    BY OfParticipant
  <2>2. /\ NotEnded(p) = Unended(s) /\ LatestAttempt(p) = LatestOf(s)
    BY Translation
  <2>3. CASE p \notin affected
    <3>1. attempts'[p] = s /\ expires'[p] = expires[p]
      BY <1>1, <2>3
    <3>2. \/ TotalAdditionalTime(p, x) = TotalAdditionalTime(p, extra)
          \/ expires[p] = NULL \/ Unended(s) = {}
      <4>1. CASE p \notin DescendantsOf[g]
        <5>1. \A h \in Groups : p \in DescendantsOf[h] => x[h] = extra[h]
          BY <1>2, <4>1
        <5> QED
          BY <1>4, <5>1, TotalFacts
      <4>2. CASE x = extra
        BY <4>2
      <4>3. CASE p \in DescendantsOf[g] /\ x # extra
        <5>1. g \in ExtraGroups(p, x)
          BY <1>3, <4>3 DEF ExtraGroups
        <5> QED
          BY <2>2, <2>3, <4>3, <5>1 DEF Affected
      <4> QED
        BY <4>1, <4>2, <4>3
    <3> HIDE DEF s
    <3>3. ParticipantInv(s, expires[p], TotalAdditionalTime(p, x), now)
      BY <2>1, <3>2, OthersKeep
    <3> QED
      BY <2>1, <3>1, <3>3
  <2>4. CASE p \in affected
    <3>1. expires[p] # NULL /\ Unended(s) # {} /\ NotEnded(p) # {}
      BY <2>2, <2>4 DEF Affected
    <3>2. d \in Int /\ (EarlierEnded(s) => d = s[LatestOf(s)].started + Duration + TotalAdditionalTime(p, x))
      BY <1>4, <3>1, NewExpiresAtFacts
    <3>3. TotalAdditionalTime(p, x) \in Int
      BY <1>4, TotalFacts
    <3>4. expires'[p] = d
      BY <1>1, <2>4
    <3> DEFINE n == attempts'[p]
               l == LatestOf(s)
    <3>5. l \in 1..Len(s)
      <4>1. Contests(s) # {}
        BY <3>1 DEF Unended
      <4> HIDE DEF s
      <4> QED
        BY <2>1, <4>1, LatestFacts, RowTypes
    <3>6. n = IF now < d \/ now < s[l].until THEN [s EXCEPT ![l].until = d] ELSE s
      BY <1>1, <2>2, <2>4 DEF Moves
    <3> HIDE DEF d, n, s, l
    <3>7. \A j \in 1..Len(s) : s[j] \in AttemptRows
      BY <2>1
    <3>8. [s[l] EXCEPT !.until = d] \in AttemptRows
      BY <3>2, <3>5, <3>7 DEF AttemptRows
    <3>9. /\ n \in Seq(AttemptRows) /\ Len(n) = Len(s)
          /\ \A j \in 1..Len(s) :
               /\ n[j].item = s[j].item /\ n[j].parent = s[j].parent
               /\ n[j].started = s[j].started /\ n[j].ended = s[j].ended
               /\ j # l => n[j] = s[j]
          /\ n[l].until = IF now < d \/ now < s[l].until THEN d ELSE s[l].until
      <4>1. CASE now < d \/ now < s[l].until
        <5> DEFINE r == [s[l] EXCEPT !.until = d]
        <5>1. n = [s EXCEPT ![l] = r]
          BY <3>6, <4>1
        <5>2. /\ r \in AttemptRows /\ r.until = d
              /\ r.item = s[l].item /\ r.parent = s[l].parent
              /\ r.started = s[l].started /\ r.ended = s[l].ended
          BY <3>5, <3>7, <3>8 DEF AttemptRows
        <5> HIDE DEF r
        <5>3. n \in Seq(AttemptRows) /\ Len(n) = Len(s) /\ n[l] = r
              /\ \A j \in 1..Len(s) : j # l => n[j] = s[j]
          BY <2>1, <3>5, <5>1, <5>2
        <5> QED
          BY <4>1, <5>2, <5>3
      <4>2. CASE ~(now < d \/ now < s[l].until)
        <5>1. n = s
          BY <3>6, <4>2
        <5> QED
          BY <2>1, <4>2, <5>1
      <4> QED
        BY <4>1, <4>2
    <3>10. ParticipantInv(n, d, TotalAdditionalTime(p, x), now)
      BY <1>1, <2>1, <3>1, <3>2, <3>3, <3>9, ExtraKeeps DEF l
    <3> QED
      BY <3>2, <3>4, <3>9, <3>10 DEF n
  <2> QED
    BY <2>3, <2>4
<1>6. attempts' \in [Participants -> Seq(AttemptRows)] /\ expires' \in [Participants -> Int \cup {NULL}]
  <2>1. attempts' = [p \in Participants |-> attempts'[p]] /\ expires' = [p \in Participants |-> expires'[p]]
    BY <1>1
  <2> QED
    BY <1>5, <2>1
<1>7. \A p \in Participants :
        ParticipantInv(attempts'[p], expires'[p], TotalAdditionalTime(p, extra'), now')
  BY <1>1, <1>5
<1> QED
  BY <1>1, <1>2, <1>6, <1>7 DEF ContestInv

-----------------------------------------------------------------------------
(* The theorems.                                                           *)

\* Nobody has entered.
LEMMA ContestInitInv == ContestInit => ContestInv
<1> SUFFICES ASSUME ContestInit PROVE ContestInv
  OBVIOUS
<1>1. /\ now = 1 /\ attempts = [p \in Participants |-> <<>>]
      /\ expires = [p \in Participants |-> NULL] /\ extra = [g \in Groups |-> NoExtra]
  BY DEF ContestInit
<1>2. ASSUME NEW p \in Participants
      PROVE  ParticipantInv(attempts[p], expires[p], TotalAdditionalTime(p, extra), now)
  <2> DEFINE s == attempts[p]
  <2>1. s = <<>> /\ expires[p] = NULL
    BY <1>1
  <2> HIDE DEF s
  <2>2. Len(s) = 0 /\ s \in Seq(AttemptRows) /\ \A j : j \notin 1..Len(s)
    BY <2>1
  <2>3. Contests(s) = {}
    BY <2>2 DEF Contests
  <2>4. AttemptsOK(s)
    BY <2>2, <2>3 DEF AttemptsOK, Parented
  <2>5. /\ EarlierOver(s, now) /\ Timed(s, TotalAdditionalTime(p, extra), now)
        /\ Together(s, NULL, now) /\ ClosedBelow(s, now)
    BY <2>2, <2>3 DEF EarlierOver, Timed, Together, ClosedBelow
  <2> QED
    BY <2>1, <2>4, <2>5 DEF ParticipantInv, s
<1>3. attempts \in [Participants -> Seq(AttemptRows)]
  BY <1>1
<1>4. expires \in [Participants -> Int \cup {NULL}] /\ extra \in [Groups -> Extras \cup {NoExtra}]
  BY <1>1
<1> QED
  BY <1>1, <1>2, <1>3, <1>4 DEF ContestInv

\* Every action keeps the invariant.
LEMMA ContestNextInv == ContestInv /\ [ContestNext]_contestVars => ContestInv'
<1> SUFFICES ASSUME ContestInv, [ContestNext]_contestVars PROVE ContestInv'
  OBVIOUS
<1>1. ASSUME NEW p \in Participants, Enter(p) PROVE ContestInv'
  BY <1>1, EnterStep
<1>2. ASSUME NEW p \in Participants, NEW i \in IdsOf(p), CreateAttempt(p, i) PROVE ContestInv'
  BY <1>2, CreateAttemptStep
<1>3. ASSUME NEW p \in Participants, NEW i \in IdsOf(p), EndAttempt(p, i) PROVE ContestInv'
  BY <1>3, EndAttemptStep
<1>4. ASSUME NEW g \in Groups, NEW seconds \in Extras, SetAdditionalTime(g, seconds) PROVE ContestInv'
  BY <1>4, SetAdditionalTimeStep
<1>5. CASE Tick
  BY <1>5, TickStep
<1>6. CASE UNCHANGED contestVars
  <2>1. UNCHANGED <<now, attempts, expires, extra>>
    BY <1>6 DEF contestVars
  <2>2. \A p \in Participants :
          ParticipantInv(attempts'[p], expires'[p], TotalAdditionalTime(p, extra'), now')
    BY <2>1, OfParticipant
  <2> QED
    BY <2>1, <2>2 DEF ContestInv
<1> QED
  BY <1>1, <1>2, <1>3, <1>4, <1>5, <1>6, Zenon DEF ContestNext

\* The inductive invariant of the participations: the latest alone may be under way, and
\* its time, its membership and the attempts below it go together.
THEOREM ContestInvariant == ContestSpec => []ContestInv
BY ContestInitInv, ContestNextInv, PTL DEF ContestSpec

\* enter refuses a participant with time left and setAdditionalTime moves the latest
\* participation only: no participant has two participations under way.
THEOREM OneParticipationAtATime == ContestSpec => []AtMostOneOngoingParticipation
<1>1. ContestInv => AtMostOneOngoingParticipation
  <2> SUFFICES ASSUME ContestInv, NEW p \in Participants
               PROVE  Cardinality({i \in Participations(p) : IsActive(attempts[p][i])}) <= 1
    BY DEF AtMostOneOngoingParticipation
  <2> DEFINE ongoing == {i \in Participations(p) : IsActive(attempts[p][i])}
  <2>1. AttemptsOK(attempts[p]) /\ EarlierOver(attempts[p], now) /\ now \in Nat
    BY OfParticipant DEF ParticipantInv
  <2>2. \A i \in ongoing : i \in Contests(attempts[p]) /\ now < attempts[p][i].until
    BY Translation DEF Active
  <2>3. \A i \in ongoing : i = LatestOf(attempts[p])
    BY <2>1, <2>2, LatestHasTime
  <2>4. ongoing = {} \/ ongoing = {LatestOf(attempts[p])}
    <3> HIDE DEF ongoing
    <3> QED
      BY <2>3
  <2>5. Cardinality({}) = 0 /\ Cardinality({LatestOf(attempts[p])}) = 1
    BY FS_EmptySet, FS_Singleton
  <2> QED
    BY <2>4, <2>5
<1> QED
  BY <1>1, ContestInvariant, PTL

\* enter and setAdditionalTime give a participation the duration of the contest and the
\* additional time of all its groups, counted from its start, as long as the earlier ones
\* were ended.
THEOREM RunningParticipationHasItsTime == ContestSpec => []OnlyOpenAttemptHasItsTime
<1>1. ContestInv => OnlyOpenAttemptHasItsTime
  <2> SUFFICES ASSUME ContestInv, NEW p \in Participants, EarlierOnesAreEnded(p),
                      NEW i \in Participations(p), IsActive(attempts[p][i])
               PROVE  attempts[p][i].until
                        = attempts[p][i].started + Duration + TotalAdditionalTime(p, extra)
    BY DEF OnlyOpenAttemptHasItsTime, HasItsTime
  <2> QED
    BY OfParticipant, Translation DEF ParticipantInv, Timed
<1> QED
  BY <1>1, ContestInvariant, PTL

\* enter, endAttempt and setAdditionalTime move allows_submissions_until and expires_at so
\* that the membership lasts as long as the participation.
THEOREM MembershipEndsWithParticipation == ContestSpec => []MembershipFollowsParticipation
<1>1. ContestInv => MembershipFollowsParticipation
  <2> SUFFICES ASSUME ContestInv, NEW p \in Participants, EarlierOnesAreEnded(p)
               PROVE  expires[p] # NULL /\ now < expires[p]
                        <=> \E i \in Participations(p) : IsActive(attempts[p][i])
    BY DEF MembershipFollowsParticipation
  <2> DEFINE s == attempts[p]
             e == expires[p]
  <2>1. /\ AttemptsOK(s) /\ EarlierOver(s, now) /\ Together(s, e, now) /\ ClosedBelow(s, now)
        /\ EarlierEnded(s) /\ Len(s) \in Nat /\ now \in Nat /\ e \in Int \cup {NULL}
    BY OfParticipant, Translation DEF ParticipantInv
  <2>2. (\E i \in Participations(p) : IsActive(attempts[p][i]))
          <=> \E i \in Contests(s) : Active(s[i], now)
    BY Translation
  <2> HIDE DEF s, e
  <2>3. (e # NULL /\ now < e) <=> \E i \in Contests(s) : Active(s[i], now)
    <3>1. CASE Contests(s) = {}
      BY <2>1, <3>1 DEF Together
    <3>2. CASE Contests(s) # {}
      <4> DEFINE l == LatestOf(s)
      <4>1. l \in Contests(s) /\ l \in 1..Len(s) /\ s[l].until \in Int
        BY <2>1, <3>2, LatestFacts, RowTypes
      <4>2. e \in Int
        BY <2>1, <3>2 DEF Together
      <4>3. (s[l].ended = NULL /\ s[l].until = e) \/ (e <= now /\ s[l].until <= now)
        BY <2>1, <3>2 DEF Together
      <4>4. \A i \in Contests(s) : Active(s[i], now) => i = l
        BY <2>1, LatestHasTime DEF Active
      <4> HIDE DEF l
      <4>5. (\E i \in Contests(s) : Active(s[i], now)) <=> Active(s[l], now)
        BY <4>1, <4>4
      <4>6. e # NULL
        BY <4>2, ContestConstants
      <4>7. now < e <=> Active(s[l], now)
        BY <2>1, <4>1, <4>2, <4>3 DEF Active
      <4> QED
        BY <4>5, <4>6, <4>7
    <3> QED
      BY <3>1, <3>2
  <2> QED
    BY <2>2, <2>3 DEF s, e
<1> QED
  BY <1>1, ContestInvariant, PTL

\* endAttempt ends the attempts below the one it is called for, createAttempt refuses to
\* create one below an ended one, and no additional time reopens them.
THEOREM EndedAttemptsStayClosed == ContestSpec => []EndedStaysClosed
<1>1. ContestInv => EndedStaysClosed
  <2> SUFFICES ASSUME ContestInv, NEW p \in Participants, EarlierOnesAreEnded(p),
                      NEW j \in IdsOf(p), NEW i \in ChainOf(p, j), attempts[p][i].ended # NULL
               PROVE  attempts[p][j].ended # NULL /\ attempts[p][j].until <= now
    BY DEF EndedStaysClosed
  <2>1. ClosedBelow(attempts[p], now) /\ EarlierEnded(attempts[p])
    BY OfParticipant, Translation DEF ParticipantInv
  <2>2. j \in 1..Len(attempts[p]) /\ i \in Chain(attempts[p], j)
    BY ChainOfIsChain DEF IdsOf
  <2> QED
    BY <2>1, <2>2 DEF ClosedBelow
<1> QED
  BY <1>1, ContestInvariant, PTL

-----------------------------------------------------------------------------
(* Teams.  That nobody takes part twice is about steps, and each service    *)
(* checks again what it needs, so it rests on the tables being functions    *)
(* only.  That open teams keep their conditions is an invariant, and        *)
(* inductive with these types.                                              *)

TeamTypes ==
    /\ link \in [Teams \X Users -> Links]
    /\ part \in [Teams -> {"none", "open", "ended", "over"}]
    /\ startEra \in [Teams -> Eras]
    /\ window \in [Users \cup Teams -> SUBSET Eras]
    /\ era \in Eras

\* A service that moves one link keeps the types.
LEMMA BecomesTypes ==
    ASSUME TeamTypes, NEW t \in Teams, NEW u \in Users, NEW from, NEW to \in Links,
           Becomes(t, u, from, to)
    PROVE  TeamTypes'
  BY DEF TeamTypes, Becomes

\* Every step keeps the types.
LEMMA TeamTypesAlways == TeamSpec => []TeamTypes
<1>1. TeamInit => TeamTypes
  BY DEF TeamInit, TeamTypes, Links, Eras
<1>2. TeamTypes /\ [TeamNext]_teamVars => TeamTypes'
  <2> SUFFICES ASSUME TeamTypes, [TeamNext]_teamVars PROVE TeamTypes'
    OBVIOUS
  <2>1. ASSUME NEW t \in Teams, NEW u \in Users,
               \/ JoinGroupByCode(t, u) \/ AcceptGroupInvitation(t, u)
               \/ CreateGroupJoinRequest(t, u) \/ AcceptJoinRequest(t, u)
               \/ CreateGroupInvitation(t, u)
               \/ LeaveGroup(t, u) \/ CreateGroupLeaveRequest(t, u) \/ AcceptLeaveRequest(t, u)
               \/ RemoveMember(t, u) \/ EndRequest(t, u)
        PROVE  TeamTypes'
    <3>1. \E from, to : to \in Links /\ Becomes(t, u, from, to)
      BY <2>1 DEF JoinGroupByCode, AcceptGroupInvitation, CreateGroupJoinRequest,
                  AcceptJoinRequest, CreateGroupInvitation, LeaveGroup, CreateGroupLeaveRequest,
                  AcceptLeaveRequest, RemoveMember, EndRequest, Links
    <3> QED
      BY <3>1, BecomesTypes
  <2>2. ASSUME NEW t \in Teams, NEW value \in BOOLEAN, SetFrozenMembership(t, value)
        PROVE  TeamTypes'
    <3>1. \A l \in Links : Refused(l) \in Links
      BY DEF Refused, Links
    <3>2. link' \in [Teams \X Users -> Links]
      BY <2>2, <3>1 DEF SetFrozenMembership, TeamTypes
    <3> QED
      BY <2>2, <3>2 DEF SetFrozenMembership, TeamTypes
  <2>3. ASSUME NEW t \in Teams, EnterAsTeam(t) PROVE TeamTypes'
    BY <2>3 DEF EnterAsTeam, TeamTypes
  <2>4. ASSUME NEW t \in Teams, EndTeamAttempt(t) \/ TimeIsOver(t) \/ ExtendTeamTime(t)
        PROVE  TeamTypes'
    BY <2>4 DEF EndTeamAttempt, TimeIsOver, ExtendTeamTime, Turns, TeamTypes
  <2>5. CASE \/ \E x \in Admittable, w \in Windows : UpdatePermissions(x, w)
             \/ \E value \in BOOLEAN : UpdateItem(value)
             \/ NextEra
             \/ UNCHANGED teamVars
    BY <2>5, TeamConstants, ZenonT(60) DEF UpdatePermissions, UpdateItem, NextEra, teamVars, TeamTypes, Eras
  <2> QED
    BY <2>1, <2>2, <2>3, <2>4, <2>5, Zenon DEF TeamNext
<1> QED
  BY <1>1, <1>2, PTL DEF TeamSpec

\* What a step may do to the teams: nothing to links and open participations, one link moves,
\* a team's membership is frozen or not, or a team enters.
LEMMA TeamSteps ==
    ASSUME TeamTypes, [TeamNext]_teamVars
    PROVE  \/ link' = link /\ \A t \in Teams : ~Enters(t)
           \/ \E t \in Teams, u \in Users :
                \/ \E from : Becomes(t, u, from, "member") /\ MayJoin(t, u)
                \/ Becomes(t, u, {"join_request"}, "member") /\ ~Conflict(t, u)
                \/ \E from, to : Becomes(t, u, from, to) /\ to \in Outside
                \/ \E to : Becomes(t, u, {"member", "leaving"}, to)
           \/ \E t \in Teams, value \in BOOLEAN : SetFrozenMembership(t, value)
           \/ \E t \in Teams : EnterAsTeam(t)
<1>1. ASSUME NEW t \in Teams, NEW u \in Users,
             \/ JoinGroupByCode(t, u) \/ AcceptGroupInvitation(t, u)
             \/ CreateGroupJoinRequest(t, u) \/ AcceptJoinRequest(t, u)
             \/ CreateGroupInvitation(t, u)
             \/ LeaveGroup(t, u) \/ CreateGroupLeaveRequest(t, u) \/ AcceptLeaveRequest(t, u)
             \/ RemoveMember(t, u) \/ EndRequest(t, u)
      PROVE  \/ \E from : Becomes(t, u, from, "member") /\ MayJoin(t, u)
             \/ Becomes(t, u, {"join_request"}, "member") /\ ~Conflict(t, u)
             \/ \E from, to : Becomes(t, u, from, to) /\ to \in Outside
             \/ \E to : Becomes(t, u, {"member", "leaving"}, to)
  <2>1. "none" \in Outside /\ "invitation" \in Outside /\ "join_request" \in Outside
    BY DEF Outside
  <2>2. CASE JoinGroupByCode(t, u) \/ AcceptGroupInvitation(t, u) \/ AcceptJoinRequest(t, u)
    BY <2>2, Zenon DEF JoinGroupByCode, AcceptGroupInvitation, AcceptJoinRequest
  <2>3. CASE CreateGroupJoinRequest(t, u) \/ CreateGroupInvitation(t, u)
    BY <2>1, <2>3, Zenon DEF CreateGroupJoinRequest, CreateGroupInvitation
  <2>4. CASE LeaveGroup(t, u) \/ AcceptLeaveRequest(t, u) \/ RemoveMember(t, u)
    BY <2>1, <2>4, Zenon DEF LeaveGroup, AcceptLeaveRequest, RemoveMember
  <2>5. CASE CreateGroupLeaveRequest(t, u) \/ EndRequest(t, u)
    <3>1. \A f \in {{"member"}, {"leaving"}} : \A to :
             Becomes(t, u, f, to) => Becomes(t, u, {"member", "leaving"}, to)
      BY DEF Becomes
    <3> QED
      BY <2>1, <2>5, <3>1, Zenon DEF CreateGroupLeaveRequest, EndRequest
  <2> QED
    BY <1>1, <2>2, <2>3, <2>4, <2>5, Zenon
<1>2. ASSUME NEW t \in Teams, EndTeamAttempt(t) \/ TimeIsOver(t) \/ ExtendTeamTime(t)
      PROVE  link' = link /\ \A s \in Teams : ~Enters(s)
  BY <1>2 DEF EndTeamAttempt, TimeIsOver, ExtendTeamTime, Turns, Enters, IsOpen, TeamTypes
<1>3. CASE \/ \E x \in Admittable, w \in Windows : UpdatePermissions(x, w)
           \/ \E value \in BOOLEAN : UpdateItem(value)
           \/ NextEra
           \/ UNCHANGED teamVars
  <2>1. link' = link /\ part' = part
    BY <1>3 DEF UpdatePermissions, UpdateItem, NextEra, teamVars
  <2> QED
    BY <2>1 DEF Enters, IsOpen
<1> QED
  BY <1>1, <1>2, <1>3, Zenon DEF TeamNext

\* Only the membership that a step is about changes.
LEMMA OneMemberMoves ==
    ASSUME TeamTypes, NEW t \in Teams, NEW u \in Users, NEW from, NEW to, Becomes(t, u, from, to)
    PROVE  /\ \A s \in Teams, v \in Users : s # t \/ v # u => (v \in Members(s)' <=> v \in Members(s))
           /\ u \in Members(t)' <=> to \notin Outside
           /\ link[t, u] \in from
           /\ UNCHANGED <<era, window, multiple, part, startEra>>
<1>1. link' = [link EXCEPT ![<<t, u>>] = to] /\ link[t, u] \in from
  BY DEF Becomes
<1>2. \A s \in Teams, v \in Users : s # t \/ v # u => link'[s, v] = link[s, v]
  BY <1>1 DEF TeamTypes
<1>3. link'[t, u] = to
  BY <1>1 DEF TeamTypes
<1>4. UNCHANGED <<era, window, multiple, part, startEra>>
  BY DEF Becomes
<1> QED
  BY <1>1, <1>2, <1>3, <1>4 DEF Members

\* Freezing a team takes nobody in.
LEMMA FreezingTakesNobodyIn ==
    ASSUME TeamTypes, NEW t \in Teams, NEW value \in BOOLEAN, SetFrozenMembership(t, value)
    PROVE  /\ \A s \in Teams, v \in Users : v \in Members(s)' <=> v \in Members(s)
           /\ part' = part
<1>1. \A l \in Links : Refused(l) \in Outside <=> l \in Outside
  BY DEF Refused, Links, Outside
<1>2. \A s \in Teams, v \in Users :
         <<s, v>> \in Teams \X Users /\ link[s, v] \in Links
           /\ (link'[s, v] = link[s, v] \/ link'[s, v] = Refused(link[s, v]))
  <2>1. \/ link' = link
        \/ link' = [p \in Teams \X Users |-> IF p[1] = t THEN Refused(link[p]) ELSE link[p]]
    BY DEF SetFrozenMembership
  <2>2. ASSUME NEW s \in Teams, NEW v \in Users
        PROVE  /\ <<s, v>> \in Teams \X Users /\ link[s, v] \in Links
               /\ link'[s, v] = link[s, v] \/ link'[s, v] = Refused(link[s, v])
    BY <2>1 DEF TeamTypes
  <2> QED
    BY <2>2
<1>3. part' = part
  BY DEF SetFrozenMembership
<1>4. ASSUME NEW s \in Teams, NEW v \in Users
      PROVE  link'[s, v] \in Outside <=> link[s, v] \in Outside
  <2>1. link[s, v] \in Links /\ (link'[s, v] = link[s, v] \/ link'[s, v] = Refused(link[s, v]))
    BY <1>2, Zenon
  <2>2. Refused(link[s, v]) \in Outside <=> link[s, v] \in Outside
    BY <1>1, <2>1, Zenon
  <2> QED
    BY <2>1, <2>2, Zenon
<1> QED
  BY <1>3, <1>4 DEF Members

\* The conflict of a user with its other teams does not look at the team itself.
LEMMA ConflictStays ==
    ASSUME TeamTypes, NEW t \in Teams, NEW u \in Users, UNCHANGED <<multiple, part>>,
           \A s \in Teams \ {t} : u \in Members(s)' => u \in Members(s), ~Conflict(t, u)
    PROVE  ~Conflict(t, u)'
  BY DEF Conflict, IsOpen

\* checkPossibilityToJoinTeam, attemptsViolationsFound: no service lets a user in, and no team
\* starts an attempt, when that user would take part in the contest with another team as well.
THEOREM NobodyTakesPartTwice == TeamSpec => NobodyJoinsTwoParticipations
<1> DEFINE A == \A t \in Teams, u \in Users :
                  Joins(t, u) \/ (Enters(t) /\ u \in Members(t)) => ~Conflict(t, u)'
<1>1. TeamTypes /\ [TeamNext]_teamVars => A
  <2> SUFFICES ASSUME TeamTypes, [TeamNext]_teamVars, NEW t \in Teams, NEW u \in Users,
                      Joins(t, u) \/ (Enters(t) /\ u \in Members(t))
               PROVE  ~Conflict(t, u)'
    OBVIOUS
  <2>1. CASE link' = link /\ \A s \in Teams : ~Enters(s)
    BY <2>1 DEF Joins, Members
  <2>2. ASSUME NEW s \in Teams, NEW v \in Users, NEW from, NEW to, Becomes(s, v, from, to),
               to \in Outside \/ from = {"member", "leaving"} \/ ~Conflict(s, v)
        PROVE  ~Conflict(t, u)'
    <3>1. ~Enters(t)
      BY <2>2, OneMemberMoves DEF Enters, IsOpen
    <3>2. s = t /\ v = u /\ to \notin Outside /\ u \notin Members(t)
      BY <2>2, <3>1, OneMemberMoves DEF Joins
    <3>3. from # {"member", "leaving"}
      BY <2>2, <3>2, OneMemberMoves DEF Members, Outside
    <3>4. ~Conflict(t, u)
      BY <2>2, <3>2, <3>3
    <3>5. \A x \in Teams \ {t} : u \in Members(x)' => u \in Members(x)
      BY <2>2, <3>2, OneMemberMoves
    <3>6. UNCHANGED <<multiple, part>>
      BY <2>2, OneMemberMoves
    <3> QED
      BY <3>4, <3>5, <3>6, ConflictStays
  <2>3. ASSUME NEW s \in Teams, NEW value \in BOOLEAN, SetFrozenMembership(s, value)
        PROVE  FALSE
    BY <2>3, FreezingTakesNobodyIn DEF Joins, Enters, IsOpen
  <2>4. ASSUME NEW s \in Teams, EnterAsTeam(s) PROVE ~Conflict(t, u)'
    <3>1. /\ part' = [part EXCEPT ![s] = "open"]
          /\ UNCHANGED <<multiple, link>>
          /\ ~ParticipatesElsewhere(s)
      BY <2>4 DEF EnterAsTeam, IsReadyToEnter
    <3>2. s = t /\ u \in Members(t)
      BY <3>1 DEF Joins, Enters, IsOpen, Members, TeamTypes
    <3>3. \A x \in Teams \ {t} : part'[x] = part[x] /\ Members(x)' = Members(x)
      BY <3>1, <3>2 DEF TeamTypes, Members
    <3>4. part'[t] = "open" /\ multiple' = multiple
      BY <3>1, <3>2 DEF TeamTypes
    <3>5. \A x \in Teams \ {t} : u \in Members(x) => part[x] = "none" \/ (part[x] # "open" /\ multiple)
      BY <3>1, <3>2 DEF ParticipatesElsewhere, IsOpen
    <3> QED
      BY <3>3, <3>4, <3>5 DEF Conflict, IsOpen
  <2> HIDE DEF A
  <2>5. MayJoin(t, u) => ~Conflict(t, u)
    BY DEF MayJoin
  <2>6. \A s \in Teams, v \in Users : MayJoin(s, v) => ~Conflict(s, v)
    BY DEF MayJoin
  <2> QED
    BY <2>1, <2>2, <2>3, <2>4, <2>6, TeamSteps
<1> QED
  BY <1>1, TeamTypesAlways, PTL DEF TeamSpec, NobodyJoinsTwoParticipations

\* The conditions evaluated at started_at go on to hold of members who keep their permissions.
LEMMA ConditionsStay ==
    ASSUME NEW t \in Teams, NEW M, M \subseteq Users, StillSatisfied(t, M), Members(t)' = M,
           part'[t] = part[t], startEra'[t] = startEra[t],
           \A u \in M : startEra[t] \in window[u] => startEra[t] \in window'[u]
    PROVE  StillSatisfied(t, Members(t))'
<1> DEFINE before == AdmittedAt(M, startEra[t])
           after == AdmittedAt(Members(t), startEra[t])'
<1>1. before \subseteq after /\ after \subseteq M
  BY DEF AdmittedAt
<1>2. IsFiniteSet(M)
  BY TeamConstants, FS_Subset
<1>3. IsFiniteSet(after) /\ IsFiniteSet(before)
  BY <1>1, <1>2, FS_Subset
<1>4. /\ Cardinality(before) \in Nat /\ Cardinality(after) \in Nat /\ Cardinality(M) \in Nat
      /\ Cardinality(before) <= Cardinality(after) /\ Cardinality(after) <= Cardinality(M)
  BY <1>1, <1>2, <1>3, FS_Subset, FS_CardinalityType
<1> DEFINE a == Cardinality(after)
           b == Cardinality(before)
           n == Cardinality(M)
<1>5. IsOpen(t) /\ M # {} => RatioSatisfied(b, n) /\ n <= MaxTeamSize
  BY Zenon DEF StillSatisfied
<1>6. SUFFICES ASSUME IsOpen(t), M # {} PROVE RatioSatisfied(a, n) /\ n <= MaxTeamSize
  BY Zenon DEF StillSatisfied, IsOpen, RatioSatisfied
<1>7. a \in Nat /\ b \in Nat /\ n \in Nat /\ b <= a /\ a <= n
  BY <1>4
<1> HIDE DEF a, b, n
<1> QED
  BY <1>5, <1>6, <1>7 DEF RatioSatisfied

\* A service that moves one membership keeps the conditions of all teams, if it checks those of
\* its team with the members it leaves there, or leaves them as they are, or is excepted.
LEMMA MemberServiceKeepsConditions ==
    ASSUME TeamTypes, OpenTeamsKeepConditions,
           NEW s \in Teams, NEW u \in Users, NEW from, NEW to, Becomes(s, u, from, to),
           \/ Loosens({s})
           \/ Keeps /\ Members(s)' = Members(s)
           \/ \E M : Keeps /\ Members(s)' = M /\ StillSatisfied(s, M)
    PROVE  OpenTeamsKeepConditions'
<1> SUFFICES ASSUME NEW t \in Teams, t \notin loosened' PROVE StillSatisfied(t, Members(t))'
  BY Zenon DEF OpenTeamsKeepConditions
<1>1. UNCHANGED <<window, part, startEra>>
  BY OneMemberMoves, Zenon
<1>2. t \notin loosened
  BY Zenon DEF Loosens, Keeps
<1>3. StillSatisfied(t, Members(t))
  BY <1>2, Zenon DEF OpenTeamsKeepConditions
<1>4. Members(t) \subseteq Users /\ Members(t)' \subseteq Users
  BY DEF Members
<1>5. ASSUME Members(t)' = Members(t) PROVE StillSatisfied(t, Members(t))'
  BY <1>1, <1>3, <1>4, <1>5, ConditionsStay
<1>6. CASE s # t
  <2>1. \A v \in Users : v \in Members(t)' <=> v \in Members(t)
    BY <1>6, OneMemberMoves, Zenon
  <2> QED
    BY <1>4, <1>5, <2>1
<1>7. CASE s = t
  <2>1. CASE Loosens({s})
    <3>1. ~IsOpen(t)
      BY <1>7, <2>1 DEF Loosens
    <3> QED
      BY <1>1, <3>1 DEF IsOpen, StillSatisfied
  <2>2. ASSUME NEW M, Members(s)' = M, StillSatisfied(s, M) PROVE StillSatisfied(t, Members(t))'
    BY <1>1, <1>4, <1>7, <2>2, ConditionsStay
  <2> QED
    BY <1>5, <1>7, <2>1, <2>2, Zenon
<1> QED
  BY <1>6, <1>7

\* The members that a service leaves in its team.
LEMMA MembersAfter ==
    ASSUME TeamTypes, NEW t \in Teams, NEW u \in Users, NEW from, NEW to, Becomes(t, u, from, to)
    PROVE  /\ to \notin Outside => Members(t)' = Members(t) \cup {u}
           /\ to \in Outside => Members(t)' = Members(t) \ {u}
           /\ from \cap Outside = {} => u \in Members(t)
           /\ from \subseteq Outside => u \notin Members(t)
<1>1. \A v \in Users : v # u => (v \in Members(t)' <=> v \in Members(t))
  BY OneMemberMoves
<1>2. (u \in Members(t)' <=> to \notin Outside) /\ link[t, u] \in from
  BY OneMemberMoves
<1>3. Members(t) \subseteq Users /\ Members(t)' \subseteq Users
  BY DEF Members
<1>4. (from \cap Outside = {} => u \in Members(t)) /\ (from \subseteq Outside => u \notin Members(t))
  BY <1>2 DEF Members
<1>5. to \notin Outside => Members(t)' = Members(t) \cup {u}
  BY <1>1, <1>2, <1>3
<1>6. to \in Outside => Members(t)' = Members(t) \ {u}
  BY <1>1, <1>2, <1>3
<1> QED
  BY <1>4, <1>5, <1>6

\* acceptGroupInvitation, joinGroupByCode, acceptJoinRequests, acceptLeaveRequests, enter: the
\* team of an open participation satisfies the entry conditions at its started_at, unless a
\* service that does not check them has changed it.
THEOREM OpenTeamsAreEntitled == TeamSpec => []OpenTeamsKeepConditions
<1>1. TeamInit => OpenTeamsKeepConditions
  BY DEF TeamInit, OpenTeamsKeepConditions, StillSatisfied, IsOpen
<1>2. TeamTypes /\ OpenTeamsKeepConditions /\ [TeamNext]_teamVars => OpenTeamsKeepConditions'
  <2> SUFFICES ASSUME TeamTypes, OpenTeamsKeepConditions, [TeamNext]_teamVars
               PROVE  OpenTeamsKeepConditions'
    OBVIOUS
  <2>0. /\ {"none", "invitation", "join_request"} = Outside
        /\ "member" \notin Outside /\ "leaving" \notin Outside /\ "none" \in Outside
        /\ "invitation" \in Outside /\ "join_request" \in Outside
    BY DEF Outside
  <2>1. ASSUME NEW t \in Teams, NEW u \in Users,
               JoinGroupByCode(t, u) \/ AcceptGroupInvitation(t, u) \/ AcceptJoinRequest(t, u)
        PROVE  OpenTeamsKeepConditions'
    <3>1. PICK from : Becomes(t, u, from, "member") /\ MayJoin(t, u) /\ Keeps
      BY <2>1, Zenon DEF JoinGroupByCode, AcceptGroupInvitation, AcceptJoinRequest
    <3>2. Members(t)' = Members(t) \cup {u}
      BY <2>0, <3>1, MembersAfter
    <3>3. StillSatisfied(t, Members(t) \cup {u})
      BY <3>1 DEF MayJoin
    <3> QED
      BY <3>1, <3>2, <3>3, MemberServiceKeepsConditions, Zenon
  <2>2. ASSUME NEW t \in Teams, NEW u \in Users,
               CreateGroupJoinRequest(t, u) \/ CreateGroupLeaveRequest(t, u) \/ EndRequest(t, u)
        PROVE  OpenTeamsKeepConditions'
    <3> DEFINE Stays(from, to) == \/ from \subseteq Outside /\ to \in Outside
                                  \/ from \cap Outside = {} /\ to \notin Outside
    <3>0. /\ Stays({"none"}, "join_request") /\ Stays({"invitation", "join_request"}, "none")
          /\ Stays({"member"}, "leaving") /\ Stays({"leaving"}, "member")
      BY <2>0
    <3> HIDE DEF Stays
    <3>1. PICK from, to : Becomes(t, u, from, to) /\ Keeps /\ Stays(from, to)
      <4>1. CASE CreateGroupJoinRequest(t, u)
        BY <3>0, <4>1, Zenon DEF CreateGroupJoinRequest
      <4>2. CASE CreateGroupLeaveRequest(t, u)
        BY <3>0, <4>2, Zenon DEF CreateGroupLeaveRequest
      <4>3. CASE EndRequest(t, u)
        BY <3>0, <4>3, Zenon DEF EndRequest
      <4> QED
        BY <2>2, <4>1, <4>2, <4>3, Zenon
    <3>2. Members(t)' = Members(t)
      BY <3>1, MembersAfter DEF Stays
    <3> QED
      BY <3>1, <3>2, MemberServiceKeepsConditions, Zenon
  <2>3. ASSUME NEW t \in Teams, NEW u \in Users, CreateGroupInvitation(t, u)
        PROVE  OpenTeamsKeepConditions'
    <3>1. CASE Becomes(t, u, {"none"}, "invitation") /\ Keeps
      <4>1. Members(t)' = Members(t)
        BY <2>0, <3>1, MembersAfter
      <4> QED
        BY <3>1, <4>1, MemberServiceKeepsConditions, Zenon
    <3>2. CASE Becomes(t, u, {"join_request"}, "member") /\ Loosens({t})
      BY <3>2, MemberServiceKeepsConditions, Zenon
    <3> QED
      BY <2>3, <3>1, <3>2, Zenon DEF CreateGroupInvitation
  <2>4. ASSUME NEW t \in Teams, NEW u \in Users, LeaveGroup(t, u) \/ RemoveMember(t, u)
        PROVE  OpenTeamsKeepConditions'
    BY <2>4, MemberServiceKeepsConditions, Zenon DEF LeaveGroup, RemoveMember
  <2>5. ASSUME NEW t \in Teams, NEW u \in Users, AcceptLeaveRequest(t, u)
        PROVE  OpenTeamsKeepConditions'
    <3>1. Becomes(t, u, {"leaving"}, "none") /\ Keeps /\ StillSatisfied(t, Members(t) \ {u})
      BY <2>5 DEF AcceptLeaveRequest
    <3>2. Members(t)' = Members(t) \ {u}
      BY <2>0, <3>1, MembersAfter
    <3> QED
      BY <3>1, <3>2, MemberServiceKeepsConditions, Zenon
  <2>6. ASSUME NEW s \in Teams, NEW value \in BOOLEAN, SetFrozenMembership(s, value)
        PROVE  OpenTeamsKeepConditions'
    <3>1. UNCHANGED <<window, part, startEra, loosened>>
      BY <2>6 DEF SetFrozenMembership
    <3>2. \A t \in Teams, v \in Users : v \in Members(t)' <=> v \in Members(t)
      BY <2>6, FreezingTakesNobodyIn
    <3>3. ASSUME NEW t \in Teams, t \notin loosened PROVE StillSatisfied(t, Members(t))'
      <4>1. Members(t) \subseteq Users /\ Members(t)' \subseteq Users
        BY DEF Members
      <4>2. Members(t)' = Members(t)
        BY <3>2, <4>1
      <4>3. StillSatisfied(t, Members(t))
        BY <3>3 DEF OpenTeamsKeepConditions
      <4> QED
        BY <3>1, <4>1, <4>2, <4>3, ConditionsStay
    <3> QED
      BY <3>1, <3>3, Zenon DEF OpenTeamsKeepConditions
  <2>7. ASSUME NEW s \in Teams, EnterAsTeam(s) PROVE OpenTeamsKeepConditions'
    <3>1. /\ part' = [part EXCEPT ![s] = "open"] /\ startEra' = [startEra EXCEPT ![s] = era]
          /\ loosened' = IF TeamCanEnter(s) THEN loosened \cup {s} ELSE loosened \ {s}
          /\ UNCHANGED <<link, window>> /\ IsReadyToEnter(s)
      BY <2>7 DEF EnterAsTeam
    <3>2. \A t \in Teams : Members(t)' = Members(t) /\ Members(t) \subseteq Users
      BY <3>1 DEF Members
    <3> SUFFICES ASSUME NEW t \in Teams, t \notin loosened' PROVE StillSatisfied(t, Members(t))'
      BY Zenon DEF OpenTeamsKeepConditions
    <3>3. CASE t # s
      <4>1. t \notin loosened
        BY <3>1, <3>3
      <4>2. StillSatisfied(t, Members(t))
        BY <4>1 DEF OpenTeamsKeepConditions
      <4>3. part'[t] = part[t] /\ startEra'[t] = startEra[t]
        BY <3>1, <3>3 DEF TeamTypes
      <4> QED
        BY <3>1, <3>2, <4>2, <4>3, ConditionsStay
    <3>4. CASE t = s
      <4>1. ~TeamCanEnter(t)
        BY <3>1, <3>4
      <4>2. /\ Cardinality(Members(t)) <= MaxTeamSize
            /\ RatioSatisfied(Cardinality(AdmittedAt(Members(t), era)), Cardinality(Members(t)))
        BY <3>1, <3>4, <4>1, Zenon DEF IsReadyToEnter
      <4>3. startEra'[t] = era
        BY <3>1, <3>4 DEF TeamTypes
      <4>4. AdmittedAt(Members(t), startEra[t])' = AdmittedAt(Members(t), era)
        BY <3>1, <3>2, <4>3 DEF AdmittedAt
      <4> QED
        BY <3>2, <4>2, <4>4, Zenon DEF StillSatisfied, RatioSatisfied
    <3> QED
      BY <3>3, <3>4
  <2>8. ASSUME NEW s \in Teams, EndTeamAttempt(s) \/ TimeIsOver(s) \/ ExtendTeamTime(s)
        PROVE  OpenTeamsKeepConditions'
    <3>1. PICK to \in {"open", "ended", "over"} :
            /\ part' = [part EXCEPT ![s] = to]
            /\ loosened' = IF to = "open" THEN loosened \cup {s} ELSE loosened \ {s}
            /\ UNCHANGED <<link, window, startEra>>
      BY <2>8 DEF EndTeamAttempt, TimeIsOver, ExtendTeamTime, Turns
    <3>2. \A t \in Teams : Members(t)' = Members(t) /\ Members(t) \subseteq Users
      BY <3>1 DEF Members
    <3> SUFFICES ASSUME NEW t \in Teams, t \notin loosened' PROVE StillSatisfied(t, Members(t))'
      BY Zenon DEF OpenTeamsKeepConditions
    <3>3. CASE t # s
      <4>1. t \notin loosened
        BY <3>1, <3>3
      <4>2. StillSatisfied(t, Members(t))
        BY <4>1 DEF OpenTeamsKeepConditions
      <4>3. part'[t] = part[t] /\ startEra'[t] = startEra[t]
        BY <3>1, <3>3 DEF TeamTypes
      <4> QED
        BY <3>1, <3>2, <4>2, <4>3, ConditionsStay
    <3>4. CASE t = s
      <4>1. part'[t] # "open"
        BY <3>1, <3>4 DEF TeamTypes
      <4> QED
        BY <4>1 DEF StillSatisfied, IsOpen
    <3> QED
      BY <3>3, <3>4
  <2>9. ASSUME NEW x \in Admittable, NEW w \in Windows, UpdatePermissions(x, w)
        PROVE  OpenTeamsKeepConditions'
    <3>1. /\ window' = [window EXCEPT ![x] = w]
          /\ Loosens({t \in Teams : x \in Members(t) /\ startEra[t] \in window[x] \ w})
          /\ UNCHANGED <<link, part, startEra>>
      BY <2>9 DEF UpdatePermissions
    <3> SUFFICES ASSUME NEW t \in Teams, t \notin loosened' PROVE StillSatisfied(t, Members(t))'
      BY Zenon DEF OpenTeamsKeepConditions
    <3>2. Members(t)' = Members(t) /\ Members(t) \subseteq Users /\ (IsOpen(t)' <=> IsOpen(t))
      BY <3>1 DEF Members, IsOpen
    <3>3. CASE ~IsOpen(t)
      BY <3>2, <3>3, Zenon DEF StillSatisfied
    <3>4. CASE IsOpen(t)
      <4>1. t \notin loosened /\ ~(x \in Members(t) /\ startEra[t] \in window[x] \ w)
        BY <3>1, <3>4 DEF Loosens
      <4>2. \A u \in Members(t) : startEra[t] \in window[u] => startEra[t] \in window'[u]
        BY <3>1, <3>2, <4>1 DEF TeamTypes
      <4>3. StillSatisfied(t, Members(t))
        BY <4>1 DEF OpenTeamsKeepConditions
      <4> QED
        BY <3>1, <3>2, <4>2, <4>3, ConditionsStay
    <3> QED
      BY <3>3, <3>4
  <2>10. CASE \/ \E value \in BOOLEAN : UpdateItem(value)
              \/ NextEra
              \/ UNCHANGED teamVars
    <3>1. UNCHANGED <<window, link, part, startEra, loosened>>
      BY <2>10 DEF UpdateItem, NextEra, teamVars
    <3> QED
      BY <3>1, Zenon DEF OpenTeamsKeepConditions, StillSatisfied, IsOpen, Members, AdmittedAt,
                         RatioSatisfied
  <2> QED
    BY <2>1, <2>2, <2>3, <2>4, <2>5, <2>6, <2>7, <2>8, <2>9, <2>10, Zenon DEF TeamNext
<1> QED
  BY <1>1, <1>2, TeamTypesAlways, PTL DEF TeamSpec
===============================================================================
