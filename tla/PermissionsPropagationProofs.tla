--------------------- MODULE PermissionsPropagationProofs ---------------------
(***************************************************************************)
(* In every instance of PermissionsPropagation, whatever the items, the    *)
(* relations, the grants and the number of calls, permissions that are out *)
(* of date are marked (StaleIsMarked).                                     *)
(*                                                                         *)
(* StaleIsMarked is inductive together with Shape: marks and rows are of   *)
(* existing items, only pairs with a row are marked 'children', and there  *)
(* is nothing about items that do not exist.  The argument is local: an    *)
(* action changes what an item's permissions should be only through the    *)
(* item's own grants (the triggers mark the item) or through a parent with *)
(* a row (the triggers, or the turn of the loop itself, mark the parent);  *)
(* and a turn takes a mark away from an item only when it recomputes it or *)
(* hands the mark down.                                                    *)
(*                                                                         *)
(* That nothing is out of date once the loops have ended needs more: the   *)
(* relations stay acyclic, so a turn that finds nothing to process leaves  *)
(* no mark behind.                                                         *)
(***************************************************************************)
EXTENDS PermissionsPropagation, TLAPS

MarksShape(m) ==
    /\ m = [self |-> m.self, children |-> m.children]
    /\ m.self \subseteq items
    /\ m.children \subseteq rows

Shape ==
    /\ items \subseteq Items /\ rows \subseteq items
    /\ rel \subseteq [parent : items, child : items, kind : Kinds]
    /\ granted \in [Items -> [Origins -> Permissions \cup {NoGrant}]]
    /\ generated = [i \in Items |-> generated[i]]
    /\ MarksShape(marks) /\ MarksShape(syncMarks)
    /\ \A i \in Items \ items :
          generated[i] = NoPermissions /\ \A o \in Origins : granted[i][o] = NoGrant

\* What StaleIsMarked says of one item.
Fine(i) == generated[i] = Computed(i) \/ i \in unlinked \/ IsMarked(i)

\* An item without grants and without parents has no permissions.
LEMMA NothingFromNothing == Aggregate({}, {}) = NoPermissions
<1>1. GreatestOf({}) = 1
  BY DEF GreatestOf, Max
<1>2. /\ {g.view : g \in {}} = {} /\ {g.grant_view : g \in {}} = {}
      /\ {g.watch : g \in {}} = {} /\ {g.edit : g \in {}} = {}
  OBVIOUS
<1> QED
  BY <1>1, <1>2 DEF Aggregate, NoPermissions

\* Permissions depend on the grants on the item and on what comes from above only.
LEMMA ComputedSame ==
    ASSUME NEW i, GrantedOn(i)' = GrantedOn(i), Above(i)' = Above(i)
    PROVE  Computed(i)' = Computed(i)
  BY DEF Computed

\* What comes from above depends on the relations and the rows of the parents only.
LEMMA AboveSame ==
    ASSUME NEW i,
           \A r : r.child = i => ((r \in rel /\ r.parent \in rows) <=>
                                  (r \in rel' /\ r.parent \in rows')),
           \A r \in rel : r.child = i /\ r.parent \in rows =>
                            generated'[r.parent] = generated[r.parent]
    PROVE  Above(i)' = Above(i)
<1> DEFINE Old == {x \in rel : x.child = i /\ x.parent \in rows}
           New == {x \in rel' : x.child = i /\ x.parent \in rows'}
<1>1. New = Old
  OBVIOUS
<1>2. \A r \in Old : generated'[r.parent] = generated[r.parent]
  OBVIOUS
<1>3. Above(i) = {[kind |-> r.kind, parent |-> generated[r.parent]] : r \in Old}
  BY DEF Above
<1>4. Above(i)' = {[kind |-> r.kind, parent |-> generated'[r.parent]] : r \in New}
  BY DEF Above
<1> HIDE DEF Old, New
<1> QED
  BY <1>1, <1>2, <1>3, <1>4

\* The marks m cover the marks n: nothing marked in n is left out by m.
Covers(m, n) == n.self \subseteq m.self /\ n.children \subseteq m.self \cup m.children

\* An item stays marked while the relations to it stay and the marks are covered.
LEMMA MarkedStays ==
    ASSUME NEW i, IsMarked(i),
           \A r \in rel : r.child = i => r \in rel',
           Covers(marks', marks), Covers(syncMarks', syncMarks)
    PROVE  IsMarked(i)'
  BY DEF IsMarked, Covers

\* The triggers only add to the marks.
LEMMA TriggersCover ==
    ASSUME NEW m, MarksShape(m)
    PROVE  /\ Covers(m, m)
           /\ \A i : Covers(MarkSelf(m, i), m) /\ i \in MarkSelf(m, i).self
           /\ \A S : /\ Covers(MarkChildren(m, S), m)
                     /\ \A p \in S \cap rows : p \in MarkChildren(m, S).self
                                                    \cup MarkChildren(m, S).children
           /\ \A i, o, g : Covers(GrantedChanged(m, i, o, g), m)
  BY DEF MarksShape, Covers, MarkSelf, MarkChildren, GrantedChanged

\* A change of the grants on the item k, marked by the triggers in one of the two tables.
GrantStep(k, o, g) ==
    /\ k \in items /\ o \in Origins
    /\ SetGranted(k, o, g)
    /\ \/ marks' = GrantedChanged(marks, k, o, g) /\ syncMarks' = syncMarks
       \/ syncMarks' = GrantedChanged(syncMarks, k, o, g) /\ marks' = marks
    /\ UNCHANGED <<items, rel, rows, generated, unlinked>>

\* A change of one grant keeps what StaleIsMarked says of every item: the trigger marks the item.
LEMMA GrantStepFine ==
    ASSUME Shape, NEW k, NEW o, NEW g, GrantStep(k, o, g),
           NEW i \in items, Fine(i)
    PROVE  Fine(i)'
<1>1. Covers(marks', marks) /\ Covers(syncMarks', syncMarks)
  BY TriggersCover DEF Shape, GrantStep
<1>2. Above(i)' = Above(i)
  BY AboveSame DEF GrantStep
<1>3. CASE i # k \/ granted[k][o] = g
  <2>1. \A p \in Origins : granted'[i][p] = granted[i][p]
    BY <1>3 DEF Shape, GrantStep, SetGranted
  <2>2. GrantedOn(i)' = GrantedOn(i)
    BY <2>1 DEF GrantedOn
  <2>3. Computed(i)' = Computed(i)
    BY <1>2, <2>2, ComputedSame
  <2>4. IsMarked(i) => IsMarked(i)'
    BY <1>1, MarkedStays DEF GrantStep
  <2> QED
    BY <2>3, <2>4 DEF Fine, GrantStep
<1>4. CASE i = k /\ granted[k][o] # g
  <2>1. i \in marks'.self \/ i \in syncMarks'.self
    BY <1>4, TriggersCover DEF GrantStep, GrantedChanged, Shape
  <2>2. IsMarked(i)'
    BY <2>1 DEF IsMarked
  <2> QED
    BY <2>2 DEF Fine
<1> QED
  BY <1>3, <1>4

\* itemUpdate: the item is marked if its relations change; children it loses are unlinked.
LEMMA UpdateItemFine ==
    ASSUME Shape, NEW k, NEW kindOf, UpdateItem(k, kindOf),
           NEW i \in items, Fine(i)
    PROVE  Fine(i)'
<1> DEFINE old == {r \in rel : r.parent = k}
           new == RelationsTo(k, kindOf)
<1>1. /\ rel' = (rel \ old) \cup new
      /\ marks' = IF old = new THEN marks ELSE MarkChildren(marks, {k})
      /\ unlinked' = unlinked \cup ({r.child : r \in old} \ DOMAIN kindOf)
      /\ UNCHANGED <<granted, rows, generated, syncMarks>>
  BY DEF UpdateItem, Service
<1>2. \A r \in new : r.parent = k
  BY DEF RelationsTo
<1>3. Covers(marks', marks) /\ Covers(syncMarks', syncMarks)
  BY <1>1, TriggersCover DEF Shape
<1>4. GrantedOn(i)' = GrantedOn(i)
  BY <1>1 DEF GrantedOn
<1>5. CASE old = new \/ ~\E r \in old \cup new : r.child = i
  <2>1. \A r : r.child = i => (r \in rel <=> r \in rel')
    BY <1>1, <1>5
  <2>2. Above(i)' = Above(i)
    BY <1>1, <2>1, AboveSame
  <2>3. Computed(i)' = Computed(i)
    BY <1>4, <2>2, ComputedSame
  <2>4. IsMarked(i) => IsMarked(i)'
    BY <1>3, <2>1, MarkedStays
  <2> QED
    BY <1>1, <2>3, <2>4 DEF Fine
<1>6. CASE old # new /\ i \notin DOMAIN kindOf /\ \E r \in old : r.child = i
  <2>1. i \in unlinked'
    BY <1>1, <1>6
  <2> QED
    BY <2>1 DEF Fine
<1>7. CASE old # new /\ i \in DOMAIN kindOf
  <2> DEFINE r == [parent |-> k, child |-> i, kind |-> kindOf[i]]
  <2>1. r \in new /\ r.child = i
    BY <1>7 DEF RelationsTo
  <2>2. r \in rel' /\ r.parent = k
    BY <1>1, <1>2, <2>1
  <2>3. CASE k \in rows
    <3>1. k \in marks'.self \cup marks'.children
      BY <1>1, <1>7, <2>3, TriggersCover DEF Shape
    <3>2. IsMarked(i)'
      BY <2>1, <2>2, <3>1 DEF IsMarked
    <3> QED
      BY <3>2 DEF Fine
  <2>4. CASE k \notin rows
    <3>1. \A x : x.child = i => ((x \in rel /\ x.parent \in rows) <=>
                                (x \in rel' /\ x.parent \in rows'))
      BY <1>1, <1>2, <2>4
    <3>2. Above(i)' = Above(i)
      BY <1>1, <3>1, AboveSame
    <3>3. Computed(i)' = Computed(i)
      BY <1>4, <3>2, ComputedSame
    <3>4. ASSUME IsMarked(i) PROVE IsMarked(i)'
      <4>1. PICK m \in {marks, syncMarks} :
              \/ i \in m.self
              \/ \E x \in rel : x.child = i /\ x.parent \in m.self \cup m.children
        BY <3>4 DEF IsMarked
      <4>2. PICK n \in {marks', syncMarks'} : Covers(n, m)
        BY <1>3, <4>1
      <4>3. CASE i \in m.self
        BY <4>2, <4>3 DEF IsMarked, Covers
      <4>4. CASE \E x \in rel : x.child = i /\ x.parent \in m.self \cup m.children
        <5>1. PICK x \in rel : x.child = i /\ x.parent \in m.self \cup m.children
          BY <4>4
        <5>2. CASE x \in rel'
          BY <4>2, <5>1, <5>2 DEF IsMarked, Covers
        <5>3. CASE x \notin rel'
          <6>1. x.parent = k
            BY <1>1, <5>1, <5>3
          <6>2. r.parent \in n.self \cup n.children
            BY <2>2, <4>2, <5>1, <6>1 DEF Covers
          <6> QED
            BY <2>1, <2>2, <4>2, <6>2 DEF IsMarked
        <5> QED
          BY <5>2, <5>3
      <4> QED
        BY <4>1, <4>3, <4>4
    <3> QED
      BY <1>1, <3>3, <3>4 DEF Fine
  <2> QED
    BY <2>3, <2>4
<1>8. \A r \in new : r.child \in DOMAIN kindOf
  BY DEF RelationsTo
<1> QED
  BY <1>5, <1>6, <1>7, <1>8

\* itemCreate: nothing comes from an item without a row, so only the item itself changes.
LEMMA CreateItemFine ==
    ASSUME Shape, NEW k \in Items, NEW isCreator \in BOOLEAN, NEW P, NEW kind, NEW kindOf,
           P \subseteq items, CreateItem(k, isCreator, P, kind, kindOf),
           \A j \in items : Fine(j), NEW i \in items'
    PROVE  Fine(i)'
<1> DEFINE own == IF isCreator THEN Ownership ELSE NoGrant
           fromParent == {[parent |-> p, child |-> k, kind |-> kind] : p \in P}
           step == GrantedChanged(marks, k, "self", own)
<1>1. /\ k \notin items /\ k \notin rows
      /\ items' = items \cup {k}
      /\ granted' = [granted EXCEPT ![k]["self"] = own]
      /\ rel' = rel \cup RelationsTo(k, kindOf) \cup fromParent
      /\ marks' = MarkChildren(step, P \cup {k})
      /\ UNCHANGED <<rows, generated, unlinked, syncMarks>>
  BY DEF CreateItem, Service, SetGranted, Shape
<1>2. /\ \A r \in RelationsTo(k, kindOf) : r.parent = k
      /\ \A r \in fromParent : r.child = k /\ r.parent \in P
      /\ \A r \in rel : r.parent # k /\ r.child # k
  BY <1>1 DEF RelationsTo, Shape
<1>3. /\ step = [self |-> step.self, children |-> step.children]
      /\ Covers(step, marks)
      /\ isCreator => k \in step.self
  <2>1. k \in Items \ items /\ "self" \in Origins
    BY <1>1 DEF Origins
  <2>2. granted[k]["self"] = NoGrant
    BY <2>1 DEF Shape
  <2>3. isCreator => own # NoGrant
    <3>1. Ownership \in Permissions
      BY DEF Ownership, Permissions
    <3> QED
      BY <3>1, PermissionConstants
  <2> QED
    BY <2>2, <2>3 DEF GrantedChanged, MarkSelf, Covers, Shape, MarksShape
<1>4. /\ Covers(marks', marks) /\ Covers(syncMarks', syncMarks)
      /\ isCreator => k \in marks'.self
      /\ P \cap rows \subseteq marks'.self \cup marks'.children
  BY <1>1, <1>3 DEF MarkChildren, Covers
<1>5. CASE i \in items
  <2>1. i # k
    BY <1>1, <1>5
  <2>2. \A r : r.child = i => ((r \in rel /\ r.parent \in rows) <=>
                               (r \in rel' /\ r.parent \in rows'))
    BY <1>1, <1>2, <2>1
  <2>3. Above(i)' = Above(i)
    BY <1>1, <2>2, AboveSame
  <2>4. \A o \in Origins : granted'[i][o] = granted[i][o]
    BY <1>1, <1>5, <2>1 DEF Shape
  <2>5. GrantedOn(i)' = GrantedOn(i)
    BY <2>4 DEF GrantedOn
  <2>6. Computed(i)' = Computed(i)
    BY <2>3, <2>5, ComputedSame
  <2>7. IsMarked(i) => IsMarked(i)'
    BY <1>1, <1>4, MarkedStays
  <2> QED
    BY <1>1, <1>5, <2>6, <2>7 DEF Fine
<1>6. CASE i = k /\ isCreator
  <2>1. IsMarked(i)'
    BY <1>4, <1>6 DEF IsMarked
  <2> QED
    BY <2>1 DEF Fine
<1>7. CASE i = k /\ ~isCreator /\ P \cap rows # {}
  <2>1. PICK p \in P : p \in rows
    BY <1>7
  <2> DEFINE r == [parent |-> p, child |-> k, kind |-> kind]
  <2>2. r \in rel' /\ r.child = i /\ r.parent = p
    BY <1>1, <1>7, <2>1
  <2>3. IsMarked(i)'
    BY <1>4, <2>1, <2>2 DEF IsMarked
  <2> QED
    BY <2>3 DEF Fine
<1>8. CASE i = k /\ ~isCreator /\ P \cap rows = {}
  <2>1. \A o \in Origins : granted'[k][o] = NoGrant
    BY <1>1, <1>8 DEF Shape
  <2>2. GrantedOn(k)' = {}
    BY <2>1 DEF GrantedOn
  <2>3. {x \in rel' : x.child = k /\ x.parent \in rows'} = {}
    BY <1>1, <1>2, <1>8
  <2>4. Above(k)' = {}
    BY <2>3 DEF Above
  <2>5. Computed(k)' = NoPermissions
    BY <2>2, <2>4, NothingFromNothing DEF Computed
  <2>6. generated'[k] = NoPermissions
    BY <1>1 DEF Shape
  <2> QED
    BY <1>8, <2>5, <2>6 DEF Fine
<1> QED
  BY <1>1, <1>5, <1>6, <1>7, <1>8

\* itemDelete: the item has no children, so nothing else changes.
LEMMA DeleteItemFine ==
    ASSUME Shape, NEW k \in Items, DeleteItem(k), NEW i \in items', Fine(i)
    PROVE  Fine(i)'
<1>1. /\ i # k
      /\ rel' = {r \in rel : r.child # k}
      /\ granted' = [granted EXCEPT ![k] = [o \in Origins |-> NoGrant]]
      /\ rows' = rows \ {k}
      /\ generated' = [generated EXCEPT ![k] = NoPermissions]
      /\ marks' = CascadeToMarks(marks, k) /\ syncMarks' = syncMarks
      /\ unlinked' = unlinked \ {k}
      /\ items' \subseteq items
  BY DEF DeleteItem, Service
<1>2. \A r \in rel : r.parent # k
  BY DEF DeleteItem, ChildrenOf
<1>3. i \in Items
  BY <1>1 DEF Shape
<1>4. \A r : r.child = i => ((r \in rel /\ r.parent \in rows) <=>
                             (r \in rel' /\ r.parent \in rows'))
  BY <1>1, <1>2
<1>5. \A r \in rel : r.child = i /\ r.parent \in rows =>
                        generated'[r.parent] = generated[r.parent]
  BY <1>1, <1>2 DEF Shape
<1>6. Above(i)' = Above(i)
  BY <1>4, <1>5, AboveSame
<1>7. GrantedOn(i)' = GrantedOn(i)
  <2>1. granted'[i] = granted[i]
    BY <1>1, <1>3 DEF Shape
  <2> QED
    BY <2>1 DEF GrantedOn
<1>8. Computed(i)' = Computed(i) /\ generated'[i] = generated[i]
  BY <1>1, <1>3, <1>6, <1>7, ComputedSame DEF Shape
<1>9. ASSUME IsMarked(i) PROVE IsMarked(i)'
  <2>1. \A x : x # k => /\ x \in marks.self => x \in marks'.self
                        /\ x \in marks.children => x \in marks'.children
    BY <1>1 DEF CascadeToMarks
  <2>2. \A r \in rel : r.child = i => r \in rel' /\ r.parent # k
    BY <1>1, <1>2
  <2> QED
    BY <1>1, <1>9, <2>1, <2>2 DEF IsMarked
<1> QED
  BY <1>1, <1>8, <1>9 DEF Fine

\* A turn of the loop on the marks m that leaves the marks n.
TurnStep(m, n) ==
    LET P == Processing(m)
    IN  UpdatePermissionsGenerated(P) /\ n = MarksAfter(m, P)

\* A turn: an item whose parent was processed is marked through it; another one is
\* recomputed, or keeps its mark, or gets the mark of a parent.
LEMMA TurnFine ==
    ASSUME Shape, NEW m \in {marks, syncMarks}, NEW n \in {marks', syncMarks'},
           TurnStep(m, n),
           \A x \in {marks, syncMarks} : x = m \/ x \in {marks', syncMarks'},
           NEW i \in items, Fine(i)
    PROVE  Fine(i)'
<1> DEFINE P == Processing(m)
           self == MarkChildrenOfChildrenAsSelf(m)
<1>1. /\ rows' = rows \cup P
      /\ generated' = [j \in Items |-> IF j \in P THEN Computed(j) ELSE generated[j]]
      /\ unlinked' = unlinked \ P
      /\ n = [self |-> self \ P, children |-> P]
      /\ UNCHANGED <<items, rel, granted>>
  BY DEF TurnStep, UpdatePermissionsGenerated, MarksAfter
<1>2. i \in Items
  BY DEF Shape
<1>3. n.self = self \ P /\ n.children = P
  BY <1>1
<1> HIDE DEF P, self
<1>4. CASE \E r \in rel : r.child = i /\ r.parent \in P
  <2>1. IsMarked(i)'
    BY <1>1, <1>3, <1>4 DEF IsMarked
  <2> QED
    BY <2>1 DEF Fine
<1>5. CASE ~\E r \in rel : r.child = i /\ r.parent \in P
  <2>1. \A r : r.child = i => ((r \in rel /\ r.parent \in rows) <=>
                               (r \in rel' /\ r.parent \in rows'))
    BY <1>1, <1>5
  <2>2. \A r \in rel : r.child = i /\ r.parent \in rows =>
                          generated'[r.parent] = generated[r.parent]
    BY <1>1, <1>5 DEF Shape
  <2>3. Above(i)' = Above(i)
    BY <2>1, <2>2, AboveSame
  <2>4. GrantedOn(i)' = GrantedOn(i)
    BY <1>1 DEF GrantedOn
  <2>5. Computed(i)' = Computed(i)
    BY <2>3, <2>4, ComputedSame
  <2>6. CASE i \in P
    BY <1>1, <1>2, <2>5, <2>6 DEF Fine
  <2>7. CASE i \notin P
    <3>1. generated'[i] = generated[i] /\ (i \in unlinked => i \in unlinked')
      BY <1>1, <1>2, <2>7
    <3>2. ASSUME IsMarked(i) PROVE IsMarked(i)'
      <4>1. PICK x \in {marks, syncMarks} :
              \/ i \in x.self
              \/ \E r \in rel : r.child = i /\ r.parent \in x.self \cup x.children
        BY <3>2 DEF IsMarked
      <4>2. CASE x # m
        BY <1>1, <4>1, <4>2 DEF IsMarked
      <4>3. CASE x = m
        <5>1. m.self \subseteq self
          BY DEF self, MarkChildrenOfChildrenAsSelf
        <5>2. CASE i \in m.self
          BY <1>3, <2>7, <5>1, <5>2 DEF IsMarked
        <5>3. CASE \E r \in rel : r.child = i /\ r.parent \in m.self
          BY <1>1, <1>3, <1>5, <5>1, <5>3 DEF IsMarked
        <5>4. CASE \E r \in rel : r.child = i /\ r.parent \in m.children
          <6>1. m.children \subseteq rows
            BY DEF Shape, MarksShape
          <6>2. i \in self
            BY <5>4, <6>1 DEF self, MarkChildrenOfChildrenAsSelf, ChildrenOf
          <6> QED
            BY <1>3, <2>7, <6>2 DEF IsMarked
        <5> QED
          BY <4>1, <4>3, <5>2, <5>3, <5>4
      <4> QED
        BY <4>2, <4>3
    <3> QED
      BY <2>5, <3>1, <3>2 DEF Fine
  <2> QED
    BY <2>6, <2>7
<1> QED
  BY <1>4, <1>5

\* The triggers of permissions_granted and a turn keep the shape of the marks.
LEMMA MarksKeepShape ==
    ASSUME NEW m, MarksShape(m)
    PROVE  /\ \A k \in items : \A o, g : MarksShape(GrantedChanged(m, k, o, g))
           /\ \A S : MarksShape(MarkChildren(m, S))
  BY DEF MarksShape, GrantedChanged, MarkSelf, MarkChildren

\* A change of one grant, through either table of marks, keeps the shape.
LEMMA GrantStepShape ==
    ASSUME Shape, NEW k, NEW o, NEW g \in Permissions \cup {NoGrant}, GrantStep(k, o, g)
    PROVE  Shape'
<1>1. MarksShape(marks') /\ MarksShape(syncMarks')
  BY MarksKeepShape DEF GrantStep, Shape
<1>2. MarksShape(marks)' /\ MarksShape(syncMarks)'
  BY <1>1 DEF GrantStep, MarksShape
<1>3. granted' \in [Items -> [Origins -> Permissions \cup {NoGrant}]]
  BY DEF GrantStep, Shape, SetGranted
<1>4. \A i \in Items \ items : granted'[i] = granted[i]
  BY DEF GrantStep, Shape, SetGranted
<1> QED
  BY <1>2, <1>3, <1>4 DEF GrantStep, Shape

\* A turn of either loop keeps the shape: it marks 'children' only where it wrote a row.
LEMMA TurnShape ==
    ASSUME Shape, NEW m \in {marks, syncMarks}, NEW n, TurnStep(m, n),
           marks' \in {marks, n}, syncMarks' \in {syncMarks, n}
    PROVE  Shape'
<1> DEFINE P == Processing(m)
           self == MarkChildrenOfChildrenAsSelf(m)
<1>1. self \subseteq items /\ P \subseteq self
  BY DEF Processing, MarkChildrenOfChildrenAsSelf, ChildrenOf, Shape, MarksShape
<1>2. /\ rows' = rows \cup P
      /\ generated' = [j \in Items |-> IF j \in P THEN Computed(j) ELSE generated[j]]
      /\ n = [self |-> self \ P, children |-> P]
      /\ UNCHANGED <<items, rel, granted>>
  BY DEF TurnStep, UpdatePermissionsGenerated, MarksAfter
<1> HIDE DEF P, self
<1>3. MarksShape(marks)' /\ MarksShape(syncMarks)'
  BY <1>1, <1>2 DEF Shape, MarksShape
<1>4. \A i \in Items \ items : generated'[i] = generated[i]
  BY <1>1, <1>2
<1> QED
  BY <1>1, <1>2, <1>3, <1>4 DEF Shape

\* itemUpdate keeps the shape.
LEMMA UpdateItemShape ==
    ASSUME Shape, NEW k \in Items, NEW C \in SUBSET items, NEW kindOf \in [C -> Kinds],
           UpdateItem(k, kindOf)
    PROVE  Shape'
<1>1. RelationsTo(k, kindOf) \subseteq [parent : items, child : items, kind : Kinds]
  BY DEF RelationsTo, UpdateItem
<1>2. /\ rel' \subseteq rel \cup RelationsTo(k, kindOf)
      /\ marks' = marks \/ marks' = MarkChildren(marks, {k})
      /\ UNCHANGED <<items, granted, rows, generated, syncMarks>>
  BY DEF UpdateItem, Service
<1>3. MarksShape(marks)' /\ MarksShape(syncMarks)'
  BY <1>2, MarksKeepShape DEF Shape, MarksShape
<1> QED
  BY <1>1, <1>2, <1>3 DEF Shape

\* itemCreate keeps the shape: the new item had neither rows nor grants before.
LEMMA CreateItemShape ==
    ASSUME Shape, NEW k \in Items, NEW isCreator \in BOOLEAN, NEW P \in SUBSET items,
           NEW C \in SUBSET items, NEW kind \in Kinds, NEW kindOf \in [C -> Kinds],
           CreateItem(k, isCreator, P, kind, kindOf)
    PROVE  Shape'
<1> DEFINE own == IF isCreator THEN Ownership ELSE NoGrant
           fromParent == {[parent |-> p, child |-> k, kind |-> kind] : p \in P}
           step == GrantedChanged(marks, k, "self", own)
<1>1. /\ k \notin items
      /\ items' = items \cup {k}
      /\ granted' = [granted EXCEPT ![k]["self"] = own]
      /\ rel' = rel \cup RelationsTo(k, kindOf) \cup fromParent
      /\ marks' = MarkChildren(step, P \cup {k})
      /\ UNCHANGED <<rows, generated, syncMarks>>
  BY DEF CreateItem, Service, SetGranted
<1>2. own \in Permissions \cup {NoGrant}
  BY DEF Ownership, Permissions
<1>3. granted' \in [Items -> [Origins -> Permissions \cup {NoGrant}]]
  BY <1>1, <1>2 DEF Shape
<1>4. RelationsTo(k, kindOf) \subseteq [parent : items', child : items', kind : Kinds]
  BY <1>1 DEF RelationsTo
<1>5. rel' \subseteq [parent : items', child : items', kind : Kinds]
  BY <1>1, <1>4 DEF Shape
<1>6. MarksShape(marks)' /\ MarksShape(syncMarks)'
  <2>1. /\ step = [self |-> step.self, children |-> step.children]
        /\ step.self \subseteq items' /\ step.children \subseteq rows
    BY <1>1 DEF GrantedChanged, MarkSelf, Shape, MarksShape
  <2> QED
    BY <1>1, <2>1 DEF Shape, MarksShape, MarkChildren
<1>7. \A i \in Items \ items' : granted'[i] = granted[i]
  BY <1>1 DEF Shape
<1> QED
  BY <1>1, <1>3, <1>5, <1>6, <1>7 DEF Shape

\* itemDelete keeps the shape: the foreign keys remove rows, grants and marks of the item.
LEMMA DeleteItemShape ==
    ASSUME Shape, NEW k \in Items, DeleteItem(k), ~(k \in syncMarks.self \cup syncMarks.children)
    PROVE  Shape'
<1>1. /\ items' = items \ {k}
      /\ rel' = {r \in rel : r.child # k}
      /\ granted' = [granted EXCEPT ![k] = [o \in Origins |-> NoGrant]]
      /\ rows' = rows \ {k}
      /\ generated' = [generated EXCEPT ![k] = NoPermissions]
      /\ marks' = CascadeToMarks(marks, k) /\ syncMarks' = syncMarks
  BY DEF DeleteItem, Service
<1>2. \A r \in rel : r.parent # k
  BY DEF DeleteItem, ChildrenOf
<1>3. rel' \subseteq [parent : items', child : items', kind : Kinds]
  BY <1>1, <1>2 DEF Shape
<1>4. granted' \in [Items -> [Origins -> Permissions \cup {NoGrant}]]
  BY <1>1 DEF Shape
<1>5. MarksShape(marks)' /\ MarksShape(syncMarks)'
  BY <1>1 DEF Shape, MarksShape, CascadeToMarks
<1>6. \A i \in Items \ items' :
        generated'[i] = NoPermissions /\ \A o \in Origins : granted'[i][o] = NoGrant
  BY <1>1 DEF Shape
<1> QED
  BY <1>1, <1>3, <1>4, <1>5, <1>6 DEF Shape

-------------------------------------------------------------------------------
(***************************************************************************)
(* The relations never get a cycle, so a turn on marks with a 'self' pair  *)
(* processes at least one.                                                 *)
(***************************************************************************)
Acyclic ==
    \A T \in SUBSET items : T # {} =>
        \E x \in T : \A r \in rel : r.child = x => r.parent \notin T

\* The parents of an item and of its ancestors are its ancestors (items_ancestors).
LEMMA ParentsAreAncestors ==
    ASSUME Shape, NEW i, NEW r \in rel, r.child \in AncestorsOf(i) \cup {i}
    PROVE  r.parent \in AncestorsOf(i)
<1>1. r.parent \in Items
  BY DEF Shape
<1> QED
  BY <1>1 DEF AncestorsOf

\* An ancestor is a parent, or an ancestor of a parent.
LEMMA AncestorsThroughParents ==
    ASSUME Shape, NEW i, NEW a \in AncestorsOf(i)
    PROVE  \E r \in rel : r.child = i /\ (a = r.parent \/ a \in AncestorsOf(r.parent))
<1> DEFINE S == {b \in Items : \E r \in rel :
                    r.child = i /\ (b = r.parent \/ b \in AncestorsOf(r.parent))}
<1>1. SUFFICES ASSUME NEW x \in rel, x.child \in S \cup {i}
               PROVE  x.parent \in S
  <2>1. S \in SUBSET Items /\ \A r \in rel : r.child \in S \cup {i} => r.parent \in S
    BY <1>1
  <2>2. a \in S
    <3> HIDE DEF S
    <3> QED
      BY <2>1, Zenon DEF AncestorsOf
  <2> QED
    BY <2>2
<1>2. x.parent \in Items
  BY DEF Shape
<1>3. CASE x.child = i
  BY <1>2, <1>3
<1>4. CASE x.child \in S
  <2>1. PICK r \in rel : /\ r.child = i
                         /\ x.child = r.parent \/ x.child \in AncestorsOf(r.parent)
    BY <1>4
  <2>2. x.parent \in AncestorsOf(r.parent)
    BY <2>1, ParentsAreAncestors
  <2> QED
    BY <1>2, <2>1, <2>2
<1> QED
  BY <1>1, <1>3, <1>4

\* Among 'self' pairs there is one that is not below another.
LEMMA SomethingToProcess ==
    ASSUME Shape, Acyclic, NEW self, self \subseteq items, self # {}
    PROVE  \E i \in self : AncestorsOf(i) \cap self = {}
<1> DEFINE T == {x \in items : x \in self \/ AncestorsOf(x) \cap self # {}}
<1>1. T # {} /\ T \in SUBSET items
  OBVIOUS
<1>2. PICK x \in T : \A r \in rel : r.child = x => r.parent \notin T
  BY <1>1 DEF Acyclic
<1>3. AncestorsOf(x) \cap self = {}
  <2>1. SUFFICES ASSUME NEW a \in AncestorsOf(x), a \in self PROVE FALSE
    OBVIOUS
  <2>2. PICK r \in rel : r.child = x /\ (a = r.parent \/ a \in AncestorsOf(r.parent))
    BY <2>1, AncestorsThroughParents
  <2>3. r.parent \in items
    BY DEF Shape
  <2>4. r.parent \in T
    BY <2>1, <2>2, <2>3
  <2> QED
    BY <1>2, <2>2, <2>4
<1>4. x \in self
  BY <1>3
<1> QED
  BY <1>3, <1>4

\* itemUpdate: among the item and its ancestors nothing changes, and nothing points into
\* them from below.
LEMMA UpdateItemAcyclic ==
    ASSUME Shape, Acyclic, NEW k, NEW kindOf, UpdateItem(k, kindOf)
    PROVE  Acyclic'
<1> DEFINE A == {k} \cup AncestorsOf(k)
<1>1. /\ items' = items
      /\ \A r \in rel' : r \in rel \/ (r.parent = k /\ r.child \in DOMAIN kindOf)
      /\ DOMAIN kindOf \cap A = {}
  BY DEF UpdateItem, RelationsTo, CanBecomeChildren
<1>2. \A r \in rel : r.child \in A => r.parent \in A
  BY ParentsAreAncestors
<1> HIDE DEF A
<1>3. SUFFICES ASSUME NEW T \in SUBSET items, T # {}
               PROVE  \E x \in T : \A r \in rel' : r.child = x => r.parent \notin T
  BY <1>1 DEF Acyclic
<1>4. CASE T \cap A # {}
  <2>1. T \cap A \in SUBSET items
    OBVIOUS
  <2>2. PICK x \in T \cap A : \A r \in rel : r.child = x => r.parent \notin T \cap A
    BY <1>4, <2>1 DEF Acyclic
  <2> QED
    BY <1>1, <1>2, <2>2
<1>5. CASE T \cap A = {}
  <2>1. k \notin T
    BY <1>5 DEF A
  <2>2. PICK x \in T : \A r \in rel : r.child = x => r.parent \notin T
    BY <1>3 DEF Acyclic
  <2> QED
    BY <1>1, <2>1, <2>2
<1> QED
  BY <1>4, <1>5

\* itemCreate keeps the relations acyclic: no child of the new item is an ancestor of it.
LEMMA CreateItemAcyclic ==
    ASSUME Shape, Acyclic, NEW k \in Items, NEW isCreator, NEW P, NEW kind, NEW C \in SUBSET items,
           NEW kindOf \in [C -> Kinds], P \in {{}} \cup {{p} : p \in items},
           CreateItem(k, isCreator, P, kind, kindOf)
    PROVE  Acyclic'
<1> DEFINE A == P \cup UNION {AncestorsOf(p) : p \in P}
<1>1. /\ k \notin items /\ items' = items \cup {k}
      /\ \A r \in rel' : \/ r \in rel
                         \/ r.parent = k /\ r.child \in C
                         \/ r.parent \in P /\ r.child = k
      /\ C \cap A = {}
  BY DEF CreateItem, RelationsTo
<1>2. \A r \in rel : r.child \in A => r.parent \in A
  BY ParentsAreAncestors
<1>3. \A r \in rel : r.child # k /\ r.parent # k
  BY <1>1 DEF Shape
<1>4. P \subseteq A
  OBVIOUS
<1> HIDE DEF A
<1>5. SUFFICES ASSUME NEW T \in SUBSET items', T # {}
               PROVE  \E x \in T : \A r \in rel' : r.child = x => r.parent \notin T
  BY DEF Acyclic
<1>6. CASE k \notin T
  <2>1. T \in SUBSET items
    BY <1>1, <1>6
  <2>2. PICK x \in T : \A r \in rel : r.child = x => r.parent \notin T
    BY <1>5, <2>1 DEF Acyclic
  <2> QED
    BY <1>1, <1>6, <2>2
<1>7. CASE k \in T /\ T \cap A \cap items # {}
  <2>1. T \cap A \cap items \in SUBSET items
    OBVIOUS
  <2>2. PICK x \in T \cap A \cap items :
                \A r \in rel : r.child = x => r.parent \notin T \cap A \cap items
    BY <1>7, <2>1 DEF Acyclic
  <2>3. \A r \in rel : r.child = x => r.parent \in A \cap items
    BY <1>2, <2>2 DEF Shape
  <2> QED
    BY <1>1, <2>2, <2>3
<1>8. CASE k \in T /\ T \cap A \cap items = {}
  <2>1. P \cap T = {}
    BY <1>1, <1>4, <1>8
  <2>2. \A r \in rel' : r.child = k => r.parent \notin T
    BY <1>1, <1>3, <2>1
  <2> QED
    BY <1>8, <2>2
<1> QED
  BY <1>6, <1>7, <1>8

\* A turn that processes nothing leaves no mark.
LEMMA LastTurnClears ==
    ASSUME Shape, Acyclic, NEW m \in {marks, syncMarks}, NEW n, TurnStep(m, n),
           Processing(m) = {}
    PROVE  n = NoMarks
<1>1. MarkChildrenOfChildrenAsSelf(m) \subseteq items
  BY DEF MarkChildrenOfChildrenAsSelf, ChildrenOf, Shape, MarksShape
<1>2. MarkChildrenOfChildrenAsSelf(m) = {}
  BY <1>1, SomethingToProcess DEF Processing
<1> QED
  BY <1>2 DEF TurnStep, MarksAfter, NoMarks

-------------------------------------------------------------------------------
\* No loop is due, running or lost.
Idle == ~due /\ ~running /\ ~lost

Inv ==
    /\ Shape
    /\ Acyclic
    /\ Idle => marks = NoMarks
    /\ ~inSync => syncMarks = NoMarks
    /\ StaleIsMarked

\* The invariant holds at the start.
LEMMA InitInv == Init => Inv
<1> SUFFICES ASSUME Init PROVE Inv
  OBVIOUS
<1> USE DEF Init
<1>1. Shape
  BY PermissionConstants DEF Shape, MarksShape, NoMarks
<1>2. Acyclic
  BY LinkedAcyclic DEF Acyclic
<1>3. ASSUME NEW i \in items PROVE generated[i] = Computed(i)
  <2>1. i \in Items
    BY PermissionConstants
  <2>2. GrantedOn(i) = {}
    BY <2>1 DEF GrantedOn
  <2>3. {x \in rel : x.child = i /\ x.parent \in rows} = {}
    OBVIOUS
  <2>4. Above(i) = {}
    BY <2>3 DEF Above
  <2> QED
    BY <2>1, <2>2, <2>4, NothingFromNothing DEF Computed
<1> QED
  BY <1>1, <1>2, <1>3 DEF Inv, StaleIsMarked

\* Steps on grants.
LEMMA GrantStepInv ==
    ASSUME Inv, NEW k, NEW o, NEW g \in Permissions \cup {NoGrant}, GrantStep(k, o, g)
    PROVE  Shape' /\ Acyclic' /\ StaleIsMarked'
<1>1. Shape'
  BY GrantStepShape DEF Inv
<1>2. Acyclic'
  BY DEF GrantStep, Inv, Acyclic
<1>3. ASSUME NEW i \in items' PROVE Fine(i)'
  <2>1. i \in items
    BY <1>3 DEF GrantStep
  <2>2. Fine(i)
    BY <2>1 DEF Inv, StaleIsMarked, Fine
  <2> QED
    BY <2>1, <2>2, GrantStepFine DEF Inv
<1> QED
  BY <1>1, <1>2, <1>3 DEF StaleIsMarked, Fine

\* Turns.
LEMMA TurnInv ==
    ASSUME Inv, NEW m \in {marks, syncMarks}, NEW n \in {marks', syncMarks'}, TurnStep(m, n),
           \A x \in {marks, syncMarks} : x = m \/ x \in {marks', syncMarks'},
           marks' \in {marks, n}, syncMarks' \in {syncMarks, n}
    PROVE  Shape' /\ Acyclic' /\ StaleIsMarked' /\ (Processing(m) = {} => n = NoMarks)
<1>1. Shape'
  BY TurnShape DEF Inv
<1>2. UNCHANGED <<items, rel>>
  BY DEF TurnStep, UpdatePermissionsGenerated
<1>3. Acyclic'
  BY <1>2 DEF Inv, Acyclic
<1>4. ASSUME NEW i \in items' PROVE Fine(i)'
  <2>1. i \in items
    BY <1>2, <1>4
  <2>2. Fine(i)
    BY <2>1 DEF Inv, StaleIsMarked, Fine
  <2> QED
    BY <2>1, <2>2, TurnFine DEF Inv
<1>5. Processing(m) = {} => n = NoMarks
  BY LastTurnClears DEF Inv
<1> QED
  BY <1>1, <1>3, <1>4, <1>5 DEF StaleIsMarked, Fine

\* Every service, turn and crash preserves the invariant.
LEMMA NextInv == Inv /\ [Next]_vars => Inv'
<1> SUFFICES ASSUME Inv, [Next]_vars PROVE Inv'
  OBVIOUS
<1>a. Shape /\ Acyclic /\ \A i \in items : Fine(i)
  BY DEF Inv, StaleIsMarked, Fine
<1>b. ContentAccess \in Permissions
  BY DEF ContentAccess, Permissions
\* A service leaves the synchronous marks alone and has its call due.
<1>c. Service => (Idle => marks = NoMarks)' /\ (~inSync => syncMarks = NoMarks)'
  BY DEF Inv, Service, Idle, NoMarks
<1>1. ASSUME NEW k \in Items, NEW g \in Grants, UpdatePermissions(k, g) PROVE Inv'
  <2>1. GrantStep(k, "group_membership", g) /\ g \in Permissions
    BY <1>1, PermissionConstants DEF UpdatePermissions, GrantStep, Service, Origins
  <2> QED
    BY <1>1, <1>c, <2>1, GrantStepInv DEF UpdatePermissions, Inv
<1>2. ASSUME NEW k \in Items, NEW o \in Origins, DeleteSource(k, o) PROVE Inv'
  <2>1. GrantStep(k, o, NoGrant)
    BY <1>2 DEF DeleteSource, GrantStep, Service
  <2> QED
    BY <1>2, <1>c, <2>1, GrantStepInv DEF DeleteSource, Inv
<1>3. ASSUME NEW k \in Items, Unlock(k) PROVE Inv'
  <2>1. GrantStep(k, "item_unlocking", ContentAccess)
    BY <1>3 DEF Unlock, GrantStep, Service, Origins
  <2> QED
    BY <1>3, <1>b, <1>c, <2>1, GrantStepInv DEF Unlock, Inv
<1>4. ASSUME NEW k \in Items, DeleteItem(k) PROVE Inv'
  <2>1. ~(k \in syncMarks.self \cup syncMarks.children)
    BY <1>4 DEF DeleteItem, Service, Inv, NoMarks
  <2>2. Shape'
    BY <1>4, <1>a, <2>1, DeleteItemShape
  <2>3. items' \subseteq items /\ rel' \subseteq rel /\ Service
    BY <1>4 DEF DeleteItem
  <2>4. Acyclic'
    BY <1>a, <2>3 DEF Acyclic
  <2>5. \A i \in items' : Fine(i)'
    BY <1>4, <1>a, <2>3, DeleteItemFine
  <2> QED
    BY <1>c, <2>2, <2>3, <2>4, <2>5 DEF Inv, StaleIsMarked, Fine
<1>5. ASSUME NEW k \in Items, SaveGradeUnlocks(k) PROVE Inv'
  <2>1. GrantStep(k, "item_unlocking", ContentAccess)
    BY <1>5 DEF SaveGradeUnlocks, GrantStep, Origins
  <2>2. (Idle => marks = NoMarks)' /\ (~inSync => syncMarks = NoMarks)'
    BY <1>5 DEF SaveGradeUnlocks, Inv, Idle, NoMarks
  <2> QED
    BY <1>b, <2>1, <2>2, GrantStepInv DEF Inv
<1>6. ASSUME NEW k \in Items, NEW C \in SUBSET items, NEW kindOf \in [C -> Kinds],
             UpdateItem(k, kindOf)
      PROVE  Inv'
  <2>1. Shape' /\ Acyclic'
    BY <1>6, <1>a, UpdateItemShape, UpdateItemAcyclic
  <2>2. items' = items /\ Service
    BY <1>6 DEF UpdateItem
  <2>3. \A i \in items' : Fine(i)'
    BY <1>6, <1>a, <2>2, UpdateItemFine
  <2> QED
    BY <1>c, <2>1, <2>2, <2>3 DEF Inv, StaleIsMarked, Fine
<1>7. ASSUME NEW k \in Items, NEW P \in {{}} \cup {{p} : p \in items}, NEW C \in SUBSET items,
             NEW isCreator \in BOOLEAN, NEW kind \in Kinds, NEW kindOf \in [C -> Kinds],
             CreateItem(k, isCreator, P, kind, kindOf)
      PROVE  Inv'
  <2>1. P \in SUBSET items
    OBVIOUS
  <2>2. Shape'
    BY <1>7, <1>a, <2>1, CreateItemShape
  <2>3. Acyclic'
    BY <1>7, <1>a, CreateItemAcyclic
  <2>4. \A i \in items' : Fine(i)'
    BY <1>7, <1>a, <2>1, CreateItemFine
  <2>5. Service
    BY <1>7 DEF CreateItem
  <2> QED
    BY <1>c, <2>2, <2>3, <2>4, <2>5 DEF Inv, StaleIsMarked, Fine
<1>8. CASE SyncTurn
  <2>1. TurnStep(syncMarks, syncMarks') /\ marks' = marks
    BY <1>8 DEF SyncTurn, TurnStep
  <2>2. /\ Shape' /\ Acyclic' /\ StaleIsMarked'
        /\ Processing(syncMarks) = {} => syncMarks' = NoMarks
    BY <2>1, TurnInv
  <2>3. (Idle => marks = NoMarks)' /\ (~inSync => syncMarks = NoMarks)'
    BY <1>8, <2>2 DEF SyncTurn, Inv, Idle, NoMarks
  <2> QED
    BY <2>2, <2>3 DEF Inv
<1>9. CASE Turn
  <2>1. TurnStep(marks, marks') /\ syncMarks' = syncMarks
    BY <1>9 DEF Turn, TurnStep
  <2>2. /\ Shape' /\ Acyclic' /\ StaleIsMarked'
        /\ Processing(marks) = {} => marks' = NoMarks
    BY <2>1, TurnInv
  <2>3. (Idle => marks = NoMarks)' /\ (~inSync => syncMarks = NoMarks)'
    BY <1>9, <2>2 DEF Turn, Inv, Idle, NoMarks
  <2> QED
    BY <2>2, <2>3 DEF Inv
<1>10. CASE StartPropagation \/ Die \/ UNCHANGED vars
  <2>1. UNCHANGED <<items, rel, granted, rows, generated, marks, syncMarks, inSync, unlinked>>
    BY <1>10 DEF StartPropagation, Die, vars, dataVars
  <2>2. Shape' /\ Acyclic' /\ StaleIsMarked'
    <3>1. Shape' /\ Acyclic'
      BY <1>a, <2>1 DEF Shape, MarksShape, Acyclic
    <3>2. ASSUME NEW i \in items PROVE Fine(i)'
      <4>1. GrantedOn(i)' = GrantedOn(i) /\ Above(i)' = Above(i)
        BY <2>1 DEF GrantedOn, Above
      <4>2. Computed(i)' = Computed(i)
        BY <4>1, ComputedSame
      <4>3. IsMarked(i)' <=> IsMarked(i)
        BY <2>1 DEF IsMarked
      <4> QED
        BY <1>a, <2>1, <4>2, <4>3 DEF Fine
    <3> QED
      BY <2>1, <3>1, <3>2 DEF StaleIsMarked, Fine
  <2>3. (Idle => marks = NoMarks)' /\ (~inSync => syncMarks = NoMarks)'
    BY <1>10, <2>1 DEF StartPropagation, Die, vars, Inv, Idle, NoMarks
  <2> QED
    BY <2>2, <2>3 DEF Inv
<1>11. CASE \E k \in Items : Unlock(k) \/ DeleteItem(k) \/ SaveGradeUnlocks(k)
  BY <1>3, <1>4, <1>5, <1>11
<1>12. CASE \E k \in Items, C \in SUBSET items : \E kindOf \in [C -> Kinds] : UpdateItem(k, kindOf)
  BY <1>6, <1>12
<1>13. CASE \E k \in Items, P \in {{}} \cup {{p} : p \in items}, C \in SUBSET items,
              isCreator \in BOOLEAN, kind \in Kinds :
              \E kindOf \in [C -> Kinds] : CreateItem(k, isCreator, P, kind, kindOf)
  <2>1. PICK k \in Items, P \in {{}} \cup {{p} : p \in items}, C \in SUBSET items,
             isCreator \in BOOLEAN, kind \in Kinds :
             \E kindOf \in [C -> Kinds] : CreateItem(k, isCreator, P, kind, kindOf)
    BY <1>13
  <2>2. PICK kindOf \in [C -> Kinds] : CreateItem(k, isCreator, P, kind, kindOf)
    BY <2>1
  <2> QED
    BY <1>7, <2>2
<1>14. CASE Next
  BY <1>1, <1>2, <1>8, <1>9, <1>10, <1>11, <1>12, <1>13, <1>14 DEF Next
<1> QED
  BY <1>10, <1>14

\* The strengthened invariant, for all items, relations, grants and numbers of calls.
THEOREM Invariant == Spec => []Inv
<1> QED
  BY InitInv, NextInv, PTL DEF Spec

\* computeAllAccess and the triggers: in every state, permissions that are not what the
\* grants and the parents give are marked (or are those of a former child).
THEOREM StaleMarked == Spec => []StaleIsMarked
<1>1. Inv => StaleIsMarked
  BY DEF Inv
<1> QED
  BY <1>1, Invariant, PTL

\* computeAllAccess: once the loops have ended, the permissions of every item (but former
\* children) are what its grants and its parents' permissions give.
THEOREM UpToDateWhenIdle == Spec => []IdleMeansUpToDate
<1>1. Inv => IdleMeansUpToDate
  <2> SUFFICES ASSUME Inv, NoLoop, NEW i \in items, i \notin unlinked
               PROVE  generated[i] = Computed(i)
    BY DEF IdleMeansUpToDate
  <2>1. marks = NoMarks /\ syncMarks = NoMarks
    BY DEF Inv, NoLoop, Idle
  <2>2. ~IsMarked(i)
    BY <2>1 DEF IsMarked, NoMarks
  <2> QED
    BY <2>2 DEF Inv, StaleIsMarked
<1> QED
  BY <1>1, Invariant, PTL

\* itemCreate and itemUpdate: every set of items has one without a parent in it, whatever
\* relations are created and removed.
THEOREM ItemsStayAcyclic == Spec => []Acyclic
<1>1. Inv => Acyclic
  BY DEF Inv
<1> QED
  BY <1>1, Invariant, PTL

-------------------------------------------------------------------------------
\* The greatest of some levels is the lowest level or one of them.
LEMMA GreatestIsOne ==
    ASSUME NEW n \in 1..6, NEW S \in SUBSET (1..n)
    PROVE  GreatestOf(S) \in {1} \cup S /\ GreatestOf(S) \in 1..n
<1> DEFINE T == {1} \cup S
<1>1. T \subseteq 1..6 /\ 1 \in T
  OBVIOUS
<1> HIDE DEF T
<1>2. \E x \in T : \A y \in T : x >= y
  <2>1. CASE 6 \in T
    BY <1>1, <2>1
  <2>2. CASE 6 \notin T /\ 5 \in T
    BY <1>1, <2>2
  <2>3. CASE 6 \notin T /\ 5 \notin T /\ 4 \in T
    BY <1>1, <2>3
  <2>4. CASE 6 \notin T /\ 5 \notin T /\ 4 \notin T /\ 3 \in T
    BY <1>1, <2>4
  <2>5. CASE 6 \notin T /\ 5 \notin T /\ 4 \notin T /\ 3 \notin T
    BY <1>1, <2>5
  <2> QED
    BY <2>1, <2>2, <2>3, <2>4, <2>5
<1>3. Max(T) \in T
  BY <1>2 DEF Max
<1>4. GreatestOf(S) = Max(T)
  BY DEF GreatestOf, T
<1>5. T \subseteq 1..n /\ T = {1} \cup S
  BY DEF T
<1> QED
  BY <1>3, <1>4, <1>5

\* What a list of grants and of parents' permissions with their relations is made of.
Inputs(own, above) ==
    /\ own \subseteq Permissions
    /\ \A a \in above : a.kind \in RelationKinds /\ a.parent \in Permissions

\* What goes through a relation is a level, and at most the one before the top.
LEMMA ThroughRelations ==
    ASSUME NEW a, a.kind \in RelationKinds, a.parent \in Permissions
    PROVE  /\ ViewThrough(a.parent.view, a.kind) \in 1..5
           /\ LevelThrough(a.kind.grant_view, a.parent.grant_view, 5) \in 1..5
           /\ LevelThrough(a.kind.watch, a.parent.watch, 3) \in 1..3
           /\ LevelThrough(a.kind.edit, a.parent.edit, 3) \in 1..3
<1>1. /\ a.parent.view \in 1..5 /\ a.parent.grant_view \in 1..6
      /\ a.parent.watch \in 1..4 /\ a.parent.edit \in 1..4
  BY DEF Permissions
<1>2. a.kind.content \in {"none", "as_info", "as_content"}
  BY DEF RelationKinds
<1>3. [none |-> 1, as_info |-> 2, as_content |-> 3][a.kind.content] \in 1..3
  BY <1>2
<1>4. ViewThrough(a.parent.view, a.kind) \in 1..5
  BY <1>1, <1>3 DEF ViewThrough
<1>5. \A propagates, most, level : level \in 1..6 /\ most \in 1..6 =>
            LevelThrough(propagates, level, most) \in 1..most
  BY DEF LevelThrough
<1> QED
  BY <1>1, <1>4, <1>5

\* That the permissions p are no more than what the grants own and propagation can give:
\* the top levels are in the grants.
EarnedBy(p, own) ==
    \/ \E g \in own : g.owner
    \/ /\ ~p.owner
       /\ p.grant_view = 6 => \E g \in own : g.grant_view = 6
       /\ p.watch = 4 => \E g \in own : g.watch = 4
       /\ p.edit = 4 => \E g \in own : g.edit = 4

\* computeAllAccess yields permissions, whose top levels are in the grants.
LEMMA AggregateIsEarned ==
    ASSUME NEW own, NEW above, Inputs(own, above)
    PROVE  Aggregate(own, above) \in Permissions /\ EarnedBy(Aggregate(own, above), own)
<1> DEFINE V == {g.view : g \in own} \cup {ViewThrough(a.parent.view, a.kind) : a \in above}
           G == {g.grant_view : g \in own}
                  \cup {LevelThrough(a.kind.grant_view, a.parent.grant_view, 5) : a \in above}
           W == {g.watch : g \in own}
                  \cup {LevelThrough(a.kind.watch, a.parent.watch, 3) : a \in above}
           E == {g.edit : g \in own}
                  \cup {LevelThrough(a.kind.edit, a.parent.edit, 3) : a \in above}
<1>1. CASE \E g \in own : g.owner
  BY <1>1 DEF Aggregate, Permissions, EarnedBy
<1>2. CASE ~\E g \in own : g.owner
  <2>1. Aggregate(own, above) = [view |-> GreatestOf(V), grant_view |-> GreatestOf(G),
                                 watch |-> GreatestOf(W), edit |-> GreatestOf(E),
                                 owner |-> FALSE]
    BY <1>2, Zenon DEF Aggregate
  <2>2. \A g \in own : /\ g.view \in 1..5 /\ g.grant_view \in 1..6
                       /\ g.watch \in 1..4 /\ g.edit \in 1..4
    BY DEF Inputs, Permissions
  <2>3. \A a \in above : /\ ViewThrough(a.parent.view, a.kind) \in 1..5
                         /\ LevelThrough(a.kind.grant_view, a.parent.grant_view, 5) \in 1..5
                         /\ LevelThrough(a.kind.watch, a.parent.watch, 3) \in 1..3
                         /\ LevelThrough(a.kind.edit, a.parent.edit, 3) \in 1..3
    BY ThroughRelations DEF Inputs
  <2>4. /\ V \subseteq 1..5 /\ G \subseteq 1..6 /\ W \subseteq 1..4 /\ E \subseteq 1..4
        /\ 6 \in G => \E g \in own : g.grant_view = 6
        /\ 4 \in W => \E g \in own : g.watch = 4
        /\ 4 \in E => \E g \in own : g.edit = 4
    BY <2>2, <2>3
  <2> HIDE DEF V, G, W, E
  <2>5. /\ GreatestOf(V) \in {1} \cup V /\ GreatestOf(G) \in {1} \cup G
        /\ GreatestOf(W) \in {1} \cup W /\ GreatestOf(E) \in {1} \cup E
        /\ GreatestOf(V) \in 1..5 /\ GreatestOf(G) \in 1..6
        /\ GreatestOf(W) \in 1..4 /\ GreatestOf(E) \in 1..4
    <3>1. 4 \in 1..6 /\ 5 \in 1..6 /\ 6 \in 1..6
      OBVIOUS
    <3>2. GreatestOf(V) \in {1} \cup V /\ GreatestOf(V) \in 1..5
      BY <2>4, <3>1, GreatestIsOne
    <3>3. GreatestOf(G) \in {1} \cup G /\ GreatestOf(G) \in 1..6
      BY <2>4, <3>1, GreatestIsOne
    <3>4. GreatestOf(W) \in {1} \cup W /\ GreatestOf(W) \in 1..4
      BY <2>4, <3>1, GreatestIsOne
    <3>5. GreatestOf(E) \in {1} \cup E /\ GreatestOf(E) \in 1..4
      BY <2>4, <3>1, GreatestIsOne
    <3> QED
      BY <3>2, <3>3, <3>4, <3>5
  <2>7. Aggregate(own, above) \in Permissions
    BY <2>1, <2>5 DEF Permissions
  <2>8. EarnedBy(Aggregate(own, above), own)
    BY <2>1, <2>4, <2>5 DEF EarnedBy
  <2> QED
    BY <2>7, <2>8
<1> QED
  BY <1>1, <1>2

\* What the module's TypeOK says beyond Shape.
Types ==
    /\ generated \in [Items -> Permissions]
    /\ unlinked \subseteq items
    /\ marks.self \cap marks.children = {} /\ syncMarks.self \cap syncMarks.children = {}
    /\ {inSync, due, running, lost} \subseteq BOOLEAN
    /\ calls \in 0..MaxServices

\* What TopLevelsComeFromGrants says of one item.
Earned(i) == EarnedBy(generated[i], GrantedOn(i))

\* What a turn computes for an item is permissions, with their top levels in its grants.
LEMMA ComputedIsEarned ==
    ASSUME Shape, generated \in [Items -> Permissions], NEW i \in Items
    PROVE  Computed(i) \in Permissions /\ EarnedBy(Computed(i), GrantedOn(i))
<1>1. GrantedOn(i) \subseteq Permissions
  BY DEF Shape, GrantedOn
<1>2. \A a \in Above(i) : a.kind \in RelationKinds /\ a.parent \in Permissions
  <2>1. \A r \in rel : r.kind \in RelationKinds /\ generated[r.parent] \in Permissions
    BY PermissionConstants DEF Shape
  <2> QED
    BY <2>1 DEF Above
<1> QED
  BY <1>1, <1>2, AggregateIsEarned DEF Computed, Inputs

\* Types holds, the marks stay disjoint and what every unmarked item has is earned.
TypesInv == Types /\ \A i \in items : i \in marks.self \/ i \in syncMarks.self \/ Earned(i)

\* An item whose stored permissions and grants stay, and whose marks are covered.
LEMMA EarnedStays ==
    ASSUME NEW i, i \in marks.self \/ i \in syncMarks.self \/ Earned(i),
           generated'[i] = generated[i],
           \A o \in Origins : granted'[i][o] = granted[i][o],
           i \in marks.self => i \in marks'.self,
           i \in syncMarks.self => i \in syncMarks'.self
    PROVE  i \in marks'.self \/ i \in syncMarks'.self \/ Earned(i)'
<1>1. GrantedOn(i)' = GrantedOn(i)
  BY DEF GrantedOn
<1> QED
  BY <1>1 DEF Earned

\* The triggers and a turn keep the two kinds of marks apart.
LEMMA MarksStayApart ==
    ASSUME NEW m, m.self \cap m.children = {}
    PROVE  /\ \A k, o, g : LET n == GrantedChanged(m, k, o, g) IN n.self \cap n.children = {}
           /\ \A S : LET n == MarkChildren(m, S) IN n.self \cap n.children = {}
           /\ \A S : LET n == MarksAfter(m, S) IN n.self \cap n.children = {}
           /\ \A k : LET n == CascadeToMarks(m, k) IN n.self \cap n.children = {}
  BY DEF GrantedChanged, MarkSelf, MarkChildren, MarksAfter, CascadeToMarks

\* The types at the start.
LEMMA TypesInit == Init => TypesInv
<1> SUFFICES ASSUME Init PROVE TypesInv
  OBVIOUS
<1>1. NoPermissions \in Permissions /\ ~NoPermissions.owner /\ NoPermissions.grant_view = 1
      /\ NoPermissions.watch = 1 /\ NoPermissions.edit = 1
  BY DEF NoPermissions, Permissions
<1>2. Types
  <2>1. MaxServices \in Nat
    BY PermissionConstants
  <2>2. generated \in [Items -> Permissions] /\ unlinked \subseteq items /\ calls \in 0..MaxServices
    BY <1>1, <2>1 DEF Init
  <2>3. marks.self \cap marks.children = {} /\ syncMarks.self \cap syncMarks.children = {}
    BY DEF Init, NoMarks
  <2>4. {inSync, due, running, lost} \subseteq BOOLEAN
    BY Zenon DEF Init
  <2> QED
    BY <2>2, <2>3, <2>4, Zenon DEF Types
<1>3. \A i \in items : generated[i] = NoPermissions
  BY PermissionConstants DEF Init
<1> QED
  BY <1>1, <1>2, <1>3 DEF TypesInv, Earned, EarnedBy

\* A change of a grant: the trigger marks the item.
LEMMA GrantStepTypes ==
    ASSUME Shape, TypesInv, NEW k, NEW o, NEW g, GrantStep(k, o, g),
           {inSync', due', running', lost'} \subseteq BOOLEAN, calls' \in 0..MaxServices
    PROVE  TypesInv'
<1>1. Covers(marks', marks) /\ Covers(syncMarks', syncMarks)
  BY TriggersCover DEF Shape, GrantStep
<1>2. marks'.self \cap marks'.children = {} /\ syncMarks'.self \cap syncMarks'.children = {}
  BY MarksStayApart DEF GrantStep, TypesInv, Types
<1>3. Types'
  BY <1>2 DEF GrantStep, TypesInv, Types
<1>4. ASSUME NEW i \in items PROVE i \in marks'.self \/ i \in syncMarks'.self \/ Earned(i)'
  <2>1. CASE i = k /\ granted[k][o] # g
    BY <2>1, TriggersCover DEF GrantStep, GrantedChanged, Shape
  <2>2. CASE i # k \/ granted[k][o] = g
    <3>1. \A p \in Origins : granted'[i][p] = granted[i][p]
      BY <2>2 DEF Shape, GrantStep, SetGranted
    <3> QED
      BY <1>1, <3>1, EarnedStays DEF TypesInv, GrantStep, Covers
  <2> QED
    BY <2>1, <2>2
<1> QED
  BY <1>3, <1>4 DEF TypesInv, GrantStep

\* A turn of either loop: what it processes is computed from the grants, the rest of the
\* 'self' marks stay.
LEMMA TurnTypes ==
    ASSUME Shape, TypesInv, NEW m \in {marks, syncMarks}, NEW n, TurnStep(m, n),
           \/ m = marks /\ marks' = n /\ syncMarks' = syncMarks
           \/ m = syncMarks /\ syncMarks' = n /\ marks' = marks,
           {inSync', due', running', lost'} \subseteq BOOLEAN, calls' \in 0..MaxServices
    PROVE  TypesInv'
<1> DEFINE P == Processing(m)
<1>1. /\ generated' = [j \in Items |-> IF j \in P THEN Computed(j) ELSE generated[j]]
      /\ unlinked' = unlinked \ P /\ n = MarksAfter(m, P)
      /\ UNCHANGED <<items, rel, granted>>
  BY DEF TurnStep, UpdatePermissionsGenerated
<1>2. \A i \in m.self : i \in P \/ i \in n.self
  BY <1>1 DEF MarksAfter, MarkChildrenOfChildrenAsSelf
<1>3. marks'.self \cap marks'.children = {} /\ syncMarks'.self \cap syncMarks'.children = {}
  BY <1>1, MarksStayApart DEF TypesInv, Types
<1> HIDE DEF P
<1>4. \A i \in Items : Computed(i) \in Permissions /\ EarnedBy(Computed(i), GrantedOn(i))
  BY ComputedIsEarned DEF TypesInv, Types
<1>5. generated' \in [Items -> Permissions]
  BY <1>1, <1>4 DEF TypesInv, Types
<1>6. Types'
  BY <1>1, <1>3, <1>5 DEF TypesInv, Types
<1>7. ASSUME NEW i \in items PROVE i \in marks'.self \/ i \in syncMarks'.self \/ Earned(i)'
  <2>1. i \in Items
    BY DEF Shape
  <2>2. CASE i \in P
    <3>1. generated'[i] = Computed(i)
      BY <1>1, <2>1, <2>2
    <3>2. GrantedOn(i)' = GrantedOn(i)
      BY <1>1 DEF GrantedOn
    <3> QED
      BY <1>4, <2>1, <3>1, <3>2 DEF Earned
  <2>3. CASE i \notin P
    <3>1. generated'[i] = generated[i]
      BY <1>1, <2>1, <2>3
    <3>2. (i \in marks.self => i \in marks'.self) /\ (i \in syncMarks.self => i \in syncMarks'.self)
      BY <1>2, <2>3
    <3>3. i \in marks.self \/ i \in syncMarks.self \/ Earned(i)
      BY DEF TypesInv
    <3> QED
      BY <1>1, <3>1, <3>2, <3>3, EarnedStays
  <2> QED
    BY <2>2, <2>3
<1> QED
  BY <1>1, <1>6, <1>7 DEF TypesInv

\* itemUpdate.
LEMMA UpdateItemTypes ==
    ASSUME Shape, TypesInv, NEW k \in Items, NEW C \in SUBSET items,
           NEW kindOf \in [C -> Kinds], UpdateItem(k, kindOf)
    PROVE  TypesInv'
<1> DEFINE old == {r \in rel : r.parent = k}
<1>1. /\ marks' = marks \/ marks' = MarkChildren(marks, {k})
      /\ unlinked' \subseteq unlinked \cup {r.child : r \in old}
      /\ calls' = calls + 1 /\ calls < MaxServices /\ due' = TRUE
      /\ UNCHANGED <<items, granted, generated, syncMarks, inSync, running, lost>>
  BY DEF UpdateItem, Service
<1>2. {r.child : r \in old} \subseteq items
  BY DEF Shape
<1>3. marks'.self = marks.self /\ marks'.self \cap marks'.children = {}
  BY <1>1, MarksStayApart DEF MarkChildren, TypesInv, Types
<1>4. Types'
  BY <1>1, <1>2, <1>3, PermissionConstants DEF TypesInv, Types
<1>5. \A i \in items : i \in marks'.self \/ i \in syncMarks'.self \/ Earned(i)'
  BY <1>1, <1>3, EarnedStays DEF TypesInv
<1> QED
  BY <1>1, <1>4, <1>5 DEF TypesInv

\* itemCreate: the new item has nothing, or its creator's grant and a mark.
LEMMA CreateItemTypes ==
    ASSUME Shape, TypesInv, NEW k \in Items, NEW isCreator \in BOOLEAN, NEW P, NEW kind,
           NEW kindOf, CreateItem(k, isCreator, P, kind, kindOf)
    PROVE  TypesInv'
<1> DEFINE own == IF isCreator THEN Ownership ELSE NoGrant
           step == GrantedChanged(marks, k, "self", own)
<1>1. /\ k \notin items /\ items' = items \cup {k}
      /\ granted' = [granted EXCEPT ![k]["self"] = own]
      /\ marks' = MarkChildren(step, P \cup {k})
      /\ calls' = calls + 1 /\ calls < MaxServices /\ due' = TRUE
      /\ UNCHANGED <<generated, unlinked, syncMarks, inSync, running, lost>>
  BY DEF CreateItem, Service, SetGranted
<1>2. step.self \cap step.children = {} /\ marks.self \subseteq step.self
  BY TriggersCover, MarksStayApart DEF TypesInv, Types, Shape, Covers
<1>3. isCreator => k \in step.self
  <2>1. k \in Items \ items /\ "self" \in Origins
    BY <1>1 DEF Origins
  <2>2. granted[k]["self"] = NoGrant
    BY <2>1 DEF Shape
  <2>3. Ownership # NoGrant
    <3>1. Ownership \in Permissions
      BY DEF Ownership, Permissions
    <3> QED
      BY <3>1, PermissionConstants
  <2> QED
    BY <2>2, <2>3 DEF GrantedChanged, MarkSelf
<1> HIDE DEF step
<1>4. marks'.self = step.self /\ marks'.self \cap marks'.children = {}
  BY <1>1, <1>2, MarksStayApart DEF MarkChildren
<1>5. Types'
  <2>1. MaxServices \in Nat
    BY PermissionConstants
  <2>2. /\ (generated \in [Items -> Permissions])' /\ (unlinked \subseteq items)'
        /\ (calls \in 0..MaxServices)'
    BY <1>1, <2>1 DEF TypesInv, Types
  <2>3. (syncMarks.self \cap syncMarks.children = {})'
    BY <1>1 DEF TypesInv, Types
  <2>4. ({inSync, due, running, lost} \subseteq BOOLEAN)'
    BY <1>1, Zenon DEF TypesInv, Types
  <2> QED
    BY <1>4, <2>2, <2>3, <2>4, Zenon DEF Types
<1>6. ASSUME NEW i \in items' PROVE i \in marks'.self \/ i \in syncMarks'.self \/ Earned(i)'
  <2>1. CASE i \in items
    <3>1. \A o \in Origins : granted'[i][o] = granted[i][o]
      BY <1>1, <2>1 DEF Shape
    <3> QED
      BY <1>1, <1>2, <1>4, <2>1, <3>1, EarnedStays DEF TypesInv
  <2>2. CASE i = k /\ isCreator
    BY <1>3, <1>4, <2>2
  <2>3. CASE i = k /\ ~isCreator
    <3>1. generated'[k] = NoPermissions
      BY <1>1 DEF Shape
    <3> QED
      BY <2>3, <3>1 DEF Earned, EarnedBy, NoPermissions
  <2> QED
    BY <1>1, <2>1, <2>2, <2>3
<1> QED
  BY <1>5, <1>6 DEF TypesInv

\* itemDelete: the rows of the item disappear.
LEMMA DeleteItemTypes ==
    ASSUME Shape, TypesInv, NEW k \in Items, DeleteItem(k)
    PROVE  TypesInv'
<1>1. /\ items' = items \ {k}
      /\ granted' = [granted EXCEPT ![k] = [o \in Origins |-> NoGrant]]
      /\ generated' = [generated EXCEPT ![k] = NoPermissions]
      /\ marks' = CascadeToMarks(marks, k)
      /\ unlinked' = unlinked \ {k}
      /\ calls' = calls + 1 /\ calls < MaxServices /\ due' = TRUE
      /\ UNCHANGED <<syncMarks, inSync, running, lost>>
  BY DEF DeleteItem, Service
<1>2. NoPermissions \in Permissions
  BY DEF NoPermissions, Permissions
<1>3. marks'.self = marks.self \ {k} /\ marks'.self \cap marks'.children = {}
  BY <1>1, MarksStayApart DEF CascadeToMarks, TypesInv, Types
<1>4. Types'
  BY <1>1, <1>2, <1>3, PermissionConstants DEF TypesInv, Types
<1>5. ASSUME NEW i \in items' PROVE i \in marks'.self \/ i \in syncMarks'.self \/ Earned(i)'
  <2>1. i \in items /\ i \in Items /\ i # k
    BY <1>1 DEF Shape
  <2>2. generated'[i] = generated[i] /\ granted'[i] = granted[i]
    BY <1>1, <2>1 DEF Shape
  <2> QED
    BY <1>1, <1>3, <2>1, <2>2, EarnedStays DEF TypesInv
<1> QED
  BY <1>4, <1>5 DEF TypesInv

\* Every step preserves the types and the earning of top levels.
LEMMA NextTypes == Inv /\ TypesInv /\ [Next]_vars => TypesInv'
<1> SUFFICES ASSUME Inv, TypesInv, [Next]_vars PROVE TypesInv'
  OBVIOUS
<1>a. Shape
  BY DEF Inv
<1>b. Types /\ MaxServices \in Nat
  BY PermissionConstants DEF TypesInv
\* A service moves its counter and owes the call.
<1>c. Service => {inSync', due', running', lost'} \subseteq BOOLEAN /\ calls' \in 0..MaxServices
  BY <1>b DEF Service, Types
<1>1. ASSUME NEW k \in Items, NEW g \in Grants, UpdatePermissions(k, g) PROVE TypesInv'
  <2>1. GrantStep(k, "group_membership", g) /\ Service
    BY <1>1 DEF UpdatePermissions, GrantStep, Service, Origins
  <2> QED
    BY <1>a, <1>c, <2>1, GrantStepTypes
<1>2. ASSUME NEW k \in Items, NEW o \in Origins, DeleteSource(k, o) PROVE TypesInv'
  <2>1. GrantStep(k, o, NoGrant) /\ Service
    BY <1>2 DEF DeleteSource, GrantStep, Service
  <2> QED
    BY <1>a, <1>c, <2>1, GrantStepTypes
<1>3. ASSUME NEW k \in Items, Unlock(k) PROVE TypesInv'
  <2>1. GrantStep(k, "item_unlocking", ContentAccess) /\ Service
    BY <1>3 DEF Unlock, GrantStep, Service, Origins
  <2> QED
    BY <1>a, <1>c, <2>1, GrantStepTypes
<1>4. ASSUME NEW k \in Items, SaveGradeUnlocks(k) PROVE TypesInv'
  <2>1. GrantStep(k, "item_unlocking", ContentAccess)
    BY <1>4 DEF SaveGradeUnlocks, GrantStep, Origins
  <2>2. {inSync', due', running', lost'} \subseteq BOOLEAN /\ calls' \in 0..MaxServices
    BY <1>4, <1>b DEF SaveGradeUnlocks, Types
  <2> QED
    BY <1>a, <2>1, <2>2, GrantStepTypes
<1>5. CASE SyncTurn
  <2>1. TurnStep(syncMarks, syncMarks') /\ marks' = marks
    BY <1>5 DEF SyncTurn, TurnStep
  <2>2. {inSync', due', running', lost'} \subseteq BOOLEAN /\ calls' \in 0..MaxServices
    BY <1>5, <1>b DEF SyncTurn, Types
  <2> QED
    BY <1>a, <2>1, <2>2, TurnTypes
<1>6. CASE Turn
  <2>1. TurnStep(marks, marks') /\ syncMarks' = syncMarks
    BY <1>6 DEF Turn, TurnStep
  <2>2. {inSync', due', running', lost'} \subseteq BOOLEAN /\ calls' \in 0..MaxServices
    BY <1>6, <1>b DEF Turn, Types
  <2> QED
    BY <1>a, <2>1, <2>2, TurnTypes
<1>7. CASE StartPropagation \/ Die \/ UNCHANGED vars
  <2>1. /\ UNCHANGED <<items, granted, generated, marks, syncMarks, unlinked, calls>>
        /\ {inSync', due', running', lost'} \subseteq BOOLEAN
    BY <1>7, <1>b DEF StartPropagation, Die, vars, dataVars, Types
  <2>2. Types'
    BY <1>b, <2>1 DEF Types
  <2>3. \A i \in items : i \in marks'.self \/ i \in syncMarks'.self \/ Earned(i)'
    BY <2>1, EarnedStays DEF TypesInv
  <2> QED
    BY <2>1, <2>2, <2>3 DEF TypesInv
<1>8. CASE \E k \in Items : Unlock(k) \/ DeleteItem(k) \/ SaveGradeUnlocks(k)
  BY <1>a, <1>3, <1>4, <1>8, DeleteItemTypes
<1>9. CASE \E k \in Items, C \in SUBSET items : \E kindOf \in [C -> Kinds] : UpdateItem(k, kindOf)
  BY <1>a, <1>9, UpdateItemTypes
<1>10. CASE \E k \in Items, P \in {{}} \cup {{p} : p \in items}, C \in SUBSET items,
              isCreator \in BOOLEAN, kind \in Kinds :
              \E kindOf \in [C -> Kinds] : CreateItem(k, isCreator, P, kind, kindOf)
  <2>1. PICK k \in Items, P \in {{}} \cup {{p} : p \in items}, C \in SUBSET items,
             isCreator \in BOOLEAN, kind \in Kinds :
             \E kindOf \in [C -> Kinds] : CreateItem(k, isCreator, P, kind, kindOf)
    BY <1>10
  <2>2. PICK kindOf \in [C -> Kinds] : CreateItem(k, isCreator, P, kind, kindOf)
    BY <2>1
  <2> QED
    BY <1>a, <2>2, CreateItemTypes
<1>11. CASE Next
  BY <1>1, <1>2, <1>5, <1>6, <1>7, <1>8, <1>9, <1>10, <1>11 DEF Next
<1> QED
  BY <1>7, <1>11

\* The invariant and the types together.
LEMMA TypesAlways == Spec => [](Inv /\ TypesInv)
<1> QED
  BY InitInv, NextInv, TypesInit, NextTypes, PTL DEF Spec

\* Types; marks and rows are of existing items, a pair has one mark, only pairs with a row
\* are marked 'children', and no mark of saveGrade's propagation outlives its transaction.
THEOREM PropagationTypeCorrect == Spec => []TypeOK
<1>1. Inv /\ TypesInv => TypeOK
  BY DEF Inv, TypesInv, Types, Shape, MarksShape, TypeOK
<1> QED
  BY <1>1, TypesAlways, PTL

\* computeAllAccess, LEAST(...): *_with_grant levels and ownership never come from a parent.
THEOREM TopLevelsAreEarned == Spec => []TopLevelsComeFromGrants
<1>1. Inv /\ TypesInv => TopLevelsComeFromGrants
  BY DEF TypesInv, Earned, EarnedBy, TopLevelsComeFromGrants
<1> QED
  BY <1>1, TypesAlways, PTL
===============================================================================
