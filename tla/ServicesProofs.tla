----------------------------- MODULE ServicesProofs -----------------------------
(***************************************************************************)
(* The services of MCServices, for any constants: those that write items,  *)
(* the code of a group, the help thread of a participant, the row of       *)
(* permissions_granted that updatePermissions writes, gradings, sessions,  *)
(* batches of users and the pages of lists; at the end, their composition. *)
(***************************************************************************)
EXTENDS MCServices, SumTheorems, TLAPS

(***************************************************************************)
(* The services that write items: the rules between types, properties,     *)
(* strings and links, that links make no cycle, and that none lets         *)
(* permissions propagate beyond what an editor of it could give.           *)
(***************************************************************************)
-----------------------------------------------------------------------------
(* Ancestors and cycles, of any set of links.                              *)

\* S has the parents of i and of its own members.
ClosedAbove(S, links, i) == \A l \in links : l[2] \in S \cup {i} => l[1] \in S

Acyclic(links) == \A i \in AllItems : i \notin ItemAncestors(links, i)

\* The ancestors are the least set closed above the item.
LEMMA AncestorsLeast ==
  ASSUME NEW links \in SUBSET (AllItems \X AllItems), NEW i \in AllItems
  PROVE  /\ ItemAncestors(links, i) \in SUBSET AllItems
         /\ ClosedAbove(ItemAncestors(links, i), links, i)
         /\ \A S \in SUBSET AllItems : ClosedAbove(S, links, i) => ItemAncestors(links, i) \subseteq S
<1> DEFINE A == ItemAncestors(links, i)
<1>1. A \in SUBSET AllItems
  BY DEF ItemAncestors
<1>2. \A S \in SUBSET AllItems : ClosedAbove(S, links, i) => A \subseteq S
  BY DEF ItemAncestors, ClosedAbove
<1>3. ASSUME NEW l \in links, l[2] \in A \cup {i}
      PROVE  l[1] \in A
  <2>1. l[1] \in AllItems
    OBVIOUS
  <2>2. ASSUME NEW S \in SUBSET AllItems, ClosedAbove(S, links, i) PROVE l[1] \in S
    <3>1. l[2] \in S \cup {i}
      BY <1>2, <1>3, <2>2
    <3> QED
      BY <2>2, <3>1 DEF ClosedAbove
  <2> QED
    BY <2>1, <2>2 DEF ItemAncestors, ClosedAbove
<1> QED
  BY <1>1, <1>2, <1>3 DEF ClosedAbove

\* An ancestor's ancestors are ancestors.
LEMMA AncestorsTransitive ==
  ASSUME NEW links \in SUBSET (AllItems \X AllItems), NEW i \in AllItems,
         NEW x \in ItemAncestors(links, i)
  PROVE  ItemAncestors(links, x) \subseteq ItemAncestors(links, i)
<1>1. /\ ItemAncestors(links, i) \in SUBSET AllItems
      /\ ClosedAbove(ItemAncestors(links, i), links, i)
  BY AncestorsLeast
<1>2. ClosedAbove(ItemAncestors(links, i), links, x)
  BY <1>1 DEF ClosedAbove
<1> QED
  BY <1>1, <1>2, AncestorsLeast

\* An item below some links, and not above the parent of the new ones or equal
\* to it, gives no cycle; less links give none either.
LEMMA NewLinksAcyclic ==
  ASSUME NEW links \in SUBSET (AllItems \X AllItems), NEW i \in AllItems, NEW C \in SUBSET AllItems,
         NEW new \in SUBSET (links \cup ({i} \X C)),
         Acyclic(links), C \cap ({i} \cup ItemAncestors(links, i)) = {}
  PROVE  Acyclic(new)
<1> SUFFICES ASSUME NEW x \in AllItems PROVE x \notin ItemAncestors(new, x)
  BY DEF Acyclic
<1> DEFINE Ax == ItemAncestors(links, x)
           Ai == ItemAncestors(links, i)
<1>1. /\ Ax \in SUBSET AllItems /\ ClosedAbove(Ax, links, x) /\ x \notin Ax
      /\ Ai \in SUBSET AllItems /\ ClosedAbove(Ai, links, i)
      /\ x \in Ai => Ax \subseteq Ai
  BY AncestorsLeast, AncestorsTransitive DEF Acyclic
<1>2. new \in SUBSET (AllItems \X AllItems)
  OBVIOUS
<1>3. \A l \in new : l \in links \/ (l[1] = i /\ l[2] \in C)
  OBVIOUS
<1> HIDE DEF Ax, Ai
<1>4. CASE C \cap (Ax \cup {x}) = {}
  <2>1. ClosedAbove(Ax, new, x)
    BY <1>1, <1>3, <1>4 DEF ClosedAbove
  <2> QED
    BY <1>1, <1>2, <2>1, AncestorsLeast
<1>5. CASE C \cap (Ax \cup {x}) # {}
  <2> DEFINE S == Ax \cup {i} \cup Ai
  <2>1. ClosedAbove(S, new, x) /\ S \in SUBSET AllItems
    BY <1>1, <1>3 DEF ClosedAbove
  <2>2. x \notin S
    <3>1. x # i
      BY <1>5 DEF Ax, Ai
    <3>2. x \notin Ai
      BY <1>1, <1>5 DEF Ai
    <3> QED
      BY <1>1, <3>1, <3>2
  <2> HIDE DEF S
  <2> QED
    BY <1>2, <2>1, <2>2, AncestorsLeast
<1> QED
  BY <1>4, <1>5

-----------------------------------------------------------------------------
(* Levels.                                                                 *)

RightsRecords == [view : 1..5, grant_view : 1..6, watch : 1..4, edit : 1..4]
NoRights == [view |-> 1, grant_view |-> 1, watch |-> 1, edit |-> 1]

\* What a request may hold, and what a link does.
RequestTyped(wanted) == \A f \in LinkFields : wanted[f] \in 1..TopLevel[f] \cup {Absent}
LevelsTyped(levels) == \A f \in LinkFields : levels[f] \in 1..TopLevel[f]

\* What a level is for one field.
LEMMA FieldsOfLevels ==
  /\ LinkFields = {"content", "upper", "grant", "watch", "edit", "help"}
  /\ TopLevel["content"] = 3 /\ TopLevel["upper"] = 3 /\ TopLevel["grant"] = 2
  /\ TopLevel["watch"] = 2 /\ TopLevel["edit"] = 2 /\ TopLevel["help"] = 2
BY DEF LinkFields, TopLevel

\* The rights allow a level of the field; the default is one they allow.
LEMMA AllowedLevels ==
  ASSUME NEW r \in RightsRecords, NEW f \in LinkFields
  PROVE  /\ LevelAllowed(r)[f] \in 1..TopLevel[f]
         /\ LevelByDefault(r)[f] \in 1..LevelAllowed(r)[f]
<1> USE DEF ContentAllowed, UpperAllowed, GrantAllowed, WatchAllowed, EditAllowed, HelpAllowed
<1>1. /\ ContentAllowed(r) \in 1..3 /\ UpperAllowed(r) \in 1..3 /\ GrantAllowed(r) \in 1..2
      /\ WatchAllowed(r) \in 1..2 /\ EditAllowed(r) \in 1..2 /\ HelpAllowed(r) \in 1..2
  BY DEF RightsRecords
<1> USE DEF LevelAllowed, LevelByDefault
<1>2. CASE f = "content"
  BY <1>1, <1>2, FieldsOfLevels
<1>3. CASE f \in {"upper", "grant", "watch", "edit", "help"}
  BY <1>1, <1>3, FieldsOfLevels
<1> QED
  BY <1>2, <1>3, FieldsOfLevels

\* An owner may give every level; without rights only the least is allowed.
LEMMA ExtremeRights ==
  ASSUME NEW f \in LinkFields
  PROVE  /\ LevelAllowed(Everything)[f] = TopLevel[f]
         /\ LevelAllowed(NoRights)[f] = 1
         /\ Everything \in RightsRecords /\ NoRights \in RightsRecords
BY FieldsOfLevels
DEF LevelAllowed, Everything, NoRights, RightsRecords, ContentAllowed, UpperAllowed, GrantAllowed,
    WatchAllowed, EditAllowed, HelpAllowed

\* What is written into a link, when the request is accepted: what the rights
\* allow, or what the link has, at most.
LEMMA WrittenLevels ==
  ASSUME NEW old, NEW r \in RightsRecords, NEW wanted, NEW f \in LinkFields,
         RequestTyped(wanted), LevelsAccepted(old, r, wanted),
         \A levels \in old : LevelsTyped(levels)
  PROVE  /\ NewLevels(old, r, wanted)[f] \in 1..TopLevel[f]
         /\ \/ NewLevels(old, r, wanted)[f] <= LevelAllowed(r)[f]
            \/ \E levels \in old : NewLevels(old, r, wanted)[f] <= levels[f]
<1> DEFINE new == NewLevels(old, r, wanted)[f]
<1>1. CASE wanted[f] # Absent
  <2>1. new = wanted[f]
    BY <1>1 DEF NewLevels
  <2> QED
    BY <1>1, <2>1 DEF RequestTyped, LevelsAccepted
<1>2. CASE wanted[f] = Absent /\ old = {}
  <2>1. new = LevelByDefault(r)[f]
    BY <1>2 DEF NewLevels
  <2> QED
    BY <2>1, AllowedLevels, FieldsOfLevels
<1>3. CASE wanted[f] = Absent /\ old # {}
  <2>1. PICK levels \in old : new = levels[f]
    BY <1>3 DEF NewLevels
  <2>2. new \in 1..TopLevel[f] /\ TopLevel[f] \in Nat
    BY <2>1, FieldsOfLevels DEF LevelsTyped
  <2> QED
    BY <2>1, <2>2
<1> QED
  BY <1>1, <1>2, <1>3

-----------------------------------------------------------------------------
(* The inductive invariant.                                                *)

ItemRows == [type : Types, timed : BOOLEAN, entry : BOOLEAN, participants : BOOLEAN,
             language : ItemLanguages]

Rows ==
  /\ There \subseteq AllItems
  /\ itemRow \in [There -> ItemRows]
  /\ itemOwner = [i \in There |-> itemOwner[i]]
  /\ \A i \in There : /\ itemRow[i].timed => itemRow[i].entry
                      /\ itemRow[i].entry => itemRow[i].participants /\ itemRow[i].type # "Skill"

Strings ==
  /\ itemStrings \subseteq There \X ItemLanguages
  /\ \A i \in There : <<i, itemRow[i].language>> \in itemStrings

TypesOfLinks ==
  \A l \in DOMAIN itemLink : /\ itemRow[l[1]].type # "Task"
                             /\ itemRow[l[2]].type = "Skill" => itemRow[l[1]].type = "Skill"

Links ==
  /\ DOMAIN itemLink \subseteq There \X There
  /\ itemLink = [l \in DOMAIN itemLink |-> itemLink[l]]
  /\ linkHands = [l \in DOMAIN itemLink |-> linkHands[l]]
  /\ \A l \in DOMAIN itemLink : LevelsTyped(itemLink[l]) /\ linkHands[l] \subseteq ItemEditors

\* A root is an item that is there, of its kind.
Roots ==
  /\ rootItem = [activity |-> rootItem.activity, skill |-> rootItem.skill]
  /\ rootItem.activity # NoItem => rootItem.activity \in There /\ itemRow[rootItem.activity].type # "Skill"
  /\ rootItem.skill # NoItem => rootItem.skill \in There /\ itemRow[rootItem.skill].type = "Skill"

Dependencies == dependencies \subseteq There \X There \X BOOLEAN

ItemsInv ==
  /\ Rows /\ Strings /\ Links /\ TypesOfLinks /\ Roots /\ Dependencies
  /\ Acyclic(DOMAIN itemLink) /\ PropagationWasAllowed

\* Rights on an item that is there.
LEMMA RightsAreTyped ==
  ASSUME Rows, NEW u \in ItemEditors, NEW i \in There
  PROVE  RightsOf(u, i) \in RightsRecords
BY ItemsAssumption, ExtremeRights, FieldsOfLevels DEF Rows, RightsOf, RightsRecords

\* Rights on a child of a request: never more than on the item.
LEMMA RightsOnChildren ==
  ASSUME Rows, NEW u \in ItemEditors, NEW c \in There, NEW f \in LinkFields
  PROVE  /\ RightsOnChild(u, c) \in RightsRecords
         /\ LevelAllowed(RightsOnChild(u, c))[f] <= LevelAllowed(RightsOf(u, c))[f]
<1>1. RightsOf(u, c) \in RightsRecords
  BY RightsAreTyped
<1>2. RightsOnChild(u, c) \in {RightsOf(u, c), NoRights}
  BY DEF RightsOnChild, NoRights
<1>3. /\ LevelAllowed(RightsOf(u, c))[f] \in 1..TopLevel[f] /\ TopLevel[f] \in Nat
      /\ LevelAllowed(NoRights)[f] = 1 /\ NoRights \in RightsRecords
  BY <1>1, AllowedLevels, ExtremeRights, FieldsOfLevels
<1> QED
  BY <1>1, <1>2, <1>3

\* The levels of a link that a request writes, to a child that is there.
LEMMA WrittenLink ==
  ASSUME ItemsInv, NEW u \in ItemEditors, NEW i \in AllItems, NEW c \in There, NEW wanted,
         RequestTyped(wanted), LevelsAccepted(OldLevels(i, c), RightsOnChild(u, c), wanted)
  PROVE  LET new == NewLevels(OldLevels(i, c), RightsOnChild(u, c), wanted)
         IN /\ LevelsTyped(new)
            /\ \A f \in LinkFields :
                 \/ new[f] <= LevelAllowed(RightsOf(u, c))[f]
                 \/ /\ <<i, c>> \in DOMAIN itemLink
                    /\ \E v \in linkHands[<<i, c>>] : new[f] <= LevelAllowed(RightsOf(v, c))[f]
<1> DEFINE r == RightsOnChild(u, c)
           old == OldLevels(i, c)
           new == NewLevels(old, r, wanted)
<1>1. \A levels \in old : /\ <<i, c>> \in DOMAIN itemLink /\ levels = itemLink[<<i, c>>]
                          /\ LevelsTyped(levels)
  BY DEF OldLevels, ItemsInv, Links
<1>2. ASSUME NEW f \in LinkFields
      PROVE  /\ new[f] \in 1..TopLevel[f]
             /\ \/ new[f] <= LevelAllowed(RightsOf(u, c))[f]
                \/ /\ <<i, c>> \in DOMAIN itemLink
                   /\ \E v \in linkHands[<<i, c>>] : new[f] <= LevelAllowed(RightsOf(v, c))[f]
  <2>1. r \in RightsRecords /\ LevelAllowed(r)[f] <= LevelAllowed(RightsOf(u, c))[f]
    BY RightsOnChildren DEF ItemsInv
  <2>2. /\ LevelAllowed(r)[f] \in 1..TopLevel[f] /\ TopLevel[f] \in Nat
        /\ LevelAllowed(RightsOf(u, c))[f] \in 1..TopLevel[f]
    BY <2>1, RightsAreTyped, AllowedLevels, FieldsOfLevels DEF ItemsInv
  <2>3. /\ new[f] \in 1..TopLevel[f]
        /\ new[f] <= LevelAllowed(r)[f] \/ \E levels \in old : new[f] <= levels[f]
    BY <1>1, <2>1, WrittenLevels
  <2> HIDE DEF r, old, new
  <2>4. CASE new[f] <= LevelAllowed(r)[f]
    BY <2>1, <2>2, <2>3, <2>4
  <2>5. CASE \E levels \in old : new[f] <= levels[f]
    <3>1. /\ <<i, c>> \in DOMAIN itemLink /\ new[f] <= itemLink[<<i, c>>][f]
          /\ itemLink[<<i, c>>][f] \in 1..TopLevel[f] /\ linkHands[<<i, c>>] \subseteq ItemEditors
      BY <1>1, <2>5 DEF ItemsInv, Links, LevelsTyped
    <3>2. PICK v \in linkHands[<<i, c>>] : itemLink[<<i, c>>][f] <= LevelAllowed(RightsOf(v, c))[f]
      BY <3>1 DEF ItemsInv, PropagationWasAllowed
    <3>3. LevelAllowed(RightsOf(v, c))[f] \in 1..TopLevel[f]
      BY <3>1, RightsAreTyped, AllowedLevels DEF ItemsInv
    <3>4. new[f] <= LevelAllowed(RightsOf(v, c))[f]
      BY <2>2, <2>3, <3>1, <3>2, <3>3
    <3> QED
      BY <2>3, <3>1, <3>4
  <2> QED
    BY <2>3, <2>4, <2>5
<1> QED
  BY <1>2 DEF LevelsTyped

-----------------------------------------------------------------------------
(* createItem.                                                             *)

\* The parent of a new item, if it has one.
Above(parent) == {parent} \ {NoItem}

\* The links after createItem.
NewLinks(u, n, parent, C, wanted) ==
  /\ DOMAIN itemLink' = DOMAIN itemLink \cup ({n} \X C) \cup (Above(parent) \X {n})
  /\ itemLink' = [l \in DOMAIN itemLink' |-> itemLink'[l]]
  /\ linkHands' = [l \in DOMAIN itemLink' |-> linkHands'[l]]
  /\ \A l \in DOMAIN itemLink : itemLink'[l] = itemLink[l] /\ linkHands'[l] = linkHands[l]
  /\ \A c \in C : /\ itemLink'[<<n, c>>] = NewLevels({}, RightsOnChild(u, c), wanted)
                  /\ linkHands'[<<n, c>>] = {u}
  /\ \A q \in Above(parent) : itemLink'[<<q, n>>] = ParentLink(wanted) /\ linkHands'[<<q, n>>] = {u}

\* What a new item changes: the links to and from it are new, and those there
\* are stay.
LEMMA NewItemLinks ==
  ASSUME ItemsInv, NEW u \in ItemEditors, NEW n \in NewItems, NEW type \in Types,
         NEW parent \in There \cup {NoItem}, NEW asRoot, NEW p, NEW C \in SUBSET There, NEW wanted,
         AddItem(u, n, type, parent, asRoot, p, C, wanted)
  PROVE  NewLinks(u, n, parent, C, wanted)
<1> DEFINE down == LinksOf(u, n, C, wanted)
           up == [l \in Above(parent) \X {n} |-> ParentLink(wanted)]
           hands == [l \in ({n} \X C) \cup (Above(parent) \X {n}) |-> {u}]
<1>1. /\ itemLink' = Merged(Merged(itemLink, down), up)
      /\ linkHands' = Merged(linkHands, hands) /\ n \notin There
  BY DEF AddItem, Above
<1>2. DOMAIN itemLink \subseteq There \X There /\ DOMAIN linkHands = DOMAIN itemLink
  BY DEF ItemsInv, Links
<1>3. /\ \A l \in DOMAIN itemLink : l \notin {n} \X C /\ l \notin Above(parent) \X {n}
      /\ \A c \in C : <<n, c>> \notin Above(parent) \X {n}
  BY <1>1, <1>2
<1>4. \A c \in C : OldLevels(n, c) = {}
  BY <1>1, <1>2 DEF OldLevels
<1>5. /\ DOMAIN down = {n} \X C /\ DOMAIN up = Above(parent) \X {n}
      /\ \A c \in C : down[<<n, c>>] = NewLevels({}, RightsOnChild(u, c), wanted)
      /\ \A q \in Above(parent) : up[<<q, n>>] = ParentLink(wanted)
  BY <1>4 DEF LinksOf
<1>6. /\ DOMAIN hands = ({n} \X C) \cup (Above(parent) \X {n})
      /\ \A l \in DOMAIN hands : hands[l] = {u}
  OBVIOUS
<1> HIDE DEF down, up, hands
<1>7. /\ DOMAIN itemLink' = DOMAIN itemLink \cup ({n} \X C) \cup (Above(parent) \X {n})
      /\ itemLink' = [l \in DOMAIN itemLink' |-> itemLink'[l]]
      /\ \A l \in DOMAIN itemLink' : itemLink'[l] = IF l \in DOMAIN up THEN up[l]
                                                    ELSE IF l \in DOMAIN down THEN down[l] ELSE itemLink[l]
  BY <1>1, <1>5 DEF Merged
<1>8. /\ DOMAIN linkHands' = DOMAIN itemLink'
      /\ linkHands' = [l \in DOMAIN linkHands' |-> linkHands'[l]]
      /\ \A l \in DOMAIN linkHands' : linkHands'[l] = IF l \in DOMAIN hands THEN hands[l] ELSE linkHands[l]
  BY <1>1, <1>2, <1>6, <1>7 DEF Merged
<1>9. \A l \in DOMAIN itemLink : itemLink'[l] = itemLink[l] /\ linkHands'[l] = linkHands[l]
  BY <1>3, <1>5, <1>6, <1>7, <1>8
<1>10. \A c \in C : /\ itemLink'[<<n, c>>] = NewLevels({}, RightsOnChild(u, c), wanted)
                    /\ linkHands'[<<n, c>>] = {u}
  BY <1>3, <1>5, <1>6, <1>7, <1>8
<1>11. \A q \in Above(parent) : itemLink'[<<q, n>>] = ParentLink(wanted) /\ linkHands'[<<q, n>>] = {u}
  BY <1>5, <1>6, <1>7, <1>8
<1> QED
  BY <1>7, <1>8, <1>9, <1>10, <1>11 DEF NewLinks

\* The rows after createItem: the new item has the properties asked for, which
\* go together, and is its creator's.
LEMMA NewItemRow ==
  ASSUME ItemsInv, NEW u \in ItemEditors, NEW n \in NewItems, NEW type \in Types,
         NEW parent \in There \cup {NoItem}, NEW asRoot \in BOOLEAN,
         NEW p \in NewItemProperties \cup {PlainItem}, NEW C \in SUBSET There, NEW wanted,
         AddItem(u, n, type, parent, asRoot, p, C, wanted)
  PROVE  /\ There' = There \cup {n} /\ n \notin There /\ n \in AllItems
         /\ \A i \in There : itemRow'[i] = itemRow[i] /\ itemOwner'[i] = itemOwner[i]
         /\ itemRow'[n] \in ItemRows /\ itemRow'[n].type = type /\ itemRow'[n].language = p.language
         /\ itemOwner'[n] = {u} /\ p.language \in ItemLanguages
         /\ Rows'
<1> DEFINE row == Row(type, p.timed = TRUE, p.entry = TRUE, p.language)
<1>1. /\ n \notin There /\ itemRow' = Merged(itemRow, [i \in {n} |-> row])
      /\ itemOwner' = Merged(itemOwner, [i \in {n} |-> {u}])
      /\ MayStartWith(type, p.timed, p.entry) /\ p.language \in ItemLanguages
  BY DEF AddItem, NewItemValid, LanguageValid
<1>2. row \in ItemRows /\ row.type = type /\ row.language = p.language
  BY <1>1 DEF Row, ItemRows
<1>3. /\ row.timed => row.entry
      /\ row.entry => row.participants /\ row.type # "Skill"
  <2>1. /\ row.timed = (p.timed = TRUE) /\ row.entry = (p.entry = TRUE)
        /\ row.participants = (p.entry = TRUE) /\ row.type = type
    BY DEF Row
  <2>2. /\ p.timed = TRUE => p.entry = TRUE
        /\ p.entry = TRUE => type # "Skill"
    BY <1>1, Zenon DEF MayStartWith
  <2> QED
    BY <2>1, <2>2
<1> HIDE DEF row
<1>4. /\ itemRow' = [i \in There \cup {n} |-> IF i = n THEN row ELSE itemRow[i]]
      /\ itemOwner' = [i \in There \cup {n} |-> IF i = n THEN {u} ELSE itemOwner[i]]
  BY <1>1 DEF Merged, There, ItemsInv, Rows
<1>5. /\ There' = There \cup {n} /\ n \in AllItems
      /\ \A i \in There : itemRow'[i] = itemRow[i] /\ itemOwner'[i] = itemOwner[i]
      /\ itemRow'[n] = row /\ itemOwner'[n] = {u}
  BY <1>1, <1>4 DEF There, AllItems
<1>6. Rows'
  <2>1. There' \subseteq AllItems /\ itemOwner' = [i \in There' |-> itemOwner'[i]]
    BY <1>4, <1>5 DEF ItemsInv, Rows
  <2>2. itemRow' \in [There' -> ItemRows]
    BY <1>2, <1>4, <1>5 DEF ItemsInv, Rows
  <2>3. \A i \in There' : /\ itemRow'[i].timed => itemRow'[i].entry
                          /\ itemRow'[i].entry => itemRow'[i].participants /\ itemRow'[i].type # "Skill"
    BY <1>3, <1>5, Zenon DEF ItemsInv, Rows
  <2> QED
    BY <2>1, <2>2, <2>3 DEF Rows
<1> QED
  BY <1>1, <1>2, <1>5, <1>6

\* A new item makes no cycle: nothing was linked to it, and its children are
\* not above its parent.
LEMMA NewItemAcyclic ==
  ASSUME ItemsInv, NEW n \in AllItems \ There, NEW parent \in There \cup {NoItem},
         NEW C \in SUBSET There, NoCycleThroughParent(parent, C)
  PROVE  Acyclic(DOMAIN itemLink \cup ({n} \X C) \cup (Above(parent) \X {n}))
<1> DEFINE D == DOMAIN itemLink
           below == D \cup ({n} \X C)
<1>1. D \in SUBSET (There \X There) /\ There \in SUBSET AllItems /\ Acyclic(D)
  BY DEF ItemsInv, Links, Rows
<1> HIDE DEF D
<1>2. below \in SUBSET (AllItems \X AllItems) /\ D \in SUBSET (AllItems \X AllItems)
  BY <1>1
<1>3. Acyclic(below)
  <2>1. ClosedAbove({}, D, n)
    BY <1>1 DEF ClosedAbove
  <2>2. ItemAncestors(D, n) = {}
    BY <1>2, <2>1, AncestorsLeast
  <2>3. C \cap ({n} \cup ItemAncestors(D, n)) = {} /\ C \in SUBSET AllItems
    BY <1>1, <2>2
  <2> QED
    BY <1>1, <1>2, <2>3, NewLinksAcyclic
<1>4. CASE parent = NoItem
  BY <1>3, <1>4 DEF D, Above
<1>5. CASE parent # NoItem
  <2> DEFINE A == ItemAncestors(D, parent)
  <2>1. /\ parent \in AllItems /\ C \cap ({parent} \cup A) = {}
        /\ A \in SUBSET AllItems /\ ClosedAbove(A, D, parent)
    BY <1>1, <1>2, <1>5, AncestorsLeast DEF NoCycleThroughParent, D
  <2> HIDE DEF A
  <2>2. ClosedAbove(A, below, parent)
    BY <1>2, <2>1 DEF ClosedAbove
  <2>3. ClosedAbove(There, D, parent) /\ There \in SUBSET AllItems
    BY <1>1 DEF ClosedAbove
  <2>4. A \subseteq There
    BY <1>2, <2>1, <2>3, AncestorsLeast DEF A
  <2>5. ItemAncestors(below, parent) \subseteq There
    BY <1>2, <2>1, <2>2, <2>4, AncestorsLeast
  <2>6. {n} \cap ({parent} \cup ItemAncestors(below, parent)) = {} /\ {n} \in SUBSET AllItems
    BY <1>5, <2>5
  <2> DEFINE new == below \cup ({parent} \X {n})
  <2>7. new \in SUBSET (below \cup ({parent} \X {n}))
    OBVIOUS
  <2> HIDE DEF below, new
  <2>8. Acyclic(new)
    BY <1>2, <1>3, <2>1, <2>6, <2>7, NewLinksAcyclic
  <2>9. Above(parent) = {parent}
    BY <1>5 DEF Above
  <2> QED
    BY <2>8, <2>9 DEF new, below, D
<1> QED
  BY <1>4, <1>5

\* createItem keeps the invariant.
LEMMA AddItemStep ==
  ASSUME ItemsInv, NEW u \in ItemEditors, NEW n \in NewItems, NEW type \in Types,
         NEW parent \in There \cup {NoItem}, NEW asRoot \in BOOLEAN,
         NEW p \in NewItemProperties \cup {PlainItem}, NEW C \in SUBSET There, NEW wanted,
         RequestTyped(wanted), AddItem(u, n, type, parent, asRoot, p, C, wanted)
  PROVE  ItemsInv'
<1>1. /\ There' = There \cup {n} /\ n \notin There /\ n \in AllItems
      /\ \A i \in There : itemRow'[i] = itemRow[i] /\ itemOwner'[i] = itemOwner[i]
      /\ itemRow'[n] \in ItemRows /\ itemRow'[n].type = type /\ itemRow'[n].language = p.language
      /\ itemOwner'[n] = {u} /\ p.language \in ItemLanguages
      /\ Rows'
  BY NewItemRow
<1>2. /\ DOMAIN itemLink' = DOMAIN itemLink \cup ({n} \X C) \cup (Above(parent) \X {n})
      /\ itemLink' = [l \in DOMAIN itemLink' |-> itemLink'[l]]
      /\ linkHands' = [l \in DOMAIN itemLink' |-> linkHands'[l]]
      /\ \A l \in DOMAIN itemLink : itemLink'[l] = itemLink[l] /\ linkHands'[l] = linkHands[l]
      /\ \A c \in C : /\ itemLink'[<<n, c>>] = NewLevels({}, RightsOnChild(u, c), wanted)
                      /\ linkHands'[<<n, c>>] = {u}
      /\ \A q \in Above(parent) : itemLink'[<<q, n>>] = ParentLink(wanted) /\ linkHands'[<<q, n>>] = {u}
  <2>1. NewLinks(u, n, parent, C, wanted)
    BY NewItemLinks
  <2> QED
    BY <2>1, Zenon DEF NewLinks
<1>3. /\ itemStrings' = itemStrings \cup {<<n, p.language>>} /\ dependencies' = dependencies
      /\ setNewItemAsRoot(asRoot, type, n) /\ NoCycleThroughParent(parent, C)
      /\ NewItemValid(u, type, parent, asRoot, p, C) /\ LinksAccepted(u, n, C, wanted)
  BY DEF AddItem
<1>4. Above(parent) \subseteq There
  BY DEF Above
\* A link that is there, to a child of the list, or from the parent.
<1>5. \A l \in DOMAIN itemLink' : \/ l \in DOMAIN itemLink /\ l[1] \in There /\ l[2] \in There
                                  \/ \E c \in C : l = <<n, c>>
                                  \/ \E q \in Above(parent) : l = <<q, n>>
  BY <1>2 DEF ItemsInv, Links
<1>6. Strings'
  BY <1>1, <1>3 DEF ItemsInv, Strings
<1>7. Dependencies'
  BY <1>1, <1>3 DEF ItemsInv, Dependencies
<1>8. Roots'
  <2>1. CASE ~asRoot
    <3>1. rootItem' = rootItem
      BY <1>3, <2>1, Zenon DEF setNewItemAsRoot
    <3> QED
      BY <1>1, <3>1 DEF ItemsInv, Roots
  <2>2. CASE asRoot /\ type = "Skill"
    <3>1. rootItem' = [rootItem EXCEPT !.skill = n]
      BY <1>3, <2>2, Zenon DEF setNewItemAsRoot
    <3> QED
      BY <1>1, <2>2, <3>1 DEF ItemsInv, Roots
  <2>3. CASE asRoot /\ type # "Skill"
    <3>1. rootItem' = [rootItem EXCEPT !.activity = n]
      BY <1>3, <2>3, Zenon DEF setNewItemAsRoot
    <3> QED
      BY <1>1, <2>3, <3>1 DEF ItemsInv, Roots
  <2> QED
    BY <2>1, <2>2, <2>3
<1>9. Acyclic(DOMAIN itemLink)'
  <2>1. Acyclic(DOMAIN itemLink \cup ({n} \X C) \cup (Above(parent) \X {n}))
    BY <1>1, <1>3, NewItemAcyclic
  <2> QED
    BY <1>2, <2>1
<1>10. TypesOfLinks'
  <2>1. ASSUME NEW c \in C
        PROVE  type # "Task" /\ (itemRow[c].type = "Skill" => type = "Skill")
    <3>1. C \subseteq ChildrenInfo(u, C) /\ ChildrenAllowed(type, C) /\ ChildTypesValid(u, type, C)
      BY <1>3 DEF NewItemValid, ChildrenValid
    <3> QED
      BY <3>1 DEF ChildrenAllowed, ChildTypesValid
  <2>2. ASSUME NEW q \in Above(parent)
        PROVE  itemRow[q].type # "Task" /\ (type = "Skill" => itemRow[q].type = "Skill")
    <3>1. ParentType(parent) # "Task" /\ TypeSkillValid(type, parent) /\ q = parent /\ parent # NoItem
      BY <1>3 DEF NewItemValid, Above
    <3>2. itemRow[q].type \in Types
      BY <1>4 DEF ItemsInv, Rows, ItemRows
    <3> QED
      BY <3>1, <3>2 DEF ParentType, TypeSkillValid, Types
  <2> DEFINE TypesFit(q, c) == /\ itemRow'[q].type # "Task"
                               /\ itemRow'[c].type = "Skill" => itemRow'[q].type = "Skill"
  <2>3. ASSUME NEW l \in DOMAIN itemLink' PROVE TypesFit(l[1], l[2])
    <3>1. CASE l \in DOMAIN itemLink /\ l[1] \in There /\ l[2] \in There
      BY <1>1, <3>1 DEF ItemsInv, TypesOfLinks
    <3>2. ASSUME NEW c \in C, l = <<n, c>> PROVE TypesFit(l[1], l[2])
      BY <1>1, <2>1, <3>2
    <3>3. ASSUME NEW q \in Above(parent), l = <<q, n>> PROVE TypesFit(l[1], l[2])
      BY <1>1, <1>4, <2>2, <3>3
    <3> QED
      BY <1>5, <3>1, <3>2, <3>3
  <2> QED
    BY <2>3 DEF TypesOfLinks
<1>11. ASSUME NEW c \in C
       PROVE  /\ LevelsTyped(NewLevels({}, RightsOnChild(u, c), wanted))
              /\ \A f \in LinkFields :
                   NewLevels({}, RightsOnChild(u, c), wanted)[f] <= LevelAllowed(RightsOf(u, c))[f]
  <2>1. <<n, c>> \notin DOMAIN itemLink
    BY <1>1 DEF ItemsInv, Links
  <2>2. OldLevels(n, c) = {}
    BY <2>1 DEF OldLevels
  <2>3. LevelsAccepted(OldLevels(n, c), RightsOnChild(u, c), wanted)
    BY <1>3 DEF LinksAccepted
  <2> QED
    BY <1>1, <2>1, <2>2, <2>3, WrittenLink
<1>12. ASSUME NEW f \in LinkFields
       PROVE  ParentLink(wanted)[f] \in 1..TopLevel[f]
  BY FieldsOfLevels DEF ParentLink, ValueOr, RequestTyped
<1>13. Links'
  <2>1. DOMAIN itemLink' \subseteq There' \X There'
    BY <1>1, <1>4, <1>5, <1>2 DEF ItemsInv, Links
  <2> DEFINE Written(l) == LevelsTyped(itemLink'[l]) /\ linkHands'[l] \subseteq ItemEditors
  <2>2. ASSUME NEW l \in DOMAIN itemLink' PROVE Written(l)
    <3>1. CASE l \in DOMAIN itemLink
      BY <1>2, <3>1 DEF ItemsInv, Links
    <3>2. ASSUME NEW c \in C, l = <<n, c>> PROVE Written(l)
      BY <1>2, <1>11, <3>2
    <3>3. ASSUME NEW q \in Above(parent), l = <<q, n>> PROVE Written(l)
      BY <1>2, <1>12, <3>3 DEF LevelsTyped
    <3> QED
      BY <1>5, <3>1, <3>2, <3>3
  <2> QED
    BY <1>2, <2>1, <2>2 DEF Links
<1>14. \A v \in ItemEditors, c \in There : RightsOf(v, c)' = RightsOf(v, c)
  BY <1>1 DEF RightsOf
<1>15. PropagationWasAllowed'
  <2> DEFINE Allowed(l, f) ==
               \E v \in linkHands'[l] : itemLink'[l][f] <= LevelAllowed(RightsOf(v, l[2])')[f]
  <2>1. ASSUME NEW l \in DOMAIN itemLink', NEW f \in LinkFields PROVE Allowed(l, f)
    <3>1. CASE l \in DOMAIN itemLink /\ l[1] \in There /\ l[2] \in There
      <4>1. PICK v \in linkHands[l] : itemLink[l][f] <= LevelAllowed(RightsOf(v, l[2]))[f]
        BY <3>1 DEF ItemsInv, PropagationWasAllowed
      <4>2. v \in ItemEditors
        BY <3>1, <4>1 DEF ItemsInv, Links
      <4> QED
        BY <1>2, <1>14, <3>1, <4>1, <4>2
    <3>2. ASSUME NEW c \in C, l = <<n, c>> PROVE Allowed(l, f)
      <4>1. itemLink'[l][f] <= LevelAllowed(RightsOf(u, c)')[f] /\ u \in linkHands'[l] /\ l[2] = c
        BY <1>2, <1>11, <1>14, <3>2
      <4> QED
        BY <4>1
    <3>3. ASSUME NEW q \in Above(parent), l = <<q, n>> PROVE Allowed(l, f)
      <4>1. RightsOf(u, n)' = Everything
        BY <1>1 DEF RightsOf
      <4>2. itemLink'[l][f] <= TopLevel[f] /\ u \in linkHands'[l] /\ l[2] = n
        BY <1>2, <1>12, <3>3, FieldsOfLevels
      <4> QED
        BY <4>1, <4>2, ExtremeRights
    <3> QED
      BY <1>5, <3>1, <3>2, <3>3
  <2> QED
    BY <2>1 DEF PropagationWasAllowed, LevelAllowed, ContentAllowed, UpperAllowed, GrantAllowed,
                WatchAllowed, EditAllowed, HelpAllowed
<1> QED
  BY <1>1, <1>6, <1>7, <1>8, <1>9, <1>10, <1>13, <1>15 DEF ItemsInv

-----------------------------------------------------------------------------
(* updateItem.                                                             *)

ChangeRequests == EntryRequests \cup LanguageRequests \cup {NoProperties}

\* The changed row: its type stays, and its properties go together.
LEMMA ChangedRow ==
  ASSUME ItemsInv, NEW u \in ItemEditors, NEW i \in There, NEW p \in ChangeRequests,
         NEW list \in BOOLEAN, NEW C \in SUBSET There, NEW wanted,
         ChangeItem(u, i, p, list, C, wanted)
  PROVE  /\ There' = There /\ Rows' /\ Strings'
         /\ \A j \in There : itemRow'[j].type = itemRow[j].type
<1> DEFINE row == itemRow[i]
           new == WithProperties(row, p)
<1>1. /\ MayChangeTo(row, p.timed, p.entry) /\ itemRow' = [itemRow EXCEPT ![i] = new]
      /\ p.language # Absent => <<i, p.language>> \in itemStrings
      /\ UNCHANGED <<itemOwner, itemStrings>>
  BY DEF ChangeItem
<1>2. /\ p.timed \in BOOLEAN \cup {Absent} /\ p.entry \in BOOLEAN \cup {Absent}
      /\ p.language \in ItemLanguages \cup {Absent}
  BY DEF ChangeRequests, EntryRequests, LanguageRequests, NoProperties
<1>3. /\ row \in ItemRows
      /\ row.timed => row.entry
      /\ row.entry => row.participants /\ row.type # "Skill"
  BY DEF ItemsInv, Rows
<1>4. /\ new.type = row.type /\ new.timed = ValueOr(p.timed, row.timed)
      /\ new.entry = ValueOr(p.entry, row.entry)
      /\ new.participants = (row.participants \/ p.entry = TRUE)
      /\ new.language = ValueOr(p.language, row.language)
      /\ new = [type |-> new.type, timed |-> new.timed, entry |-> new.entry,
                participants |-> new.participants, language |-> new.language]
  <2> DEFINE timed == ValueOr(p.timed, row.timed)
             entry == ValueOr(p.entry, row.entry)
             participants == row.participants \/ p.entry = TRUE
             language == ValueOr(p.language, row.language)
  <2>1. new = [row EXCEPT !.timed = timed, !.entry = entry, !.participants = participants,
                          !.language = language]
    BY DEF WithProperties
  <2> HIDE DEF row, new, timed, entry, participants, language
  <2>2. /\ new.type = row.type /\ new.timed = timed /\ new.entry = entry
        /\ new.participants = participants /\ new.language = language
        /\ new = [type |-> new.type, timed |-> new.timed, entry |-> new.entry,
                  participants |-> new.participants, language |-> new.language]
    BY <1>3, <2>1 DEF ItemRows
  <2> QED
    BY <2>2, Zenon DEF timed, entry, participants, language
<1>5. /\ new.timed \in BOOLEAN /\ new.entry \in BOOLEAN /\ new.participants \in BOOLEAN
      /\ new.language \in ItemLanguages
  <2>1. /\ row.timed \in BOOLEAN /\ row.entry \in BOOLEAN /\ row.participants \in BOOLEAN
        /\ row.language \in ItemLanguages
    BY <1>3 DEF ItemRows
  <2>2. new.timed \in BOOLEAN /\ new.entry \in BOOLEAN /\ new.language \in ItemLanguages
    BY <1>2, <1>4, <2>1, Zenon DEF ValueOr
  <2>3. new.participants \in BOOLEAN
    BY <1>4
  <2> QED
    BY <2>2, <2>3
<1>6. new \in ItemRows
  BY <1>3, <1>4, <1>5 DEF ItemRows
<1>7. new.timed => new.entry
  <2>1. CASE new.timed # row.timed \/ new.entry # row.entry
    BY <1>1, <1>4, <1>5, <2>1, Zenon DEF MayChangeTo
  <2>2. CASE new.timed = row.timed /\ new.entry = row.entry
    BY <1>3, <2>2, Zenon
  <2> QED
    BY <2>1, <2>2, Zenon
<1>8. new.entry => new.participants /\ new.type # "Skill"
  <2>1. CASE p.entry = Absent
    BY <1>3, <1>4, <2>1, Zenon DEF ValueOr
  <2>2. CASE p.entry # Absent
    <3>1. new.entry = p.entry /\ p.entry \in BOOLEAN
      BY <1>2, <1>4, <2>2, Zenon DEF ValueOr
    <3>2. row.type = "Skill" => p.entry # TRUE
      BY <1>1, Zenon DEF MayChangeTo
    <3> QED
      BY <1>4, <3>1, <3>2, Zenon
  <2> QED
    BY <2>1, <2>2
<1>9. <<i, new.language>> \in itemStrings
  BY <1>1, <1>4, Zenon DEF ValueOr, ItemsInv, Strings
<1> HIDE DEF row, new
<1>10. /\ There' = There /\ itemRow'[i] = new /\ itemRow' \in [There -> ItemRows]
       /\ \A j \in There : j # i => itemRow'[j] = itemRow[j]
  BY <1>1, <1>6 DEF There, ItemsInv, Rows
<1>11. Rows'
  <2>1. ASSUME NEW j \in There
        PROVE  /\ itemRow'[j].timed => itemRow'[j].entry
               /\ itemRow'[j].entry => itemRow'[j].participants /\ itemRow'[j].type # "Skill"
    BY <1>7, <1>8, <1>10, Zenon DEF ItemsInv, Rows
  <2> QED
    BY <1>1, <1>10, <2>1 DEF ItemsInv, Rows
<1>12. Strings'
  BY <1>1, <1>9, <1>10 DEF ItemsInv, Strings
<1> QED
  BY <1>4, <1>10, <1>11, <1>12 DEF row

\* The links from the item are those of the list, and the others stay.
ChangedLinks(u, i, C, wanted) ==
  /\ DOMAIN itemLink' = (DOMAIN itemLink \ ({i} \X AllItems)) \cup ({i} \X C)
  /\ itemLink' = [l \in DOMAIN itemLink' |-> itemLink'[l]]
  /\ linkHands' = [l \in DOMAIN itemLink' |-> linkHands'[l]]
  /\ \A l \in DOMAIN itemLink \ ({i} \X AllItems) : itemLink'[l] = itemLink[l] /\ linkHands'[l] = linkHands[l]
  /\ \A c \in C : /\ itemLink'[<<i, c>>] = NewLevels(OldLevels(i, c), RightsOnChild(u, c), wanted)
                  /\ linkHands'[<<i, c>>] = {u} \cup (IF <<i, c>> \in DOMAIN itemLink
                                                      THEN linkHands[<<i, c>>] ELSE {})

\* What updateItem with a list of children does to the links.
LEMMA ChangedItemLinks ==
  ASSUME ItemsInv, NEW u \in ItemEditors, NEW i \in There, NEW C \in SUBSET There, NEW wanted,
         itemLink' = Merged(Without(itemLink, {i} \X AllItems), LinksOf(u, i, C, wanted)),
         linkHands' = Merged(Without(linkHands, {i} \X AllItems), HandsOf(u, i, C))
  PROVE  ChangedLinks(u, i, C, wanted)
<1> DEFINE remaining == Without(itemLink, {i} \X AllItems)
           keptHands == Without(linkHands, {i} \X AllItems)
           written == LinksOf(u, i, C, wanted)
           hands == HandsOf(u, i, C)
           rest == DOMAIN itemLink \ ({i} \X AllItems)
<1>1. DOMAIN linkHands = DOMAIN itemLink /\ C \subseteq AllItems
  BY DEF ItemsInv, Links, Rows
<1>2. /\ DOMAIN remaining = rest /\ DOMAIN keptHands = rest
      /\ \A l \in rest : remaining[l] = itemLink[l] /\ keptHands[l] = linkHands[l] /\ l \notin {i} \X C
  BY <1>1 DEF Without
<1>3. /\ DOMAIN written = {i} \X C /\ DOMAIN hands = {i} \X C
      /\ \A c \in C : /\ written[<<i, c>>] = NewLevels(OldLevels(i, c), RightsOnChild(u, c), wanted)
                      /\ hands[<<i, c>>] = {u} \cup (IF <<i, c>> \in DOMAIN itemLink
                                                     THEN linkHands[<<i, c>>] ELSE {})
  BY <1>1 DEF LinksOf, HandsOf
<1> HIDE DEF remaining, keptHands, written, hands, rest
<1>4. /\ DOMAIN itemLink' = rest \cup ({i} \X C)
      /\ itemLink' = [l \in DOMAIN itemLink' |-> itemLink'[l]]
      /\ \A l \in rest : itemLink'[l] = itemLink[l]
      /\ \A l \in {i} \X C : itemLink'[l] = written[l]
  BY <1>2, <1>3 DEF Merged, remaining, written
<1>5. /\ DOMAIN linkHands' = rest \cup ({i} \X C)
      /\ linkHands' = [l \in DOMAIN linkHands' |-> linkHands'[l]]
      /\ \A l \in rest : linkHands'[l] = linkHands[l]
      /\ \A l \in {i} \X C : linkHands'[l] = hands[l]
  BY <1>2, <1>3 DEF Merged, keptHands, hands
<1>6. \A c \in C : <<i, c>> \in {i} \X C
  OBVIOUS
<1> QED
  BY <1>3, <1>4, <1>5, <1>6 DEF ChangedLinks, rest

\* updateItem keeps the invariant.
LEMMA ChangeItemStep ==
  ASSUME ItemsInv, NEW u \in ItemEditors, NEW i \in There, NEW p \in ChangeRequests,
         NEW list \in BOOLEAN, NEW C \in SUBSET There, NEW wanted, RequestTyped(wanted),
         ChangeItem(u, i, p, list, C, wanted)
  PROVE  ItemsInv'
<1>1. /\ There' = There /\ Rows' /\ Strings'
      /\ \A j \in There : itemRow'[j].type = itemRow[j].type
  BY ChangedRow
<1>2. UNCHANGED <<itemOwner, dependencies, rootItem>>
  BY DEF ChangeItem
<1>3. Roots' /\ Dependencies'
  BY <1>1, <1>2 DEF ItemsInv, Roots, Dependencies
<1>4. \A v, c : RightsOf(v, c)' = RightsOf(v, c)
  BY <1>2 DEF RightsOf
<1>5. CASE ~list
  <2>1. UNCHANGED <<itemLink, linkHands>>
    BY <1>5, Zenon DEF ChangeItem
  <2>2. Links' /\ Acyclic(DOMAIN itemLink)'
    BY <1>1, <2>1 DEF ItemsInv, Links
  <2>3. TypesOfLinks'
    BY <1>1, <2>1 DEF ItemsInv, Links, TypesOfLinks
  <2>4. PropagationWasAllowed'
    BY <1>4, <2>1, Zenon DEF ItemsInv, PropagationWasAllowed
  <2> QED
    BY <1>1, <1>3, <2>2, <2>3, <2>4 DEF ItemsInv
<1>6. CASE list
  <2>1. /\ ChildrenValid(u, C, OldChildren(i))
        /\ ChildrenAllowed(itemRow[i].type, C) /\ ChildTypesValid(u, itemRow[i].type, C)
        /\ NoCycleThrough(i, C) /\ LinksAccepted(u, i, C, wanted)
        /\ itemLink' = Merged(Without(itemLink, {i} \X AllItems), LinksOf(u, i, C, wanted))
        /\ linkHands' = Merged(Without(linkHands, {i} \X AllItems), HandsOf(u, i, C))
    BY <1>6, Zenon DEF ChangeItem
  <2>2. ChangedLinks(u, i, C, wanted)
    BY <2>1, ChangedItemLinks
  <2>3. /\ DOMAIN itemLink' = (DOMAIN itemLink \ ({i} \X AllItems)) \cup ({i} \X C)
        /\ itemLink' = [l \in DOMAIN itemLink' |-> itemLink'[l]]
        /\ linkHands' = [l \in DOMAIN itemLink' |-> linkHands'[l]]
        /\ \A l \in DOMAIN itemLink \ ({i} \X AllItems) :
             itemLink'[l] = itemLink[l] /\ linkHands'[l] = linkHands[l]
    BY <2>2, Zenon DEF ChangedLinks
  <2>4. \A c \in C : /\ itemLink'[<<i, c>>] = NewLevels(OldLevels(i, c), RightsOnChild(u, c), wanted)
                     /\ u \in linkHands'[<<i, c>>] /\ linkHands'[<<i, c>>] \subseteq ItemEditors
                     /\ <<i, c>> \in DOMAIN itemLink => linkHands[<<i, c>>] \subseteq linkHands'[<<i, c>>]
    BY <2>2 DEF ChangedLinks, ItemsInv, Links
  <2>5. /\ DOMAIN itemLink \in SUBSET (There \X There) /\ There \in SUBSET AllItems
        /\ i \in AllItems /\ C \in SUBSET AllItems
    BY DEF ItemsInv, Links, Rows
  <2>6. \A l \in DOMAIN itemLink' :
          \/ l \in DOMAIN itemLink \ ({i} \X AllItems) /\ l[1] \in There /\ l[2] \in There
          \/ \E c \in C : l = <<i, c>>
    BY <2>3, <2>5
  <2>7. Acyclic(DOMAIN itemLink)'
    <3> DEFINE D == DOMAIN itemLink
               new == DOMAIN itemLink'
    <3>1. new \in SUBSET (D \cup ({i} \X C)) /\ D \in SUBSET (AllItems \X AllItems)
      BY <2>3, <2>5
    <3>2. C \cap ({i} \cup ItemAncestors(D, i)) = {} /\ Acyclic(D)
      BY <2>1 DEF NoCycleThrough, ItemsInv
    <3> HIDE DEF D, new
    <3>3. Acyclic(new)
      BY <2>5, <3>1, <3>2, NewLinksAcyclic
    <3> QED
      BY <3>3 DEF new
  <2>8. TypesOfLinks'
    <3> DEFINE TypesFit(q, c) == /\ itemRow'[q].type # "Task"
                                 /\ itemRow'[c].type = "Skill" => itemRow'[q].type = "Skill"
    <3>1. ASSUME NEW c \in C PROVE TypesFit(i, c)
      <4>1. itemRow'[i].type = itemRow[i].type /\ itemRow'[c].type = itemRow[c].type
        BY <1>1
      <4>2. CASE c \in ChildrenInfo(u, C)
        BY <2>1, <4>1, <4>2 DEF ChildrenAllowed, ChildTypesValid
      <4>3. CASE c \notin ChildrenInfo(u, C)
        <5>1. <<i, c>> \in DOMAIN itemLink
          BY <2>1, <4>3 DEF ChildrenValid, OldChildren
        <5> QED
          BY <4>1, <5>1 DEF ItemsInv, TypesOfLinks
      <4> QED
        BY <4>2, <4>3
    <3>2. ASSUME NEW l \in DOMAIN itemLink, l[1] \in There, l[2] \in There PROVE TypesFit(l[1], l[2])
      BY <1>1, <3>2 DEF ItemsInv, TypesOfLinks
    <3>3. \A l \in DOMAIN itemLink' : TypesFit(l[1], l[2])
      BY <2>6, <3>1, <3>2
    <3> QED
      BY <3>3 DEF TypesOfLinks
  <2>9. ASSUME NEW c \in C
        PROVE  /\ LevelsTyped(itemLink'[<<i, c>>])
               /\ \A f \in LinkFields :
                    \E v \in linkHands'[<<i, c>>] : itemLink'[<<i, c>>][f] <= LevelAllowed(RightsOf(v, c))[f]
    <3> DEFINE new == NewLevels(OldLevels(i, c), RightsOnChild(u, c), wanted)
    <3>1. LevelsAccepted(OldLevels(i, c), RightsOnChild(u, c), wanted)
      BY <2>1 DEF LinksAccepted
    <3>2. /\ LevelsTyped(new)
          /\ \A f \in LinkFields :
               \/ new[f] <= LevelAllowed(RightsOf(u, c))[f]
               \/ /\ <<i, c>> \in DOMAIN itemLink
                  /\ \E v \in linkHands[<<i, c>>] : new[f] <= LevelAllowed(RightsOf(v, c))[f]
      BY <2>5, <3>1, WrittenLink
    <3>3. itemLink'[<<i, c>>] = new
      BY <2>4
    <3> HIDE DEF new
    <3> QED
      BY <2>4, <3>2, <3>3
  <2>10. Links'
    <3> DEFINE Written(l) == LevelsTyped(itemLink'[l]) /\ linkHands'[l] \subseteq ItemEditors
    <3>1. DOMAIN itemLink' \subseteq There' \X There'
      BY <1>1, <2>3, <2>5
    <3>2. \A c \in C : Written(<<i, c>>)
      BY <2>4, <2>9
    <3>3. \A l \in DOMAIN itemLink \ ({i} \X AllItems) : Written(l)
      BY <2>3 DEF ItemsInv, Links
    <3>4. \A l \in DOMAIN itemLink' : Written(l)
      BY <2>6, <3>2, <3>3
    <3> QED
      BY <2>3, <3>1, <3>4 DEF Links
  <2>11. PropagationWasAllowed'
    <3> DEFINE Allowed(l, f) ==
                 \E v \in linkHands'[l] : itemLink'[l][f] <= LevelAllowed(RightsOf(v, l[2]))[f]
    <3>1. ASSUME NEW l \in DOMAIN itemLink', NEW f \in LinkFields PROVE Allowed(l, f)
      <4>1. CASE l \in DOMAIN itemLink \ ({i} \X AllItems)
        BY <2>3, <4>1 DEF ItemsInv, PropagationWasAllowed
      <4>2. ASSUME NEW c \in C, l = <<i, c>> PROVE Allowed(l, f)
        BY <2>9, <4>2
      <4> QED
        BY <2>6, <4>1, <4>2
    <3> QED
      BY <1>4, <3>1, Zenon DEF PropagationWasAllowed
  <2> QED
    BY <1>1, <1>3, <2>7, <2>8, <2>10, <2>11 DEF ItemsInv
<1> QED
  BY <1>5, <1>6

-----------------------------------------------------------------------------
(* deleteItem, and the services that leave items and links alone.          *)

\* deleteItem: what hangs on the row goes with it, and nothing else.
LEMMA RemoveItemStep ==
  ASSUME ItemsInv, NEW u \in ItemEditors, NEW i \in There, RemoveItem(u, i)
  PROVE  ItemsInv'
<1>1. /\ OldChildren(i) = {}
      /\ itemRow' = Without(itemRow, {i}) /\ itemOwner' = Without(itemOwner, {i})
      /\ itemLink' = Without(itemLink, AllItems \X {i})
      /\ linkHands' = Without(linkHands, AllItems \X {i})
      /\ itemStrings' = itemStrings \ ({i} \X ItemLanguages)
      /\ dependencies' = {d \in dependencies : i \notin {d[1], d[2]}}
      /\ rootItem' = [k \in DOMAIN rootItem |-> IF rootItem[k] = i THEN NoItem ELSE rootItem[k]]
  BY DEF RemoveItem
<1>2. /\ There' = There \ {i}
      /\ \A j \in There' : itemRow'[j] = itemRow[j] /\ itemOwner'[j] = itemOwner[j]
  BY <1>1 DEF Without, There, ItemsInv, Rows
<1>3. Rows'
  <2>1. itemRow' \in [There' -> ItemRows] /\ itemOwner' = [j \in There' |-> itemOwner'[j]]
    BY <1>1, <1>2 DEF Without, ItemsInv, Rows, There
  <2>2. There' \subseteq AllItems
    BY <1>2 DEF ItemsInv, Rows
  <2>3. \A j \in There' : /\ itemRow'[j].timed => itemRow'[j].entry
                          /\ itemRow'[j].entry => itemRow'[j].participants /\ itemRow'[j].type # "Skill"
    BY <1>2, Zenon DEF ItemsInv, Rows
  <2> QED
    BY <2>1, <2>2, <2>3 DEF Rows
<1>4. Strings'
  BY <1>1, <1>2 DEF ItemsInv, Strings
<1>5. Dependencies'
  BY <1>1, <1>2 DEF ItemsInv, Dependencies
<1>6. Roots'
  BY <1>1, <1>2 DEF ItemsInv, Roots
<1>7. \A l \in DOMAIN itemLink : l[1] \in There /\ l[2] \in There /\ l = <<l[1], l[2]>> /\ l[1] # i
  BY <1>1 DEF OldChildren, ItemsInv, Links, Rows
<1>8. /\ DOMAIN itemLink' = DOMAIN itemLink \ (AllItems \X {i})
      /\ itemLink' = [l \in DOMAIN itemLink' |-> itemLink'[l]]
      /\ linkHands' = [l \in DOMAIN itemLink' |-> linkHands'[l]]
      /\ \A l \in DOMAIN itemLink' : itemLink'[l] = itemLink[l] /\ linkHands'[l] = linkHands[l]
  BY <1>1 DEF Without, ItemsInv, Links
<1>9. \A l \in DOMAIN itemLink' : l \in DOMAIN itemLink /\ l[1] \in There' /\ l[2] \in There'
  BY <1>2, <1>7, <1>8 DEF ItemsInv, Rows
<1>10. Links'
  <2>1. DOMAIN itemLink' \subseteq There' \X There'
    BY <1>7, <1>9
  <2> QED
    BY <1>8, <1>9, <2>1 DEF ItemsInv, Links
<1>11. TypesOfLinks'
  BY <1>2, <1>9 DEF ItemsInv, TypesOfLinks
<1>12. Acyclic(DOMAIN itemLink)'
  <2> DEFINE D == DOMAIN itemLink
             new == DOMAIN itemLink'
             none == {}
  <2>1. /\ new \in SUBSET (D \cup ({i} \X none)) /\ D \in SUBSET (AllItems \X AllItems)
        /\ i \in AllItems /\ none \in SUBSET AllItems /\ Acyclic(D)
        /\ none \cap ({i} \cup ItemAncestors(D, i)) = {}
    BY <1>8 DEF ItemsInv, Links, Rows
  <2> HIDE DEF D, new, none
  <2>2. Acyclic(new)
    BY <2>1, NewLinksAcyclic
  <2> QED
    BY <2>2 DEF new
<1>13. PropagationWasAllowed'
  <2>1. \A v, c : c \in There' => RightsOf(v, c)' = RightsOf(v, c)
    BY <1>2 DEF RightsOf
  <2> DEFINE Allowed(l, f) ==
               \E v \in linkHands'[l] : itemLink'[l][f] <= LevelAllowed(RightsOf(v, l[2]))[f]
  <2>2. \A l \in DOMAIN itemLink', f \in LinkFields : Allowed(l, f)
    BY <1>8, <1>9 DEF ItemsInv, PropagationWasAllowed
  <2> QED
    BY <1>9, <2>1, <2>2, Zenon DEF PropagationWasAllowed
<1> QED
  BY <1>3, <1>4, <1>5, <1>6, <1>10, <1>11, <1>12, <1>13 DEF ItemsInv

\* Neither items nor links change.
LEMMA ItemsStay ==
  ASSUME ItemsInv, UNCHANGED <<itemRow, itemLink, linkHands, itemOwner, rootItem>>,
         Strings', Dependencies'
  PROVE  ItemsInv'
<1>1. Rows' /\ Links' /\ TypesOfLinks' /\ Roots' /\ Acyclic(DOMAIN itemLink)'
  BY DEF ItemsInv, Rows, Links, TypesOfLinks, Roots, There
<1>2. PropagationWasAllowed'
  BY Zenon DEF ItemsInv, PropagationWasAllowed, RightsOf
<1> QED
  BY <1>1, <1>2 DEF ItemsInv

\* updateItemString writes a row for an item that is there.
LEMMA ItemStringStep ==
  ASSUME ItemsInv, NEW u \in ItemEditors, NEW i \in There, NEW language \in ItemLanguages \cup {Absent},
         updateItemString(u, i, language)
  PROVE  ItemsInv'
<1>1. /\ itemStrings' = itemStrings \cup {<<i, ValueOr(language, itemRow[i].language)>>}
      /\ UNCHANGED <<itemRow, itemLink, linkHands, itemOwner, dependencies, rootItem>>
  BY DEF updateItemString
<1>2. ValueOr(language, itemRow[i].language) \in ItemLanguages
  BY DEF ValueOr, ItemsInv, Rows, ItemRows
<1>3. Strings' /\ Dependencies'
  BY <1>1, <1>2 DEF ItemsInv, Strings, Dependencies, There
<1> QED
  BY <1>1, <1>3, ItemsStay

\* createDependency and deleteDependency.
LEMMA DependencyStep ==
  ASSUME ItemsInv, NEW u \in ItemEditors, NEW i \in There, NEW j \in There, NEW granting \in BOOLEAN,
         createDependency(u, j, i, granting) \/ deleteDependency(u, j, i)
  PROVE  ItemsInv'
<1>1. UNCHANGED <<itemRow, itemLink, linkHands, itemOwner, itemStrings, rootItem>>
  BY DEF createDependency, deleteDependency
<1>2. dependencies' \subseteq dependencies \cup {<<j, i, granting>>}
  BY DEF createDependency, deleteDependency
<1>3. Strings' /\ Dependencies'
  BY <1>1, <1>2 DEF ItemsInv, Strings, Dependencies, There
<1> QED
  BY <1>1, <1>3, ItemsStay

-----------------------------------------------------------------------------
(* The theorems.                                                           *)

\* The first items, without links.
LEMMA ItemsInitInv == ItemsInit => ItemsInv
<1> SUFFICES ASSUME ItemsInit PROVE ItemsInv
  OBVIOUS
<1>1. There = DOMAIN FirstItems /\ There \subseteq AllItems
  BY DEF ItemsInit, There, AllItems
<1>2. \A i \in There : /\ itemRow[i] = Row(FirstItems[i], FALSE, FALSE, FirstLanguage)
                       /\ itemRow[i] \in ItemRows
  BY <1>1, ItemsAssumption DEF ItemsInit, Row, ItemRows
<1>3. Rows
  <2>1. itemRow \in [There -> ItemRows] /\ itemOwner = [i \in There |-> itemOwner[i]]
    BY <1>1, <1>2 DEF ItemsInit
  <2>2. \A i \in There : itemRow[i].timed = FALSE /\ itemRow[i].entry = FALSE
    <3>1. \A i \in There : Row(FirstItems[i], FALSE, FALSE, FirstLanguage).timed = FALSE
      BY SMT DEF Row
    <3>2. \A i \in There : Row(FirstItems[i], FALSE, FALSE, FirstLanguage).entry = FALSE
      BY SMT DEF Row
    <3> QED
      BY <1>2, <3>1, <3>2, Zenon
  <2>3. \A i \in There : /\ itemRow[i].timed => itemRow[i].entry
                         /\ itemRow[i].entry => itemRow[i].participants /\ itemRow[i].type # "Skill"
    <3> SUFFICES ASSUME NEW i \in There
                 PROVE  /\ itemRow[i].timed => itemRow[i].entry
                        /\ itemRow[i].entry => itemRow[i].participants /\ itemRow[i].type # "Skill"
      OBVIOUS
    <3>1. ~itemRow[i].timed /\ ~itemRow[i].entry
      <4>1. itemRow[i].timed = FALSE
        BY <2>2
      <4>2. itemRow[i].entry = FALSE
        BY <2>2
      <4>3. ~itemRow[i].timed
        BY <4>1, Zenon
      <4>4. ~itemRow[i].entry
        BY <4>2, Zenon
      <4> QED
        BY <4>3, <4>4, Zenon
    <3> QED
      BY <3>1, Zenon
  <2> QED
    BY <1>1, <2>1, <2>3, Zenon DEF Rows
<1>4. Strings
  BY <1>1, <1>2, ItemsAssumption DEF ItemsInit, Strings, Row
<1>5. DOMAIN itemLink = {} /\ Links /\ TypesOfLinks /\ PropagationWasAllowed
  BY DEF ItemsInit, Links, TypesOfLinks, PropagationWasAllowed
<1>6. Roots /\ Dependencies
  BY DEF ItemsInit, Roots, Dependencies
<1>7. Acyclic(DOMAIN itemLink)
  <2> SUFFICES ASSUME NEW i \in AllItems PROVE i \notin ItemAncestors({}, i)
    BY <1>5 DEF Acyclic
  <2>1. ClosedAbove({}, {}, i)
    BY DEF ClosedAbove
  <2> QED
    BY <2>1, AncestorsLeast
<1> QED
  BY <1>3, <1>4, <1>5, <1>6, <1>7 DEF ItemsInv

\* What the services are asked, of the links, is typed.
LEMMA RequestsAreTyped == \A wanted \in ChildRequests \cup {AllAbsent} : RequestTyped(wanted)
BY ItemsAssumption DEF RequestTyped, AllAbsent

\* Every service keeps the invariant.
LEMMA ItemsNextInv == ItemsInv /\ [ItemsNext]_itemVars => ItemsInv'
<1> SUFFICES ASSUME ItemsInv, [ItemsNext]_itemVars PROVE ItemsInv'
  OBVIOUS
<1>1. ASSUME NEW u \in ItemEditors, NEW n \in NewItems, NEW type \in Types, NEW parent \in There \cup {NoItem},
             NEW asRoot \in BOOLEAN, NEW p \in NewItemProperties, AddItem(u, n, type, parent, asRoot, p, {}, AllAbsent)
      PROVE  ItemsInv'
  <2>1. RequestTyped(AllAbsent) /\ {} \in SUBSET There
    BY RequestsAreTyped
  <2> QED
    BY <1>1, <2>1, AddItemStep
<1>2. ASSUME NEW u \in ItemEditors, NEW n \in NewItems, NEW type \in Types, NEW parent \in There \cup {NoItem},
             NEW C \in SUBSET There, NEW wanted \in ChildRequests,
             AddItem(u, n, type, parent, parent = NoItem, PlainItem, C, wanted)
      PROVE  ItemsInv'
  <2>1. RequestTyped(wanted) /\ (parent = NoItem) \in BOOLEAN
    BY RequestsAreTyped
  <2> QED
    BY <1>2, <2>1, AddItemStep
<1>3. ASSUME NEW u \in ItemEditors, NEW i \in There, NEW p \in EntryRequests \cup LanguageRequests,
             ChangeItem(u, i, p, FALSE, {}, AllAbsent)
      PROVE  ItemsInv'
  <2>1. RequestTyped(AllAbsent) /\ {} \in SUBSET There /\ p \in ChangeRequests
    BY RequestsAreTyped DEF ChangeRequests
  <2> QED
    BY <1>3, <2>1, ChangeItemStep
<1>4. ASSUME NEW u \in ItemEditors, NEW i \in There, NEW C \in SUBSET There, NEW wanted \in ChildRequests,
             ChangeItem(u, i, NoProperties, TRUE, C, wanted)
      PROVE  ItemsInv'
  <2>1. RequestTyped(wanted) /\ NoProperties \in ChangeRequests
    BY RequestsAreTyped DEF ChangeRequests
  <2> QED
    BY <1>4, <2>1, ChangeItemStep
<1>5. ASSUME NEW u \in ItemEditors, NEW i \in There, NEW language \in ItemLanguages \cup {Absent},
             updateItemString(u, i, language)
      PROVE  ItemsInv'
  BY <1>5, ItemStringStep
<1>6. ASSUME NEW u \in ItemEditors, NEW i \in There, RemoveItem(u, i)
      PROVE  ItemsInv'
  BY <1>6, RemoveItemStep
<1>7. ASSUME NEW u \in ItemEditors, NEW i \in There, NEW j \in There, NEW granting \in BOOLEAN,
             createDependency(u, j, i, granting)
      PROVE  ItemsInv'
  BY <1>7, DependencyStep
<1>8. ASSUME NEW u \in ItemEditors, NEW i \in There, NEW j \in There, deleteDependency(u, j, i)
      PROVE  ItemsInv'
  BY <1>8, DependencyStep
<1>9. CASE UNCHANGED itemVars
  <2>1. /\ UNCHANGED <<itemRow, itemLink, linkHands, itemOwner, rootItem>>
        /\ UNCHANGED <<itemStrings, dependencies>>
    BY <1>9 DEF itemVars
  <2>2. Strings' /\ Dependencies'
    BY <2>1 DEF ItemsInv, Strings, Dependencies, There
  <2> QED
    BY <2>1, <2>2, ItemsStay
<1>10. CASE ItemsNext
  <2> DEFINE AddsItem(u) ==
        \E n \in NewItems, type \in Types, parent \in There \cup {NoItem} :
          \/ \E asRoot \in BOOLEAN, p \in NewItemProperties :
               AddItem(u, n, type, parent, asRoot, p, {}, AllAbsent)
          \/ \E C \in SUBSET There, wanted \in ChildRequests :
               AddItem(u, n, type, parent, parent = NoItem, PlainItem, C, wanted)
      ChangesItem(u, i) ==
        \/ \E p \in EntryRequests \cup LanguageRequests :
             ChangeItem(u, i, p, FALSE, {}, AllAbsent)
        \/ \E C \in SUBSET There, wanted \in ChildRequests :
             ChangeItem(u, i, NoProperties, TRUE, C, wanted)
      OtherCalls(u, i) ==
        \/ \E language \in ItemLanguages \cup {Absent} : updateItemString(u, i, language)
        \/ RemoveItem(u, i)
        \/ \E j \in There : \/ \E granting \in BOOLEAN : createDependency(u, j, i, granting)
                            \/ deleteDependency(u, j, i)
  <2>1. \E u \in ItemEditors : AddsItem(u) \/ \E i \in There : ChangesItem(u, i) \/ OtherCalls(u, i)
    BY <1>10, Zenon DEF ItemsNext
  <2>2. ASSUME NEW u \in ItemEditors, AddsItem(u) PROVE ItemsInv'
    BY <1>1, <1>2, <2>2
  <2>3. ASSUME NEW u \in ItemEditors, NEW i \in There, ChangesItem(u, i) PROVE ItemsInv'
    BY <1>3, <1>4, <2>3, Zenon
  <2>4. ASSUME NEW u \in ItemEditors, NEW i \in There, OtherCalls(u, i) PROVE ItemsInv'
    BY <1>5, <1>6, <1>7, <1>8, <2>4, Zenon
  <2> HIDE DEF AddsItem, ChangesItem, OtherCalls
  <2> QED
    BY <2>1, <2>2, <2>3, <2>4, Zenon
<1> QED
  BY <1>9, <1>10

\* The inductive invariant of items and links.
THEOREM ItemsInvariant == ItemsSpec => []ItemsInv
BY ItemsInitInv, ItemsNextInv, PTL DEF ItemsSpec

\* The types, from the rules for rows, links and strings.
LEMMA ItemsAreTyped ==
  ASSUME ItemsInv
  PROVE  ItemsTypeOK
<1>1. /\ There \subseteq AllItems
      /\ itemRow \in [There -> [type : Types, timed : BOOLEAN, entry : BOOLEAN,
                                participants : BOOLEAN, language : ItemLanguages]]
      /\ DOMAIN itemLink = DOMAIN linkHands /\ DOMAIN itemOwner = There
      /\ itemStrings \subseteq There \X ItemLanguages
      /\ dependencies \subseteq There \X There \X BOOLEAN
  BY DEF ItemsInv, Rows, ItemRows, Links, Strings, Dependencies
<1>2. \A i \in There : /\ itemRow[i].timed => itemRow[i].entry
                       /\ itemRow[i].entry => itemRow[i].participants /\ itemRow[i].type # "Skill"
                       /\ <<i, itemRow[i].language>> \in itemStrings
                       /\ i \notin ItemAncestors(DOMAIN itemLink, i)
  BY Zenon DEF ItemsInv, Rows, Strings, Acyclic
<1>3. \A l \in DOMAIN itemLink :
        /\ {l[1], l[2]} \subseteq There
        /\ itemRow[l[1]].type # "Task"
        /\ itemRow[l[2]].type = "Skill" => itemRow[l[1]].type = "Skill"
        /\ \A f \in LinkFields : itemLink[l][f] \in 1..TopLevel[f]
  BY DEF ItemsInv, Links, TypesOfLinks, LevelsTyped
<1>4. /\ rootItem.activity # NoItem => itemRow[rootItem.activity].type # "Skill"
      /\ rootItem.skill # NoItem => itemRow[rootItem.skill].type = "Skill"
  BY DEF ItemsInv, Roots
<1> QED
  BY <1>1, <1>2, <1>3, <1>4, Zenon DEF ItemsTypeOK

\* Items, their links, strings, dependencies and roots are as the validators
\* of the services want them after any sequence of calls; in particular the
\* links never make a cycle, though createItem and updateItem look for one
\* only through the parent (checkNoCycle in items_items).
THEOREM ItemsTypeCorrect == ItemsSpec => []ItemsTypeOK
<1> QED
  BY ItemsAreTyped, ItemsInvariant, PTL

\* A link lets no more propagate than one of its writers could give, however
\* many editors leave, lower and raise its levels one after the other
\* (validateChildrenFieldsAndApplyDefaults).
THEOREM LinksWereAllowed == ItemsSpec => []PropagationWasAllowed
<1>1. ItemsInv => PropagationWasAllowed
  BY DEF ItemsInv
<1> QED
  BY <1>1, ItemsInvariant, PTL

-----------------------------------------------------------------------------
(* The code of a group.                                                    *)

\* While no manager wrote it, the end is the one the first attempt promised.
EndIsPromised ==
  ~managed =>
    /\ promised = Null => codeExpiresAt = Null
    /\ promised # Null =>
         codeExpiresAt = promised.at + promised.lifetime /\ promised.at <= codeClock

\* The last use is past; the first attempt fixed the end, and later uses found
\* it ahead.
UsesBeforeTheEnd ==
  lastUse # Null =>
    /\ lastUse <= codeClock
    /\ ~managed /\ promised # Null => lastUse <= promised.at \/ lastUse < codeExpiresAt

CodesInv == CodesTypeOK /\ EndIsPromised /\ UsesBeforeTheEnd

\* Nothing is known of a code, its first moment.
LEMMA CodesInitInv == CodesInit => CodesInv
<1> SUFFICES ASSUME CodesInit PROVE CodesInv
  OBVIOUS
<1>1. canManage \in [People -> 0..3]
  <2>1. PICK first \in People : canManage = [p \in People |-> IF p = first THEN MembershipsAndGroup ELSE 0]
    BY DEF CodesInit
  <2> QED
    BY <2>1 DEF MembershipsAndGroup
<1>2. 0 \in 0..LastMoment
  BY CodesAssumption
<1> QED
  BY <1>1, <1>2 DEF CodesInit, CodesInv, CodesTypeOK, EndIsPromised, UsesBeforeTheEnd

\* Managers come and go, and what their calls want is checked.
LEMMA ManagersStep ==
  ASSUME CodesInv, NEW p \in People,
         \/ \E q \in People, level \in 1..3 : CreateGroupManager(p, q, level) \/ UpdateGroupManager(p, q, level)
         \/ \E q \in People : RemoveGroupManager(p, q)
         \/ \E change \in {"create", "remove"} : CheckManagesMemberships(p, change)
  PROVE  CodesInv'
<1>1. UNCHANGED <<groupState, useHistory, teamRefuses, codeClock>>
  BY Zenon DEF CreateGroupManager, UpdateGroupManager, RemoveGroupManager, CheckManagesMemberships
<1>2. canManage' \in [People -> 0..3] /\ codeChange' \in {"create", "remove", Null}
  <2>1. ASSUME NEW q \in People, NEW level \in 1..3, CreateGroupManager(p, q, level) \/ UpdateGroupManager(p, q, level)
        PROVE  canManage' \in [People -> 0..3] /\ codeChange' \in {"create", "remove", Null}
    BY <2>1 DEF CreateGroupManager, UpdateGroupManager, CodesInv, CodesTypeOK
  <2>2. ASSUME NEW q \in People, RemoveGroupManager(p, q)
        PROVE  canManage' \in [People -> 0..3] /\ codeChange' \in {"create", "remove", Null}
    BY <2>2 DEF RemoveGroupManager, CodesInv, CodesTypeOK
  <2>3. ASSUME NEW change \in {"create", "remove"}, CheckManagesMemberships(p, change)
        PROVE  canManage' \in [People -> 0..3] /\ codeChange' \in {"create", "remove", Null}
    BY <2>3 DEF CheckManagesMemberships, CodesInv, CodesTypeOK
  <2> QED
    BY <2>1, <2>2, <2>3
<1> QED
  BY <1>1, <1>2
  DEF CodesInv, CodesTypeOK, EndIsPromised, UsesBeforeTheEnd, groupState, useHistory, FreshCodes

\* The code is replaced or removed; its end stays.
LEMMA CodeStep ==
  ASSUME CodesInv, CreateCode \/ CreateCodeFails \/ RemoveCode
  PROVE  CodesInv'
<1>1. CASE CreateCode \/ RemoveCode
  BY <1>1
  DEF CreateCode, RemoveCode, CodesInv, CodesTypeOK, EndIsPromised, UsesBeforeTheEnd,
      FreshCodes, useHistory
<1>2. CASE CreateCodeFails
  BY <1>2
  DEF CreateCodeFails, CodesInv, CodesTypeOK, EndIsPromised, UsesBeforeTheEnd,
      FreshCodes, groupState, useHistory
<1> QED
  BY <1>1, <1>2

\* The group's own fields are changed: with another end, what was known of the
\* uses is about an older one; with another lifetime only, the end stays.
LEMMA GroupStep ==
  ASSUME CodesInv, NEW p \in People,
         \/ \E fields \in SUBSET CodeFields \ {{}}, lifetime \in Lifetimes, expires \in {Null, LastMoment} :
              UpdateGroupCode(p, fields, lifetime, expires)
         \/ FreezeMembership(p) \/ LeaveTheGroup(p) \/ ChangeTeams(p)
  PROVE  CodesInv'
<1>1. ASSUME NEW fields \in SUBSET CodeFields \ {{}}, NEW lifetime \in Lifetimes,
             NEW expires \in {Null, LastMoment}, UpdateGroupCode(p, fields, lifetime, expires)
      PROVE  CodesInv'
  <2>1. /\ UNCHANGED <<canManage, code, frozen, groupMembers, teamRefuses, codeChange, codeClock>>
        /\ codeLifetime' = lifetime \/ codeLifetime' = codeLifetime
        /\ \/ /\ codeExpiresAt' = expires /\ managed' = (expires # Null)
              /\ promised' = Null /\ lastUse' = Null
           \/ UNCHANGED <<codeExpiresAt, promised, lastUse, managed>>
    BY <1>1 DEF UpdateGroupCode, useHistory
  <2>2. CodesTypeOK'
    BY <2>1, CodesAssumption DEF CodesInv, CodesTypeOK, FreshCodes
  <2>3. CASE UNCHANGED <<codeExpiresAt, promised, lastUse, managed>>
    BY <2>1, <2>2, <2>3 DEF CodesInv, EndIsPromised, UsesBeforeTheEnd
  <2>4. CASE codeExpiresAt' = expires /\ managed' = (expires # Null) /\ promised' = Null /\ lastUse' = Null
    BY <2>2, <2>4 DEF CodesInv, EndIsPromised, UsesBeforeTheEnd
  <2> QED
    BY <2>1, <2>3, <2>4
<1>2. CASE FreezeMembership(p) \/ LeaveTheGroup(p)
  BY <1>2
  DEF FreezeMembership, LeaveTheGroup, CodesInv, CodesTypeOK, EndIsPromised, UsesBeforeTheEnd,
      FreshCodes, useHistory
<1>3. CASE ChangeTeams(p)
  BY <1>3
  DEF ChangeTeams, CodesInv, CodesTypeOK, EndIsPromised, UsesBeforeTheEnd, FreshCodes,
      groupState, useHistory
<1> QED
  BY <1>1, <1>2, <1>3

\* Time passes.
LEMMA MomentStep ==
  ASSUME CodesInv, MomentPasses
  PROVE  CodesInv'
BY CodesAssumption
DEF MomentPasses, CodesInv, CodesTypeOK, EndIsPromised, UsesBeforeTheEnd, FreshCodes,
    groupState, useHistory

\* An attempt to join: the first one fixes the end, later ones find it ahead.
LEMMA JoinStep ==
  ASSUME CodesInv, NEW p \in People, NEW c \in Codes, NEW given \in BOOLEAN,
         JoinByCode(p, c, given)
  PROVE  CodesInv'
<1>1. /\ codeExpiresAt # Null => codeClock < codeExpiresAt
      /\ codeExpiresAt' = ExpiryAtUse /\ p \notin TempPeople
      /\ UNCHANGED <<canManage, code, codeLifetime, frozen, teamRefuses, codeChange, codeClock, managed>>
  BY DEF JoinByCode, MayUseCode, FoundByCode
<1>2. /\ codeExpiresAt = Null /\ codeLifetime # Null => codeExpiresAt' = codeClock + codeLifetime
      /\ codeExpiresAt # Null \/ codeLifetime = Null => codeExpiresAt' = codeExpiresAt
  BY <1>1 DEF ExpiryAtUse
<1>3. /\ \/ UNCHANGED <<groupMembers, lastUse>>
         \/ groupMembers' = groupMembers \cup {p} /\ lastUse' = codeClock
      /\ promised = Null /\ codeLifetime # Null =>
           promised' = [at |-> codeClock, lifetime |-> codeLifetime]
      /\ promised # Null \/ codeLifetime = Null => promised' = promised
  BY DEF JoinByCode
<1>4. CodesTypeOK'
  BY <1>1, <1>2, <1>3, CodesAssumption DEF CodesInv, CodesTypeOK, FreshCodes
<1>5. EndIsPromised'
  <2>1. codeClock \in Nat /\ codeLifetime \in Nat \cup {Null}
    BY CodesAssumption DEF CodesInv, CodesTypeOK
  <2>2. CASE promised = Null /\ codeLifetime # Null
    <3>1. /\ promised' # Null /\ promised'.at = codeClock /\ promised'.lifetime = codeLifetime
      BY <1>3, <2>1, <2>2, CodesAssumption
    <3>2. ~managed => codeExpiresAt' = codeClock + codeLifetime
      BY <1>2, <2>2 DEF CodesInv, EndIsPromised
    <3> QED
      BY <1>1, <2>1, <3>1, <3>2 DEF EndIsPromised
  <2>3. CASE promised # Null
    <3>1. ~managed => codeExpiresAt # Null
      BY <2>3, CodesAssumption DEF CodesInv, CodesTypeOK, EndIsPromised
    <3> QED
      BY <1>1, <1>2, <1>3, <2>3, <3>1 DEF CodesInv, EndIsPromised
  <2>4. CASE promised = Null /\ codeLifetime = Null
    BY <1>1, <1>2, <1>3, <2>4 DEF CodesInv, EndIsPromised
  <2> QED
    BY <2>2, <2>3, <2>4
<1>6. UsesBeforeTheEnd'
  <2>1. codeClock \in Nat /\ codeLifetime \in Nat \cup {Null} /\ codeExpiresAt \in Nat \cup {Null}
    BY CodesAssumption DEF CodesInv, CodesTypeOK
  <2>2. promised = Null /\ codeLifetime # Null => promised'.at = codeClock
    BY <1>3
  <2>3. ~managed /\ promised # Null => codeExpiresAt # Null /\ codeExpiresAt' = codeExpiresAt
    BY <1>2, CodesAssumption DEF CodesInv, CodesTypeOK, EndIsPromised
  <2>4. CASE groupMembers' = groupMembers \cup {p} /\ lastUse' = codeClock
    BY <1>1, <1>3, <2>1, <2>2, <2>3, <2>4 DEF UsesBeforeTheEnd
  <2>5. CASE UNCHANGED <<groupMembers, lastUse>>
    BY <1>1, <1>3, <2>1, <2>2, <2>3, <2>5 DEF CodesInv, UsesBeforeTheEnd
  <2> QED
    BY <1>3, <2>4, <2>5
<1> QED
  BY <1>4, <1>5, <1>6 DEF CodesInv

\* Every step keeps the invariant.
LEMMA CodesNextInv == CodesInv /\ [CodesNext]_codeVars => CodesInv'
<1> SUFFICES ASSUME CodesInv, [CodesNext]_codeVars PROVE CodesInv'
  OBVIOUS
<1>1. ASSUME NEW p \in People, NEW c \in Codes, NEW given \in BOOLEAN, JoinByCode(p, c, given)
      PROVE  CodesInv'
  BY <1>1, JoinStep
<1>2. CASE MomentPasses
  BY <1>2, MomentStep
<1>3. CASE UNCHANGED codeVars
  BY <1>3
  DEF codeVars, CodesInv, CodesTypeOK, EndIsPromised, UsesBeforeTheEnd, FreshCodes
<1>4. ASSUME NEW p \in People,
             \/ \E q \in People, level \in 1..3 : CreateGroupManager(p, q, level) \/ UpdateGroupManager(p, q, level)
             \/ \E q \in People : RemoveGroupManager(p, q)
             \/ \E change \in {"create", "remove"} : CheckManagesMemberships(p, change)
      PROVE  CodesInv'
  BY <1>4, ManagersStep, Zenon
<1>5. ASSUME NEW p \in People,
             \/ \E fields \in SUBSET CodeFields \ {{}}, lifetime \in Lifetimes, expires \in {Null, LastMoment} :
              UpdateGroupCode(p, fields, lifetime, expires)
             \/ FreezeMembership(p) \/ LeaveTheGroup(p) \/ ChangeTeams(p)
      PROVE  CodesInv'
  BY <1>5, GroupStep, Zenon
<1>6. CASE CreateCode \/ CreateCodeFails \/ RemoveCode
  BY <1>6, CodeStep
<1> QED
  BY <1>1, <1>2, <1>3, <1>4, <1>5, <1>6, Zenon DEF CodesNext

\* The inductive invariant of the code.
THEOREM CodesInvariant == CodesSpec => []CodesInv
BY CodesInitInv, CodesNextInv, PTL DEF CodesSpec

\* However managers replace the code or change its lifetime, users join, leave
\* and fail to join: the end the first attempt fixed is kept, neither later nor
\* earlier, until a manager writes code_expires_at (joinGroupByCode,
\* createCode, updateGroup, FoundByCode).
THEOREM CodeEndsInTime == CodesSpec => []CodeExpiresAfterItsLifetime
<1>1. ASSUME CodesInv PROVE CodeExpiresAfterItsLifetime
  <2>1. /\ codeClock \in Nat /\ codeExpiresAt \in Nat \cup {Null} /\ lastUse \in Nat \cup {Null}
        /\ promised # Null => promised.at \in Nat /\ promised.lifetime \in Nat
    BY <1>1, CodesAssumption DEF CodesInv, CodesTypeOK
  <2>2. ~managed /\ promised # Null /\ lastUse # Null =>
          lastUse <= promised.at \/ lastUse < promised.at + promised.lifetime
    BY <1>1 DEF CodesInv, EndIsPromised, UsesBeforeTheEnd
  <2>3. ~managed /\ code # Null /\ ~FoundByCode(code) =>
          promised # Null /\ codeClock >= promised.at + promised.lifetime
    BY <1>1, <2>1 DEF CodesInv, EndIsPromised, FoundByCode
  <2> QED
    BY <2>1, <2>2, <2>3 DEF CodeExpiresAfterItsLifetime
<1> QED
  BY <1>1, CodesInvariant, PTL

\* The columns keep their types, no member is a temporary user and no code is
\* one of another group's.
THEOREM CodesTypeCorrect == CodesSpec => []CodesTypeOK
<1>1. CodesInv => CodesTypeOK
  BY DEF CodesInv
<1> QED
  BY <1>1, CodesInvariant, PTL

\* checkCode and joinGroupByCode are two pieces of code that agree on who may
\* join, in every state.
THEOREM CodeCheckAgrees == CodesSpec => []CodeCheckAgreesWithJoin
<1>1. CodeCheckAgreesWithJoin
  BY DEF CodeCheckAgreesWithJoin, checkGroupCodeForUser, MayUseCode, BecomesMember
<1> QED
  BY <1>1, PTL

-----------------------------------------------------------------------------
(* The help thread.                                                        *)

\* The messages counted after an update are a number.
LEMMA MessagesAreCounted ==
  ASSUME ThreadsTypeOK, NEW count \in MessageCounts
  PROVE  NewMessageCount(count) \in Nat
<1>1. OldMessages \in Nat
  <2>1. CASE thread = NoThread
    BY <2>1 DEF OldMessages
  <2>2. CASE thread # NoThread
    <3>1. thread.messages \in 0..MaxMessages
      BY <2>2 DEF ThreadsTypeOK, ThreadRows
    <3> QED
      BY <2>2, <3>1, ThreadsAssumption DEF OldMessages
  <2> QED
    BY <2>1, <2>2
<1>2. CASE count = NotGiven
  BY <1>1, <1>2 DEF NewMessageCount
<1>3. CASE count # NotGiven /\ count \in [set : 0..MaxMessages]
  <2>1. count.set \in Nat /\ "set" \in DOMAIN count
    BY <1>3, ThreadsAssumption
  <2> QED
    BY <1>3, <2>1 DEF NewMessageCount
<1>4. CASE count # NotGiven /\ count \in [increment : {-1, 1}]
  <2>1. count.increment \in Int /\ "set" \notin DOMAIN count
    BY <1>4
  <2>2. OldMessages + count.increment \in Int
    BY <1>1, <2>1
  <2> QED
    BY <1>4, <2>1, <2>2 DEF NewMessageCount
<1> QED
  BY <1>2, <1>3, <1>4 DEF MessageCounts

\* An update writes a whole row: with a status and a helper group, given now
\* or before.
LEMMA UpdateThreadStep ==
  ASSUME ThreadsTypeOK, NEW u \in ThreadUsers, NEW status \in Statuses \cup {NotGiven},
         NEW helper \in HelperGroups \cup {NotGiven}, NEW count \in MessageCounts,
         UpdateThread(u, status, helper, count)
  PROVE  ThreadsTypeOK'
<1>1. thread # NoThread => thread.status \in Statuses /\ thread.helper \in Groups
  BY DEF ThreadsTypeOK, ThreadRows
<1>2. /\ thread # NoThread \/ helper # NotGiven
      /\ helper # NotGiven => status # NotGiven \/ ThreadIsOpen
      /\ NewMessageCount(count) <= MaxMessages
      /\ thread' = computeNewThreadData(status, helper, count) /\ threadRequest' = NotGiven
      /\ UNCHANGED <<contentViewers, watch, memberWatchers, joined, solvers, ofTeam, helpTo>>
  BY DEF UpdateThread, ValidHelper
<1>3. ThreadIsOpen => thread # NoThread
  BY DEF ThreadIsOpen, ThreadStatus, IsThreadOpenStatus, OpenStatuses
<1>4. Given(status, ThreadStatus) \in Statuses
  BY <1>1, <1>2, <1>3 DEF Given, ThreadStatus
<1>5. Given(helper, thread.helper) \in Groups
  BY <1>1, <1>2 DEF Given, Groups
<1>6. NewMessageCount(count) \in 0..MaxMessages
  BY <1>2, MessagesAreCounted, ThreadsAssumption
<1>7. thread' \in ThreadRows
  BY <1>2, <1>4, <1>5, <1>6 DEF computeNewThreadData, ThreadRows
<1> QED
  BY <1>2, <1>7 DEF ThreadsTypeOK, Callers

\* The rest of the system changes around the thread, and its helper group.
LEMMA AroundTheThreadStep ==
  ASSUME ThreadsTypeOK, NEW u \in ThreadUsers, ChangeItemPermissions(u) \/ ChangeGroups(u) \/ SolveItem(u)
  PROVE  ThreadsTypeOK'
<1>1. CASE ChangeItemPermissions(u)
  <2>1. /\ contentViewers' \subseteq ThreadUsers /\ helpTo' \subseteq HelperGroups
        /\ watch' \in [ThreadUsers -> {"none", "result", "answer"}]
    BY <1>1 DEF ChangeItemPermissions, ThreadsTypeOK, Callers
  <2> QED
    BY <1>1, <2>1 DEF ChangeItemPermissions, ThreadsTypeOK, Callers
<1>2. CASE ChangeGroups(u)
  <2>1. memberWatchers' \subseteq Others /\ joined' \in [ThreadUsers -> SUBSET HelperGroups]
    BY <1>2 DEF ChangeGroups, ThreadsTypeOK, ThreadUsers, Callers
  <2> QED
    BY <1>2, <2>1 DEF ChangeGroups, ThreadsTypeOK, Callers
<1>3. CASE SolveItem(u)
  BY <1>3 DEF SolveItem, ThreadsTypeOK, Callers
<1> QED
  BY <1>1, <1>2, <1>3

\* One field of the row changes.
LEMMA ThreadRowStep ==
  ASSUME ThreadsTypeOK, TwoWeeksPass \/ \E g \in HelperGroups : DeleteHelperGroup(g)
  PROVE  ThreadsTypeOK'
<1>1. CASE TwoWeeksPass
  <2>1. thread \in ThreadRows
    BY <1>1 DEF TwoWeeksPass, WasUpdatedRecently, ThreadsTypeOK, Callers
  <2>2. thread' \in ThreadRows
    BY <1>1, <2>1 DEF TwoWeeksPass, ThreadRows
  <2> QED
    BY <1>1, <2>2 DEF TwoWeeksPass, ThreadsTypeOK, Callers
<1>2. ASSUME NEW g \in HelperGroups, DeleteHelperGroup(g) PROVE ThreadsTypeOK'
  <2>1. thread \in ThreadRows
    BY <1>2 DEF DeleteHelperGroup, ThreadsTypeOK, Callers
  <2>2. thread' \in ThreadRows
    BY <1>2, <2>1 DEF DeleteHelperGroup, ThreadRows, Groups
  <2> QED
    BY <1>2, <2>2 DEF DeleteHelperGroup, ThreadsTypeOK, Callers
<1> QED
  BY <1>1, <1>2

\* Every step of the thread.
LEMMA ThreadsStep == ThreadsTypeOK /\ [ThreadsNext]_threadVars => ThreadsTypeOK'
<1> SUFFICES ASSUME ThreadsTypeOK, [ThreadsNext]_threadVars PROVE ThreadsTypeOK'
  OBVIOUS
<1>1. ASSUME NEW u \in ThreadUsers, NEW status \in Statuses \cup {NotGiven},
             NEW helper \in HelperGroups \cup {NotGiven}, NEW count \in MessageCounts,
             UpdateThread(u, status, helper, count)
      PROVE  ThreadsTypeOK'
  BY <1>1, UpdateThreadStep
<1>2. ASSUME NEW u \in ThreadUsers, CheckUpdateThread(u) PROVE ThreadsTypeOK'
  BY <1>2 DEF CheckUpdateThread, ThreadsTypeOK, Callers
<1>3. ASSUME NEW u \in ThreadUsers, ChangeItemPermissions(u) \/ ChangeGroups(u) \/ SolveItem(u)
      PROVE  ThreadsTypeOK'
  BY <1>3, AroundTheThreadStep
<1>4. CASE UpdateThreadFails
  BY <1>4 DEF UpdateThreadFails, ThreadsTypeOK, Callers
<1>5. CASE TwoWeeksPass \/ \E g \in HelperGroups : DeleteHelperGroup(g)
  BY <1>5, ThreadRowStep
<1>6. CASE UNCHANGED threadVars
  BY <1>6 DEF threadVars, ThreadsTypeOK, Callers
<1> QED
  BY <1>1, <1>2, <1>3, <1>4, <1>5, <1>6, Zenon DEF ThreadsNext

\* The row of the thread and all that is known of the users keep their types:
\* no update writes a row without a status or a helper group, or a negative
\* number of messages (updateThread, computeNewThreadData).
THEOREM ThreadsTypeCorrect == ThreadsSpec => []ThreadsTypeOK
<1>1. ThreadsInit => ThreadsTypeOK
  BY DEF ThreadsInit, ThreadsTypeOK, Callers
<1> QED
  BY <1>1, ThreadsStep, PTL DEF ThreadsSpec

\* userCanWriteInThread, getThread, listThreads and getAnswer are four
\* conditions written apart; whatever the permissions, whoever may write and
\* views the item gets through the others, but for listThreads and the threads
\* of teams.
THEOREM WritersSeeTheThread == ThreadsSpec => []ThreadWritersSeeIt
<1>1. ThreadWritersSeeIt
  <2> SUFFICES ASSUME NEW u \in contentViewers \cap Callers, ThreadToken(u).canWrite
      PROVE /\ getThread(u) /\ getAnswer(u)
            /\ ~ofTeam => listThreads(u, TRUE) \/ listThreads(u, FALSE)
    BY DEF ThreadWritersSeeIt
  <2>1. userCanWriteInThread(u)
    BY Zenon DEF ThreadToken
  <2>2. thread # NoThread
    BY <2>1 DEF userCanWriteInThread, ThreadIsOpen, ThreadStatus, IsThreadOpenStatus, OpenStatuses
  <2>3. CASE IsParticipant(u)
    BY <2>2, <2>3 DEF getThread, getAnswer, AsParticipant, listThreads, IsParticipant
  <2>4. CASE ~IsParticipant(u) /\ CanWatchAnswer(u)
    BY <2>2, <2>4 DEF getThread, getAnswer, listThreads, IsParticipant
  <2>5. CASE ~IsParticipant(u) /\ CanWatchResult(u) /\ IsDescendantOfHelperGroup(u) /\ u \in solvers
    BY <2>1, <2>2, <2>5
    DEF userCanWriteInThread, SeenAsHelper, getThread, getAnswer, HasSolved, listThreads, IsParticipant
  <2> QED
    BY <2>1, <2>3, <2>4, <2>5 DEF userCanWriteInThread, userCanWatchForThread
<1> QED
  BY <1>1, PTL

-----------------------------------------------------------------------------
(* The granted permissions.                                                *)

FieldNamesOfRow ==
  {"can_view", "can_grant_view", "can_watch", "can_edit", "can_make_session_official",
   "is_owner", "can_enter_from", "can_enter_until", "can_request_help_to"}

\* A row of permissions_granted.
GrantRowOK(row) ==
  /\ row = [f \in Fields |-> row[f]]
  /\ row.can_view \in 1..5 /\ row.can_grant_view \in 1..6
  /\ row.can_watch \in 1..4 /\ row.can_edit \in 1..4
  /\ row.can_make_session_official \in BOOLEAN /\ row.is_owner \in BOOLEAN
  /\ row.can_enter_from \in EnterTimes /\ row.can_enter_until \in EnterTimes
  /\ row.can_request_help_to \in HelpGroups \cup {NoGroup}

\* The levels of a row support each other.
Consistent(row) ==
  /\ row.can_view >= ViewNeededToGrant(row.can_grant_view)
  /\ row.can_watch > None \/ row.can_edit > None => row.can_view >= Content
  /\ row.can_make_session_official => row.can_view >= Info

GrantsInv ==
  /\ GrantRowOK(granted) /\ Consistent(granted)
  /\ ancestorHelp \in [AncestorOrigins -> HelpGroups \cup {NoGroup}]
  /\ parentHelp \in HelpGroups \cup {NoGroup}
  /\ helpPropagates \in BOOLEAN /\ itemReach \in BOOLEAN

\* The columns of a row.
LEMMA FieldsAre == Fields = FieldNamesOfRow
BY DEF Fields, NoRow, FieldNamesOfRow

\* The last instant is one of the instants.
LEMMA NeverIsAnInstant == Never \in EnterTimes
<1>1. \E last \in EnterTimes : \A t \in EnterTimes : last >= t
  BY GrantsAssumption
<1> QED
  BY <1>1, Zenon DEF Never, Max

\* What a request gives for a column is a value of the column.
LEMMA AskedIsTyped ==
  ASSUME NEW asked \in PermissionRequests, NEW f \in Fields, asked[f] # Unset
  PROVE  asked[f] \in FieldValues[f]
<1>0. PICK field \in Fields : \E vw \in FieldValues[field] \X (ViewLevels \cup {Unset}) :
        asked = [g \in Fields |-> IF g = field THEN vw[1] ELSE IF g = "can_view" THEN vw[2] ELSE Unset]
  <2>1. asked \in PermissionRequests
    OBVIOUS
  <2>2. PICK field \in Fields :
          asked \in {[g \in Fields |-> IF g = field THEN vw[1] ELSE IF g = "can_view" THEN vw[2] ELSE Unset] :
                         vw \in FieldValues[field] \X (ViewLevels \cup {Unset})}
    BY <2>1, Zenon DEF PermissionRequests
  <2> QED
    BY <2>2, Zenon
<1>1. PICK v \in FieldValues[field], w \in ViewLevels \cup {Unset} :
        asked = [g \in Fields |-> IF g = field THEN v ELSE IF g = "can_view" THEN w ELSE Unset]
  BY <1>0
<1>2. CASE f = field
  BY <1>1, <1>2
<1>3. CASE f # field
  <2>1. f = "can_view" /\ asked[f] = w
    BY <1>1, <1>3
  <2> QED
    BY <1>1, <2>1 DEF FieldValues
<1> QED
  BY <1>2, <1>3

\* A request leaves a row of the table.
LEMMA ReplacedIsARow ==
  ASSUME NEW row, GrantRowOK(row), NEW asked \in PermissionRequests
  PROVE  GrantRowOK(Replaced(row, asked, Fields))
<1> DEFINE new == Replaced(row, asked, Fields)
<1>1. \A f \in Fields : new[f] \in FieldValues[f] \/ new[f] = row[f]
  BY AskedIsTyped DEF Replaced
<1>2. new = [f \in Fields |-> new[f]]
  BY DEF Replaced
<1> HIDE DEF new
<1>3. \A f \in FieldNamesOfRow : new[f] \in FieldValues[f] \/ new[f] = row[f]
  BY <1>1, FieldsAre
<1>4. /\ new.can_view \in 1..5 /\ new.can_grant_view \in 1..6
      /\ new.can_watch \in 1..4 /\ new.can_edit \in 1..4
  BY <1>3, GrantsAssumption DEF FieldValues, FieldNamesOfRow, GrantRowOK
<1>5. /\ new.can_make_session_official \in BOOLEAN /\ new.is_owner \in BOOLEAN
      /\ new.can_enter_from \in EnterTimes /\ new.can_enter_until \in EnterTimes
      /\ new.can_request_help_to \in HelpGroups \cup {NoGroup}
  BY <1>3 DEF FieldValues, FieldNamesOfRow, GrantRowOK
<1> QED
  BY <1>2, <1>4, <1>5 DEF GrantRowOK, new

\* correctPermissionsDataMap leaves a row whose levels support each other.
LEMMA CorrectedIsConsistent ==
  ASSUME NEW row, GrantRowOK(row)
  PROVE  GrantRowOK(correctPermissions(row)) /\ Consistent(correctPermissions(row))
<1> DEFINE new == correctPermissions(row)
<1>1. /\ new.can_view = row.can_view
      /\ new.is_owner = row.is_owner
      /\ new.can_enter_from = row.can_enter_from /\ new.can_enter_until = row.can_enter_until
      /\ new.can_request_help_to = row.can_request_help_to
  BY FieldsAre DEF correctPermissions, GrantRowOK, FieldNamesOfRow
<1>2. new.can_grant_view =
        IF \/ row.can_grant_view = SolutionWithGrant /\ row.can_view # Solution
           \/ row.can_grant_view < SolutionWithGrant /\ row.can_view < row.can_grant_view
        THEN row.can_view ELSE row.can_grant_view
  BY FieldsAre DEF correctPermissions, GrantRowOK, FieldNamesOfRow
<1>3. /\ new.can_watch = IF row.can_view < Content THEN None ELSE row.can_watch
      /\ new.can_edit = IF row.can_view < Content THEN None ELSE row.can_edit
      /\ new.can_make_session_official = (row.can_make_session_official /\ row.can_view >= Info)
  BY FieldsAre DEF correctPermissions, GrantRowOK, FieldNamesOfRow
<1>4. new = [f \in Fields |-> new[f]]
  BY FieldsAre DEF correctPermissions, GrantRowOK, FieldNamesOfRow
<1> HIDE DEF new
<1>5. GrantRowOK(new)
  <2>1. /\ new.can_grant_view \in 1..6 /\ new.can_watch \in 1..4 /\ new.can_edit \in 1..4
    BY <1>2, <1>3 DEF GrantRowOK, None
  <2>2. new.can_make_session_official \in BOOLEAN
    BY <1>3, Zenon
  <2> QED
    BY <1>1, <1>4, <2>1, <2>2 DEF GrantRowOK
<1>6. Consistent(new)
  <2>1. new.can_view >= ViewNeededToGrant(new.can_grant_view)
    BY <1>1, <1>2 DEF GrantRowOK, ViewNeededToGrant, SolutionWithGrant, Solution
  <2>2. new.can_watch > None \/ new.can_edit > None => new.can_view >= Content
    BY <1>1, <1>3 DEF GrantRowOK, Content, None
  <2>3. new.can_make_session_official => new.can_view >= Info
    BY <1>1, <1>3, Zenon
  <2> QED
    BY <2>1, <2>2, <2>3 DEF Consistent
<1> QED
  BY <1>5, <1>6 DEF new

-------------------------------------------------------------------------------
\* The rows there are at the start grant nothing.
LEMMA GrantsInitInv == GrantsInit => GrantsInv
<1> SUFFICES ASSUME GrantsInit PROVE GrantsInv
  OBVIOUS
<1>1. NoRow.can_view = 1 /\ NoRow.can_grant_view = 1 /\ NoRow.can_watch = 1 /\ NoRow.can_edit = 1
  BY DEF NoRow, None
<1>2. GrantRowOK(NoRow)
  <2>1. NoRow = [f \in Fields |-> NoRow[f]]
    BY DEF Fields, NoRow
  <2>2. /\ NoRow.can_make_session_official \in BOOLEAN /\ NoRow.is_owner \in BOOLEAN
        /\ NoRow.can_request_help_to = NoGroup
        /\ NoRow.can_enter_from = Never /\ NoRow.can_enter_until = Never
    BY DEF NoRow
  <2> QED
    BY <1>1, <2>1, <2>2, NeverIsAnInstant DEF GrantRowOK
<1>3. Consistent(NoRow)
  <2>1. ~NoRow.can_make_session_official
    BY DEF NoRow
  <2> QED
    BY <1>1, <2>1 DEF Consistent, ViewNeededToGrant, SolutionWithGrant, Solution, None
<1> QED
  BY <1>2, <1>3 DEF GrantsInv, GrantsInit

\* updatePermissions writes a consistent row; the other services do not touch it.
LEMMA GrantsNextInv == GrantsInv /\ [GrantsNext]_grantVars => GrantsInv'
<1> SUFFICES ASSUME GrantsInv, [GrantsNext]_grantVars PROVE GrantsInv'
  OBVIOUS
<1>1. ASSUME NEW m \in GrantingManagers, UpdateGrant(m)
      PROVE  GrantsInv'
  <2>1. PICK asked \in PermissionRequests :
          granted' = correctPermissions(Replaced(granted, asked, Fields))
    BY <1>1 DEF UpdateGrant
  <2>2. GrantRowOK(Replaced(granted, asked, Fields))
    BY ReplacedIsARow DEF GrantsInv
  <2>3. GrantRowOK(granted') /\ Consistent(granted')
    BY <2>1, <2>2, CorrectedIsConsistent
  <2> QED
    BY <1>1, <2>3 DEF GrantsInv, UpdateGrant
<1>2. ASSUME NEW g \in HelpGroups \cup {NoGroup}, NEW o \in AncestorOrigins, ChangeAncestorHelp(o, g)
      PROVE  GrantsInv'
  BY <1>2 DEF GrantsInv, ChangeAncestorHelp
<1>3. ASSUME NEW g \in HelpGroups \cup {NoGroup}, ChangeParentHelp(g)
      PROVE  GrantsInv'
  BY <1>3 DEF GrantsInv, ChangeParentHelp
<1>4. ASSUME UNCHANGED grantVars
      PROVE  GrantsInv'
  BY <1>4 DEF GrantsInv, grantVars
<1> QED
  BY <1>1, <1>2, <1>3, <1>4 DEF GrantsNext

\* The strengthened invariant.
THEOREM GrantsInvariant == GrantsSpec => []GrantsInv
<1> QED
  BY GrantsInitInv, GrantsNextInv, PTL DEF GrantsSpec

\* The row keeps its types, whatever a request leaves out.
THEOREM GrantsTypeCorrect == GrantsSpec => []GrantsTypeOK
<1>1. GrantsInv => GrantsTypeOK
  BY DEF GrantsInv, GrantRowOK, GrantsTypeOK
<1> QED
  BY <1>1, GrantsInvariant, PTL

\* updatePermissions: after any sequence of updates by any managers, nothing is granted beyond
\* what the row lets the group view, and watching, editing and official sessions have the
\* view they need.
THEOREM GrantedRowSupportsItself == GrantsSpec => []GrantedRowIsConsistent
<1>1. GrantsInv => GrantedRowIsConsistent
  BY DEF GrantsInv, Consistent, GrantedRowIsConsistent
<1> QED
  BY <1>1, GrantsInvariant, PTL

\* What getPermissions lists and what updateThread allows, with a row of the table.
LEMMA HelpListedIsAllowed ==
  ASSUME GrantsInv
  PROVE  HelpReportedIsHelpAllowed
<1>1. \A row \in HelpRows : row.to \in HelpGroups
  BY DEF GrantsInv, GrantRowOK, HelpRows
<1>2. getCanRequestHelpTo("computed") = {row.to : row \in {r \in HelpRows : OnPropagatingItem(r)}}
  <2>1. \A row \in HelpRows : canRequestHelpToShouldBeAdded(row, "computed")
    BY DEF canRequestHelpToShouldBeAdded
  <2> QED
    BY <2>1 DEF getCanRequestHelpTo
<1>3. \A part : getCanRequestHelpTo(part)
                  \subseteq {row.to : row \in {r \in HelpRows : OnPropagatingItem(r)}}
  BY DEF getCanRequestHelpTo
<1>4. getCanRequestHelpTo("computed") = {g \in HelpGroups : CanRequestHelpTo(g)}
  BY <1>1, <1>2 DEF CanRequestHelpTo
<1>5. getCanRequestHelpTo("computed") # {} => HasCanRequestHelpTo
  BY <1>2 DEF HasCanRequestHelpTo
<1>6. UNION {getCanRequestHelpTo(o) : o \in AncestorOrigins \cup {"granted"}}
        \subseteq getCanRequestHelpTo("computed")
  BY <1>2, <1>3
<1> QED
  BY <1>4, <1>5, <1>6 DEF HelpReportedIsHelpAllowed

\* getPermissions lists under "computed" the groups that updateThread lets the group ask, and
\* no more in its other parts.
THEOREM HelpIsReportedAsAllowed == GrantsSpec => []HelpReportedIsHelpAllowed
BY HelpListedIsAllowed, GrantsInvariant, PTL

-----------------------------------------------------------------------------
(* Answers and grades.                                                     *)

\* The rows of answers and gradings, and the fields of the result.
AnswerRow == [author : Authors, type : AnswerTypes, createdAt : Nat \ {0}]

TablesOfGrading ==
  /\ today \in 1..LastDay /\ moment \in Nat \ {0} /\ taskView \in TaskViews
  /\ answers \in Seq(AnswerRow)
  /\ gradings \in Seq(Scores \union {NoScore}) /\ Len(gradings) = Len(answers)
  /\ taskResult = [f \in {"started", "submissions", "hints", "hintsCached", "tasksWithHelp",
                          "tasksTried", "score", "obtainedAt", "validatedAt"} |-> taskResult[f]]
  /\ taskResult.score \in Nat /\ taskResult.obtainedAt \in Nat /\ taskResult.validatedAt \in Nat
  /\ taskResult.hintsCached = Cardinality(taskResult.hints)

\* Tokens are given for submissions, so only submissions are graded.
OnlySubmissionsAreGraded ==
  /\ \A t \in answerTokens : t.answer \in AnswersOf("Submission")
  /\ Graded \subseteq AnswersOf("Submission")

\* An author has one current answer.
OneCurrentAnswer ==
  \A i, j \in AnswersOf("Current") : answers[i].author = answers[j].author => i = j

\* The result against the grades: its score is reached and not exceeded, its dates are those
\* of answers with the score and with the full score.
ScoreIsTheBest ==
  /\ Graded = {} => taskResult.score = 0 /\ taskResult.obtainedAt = 0
  /\ Graded # {} => taskResult.obtainedAt # 0 /\ \E i \in Graded : gradings[i] = taskResult.score
  /\ \A i \in Graded : /\ gradings[i] <= taskResult.score
                       /\ gradings[i] = taskResult.score =>
                            taskResult.obtainedAt <= answers[i].createdAt

ValidatedByTheFirst ==
  /\ (\A i \in Graded : gradings[i] # 100) => taskResult.validatedAt = 0
  /\ (\E i \in Graded : gradings[i] = 100) =>
        \E i \in Graded : gradings[i] = 100 /\ taskResult.validatedAt = answers[i].createdAt
  /\ \A i \in Graded : gradings[i] = 100 => taskResult.validatedAt <= answers[i].createdAt

GradingInv == TablesOfGrading /\ OnlySubmissionsAreGraded /\ OneCurrentAnswer

GradesInv == ScoreIsTheBest /\ ValidatedByTheFirst

\* Nothing is answered, nothing is graded.
LEMMA GradingStart == GradingInit => GradingInv /\ GradesInv
<1> SUFFICES ASSUME GradingInit PROVE GradingInv /\ GradesInv
  OBVIOUS
<1>1. answers = <<>> /\ gradings = <<>> /\ taskResult = InitialResult /\ answerTokens = {}
  BY DEF GradingInit
<1>2. Graded = {} /\ AnswersOf("Current") = {}
  BY <1>1 DEF Graded, AnswersOf
<1>3. /\ taskResult.score = 0 /\ taskResult.obtainedAt = 0 /\ taskResult.validatedAt = 0
      /\ taskResult.hints = {} /\ taskResult.hintsCached = 0
      /\ taskResult = [f \in {"started", "submissions", "hints", "hintsCached", "tasksWithHelp",
                              "tasksTried", "score", "obtainedAt", "validatedAt"} |-> taskResult[f]]
  BY <1>1 DEF InitialResult
<1>4. Cardinality({}) = 0
  BY FS_EmptySet
<1>5. TablesOfGrading
  <2>1. today \in 1..LastDay /\ moment \in Nat \ {0} /\ taskView \in TaskViews
    BY GradingAssumption DEF GradingInit, TaskViews
  <2>2. /\ answers \in Seq(AnswerRow) /\ gradings \in Seq(Scores \union {NoScore})
        /\ Len(gradings) = Len(answers)
    BY <1>1
  <2> QED
    BY <1>3, <1>4, <2>1, <2>2 DEF TablesOfGrading
<1> QED
  BY <1>1, <1>2, <1>3, <1>5 DEF GradingInv, OnlySubmissionsAreGraded, OneCurrentAnswer, GradesInv,
                               ScoreIsTheBest, ValidatedByTheFirst

\* A service that inserts no answer and gives no grade.
LEMMA TablesStay ==
  ASSUME GradingInv, UNCHANGED <<answers, gradings>>,
         answerTokens' = answerTokens,
         today' \in 1..LastDay, moment' \in Nat \ {0}, taskView' \in TaskViews,
         \/ taskResult' = taskResult
         \/ taskResult' = [taskResult EXCEPT !.started = TRUE]
         \/ \E list : taskResult' = [taskResult EXCEPT !.hints = list,
                            !.hintsCached = Cardinality(list), !.tasksWithHelp = 1]
  PROVE  GradingInv' /\ (GradesInv => GradesInv')
<1>1. /\ taskResult'.score = taskResult.score /\ taskResult'.obtainedAt = taskResult.obtainedAt
      /\ taskResult'.validatedAt = taskResult.validatedAt
      /\ taskResult'.hintsCached = Cardinality(taskResult'.hints)
      /\ taskResult' = [f \in {"started", "submissions", "hints", "hintsCached", "tasksWithHelp",
                              "tasksTried", "score", "obtainedAt", "validatedAt"} |-> taskResult'[f]]
  BY DEF GradingInv, TablesOfGrading
<1>2. TablesOfGrading'
  BY <1>1 DEF GradingInv, TablesOfGrading
<1>3. Graded' = Graded /\ \A type : AnswersOf(type)' = AnswersOf(type)
  BY DEF Graded, AnswersOf
<1>4. OnlySubmissionsAreGraded' /\ OneCurrentAnswer'
  BY <1>3 DEF GradingInv, OnlySubmissionsAreGraded, OneCurrentAnswer
<1>5. GradesInv => GradesInv'
  BY <1>1, <1>3, ZenonT(60) DEF GradesInv, ScoreIsTheBest, ValidatedByTheFirst
<1> QED
  BY <1>2, <1>4, <1>5 DEF GradingInv

\* Rows of answers that are those of the table, but for 'Current' ones that are deleted.
RowsOfTheTable(newAnswers) ==
  /\ newAnswers \in Seq(AnswerRow) /\ Len(newAnswers) = Len(answers)
  /\ \A i \in 1..Len(answers) :
       /\ newAnswers[i].createdAt = answers[i].createdAt /\ newAnswers[i].author = answers[i].author
       /\ \/ newAnswers[i].type = answers[i].type
          \/ answers[i].type = "Current" /\ newAnswers[i].type = "Deleted"

\* A service that inserts an answer without a grade.
LEMMA Inserting ==
  ASSUME GradingInv, NEW author \in Authors, NEW type \in {"Submission", "Saved", "Current"},
         NEW newAnswers, RowsOfTheTable(newAnswers), CreateNewAnswer(author, type, newAnswers),
         type = "Current" => \A i \in 1..Len(answers) :
                               ~(newAnswers[i].type = "Current" /\ newAnswers[i].author = author),
         \/ taskResult' = taskResult
         \/ taskResult' = [taskResult EXCEPT !.submissions = @ + 1],
         \/ answerTokens' = answerTokens
         \/ /\ type = "Submission"
            /\ answerTokens' = answerTokens \union {[answer |-> Len(answers'), day |-> today]},
         UNCHANGED <<today, taskView>>
  PROVE  GradingInv' /\ (GradesInv => GradesInv')
<1> DEFINE n == Len(answers)
<1>1. PICK t \in Moments : /\ answers' = Append(newAnswers, [author |-> author, type |-> type, createdAt |-> t])
                           /\ moment' = t
  BY DEF CreateNewAnswer
<1>2. gradings' = Append(gradings, NoScore)
  BY DEF CreateNewAnswer
<1>3. n \in Nat /\ moment \in Nat \ {0} /\ t \in Nat \ {0} /\ n = Len(gradings) /\ n = Len(newAnswers)
  BY <1>1 DEF GradingInv, TablesOfGrading, Moments, RowsOfTheTable
<1>4. [author |-> author, type |-> type, createdAt |-> t] \in AnswerRow
  BY <1>3 DEF AnswerRow, AnswerTypes
<1>5. answers' \in Seq(AnswerRow) /\ Len(answers') = n + 1
  BY <1>1, <1>3, <1>4 DEF RowsOfTheTable
<1>6. gradings' \in Seq(Scores \union {NoScore}) /\ Len(gradings') = n + 1
  BY <1>2, <1>3 DEF GradingInv, TablesOfGrading
<1>7. \A i \in 1..n : answers'[i] = newAnswers[i] /\ gradings'[i] = gradings[i]
  BY <1>1, <1>2, <1>3 DEF RowsOfTheTable, GradingInv, TablesOfGrading
<1>8. answers'[n + 1] = [author |-> author, type |-> type, createdAt |-> t] /\ gradings'[n + 1] = NoScore
  BY <1>1, <1>2, <1>3 DEF RowsOfTheTable, GradingInv, TablesOfGrading
<1>9. DOMAIN answers = 1..n /\ DOMAIN answers' = 1..(n + 1)
  BY <1>5 DEF GradingInv, TablesOfGrading
<1>10. /\ taskResult'.score = taskResult.score /\ taskResult'.obtainedAt = taskResult.obtainedAt
       /\ taskResult'.validatedAt = taskResult.validatedAt
       /\ taskResult'.hintsCached = taskResult.hintsCached /\ taskResult'.hints = taskResult.hints
       /\ taskResult' = [f \in {"started", "submissions", "hints", "hintsCached", "tasksWithHelp",
                                "tasksTried", "score", "obtainedAt", "validatedAt"} |-> taskResult'[f]]
  BY DEF GradingInv, TablesOfGrading
<1> HIDE DEF n
<1>11. TablesOfGrading'
  BY <1>1, <1>3, <1>5, <1>6, <1>10 DEF GradingInv, TablesOfGrading
<1>12. Graded' = Graded
  <2>1. \A i : i \in 1..(n + 1) <=> i \in 1..n \/ i = n + 1
    BY <1>3
  <2>2. \A i \in 1..n : i # n + 1
    BY <1>3
  <2> QED
    BY <1>7, <1>8, <1>9, <2>1, <2>2 DEF Graded
<1>13. AnswersOf("Submission") \subseteq AnswersOf("Submission")'
  BY <1>3, <1>7, <1>9 DEF AnswersOf, RowsOfTheTable, n
<1>14. OnlySubmissionsAreGraded'
  <2>1. type = "Submission" => Len(answers') \in AnswersOf("Submission")'
    BY <1>3, <1>5, <1>8, <1>9 DEF AnswersOf
  <2> QED
    BY <1>12, <1>13, <2>1 DEF GradingInv, OnlySubmissionsAreGraded
<1>15. OneCurrentAnswer'
  <2> SUFFICES ASSUME NEW i \in AnswersOf("Current")', NEW j \in AnswersOf("Current")',
                      answers'[i].author = answers'[j].author
               PROVE  i = j
    BY DEF OneCurrentAnswer
  <2>1. i \in 1..(n + 1) /\ j \in 1..(n + 1) /\ answers'[i].type = "Current" /\ answers'[j].type = "Current"
    BY <1>9 DEF AnswersOf
  <2>2. \A k \in 1..n : answers'[k].type = "Current" =>
            /\ k \in AnswersOf("Current") /\ answers'[k].author = answers[k].author
            /\ type = "Current" => answers'[k].author # author
    BY <1>7, <1>9 DEF RowsOfTheTable, AnswersOf, n
  <2>3. \A k \in 1..(n + 1) : k \in 1..n \/ k = n + 1
    BY <1>3
  <2>4. CASE i \in 1..n /\ j \in 1..n
    BY <2>1, <2>2, <2>4 DEF GradingInv, OneCurrentAnswer
  <2>5. CASE i = n + 1 /\ j \in 1..n
    BY <1>8, <2>1, <2>2, <2>5
  <2>6. CASE j = n + 1 /\ i \in 1..n
    BY <1>8, <2>1, <2>2, <2>6
  <2> QED
    BY <2>1, <2>3, <2>4, <2>5, <2>6
<1>16. \A i \in Graded : i \in 1..n /\ gradings'[i] = gradings[i] /\ answers'[i].createdAt = answers[i].createdAt
  BY <1>7, <1>9 DEF Graded, RowsOfTheTable, n
<1>17. ScoreIsTheBest => ScoreIsTheBest'
  BY <1>10, <1>12, <1>16 DEF ScoreIsTheBest
<1>18. ValidatedByTheFirst => ValidatedByTheFirst'
  BY <1>10, <1>12, <1>16 DEF ValidatedByTheFirst
<1> QED
  BY <1>11, <1>14, <1>15, <1>17, <1>18 DEF GradingInv, GradesInv

\* The scores in the table, and what LEAST and GREATEST do with a score from 0 to 100.
LEMMA NewScoreIsGreater ==
  ASSUME NEW score \in Int, taskResult.score \in Nat
  PROVE  /\ NewScore(score) \in 0..100
         /\ score \in 0..100 /\ taskResult.score <= 100 =>
              NewScore(score) = IF score < taskResult.score THEN taskResult.score ELSE score
  BY DEF NewScore, LeastOfPair, GreatestOfPair

\* saveGrade: the new row of gradings and the result.
LEMMA GradeSaved ==
  ASSUME GradingInv, NEW a \in 1..MaxAnswers, NEW score \in Scores, SaveGrade(a, score)
  PROVE  /\ a \in 1..Len(answers) /\ a \notin Graded /\ Graded' = Graded \union {a}
         /\ gradings'[a] = score /\ \A i \in Graded : gradings'[i] = gradings[i]
         /\ answers' = answers
         /\ taskResult'.score = NewScore(score)
         /\ taskResult'.obtainedAt = ObtainedAt(score, answers[a].createdAt)
         /\ taskResult'.validatedAt = ValidatedOn(score, answers[a].createdAt)
         /\ GradingInv'
<1>1. /\ a \in DOMAIN answers /\ gradings[a] = NoScore
      /\ gradings' = [gradings EXCEPT ![a] = score]
      /\ taskResult' = [taskResult EXCEPT
           !.tasksTried = 1,
           !.score = NewScore(score),
           !.obtainedAt = ObtainedAt(score, answers[a].createdAt),
           !.validatedAt = ValidatedOn(score, answers[a].createdAt)]
      /\ UNCHANGED <<today, moment, taskView, answers, answerTokens>>
      /\ \E t \in answerTokens : t.answer = a
  BY DEF SaveGrade, IsNewGrading, MayBeGraded
<1>2. /\ DOMAIN answers = 1..Len(answers) /\ gradings \in Seq(Scores \union {NoScore})
      /\ Len(gradings) = Len(answers) /\ answers[a] \in AnswerRow
  BY <1>1 DEF GradingInv, TablesOfGrading
<1>3. /\ gradings' \in Seq(Scores \union {NoScore}) /\ Len(gradings') = Len(gradings)
      /\ gradings'[a] = score /\ \A i \in 1..Len(answers) \ {a} : gradings'[i] = gradings[i]
  BY <1>1, <1>2
<1>4. score \in Int /\ score # NoScore
  BY GradingAssumption
<1>5. a \notin Graded /\ Graded' = Graded \union {a}
  BY <1>1, <1>2, <1>3, <1>4 DEF Graded
<1>6. /\ taskResult.score \in Nat /\ taskResult.obtainedAt \in Nat /\ taskResult.validatedAt \in Nat
      /\ answers[a].createdAt \in Nat
  BY <1>2 DEF GradingInv, TablesOfGrading, AnswerRow
<1>7. /\ NewScore(score) \in Nat /\ ObtainedAt(score, answers[a].createdAt) \in Nat
      /\ ValidatedOn(score, answers[a].createdAt) \in Nat
  <2>1. NewScore(score) \in Nat
    BY <1>4, <1>6, NewScoreIsGreater
  <2>2. ObtainedAt(score, answers[a].createdAt) \in Nat
    BY <1>6 DEF ObtainedAt, LeastOfPair
  <2>3. ValidatedOn(score, answers[a].createdAt) \in Nat
    BY <1>6 DEF ValidatedOn, LeastOfPair
  <2> QED
    BY <2>1, <2>2, <2>3
<1>8. /\ taskResult'.score = NewScore(score)
      /\ taskResult'.obtainedAt = ObtainedAt(score, answers[a].createdAt)
      /\ taskResult'.validatedAt = ValidatedOn(score, answers[a].createdAt)
      /\ taskResult'.hintsCached = taskResult.hintsCached /\ taskResult'.hints = taskResult.hints
      /\ taskResult' = [f \in {"started", "submissions", "hints", "hintsCached", "tasksWithHelp",
                               "tasksTried", "score", "obtainedAt", "validatedAt"} |-> taskResult'[f]]
  BY <1>1 DEF GradingInv, TablesOfGrading
<1>9. TablesOfGrading'
  BY <1>1, <1>2, <1>3, <1>7, <1>8 DEF GradingInv, TablesOfGrading
<1>10. \A type : AnswersOf(type)' = AnswersOf(type)
  BY <1>1 DEF AnswersOf
<1>11. OnlySubmissionsAreGraded' /\ OneCurrentAnswer'
  BY <1>1, <1>5, <1>10 DEF GradingInv, OnlySubmissionsAreGraded, OneCurrentAnswer
<1>12. \A i \in Graded : i \in 1..Len(answers) /\ i # a
  BY <1>2, <1>5 DEF Graded
<1> QED
  BY <1>1, <1>2, <1>3, <1>5, <1>8, <1>9, <1>11, <1>12 DEF GradingInv

\* Scores that graders give are percentages.
Percentages == Scores \subseteq 0..100

\* The rows and the fields that the grades are about.
LEMMA FieldsOfGrading ==
  ASSUME GradingInv
  PROVE  /\ \A i \in 1..Len(answers) : answers[i].createdAt \in Nat \ {0}
         /\ Graded \subseteq 1..Len(answers) /\ \A i \in Graded : gradings[i] \in Scores
         /\ taskResult.score \in Nat /\ taskResult.obtainedAt \in Nat
         /\ taskResult.validatedAt \in Nat
<1>1. /\ answers \in Seq(AnswerRow) /\ gradings \in Seq(Scores \union {NoScore})
      /\ Len(gradings) = Len(answers)
      /\ taskResult.score \in Nat /\ taskResult.obtainedAt \in Nat
      /\ taskResult.validatedAt \in Nat
  BY DEF GradingInv, TablesOfGrading
<1>2. DOMAIN answers = 1..Len(answers) /\ \A i \in 1..Len(answers) : answers[i] \in AnswerRow
  BY <1>1
<1>3. \A row \in AnswerRow : row.createdAt \in Nat \ {0}
  BY DEF AnswerRow
<1>4. \A i \in 1..Len(answers) : gradings[i] \in Scores \union {NoScore}
  BY <1>1
<1> QED
  BY <1>1, <1>2, <1>3, <1>4 DEF Graded

\* The score and the dates after a grade.
AfterGrade(score, created) ==
  /\ NewScore(score) = IF score < taskResult.score THEN taskResult.score ELSE score
  /\ taskResult.obtainedAt = 0 \/ taskResult.score < score => ObtainedAt(score, created) = created
  /\ taskResult.obtainedAt # 0 /\ score <= taskResult.score =>
       ObtainedAt(score, created) = LeastOfPair(taskResult.obtainedAt, created)
  /\ score # 100 => ValidatedOn(score, created) = taskResult.validatedAt
  /\ score = 100 /\ taskResult.validatedAt = 0 => ValidatedOn(score, created) = created
  /\ score = 100 /\ taskResult.validatedAt # 0 =>
       ValidatedOn(score, created) = LeastOfPair(taskResult.validatedAt, created)

\* These are the values that saveGradingResultsIntoDB computes.
LEMMA DatesOfGrade ==
  ASSUME NEW score \in 0..100, NEW created \in Nat,
         taskResult.score \in Nat, taskResult.score <= 100,
         taskResult.obtainedAt \in Nat, taskResult.validatedAt \in Nat
  PROVE  AfterGrade(score, created)
<1>1. NewScore(score) = IF score < taskResult.score THEN taskResult.score ELSE score
  BY NewScoreIsGreater
<1>2. CASE taskResult.obtainedAt = 0 \/ taskResult.score < score
  <2>1. taskResult.obtainedAt = 0 \/ taskResult.score < NewScore(score)
    BY <1>1, <1>2
  <2>2. ObtainedAt(score, created) = created
    BY <2>1, Zenon DEF ObtainedAt
  <2> QED
    BY <1>1, <1>2, <2>2 DEF ValidatedOn, AfterGrade
<1>3. CASE ~(taskResult.obtainedAt = 0 \/ taskResult.score < score)
  <2>1. ~(taskResult.obtainedAt = 0 \/ taskResult.score < NewScore(score))
    BY <1>1, <1>3
  <2>2. taskResult.score = NewScore(score)
    BY <1>1, <1>3
  <2>3. ObtainedAt(score, created) = LeastOfPair(taskResult.obtainedAt, created)
    BY <2>1, <2>2, Zenon DEF ObtainedAt
  <2> QED
    BY <1>1, <1>3, <2>3 DEF ValidatedOn, AfterGrade
<1> QED
  BY <1>2, <1>3

\* saveGrade keeps the result at the best of the grades, whatever their order.
LEMMA GradeSavedIsCounted ==
  ASSUME Percentages, GradingInv, GradesInv,
         NEW a \in 1..MaxAnswers, NEW score \in Scores, SaveGrade(a, score)
  PROVE  GradesInv'
<1> DEFINE created == answers[a].createdAt
<1>1. /\ a \in 1..Len(answers) /\ a \notin Graded /\ Graded' = Graded \union {a}
      /\ gradings'[a] = score /\ \A i \in Graded : gradings'[i] = gradings[i]
      /\ answers' = answers
      /\ taskResult'.score = NewScore(score)
      /\ taskResult'.obtainedAt = ObtainedAt(score, created)
      /\ taskResult'.validatedAt = ValidatedOn(score, created)
  BY GradeSaved
<1>2. \A i \in 1..Len(answers) : answers[i].createdAt \in Nat \ {0}
  BY FieldsOfGrading
<1>3. \A i \in Graded : i \in 1..Len(answers) /\ gradings[i] \in 0..100
  BY FieldsOfGrading DEF Percentages
<1>4. score \in 0..100
  BY DEF Percentages
<1>5. /\ taskResult.score \in Nat /\ taskResult.obtainedAt \in Nat /\ taskResult.validatedAt \in Nat
      /\ created \in Nat \ {0} /\ taskResult.score <= 100
  <2>1. /\ taskResult.score \in Nat /\ taskResult.obtainedAt \in Nat
        /\ taskResult.validatedAt \in Nat /\ created \in Nat \ {0}
    BY <1>1, FieldsOfGrading
  <2>2. taskResult.score <= 100
    <3>1. Graded = {} => taskResult.score = 0
      BY DEF GradesInv, ScoreIsTheBest
    <3>2. Graded # {} => \E i \in Graded : gradings[i] = taskResult.score
      BY DEF GradesInv, ScoreIsTheBest
    <3>3. CASE Graded = {}
      BY <3>1, <3>3
    <3>4. CASE Graded # {}
      <4>1. PICK i \in Graded : gradings[i] = taskResult.score
        BY <3>2, <3>4
      <4>2. gradings[i] \in 0..100
        BY <1>3
      <4> QED
        BY <4>1, <4>2
    <3> QED
      BY <3>3, <3>4
  <2> QED
    BY <2>1, <2>2
<1> HIDE DEF created
<1>6. /\ NewScore(score) = IF score < taskResult.score THEN taskResult.score ELSE score
      /\ taskResult.obtainedAt = 0 \/ taskResult.score < score =>
           taskResult'.obtainedAt = created
      /\ taskResult.obtainedAt # 0 /\ score <= taskResult.score =>
           taskResult'.obtainedAt =
             IF taskResult.obtainedAt < created THEN taskResult.obtainedAt ELSE created
      /\ score # 100 => taskResult'.validatedAt = taskResult.validatedAt
      /\ score = 100 /\ taskResult.validatedAt = 0 => taskResult'.validatedAt = created
      /\ score = 100 /\ taskResult.validatedAt # 0 =>
           taskResult'.validatedAt =
             IF taskResult.validatedAt < created THEN taskResult.validatedAt ELSE created
  <2>1. created \in Nat /\ taskResult.score \in Nat /\ taskResult.score <= 100
        /\ taskResult.obtainedAt \in Nat /\ taskResult.validatedAt \in Nat
    BY <1>5
  <2>2. AfterGrade(score, created)
    BY <1>4, <2>1, DatesOfGrade
  <2> QED
    BY <1>1, <2>2, Zenon DEF LeastOfPair, AfterGrade
<1>a. answers'[a].createdAt = created
  BY <1>1 DEF created
<1>7. ScoreIsTheBest'
  <2>1. CASE Graded = {}
    <3>1. taskResult.score = 0 /\ taskResult.obtainedAt = 0
      BY <2>1 DEF GradesInv, ScoreIsTheBest
    <3>2. taskResult'.score = score /\ taskResult'.obtainedAt = created /\ Graded' = {a}
      BY <1>1, <1>4, <1>6, <2>1, <3>1
    <3>3. ASSUME NEW i \in Graded'
          PROVE  /\ gradings'[i] <= taskResult'.score
                 /\ gradings'[i] = taskResult'.score => taskResult'.obtainedAt <= answers'[i].createdAt
      <4>1. i = a /\ gradings'[a] = score
        BY <1>1, <3>2
      <4> QED
        BY <1>4, <1>5, <1>a, <3>2, <4>1
    <3>4. Graded' # {} /\ \E i \in Graded' : gradings'[i] = taskResult'.score
      BY <1>1, <3>2
    <3> QED
      BY <1>5, <3>2, <3>3, <3>4 DEF ScoreIsTheBest
  <2>2. CASE Graded # {} /\ taskResult.score < score
    <3>1. taskResult'.score = score /\ taskResult'.obtainedAt = created
      BY <1>1, <1>4, <1>5, <1>6, <2>2
    <3>2. ASSUME NEW i \in Graded PROVE gradings'[i] < score
      <4>1. gradings[i] <= taskResult.score
        BY DEF GradesInv, ScoreIsTheBest
      <4>2. gradings[i] \in 0..100 /\ gradings'[i] = gradings[i]
        BY <1>1, <1>3
      <4> QED
        BY <1>4, <1>5, <2>2, <4>1, <4>2
    <3>4. Graded' # {} /\ \E i \in Graded' : gradings'[i] = taskResult'.score
      BY <1>1, <3>1
    <3>5. ASSUME NEW i \in Graded PROVE gradings'[i] <= score /\ gradings'[i] # score
      <4>1. gradings'[i] \in 0..100
        BY <1>1, <1>3
      <4> QED
        BY <1>4, <3>2, <4>1
    <3>6. ASSUME NEW i \in Graded'
          PROVE  /\ gradings'[i] <= taskResult'.score
                 /\ gradings'[i] = taskResult'.score => taskResult'.obtainedAt <= answers'[i].createdAt
      <4>1. CASE i = a
        BY <1>1, <1>4, <1>5, <1>a, <3>1, <4>1
      <4>2. CASE i # a
        BY <1>1, <3>1, <3>5, <4>2
      <4> QED
        BY <4>1, <4>2
    <3> QED
      BY <1>5, <3>1, <3>4, <3>6 DEF ScoreIsTheBest
  <2>3. CASE Graded # {} /\ score <= taskResult.score
    <3>1. taskResult'.score = taskResult.score
      BY <1>1, <1>4, <1>5, <1>6, <2>3
    <3>2. taskResult.obtainedAt # 0
      BY <2>3 DEF GradesInv, ScoreIsTheBest
    <3>3. taskResult'.obtainedAt = IF taskResult.obtainedAt < created THEN taskResult.obtainedAt ELSE created
      BY <1>6, <2>3, <3>2
    <3>4. /\ taskResult'.obtainedAt # 0 /\ taskResult'.obtainedAt \in Nat
          /\ taskResult'.obtainedAt <= created /\ taskResult'.obtainedAt <= taskResult.obtainedAt
      BY <1>5, <3>2, <3>3
    <3>5. PICK b \in Graded : gradings[b] = taskResult.score
      BY <2>3 DEF GradesInv, ScoreIsTheBest
    <3>6. ASSUME NEW i \in Graded'
          PROVE  /\ gradings'[i] <= taskResult'.score
                 /\ gradings'[i] = taskResult'.score => taskResult'.obtainedAt <= answers'[i].createdAt
      <4>1. CASE i = a
        BY <1>1, <1>a, <2>3, <3>1, <3>4, <4>1
      <4>2. CASE i # a
        <5>1. i \in Graded /\ gradings'[i] = gradings[i] /\ answers'[i].createdAt \in Nat
          BY <1>1, <1>2, <1>3, <4>2
        <5>2. gradings[i] <= taskResult.score
          BY <5>1 DEF GradesInv, ScoreIsTheBest
        <5>3. gradings[i] = taskResult.score => taskResult.obtainedAt <= answers'[i].createdAt
          BY <1>1, <5>1 DEF GradesInv, ScoreIsTheBest
        <5> QED
          BY <1>5, <3>1, <3>4, <5>1, <5>2, <5>3
      <4> QED
        BY <4>1, <4>2
    <3>7. b \in Graded' /\ gradings'[b] = taskResult'.score
      BY <1>1, <3>1, <3>5
    <3> QED
      BY <3>4, <3>6, <3>7 DEF ScoreIsTheBest
  <2> QED
    BY <1>4, <1>5, <2>1, <2>2, <2>3
<1>8. ValidatedByTheFirst'
  <2>1. \A i \in Graded : gradings'[i] = gradings[i] /\ answers'[i] = answers[i] /\ i \in Graded'
    BY <1>1
  <2>2. CASE score # 100
    <3>1. taskResult'.validatedAt = taskResult.validatedAt
      BY <1>6, <2>2
    <3>2. \A i \in Graded' : gradings'[i] = 100 => i \in Graded
      BY <1>1, <2>2
    <3>3. ValidatedByTheFirst
      BY DEF GradesInv
    <3> QED
      BY <2>1, <3>1, <3>2, <3>3 DEF ValidatedByTheFirst
  <2>3. CASE score = 100 /\ \A i \in Graded : gradings[i] # 100
    <3>1. taskResult'.validatedAt = created
      BY <1>6, <2>3 DEF GradesInv, ValidatedByTheFirst
    <3>2. \A i \in Graded' : gradings'[i] = 100 <=> i = a
      BY <1>1, <2>1, <2>3
    <3> QED
      BY <1>1, <1>5, <1>a, <3>1, <3>2 DEF ValidatedByTheFirst
  <2>4. CASE score = 100 /\ \E i \in Graded : gradings[i] = 100
    <3>1. PICK b \in Graded : gradings[b] = 100 /\ taskResult.validatedAt = answers[b].createdAt
      BY <2>4 DEF GradesInv, ValidatedByTheFirst
    <3>2. taskResult.validatedAt # 0
      BY <1>2, <1>3, <3>1
    <3>3. taskResult'.validatedAt =
            IF taskResult.validatedAt < created THEN taskResult.validatedAt ELSE created
      BY <1>6, <2>4, <3>2
    <3>4. \E i \in Graded' : gradings'[i] = 100 /\ taskResult'.validatedAt = answers'[i].createdAt
      BY <1>1, <1>a, <2>1, <2>4, <3>1, <3>3
    <3>5. taskResult'.validatedAt <= created /\ taskResult'.validatedAt <= taskResult.validatedAt
          /\ taskResult'.validatedAt \in Nat
      BY <1>5, <3>3
    <3>6. ASSUME NEW i \in Graded', gradings'[i] = 100
          PROVE  taskResult'.validatedAt <= answers'[i].createdAt
      <4>1. CASE i = a
        BY <1>1, <1>a, <3>5, <4>1
      <4>2. CASE i # a
        <5>1. i \in Graded /\ gradings[i] = 100 /\ answers'[i] = answers[i] /\ answers[i].createdAt \in Nat
          BY <1>1, <1>2, <1>3, <2>1, <3>6, <4>2
        <5>2. taskResult.validatedAt <= answers[i].createdAt
          BY <5>1 DEF GradesInv, ValidatedByTheFirst
        <5> QED
          BY <1>5, <3>5, <5>1, <5>2
      <4> QED
        BY <4>1, <4>2
    <3> QED
      BY <3>4, <3>6 DEF ValidatedByTheFirst
  <2> QED
    BY <2>2, <2>3, <2>4
<1> QED
  BY <1>7, <1>8 DEF GradesInv

\* Every step.
LEMMA GradingStep ==
  GradingInv /\ [GradingNext]_gradingVars => GradingInv' /\ (Percentages /\ GradesInv => GradesInv')
<1> SUFFICES ASSUME GradingInv, [GradingNext]_gradingVars
             PROVE  GradingInv' /\ (Percentages /\ GradesInv => GradesInv')
  OBVIOUS
<1>1. /\ today \in 1..LastDay /\ moment \in Nat \ {0} /\ taskView \in TaskViews
      /\ answers \in Seq(AnswerRow)
  BY DEF GradingInv, TablesOfGrading
<1>2. RowsOfTheTable(answers)
  BY <1>1 DEF RowsOfTheTable
<1>3. CASE StartTask \/ CloseSubmissions \/ GenerateTaskToken \/ UNCHANGED gradingVars
  <2>1. /\ UNCHANGED <<answers, gradings, answerTokens, today, moment, taskView>>
        /\ taskResult' = taskResult \/ taskResult' = [taskResult EXCEPT !.started = TRUE]
    BY <1>3 DEF StartTask, CloseSubmissions, GenerateTaskToken, gradingVars
  <2> QED
    BY <1>1, <2>1, TablesStay
<1>4. CASE ChangeTaskView
  BY <1>1, <1>4, TablesStay DEF ChangeTaskView, TaskViews
<1>5. CASE NextDay
  <2>1. today' \in 1..LastDay /\ moment' \in Nat \ {0}
    BY <1>1, <1>5, GradingAssumption DEF NextDay
  <2>2. UNCHANGED <<answers, gradings, answerTokens, taskView, taskResult>>
    BY <1>5 DEF NextDay
  <2> QED
    BY <1>1, <2>1, <2>2, TablesStay
<1>6. ASSUME NEW hint \in HintNames, AskHint(hint) PROVE GradingInv' /\ (GradesInv => GradesInv')
  <2>1. /\ UNCHANGED <<answers, gradings, answerTokens, today, moment, taskView>>
        /\ \E list : taskResult' = [taskResult EXCEPT !.hints = list,
                              !.hintsCached = Cardinality(list), !.tasksWithHelp = 1]
    BY <1>6 DEF AskHint
  <2> QED
    BY <1>1, <2>1, TablesStay
<1>7. ASSUME NEW author \in Authors, Submit(author) PROVE GradingInv' /\ (GradesInv => GradesInv')
  <2>1. /\ CreateNewAnswer(author, "Submission", answers)
        /\ taskResult' = [taskResult EXCEPT !.submissions = @ + 1]
        /\ answerTokens' = answerTokens \union {[answer |-> Len(answers'), day |-> today]}
        /\ UNCHANGED <<today, taskView>>
    BY <1>7 DEF Submit
  <2> QED
    BY <1>2, <2>1, Inserting
<1>8. ASSUME NEW author \in Authors, SaveAnswer(author) PROVE GradingInv' /\ (GradesInv => GradesInv')
  BY <1>2, <1>8, Inserting DEF SaveAnswer
<1>9. ASSUME NEW author \in Authors, SaveCurrentAnswer(author)
      PROVE  GradingInv' /\ (GradesInv => GradesInv')
  <2> DEFINE newAnswers == [i \in DOMAIN answers |->
                        IF answers[i].author = author /\ answers[i].type = "Current"
                        THEN [answers[i] EXCEPT !.type = "Deleted"] ELSE answers[i]]
  <2>1. /\ CreateNewAnswer(author, "Current", newAnswers)
        /\ UNCHANGED <<today, taskView, taskResult, answerTokens>>
    BY <1>9 DEF SaveCurrentAnswer
  <2>2. DOMAIN answers = 1..Len(answers) /\ Len(answers) \in Nat
    BY <1>1
  <2>3. \A i \in 1..Len(answers) : answers[i] \in AnswerRow
    BY <1>1
  <2>4. ASSUME NEW i \in 1..Len(answers)
        PROVE  /\ newAnswers[i] \in AnswerRow
               /\ newAnswers[i].createdAt = answers[i].createdAt /\ newAnswers[i].author = answers[i].author
               /\ \/ newAnswers[i].type = answers[i].type
                  \/ answers[i].type = "Current" /\ newAnswers[i].type = "Deleted"
               /\ ~(newAnswers[i].type = "Current" /\ newAnswers[i].author = author)
    BY <2>2, <2>3 DEF AnswerRow, AnswerTypes
  <2>5. newAnswers \in [1..Len(answers) -> AnswerRow]
    BY <2>2, <2>4
  <2> HIDE DEF newAnswers
  <2>6. newAnswers \in Seq(AnswerRow) /\ Len(newAnswers) = Len(answers)
    BY <2>2, <2>5
  <2>7. RowsOfTheTable(newAnswers)
    BY <2>4, <2>6 DEF RowsOfTheTable
  <2> QED
    BY <2>1, <2>4, <2>7, Inserting
<1>10. ASSUME NEW a \in 1..MaxAnswers, NEW score \in Scores, SaveGrade(a, score)
       PROVE  GradingInv' /\ (Percentages /\ GradesInv => GradesInv')
  BY <1>10, GradeSaved, GradeSavedIsCounted
<1> QED
  BY <1>3, <1>4, <1>5, <1>6, <1>7, <1>8, <1>9, <1>10, Zenon DEF GradingNext

\* The types, from the rows of answers and gradings.
LEMMA GradingIsTyped ==
  ASSUME GradingInv
  PROVE  GradingTypeOK
<1>1. /\ today \in 1..LastDay /\ taskView \in TaskViews
      /\ taskResult.hintsCached = Cardinality(taskResult.hints)
      /\ \A i, j \in AnswersOf("Current") : answers[i].author = answers[j].author => i = j
  BY DEF GradingInv, TablesOfGrading, OneCurrentAnswer
<1>2. /\ answers \in Seq(AnswerRow) /\ gradings \in Seq(Scores \union {NoScore})
      /\ Len(gradings) = Len(answers)
  BY DEF GradingInv, TablesOfGrading
<1>3. DOMAIN gradings = DOMAIN answers /\ \A i \in DOMAIN answers : answers[i] \in AnswerRow
  BY <1>2
<1>4. \A row \in AnswerRow : row.type \in AnswerTypes
  BY DEF AnswerRow
<1> QED
  BY <1>1, <1>3, <1>4, Zenon DEF GradingTypeOK

\* Types of the answers and their grades; an author has one current answer.
THEOREM GradingTypeCorrect == GradingSpec => []GradingTypeOK
<1>1. GradingInit => GradingInv
  BY GradingStart
<1>2. GradingInv /\ [GradingNext]_gradingVars => GradingInv'
  BY GradingStep
<1> QED
  BY <1>1, <1>2, GradingIsTyped, PTL DEF GradingSpec

\* saveGradingResultsIntoDB: whatever the order in which graders answer, and however often,
\* the result has the best score, the date of the first full score, and a date that is not
\* after the first answer with the best score.
THEOREM ResultIsTheBestGrade == Percentages => (GradingSpec => []ResultFollowsGradings)
<1> SUFFICES ASSUME Percentages PROVE GradingSpec => []ResultFollowsGradings
  OBVIOUS
<1>1. GradingInit => GradingInv /\ GradesInv
  BY GradingStart
<1>2. GradingInv /\ GradesInv /\ [GradingNext]_gradingVars => GradingInv' /\ GradesInv'
  BY GradingStep
<1>3. GradingInv /\ GradesInv => ResultFollowsGradings
  <2> SUFFICES ASSUME GradingInv, GradesInv PROVE ResultFollowsGradings
    OBVIOUS
  <2> DEFINE best == {i \in Graded : gradings[i] = taskResult.score}
             full == {i \in Graded : gradings[i] = 100}
  <2>1. \A i \in Graded : /\ gradings[i] \in Nat /\ answers[i].createdAt \in Nat \ {0}
                          /\ i \in AnswersOf("Submission")
    <3>1. \A i \in Graded : i \in 1..Len(answers) /\ gradings[i] \in 0..100
      BY FieldsOfGrading DEF Percentages
    <3>2. \A i \in 1..Len(answers) : answers[i].createdAt \in Nat \ {0}
      BY FieldsOfGrading
    <3>3. Graded \subseteq AnswersOf("Submission")
      BY DEF GradingInv, OnlySubmissionsAreGraded
    <3>4. 0..100 \subseteq Nat
      OBVIOUS
    <3> QED
      BY <3>1, <3>2, <3>3, <3>4, Zenon
  <2>2. taskResult.score \in Nat /\ taskResult.obtainedAt \in Nat /\ taskResult.validatedAt \in Nat
    BY DEF GradingInv, TablesOfGrading
  <2>3. CASE Graded = {}
    BY <2>3 DEF ResultFollowsGradings, GradesInv, ScoreIsTheBest, ValidatedByTheFirst
  <2>4. CASE Graded # {}
    <3>1. PICK b \in Graded : gradings[b] = taskResult.score
      BY <2>4 DEF GradesInv, ScoreIsTheBest
    <3>2. best # {} /\ \A i \in Graded : gradings[i] <= taskResult.score
      BY <3>1 DEF GradesInv, ScoreIsTheBest
    <3>3. \A i \in BestAnswers : i \in best
      BY <2>1, <2>2, <3>1, <3>2 DEF BestAnswers
    <3>4. taskResult.obtainedAt \in 1..FirstOf(best)
      <4> DEFINE S == {answers[i].createdAt : i \in best}
      <4>1. S \in SUBSET Nat /\ S # {}
        BY <2>1, <3>1
      <4>2. \A x \in S : taskResult.obtainedAt <= x
        BY DEF GradesInv, ScoreIsTheBest
      <4>3. FirstOf(best) = Min(S)
        BY DEF FirstOf
      <4> HIDE DEF S
      <4>4. Min(S) \in S
        BY <4>1, LeastNatural
      <4>5. taskResult.obtainedAt # 0
        BY <2>4 DEF GradesInv, ScoreIsTheBest
      <4>6. FirstOf(best) \in Nat /\ taskResult.obtainedAt <= FirstOf(best)
        BY <4>1, <4>2, <4>3, <4>4, Zenon
      <4> HIDE DEF best
      <4> QED
        BY <2>2, <4>5, <4>6
    <3>5. taskResult.validatedAt = IF full = {} THEN 0 ELSE FirstOf(full)
      <4>1. CASE full = {}
        BY <4>1 DEF GradesInv, ValidatedByTheFirst
      <4>2. CASE full # {}
        <5> DEFINE S == {answers[i].createdAt : i \in full}
        <5>1. S \in SUBSET Nat /\ S # {}
          BY <2>1, <4>2
        <5>2. PICK i \in full : taskResult.validatedAt = answers[i].createdAt
          BY <4>2 DEF GradesInv, ValidatedByTheFirst
        <5>3. taskResult.validatedAt \in S /\ \A x \in S : taskResult.validatedAt <= x
          BY <5>2 DEF GradesInv, ValidatedByTheFirst
        <5>4. FirstOf(full) = Min(S)
          BY DEF FirstOf
        <5> HIDE DEF S
        <5>5. Min(S) \in S /\ \A x \in S : Min(S) <= x
          BY <5>1, LeastNatural
        <5> DEFINE first == Min(S)
        <5> HIDE DEF full
        <5>6. first \in Nat /\ taskResult.validatedAt <= first /\ first <= taskResult.validatedAt
          <6>1. first \in S /\ \A x \in S : first <= x
            BY <5>5
          <6> HIDE DEF first
          <6> QED
            BY <5>1, <5>3, <6>1
        <5>7. taskResult.validatedAt = FirstOf(full)
          <6>1. first = FirstOf(full)
            BY <5>4
          <6> HIDE DEF first
          <6> QED
            BY <2>2, <5>6, <6>1
        <5> QED
          BY <4>2, <5>7, Zenon
      <4> QED
        BY <4>1, <4>2
    <3> HIDE DEF best, full
    <3> QED
      BY <2>4, <3>2, <3>3, <3>4, <3>5 DEF ResultFollowsGradings, best, full
  <2> QED
    BY <2>3, <2>4
<1> QED
  BY <1>1, <1>2, <1>3, PTL DEF GradingSpec

-----------------------------------------------------------------------------
(* Sessions and access tokens.                                             *)

Phases == {"idle", "newest", "temp", "lock", "read", "exchange", "store", "clean", "unlink"}

\* A request in progress has the token it came with, and in the exchange the
\* refresh token it read.
RequestOK(q) ==
  /\ q = [f \in DOMAIN q |-> q[f]] /\ "pc" \in DOMAIN q /\ q.pc \in Phases
  /\ q.pc # "idle" => "token" \in DOMAIN q
  /\ q.pc \in {"exchange", "store"} => "refresh" \in DOMAIN q

RequestRecords ==
  /\ request = [r \in TokenRequests |-> request[r]]
  /\ \A r \in TokenRequests : RequestOK(request[r])

Keys ==
  /\ accounts \subseteq AllUsers
  /\ Open \subseteq SessionIds /\ Open \subseteq DOMAIN current
  /\ owner = [s \in Open |-> owner[s]]
  /\ refreshToken = [s \in Open |-> refreshToken[s]]
  /\ current = [s \in DOMAIN current |-> current[s]]
  /\ \A s \in Open : owner[s] \in accounts
  /\ \A t \in tokens : t.session \in Open
  /\ \A s, z \in Open : owner[s] = owner[z] /\ owner[s] \in Temporary => s = z
  /\ \A r \in TokenRequests : ~At(r, "idle") => SessionOf(r) \in DOMAIN current

\* Requests between WithLock and its release.
InLock(r) == request[r].pc \in {"read", "exchange", "store"}

OneInLock ==
  /\ \A r \in TokenRequests : InLock(r) => SessionOf(r) \in sessionLocks
  /\ \A r, q \in TokenRequests : InLock(r) /\ InLock(q) /\ SessionOf(r) = SessionOf(q) => r = q

\* Unless a new refresh token was lost: what the sessions table holds is what
\* the login module accepts, but while a request has the new one to store;
\* and what a request is about to present is what the table holds.
Accepted ==
  \A s \in Open \ stranded :
    /\ (\A r \in TokenRequests : At(r, "store") => SessionOf(r) # s) => refreshToken[s] = current[s]
    /\ \A r \in TokenRequests :
         /\ At(r, "store") /\ SessionOf(r) = s => current[s] = request[r].refresh + 1
         /\ At(r, "exchange") /\ SessionOf(r) = s => request[r].refresh = refreshToken[s]

SInv == RequestRecords /\ Keys /\ OneInLock /\ Accepted

-----------------------------------------------------------------------------
(* What the steps do to the requests.                                      *)

\* The other requests are as they were.
OthersStay(r) == \A q \in TokenRequests \ {r} : request'[q] = request[q]

\* A request that goes to another step keeps what it knows.
LEMMA Going ==
  ASSUME RequestRecords, NEW r \in TokenRequests, NEW p \in Phases \ {"idle"}, ~At(r, "idle"),
         p \in {"exchange", "store"} => "refresh" \in DOMAIN request[r], Goto(r, p)
  PROVE  /\ RequestRecords' /\ OthersStay(r)
         /\ request'[r].pc = p /\ request'[r].token = request[r].token
         /\ "refresh" \in DOMAIN request[r] => request'[r].refresh = request[r].refresh
<1>1. /\ request' = [q \in TokenRequests |-> request'[q]] /\ OthersStay(r)
      /\ request'[r] = [request[r] EXCEPT !.pc = p]
  BY DEF RequestRecords, Goto, OthersStay
<1>2. RequestOK(request[r]) /\ "token" \in DOMAIN request[r]
  BY DEF RequestRecords, RequestOK, At
<1>3. RequestOK(request'[r]) /\ request'[r].pc = p /\ request'[r].token = request[r].token
      /\ ("refresh" \in DOMAIN request[r] => request'[r].refresh = request[r].refresh)
  BY <1>1, <1>2 DEF RequestOK
<1> QED
  BY <1>1, <1>3 DEF RequestRecords, OthersStay

\* A request that ends knows nothing any more.
LEMMA Finishing ==
  ASSUME RequestRecords, NEW r \in TokenRequests, Finished(r)
  PROVE  RequestRecords' /\ OthersStay(r) /\ request'[r].pc = "idle"
<1>1. /\ request' = [q \in TokenRequests |-> request'[q]] /\ OthersStay(r) /\ request'[r] = Idle
  BY DEF RequestRecords, Finished, OthersStay
<1>2. RequestOK(Idle)
  BY DEF RequestOK, Idle, Phases
<1> QED
  BY <1>1, <1>2 DEF RequestRecords, OthersStay, Idle

\* A step of a request that is not in the lock, before it and after it, and
\* that changes only tokens: the invariant is kept.
LEMMA OutsideTheLock ==
  ASSUME SInv, NEW r \in TokenRequests, RequestRecords', OthersStay(r), ~InLock(r), ~InLock(r)',
         request'[r].pc # "idle" => request'[r].token.session \in DOMAIN current,
         \A t \in tokens' : t.session \in Open,
         UNCHANGED <<accounts, owner, refreshToken, current, sessionLocks, stranded>>
  PROVE  SInv'
<1>1. Keys'
  BY DEF SInv, Keys, Open, OthersStay, At, SessionOf
<1>2. \A q \in TokenRequests : InLock(q)' => InLock(q) /\ q # r /\ request'[q] = request[q]
  BY DEF OthersStay, InLock
<1>3. OneInLock'
  BY <1>2 DEF SInv, OneInLock, SessionOf
<1>4. \A q \in TokenRequests : /\ At(q, "store")' <=> At(q, "store")
                               /\ At(q, "exchange")' <=> At(q, "exchange")
                               /\ At(q, "store") \/ At(q, "exchange") => request'[q] = request[q]
  BY DEF OthersStay, InLock, At
<1>5. Accepted'
  BY <1>4 DEF SInv, Accepted, SessionOf, Open, At
<1> QED
  BY <1>1, <1>3, <1>5 DEF SInv

-----------------------------------------------------------------------------
(* Steps outside the lock.                                                 *)

\* The middleware lets a request in with a token of an open session.
LEMMA AuthenticateStep ==
  ASSUME SInv, NEW r \in TokenRequests, NEW t \in tokens, Authenticate(r, t)
  PROVE  SInv'
<1> DEFINE start == [pc |-> "newest", token |-> t]
<1>1. request' = [request EXCEPT ![r] = start]
  BY DEF Authenticate
<1>2. RequestOK(start)
  BY DEF RequestOK, Phases
<1>3. request' = [q \in TokenRequests |-> request'[q]] /\ OthersStay(r) /\ request'[r] = start
  BY <1>1 DEF SInv, RequestRecords, OthersStay
<1>4. RequestRecords'
  BY <1>2, <1>3 DEF SInv, RequestRecords, OthersStay
<1>5. t.session \in DOMAIN current
  BY DEF SInv, Keys
<1>6. ~InLock(r) /\ ~InLock(r)'
  BY <1>3 DEF InLock, Authenticate, Idle
<1> QED
  BY <1>3, <1>4, <1>5, <1>6, OutsideTheLock DEF Authenticate, SInv, Keys, Open

\* After the newest token, a request ends or goes to one of two steps.
LEMMA AfterNewestToken ==
  ASSUME NEW r \in TokenRequests, ReadNewestToken(r)
  PROVE  Finished(r) \/ Goto(r, "temp") \/ Goto(r, "lock")
<1>1. Finished(r) \/ Goto(r, IF owner[SessionOf(r)] \in Temporary THEN "temp" ELSE "lock")
  BY Zenon DEF ReadNewestToken, TokensOf
<1>2. CASE owner[SessionOf(r)] \in Temporary
  BY <1>1, <1>2, Zenon
<1>3. CASE owner[SessionOf(r)] \notin Temporary
  BY <1>1, <1>3, Zenon
<1> QED
  BY <1>2, <1>3, Zenon

\* A request outside the lock that ends, or goes to another step outside it,
\* and at most adds a token to an open session or deletes tokens.
LEMMA EndOrStayOutside ==
  ASSUME SInv, NEW r \in TokenRequests, ~InLock(r),
         \/ Finished(r)
         \/ ~At(r, "idle") /\ \E p \in {"temp", "lock", "clean"} : Goto(r, p),
         \A t \in tokens' : t.session \in Open,
         UNCHANGED <<accounts, owner, refreshToken, current, sessionLocks, stranded>>
  PROVE  SInv'
<1>1. CASE Finished(r)
  <2>1. RequestRecords' /\ OthersStay(r) /\ request'[r].pc = "idle"
    BY <1>1, Finishing DEF SInv
  <2>2. ~InLock(r)'
    BY <2>1 DEF InLock
  <2> QED
    BY <2>1, <2>2, OutsideTheLock
<1>2. ASSUME ~At(r, "idle"), NEW p \in {"temp", "lock", "clean"}, Goto(r, p)
      PROVE  SInv'
  <2>1. /\ RequestRecords' /\ OthersStay(r)
        /\ request'[r].pc = p /\ request'[r].token = request[r].token
    <3>1. p \in Phases \ {"idle"} /\ p \notin {"exchange", "store"}
      BY DEF Phases
    <3> QED
      BY <1>2, <3>1, Going DEF SInv
  <2>2. ~InLock(r)'
    BY <2>1 DEF InLock
  <2>3. request'[r].token.session \in DOMAIN current
    BY <1>2, <2>1 DEF SInv, Keys, SessionOf
  <2> QED
    BY <2>1, <2>2, <2>3, OutsideTheLock
<1> QED
  BY <1>1, <1>2

\* A request that had another answer, or goes on.
LEMMA ReadNewestTokenStep ==
  ASSUME SInv, NEW r \in TokenRequests, ReadNewestToken(r)
  PROVE  SInv'
<1>1. ~InLock(r) /\ ~At(r, "idle")
  BY DEF ReadNewestToken, InLock, At
<1>2. /\ UNCHANGED <<accounts, owner, refreshToken, current, sessionLocks, stranded>>
      /\ \A t \in tokens' : t.session \in Open
  BY DEF ReadNewestToken, SInv, Keys
<1>3. Finished(r) \/ \E p \in {"temp", "lock", "clean"} : Goto(r, p)
  BY AfterNewestToken
<1> QED
  BY <1>1, <1>2, <1>3, EndOrStayOutside

\* A temporary user gets a new token if its session is still there.
LEMMA RefreshTempUserSessionStep ==
  ASSUME SInv, NEW r \in TokenRequests, RefreshTempUserSession(r)
  PROVE  SInv'
<1>1. ~InLock(r) /\ ~At(r, "idle")
  BY DEF RefreshTempUserSession, InLock, At
<1>2. UNCHANGED <<accounts, owner, refreshToken, current, sessionLocks, stranded>>
  BY DEF RefreshTempUserSession
<1>3. CASE SessionOf(r) \in Open
  <2>1. tokens' = tokens \union {NewToken(SessionOf(r))} /\ Goto(r, "clean")
    BY <1>3, Zenon DEF RefreshTempUserSession
  <2>2. \A t \in tokens' : t.session \in Open
    BY <1>3, <2>1 DEF NewToken, SInv, Keys
  <2> QED
    BY <1>1, <1>2, <2>1, <2>2, EndOrStayOutside
<1>4. CASE SessionOf(r) \notin Open
  <2>1. Finished(r) /\ tokens' = tokens
    BY <1>4, Zenon DEF RefreshTempUserSession
  <2> QED
    BY <1>1, <1>2, <2>1, EndOrStayOutside DEF SInv, Keys
<1> QED
  BY <1>3, <1>4

\* A wait is given up.
LEMMA CancelStep ==
  ASSUME SInv, NEW r \in TokenRequests, Cancel(r)
  PROVE  SInv'
<1>1. ~InLock(r) /\ Finished(r)
  BY DEF Cancel, InLock, At
<1> QED
  BY <1>1, EndOrStayOutside DEF Cancel, SInv, Keys

\* The user's expired tokens go.
LEMMA DeleteExpiredTokensStep ==
  ASSUME SInv, NEW r \in TokenRequests, DeleteExpiredTokensOfUser(r)
  PROVE  SInv'
<1>1. ~InLock(r) /\ Finished(r)
  BY DEF DeleteExpiredTokensOfUser, InLock, At
<1>2. tokens' \subseteq tokens
  BY DEF DeleteExpiredTokensOfUser
<1> QED
  BY <1>1, <1>2, EndOrStayOutside DEF DeleteExpiredTokensOfUser, SInv, Keys

\* The login module forgets the user, or fails.
LEMMA UnlinkClientStep ==
  ASSUME SInv, NEW r \in TokenRequests, UnlinkClient(r)
  PROVE  SInv'
<1>1. ~InLock(r) /\ Finished(r)
  BY DEF UnlinkClient, InLock, At
<1> QED
  BY <1>1, EndOrStayOutside DEF UnlinkClient, SInv, Keys

-----------------------------------------------------------------------------
(* Steps into the lock, in it and out of it.                               *)

\* A request enters: nobody was in.
LEMMA WithLockStep ==
  ASSUME SInv, NEW r \in TokenRequests, WithLock(r)
  PROVE  SInv'
<1>1. /\ RequestRecords' /\ OthersStay(r)
      /\ request'[r].pc = "read" /\ request'[r].token = request[r].token
  <2>1. "read" \in Phases \ {"idle"} /\ "read" \notin {"exchange", "store"} /\ ~At(r, "idle") /\ Goto(r, "read")
    BY DEF Phases, WithLock, At
  <2> QED
    BY <2>1, Going DEF SInv
<1>2. Keys'
  BY <1>1 DEF WithLock, SInv, Keys, Open, OthersStay, At, SessionOf
<1>3. \A q \in TokenRequests \ {r} : InLock(q)' => InLock(q) /\ SessionOf(q)' = SessionOf(q)
  BY <1>1 DEF OthersStay, InLock, SessionOf
<1>4. \A q \in TokenRequests \ {r} : InLock(q)' => SessionOf(q)' # SessionOf(r)'
  BY <1>1, <1>3 DEF WithLock, LockIsFree, SInv, OneInLock, SessionOf
<1>5. OneInLock'
  <2>1. sessionLocks' = sessionLocks \union {SessionOf(r)} /\ SessionOf(r)' = SessionOf(r)
    BY <1>1 DEF WithLock, SessionOf
  <2> QED
    BY <1>3, <1>4, <2>1 DEF SInv, OneInLock
<1>6. Accepted'
  BY <1>1 DEF WithLock, SInv, Accepted, OthersStay, At, SessionOf, Open
<1> QED
  BY <1>1, <1>2, <1>5, <1>6 DEF SInv

\* A request leaves the lock: the invariant of the lock is kept.
LEMMA Leaving ==
  ASSUME OneInLock, NEW r \in TokenRequests, InLock(r), OthersStay(r), ~InLock(r)', Release(r)
  PROVE  OneInLock'
<1>1. \A q \in TokenRequests : InLock(q)' => q # r /\ InLock(q) /\ SessionOf(q)' = SessionOf(q)
  BY DEF OthersStay, InLock, SessionOf
<1>2. \A q \in TokenRequests : InLock(q)' => SessionOf(q) # SessionOf(r)
  BY <1>1 DEF OneInLock
<1>3. \A q \in TokenRequests : InLock(q)' => SessionOf(q)' \in sessionLocks'
  BY <1>1, <1>2 DEF OneInLock, Release
<1> QED
  BY <1>1, <1>3 DEF OneInLock

\* A request stays in the lock.
LEMMA Staying ==
  ASSUME OneInLock, NEW r \in TokenRequests, InLock(r), OthersStay(r),
         SessionOf(r)' = SessionOf(r), UNCHANGED sessionLocks
  PROVE  OneInLock'
<1>1. \A q \in TokenRequests : InLock(q)' => InLock(q) /\ SessionOf(q)' = SessionOf(q)
  BY DEF OthersStay, InLock, SessionOf
<1> QED
  BY <1>1 DEF OneInLock

\* A request that ends in the lock, with nothing to store.
LEMMA EndInTheLock ==
  ASSUME SInv, NEW r \in TokenRequests, InLock(r), ~At(r, "store"), Finished(r), Release(r),
         UNCHANGED <<accounts, owner, refreshToken, tokens, current, stranded>>
  PROVE  SInv'
<1>1. RequestRecords' /\ OthersStay(r) /\ request'[r].pc = "idle"
  BY Finishing DEF SInv
<1>2. Keys'
  BY <1>1 DEF SInv, Keys, Open, OthersStay, At, SessionOf
<1>3. OneInLock'
  BY <1>1, Leaving DEF SInv, InLock
<1>4. Accepted'
  BY <1>1 DEF SInv, Accepted, OthersStay, At, SessionOf, Open
<1> QED
  BY <1>1, <1>2, <1>3, <1>4 DEF SInv

\* What is read in the lock is what the table holds.
LEMMA ReadRefreshTokenStep ==
  ASSUME SInv, NEW r \in TokenRequests, ReadRefreshToken(r)
  PROVE  SInv'
<1>1. InLock(r) /\ ~At(r, "store") /\ ~At(r, "idle")
  BY DEF ReadRefreshToken, InLock, At
<1>2. UNCHANGED <<accounts, owner, refreshToken, tokens, current, stranded>>
  BY DEF ReadRefreshToken
<1>3. CASE SessionOf(r) \notin Open
  <2>1. Finished(r) /\ Release(r)
    BY <1>3, Zenon DEF ReadRefreshToken
  <2> QED
    BY <1>1, <1>2, <2>1, EndInTheLock
<1>4. CASE SessionOf(r) \in Open
  <2> DEFINE new == [pc |-> "exchange", token |-> request[r].token,
                     refresh |-> refreshToken[SessionOf(r)]]
  <2>1. request' = [request EXCEPT ![r] = new] /\ sessionLocks' = sessionLocks
    BY <1>4, Zenon DEF ReadRefreshToken
  <2>2. request' = [q \in TokenRequests |-> request'[q]] /\ OthersStay(r) /\ request'[r] = new
    BY <2>1 DEF SInv, RequestRecords, OthersStay
  <2>3. RequestOK(new)
    BY DEF RequestOK, Phases
  <2>4. RequestRecords'
    BY <2>2, <2>3 DEF SInv, RequestRecords, OthersStay
  <2>5. SessionOf(r)' = SessionOf(r) /\ request'[r].pc = "exchange"
        /\ request'[r].refresh = refreshToken[SessionOf(r)]
    BY <2>2 DEF SessionOf
  <2>6. Keys'
    BY <1>1, <1>2, <2>2, <2>5 DEF SInv, Keys, Open, OthersStay, At, SessionOf
  <2>7. OneInLock'
    BY <1>1, <2>1, <2>2, <2>5, Staying DEF SInv
  <2>8. Accepted'
    BY <1>1, <1>2, <2>2, <2>5 DEF SInv, Accepted, OthersStay, At, SessionOf, Open
  <2> QED
    BY <2>4, <2>6, <2>7, <2>8 DEF SInv
<1> QED
  BY <1>3, <1>4

\* The login module accepts the token and gives the next one, which only this
\* request knows.
LEMMA ExchangeStep ==
  ASSUME SInv, NEW r \in TokenRequests, Exchange(r)
  PROVE  SInv'
<1>1. InLock(r) /\ ~At(r, "idle") /\ ~At(r, "store") /\ At(r, "exchange")
  BY DEF Exchange, InLock, At
<1>2. "refresh" \in DOMAIN request[r]
  BY <1>1 DEF SInv, RequestRecords, RequestOK, At
<1>3. /\ RequestRecords' /\ OthersStay(r)
      /\ request'[r].pc = "store" /\ request'[r].token = request[r].token
      /\ request'[r].refresh = request[r].refresh
  <2>1. "store" \in Phases \ {"idle"}
    BY DEF Phases
  <2> QED
    BY <1>1, <1>2, <2>1, Going DEF SInv, Exchange
<1>4. SessionOf(r)' = SessionOf(r)
  BY <1>3 DEF SessionOf
<1>5. /\ current' = [s \in DOMAIN current |-> current'[s]]
      /\ \A s \in DOMAIN current : s # SessionOf(r) => current'[s] = current[s]
      /\ current'[SessionOf(r)] = request[r].refresh + 1
  <2>1. SessionOf(r) \in DOMAIN current
    BY <1>1 DEF SInv, Keys
  <2>2. current' = [current EXCEPT ![SessionOf(r)] = current[SessionOf(r)] + 1]
        /\ request[r].refresh = current[SessionOf(r)]
    BY DEF Exchange
  <2> QED
    BY <2>1, <2>2 DEF SInv, Keys
<1>6. Keys'
  BY <1>1, <1>3, <1>4, <1>5 DEF Exchange, SInv, Keys, Open, OthersStay, At, SessionOf
<1>7. OneInLock'
  BY <1>1, <1>3, <1>4, Staying DEF SInv, Exchange
<1>8. \A q \in TokenRequests \ {r} : InLock(q) => SessionOf(q) # SessionOf(r)
  BY <1>1 DEF SInv, OneInLock
<1>9. Accepted'
  BY <1>1, <1>3, <1>4, <1>5, <1>8, SMTT(30)
  DEF Exchange, SInv, Accepted, Keys, OthersStay, InLock, At, SessionOf, Open
<1> QED
  BY <1>3, <1>6, <1>7, <1>9 DEF SInv

\* It refuses it: nothing changed.
LEMMA ExchangeFailsStep ==
  ASSUME SInv, NEW r \in TokenRequests, ExchangeFails(r)
  PROVE  SInv'
<1>1. InLock(r) /\ ~At(r, "store")
  BY DEF ExchangeFails, InLock, At
<1> QED
  BY <1>1, EndInTheLock DEF ExchangeFails

\* The new token is stored: the table holds again what is accepted.
LEMMA StoreTokensStep ==
  ASSUME SInv, NEW r \in TokenRequests, StoreTokens(r)
  PROVE  SInv'
<1>1. InLock(r) /\ ~At(r, "idle") /\ At(r, "store") /\ Release(r)
  BY DEF StoreTokens, InLock, At
<1>2. UNCHANGED <<accounts, owner, current, stranded>>
  BY DEF StoreTokens
<1>3. \A q \in TokenRequests \ {r} : InLock(q) => SessionOf(q) # SessionOf(r)
  BY <1>1 DEF SInv, OneInLock
<1>4. CASE SessionOf(r) \in Open
  <2>1. /\ refreshToken' = [refreshToken EXCEPT ![SessionOf(r)] = request[r].refresh + 1]
        /\ tokens' = tokens \union {NewToken(SessionOf(r))} /\ Goto(r, "clean")
    BY <1>4, Zenon DEF StoreTokens
  <2>2. /\ RequestRecords' /\ OthersStay(r)
        /\ request'[r].pc = "clean" /\ request'[r].token = request[r].token
    <3>1. "clean" \in Phases \ {"idle"} /\ "clean" \notin {"exchange", "store"}
      BY DEF Phases
    <3> QED
      BY <1>1, <2>1, <3>1, Going DEF SInv
  <2>3. Keys'
    BY <1>1, <1>2, <1>4, <2>1, <2>2, SMTT(30) DEF SInv, Keys, Open, OthersStay, At, SessionOf, NewToken
  <2>4. OneInLock'
    BY <1>1, <2>2, Leaving DEF SInv, InLock
  <2>5. /\ \A s \in Open : s # SessionOf(r) => refreshToken'[s] = refreshToken[s]
        /\ refreshToken'[SessionOf(r)] = request[r].refresh + 1
    BY <1>4, <2>1 DEF SInv, Keys
  <2>6. Accepted'
    BY <1>1, <1>2, <1>3, <2>2, <2>5 DEF SInv, Accepted, OthersStay, InLock, At, SessionOf, Open
  <2> QED
    BY <2>2, <2>3, <2>4, <2>6 DEF SInv
<1>5. CASE SessionOf(r) \notin Open
  <2>1. Finished(r) /\ refreshToken' = refreshToken /\ tokens' = tokens
    BY <1>5, Zenon DEF StoreTokens
  <2>2. RequestRecords' /\ OthersStay(r) /\ request'[r].pc = "idle"
    BY <2>1, Finishing DEF SInv
  <2>3. Keys'
    BY <1>2, <2>1, <2>2 DEF SInv, Keys, Open, OthersStay, At, SessionOf
  <2>4. OneInLock'
    BY <1>1, <2>2, Leaving DEF SInv, InLock
  <2>5. Accepted'
    BY <1>2, <1>5, <2>1, <2>2 DEF SInv, Accepted, OthersStay, At, SessionOf, Open
  <2> QED
    BY <2>2, <2>3, <2>4, <2>5 DEF SInv
<1> QED
  BY <1>4, <1>5

\* It is lost: the session is stranded.
LEMMA StoreFailsStep ==
  ASSUME SInv, NEW r \in TokenRequests, StoreFails(r)
  PROVE  SInv'
<1>1. InLock(r) /\ At(r, "store") /\ Release(r)
  BY DEF StoreFails, InLock, At
<1>2. RequestRecords' /\ OthersStay(r) /\ request'[r].pc = "idle"
  BY Finishing DEF SInv, StoreFails
<1>3. Keys'
  BY <1>2 DEF StoreFails, SInv, Keys, Open, OthersStay, At, SessionOf
<1>4. OneInLock'
  BY <1>1, <1>2, Leaving DEF SInv, InLock
<1>5. Accepted'
  BY <1>2 DEF StoreFails, SInv, Accepted, OthersStay, At, SessionOf, Open
<1> QED
  BY <1>2, <1>3, <1>4, <1>5 DEF SInv

\* The server dies: what was still to be stored is lost.
LEMMA ServerDiesStep ==
  ASSUME SInv, ServerDies
  PROVE  SInv'
<1>1. /\ request' = [r \in TokenRequests |-> Idle]
      /\ \A r \in TokenRequests : request'[r].pc = "idle"
  BY DEF ServerDies, Idle
<1>2. RequestOK(Idle)
  BY DEF RequestOK, Idle, Phases
<1>3. RequestRecords'
  BY <1>1, <1>2 DEF RequestRecords
<1>4. Keys'
  BY <1>1 DEF ServerDies, SInv, Keys, Open, At
<1>5. OneInLock'
  BY <1>1 DEF OneInLock, InLock
<1>6. \A r \in TokenRequests : At(r, "store") => SessionOf(r) \in stranded'
  BY DEF ServerDies
<1>7. Accepted'
  BY <1>1, <1>6 DEF ServerDies, SInv, Accepted, At, Open
<1> QED
  BY <1>3, <1>4, <1>5, <1>7 DEF SInv

-----------------------------------------------------------------------------
(* Sessions begin and end.                                                 *)

\* Sessions are deleted, with their tokens; users without a session may be;
\* requests go on, or one starts to unlink its user.
LEMMA Deletion ==
  ASSUME SInv, NEW gone, DropSessions(gone), RequestRecords',
         accounts' \subseteq accounts, \A s \in Open \ gone : owner[s] \in accounts',
         \A q \in TokenRequests :
           \/ request'[q] = request[q]
           \/ ~InLock(q) /\ ~InLock(q)' /\ request'[q].token.session \in DOMAIN current,
         UNCHANGED <<current, sessionLocks, stranded>>
  PROVE  SInv'
<1>1. /\ Open' = Open \ gone
      /\ owner' = [s \in Open \ gone |-> owner[s]]
      /\ refreshToken' = [s \in Open \ gone |-> refreshToken[s]]
      /\ tokens' = {t \in tokens : t.session \notin gone}
  BY DEF DropSessions, Restricted, Open
<1>2. Keys'
  BY <1>1 DEF SInv, Keys, Open, At, SessionOf
<1>3. \A q \in TokenRequests : InLock(q)' => InLock(q) /\ request'[q] = request[q]
  BY DEF InLock
<1>4. OneInLock'
  BY <1>3 DEF SInv, OneInLock, SessionOf
<1>5. \A q \in TokenRequests : /\ At(q, "store")' <=> At(q, "store")
                               /\ At(q, "exchange")' <=> At(q, "exchange")
                               /\ At(q, "store") \/ At(q, "exchange") => request'[q] = request[q]
  BY DEF InLock, At
<1>6. Accepted'
  BY <1>1, <1>5 DEF SInv, Accepted, SessionOf, At
<1> QED
  BY <1>2, <1>4, <1>6 DEF SInv

\* A session ends.
LEMMA LogoutStep ==
  ASSUME SInv, NEW t \in tokens, Logout(t)
  PROVE  SInv'
<1>1. DropSessions({t.session}) /\ UNCHANGED <<accounts, request, current, sessionLocks, stranded>>
  BY DEF Logout
<1>2. RequestRecords'
  BY <1>1 DEF SInv, RequestRecords
<1> QED
  BY <1>1, <1>2, Deletion DEF SInv, Keys

\* A user ends with its sessions.
LEMMA DeleteCurrentUserStep ==
  ASSUME SInv, NEW r \in TokenRequests, NEW t \in tokens, DeleteCurrentUser(r, t)
  PROVE  SInv'
<1> DEFINE u == owner[t.session]
           unlinking == [pc |-> "unlink", token |-> t, user |-> u]
<1>1. /\ accounts' = accounts \ {u} /\ DropSessions(SessionsOf(u)) /\ request[r] = Idle
      /\ UNCHANGED <<current, sessionLocks, stranded>>
      /\ request' = IF u \in Temporary THEN request ELSE [request EXCEPT ![r] = unlinking]
  BY DEF DeleteCurrentUser
<1>2. \A s \in Open \ SessionsOf(u) : owner[s] \in accounts'
  BY <1>1 DEF SInv, Keys, SessionsOf
<1>3. t.session \in DOMAIN current
  BY DEF SInv, Keys
<1>4. RequestOK(unlinking)
  BY DEF RequestOK, Phases
<1>5. CASE u \in Temporary
  <2>1. request' = request
    BY <1>1, <1>5, Zenon
  <2>2. RequestRecords'
    BY <2>1 DEF SInv, RequestRecords
  <2> QED
    BY <1>1, <1>2, <2>1, <2>2, Deletion
<1>6. CASE u \notin Temporary
  <2>1. request' = [request EXCEPT ![r] = unlinking]
    BY <1>1, <1>6, Zenon
  <2>2. request' = [q \in TokenRequests |-> request'[q]] /\ OthersStay(r) /\ request'[r] = unlinking
    BY <2>1 DEF SInv, RequestRecords, OthersStay
  <2>3. RequestRecords'
    BY <1>4, <2>2 DEF SInv, RequestRecords, OthersStay
  <2>4. ~InLock(r) /\ ~InLock(r)' /\ request'[r].token.session \in DOMAIN current
    BY <1>1, <1>3, <2>2 DEF InLock, Idle
  <2> QED
    BY <1>1, <1>2, <2>2, <2>3, <2>4, Deletion DEF OthersStay
<1> QED
  BY <1>5, <1>6

\* Abandoned temporary users end with their sessions.
LEMMA DeleteTempUsersStep ==
  ASSUME SInv, DeleteTempUsers
  PROVE  SInv'
<1> DEFINE gone == {u \in accounts : IsAbandoned(u)}
           ended == UNION {SessionsOf(u) : u \in gone}
<1>1. /\ accounts' = accounts \ gone /\ DropSessions(ended)
      /\ UNCHANGED <<current, request, sessionLocks, stranded>>
  BY DEF DeleteTempUsers
<1>2. \A s \in Open \ ended : owner[s] \in accounts'
  <2>1. \A s \in Open : owner[s] \in gone => s \in ended
    BY DEF SessionsOf
  <2> QED
    BY <1>1, <2>1 DEF SInv, Keys
<1>3. RequestRecords'
  BY <1>1 DEF SInv, RequestRecords
<1> QED
  BY <1>1, <1>2, <1>3, Deletion

\* A session that begins has an id no request and no session has: for the
\* login of a regular user, and for a new temporary one.
LEMMA Beginning ==
  ASSUME SInv, NEW u \in AllUsers, NEW s \in SessionIds, NEW first, NEW gone, Unused(s),
         u \in Temporary => u \notin accounts,
         accounts' = accounts \union {u},
         owner' = Restricted(WithRow(owner, s, u), (Open \union {s}) \ gone),
         refreshToken' = Restricted(WithRow(refreshToken, s, first), (Open \union {s}) \ gone),
         current' = WithRow(current, s, first),
         tokens' = {t \in tokens \union {NewToken(s)} : t.session \notin gone},
         UNCHANGED <<request, sessionLocks, stranded>>
  PROVE  SInv'
<1>1. s \notin Open /\ \A r \in TokenRequests : ~At(r, "idle") => SessionOf(r) # s
  BY DEF SInv, Keys, Unused
<1>2. /\ Open' = (Open \union {s}) \ gone
      /\ owner' = [z \in Open' |-> owner'[z]]
      /\ refreshToken' = [z \in Open' |-> refreshToken'[z]]
      /\ \A z \in Open' : /\ owner'[z] = IF z = s THEN u ELSE owner[z]
                          /\ refreshToken'[z] = IF z = s THEN first ELSE refreshToken[z]
  BY DEF Restricted, WithRow, SInv, Keys, Open
<1>3. /\ DOMAIN current' = DOMAIN current \union {s}
      /\ current' = [z \in DOMAIN current' |-> current'[z]]
      /\ \A z \in DOMAIN current' : current'[z] = IF z = s THEN first ELSE current[z]
  BY DEF WithRow
<1>4. Keys'
  <2>1. accounts' \subseteq AllUsers /\ Open' \subseteq SessionIds /\ Open' \subseteq DOMAIN current'
    BY <1>2, <1>3 DEF SInv, Keys
  <2>2. \A z \in Open' : owner'[z] \in accounts'
    BY <1>2 DEF SInv, Keys
  <2>3. \A t \in tokens' : t.session \in Open'
    BY <1>2 DEF SInv, Keys, NewToken
  <2>4. ASSUME NEW z \in Open', NEW y \in Open', owner'[z] = owner'[y], owner'[z] \in Temporary
        PROVE  z = y
    <3>1. CASE z # s /\ y # s
      <4>1. z \in Open /\ y \in Open /\ owner[z] = owner[y] /\ owner[z] \in Temporary
        BY <1>2, <2>4, <3>1
      <4> QED
        BY <4>1 DEF SInv, Keys
    <3>2. CASE z = s /\ y # s
      <4>1. y \in Open /\ owner[y] = u /\ u \in Temporary
        BY <1>2, <2>4, <3>2
      <4> QED
        BY <4>1 DEF SInv, Keys
    <3>3. CASE z # s /\ y = s
      <4>1. z \in Open /\ owner[z] = u /\ u \in Temporary
        BY <1>2, <2>4, <3>3
      <4> QED
        BY <4>1 DEF SInv, Keys
    <3> QED
      BY <3>1, <3>2, <3>3
  <2>5. \A r \in TokenRequests : ~At(r, "idle")' => SessionOf(r)' \in DOMAIN current'
    BY <1>3 DEF SInv, Keys, At, SessionOf
  <2> QED
    BY <1>2, <1>3, <2>1, <2>2, <2>3, <2>4, <2>5 DEF Keys
<1>5. RequestRecords' /\ OneInLock'
  BY DEF SInv, RequestRecords, OneInLock, InLock, SessionOf
<1>6. Accepted'
  <2>1. \A r \in TokenRequests : /\ At(r, "store")' <=> At(r, "store")
                                 /\ At(r, "exchange")' <=> At(r, "exchange")
                                 /\ SessionOf(r)' = SessionOf(r)
    BY DEF At, SessionOf
  <2>2. \A r \in TokenRequests : At(r, "store") \/ At(r, "exchange") => SessionOf(r) # s
    BY <1>1 DEF At
  <2>3. \A z \in Open' \ stranded : z # s =>
          z \in Open \ stranded /\ refreshToken'[z] = refreshToken[z] /\ current'[z] = current[z]
    BY <1>2, <1>3 DEF SInv, Keys
  <2>4. s \in Open' => refreshToken'[s] = first /\ current'[s] = first
    BY <1>2, <1>3
  <2>5. ASSUME NEW z \in Open' \ stranded
        PROVE  /\ (\A r \in TokenRequests : At(r, "store")' => SessionOf(r)' # z) => refreshToken'[z] = current'[z]
               /\ \A r \in TokenRequests :
                    /\ At(r, "store")' /\ SessionOf(r)' = z => current'[z] = request'[r].refresh + 1
                    /\ At(r, "exchange")' /\ SessionOf(r)' = z => request'[r].refresh = refreshToken'[z]
    <3>1. CASE z = s
      BY <2>1, <2>2, <2>4, <2>5, <3>1
    <3>2. CASE z # s
      BY <2>1, <2>3, <2>5, <3>2 DEF SInv, Accepted
    <3> QED
      BY <3>1, <3>2
  <2>6. stranded' = stranded
    OBVIOUS
  <2> QED
    BY ONLY <2>5, <2>6, Zenon DEF Accepted
<1> QED
  BY <1>4, <1>5, <1>6 DEF SInv

\* A login, with the sessions it deletes.
LEMMA LoginStep ==
  ASSUME SInv, NEW u \in Regular, NEW s \in SessionIds, Login(u, s)
  PROVE  SInv'
<1> DEFINE own == WithRow(owner, s, u)
           ts == tokens \union {NewToken(s)}
           gone == SessionsToDelete(own, ts, u)
<1>1. DOMAIN own = Open \union {s}
  BY DEF WithRow, Open
<1>2. /\ accounts' = accounts \union {u} /\ Unused(s)
      /\ owner' = Restricted(own, DOMAIN own \ gone)
      /\ refreshToken' = Restricted(WithRow(refreshToken, s, 1), DOMAIN own \ gone)
      /\ current' = WithRow(current, s, 1)
      /\ tokens' = {t \in ts : t.session \notin gone}
      /\ UNCHANGED <<request, sessionLocks, stranded>>
  BY DEF Login, createOrUpdateUser
<1>3. u \in AllUsers /\ u \notin Temporary
  BY SessionsAssumption DEF AllUsers
<1> HIDE DEF gone
<1> QED
  BY <1>1, <1>2, <1>3, Beginning

\* A temporary user is created with its session.
LEMMA CreateTempUserStep ==
  ASSUME SInv, NEW u \in Temporary, NEW s \in SessionIds, CreateTempUser(u, s)
  PROVE  SInv'
<1> DEFINE none == {}
<1>1. /\ u \notin accounts /\ Unused(s) /\ accounts' = accounts \union {u}
      /\ owner' = WithRow(owner, s, u)
      /\ refreshToken' = WithRow(refreshToken, s, NoRefreshToken)
      /\ current' = WithRow(current, s, NoRefreshToken)
      /\ tokens' = tokens \union {NewToken(s)}
      /\ UNCHANGED <<request, sessionLocks, stranded>>
  BY DEF CreateTempUser
<1>2. /\ owner' = Restricted(WithRow(owner, s, u), (Open \union {s}) \ none)
      /\ refreshToken' = Restricted(WithRow(refreshToken, s, NoRefreshToken), (Open \union {s}) \ none)
      /\ tokens' = {t \in tokens \union {NewToken(s)} : t.session \notin none}
  BY <1>1 DEF Restricted, WithRow, Open, SInv, Keys
<1>3. u \in AllUsers
  BY DEF AllUsers
<1> HIDE DEF none
<1> QED
  BY <1>1, <1>2, <1>3, Beginning

-----------------------------------------------------------------------------
(* The theorems.                                                           *)

\* The first state.
LEMMA SessionsStart == SessionsInit => SInv
<1> SUFFICES ASSUME SessionsInit PROVE SInv
  OBVIOUS
<1>1. RequestOK(Idle) /\ Idle.pc = "idle"
  BY DEF RequestOK, Idle, Phases
<1>2. \A r \in TokenRequests : request[r].pc = "idle"
  BY <1>1 DEF SessionsInit
<1>3. RequestRecords
  BY <1>1 DEF SessionsInit, RequestRecords
<1>4. Keys
  BY <1>2 DEF SessionsInit, Keys, Open, At
<1>5. OneInLock /\ Accepted
  BY <1>2 DEF SessionsInit, OneInLock, Accepted, InLock, Open
<1> QED
  BY <1>3, <1>4, <1>5 DEF SInv

\* What no clock and no step left out changes.
LEMMA Unchanged ==
  ASSUME SInv, UNCHANGED <<accounts, owner, refreshToken, tokens, current, request, sessionLocks, stranded>>
  PROVE  SInv'
BY DEF SInv, RequestRecords, Keys, OneInLock, Accepted, InLock, At, SessionOf, Open

\* Every step keeps the invariant.
LEMMA SessionsStep == SInv /\ [SessionsNext]_sessionVars => SInv'
<1> SUFFICES ASSUME SInv, [SessionsNext]_sessionVars PROVE SInv'
  OBVIOUS
<1>1. ASSUME NEW u \in Regular, NEW s \in SessionIds, Login(u, s) PROVE SInv'
  BY <1>1, LoginStep
<1>2. ASSUME NEW u \in Temporary, NEW s \in SessionIds, CreateTempUser(u, s) PROVE SInv'
  BY <1>2, CreateTempUserStep
<1>3. ASSUME NEW r \in TokenRequests, NEW t \in tokens, Authenticate(r, t) \/ DeleteCurrentUser(r, t)
      PROVE  SInv'
  BY <1>3, AuthenticateStep, DeleteCurrentUserStep
<1>4. ASSUME NEW r \in TokenRequests,
             \/ ReadNewestToken(r) \/ RefreshTempUserSession(r) \/ WithLock(r) \/ Cancel(r)
             \/ ReadRefreshToken(r) \/ Exchange(r) \/ ExchangeFails(r) \/ StoreTokens(r)
             \/ StoreFails(r) \/ DeleteExpiredTokensOfUser(r) \/ UnlinkClient(r)
      PROVE  SInv'
  BY <1>4, ReadNewestTokenStep, RefreshTempUserSessionStep, WithLockStep, CancelStep,
     ReadRefreshTokenStep, ExchangeStep, ExchangeFailsStep, StoreTokensStep, StoreFailsStep,
     DeleteExpiredTokensStep, UnlinkClientStep
<1>5. ASSUME NEW t \in tokens, Logout(t) PROVE SInv'
  BY <1>5, LogoutStep
<1>6. CASE DeleteTempUsers \/ ServerDies
  BY <1>6, DeleteTempUsersStep, ServerDiesStep
<1>7. CASE Clock
  BY <1>7, Unchanged DEF Clock
<1>8. CASE UNCHANGED sessionVars
  BY <1>8, Unchanged DEF sessionVars
<1> QED
  BY <1>1, <1>2, <1>3, <1>4, <1>5, <1>6, <1>7, <1>8 DEF SessionsNext

\* The inductive invariant holds of any users, sessions and requests.
THEOREM SessionsInvariant == SessionsSpec => []SInv
BY SessionsStart, SessionsStep, PTL DEF SessionsSpec

\* The types, from the foreign keys.
LEMMA SessionsAreTyped ==
  ASSUME SInv
  PROVE  SessionsTypeOK
<1>1. /\ accounts \subseteq AllUsers /\ Open \subseteq SessionIds /\ DOMAIN refreshToken = Open
      /\ (\A s \in Open : owner[s] \in accounts) /\ \A t \in tokens : t.session \in Open
  BY DEF SInv, Keys
<1>2. ASSUME NEW u \in Temporary PROVE Cardinality(SessionsOf(u)) <= 1
  <2>1. CASE SessionsOf(u) = {}
    BY <2>1, FS_EmptySet
  <2>2. CASE SessionsOf(u) # {}
    <3>1. PICK s \in SessionsOf(u) : TRUE
      BY <2>2
    <3>2. SessionsOf(u) = {s}
      BY <3>1 DEF SessionsOf, SInv, Keys
    <3> QED
      BY <3>2, FS_Singleton
  <2> QED
    BY <2>1, <2>2
<1> QED
  BY <1>1, <1>2 DEF SessionsTypeOK

\* Foreign keys between users, sessions and access tokens, and one session at
\* most for a temporary user, with logins, logouts, refreshes and deletions
\* (session_store.go, user_store.go, temp users).
THEOREM SessionsTypeCorrect == SessionsSpec => []SessionsTypeOK
<1> QED
  BY SessionsAreTyped, SessionsInvariant, PTL

\* No refresh presents a revoked refresh token, however the requests of one
\* session interleave (refreshTokens, WithLock in app/api/auth), but for the
\* sessions whose new token was lost.
THEOREM RefreshTokenIsAccepted == SessionsSpec => []RefreshUsesAcceptedToken
<1>1. ASSUME SInv PROVE RefreshUsesAcceptedToken
  <2> SUFFICES ASSUME NEW s \in Open \ stranded
      PROVE /\ \A r \in TokenRequests : At(r, "exchange") /\ SessionOf(r) = s => request[r].refresh = current[s]
            /\ s \notin sessionLocks => refreshToken[s] = current[s]
    BY DEF RefreshUsesAcceptedToken
  <2>1. ASSUME NEW r \in TokenRequests, At(r, "exchange"), SessionOf(r) = s
        PROVE  request[r].refresh = current[s]
    <3>1. \A q \in TokenRequests : At(q, "store") => SessionOf(q) # s
      BY <1>1, <2>1 DEF SInv, OneInLock, InLock, At
    <3> QED
      BY <1>1, <2>1, <3>1 DEF SInv, Accepted
  <2>2. ASSUME s \notin sessionLocks PROVE refreshToken[s] = current[s]
    <3>1. \A q \in TokenRequests : At(q, "store") => SessionOf(q) # s
      BY <1>1, <2>2 DEF SInv, OneInLock, InLock, At
    <3> QED
      BY <1>1, <3>1 DEF SInv, Accepted
  <2> QED
    BY <2>1, <2>2
<1> QED
  BY <1>1, SessionsInvariant, PTL

-----------------------------------------------------------------------------
(* Batches of users.                                                       *)

Creating == {"create_users", "create_local", "undo"}
Deleting == {"delete_users", "delete_local", "delete_row"}

\* A request in progress knows its prefix, and one that creates its size.
BatchRequestOK(q) ==
  \/ q = NoRequest
  \/ \E pc \in Creating \cup {"insert"}, p \in Prefixes, size \in Sizes :
       q = [pc |-> pc, prefix |-> p, size |-> size]
  \/ \E pc \in Deleting, p \in Prefixes : q = [pc |-> pc, prefix |-> p]

BatchTables ==
  /\ batches \in [Prefixes -> Sizes \union {NoBatch}]
  /\ localUsers \in [Prefixes -> Nat]
  /\ remoteUsers \subseteq Prefixes /\ interrupted \subseteq Prefixes /\ orphaned \subseteq Prefixes
  /\ rowless \subseteq Prefixes
  /\ batchCalls \in 0..MaxBatchCalls
  /\ batchRequest = [r \in BatchRequests |-> batchRequest[r]]
  /\ \A r \in BatchRequests : BatchRequestOK(batchRequest[r])

\* A request that deletes the users starts with the row and all its users, or an accident's rest.
Whole(p) == p \notin interrupted \union rowless => localUsers[p] = batches[p] /\ p \in remoteUsers

\* A request at work on a prefix: its row is there, and what the request did up to now.
InProgress(r) ==
  LET p == Of(r) IN
  /\ p \in Stored
  /\ batchRequest[r].pc \in Creating =>
       /\ p \notin interrupted /\ batches[p] = batchRequest[r].size
       /\ localUsers[p] > 0 => p \in rowless
  /\ batchRequest[r].pc \in {"create_users", "undo"} =>
       (p \in remoteUsers => p \in orphaned \union rowless)
  /\ AtStep(r, "create_local") => p \in remoteUsers
  /\ AtStep(r, "delete_users") => Whole(p)
  /\ batchRequest[r].pc \in {"delete_local", "delete_row"} => p \notin remoteUsers
  /\ AtStep(r, "delete_row") => localUsers[p] = 0

\* At most one request works on a prefix, unless a removal overlapped; without one, the three
\* places are settled.
PrefixOK(p) ==
  p \notin clashed =>
    /\ \A r, s \in BatchRequests : WorksOn(r, p) /\ WorksOn(s, p) => r = s
    /\ (\A r \in BatchRequests : ~WorksOn(r, p)) => Settled(p)
    /\ \A r \in BatchRequests : WorksOn(r, p) => InProgress(r)

PrefixesOK == \A p \in Prefixes : PrefixOK(p)

\* A request about to insert its row has room for it, unless another one inserted since.
PlacesFree ==
  /\ SizeOf(Stored \ raced) <= MaxUsers
  /\ \A r \in BatchRequests :
       AtStep(r, "insert") /\ r \notin behind => batchRequest[r].size + SumSize <= MaxUsers

\* What a request in progress knows.
LEMMA BatchRequestFacts ==
  ASSUME BatchTables, NEW r \in BatchRequests
  PROVE  /\ batchRequest[r] = NoRequest <=> batchRequest[r].pc = "idle"
         /\ batchRequest[r].pc \in {"idle", "insert"} \cup Creating \cup Deleting
         /\ batchRequest[r] # NoRequest => Of(r) \in Prefixes
         /\ batchRequest[r].pc \in Creating \cup {"insert"} => batchRequest[r].size \in Sizes
<1>1. BatchRequestOK(batchRequest[r])
  BY DEF BatchTables
<1>2. CASE batchRequest[r] = NoRequest
  BY <1>2 DEF NoRequest, Creating, Deleting
<1>3. CASE \E pc \in Creating \cup {"insert"}, p \in Prefixes, size \in Sizes :
             batchRequest[r] = [pc |-> pc, prefix |-> p, size |-> size]
  <2>1. PICK pc \in Creating \cup {"insert"}, p \in Prefixes, size \in Sizes :
               batchRequest[r] = [pc |-> pc, prefix |-> p, size |-> size]
    BY <1>3
  <2>2. batchRequest[r].pc = pc /\ batchRequest[r].prefix = p /\ batchRequest[r].size = size
    BY <2>1
  <2>3. pc # "idle" /\ batchRequest[r] # NoRequest
    BY <2>2 DEF NoRequest, Creating
  <2> QED
    BY <2>2, <2>3 DEF Of
<1>4. CASE \E pc \in Deleting, p \in Prefixes : batchRequest[r] = [pc |-> pc, prefix |-> p]
  <2>1. PICK pc \in Deleting, p \in Prefixes : batchRequest[r] = [pc |-> pc, prefix |-> p]
    BY <1>4
  <2>2. batchRequest[r].pc = pc /\ batchRequest[r].prefix = p
    BY <2>1
  <2>3. pc # "idle" /\ batchRequest[r] # NoRequest /\ pc \notin Creating \cup {"insert"}
    BY <2>2 DEF NoRequest, Creating, Deleting
  <2> QED
    BY <2>2, <2>3 DEF Of
<1> QED
  BY <1>1, <1>2, <1>3, <1>4 DEF BatchRequestOK

\* A request that goes on in the same service, or ends.
LEMMA BatchRequestGoesOn ==
  ASSUME BatchTables, NEW r \in BatchRequests, NEW pc,
         \/ batchRequest[r].pc \in Creating \cup {"insert"} /\ pc \in Creating
         \/ batchRequest[r].pc \in Deleting /\ pc \in Deleting,
         Proceed(r, pc)
  PROVE  /\ batchRequest' = [q \in BatchRequests |-> batchRequest'[q]]
         /\ \A q \in BatchRequests : BatchRequestOK(batchRequest'[q])
         /\ AtStep(r, pc)' /\ Of(r)' = Of(r)
         /\ pc \in Creating => batchRequest'[r].size = batchRequest[r].size
         /\ \A q \in BatchRequests \ {r} : batchRequest'[q] = batchRequest[q]
<1>1. batchRequest' = [q \in BatchRequests |->
                         IF q = r THEN [batchRequest[r] EXCEPT !.pc = pc] ELSE batchRequest[q]]
  BY DEF BatchTables, Proceed
<1>2. /\ batchRequest' = [q \in BatchRequests |-> batchRequest'[q]]
      /\ batchRequest'[r] = [batchRequest[r] EXCEPT !.pc = pc]
      /\ \A q \in BatchRequests \ {r} : batchRequest'[q] = batchRequest[q]
  BY <1>1
<1>3. BatchRequestOK(batchRequest[r]) /\ batchRequest[r] # NoRequest
  BY BatchRequestFacts DEF BatchTables, Creating, Deleting
<1>4. ASSUME NEW old \in Creating \cup {"insert"}, NEW p \in Prefixes, NEW size \in Sizes,
             batchRequest[r] = [pc |-> old, prefix |-> p, size |-> size]
      PROVE  /\ BatchRequestOK(batchRequest'[r]) /\ batchRequest'[r].pc = pc
             /\ batchRequest'[r].prefix = batchRequest[r].prefix
             /\ batchRequest'[r].size = batchRequest[r].size
  <2>1. pc \in Creating
    BY <1>4 DEF Creating, Deleting
  <2>2. batchRequest'[r] = [pc |-> pc, prefix |-> p, size |-> size]
    BY <1>2, <1>4
  <2> QED
    BY <1>4, <2>1, <2>2 DEF BatchRequestOK
<1>5. ASSUME NEW old \in Deleting, NEW p \in Prefixes, batchRequest[r] = [pc |-> old, prefix |-> p]
      PROVE  /\ BatchRequestOK(batchRequest'[r]) /\ batchRequest'[r].pc = pc
             /\ batchRequest'[r].prefix = batchRequest[r].prefix /\ pc \notin Creating
  <2>1. pc \in Deleting /\ pc \notin Creating
    BY <1>5 DEF Creating, Deleting
  <2>2. batchRequest'[r] = [pc |-> pc, prefix |-> p]
    BY <1>2, <1>5
  <2> QED
    BY <1>5, <2>1, <2>2 DEF BatchRequestOK
<1>6. /\ BatchRequestOK(batchRequest'[r]) /\ batchRequest'[r].pc = pc
      /\ batchRequest'[r].prefix = batchRequest[r].prefix
      /\ pc \in Creating => batchRequest'[r].size = batchRequest[r].size
  BY <1>3, <1>4, <1>5 DEF BatchRequestOK
<1>7. \A q \in BatchRequests : BatchRequestOK(batchRequest'[q])
  BY <1>2, <1>6 DEF BatchTables
<1> QED
  BY <1>2, <1>6, <1>7 DEF AtStep, Of

\* A request that ends, or one that starts.
LEMMA BatchRequestReplaced ==
  ASSUME BatchTables, NEW r \in BatchRequests, NEW q, BatchRequestOK(q),
         batchRequest' = [batchRequest EXCEPT ![r] = q]
  PROVE  /\ batchRequest' = [s \in BatchRequests |-> batchRequest'[s]]
         /\ \A s \in BatchRequests : BatchRequestOK(batchRequest'[s])
         /\ batchRequest'[r] = q /\ \A s \in BatchRequests \ {r} : batchRequest'[s] = batchRequest[s]
<1>1. batchRequest' = [s \in BatchRequests |-> IF s = r THEN q ELSE batchRequest[s]]
  BY DEF BatchTables
<1>2. /\ batchRequest' = [s \in BatchRequests |-> batchRequest'[s]]
      /\ batchRequest'[r] = q /\ \A s \in BatchRequests \ {r} : batchRequest'[s] = batchRequest[s]
  BY <1>1
<1> QED
  BY <1>2 DEF BatchTables

\* The rows over a smaller set, with the same sizes, have at most the same sum.
LEMMA NoMoreUsers ==
  ASSUME BatchTables, NEW S \in SUBSET Stored, NEW T \in SUBSET S, NEW y, \A q \in T : y[q] = batches[q]
  PROVE  /\ SumOver(y, T) \in Int /\ SumOver(batches, S) \in Int
         /\ SumOver(y, T) <= SumOver(batches, S)
         /\ T = S => SumOver(y, T) = SumOver(batches, S)
<1>1. /\ IsFiniteSet(S) /\ IsFiniteSet(T)
      /\ \A q \in S : batches[q] \in Nat /\ batches[q] \in Int
  BY FS_Subset, BatchesAssumption DEF Stored, BatchTables
<1>2. /\ SumOver(batches, T) \in Int /\ SumOver(batches, S) \in Int
      /\ SumOver(batches, T) <= SumOver(batches, S)
  BY <1>1, SumOfSubset
<1>3. SumOver(y, T) = SumOver(batches, T)
  BY <1>1, SumFacts
<1> QED
  BY <1>2, <1>3

\* What SizeOf computes, before and after a step.
LEMMA SizesAreSums ==
  /\ SumSize = SumOver(batches, Stored) /\ SizeOf(Stored \ raced) = SumOver(batches, Stored \ raced)
  /\ SumSize' = SumOver(batches', Stored')
  /\ SizeOf(Stored \ raced)' = SumOver(batches', Stored' \ raced')
<1>1. SumSize = SumOver(batches, Stored) /\ SizeOf(Stored \ raced) = SumOver(batches, Stored \ raced)
  BY DEF SumSize, SizeOf, SumOver
<1>2. SumSize' = (CHOOSE f : IsSum(f, batches', Stored'))[Stored']
  BY DEF SumSize, SizeOf, MapThenSumSet, MapThenFoldSet, IsSum, Pick
<1>3. SizeOf(Stored \ raced)' = (CHOOSE f : IsSum(f, batches', Stored' \ raced'))[Stored' \ raced']
  BY DEF SizeOf, MapThenSumSet, MapThenFoldSet, IsSum, Pick
<1>4. /\ SumOver(batches', Stored') = (CHOOSE f : IsSum(f, batches', Stored'))[Stored']
      /\ SumOver(batches', Stored' \ raced')
           = (CHOOSE f : IsSum(f, batches', Stored' \ raced'))[Stored' \ raced']
  BY SumUnfolds
<1> QED
  BY <1>1, <1>2, <1>3, <1>4

\* A step that inserts no row.
LEMMA NoRowInserted ==
  ASSUME BatchTables, \A q \in Prefixes : batches'[q] \in {batches[q], NoBatch}, UNCHANGED raced
  PROVE  /\ SumSize' \in Int /\ SumSize \in Int /\ SumSize' <= SumSize
         /\ SizeOf(Stored \ raced)' \in Int /\ SizeOf(Stored \ raced) \in Int
         /\ SizeOf(Stored \ raced)' <= SizeOf(Stored \ raced)
<1>1. Stored' \in SUBSET Stored /\ \A q \in Stored' : batches'[q] = batches[q]
  BY DEF Stored
<1>2. /\ SumOver(batches', Stored') \in Int /\ SumOver(batches, Stored) \in Int
      /\ SumOver(batches', Stored') <= SumOver(batches, Stored)
  BY <1>1, NoMoreUsers
<1>3. /\ SumOver(batches', Stored' \ raced') \in Int /\ SumOver(batches, Stored \ raced) \in Int
      /\ SumOver(batches', Stored' \ raced') <= SumOver(batches, Stored \ raced)
  <2>1. Stored' \ raced' \in SUBSET (Stored \ raced) /\ Stored \ raced \in SUBSET Stored
    BY <1>1
  <2> QED
    BY <1>1, <2>1, NoMoreUsers
<1> QED
  BY <1>2, <1>3, SizesAreSums

\* A step that inserts a row.
LEMMA RowInserted ==
  ASSUME BatchTables, NEW p \in Prefixes, p \notin Stored, NEW size \in Sizes,
         batches' = [batches EXCEPT ![p] = size]
  PROVE  /\ Stored' = Stored \union {p} /\ batches'[p] = size
         /\ SumSize \in Int /\ size \in Int /\ SumSize' = SumSize + size
         /\ SizeOf(Stored \ raced)' \in Int /\ SizeOf(Stored \ raced)' <= SumSize'
         /\ raced' = raced \union {p} => SizeOf(Stored \ raced)' = SizeOf(Stored \ raced)
<1>1. size \in Nat /\ size \in Int /\ size # NoBatch
  BY BatchesAssumption
<1>2. batches'[p] = size /\ \A q \in Prefixes \ {p} : batches'[q] = batches[q]
  BY DEF BatchTables
<1>3. Stored' = Stored \union {p}
  BY <1>1, <1>2 DEF Stored
<1>4. /\ IsFiniteSet(Stored) /\ IsFiniteSet(Stored') /\ p \in Stored'
      /\ \A q \in Stored' : batches'[q] \in Nat /\ batches'[q] \in Int
      /\ \A q \in Stored : batches'[q] = batches[q]
  <2>1. IsFiniteSet(Stored) /\ \A q \in Stored : batches[q] \in Nat /\ q \in Prefixes
    BY FS_Subset, BatchesAssumption DEF Stored, BatchTables
  <2>2. IsFiniteSet(Stored') /\ p \in Stored'
    BY <1>3, <2>1, FS_AddElement
  <2> QED
    BY <1>1, <1>2, <1>3, <2>1, <2>2
<1>5. SumOver(batches', Stored) \in Int /\ SumOver(batches', Stored) = SumOver(batches, Stored)
  <2>1. Stored \in SUBSET Stored /\ \A q \in Stored : batches'[q] = batches[q]
    BY <1>4
  <2> QED
    BY <2>1, NoMoreUsers
<1>6. SumOver(batches', Stored') = batches'[p] + SumOver(batches', Stored' \ {p})
  BY <1>4, SumWithout
<1>7. Stored' \ {p} = Stored
  BY <1>3
<1>8. SumSize' = size + SumSize /\ SumSize \in Int
  BY <1>2, <1>5, <1>6, <1>7, SizesAreSums, Zenon
<1>9. /\ SumOver(batches', Stored' \ raced') \in Int
      /\ SumOver(batches', Stored' \ raced') <= SumOver(batches', Stored')
  <2>1. Stored' \ raced' \in SUBSET Stored'
    OBVIOUS
  <2> QED
    BY <1>4, <2>1, SumOfSubset
<1>10. ASSUME raced' = raced \union {p} PROVE SizeOf(Stored \ raced)' = SizeOf(Stored \ raced)
  <2>1. Stored' \ raced' = Stored \ raced
    BY <1>3, <1>10
  <2>2. /\ Stored \ raced \in SUBSET Stored /\ Stored \ raced \in SUBSET (Stored \ raced)
        /\ \A q \in Stored \ raced : batches'[q] = batches[q]
    BY <1>4
  <2>3. SumOver(batches', Stored \ raced) = SumOver(batches, Stored \ raced)
    BY <2>2, NoMoreUsers
  <2> QED
    BY <2>1, <2>3, SizesAreSums
<1>11. SizeOf(Stored \ raced)' \in Int /\ SizeOf(Stored \ raced)' <= SumSize'
  BY <1>9, SizesAreSums
<1>12. SumSize' = SumSize + size
  BY <1>1, <1>8
<1> QED
  BY <1>1, <1>2, <1>3, <1>8, <1>10, <1>11, <1>12

\* The columns of the tables and what requests know, with any number of requests at a time.
LEMMA BatchTablesStep == BatchTables /\ [BatchesNext]_batchVars => BatchTables'
<1> SUFFICES ASSUME BatchTables, [BatchesNext]_batchVars PROVE BatchTables'
  OBVIOUS
<1>1. CASE UNCHANGED batchVars
  BY <1>1 DEF batchVars, tables, accidents, BatchTables
<1>2. BatchRequestOK(NoRequest)
  BY DEF BatchRequestOK
<1>3. ASSUME NEW r \in BatchRequests, NEW p \in Prefixes, NEW size \in Sizes, CheckCreateUserBatch(r, p, size)
      PROVE  BatchTables'
  <2>1. BatchRequestOK([pc |-> "insert", prefix |-> p, size |-> size])
    BY DEF BatchRequestOK
  <2>2. /\ batchRequest' = [batchRequest EXCEPT ![r] = [pc |-> "insert", prefix |-> p, size |-> size]]
        /\ batchCalls' = batchCalls + 1 /\ batchCalls < MaxBatchCalls
        /\ UNCHANGED <<tables, accidents>>
    BY <1>3 DEF CheckCreateUserBatch
  <2>3. batchCalls' \in 0..MaxBatchCalls
    BY <2>2, BatchesAssumption DEF BatchTables
  <2> QED
    BY <2>1, <2>2, <2>3, BatchRequestReplaced DEF BatchTables, tables, accidents
<1>4. ASSUME NEW r \in BatchRequests, NEW p \in Prefixes, CheckRemoveUserBatch(r, p) PROVE BatchTables'
  <2>1. BatchRequestOK([pc |-> "delete_users", prefix |-> p])
    BY DEF BatchRequestOK, Deleting
  <2>2. /\ batchRequest' = [batchRequest EXCEPT ![r] = [pc |-> "delete_users", prefix |-> p]]
        /\ batchCalls' = batchCalls + 1 /\ batchCalls < MaxBatchCalls
        /\ UNCHANGED <<tables, accidents>>
    BY <1>4 DEF CheckRemoveUserBatch
  <2>3. batchCalls' \in 0..MaxBatchCalls
    BY <2>2, BatchesAssumption DEF BatchTables
  <2> QED
    BY <2>1, <2>2, <2>3, BatchRequestReplaced DEF BatchTables, tables, accidents
<1>5. ASSUME NEW r \in BatchRequests, InsertBatch(r) \/ CreateRemoteUsers(r) \/ CreateLocalUsers(r)
      PROVE  BatchTables'
  <2>1. /\ batchRequest[r].pc \in Creating \cup {"insert"} /\ batchRequest[r].size \in Sizes
        /\ Of(r) \in Prefixes
    BY <1>5, BatchRequestFacts DEF InsertBatch, CreateRemoteUsers, CreateLocalUsers, AtStep, Creating, NoRequest
  <2>2. Done(r) \/ \E pc \in Creating : Proceed(r, pc)
    BY <1>5 DEF InsertBatch, CreateRemoteUsers, CreateLocalUsers, Creating
  <2>3. /\ batchRequest' = [q \in BatchRequests |-> batchRequest'[q]]
        /\ \A q \in BatchRequests : BatchRequestOK(batchRequest'[q])
    BY <1>2, <2>1, <2>2, BatchRequestReplaced, BatchRequestGoesOn DEF Done
  <2>4. /\ batches' = batches \/ batches' = [batches EXCEPT ![Of(r)] = batchRequest[r].size]
        /\ remoteUsers' = remoteUsers \/ remoteUsers' = remoteUsers \union {Of(r)}
        /\ localUsers' = localUsers \/ localUsers' = [localUsers EXCEPT ![Of(r)] = @ + batchRequest[r].size]
        /\ orphaned' = orphaned \/ orphaned' = orphaned \union {Of(r)}
        /\ interrupted' = interrupted \/ interrupted' = interrupted \union {Of(r)}
        /\ rowless' = rowless \/ rowless' = rowless \union {Of(r)}
        /\ batchCalls' = batchCalls
    BY <1>5, Zenon DEF InsertBatch, CreateRemoteUsers, CreateLocalUsers, tables, accidents
  <2>5. batches' \in [Prefixes -> Sizes \union {NoBatch}]
    BY <2>1, <2>4 DEF BatchTables
  <2>6. localUsers' \in [Prefixes -> Nat]
    BY <2>1, <2>4, BatchesAssumption DEF BatchTables
  <2> QED
    BY <2>1, <2>3, <2>4, <2>5, <2>6 DEF BatchTables
<1>6. ASSUME NEW r \in BatchRequests,
             UndoBatch(r) \/ DeleteRemoteUsers(r) \/ DeleteLocalUsers(r) \/ DeleteBatchRow(r) \/ BatchRequestDies(r)
      PROVE  BatchTables'
  <2>1. Of(r) \in Prefixes
    BY <1>6, BatchRequestFacts
    DEF UndoBatch, DeleteRemoteUsers, DeleteLocalUsers, DeleteBatchRow, BatchRequestDies, AtStep, NoRequest
  <2>2. \/ Done(r)
        \/ batchRequest[r].pc \in Deleting /\ \E pc \in Deleting : Proceed(r, pc)
    <3>1. CASE UndoBatch(r) \/ DeleteBatchRow(r) \/ BatchRequestDies(r)
      BY <3>1, Zenon DEF UndoBatch, DeleteBatchRow, BatchRequestDies
    <3>2. CASE DeleteRemoteUsers(r)
      BY <3>2 DEF DeleteRemoteUsers, Deleting, AtStep
    <3>3. CASE DeleteLocalUsers(r)
      BY <3>3 DEF DeleteLocalUsers, Deleting, AtStep
    <3> QED
      BY <1>6, <3>1, <3>2, <3>3
  <2>3. /\ batchRequest' = [q \in BatchRequests |-> batchRequest'[q]]
        /\ \A q \in BatchRequests : BatchRequestOK(batchRequest'[q])
    BY <1>2, <2>2, BatchRequestReplaced, BatchRequestGoesOn DEF Done
  <2>4. /\ batches' = batches \/ batches' = [batches EXCEPT ![Of(r)] = NoBatch]
        /\ remoteUsers' = remoteUsers \/ remoteUsers' = remoteUsers \ {Of(r)}
        /\ \/ localUsers' = localUsers
           \/ \E left \in Nat : localUsers' = [localUsers EXCEPT ![Of(r)] = left]
        /\ orphaned' = orphaned \/ orphaned' = orphaned \ {Of(r)}
        /\ interrupted' \subseteq interrupted \cup {Of(r)} /\ rowless' \subseteq rowless
        /\ batchCalls' = batchCalls
    <3>1. CASE UndoBatch(r) \/ DeleteBatchRow(r) \/ BatchRequestDies(r)
      BY <3>1 DEF UndoBatch, DeleteBatchRow, BatchRequestDies, tables, accidents
    <3>2. CASE DeleteRemoteUsers(r)
      BY <3>2 DEF DeleteRemoteUsers
    <3>3. CASE DeleteLocalUsers(r)
      <4>1. \/ localUsers' = [localUsers EXCEPT ![Of(r)] = 0]
            \/ \E left \in 0..localUsers[Of(r)] : localUsers' = [localUsers EXCEPT ![Of(r)] = left]
        BY <3>3 DEF DeleteLocalUsers
      <4>2. 0 \in Nat /\ 0..localUsers[Of(r)] \subseteq Nat
        OBVIOUS
      <4>3. \E left \in Nat : localUsers' = [localUsers EXCEPT ![Of(r)] = left]
        BY <4>1, <4>2, Zenon
      <4> QED
        BY <3>3, <4>3 DEF DeleteLocalUsers
    <3> QED
      BY <1>6, <3>1, <3>2, <3>3
  <2>5. batches' \in [Prefixes -> Sizes \union {NoBatch}]
    BY <2>1, <2>4 DEF BatchTables
  <2>6. localUsers' \in [Prefixes -> Nat]
    BY <2>1, <2>4 DEF BatchTables
  <2> QED
    BY <2>1, <2>3, <2>4, <2>5, <2>6 DEF BatchTables
<1> QED
  BY <1>1, <1>3, <1>4, <1>5, <1>6, Zenon DEF BatchesNext

\* What a step leaves as it is for a prefix: its row, its users, what accidents left of it.
Untouched(q) ==
  /\ batches'[q] = batches[q] /\ localUsers'[q] = localUsers[q]
  /\ q \in remoteUsers' <=> q \in remoteUsers
  /\ q \in interrupted' <=> q \in interrupted
  /\ q \in orphaned' <=> q \in orphaned
  /\ q \in rowless' <=> q \in rowless
  /\ q \in clashed => q \in clashed'

\* What is known of an untouched prefix stays so.
LEMMA UntouchedFacts ==
  ASSUME NEW q \in Prefixes, Untouched(q)
  PROVE  /\ q \in Stored' <=> q \in Stored
         /\ Settled(q) => Settled(q)'
         /\ Whole(q) => Whole(q)'
<1>1. q \in Stored' <=> q \in Stored
  BY DEF Stored, Untouched
<1> QED
  BY <1>1 DEF Settled, Whole, Untouched

\* So does what a request knows of it.
LEMMA RequestUntouched ==
  ASSUME NEW r \in BatchRequests, NEW q \in Prefixes, WorksOn(r, q), Untouched(q),
         batchRequest'[r] = batchRequest[r], InProgress(r)
  PROVE  InProgress(r)'
<1>1. Of(r) = q /\ Of(r)' = q /\ \A pc : AtStep(r, pc)' <=> AtStep(r, pc)
  BY DEF WorksOn, Of, AtStep
<1> QED
  BY <1>1, UntouchedFacts DEF InProgress, Untouched

\* A prefix that the step leaves alone, with no request that starts or ends work on it.
LEMMA PrefixUntouched ==
  ASSUME NEW q \in Prefixes, Untouched(q), PrefixOK(q),
         \A s \in BatchRequests :
           \/ batchRequest'[s] = batchRequest[s]
           \/ ~WorksOn(s, q) /\ ~WorksOn(s, q)'
  PROVE  PrefixOK(q)'
<1> SUFFICES ASSUME q \notin clashed'
             PROVE  /\ (\A r, s \in BatchRequests : WorksOn(r, q) /\ WorksOn(s, q) => r = s)'
                    /\ ((\A r \in BatchRequests : ~WorksOn(r, q)) => Settled(q))'
                    /\ (\A r \in BatchRequests : WorksOn(r, q) => InProgress(r))'
  BY DEF PrefixOK
<1>1. /\ \A r, s \in BatchRequests : WorksOn(r, q) /\ WorksOn(s, q) => r = s
      /\ (\A r \in BatchRequests : ~WorksOn(r, q)) => Settled(q)
      /\ \A r \in BatchRequests : WorksOn(r, q) => InProgress(r)
  BY DEF PrefixOK, Untouched
<1>2. ASSUME NEW s \in BatchRequests
      PROVE  /\ WorksOn(s, q)' <=> WorksOn(s, q)
             /\ WorksOn(s, q)' => batchRequest'[s] = batchRequest[s]
  BY DEF WorksOn, AtStep, Of
<1>3. ASSUME NEW s \in BatchRequests, WorksOn(s, q)' PROVE InProgress(s)'
  BY <1>1, <1>2, <1>3, RequestUntouched
<1> QED
  BY <1>1, <1>2, <1>3, UntouchedFacts

\* A step of one request, on one prefix that no other works on.
LEMMA PrefixStep ==
  ASSUME PrefixesOK, NEW r \in BatchRequests, NEW p \in Prefixes,
         \A s \in BatchRequests \ {r} : batchRequest'[s] = batchRequest[s],
         \A q \in Prefixes \ {p} : Untouched(q) /\ ~WorksOn(r, q) /\ ~WorksOn(r, q)',
         p \notin clashed' =>
           /\ \A s \in BatchRequests \ {r} : ~WorksOn(s, p)
           /\ WorksOn(r, p)' => InProgress(r)'
           /\ ~WorksOn(r, p)' => Settled(p)'
  PROVE  PrefixesOK'
<1>1. ASSUME NEW q \in Prefixes, q # p PROVE PrefixOK(q)'
  BY <1>1, PrefixUntouched DEF PrefixesOK
<1>2. ASSUME p \notin clashed'
      PROVE  /\ (\A s, t \in BatchRequests : WorksOn(s, p) /\ WorksOn(t, p) => s = t)'
             /\ ((\A s \in BatchRequests : ~WorksOn(s, p)) => Settled(p))'
             /\ (\A s \in BatchRequests : WorksOn(s, p) => InProgress(s))'
  <2>1. ASSUME NEW s \in BatchRequests, s # r PROVE ~WorksOn(s, p)'
    BY <1>2, <2>1 DEF WorksOn, AtStep, Of
  <2> QED
    BY <1>2, <2>1
<1>3. PrefixOK(p)'
  BY <1>2 DEF PrefixOK
<1> QED
  BY <1>1, <1>3 DEF PrefixesOK

\* A request that ended works on nothing.
LEMMA EndedRequest ==
  ASSUME BatchTables, NEW r \in BatchRequests, Done(r)
  PROVE  /\ \A q : ~WorksOn(r, q)'
         /\ AtStep(r, "idle")'
         /\ \A s \in BatchRequests \ {r} : batchRequest'[s] = batchRequest[s]
<1>1. BatchRequestOK(NoRequest)
  BY DEF BatchRequestOK
<1>2. batchRequest'[r] = NoRequest /\ \A s \in BatchRequests \ {r} : batchRequest'[s] = batchRequest[s]
  BY <1>1, BatchRequestReplaced DEF Done
<1>3. AtStep(r, "idle")'
  BY <1>2 DEF AtStep, NoRequest
<1> QED
  BY <1>2, <1>3 DEF WorksOn

\* What a step of a request at work does to the rest.
Elsewhere(p) == \A q \in Prefixes \ {p} : Untouched(q)

\* It goes on in the same service.
GoesOn(r, pc) ==
  /\ \/ batchRequest[r].pc \in Creating /\ pc \in Creating
     \/ batchRequest[r].pc \in Deleting /\ pc \in Deleting
  /\ Proceed(r, pc)

\* A request at work takes its step: it is alone on its prefix, and knows what it did.
LEMMA WorkStep ==
  ASSUME BatchTables, PrefixesOK, NEW r \in BatchRequests, NEW p \in Prefixes,
         Of(r) = p, batchRequest[r].pc \in Creating \union Deleting,
         Elsewhere(p), UNCHANGED clashed,
         \/ Done(r) /\ (InProgress(r) => Settled(p)')
         \/ (\E pc : GoesOn(r, pc)) /\ (InProgress(r) => InProgress(r)')
  PROVE  PrefixesOK'
<1>1. WorksOn(r, p) /\ \A q : WorksOn(r, q) => q = p
  BY DEF WorksOn, AtStep, Creating, Deleting
<1>2. p \notin clashed => InProgress(r) /\ \A s \in BatchRequests \ {r} : ~WorksOn(s, p)
  BY <1>1 DEF PrefixesOK, PrefixOK
<1>3. CASE Done(r) /\ (InProgress(r) => Settled(p)')
  BY <1>1, <1>2, <1>3, EndedRequest, PrefixStep DEF Elsewhere
<1>4. CASE (\E pc : GoesOn(r, pc)) /\ (InProgress(r) => InProgress(r)')
  <2>1. PICK pc : /\ \/ batchRequest[r].pc \in Creating /\ pc \in Creating
                     \/ batchRequest[r].pc \in Deleting /\ pc \in Deleting
                  /\ Proceed(r, pc)
    BY <1>4 DEF GoesOn
  <2>2. /\ AtStep(r, pc)' /\ Of(r)' = p
        /\ \A s \in BatchRequests \ {r} : batchRequest'[s] = batchRequest[s]
    BY <2>1, BatchRequestGoesOn
  <2>3. WorksOn(r, p)' /\ \A q : WorksOn(r, q)' => q = p
    BY <2>1, <2>2 DEF WorksOn, AtStep, Creating, Deleting
  <2> QED
    BY <1>1, <1>2, <1>4, <2>2, <2>3, PrefixStep DEF Elsewhere
<1> QED
  BY <1>3, <1>4

\* A request starts, and finds the row if it removes one.
LEMMA RequestStarts ==
  ASSUME BatchTables, PrefixesOK, NEW r \in BatchRequests, NEW p \in Prefixes,
         \/ \E size \in Sizes : CheckCreateUserBatch(r, p, size)
         \/ CheckRemoveUserBatch(r, p)
  PROVE  PrefixesOK'
<1>1. /\ UNCHANGED <<batches, localUsers, remoteUsers, interrupted, orphaned, rowless>>
      /\ clashed \subseteq clashed'
      /\ batchRequest[r] = NoRequest
  BY DEF CheckCreateUserBatch, CheckRemoveUserBatch, tables, accidents
<1>2. \A q \in Prefixes : Untouched(q)
  BY <1>1 DEF Untouched
<1>3. \A q : ~WorksOn(r, q)
  BY <1>1 DEF WorksOn, AtStep, NoRequest
<1>4. CASE \E size \in Sizes : CheckCreateUserBatch(r, p, size)
  <2>1. PICK size \in Sizes : CheckCreateUserBatch(r, p, size)
    BY <1>4
  <2>2. BatchRequestOK([pc |-> "insert", prefix |-> p, size |-> size])
    BY DEF BatchRequestOK
  <2>3. /\ batchRequest'[r] = [pc |-> "insert", prefix |-> p, size |-> size]
        /\ \A s \in BatchRequests \ {r} : batchRequest'[s] = batchRequest[s]
    BY <2>1, <2>2, BatchRequestReplaced DEF CheckCreateUserBatch
  <2>4. batchRequest'[r].pc = "insert"
    BY <2>3
  <2>5. \A q : ~WorksOn(r, q)'
    BY <2>4 DEF WorksOn, AtStep
  <2> QED
    BY <1>2, <1>3, <2>3, <2>5, PrefixUntouched DEF PrefixesOK
<1>5. CASE CheckRemoveUserBatch(r, p)
  <2>1. BatchRequestOK([pc |-> "delete_users", prefix |-> p])
    BY DEF BatchRequestOK, Deleting
  <2>2. /\ batchRequest'[r] = [pc |-> "delete_users", prefix |-> p]
        /\ \A s \in BatchRequests \ {r} : batchRequest'[s] = batchRequest[s]
    BY <1>5, <2>1, BatchRequestReplaced DEF CheckRemoveUserBatch
  <2>3. batchRequest'[r].pc = "delete_users" /\ Of(r)' = p
    BY <2>2 DEF Of
  <2>4. \A q : WorksOn(r, q)' <=> q = p
    BY <2>3 DEF WorksOn, AtStep
  <2>5. ASSUME p \notin clashed'
        PROVE  (\A s \in BatchRequests : ~WorksOn(s, p)) /\ InProgress(r)'
    <3>1. p \notin clashed /\ \A s \in BatchRequests : ~WorksOn(s, p)
      BY <1>5, <2>5 DEF CheckRemoveUserBatch
    <3>2. Settled(p) /\ p \in Stored
      BY <1>5, <3>1 DEF PrefixesOK, PrefixOK, CheckRemoveUserBatch
    <3>3. Whole(p)
      BY <3>2 DEF Settled, Whole
    <3>4. p \in Stored' /\ Whole(p)'
      BY <1>2, <3>2, <3>3, UntouchedFacts
    <3>5. InProgress(r)'
      BY <2>3, <3>4 DEF InProgress, AtStep, Creating
    <3> QED
      BY <3>1, <3>5
  <2> QED
    BY <1>2, <1>3, <2>2, <2>4, <2>5, PrefixStep
<1> QED
  BY <1>4, <1>5

\* The row of a new batch.
LEMMA InsertBatchStep ==
  ASSUME BatchTables, PrefixesOK, NEW r \in BatchRequests, InsertBatch(r)
  PROVE  PrefixesOK'
<1>1. PICK p \in Prefixes : Of(r) = p
  BY BatchRequestFacts DEF InsertBatch, AtStep, NoRequest
<1>2. /\ batchRequest[r].pc = "insert" /\ batchRequest[r].size \in Sizes
      /\ UNCHANGED <<localUsers, remoteUsers, interrupted, orphaned, rowless, clashed>>
  BY BatchRequestFacts DEF InsertBatch, AtStep, accidents
<1>3. \A q : ~WorksOn(r, q)
  BY <1>2 DEF WorksOn, AtStep
<1>4. CASE p \in Stored
  <2>1. Done(r) /\ UNCHANGED batches
    BY <1>1, <1>4 DEF InsertBatch
  <2>2. \A q \in Prefixes : Untouched(q)
    BY <1>2, <2>1 DEF Untouched
  <2> QED
    BY <1>3, <2>1, <2>2, EndedRequest, PrefixUntouched DEF PrefixesOK
<1>5. CASE p \notin Stored
  <2>1. Proceed(r, "create_users") /\ batches' = [batches EXCEPT ![p] = batchRequest[r].size]
    BY <1>1, <1>5 DEF InsertBatch
  <2>2. batches'[p] = batchRequest[r].size /\ \A q \in Prefixes \ {p} : batches'[q] = batches[q]
    BY <2>1 DEF BatchTables
  <2>3. \A q \in Prefixes \ {p} : Untouched(q)
    BY <1>2, <2>2 DEF Untouched
  <2>4. /\ batchRequest'[r].pc = "create_users" /\ Of(r)' = p
        /\ batchRequest'[r].size = batchRequest[r].size
        /\ \A s \in BatchRequests \ {r} : batchRequest'[s] = batchRequest[s]
    BY <1>1, <1>2, <2>1, BatchRequestGoesOn DEF Creating, AtStep
  <2>5. \A q : WorksOn(r, q)' <=> q = p
    BY <2>4 DEF WorksOn, AtStep
  <2>6. p \in Stored' /\ batchRequest[r].size # NoBatch
    BY <1>2, <2>2, BatchesAssumption DEF Stored
  <2>7. ASSUME p \notin clashed'
        PROVE  (\A s \in BatchRequests : ~WorksOn(s, p)) /\ InProgress(r)'
    <3>1. p \notin clashed
      BY <1>2, <2>7
    <3>2. ASSUME NEW s \in BatchRequests, WorksOn(s, p) PROVE FALSE
      <4>1. InProgress(s) /\ Of(s) = p
        BY <3>1, <3>2 DEF PrefixesOK, PrefixOK, WorksOn
      <4> QED
        BY <1>5, <4>1 DEF InProgress
    <3>3. Settled(p)
      BY <3>1, <3>2 DEF PrefixesOK, PrefixOK
    <3>4. /\ p \notin interrupted'
          /\ localUsers'[p] > 0 => p \in rowless'
          /\ p \in remoteUsers' => p \in orphaned' \union rowless'
      BY <1>2, <1>5, <3>3 DEF Settled
    <3>5. InProgress(r)'
      BY <2>2, <2>4, <2>6, <3>4 DEF InProgress, AtStep
    <3> QED
      BY <3>2, <3>5
  <2> QED
    BY <1>3, <2>3, <2>4, <2>5, <2>7, PrefixStep
<1> QED
  BY <1>4, <1>5

\* The users in the login module, whatever the answer.
LEMMA CreateRemoteUsersStep ==
  ASSUME BatchTables, PrefixesOK, NEW r \in BatchRequests, CreateRemoteUsers(r)
  PROVE  PrefixesOK'
<1>1. PICK p \in Prefixes : Of(r) = p
  BY BatchRequestFacts DEF CreateRemoteUsers, AtStep, NoRequest
<1>2. /\ batchRequest[r].pc = "create_users" /\ UNCHANGED <<batches, localUsers, clashed>>
      /\ p \in Stored' <=> p \in Stored
  BY DEF CreateRemoteUsers, AtStep, races, Stored
<1>3. Elsewhere(p)
  BY <1>1, <1>2 DEF CreateRemoteUsers, accidents, Elsewhere, Untouched
<1>4. ASSUME NEW pc \in Creating, Proceed(r, pc)
      PROVE  /\ batchRequest'[r].pc = pc /\ Of(r)' = p
             /\ batchRequest'[r].size = batchRequest[r].size
  BY <1>1, <1>2, <1>4, BatchRequestGoesOn DEF Creating, AtStep
<1>5. CASE remoteUsers' = remoteUsers \union {p} /\ Proceed(r, "create_local") /\ UNCHANGED accidents
  <2>1. /\ batchRequest'[r].pc = "create_local" /\ Of(r)' = p
        /\ batchRequest'[r].size = batchRequest[r].size
    BY <1>4, <1>5 DEF Creating
  <2>2. InProgress(r) => InProgress(r)'
    BY <1>1, <1>2, <1>5, <2>1 DEF InProgress, AtStep, Creating, accidents
  <2> QED
    BY <1>1, <1>2, <1>3, <1>5, <2>2, WorkStep DEF Creating, GoesOn
<1>6. CASE /\ Proceed(r, "undo") /\ UNCHANGED <<interrupted, rowless>>
           /\ \/ remoteUsers' = remoteUsers \union {p} /\ orphaned' = orphaned \union {p}
              \/ UNCHANGED <<remoteUsers, orphaned>>
  <2>1. /\ batchRequest'[r].pc = "undo" /\ Of(r)' = p
        /\ batchRequest'[r].size = batchRequest[r].size
    BY <1>4, <1>6 DEF Creating
  <2>2. InProgress(r) => InProgress(r)'
    BY <1>1, <1>2, <1>6, <2>1 DEF InProgress, AtStep, Creating
  <2> QED
    BY <1>1, <1>2, <1>3, <1>6, <2>2, WorkStep DEF Creating, GoesOn
<1>7. CASE /\ remoteUsers' = remoteUsers \union {p} /\ Done(r)
           /\ interrupted' = interrupted \union {p} /\ UNCHANGED <<orphaned, rowless>>
  <2>1. InProgress(r) => Settled(p)'
    BY <1>1, <1>2, <1>7 DEF InProgress, Settled
  <2> QED
    BY <1>1, <1>2, <1>3, <1>7, <2>1, WorkStep DEF Creating, GoesOn
<1> QED
  BY <1>1, <1>5, <1>6, <1>7, Zenon DEF CreateRemoteUsers, accidents

\* The users here, with an error before or after the COMMIT, or none.
LEMMA CreateLocalUsersStep ==
  ASSUME BatchTables, PrefixesOK, NEW r \in BatchRequests, CreateLocalUsers(r)
  PROVE  PrefixesOK'
<1>1. PICK p \in Prefixes : Of(r) = p
  BY BatchRequestFacts DEF CreateLocalUsers, AtStep, NoRequest
<1>2. /\ batchRequest[r].pc = "create_local" /\ UNCHANGED <<batches, remoteUsers, interrupted, clashed>>
      /\ p \in Stored' <=> p \in Stored
  BY DEF CreateLocalUsers, AtStep, races, Stored
<1>3. batchRequest[r].size \in Nat /\ localUsers[p] \in Nat
  BY <1>2, BatchRequestFacts, BatchesAssumption DEF Creating, BatchTables
<1>4. CASE /\ localUsers' = [localUsers EXCEPT ![p] = @ + batchRequest[r].size] /\ UNCHANGED orphaned
           /\ \/ Done(r) /\ UNCHANGED rowless
              \/ Proceed(r, "undo") /\ rowless' = rowless \union {p}
  <2>1. /\ localUsers'[p] = localUsers[p] + batchRequest[r].size
        /\ \A q \in Prefixes \ {p} : localUsers'[q] = localUsers[q]
    BY <1>4 DEF BatchTables
  <2>2. CASE Done(r) /\ UNCHANGED rowless
    <3>1. Elsewhere(p)
      BY <1>2, <1>4, <2>1, <2>2 DEF Elsewhere, Untouched
    <3>2. ASSUME InProgress(r) PROVE Settled(p)'
      <4>1. /\ p \in Stored /\ batches[p] = batchRequest[r].size /\ p \in remoteUsers
            /\ localUsers[p] > 0 => p \in rowless
        BY <1>1, <1>2, <3>2 DEF InProgress, AtStep, Creating
      <4>2. p \notin rowless => localUsers'[p] = batches'[p]
        BY <1>2, <1>3, <2>1, <4>1
      <4> QED
        BY <1>2, <2>2, <4>1, <4>2 DEF Settled
    <3> QED
      BY <1>1, <1>2, <2>2, <3>1, <3>2, WorkStep DEF Creating, GoesOn
  <2>3. CASE Proceed(r, "undo") /\ rowless' = rowless \union {p}
    <3>1. Elsewhere(p)
      BY <1>2, <1>4, <2>1, <2>3 DEF Elsewhere, Untouched
    <3>2. /\ batchRequest'[r].pc = "undo" /\ Of(r)' = p
          /\ batchRequest'[r].size = batchRequest[r].size
      BY <1>1, <1>2, <2>3, BatchRequestGoesOn DEF Creating, AtStep
    <3>3. InProgress(r) => InProgress(r)'
      BY <1>1, <1>2, <2>3, <3>2 DEF InProgress, AtStep, Creating
    <3> QED
      BY <1>1, <1>2, <2>3, <3>1, <3>3, WorkStep DEF Creating, GoesOn
  <2> QED
    BY <1>4, <2>2, <2>3
<1>5. CASE orphaned' = orphaned \union {p} /\ Proceed(r, "undo") /\ UNCHANGED <<localUsers, rowless>>
  <2>1. Elsewhere(p)
    BY <1>2, <1>5 DEF Elsewhere, Untouched
  <2>2. /\ batchRequest'[r].pc = "undo" /\ Of(r)' = p
        /\ batchRequest'[r].size = batchRequest[r].size
    BY <1>1, <1>2, <1>5, BatchRequestGoesOn DEF Creating, AtStep
  <2>3. InProgress(r) => InProgress(r)'
    BY <1>1, <1>2, <1>5, <2>2 DEF InProgress, AtStep, Creating
  <2> QED
    BY <1>1, <1>2, <1>5, <2>1, <2>3, WorkStep DEF Creating, GoesOn
<1> QED
  BY <1>1, <1>4, <1>5, Zenon DEF CreateLocalUsers

\* The row is deleted: by the compensation, or when the users are.
LEMMA DeleteRowStep ==
  ASSUME BatchTables, PrefixesOK, NEW r \in BatchRequests, UndoBatch(r) \/ DeleteBatchRow(r)
  PROVE  PrefixesOK'
<1>1. PICK p \in Prefixes : Of(r) = p
  BY BatchRequestFacts DEF UndoBatch, DeleteBatchRow, AtStep, NoRequest
<1>2. /\ batches' = [batches EXCEPT ![p] = NoBatch] /\ Done(r)
      /\ UNCHANGED <<remoteUsers, localUsers, orphaned, clashed>>
      /\ \/ batchRequest[r].pc = "undo" /\ UNCHANGED <<interrupted, rowless>>
         \/ /\ batchRequest[r].pc = "delete_row"
            /\ interrupted' = interrupted \ {p} /\ rowless' = rowless \ {p}
  BY <1>1 DEF UndoBatch, DeleteBatchRow, AtStep, accidents, races
<1>3. batches'[p] = NoBatch /\ \A q \in Prefixes \ {p} : batches'[q] = batches[q]
  BY <1>2 DEF BatchTables
<1>4. Elsewhere(p)
  BY <1>2, <1>3 DEF Elsewhere, Untouched
<1>5. p \notin Stored'
  BY <1>3 DEF Stored
<1>6. ASSUME InProgress(r), batchRequest[r].pc = "undo" PROVE Settled(p)'
  <2>1. /\ p \notin interrupted /\ (localUsers[p] > 0 => p \in rowless)
        /\ p \in remoteUsers => p \in orphaned \union rowless
    BY <1>1, <1>6 DEF InProgress, Creating
  <2>2. UNCHANGED <<interrupted, rowless>>
    BY <1>2, <1>6
  <2> QED
    BY <1>2, <1>5, <2>1, <2>2 DEF Settled
<1>7. ASSUME InProgress(r), batchRequest[r].pc = "delete_row" PROVE Settled(p)'
  <2>1. localUsers[p] = 0 /\ p \notin remoteUsers
    BY <1>1, <1>7 DEF InProgress, AtStep
  <2>2. p \notin interrupted'
    BY <1>2, <1>7
  <2> QED
    BY <1>2, <1>5, <2>1, <2>2 DEF Settled
<1>8. InProgress(r) => Settled(p)'
  BY <1>2, <1>6, <1>7
<1> QED
  BY <1>1, <1>2, <1>4, <1>8, WorkStep DEF Creating, Deleting, GoesOn

\* The users of the login module are deleted, or not, whatever the answer.
LEMMA DeleteRemoteUsersStep ==
  ASSUME BatchTables, PrefixesOK, NEW r \in BatchRequests, DeleteRemoteUsers(r)
  PROVE  PrefixesOK'
<1>1. PICK p \in Prefixes : Of(r) = p
  BY BatchRequestFacts DEF DeleteRemoteUsers, AtStep, NoRequest
<1>2. /\ batchRequest[r].pc = "delete_users" /\ UNCHANGED <<batches, localUsers, rowless, clashed>>
      /\ p \in Stored' <=> p \in Stored
  BY DEF DeleteRemoteUsers, AtStep, races, Stored
<1>3. Elsewhere(p)
  BY <1>1, <1>2 DEF DeleteRemoteUsers, Elsewhere, Untouched
<1>4. CASE /\ remoteUsers' = remoteUsers \ {p} /\ UNCHANGED interrupted
           /\ Proceed(r, "delete_local")
  <2>1. batchRequest'[r].pc = "delete_local" /\ Of(r)' = p
    BY <1>1, <1>2, <1>4, BatchRequestGoesOn DEF Deleting, AtStep
  <2>2. InProgress(r) => InProgress(r)'
    BY <1>1, <1>2, <1>4, <2>1 DEF InProgress, AtStep, Creating
  <2> QED
    BY <1>1, <1>2, <1>3, <1>4, <2>2, WorkStep DEF Deleting, GoesOn
<1>5. CASE Done(r) /\ interrupted' = interrupted \union {p}
  <2>1. InProgress(r) => Settled(p)'
    BY <1>1, <1>2, <1>5 DEF InProgress, Settled
  <2> QED
    BY <1>1, <1>2, <1>3, <1>5, <2>1, WorkStep DEF Deleting, GoesOn
<1>6. CASE Done(r) /\ UNCHANGED <<remoteUsers, orphaned, interrupted>>
  <2>1. InProgress(r) => Settled(p)'
    BY <1>1, <1>2, <1>6 DEF InProgress, Settled, Whole, AtStep
  <2> QED
    BY <1>1, <1>2, <1>3, <1>6, <2>1, WorkStep DEF Deleting, GoesOn
<1> QED
  BY <1>1, <1>4, <1>5, <1>6, Zenon DEF DeleteRemoteUsers

\* The users here are deleted, all or some.
LEMMA DeleteLocalUsersStep ==
  ASSUME BatchTables, PrefixesOK, NEW r \in BatchRequests, DeleteLocalUsers(r)
  PROVE  PrefixesOK'
<1>1. PICK p \in Prefixes : Of(r) = p
  BY BatchRequestFacts DEF DeleteLocalUsers, AtStep, NoRequest
<1>2. /\ batchRequest[r].pc = "delete_local"
      /\ UNCHANGED <<batches, remoteUsers, orphaned, rowless, clashed>>
      /\ p \in Stored' <=> p \in Stored
  BY DEF DeleteLocalUsers, AtStep, races, Stored
<1>3. /\ \E left : localUsers' = [localUsers EXCEPT ![p] = left]
      /\ interrupted \subseteq interrupted' /\ interrupted' \subseteq interrupted \union {p}
  BY <1>1 DEF DeleteLocalUsers
<1>4. \A q \in Prefixes \ {p} : localUsers'[q] = localUsers[q]
  BY <1>3 DEF BatchTables
<1>5. Elsewhere(p)
  BY <1>2, <1>3, <1>4 DEF Elsewhere, Untouched
<1>6. CASE /\ localUsers' = [localUsers EXCEPT ![p] = 0] /\ UNCHANGED interrupted
           /\ Proceed(r, "delete_row")
  <2>1. batchRequest'[r].pc = "delete_row" /\ Of(r)' = p
    BY <1>1, <1>2, <1>6, BatchRequestGoesOn DEF Deleting, AtStep
  <2>2. localUsers'[p] = 0
    BY <1>6 DEF BatchTables
  <2>3. InProgress(r) => InProgress(r)'
    BY <1>1, <1>2, <1>6, <2>1, <2>2 DEF InProgress, AtStep, Creating
  <2> QED
    BY <1>1, <1>2, <1>5, <1>6, <2>3, WorkStep DEF Deleting, GoesOn
<1>7. CASE Done(r) /\ interrupted' = interrupted \union {p}
  <2>1. InProgress(r) => Settled(p)'
    BY <1>1, <1>2, <1>7 DEF InProgress, Settled
  <2> QED
    BY <1>1, <1>2, <1>5, <1>7, <2>1, WorkStep DEF Deleting, GoesOn
<1> QED
  BY <1>1, <1>6, <1>7, Zenon DEF DeleteLocalUsers

\* A request that dies leaves its prefix as it is.
LEMMA RequestDiesStep ==
  ASSUME BatchTables, PrefixesOK, NEW r \in BatchRequests, BatchRequestDies(r)
  PROVE  PrefixesOK'
<1>1. PICK p \in Prefixes : Of(r) = p
  BY BatchRequestFacts DEF BatchRequestDies
<1>2. /\ Done(r) /\ UNCHANGED <<batches, localUsers, remoteUsers, orphaned, rowless, clashed>>
      /\ batchRequest[r].pc \in {"insert"} \union Creating \union Deleting
      /\ p \in Stored' <=> p \in Stored
  BY BatchRequestFacts DEF BatchRequestDies, tables, races, Stored
<1>3. CASE batchRequest[r].pc = "insert"
  <2>1. UNCHANGED interrupted /\ \A q : ~WorksOn(r, q)
    BY <1>3 DEF BatchRequestDies, AtStep, WorksOn
  <2>2. \A q \in Prefixes : Untouched(q)
    BY <1>2, <2>1 DEF Untouched
  <2> QED
    BY <1>2, <2>1, <2>2, EndedRequest, PrefixUntouched DEF PrefixesOK
<1>4. CASE batchRequest[r].pc \in Creating \union Deleting
  <2>1. interrupted' = interrupted \union {p}
    BY <1>1, <1>4 DEF BatchRequestDies, AtStep, Creating, Deleting
  <2>2. Elsewhere(p)
    BY <1>2, <2>1 DEF Elsewhere, Untouched
  <2>3. InProgress(r) => Settled(p)'
    BY <1>1, <1>2, <2>1 DEF InProgress, Settled
  <2> QED
    BY <1>1, <1>2, <1>4, <2>2, <2>3, WorkStep
<1> QED
  BY <1>2, <1>3, <1>4

\* Every step keeps the three places in step, prefix by prefix.
LEMMA PrefixesStep == BatchTables /\ PrefixesOK /\ [BatchesNext]_batchVars => PrefixesOK'
<1> SUFFICES ASSUME BatchTables, PrefixesOK, [BatchesNext]_batchVars PROVE PrefixesOK'
  OBVIOUS
<1>1. CASE UNCHANGED batchVars
  <2>1. /\ UNCHANGED <<batches, localUsers, remoteUsers, interrupted, orphaned, rowless, clashed>>
        /\ UNCHANGED batchRequest
    BY <1>1 DEF batchVars, tables, accidents, races
  <2>2. \A q \in Prefixes : Untouched(q)
    BY <2>1 DEF Untouched
  <2> QED
    BY <2>1, <2>2, PrefixUntouched DEF PrefixesOK
<1>2. ASSUME NEW r \in BatchRequests, NEW p \in Prefixes, NEW size \in Sizes, CheckCreateUserBatch(r, p, size)
      PROVE  PrefixesOK'
  BY <1>2, RequestStarts
<1>3. ASSUME NEW r \in BatchRequests, NEW p \in Prefixes, CheckRemoveUserBatch(r, p)
      PROVE  PrefixesOK'
  BY <1>3, RequestStarts
<1>4. ASSUME NEW r \in BatchRequests,
             \/ InsertBatch(r) \/ CreateRemoteUsers(r) \/ CreateLocalUsers(r) \/ UndoBatch(r)
             \/ DeleteRemoteUsers(r) \/ DeleteLocalUsers(r) \/ DeleteBatchRow(r) \/ BatchRequestDies(r)
      PROVE  PrefixesOK'
  BY <1>4, InsertBatchStep, CreateRemoteUsersStep, CreateLocalUsersStep, DeleteRowStep,
     DeleteRemoteUsersStep, DeleteLocalUsersStep, RequestDiesStep, Zenon
<1> QED
  BY <1>1, <1>2, <1>3, <1>4, Zenon DEF BatchesNext

\* A step that inserts no row and lets no request in keeps the room there is.
LEMMA RoomStays ==
  ASSUME BatchTables, PlacesFree, \A q \in Prefixes : batches'[q] \in {batches[q], NoBatch},
         UNCHANGED <<behind, raced>>,
         \A s \in BatchRequests : AtStep(s, "insert")' => batchRequest'[s] = batchRequest[s]
  PROVE  PlacesFree'
<1>1. /\ SumSize' \in Int /\ SumSize \in Int /\ SumSize' <= SumSize
      /\ SizeOf(Stored \ raced)' \in Int /\ SizeOf(Stored \ raced) \in Int
      /\ SizeOf(Stored \ raced)' <= SizeOf(Stored \ raced)
  BY NoRowInserted
<1>2. SizeOf(Stored \ raced)' <= MaxUsers
  <2> DEFINE new == SizeOf(Stored \ raced)'
             old == SizeOf(Stored \ raced)
  <2>1. new \in Int /\ old \in Int /\ new <= old /\ old <= MaxUsers
    BY <1>1 DEF PlacesFree
  <2> HIDE DEF new, old
  <2>2. new <= MaxUsers
    BY <2>1, BatchesAssumption
  <2> QED
    BY <2>2 DEF new
<1>3. ASSUME NEW s \in BatchRequests, AtStep(s, "insert")', s \notin behind'
      PROVE  batchRequest'[s].size + SumSize' <= MaxUsers
  <2>1. batchRequest'[s] = batchRequest[s] /\ AtStep(s, "insert") /\ s \notin behind
    BY <1>3 DEF AtStep
  <2>2. batchRequest[s].size \in Sizes /\ batchRequest[s].size + SumSize <= MaxUsers
    BY <2>1, BatchRequestFacts DEF PlacesFree, AtStep
  <2>3. batchRequest[s].size \in Int
    <3>1. Sizes \subseteq Int
      BY BatchesAssumption
    <3> QED
      BY <2>2, <3>1, Zenon
  <2> DEFINE new == SumSize'
             old == SumSize
             size == batchRequest[s].size
  <2>4. new \in Int /\ old \in Int /\ size \in Int /\ new <= old /\ size + old <= MaxUsers
    BY <1>1, <2>2, <2>3
  <2>5. batchRequest'[s].size = size
    BY <2>1
  <2> HIDE DEF new, old, size
  <2>6. size + new <= MaxUsers
    BY <2>4, BatchesAssumption
  <2> QED
    BY <2>5, <2>6 DEF new
<1> QED
  BY <1>2, <1>3 DEF PlacesFree

\* A request that read the sum has room for its row.
LEMMA CheckCreateStep ==
  ASSUME BatchTables, PlacesFree, NEW r \in BatchRequests, NEW p \in Prefixes, NEW size \in Sizes,
         CheckCreateUserBatch(r, p, size)
  PROVE  PlacesFree'
<1>1. BatchRequestOK([pc |-> "insert", prefix |-> p, size |-> size])
  BY DEF BatchRequestOK
<1>2. /\ batchRequest'[r] = [pc |-> "insert", prefix |-> p, size |-> size]
      /\ \A s \in BatchRequests \ {r} : batchRequest'[s] = batchRequest[s]
  BY <1>1, BatchRequestReplaced DEF CheckCreateUserBatch
<1>3. /\ size + SumSize <= MaxUsers /\ UNCHANGED <<batches, raced>> /\ behind' = behind \ {r}
  BY DEF CheckCreateUserBatch, WithinMaximum, tables
<1>4. SumSize' = SumSize /\ SizeOf(Stored \ raced)' = SizeOf(Stored \ raced)
  <2>1. Stored' = Stored
    BY <1>3 DEF Stored
  <2>2. SumOver(batches', Stored') = SumOver(batches, Stored)
        /\ SumOver(batches', Stored' \ raced') = SumOver(batches, Stored \ raced)
    BY <1>3, <2>1
  <2> QED
    BY <2>2, SizesAreSums, Zenon
<1>5. ASSUME NEW s \in BatchRequests, AtStep(s, "insert")', s \notin behind'
      PROVE  batchRequest'[s].size + SumSize' <= MaxUsers
  <2>1. CASE s = r
    <3>1. batchRequest'[s].size = size
      BY <1>2, <2>1
    <3> QED
      BY <1>3, <1>4, <3>1, Zenon
  <2>2. CASE s # r
    <3>1. batchRequest'[s] = batchRequest[s] /\ AtStep(s, "insert") /\ s \notin behind
      BY <1>2, <1>3, <1>5, <2>2 DEF AtStep
    <3>2. batchRequest[s].size + SumSize <= MaxUsers
      BY <3>1 DEF PlacesFree
    <3> QED
      BY <1>4, <3>1, <3>2, Zenon
  <2> QED
    BY <2>1, <2>2
<1> QED
  BY <1>4, <1>5, Zenon DEF PlacesFree

\* A row within the room that its request read, or one that the sum excepts.
LEMMA InsertRoomStep ==
  ASSUME BatchTables, PlacesFree, NEW r \in BatchRequests, InsertBatch(r)
  PROVE  PlacesFree'
<1>1. PICK p \in Prefixes : Of(r) = p
  BY BatchRequestFacts DEF InsertBatch, AtStep, NoRequest
<1>2. batchRequest[r].pc = "insert" /\ batchRequest[r].size \in Sizes
  BY BatchRequestFacts DEF InsertBatch, AtStep
<1>3. CASE p \in Stored
  <2>1. Done(r) /\ UNCHANGED <<batches, behind, raced>>
    BY <1>1, <1>3 DEF InsertBatch
  <2>2. \A s \in BatchRequests : AtStep(s, "insert")' => batchRequest'[s] = batchRequest[s]
    BY <2>1, EndedRequest DEF AtStep
  <2> QED
    BY <2>1, <2>2, RoomStays
<1>4. CASE p \notin Stored
  <2>1. /\ Proceed(r, "create_users") /\ batches' = [batches EXCEPT ![p] = batchRequest[r].size]
        /\ r \in behind => raced' = raced \union {p}
        /\ behind' = behind \union {s \in BatchRequests \ {r} : AtStep(s, "insert")}
    BY <1>1, <1>4 DEF InsertBatch
  <2>2. /\ AtStep(r, "create_users")'
        /\ \A s \in BatchRequests \ {r} : batchRequest'[s] = batchRequest[s]
    BY <1>2, <2>1, BatchRequestGoesOn DEF Creating
  <2>3. ASSUME NEW s \in BatchRequests, AtStep(s, "insert")' PROVE s \in behind'
    BY <2>1, <2>2, <2>3 DEF AtStep
  <2>4. /\ SumSize \in Int /\ batchRequest[r].size \in Int
        /\ SumSize' = SumSize + batchRequest[r].size
        /\ SizeOf(Stored \ raced)' \in Int /\ SizeOf(Stored \ raced)' <= SumSize'
        /\ raced' = raced \union {p} => SizeOf(Stored \ raced)' = SizeOf(Stored \ raced)
    BY <1>2, <1>4, <2>1, RowInserted
  <2>5. SizeOf(Stored \ raced)' <= MaxUsers
    <3>1. CASE r \in behind
      BY <2>1, <2>4, <3>1, Zenon DEF PlacesFree
    <3>2. CASE r \notin behind
      <4> DEFINE new == SizeOf(Stored \ raced)'
                 sum == SumSize
                 sumNow == SumSize'
                 size == batchRequest[r].size
      <4>1. size + sum <= MaxUsers
        BY <1>2, <3>2 DEF PlacesFree, AtStep
      <4>2. new \in Int /\ sum \in Int /\ size \in Int /\ sumNow = sum + size /\ new <= sumNow
        BY <2>4
      <4> HIDE DEF new, sum, sumNow, size
      <4>3. new <= MaxUsers
        BY <4>1, <4>2, BatchesAssumption
      <4> QED
        BY <4>3 DEF new
    <3> QED
      BY <3>1, <3>2
  <2> QED
    BY <2>3, <2>5 DEF PlacesFree
<1> QED
  BY <1>3, <1>4

\* Every step keeps the batches within max_users.
LEMMA RoomStep == BatchTables /\ PlacesFree /\ [BatchesNext]_batchVars => PlacesFree'
<1> SUFFICES ASSUME BatchTables, PlacesFree, [BatchesNext]_batchVars PROVE PlacesFree'
  OBVIOUS
<1>1. CASE UNCHANGED batchVars
  <2>1. UNCHANGED <<batches, behind, raced, batchRequest>>
    BY <1>1 DEF batchVars, tables, races
  <2> QED
    BY <2>1, RoomStays
<1>2. ASSUME NEW r \in BatchRequests, NEW p \in Prefixes, NEW size \in Sizes, CheckCreateUserBatch(r, p, size)
      PROVE  PlacesFree'
  BY <1>2, CheckCreateStep
<1>3. ASSUME NEW r \in BatchRequests, InsertBatch(r) PROVE PlacesFree'
  BY <1>3, InsertRoomStep
<1>4. ASSUME NEW r \in BatchRequests, NEW p \in Prefixes, CheckRemoveUserBatch(r, p)
      PROVE  PlacesFree'
  <2>1. BatchRequestOK([pc |-> "delete_users", prefix |-> p])
    BY DEF BatchRequestOK, Deleting
  <2>2. /\ batchRequest'[r] = [pc |-> "delete_users", prefix |-> p]
        /\ \A s \in BatchRequests \ {r} : batchRequest'[s] = batchRequest[s]
        /\ UNCHANGED <<batches, behind, raced>>
    BY <1>4, <2>1, BatchRequestReplaced DEF CheckRemoveUserBatch, tables
  <2>3. batchRequest'[r].pc = "delete_users"
    BY <2>2
  <2>4. \A s \in BatchRequests : AtStep(s, "insert")' => batchRequest'[s] = batchRequest[s]
    BY <2>2, <2>3 DEF AtStep
  <2> QED
    BY <2>2, <2>4, RoomStays
<1>5. ASSUME NEW r \in BatchRequests,
             \/ CreateRemoteUsers(r) \/ CreateLocalUsers(r) \/ UndoBatch(r)
             \/ DeleteRemoteUsers(r) \/ DeleteLocalUsers(r) \/ DeleteBatchRow(r) \/ BatchRequestDies(r)
      PROVE  PlacesFree'
  <2>1. /\ UNCHANGED <<behind, raced>>
        /\ UNCHANGED batches \/ batches' = [batches EXCEPT ![Of(r)] = NoBatch]
    BY <1>5, Zenon DEF CreateRemoteUsers, CreateLocalUsers, UndoBatch, DeleteRemoteUsers, DeleteLocalUsers,
                DeleteBatchRow, BatchRequestDies, races, tables
  <2>2. \A q \in Prefixes : batches'[q] \in {batches[q], NoBatch}
    BY <2>1 DEF BatchTables
  <2>3. \/ Done(r)
        \/ batchRequest[r].pc \in Creating /\ \E pc \in Creating : Proceed(r, pc)
        \/ batchRequest[r].pc \in Deleting /\ \E pc \in Deleting : Proceed(r, pc)
    <3>1. CASE UndoBatch(r) \/ DeleteBatchRow(r) \/ BatchRequestDies(r)
      BY <3>1, Zenon DEF UndoBatch, DeleteBatchRow, BatchRequestDies
    <3>2. CASE CreateRemoteUsers(r)
      BY <3>2 DEF CreateRemoteUsers, Creating, AtStep
    <3>3. CASE CreateLocalUsers(r)
      BY <3>3 DEF CreateLocalUsers, Creating, AtStep
    <3>4. CASE DeleteRemoteUsers(r)
      BY <3>4 DEF DeleteRemoteUsers, Deleting, AtStep
    <3>5. CASE DeleteLocalUsers(r)
      BY <3>5 DEF DeleteLocalUsers, Deleting, AtStep
    <3> QED
      BY <1>5, <3>1, <3>2, <3>3, <3>4, <3>5
  <2>4. /\ \A s \in BatchRequests \ {r} : batchRequest'[s] = batchRequest[s]
        /\ ~AtStep(r, "insert")'
    <3>1. CASE Done(r)
      BY <3>1, EndedRequest DEF AtStep
    <3>2. CASE batchRequest[r].pc \in Creating /\ \E pc \in Creating : Proceed(r, pc)
      BY <3>2, BatchRequestGoesOn DEF AtStep, Creating
    <3>3. CASE batchRequest[r].pc \in Deleting /\ \E pc \in Deleting : Proceed(r, pc)
      BY <3>3, BatchRequestGoesOn DEF AtStep, Deleting
    <3> QED
      BY <2>3, <3>1, <3>2, <3>3
  <2> QED
    BY <2>1, <2>2, <2>4, RoomStays
<1> QED
  BY <1>1, <1>2, <1>3, <1>4, <1>5, Zenon DEF BatchesNext

\* There are no batches at the start.
LEMMA BatchesStart == BatchesInit => BatchTables /\ PrefixesOK /\ PlacesFree
<1> SUFFICES ASSUME BatchesInit PROVE BatchTables /\ PrefixesOK /\ PlacesFree
  OBVIOUS
<1>1. /\ batches = [p \in Prefixes |-> NoBatch] /\ remoteUsers = {}
      /\ localUsers = [p \in Prefixes |-> 0] /\ batchRequest = [r \in BatchRequests |-> NoRequest]
      /\ batchCalls = 0 /\ interrupted = {} /\ orphaned = {} /\ rowless = {}
  BY DEF BatchesInit
<1>2. BatchTables
  BY <1>1, BatchesAssumption DEF BatchTables, BatchRequestOK
<1>3. Stored = {}
  BY <1>1 DEF Stored
<1>4. \A r \in BatchRequests : AtStep(r, "idle")
  BY <1>1 DEF AtStep, NoRequest
<1>5. SizeOf(Stored \ raced) = 0
  <2>1. SizeOf(Stored \ raced) = SumOver(batches, {})
    BY <1>3, SizesAreSums
  <2> DEFINE f == CHOOSE f : IsSum(f, batches, {})
  <2>2. IsSum(f, batches, {}) /\ SumOver(batches, {}) = f[{}]
    BY FS_EmptySet, SumExists, SumUnfolds
  <2> HIDE DEF f
  <2>3. f[{}] = 0
    BY <2>2 DEF IsSum
  <2> QED
    BY <2>1, <2>2, <2>3
<1>6. PlacesFree
  BY <1>4, <1>5, BatchesAssumption DEF PlacesFree, AtStep
<1>7. ASSUME NEW p \in Prefixes PROVE PrefixOK(p)
  <2>1. Settled(p)
    BY <1>1, <1>3 DEF Settled
  <2>2. \A r \in BatchRequests : ~WorksOn(r, p)
    BY <1>4 DEF WorksOn
  <2> QED
    BY <2>1, <2>2 DEF PrefixOK
<1> QED
  BY <1>2, <1>6, <1>7 DEF PrefixesOK

\* The types, from what the requests know.
LEMMA BatchesAreTyped ==
  ASSUME BatchTables
  PROVE  BatchesTypeOK
<1>1. \A r \in BatchRequests : batchRequest[r] = NoRequest \/ batchRequest[r].prefix \in Prefixes
  BY BatchRequestFacts DEF Of
<1> QED
  BY <1>1 DEF BatchTables, BatchesTypeOK

\* The rows of user_batches and the users keep their types, with any number of requests in
\* progress at the same time.
THEOREM BatchesTypeCorrect == BatchesSpec => []BatchesTypeOK
<1> QED
  BY BatchesAreTyped, BatchesStart, BatchTablesStep, PTL DEF BatchesSpec

\* createUserBatch and removeUserBatch, any number at a time, with failures before or after an
\* effect and crashes at any step: within max_users but for rows that overtook each other, and
\* the row, the users here and those of the login module in step, but where an accident is on
\* record or a removal overlapped another request on the prefix.
THEOREM BatchesAgree == BatchesSpec => []BatchesMatchUsers
<1>1. ASSUME PrefixesOK, PlacesFree PROVE BatchesMatchUsers
  <2> SUFFICES ASSUME Quiescent
               PROVE  SizeOf(Stored \ raced) <= MaxUsers /\ \A p \in Prefixes \ clashed : Settled(p)
    BY DEF BatchesMatchUsers
  <2>1. \A r \in BatchRequests, p \in Prefixes : ~WorksOn(r, p)
    BY DEF WorksOn, AtStep, Quiescent, NoRequest
  <2>2. \A p \in Prefixes \ clashed : Settled(p)
    BY <1>1, <2>1 DEF PrefixesOK, PrefixOK
  <2> QED
    BY <1>1, <2>2 DEF PlacesFree
<1>2. BatchesInit => BatchTables /\ PrefixesOK /\ PlacesFree
  BY BatchesStart
<1>3. BatchTables /\ PrefixesOK /\ PlacesFree /\ [BatchesNext]_batchVars
        => BatchTables' /\ PrefixesOK' /\ PlacesFree'
  BY BatchTablesStep, PrefixesStep, RoomStep
<1> QED
  BY <1>1, <1>2, <1>3, PTL DEF BatchesSpec

-----------------------------------------------------------------------------
(* Lists read page after page.                                             *)

\* A strict total order on S.
SortsAll(S, before) ==
  /\ \A x \in S : <<x, x>> \notin before
  /\ \A x, y, z \in S : <<x, y>> \in before /\ <<y, z>> \in before => <<x, z>> \in before
  /\ \A x, y \in S : x # y => <<x, y>> \in before \/ <<y, x>> \in before

\* As many elements are before the n-th as there are places before it.
LEMMA SortedFacts ==
  ASSUME NEW S, IsFiniteSet(S), NEW before, SortsAll(S, before)
  PROVE  /\ Cardinality(S) \in Nat
         /\ Sorted(S, before) \in [1..Cardinality(S) -> S]
         /\ \A n, m \in 1..Cardinality(S) : n < m => <<Sorted(S, before)[n], Sorted(S, before)[m]>> \in before
         /\ \A x \in S : \E n \in 1..Cardinality(S) : Sorted(S, before)[n] = x
<1> DEFINE lower(x) == {y \in S : <<y, x>> \in before}
           size == Cardinality(S)
           place == [x \in S |-> Cardinality(lower(x)) + 1]
<1>1. \A x \in S : IsFiniteSet(lower(x)) /\ Cardinality(lower(x)) \in Nat /\ Cardinality(lower(x)) < size
  <2> SUFFICES ASSUME NEW x \in S
               PROVE  IsFiniteSet(lower(x)) /\ Cardinality(lower(x)) \in Nat /\ Cardinality(lower(x)) < size
    OBVIOUS
  <2>1. lower(x) \in SUBSET S /\ lower(x) # S
    BY DEF SortsAll
  <2> HIDE DEF lower
  <2> QED
    BY <2>1, FS_Subset, FS_CardinalityType
<1>2. size \in Nat
  BY FS_CardinalityType
<1>3. \A x, y \in S : <<x, y>> \in before => Cardinality(lower(x)) < Cardinality(lower(y))
  <2> SUFFICES ASSUME NEW x \in S, NEW y \in S, <<x, y>> \in before
               PROVE  Cardinality(lower(x)) < Cardinality(lower(y))
    OBVIOUS
  <2>1. lower(x) \in SUBSET lower(y) /\ x \in lower(y) /\ x \notin lower(x)
    BY DEF SortsAll
  <2>2. IsFiniteSet(lower(y)) /\ Cardinality(lower(x)) \in Nat /\ Cardinality(lower(y)) \in Nat
    BY <1>1
  <2> HIDE DEF lower
  <2>3. Cardinality(lower(x)) <= Cardinality(lower(y)) /\ Cardinality(lower(x)) # Cardinality(lower(y))
    BY <2>1, <2>2, FS_Subset
  <2> QED
    BY <2>2, <2>3
<1>4. place \in Injection(S, 1..size)
  <2>1. \A x \in S : place[x] = Cardinality(lower(x)) + 1 /\ place[x] \in 1..size
    BY <1>1, <1>2
  <2>2. place \in [S -> 1..size]
    BY <2>1
  <2>3. ASSUME NEW x \in S, NEW y \in S, x # y PROVE place[x] # place[y]
    <3>1. <<x, y>> \in before \/ <<y, x>> \in before
      BY <2>3 DEF SortsAll
    <3> HIDE DEF lower, place
    <3> QED
      BY <1>1, <1>3, <2>1, <3>1
  <2> HIDE DEF place
  <2> QED
    BY <2>2, <2>3 DEF Injection, IsInjective
<1>5. \A n \in 1..size : \E x \in S : Cardinality(lower(x)) = n - 1
  <2>1. IsFiniteSet(1..size) /\ Cardinality(1..size) = size
    BY <1>2, FS_Interval
  <2>2. place \in Surjection(S, 1..size)
    <3> DEFINE T == 1..size
    <3>1. IsFiniteSet(T) /\ Cardinality(T) = Cardinality(S) /\ place \in Injection(S, T)
      BY <1>4, <2>1
    <3> HIDE DEF T, place
    <3>2. place \in Surjection(S, T)
      BY <3>1, FS_Injection
    <3> QED
      BY <3>2 DEF T
  <2>3. ASSUME NEW n \in 1..size PROVE \E x \in S : Cardinality(lower(x)) = n - 1
    <3>1. PICK x \in S : place[x] = n
      BY <2>2 DEF Surjection
    <3>2. Cardinality(lower(x)) = n - 1
      <4>1. place[x] = Cardinality(lower(x)) + 1
        OBVIOUS
      <4> HIDE DEF place, lower
      <4> QED
        BY <1>1, <3>1, <4>1
    <3> QED
      BY <3>2
  <2> QED
    BY <2>3
<1>6. \A n \in 1..size : Sorted(S, before)[n] \in S /\ Cardinality(lower(Sorted(S, before)[n])) = n - 1
  BY <1>5 DEF Sorted
<1>7. Sorted(S, before) \in [1..size -> S]
  <2>1. \A n \in 1..size : (CHOOSE x \in S : Cardinality({y \in S : <<y, x>> \in before}) = n - 1) \in S
    BY <1>5
  <2> QED
    BY <2>1, Zenon DEF Sorted
<1> DEFINE s == Sorted(S, before)
<1>8. \A n, m \in 1..size : n < m => <<s[n], s[m]>> \in before
  <2> SUFFICES ASSUME NEW n \in 1..size, NEW m \in 1..size, n < m PROVE <<s[n], s[m]>> \in before
    OBVIOUS
  <2>1. s[n] \in S /\ s[m] \in S /\ Cardinality(lower(s[n])) = n - 1 /\ Cardinality(lower(s[m])) = m - 1
    BY <1>6
  <2> HIDE DEF s, lower
  <2>2. s[n] # s[m] /\ <<s[m], s[n]>> \notin before
    BY <1>2, <1>3, <2>1
  <2> QED
    BY <2>1, <2>2 DEF SortsAll
<1>9. \A x \in S : \E n \in 1..size : s[n] = x
  <2> SUFFICES ASSUME NEW x \in S PROVE \E n \in 1..size : s[n] = x
    OBVIOUS
  <2>15. PICK c \in Nat : c = Cardinality(lower(x)) /\ c < size
    BY <1>1
  <2> DEFINE n == c + 1
  <2>1. n \in 1..size /\ n - 1 = Cardinality(lower(x))
    BY <1>2, <2>15
  <2>2. s[n] \in S /\ Cardinality(lower(s[n])) = n - 1
    BY <1>6, <2>1
  <2>3. s[n] = x
    <3>1. \A y \in S : <<x, y>> \in before \/ <<y, x>> \in before => Cardinality(lower(x)) # Cardinality(lower(y))
      <4> HIDE DEF lower
      <4> QED
        BY <1>1, <1>3
    <3>2. Cardinality(lower(x)) = Cardinality(lower(s[n]))
      BY <2>1, <2>2
    <3> HIDE DEF lower, s, n
    <3> QED
      BY <2>2, <3>1, <3>2 DEF SortsAll
  <2> QED
    BY <2>1, <2>3
<1> QED
  BY <1>2, <1>7, <1>8, <1>9

\* A rule places the rows: numbers and NULL, the latter only where it says first or last.
Fits(rs, listed) ==
  /\ DOMAIN rs \in SUBSET Nat
  /\ \A n \in DOMAIN rs : /\ n >= 1 /\ \A m \in 1..(n - 1) : m \in DOMAIN rs
                          /\ rs[n].nulls \in {"none", "first", "last"}
                          /\ \A r \in listed : /\ r[rs[n].field] \in Int \union {SqlNull}
                                               /\ rs[n].nulls = "none" => r[rs[n].field] # SqlNull

\* One rule: a strict order of the values, which the condition of a page follows.
LEMMA OneRule ==
  ASSUME NEW rule, rule.nulls \in {"none", "first", "last"}, NEW r, NEW s, NEW t,
         \A x \in {r, s, t} : /\ x[rule.field] \in Int \union {SqlNull}
                              /\ rule.nulls = "none" => x[rule.field] # SqlNull
  PROVE  /\ asSQL(rule, r, s) => r[rule.field] # s[rule.field]
         /\ asSQL(rule, r, s) /\ asSQL(rule, s, t) => asSQL(rule, r, t)
         /\ r[rule.field] # s[rule.field] => asSQL(rule, r, s) \/ asSQL(rule, s, r)
         /\ PagingCondition(rule, s, r) <=> asSQL(rule, r, s)
<1> DEFINE a == r[rule.field]
           b == s[rule.field]
           c == t[rule.field]
<1>1. a \in Int \union {SqlNull} /\ b \in Int \union {SqlNull} /\ c \in Int \union {SqlNull} /\ SqlNull \notin Int
      /\ (rule.nulls = "none" => a # SqlNull /\ b # SqlNull /\ c # SqlNull)
  BY PagingAssumption
<1>2. /\ asSQL(rule, r, s) <=> \/ rule.nulls = "first" /\ a = SqlNull /\ b # SqlNull
                               \/ rule.nulls = "last" /\ a # SqlNull /\ b = SqlNull
                               \/ a # SqlNull /\ b # SqlNull /\ IF rule.desc THEN a > b ELSE a < b
      /\ asSQL(rule, s, r) <=> \/ rule.nulls = "first" /\ b = SqlNull /\ a # SqlNull
                               \/ rule.nulls = "last" /\ b # SqlNull /\ a = SqlNull
                               \/ a # SqlNull /\ b # SqlNull /\ IF rule.desc THEN b > a ELSE b < a
      /\ asSQL(rule, s, t) <=> \/ rule.nulls = "first" /\ b = SqlNull /\ c # SqlNull
                               \/ rule.nulls = "last" /\ b # SqlNull /\ c = SqlNull
                               \/ b # SqlNull /\ c # SqlNull /\ IF rule.desc THEN b > c ELSE b < c
      /\ asSQL(rule, r, t) <=> \/ rule.nulls = "first" /\ a = SqlNull /\ c # SqlNull
                               \/ rule.nulls = "last" /\ a # SqlNull /\ c = SqlNull
                               \/ a # SqlNull /\ c # SqlNull /\ IF rule.desc THEN a > c ELSE a < c
  BY DEF asSQL
<1>3. ConditionSign(rule, s, r) <=> b # SqlNull /\ a # SqlNull /\ IF rule.desc THEN b < a ELSE b > a
  BY Zenon DEF ConditionSign
<1>4. /\ rule.nulls = "first" => (PagingCondition(rule, s, r) <=> IF a = SqlNull THEN b # SqlNull ELSE ConditionSign(rule, s, r))
      /\ rule.nulls = "last" => (PagingCondition(rule, s, r) <=> a # SqlNull /\ (b = SqlNull \/ ConditionSign(rule, s, r)))
      /\ rule.nulls = "none" => (PagingCondition(rule, s, r) <=> ConditionSign(rule, s, r))
  BY DEF PagingCondition
<1> HIDE DEF a, b, c
<1>5. /\ asSQL(rule, r, s) => a # b
      /\ asSQL(rule, r, s) /\ asSQL(rule, s, t) => asSQL(rule, r, t)
      /\ a # b => asSQL(rule, r, s) \/ asSQL(rule, s, r)
  BY <1>1, <1>2
<1>6. PagingCondition(rule, s, r) <=> asSQL(rule, r, s)
  BY <1>1, <1>2, <1>3, <1>4
<1> QED
  BY <1>5, <1>6 DEF a, b

\* Rows in the order of a list: the first rule that tells them apart decides.  The rows
\* that the conditions of a page let through are those after the from row.
LEMMA OrderIsStrict ==
  ASSUME NEW rs, NEW listed, Fits(rs, listed), NEW r \in listed, NEW s \in listed, NEW t \in listed
  PROVE  /\ ~OrderBy(rs, r, r)
         /\ OrderBy(rs, r, s) /\ OrderBy(rs, s, t) => OrderBy(rs, r, t)
         /\ constructPagingConditions(rs, s, r) <=> OrderBy(rs, r, s)
<1>1. /\ DOMAIN rs \in SUBSET Nat /\ \A n \in DOMAIN rs : n >= 1 /\ \A m \in 1..(n - 1) : m \in DOMAIN rs
      /\ \A n \in DOMAIN rs : rs[n].nulls \in {"none", "first", "last"}
      /\ \A n \in DOMAIN rs : \A x \in listed : /\ x[rs[n].field] \in Int \union {SqlNull}
                                                /\ rs[n].nulls = "none" => x[rs[n].field] # SqlNull
  BY DEF Fits
<1>2. \A n \in DOMAIN rs : /\ ~asSQL(rs[n], r, r)
                           /\ asSQL(rs[n], r, s) /\ asSQL(rs[n], s, t) => asSQL(rs[n], r, t)
                           /\ PagingCondition(rs[n], s, r) <=> asSQL(rs[n], r, s)
  <2> SUFFICES ASSUME NEW n \in DOMAIN rs
               PROVE  /\ ~asSQL(rs[n], r, r)
                      /\ asSQL(rs[n], r, s) /\ asSQL(rs[n], s, t) => asSQL(rs[n], r, t)
                      /\ PagingCondition(rs[n], s, r) <=> asSQL(rs[n], r, s)
    OBVIOUS
  <2> DEFINE rule == rs[n]
  <2>1. rule.nulls \in {"none", "first", "last"}
    BY <1>1
  <2>2. \A x \in listed : x[rule.field] \in Int \union {SqlNull} /\ (rule.nulls = "none" => x[rule.field] # SqlNull)
    BY <1>1
  <2> HIDE DEF rule
  <2>3. /\ asSQL(rule, r, s) /\ asSQL(rule, s, t) => asSQL(rule, r, t)
        /\ PagingCondition(rule, s, r) <=> asSQL(rule, r, s)
    BY <2>1, <2>2, OneRule
  <2>4. asSQL(rule, r, r) => r[rule.field] # r[rule.field]
    BY <2>1, <2>2, OneRule
  <2> QED
    BY <2>3, <2>4 DEF rule
<1>3. ~OrderBy(rs, r, r)
  BY <1>2 DEF OrderBy
<1>4. constructPagingConditions(rs, s, r) <=> OrderBy(rs, r, s)
  BY <1>2, Zenon DEF constructPagingConditions, OrderBy
<1>5. ASSUME OrderBy(rs, r, s), OrderBy(rs, s, t) PROVE OrderBy(rs, r, t)
  <2>1. PICK n \in DOMAIN rs : asSQL(rs[n], r, s) /\ \A k \in 1..(n - 1) : r[rs[k].field] = s[rs[k].field]
    BY <1>5 DEF OrderBy
  <2>2. PICK m \in DOMAIN rs : asSQL(rs[m], s, t) /\ \A k \in 1..(m - 1) : s[rs[k].field] = t[rs[k].field]
    BY <1>5 DEF OrderBy
  <2>3. n \in Nat /\ m \in Nat /\ n >= 1 /\ m >= 1
    BY <1>1
  <2>4. CASE n = m
    <3>1. asSQL(rs[n], r, t) /\ \A k \in 1..(n - 1) : r[rs[k].field] = t[rs[k].field]
      BY <1>2, <2>1, <2>2, <2>4
    <3> QED
      BY <3>1 DEF OrderBy
  <2>5. CASE n < m
    <3>1. n \in 1..(m - 1) /\ \A k \in 1..(n - 1) : k \in 1..(m - 1)
      BY <2>3, <2>5
    <3>2. s[rs[n].field] = t[rs[n].field] /\ \A k \in 1..(n - 1) : r[rs[k].field] = t[rs[k].field]
      BY <2>1, <2>2, <3>1
    <3>3. asSQL(rs[n], r, t)
      BY <2>1, <3>2, Zenon DEF asSQL
    <3> QED
      BY <3>2, <3>3 DEF OrderBy
  <2>6. CASE m < n
    <3>1. m \in 1..(n - 1) /\ \A k \in 1..(m - 1) : k \in 1..(n - 1)
      BY <2>3, <2>6
    <3>2. s[rs[m].field] = r[rs[m].field] /\ \A k \in 1..(m - 1) : r[rs[k].field] = t[rs[k].field]
      BY <2>1, <2>2, <3>1
    <3>3. asSQL(rs[m], r, t)
      BY <2>2, <3>2, Zenon DEF asSQL
    <3> QED
      BY <3>2, <3>3 DEF OrderBy
  <2> QED
    BY <2>3, <2>4, <2>5, <2>6
<1> QED
  BY <1>3, <1>4, <1>5

\* Rows that a rule tells apart are in one order or the other.
LEMMA OrderIsTotal ==
  ASSUME NEW rs, NEW listed, Fits(rs, listed), NEW r \in listed, NEW s \in listed,
         NEW k \in DOMAIN rs, r[rs[k].field] # s[rs[k].field]
  PROVE  OrderBy(rs, r, s) \/ OrderBy(rs, s, r)
<1> DEFINE Apart == {n \in DOMAIN rs : r[rs[n].field] # s[rs[n].field]}
           n == Min(Apart)
<1>1. Apart \in SUBSET Nat /\ Apart # {}
  BY DEF Fits
<1>2. n \in Apart /\ \A m \in Apart : n <= m
  <2> HIDE DEF Apart
  <2> QED
    BY <1>1, LeastNatural
<1> HIDE DEF n
<1>3. n \in DOMAIN rs /\ n \in Nat /\ r[rs[n].field] # s[rs[n].field]
  BY <1>1, <1>2
<1>4. \A m \in 1..(n - 1) : r[rs[m].field] = s[rs[m].field]
  <2>1. \A m \in 1..(n - 1) : m \in DOMAIN rs /\ ~(n <= m)
    BY <1>3 DEF Fits
  <2> QED
    BY <1>2, <2>1
<1>5. asSQL(rs[n], r, s) \/ asSQL(rs[n], s, r)
  <2> DEFINE rule == rs[n]
  <2>1. rule.nulls \in {"none", "first", "last"}
    BY <1>3 DEF Fits
  <2>2. \A x \in listed : x[rule.field] \in Int \union {SqlNull} /\ (rule.nulls = "none" => x[rule.field] # SqlNull)
    BY <1>3 DEF Fits
  <2>3. r[rule.field] # s[rule.field]
    BY <1>3
  <2> HIDE DEF rule
  <2>4. asSQL(rule, r, s) \/ asSQL(rule, s, r)
    BY <2>1, <2>2, <2>3, OneRule
  <2> QED
    BY <2>4 DEF rule
<1> QED
  BY <1>3, <1>4, <1>5 DEF OrderBy

\* Rules under which no two rows of a table are at the same place.
SortsRows(rs, listed) ==
  /\ \A r \in listed : ~OrderBy(rs, r, r)
  /\ \A r, s, t \in listed : OrderBy(rs, r, s) /\ OrderBy(rs, s, t) => OrderBy(rs, r, t)
  /\ \A r, s \in listed : r # s => OrderBy(rs, r, s) \/ OrderBy(rs, s, r)

\* The first rows, in order: all of them, or n and the others come after.
FirstRows(page, listed, rs, n) ==
  /\ page \in Seq(listed) /\ Len(page) <= n
  /\ \A i, j \in 1..Len(page) : i < j => OrderBy(rs, page[i], page[j])
  /\ \A r \in listed : \/ \E i \in 1..Len(page) : page[i] = r
                       \/ Len(page) >= n /\ \A i \in 1..Len(page) : OrderBy(rs, page[i], r)

\* A page has the first of the rows that its condition lets through.
LEMMA PageHasFirstRows ==
  ASSUME NEW listed, NEW rs, NEW fromFirst, NEW from, NEW n \in Nat,
         IsFiniteSet(applyPagingConditions(listed, rs, fromFirst, from)),
         SortsRows(rs, applyPagingConditions(listed, rs, fromFirst, from))
  PROVE  FirstRows(Page(listed, rs, fromFirst, from, n), applyPagingConditions(listed, rs, fromFirst, from), rs, n)
<1> DEFINE after == applyPagingConditions(listed, rs, fromFirst, from)
           before == {pair \in after \X after : OrderBy(rs, pair[1], pair[2])}
           size == Cardinality(after)
           last == IF size < n THEN size ELSE n
           s == Sorted(after, before)
           page == SubSeq(s, 1, last)
<1>1. Page(listed, rs, fromFirst, from, n) = page
  BY Zenon DEF Page
<1>2. IsFiniteSet(after) /\ SortsRows(rs, after)
  OBVIOUS
<1> HIDE DEF after
<1>3. \A x, y \in after : <<x, y>> \in before <=> OrderBy(rs, x, y)
  OBVIOUS
<1>4. SortsAll(after, before)
  <2> HIDE DEF before
  <2> QED
    BY <1>2, <1>3 DEF SortsRows, SortsAll
<1> HIDE DEF before
<1>5. /\ size \in Nat
      /\ s \in [1..size -> after]
      /\ \A i, j \in 1..size : i < j => <<s[i], s[j]>> \in before
      /\ \A x \in after : \E i \in 1..size : s[i] = x
  BY <1>2, <1>4, SortedFacts
<1> HIDE DEF s, size
<1>6. last \in Nat /\ last <= size /\ last <= n /\ (last = size \/ last = n)
  BY <1>5
<1> HIDE DEF last
<1>7. s \in Seq(after) /\ Len(s) = size
  BY <1>5
<1>8. page \in Seq(after) /\ Len(page) = last /\ \A i \in 1..last : page[i] = s[i]
  BY <1>6, <1>7
<1> HIDE DEF page
<1>9. \A i, j \in 1..Len(page) : i < j => OrderBy(rs, page[i], page[j])
  <2> SUFFICES ASSUME NEW i \in 1..last, NEW j \in 1..last, i < j PROVE OrderBy(rs, page[i], page[j])
    BY <1>8
  <2>1. i \in 1..size /\ j \in 1..size
    BY <1>5, <1>6
  <2>2. s[i] \in after /\ s[j] \in after /\ <<s[i], s[j]>> \in before
    BY <1>5, <2>1
  <2> QED
    BY <1>3, <1>8, <2>2
<1>10. ASSUME NEW r \in after
       PROVE  \/ \E i \in 1..Len(page) : page[i] = r
              \/ Len(page) >= n /\ \A i \in 1..Len(page) : OrderBy(rs, page[i], r)
  <2>1. PICK k \in 1..size : s[k] = r
    BY <1>5
  <2>2. CASE k <= last
    BY <1>6, <1>8, <2>1, <2>2
  <2>3. CASE k > last
    <3>1. last = n
      BY <1>5, <1>6, <2>1, <2>3
    <3>2. ASSUME NEW i \in 1..last PROVE OrderBy(rs, page[i], r)
      <4>1. i \in 1..size /\ i < k
        BY <1>5, <1>6, <2>3
      <4>2. s[i] \in after /\ <<s[i], s[k]>> \in before
        BY <1>5, <2>1, <4>1
      <4> QED
        BY <1>3, <1>8, <2>1, <4>2
    <3> QED
      BY <1>6, <1>8, <3>1, <3>2
  <2> QED
    BY <1>5, <1>6, <2>1, <2>2, <2>3
<1>11. FirstRows(page, after, rs, n)
  BY <1>6, <1>8, <1>9, <1>10 DEF FirstRows
<1> QED
  BY <1>1, <1>11 DEF after

\* Rows may be left out before the first n are taken, when n others come before each.
LEMMA FirstOfMore ==
  ASSUME NEW listed, NEW some \in SUBSET listed, NEW rs, SortsRows(rs, listed), NEW n \in Nat,
         NEW page, FirstRows(page, some, rs, n),
         \A r \in listed \ some : \E q : /\ q \in [1..n -> some]
                                         /\ \A i, j \in 1..n : i < j => OrderBy(rs, q[i], q[j])
                                         /\ \A i \in 1..n : OrderBy(rs, q[i], r)
  PROVE  FirstRows(page, listed, rs, n)
<1>1. /\ page \in Seq(some) /\ Len(page) \in Nat /\ page \in Seq(listed) /\ Len(page) <= n
      /\ \A i \in 1..Len(page) : page[i] \in some
      /\ \A i, j \in 1..Len(page) : i < j => OrderBy(rs, page[i], page[j])
      /\ \A r \in some : \/ \E i \in 1..Len(page) : page[i] = r
                         \/ Len(page) >= n /\ \A i \in 1..Len(page) : OrderBy(rs, page[i], r)
  BY DEF FirstRows
<1>2. ASSUME NEW r \in listed \ some
      PROVE  Len(page) >= n /\ \A i \in 1..Len(page) : OrderBy(rs, page[i], r)
  <2>1. PICK q : /\ q \in [1..n -> some]
                 /\ \A i, j \in 1..n : i < j => OrderBy(rs, q[i], q[j])
                 /\ \A i \in 1..n : OrderBy(rs, q[i], r)
    BY <1>2
  <2>2. ASSUME NEW m \in Nat, m < n, m <= Len(page),
               \A k \in 1..n : \E i \in 1..m : page[i] = q[k]
        PROVE  FALSE
    <3> DEFINE f == [k \in 1..n |-> CHOOSE i \in 1..m : page[i] = q[k]]
               S == 1..n
               T == 1..m
    <3>1. \A k \in 1..n : f[k] \in 1..m /\ page[f[k]] = q[k]
      BY <2>2
    <3>2. f \in [S -> T]
      BY <3>1
    <3>3. IsFiniteSet(S) /\ IsFiniteSet(T) /\ Cardinality(S) = n /\ Cardinality(T) = m
      BY FS_Interval
    <3> HIDE DEF f, S, T
    <3>4. PICK k, l \in S : k # l /\ f[k] = f[l]
      BY <2>2, <3>2, <3>3, FS_PigeonHole, SMTT(30)
    <3>5. k \in 1..n /\ l \in 1..n /\ q[k] = q[l] /\ q[k] \in listed
      BY <2>1, <3>1, <3>4 DEF S
    <3>6. OrderBy(rs, q[k], q[l]) \/ OrderBy(rs, q[l], q[k])
      BY <2>1, <3>4, <3>5
    <3> QED
      BY <3>5, <3>6 DEF SortsRows
  <2>3. Len(page) >= n
    <3> SUFFICES ASSUME Len(page) < n PROVE FALSE
      BY <1>1
    <3>1. ASSUME NEW k \in 1..n PROVE \E i \in 1..Len(page) : page[i] = q[k]
      <4>1. q[k] \in some /\ ~(Len(page) >= n)
        BY <1>1, <2>1
      <4> QED
        BY <1>1, <4>1, Zenon
    <3>2. Len(page) <= Len(page)
      BY <1>1
    <3> QED
      BY <1>1, <2>2, <3>1, <3>2
  <2>4. ASSUME NEW i \in 1..Len(page), ~OrderBy(rs, page[i], r) PROVE FALSE
    <3>1. page[i] \in listed /\ page[i] # r
      BY <1>1, <1>2
    <3>2. OrderBy(rs, r, page[i])
      BY <1>2, <2>4, <3>1 DEF SortsRows
    <3>3. \A k \in 1..n : q[k] \in some /\ OrderBy(rs, q[k], page[i])
      <4> SUFFICES ASSUME NEW k \in 1..n PROVE q[k] \in some /\ OrderBy(rs, q[k], page[i])
        OBVIOUS
      <4>1. q[k] \in some /\ OrderBy(rs, q[k], r)
        BY <2>1
      <4> QED
        BY <1>2, <3>1, <3>2, <4>1 DEF SortsRows
    <3>4. ASSUME NEW k \in 1..n PROVE \E j \in 1..(i - 1) : page[j] = q[k]
      <4>1. ~OrderBy(rs, page[i], q[k])
        <5>1. q[k] \in listed /\ OrderBy(rs, q[k], page[i])
          BY <3>3
        <5> QED
          BY <3>1, <5>1 DEF SortsRows
      <4>2. PICK j \in 1..Len(page) : page[j] = q[k]
        BY <1>1, <3>3, <4>1
      <4>3. ~(i < j) /\ i # j
        <5>1. i < j => OrderBy(rs, page[i], page[j])
          BY <1>1
        <5>2. ~OrderBy(rs, page[i], page[i])
          BY <3>1 DEF SortsRows
        <5> QED
          BY <3>3, <4>1, <4>2, <5>1, <5>2
      <4> QED
        BY <1>1, <4>2, <4>3
    <3>5. i - 1 \in Nat /\ i - 1 <= Len(page) /\ i - 1 < n
      BY <1>1
    <3> QED
      BY <2>2, <3>4, <3>5
  <2> QED
    BY <2>3, <2>4
<1> QED
  BY <1>1, <1>2 DEF FirstRows

\* The places of two sequences, one after the other.
LEMMA PlacesOfBoth ==
  ASSUME NEW S, NEW s \in Seq(S), NEW t \in Seq(S)
  PROVE  /\ s \o t \in Seq(S) /\ Len(s \o t) = Len(s) + Len(t) /\ DOMAIN (s \o t) = 1..(Len(s) + Len(t))
         /\ \A n \in 1..(Len(s) + Len(t)) : (s \o t)[n] = IF n <= Len(s) THEN s[n] ELSE t[n - Len(s)]
BY SMT

\* The rules of a list have every tie-breaker, so that they tell any two rows apart.
LEMMA RulesOfRequest ==
  ASSUME NEW asked \in SortRequests, parseSortingRules(asked) # NoRules
  PROVE  /\ Fits(parseSortingRules(asked), ListRows)
         /\ \A f \in TieBreakers : \E n \in DOMAIN parseSortingRules(asked) : parseSortingRules(asked)[n].field = f
<1> DEFINE parsed == [n \in DOMAIN asked |->
                        [field |-> asked[n].field, desc |-> asked[n].desc,
                         nulls |-> IF asked[n].last THEN "last"
                                   ELSE IF asked[n].field \in NullableFields THEN "first" ELSE "none"]]
           used == {asked[n].field : n \in DOMAIN asked}
           missing == {n \in DOMAIN FieldNames : FieldNames[n] \in TieBreakers \ used}
           toAdd == Sorted(missing, {pair \in missing \X missing : pair[1] < pair[2]})
           size == Cardinality(missing)
           added == [n \in 1..size |-> Ascending(FieldNames[toAdd[n]])]
           rs == parseSortingRules(asked)
<1>1. /\ rs = parsed \o added
      /\ \A n \in DOMAIN asked : asked[n].field \in SortFields /\ (asked[n].last => asked[n].field \in NullableFields)
  BY Zenon DEF parseSortingRules, validateSortingField
<1>2. asked \in Seq([field : STRING, desc : BOOLEAN, last : BOOLEAN]) /\ FieldNames \in Seq(STRING)
  BY PagingAssumption
<1>3. Len(asked) \in Nat /\ DOMAIN asked = 1..Len(asked) /\ Len(FieldNames) \in Nat /\ DOMAIN FieldNames = 1..Len(FieldNames)
  BY <1>2
<1>4. IsFiniteSet(missing) /\ missing \in SUBSET Nat
  <2> DEFINE places == 1..Len(FieldNames)
  <2>1. missing \in SUBSET places
    BY <1>3
  <2>2. IsFiniteSet(places) /\ places \in SUBSET Nat
    BY <1>3, FS_Interval
  <2> HIDE DEF missing, places
  <2> QED
    BY <2>1, <2>2, FS_Subset
<1>5. \A n \in missing : n \in DOMAIN FieldNames /\ FieldNames[n] \in TieBreakers /\ FieldNames[n] \in SortFields \ NullableFields
  BY PagingAssumption DEF mustHaveValidTieBreakerFieldsList
<1>6. \A f \in TieBreakers : f \in used \/ \E n \in missing : FieldNames[n] = f
  BY PagingAssumption DEF mustHaveValidTieBreakerFieldsList, SortFields
<1> HIDE DEF missing
<1>7. /\ size \in Nat /\ \A n \in 1..size : toAdd[n] \in missing
      /\ \A x \in missing : \E n \in 1..size : toAdd[n] = x
  <2> DEFINE before == {pair \in missing \X missing : pair[1] < pair[2]}
  <2>1. \A x, y \in missing : <<x, y>> \in before <=> x < y
    OBVIOUS
  <2>2. SortsAll(missing, before)
    <3> HIDE DEF before
    <3> QED
      BY <1>4, <2>1 DEF SortsAll
  <2> HIDE DEF before
  <2>3. /\ size \in Nat /\ Sorted(missing, before) \in [1..size -> missing]
        /\ \A x \in missing : \E n \in 1..size : Sorted(missing, before)[n] = x
    BY <1>4, <2>2, SortedFacts
  <2> QED
    BY <2>3 DEF before
<1> HIDE DEF size, toAdd
<1> DEFINE len == Len(asked)
<1>8. /\ DOMAIN parsed = 1..len /\ DOMAIN added = 1..size
      /\ \A n \in 1..len : /\ parsed[n].field = asked[n].field
                           /\ parsed[n].nulls = IF asked[n].last THEN "last"
                                                ELSE IF asked[n].field \in NullableFields THEN "first" ELSE "none"
      /\ \A n \in 1..size : added[n].field = FieldNames[toAdd[n]] /\ added[n].nulls = "none"
  BY <1>3 DEF Ascending
<1> DEFINE Both == {parsed[n] : n \in 1..len} \union {added[n] : n \in 1..size}
<1>9. parsed \in Seq(Both) /\ Len(parsed) = len /\ added \in Seq(Both) /\ Len(added) = size
  BY <1>3, <1>7, <1>8
<1> HIDE DEF parsed, added, Both
<1>10. /\ DOMAIN rs = 1..(len + size)
       /\ \A n \in 1..(len + size) : rs[n] = IF n <= len THEN parsed[n] ELSE added[n - len]
  BY <1>1, <1>9, PlacesOfBoth
<1> HIDE DEF rs
<1>11. ASSUME NEW n \in DOMAIN rs
       PROVE  /\ rs[n].nulls \in {"none", "first", "last"}
              /\ rs[n].field \in SortFields
              /\ rs[n].nulls = "none" => rs[n].field \in SortFields \ NullableFields
  <2>1. CASE n <= len
    <3>1. n \in 1..len /\ rs[n] = parsed[n]
      BY <1>3, <1>7, <1>10, <1>11, <2>1
    <3> QED
      BY <1>1, <1>3, <1>8, <3>1
  <2>2. CASE n > len
    <3>1. n - len \in 1..size /\ rs[n] = added[n - len]
      BY <1>3, <1>7, <1>10, <1>11, <2>2
    <3> QED
      BY <1>5, <1>7, <1>8, <3>1
  <2> QED
    BY <1>3, <1>7, <1>10, <2>1, <2>2
<1>12. \A r \in ListRows, f \in SortFields : /\ r[f] \in Int \union {SqlNull}
                                             /\ f \in SortFields \ NullableFields => r[f] # SqlNull
  BY PagingAssumption
<1>13. Fits(rs, ListRows)
  <2>1. DOMAIN rs \in SUBSET Nat
    BY <1>3, <1>7, <1>10
  <2>2. \A n \in DOMAIN rs : n >= 1 /\ \A m \in 1..(n - 1) : m \in DOMAIN rs
    BY <1>3, <1>7, <1>10
  <2>3. ASSUME NEW n \in DOMAIN rs, NEW r \in ListRows
        PROVE  r[rs[n].field] \in Int \union {SqlNull} /\ (rs[n].nulls = "none" => r[rs[n].field] # SqlNull)
    <3>1. rs[n].field \in SortFields /\ (rs[n].nulls = "none" => rs[n].field \in SortFields \ NullableFields)
      BY <1>11
    <3> QED
      BY <1>12, <3>1, Zenon
  <2> QED
    BY <1>11, <2>1, <2>2, <2>3, Zenon DEF Fits
<1>14. ASSUME NEW f \in TieBreakers PROVE \E n \in DOMAIN rs : rs[n].field = f
  <2>1. CASE f \in used
    <3>1. PICK n \in 1..len : asked[n].field = f
      BY <1>3, <2>1
    <3>2. n \in DOMAIN rs /\ rs[n] = parsed[n]
      BY <1>3, <1>7, <1>10
    <3> QED
      BY <1>8, <3>1, <3>2
  <2>2. CASE \E n \in missing : FieldNames[n] = f
    <3>1. PICK x \in missing : FieldNames[x] = f
      BY <2>2
    <3>2. PICK n \in 1..size : toAdd[n] = x
      BY <1>7
    <3>3. len + n \in DOMAIN rs /\ rs[len + n] = added[n]
      BY <1>3, <1>7, <1>10
    <3> QED
      BY <1>8, <3>1, <3>2, <3>3
  <2> QED
    BY <1>6, <2>1, <2>2
<1> QED
  BY <1>13, <1>14 DEF rs

\* The sorting rules of the log, one after the other.
LEMMA LogRules ==
  /\ ResultRules = <<Descending("at"), Ascending("result")>>
  /\ AnswerRules = <<Descending("at"), Ascending("result"), Descending("type"), Ascending("answer")>>
  /\ UnionRules = <<Descending("at"), Ascending("result"), Descending("kind"), Ascending("answer")>>
<1>1. ASSUME NEW x, NEW y, NEW z, NEW w PROVE <<x, y>> \o <<z, w>> = <<x, y, z, w>>
  <2> DEFINE S == {x, y, z, w}
             u == <<x, y>>
             v == <<z, w>>
             t == <<x, y, z, w>>
             both == u \o v
  <2>1. /\ u \in Seq(S) /\ v \in Seq(S) /\ Len(u) = 2 /\ Len(v) = 2
        /\ u[1] = x /\ u[2] = y /\ v[1] = z /\ v[2] = w
    OBVIOUS
  <2>2. t \in [1..4 -> S] /\ t[1] = x /\ t[2] = y /\ t[3] = z /\ t[4] = w
    OBVIOUS
  <2> HIDE DEF S, u, v, t
  <2>3. /\ both \in Seq(S) /\ DOMAIN both = 1..(Len(u) + Len(v)) /\ Len(both) = Len(u) + Len(v)
        /\ \A n \in 1..(Len(u) + Len(v)) : both[n] = IF n <= Len(u) THEN u[n] ELSE v[n - Len(u)]
    BY <2>1, PlacesOfBoth, ZenonT(60)
  <2> HIDE DEF both
  <2>4. /\ both \in Seq(S) /\ DOMAIN both = 1..4 /\ Len(both) = 4
        /\ \A n \in 1..4 : both[n] = IF n <= 2 THEN u[n] ELSE v[n - 2]
    <3>1. Len(u) = 2 /\ Len(u) + Len(v) = 4
      BY <2>1
    <3> QED
      BY <2>3, <3>1
  <2>5. both \in [1..4 -> S] /\ \A n \in 1..4 : both[n] = t[n]
    BY <2>1, <2>2, <2>4
  <2>6. both = t
    BY <2>2, <2>5
  <2> QED
    BY <2>6 DEF both, u, v, t
<1> QED
  BY <1>1, Zenon DEF ResultRules, AnswerRules, UnionRules

\* What the orders of the three queries of the log and of their union have in common.
ByResult(r, s) == r.at > s.at \/ (r.at = s.at /\ r.result < s.result)
SameResult(r, s) == r.at = s.at /\ r.result = s.result

\* The fields of an activity are numbers.
LEMMA LogRowFields ==
  \A q \in LogRows : q.at \in Int /\ q.result \in Int /\ q.kind \in Int /\ q.type \in Int /\ q.answer \in Int
<1>1. SUFFICES ASSUME NEW q \in LogRows
               PROVE  q.at \in Int /\ q.result \in Int /\ q.kind \in Int /\ q.type \in Int /\ q.answer \in Int
  BY Zenon
<1>2. q \in [at : Int, result : Int, kind : 1..5, answer : Int, type : Int]
  BY PagingAssumption, Zenon
<1> QED
  BY <1>2

\* Two activities in each of these orders.
LEMMA LogOrders ==
  ASSUME NEW r \in LogRows, NEW s \in LogRows
  PROVE  /\ OrderBy(ResultRules, r, s) <=> ByResult(r, s)
         /\ OrderBy(AnswerRules, r, s) <=>
              ByResult(r, s) \/ (SameResult(r, s) /\ (r.type > s.type \/ (r.type = s.type /\ r.answer < s.answer)))
         /\ OrderBy(UnionRules, r, s) <=>
              ByResult(r, s) \/ (SameResult(r, s) /\ (r.kind > s.kind \/ (r.kind = s.kind /\ r.answer < s.answer)))
<1> DEFINE d(f) == Descending(f)
           a(f) == Ascending(f)
<1>1. /\ ResultRules = <<d("at"), a("result")>>
      /\ AnswerRules = <<d("at"), a("result"), d("type"), a("answer")>>
      /\ UnionRules = <<d("at"), a("result"), d("kind"), a("answer")>>
  BY LogRules
<1>2. /\ r.at \in Int /\ r.result \in Int /\ r.kind \in Int /\ r.type \in Int /\ r.answer \in Int
      /\ s.at \in Int /\ s.result \in Int /\ s.kind \in Int /\ s.type \in Int /\ s.answer \in Int
  BY LogRowFields, Zenon
<1>3. SqlNull \notin Int
  BY PagingAssumption
<1>4. /\ asSQL(d("at"), r, s) <=> r.at > s.at
      /\ asSQL(a("result"), r, s) <=> r.result < s.result
      /\ asSQL(d("type"), r, s) <=> r.type > s.type
      /\ asSQL(d("kind"), r, s) <=> r.kind > s.kind
      /\ asSQL(a("answer"), r, s) <=> r.answer < s.answer
  BY <1>2, <1>3 DEF asSQL, Descending, Ascending
<1>5. /\ d("at").field = "at" /\ a("result").field = "result" /\ d("type").field = "type" /\ d("kind").field = "kind"
  BY DEF Descending, Ascending
<1> HIDE DEF d, a
<1>6. ASSUME NEW x, NEW y
      PROVE  OrderBy(<<x, y>>, r, s) <=> asSQL(x, r, s) \/ (r[x.field] = s[x.field] /\ asSQL(y, r, s))
  <2> DEFINE rs == <<x, y>>
  <2>1. DOMAIN rs = {1, 2} /\ rs[1] = x /\ rs[2] = y
    OBVIOUS
  <2> HIDE DEF rs
  <2>2. OrderBy(rs, r, s) <=> \/ asSQL(rs[1], r, s)
                              \/ r[rs[1].field] = s[rs[1].field] /\ asSQL(rs[2], r, s)
    BY <2>1 DEF OrderBy
  <2> QED
    BY <2>1, <2>2 DEF rs
<1>7. ASSUME NEW x, NEW y, NEW z, NEW w
      PROVE  OrderBy(<<x, y, z, w>>, r, s) <=>
               \/ asSQL(x, r, s)
               \/ /\ r[x.field] = s[x.field]
                  /\ \/ asSQL(y, r, s)
                     \/ /\ r[y.field] = s[y.field]
                        /\ asSQL(z, r, s) \/ (r[z.field] = s[z.field] /\ asSQL(w, r, s))
  <2> DEFINE rs == <<x, y, z, w>>
             same(n) == r[rs[n].field] = s[rs[n].field]
             less(n) == asSQL(rs[n], r, s)
  <2>1. DOMAIN rs = {1, 2, 3, 4} /\ rs[1] = x /\ rs[2] = y /\ rs[3] = z /\ rs[4] = w
    OBVIOUS
  <2> HIDE DEF rs
  <2>2. OrderBy(rs, r, s) <=> \E n \in {1, 2, 3, 4} : less(n) /\ \A m \in 1..(n - 1) : same(m)
    BY <2>1 DEF OrderBy
  <2> HIDE DEF same, less
  <2>3. OrderBy(rs, r, s) <=> less(1) \/ (same(1) /\ (less(2) \/ (same(2) /\ (less(3) \/ (same(3) /\ less(4))))))
    BY <2>2
  <2> QED
    BY <2>1, <2>3 DEF rs, same, less
<1>8. OrderBy(ResultRules, r, s) <=> asSQL(d("at"), r, s) \/ (r.at = s.at /\ asSQL(a("result"), r, s))
  BY <1>1, <1>5, <1>6
<1>9. OrderBy(AnswerRules, r, s) <=>
         \/ asSQL(d("at"), r, s)
         \/ r.at = s.at /\ \/ asSQL(a("result"), r, s)
                           \/ r.result = s.result /\ \/ asSQL(d("type"), r, s)
                                                     \/ r.type = s.type /\ asSQL(a("answer"), r, s)
  BY <1>1, <1>5, <1>7
<1>10. OrderBy(UnionRules, r, s) <=>
         \/ asSQL(d("at"), r, s)
         \/ r.at = s.at /\ \/ asSQL(a("result"), r, s)
                           \/ r.result = s.result /\ \/ asSQL(d("kind"), r, s)
                                                     \/ r.kind = s.kind /\ asSQL(a("answer"), r, s)
  BY <1>1, <1>5, <1>7
<1> QED
  BY <1>4, <1>8, <1>9, <1>10 DEF ByResult, SameResult

\* They place the activities of the log.
LEMMA LogRulesFit ==
  Fits(ResultRules, LogRows) /\ Fits(AnswerRules, LogRows) /\ Fits(UnionRules, LogRows)
<1>1. ASSUME NEW rs, DOMAIN rs = {1, 2} \/ DOMAIN rs = {1, 2, 3, 4},
             \A n \in DOMAIN rs : rs[n].nulls = "none" /\ rs[n].field \in {"at", "result", "kind", "type", "answer"}
      PROVE  Fits(rs, LogRows)
  <2>1. DOMAIN rs \in SUBSET Nat /\ \A n \in DOMAIN rs : n >= 1 /\ \A m \in 1..(n - 1) : m \in DOMAIN rs
    BY <1>1
  <2>2. ASSUME NEW r \in LogRows, NEW f \in {"at", "result", "kind", "type", "answer"} PROVE r[f] \in Int
    BY PagingAssumption
  <2>3. SqlNull \notin Int
    BY PagingAssumption
  <2>4. \A n \in DOMAIN rs, r \in LogRows : r[rs[n].field] \in Int /\ r[rs[n].field] # SqlNull
    BY <1>1, <2>2, <2>3, Zenon
  <2> QED
    BY <1>1, <2>1, <2>4 DEF Fits
<1>2. \A f : /\ Descending(f).nulls = "none" /\ Ascending(f).nulls = "none"
             /\ Descending(f).field = f /\ Ascending(f).field = f
  BY DEF Descending, Ascending
<1>3. Fits(ResultRules, LogRows)
  <2>1. DOMAIN ResultRules = {1, 2} /\ ResultRules[1] = Descending("at") /\ ResultRules[2] = Ascending("result")
    BY LogRules
  <2> QED
    BY <1>1, <1>2, <2>1
<1>4. Fits(AnswerRules, LogRows)
  <2>1. /\ DOMAIN AnswerRules = {1, 2, 3, 4} /\ AnswerRules[1] = Descending("at") /\ AnswerRules[2] = Ascending("result")
        /\ AnswerRules[3] = Descending("type") /\ AnswerRules[4] = Ascending("answer")
    BY LogRules
  <2> QED
    BY <1>1, <1>2, <2>1
<1>5. Fits(UnionRules, LogRows)
  <2>1. /\ DOMAIN UnionRules = {1, 2, 3, 4} /\ UnionRules[1] = Descending("at") /\ UnionRules[2] = Ascending("result")
        /\ UnionRules[3] = Descending("kind") /\ UnionRules[4] = Ascending("answer")
    BY LogRules
  <2> QED
    BY <1>1, <1>2, <2>1
<1> QED
  BY <1>3, <1>4, <1>5

\* The rows after the last one that was read.
Comes(r) == lastRow = NoLastRow \/ OrderBy(rules, lastRow, r)

\* A page of some rows, by rules that order them as the list does.
LEMMA PageOfRows ==
  ASSUME NEW possible, NEW listed \in SUBSET possible, IsFiniteSet(listed), SortsRows(rules, listed),
         NEW rs, Fits(rs, possible), lastRow \in possible \union {NoLastRow},
         NEW from, lastRow # NoLastRow => from = {lastRow}, limit \in Nat,
         \A r, s \in listed : OrderBy(rs, r, s) <=> OrderBy(rules, r, s),
         lastRow # NoLastRow => \A r \in listed : OrderBy(rs, lastRow, r) <=> OrderBy(rules, lastRow, r)
  PROVE  FirstRows(Page(listed, rs, lastRow = NoLastRow, from, limit), {r \in listed : Comes(r)}, rules, limit)
<1> DEFINE coming == {r \in listed : Comes(r)}
           first == (lastRow = NoLastRow)
           page == Page(listed, rs, first, from, limit)
<1>1. applyPagingConditions(listed, rs, first, from) = coming
  <2>1. CASE lastRow = NoLastRow
    BY <2>1 DEF applyPagingConditions, Comes
  <2>2. CASE lastRow # NoLastRow
    <3>1. lastRow \in possible
      BY <2>2
    <3>2. \A r \in listed : constructPagingConditions(rs, r, lastRow) <=> OrderBy(rs, lastRow, r)
      BY <3>1, OrderIsStrict
    <3>3. \A r \in listed : constructPagingConditions(rs, r, lastRow) <=> Comes(r)
      BY <2>2, <3>2 DEF Comes
    <3> QED
      BY <2>2, <3>3 DEF applyPagingConditions
  <2> QED
    BY <2>1, <2>2
<1>2. coming \in SUBSET listed
  OBVIOUS
<1> HIDE DEF coming
<1>3. IsFiniteSet(coming)
  BY <1>2, FS_Subset
<1>4. SortsRows(rs, coming)
  <2>1. /\ \A r \in coming : ~OrderBy(rules, r, r)
        /\ \A r, s, t \in coming : OrderBy(rules, r, s) /\ OrderBy(rules, s, t) => OrderBy(rules, r, t)
        /\ \A r, s \in coming : r # s => OrderBy(rules, r, s) \/ OrderBy(rules, s, r)
    BY <1>2 DEF SortsRows
  <2>2. \A r, s \in coming : OrderBy(rs, r, s) <=> OrderBy(rules, r, s)
    BY <1>2
  <2> QED
    BY <2>1, <2>2 DEF SortsRows
<1>5. FirstRows(page, coming, rs, limit)
  BY <1>1, <1>3, <1>4, PageHasFirstRows
<1> HIDE DEF page
<1>6. page \in Seq(coming) /\ \A i \in 1..Len(page) : page[i] \in coming
  BY <1>5 DEF FirstRows
<1>7. \A r, s \in coming : OrderBy(rs, r, s) <=> OrderBy(rules, r, s)
  BY <1>2
<1>8. FirstRows(page, coming, rules, limit)
  BY <1>5, <1>6, <1>7, Zenon DEF FirstRows
<1> QED
  BY <1>8 DEF page, coming

\* The rules of the list or of the log that is read.
RulesInUse ==
  IF reads = "list"
  THEN Fits(rules, ListRows) /\ \A f \in TieBreakers : \E n \in DOMAIN rules : rules[n].field = f
  ELSE rules = UnionRules

\* What is known of two different activities of one table.
LEMMA ActivitiesDiffer ==
  ASSUME reads = "log", table \in SUBSET LogRows, IsTable(table), NEW r \in table, NEW s \in table, r # s
  PROVE  /\ r.kind \in {1, 3} /\ r.kind = s.kind => r.result # s.result
         /\ r.kind \in {2, 4, 5} /\ s.kind \in {2, 4, 5} => r.answer # s.answer
BY Zenon DEF IsTable, SameRow

\* In the order in use the rows of a table have one place each.
LEMMA RulesSort ==
  ASSUME reads \in {"list", "log"}, table \in SUBSET PossibleRows, IsTable(table), RulesInUse
  PROVE  /\ IsFiniteSet(table) /\ Fits(rules, PossibleRows) /\ SortsRows(rules, table)
         /\ \A r, s, t \in PossibleRows : OrderBy(rules, r, s) /\ OrderBy(rules, s, t) => OrderBy(rules, r, t)
         /\ \A r \in PossibleRows : ~OrderBy(rules, r, r)
<1>1. Fits(rules, PossibleRows)
  BY LogRulesFit DEF RulesInUse, PossibleRows
<1>2. IsFiniteSet(PossibleRows)
  BY PagingAssumption DEF PossibleRows
<1>3. IsFiniteSet(table)
  BY <1>2, FS_Subset
<1>4. /\ \A r, s, t \in PossibleRows : OrderBy(rules, r, s) /\ OrderBy(rules, s, t) => OrderBy(rules, r, t)
      /\ \A r \in PossibleRows : ~OrderBy(rules, r, r)
  BY <1>1, OrderIsStrict
<1>5. ASSUME NEW r \in table, NEW s \in table, r # s PROVE OrderBy(rules, r, s) \/ OrderBy(rules, s, r)
  <2>1. CASE reads = "list"
    <3>1. ~SameKey(r, s)
      BY <1>5, <2>1, Zenon DEF IsTable, SameRow
    <3>2. PICK f \in TieBreakers : r[f] # s[f]
      BY <3>1 DEF SameKey
    <3>3. PICK n \in DOMAIN rules : rules[n].field = f
      BY <2>1 DEF RulesInUse
    <3>4. r \in PossibleRows /\ s \in PossibleRows /\ r[rules[n].field] # s[rules[n].field]
      BY <3>2, <3>3
    <3> QED
      BY <1>1, <3>4, OrderIsTotal
  <2>2. CASE reads = "log"
    <3>1. table \in SUBSET LogRows /\ r \in LogRows /\ s \in LogRows /\ rules = UnionRules
      BY <2>2 DEF PossibleRows, RulesInUse
    <3>2. /\ r.at \in Int /\ r.result \in Int /\ r.kind \in 1..5 /\ r.answer \in Int
          /\ s.at \in Int /\ s.result \in Int /\ s.kind \in 1..5 /\ s.answer \in Int
      BY <3>1, PagingAssumption
    <3>3. /\ r.kind \in {1, 3} /\ r.kind = s.kind => r.result # s.result
          /\ r.kind \in {2, 4, 5} /\ s.kind \in {2, 4, 5} => r.answer # s.answer
      BY <1>5, <2>2, <3>1, ActivitiesDiffer
    <3> QED
      BY <3>1, <3>2, <3>3, LogOrders DEF ByResult, SameResult
  <2> QED
    BY <2>1, <2>2
<1>6. SortsRows(rules, table)
  <2>1. /\ \A r \in table : ~OrderBy(rules, r, r)
        /\ \A r, s, t \in table : OrderBy(rules, r, s) /\ OrderBy(rules, s, t) => OrderBy(rules, r, t)
    BY <1>4
  <2> QED
    BY <1>5, <2>1, Zenon DEF SortsRows
<1> QED
  BY <1>1, <1>3, <1>4, <1>6

\* Rows in one order keep it among themselves.
LEMMA SortsPart ==
  ASSUME NEW rs, NEW listed, SortsRows(rs, listed), NEW part \in SUBSET listed
  PROVE  SortsRows(rs, part)
BY Zenon DEF SortsRows

\* A page of a list goes on from the last row, as it is or by its tie-breakers.
LEMMA PageOfList ==
  ASSUME reads = "list", table \in SUBSET PossibleRows, IsTable(table), RulesInUse, limit \in Nat,
         lastRow \in PossibleRows \union {NoLastRow},
         lastRow # NoLastRow => lastRow \in table \/ ~subQueryNeeded(rules)
  PROVE  FirstRows(ListPage, {r \in table : Comes(r)}, rules, limit)
<1>1. /\ IsFiniteSet(table) /\ Fits(rules, PossibleRows) /\ SortsRows(rules, table)
  BY RulesSort
<1>2. ASSUME lastRow # NoLastRow PROVE ListFrom = {lastRow}
  <2>1. CASE subQueryNeeded(rules)
    <3>1. lastRow \in table
      BY <1>2, <2>1
    <3>2. \A r \in table : SameKey(r, lastRow) => r = lastRow
      BY <3>1, Zenon DEF IsTable, SameRow
    <3>3. SameKey(lastRow, lastRow)
      BY DEF SameKey
    <3>4. {r \in table : SameKey(r, lastRow)} = {lastRow}
      BY <3>1, <3>2, <3>3
    <3> QED
      BY <2>1, <3>4, Zenon DEF ListFrom
  <2>2. CASE ~subQueryNeeded(rules)
    BY <2>2, Zenon DEF ListFrom
  <2> QED
    BY <2>1, <2>2
<1> DEFINE from == ListFrom
           possible == PossibleRows
<1>3. FirstRows(Page(table, rules, lastRow = NoLastRow, from, limit), {r \in table : Comes(r)}, rules, limit)
  <2>1. /\ table \in SUBSET possible /\ Fits(rules, possible) /\ lastRow \in possible \union {NoLastRow}
        /\ lastRow # NoLastRow => from = {lastRow}
    BY <1>1, <1>2
  <2> HIDE DEF from, possible
  <2> QED
    BY <1>1, <2>1, PageOfRows
<1> QED
  BY <1>3 DEF ListPage

\* The activity log between two pages.
LogIsRead ==
  /\ reads = "log" /\ table \in SUBSET LogRows /\ IsTable(table) /\ rules = UnionRules /\ limit \in Nat
  /\ lastRow \in table \union {NoLastRow}
  /\ lastRow # NoLastRow => Twins(lastRow) = {}

\* The rows of one of the three queries, which order them as their union does.
IsPart(listed, rs) ==
  \/ listed = AnswerRows /\ rs = AnswerRules
  \/ listed = StartedRows /\ rs = ResultRules
  \/ listed = ValidatedRows /\ rs = ResultRules

\* An order of its own sorts the rows of a query as UnionRules would.
LEMMA PartsAgree ==
  ASSUME LogIsRead, NEW listed, NEW rs, IsPart(listed, rs)
  PROVE  /\ \A r, s \in listed : OrderBy(rs, r, s) <=> OrderBy(rules, r, s)
         /\ lastRow # NoLastRow => \A r \in listed : OrderBy(rs, lastRow, r) <=> OrderBy(rules, lastRow, r)
<1>1. \A r \in LogRows : /\ r.at \in Int /\ r.result \in Int /\ r.kind \in 1..5 /\ r.answer \in Int /\ r.type \in Int
                         /\ r.type = CASE r.kind = 2 -> 1 [] r.kind = 4 -> 2 [] r.kind = 5 -> 3 [] OTHER -> NoType
  BY PagingAssumption
<1>2. listed \in SUBSET table /\ listed \in SUBSET LogRows
  BY DEF IsPart, AnswerRows, StartedRows, ValidatedRows, LogIsRead
<1>3. \A r \in LogRows : /\ r.kind = 2 => r.type = 1
                         /\ r.kind = 4 => r.type = 2
                         /\ r.kind = 5 => r.type = 3
                         /\ r.kind \in {1, 3} => r.type = 65535
  BY <1>1 DEF NoType
<1>4. ASSUME NEW r \in listed, NEW s \in listed PROVE OrderBy(rs, r, s) <=> OrderBy(rules, r, s)
  <2>1. /\ r.kind \in 1..5 /\ s.kind \in 1..5 /\ r.answer \in Int /\ s.answer \in Int
        /\ r \in LogRows /\ s \in LogRows /\ r \in table /\ s \in table /\ rules = UnionRules
    BY <1>1, <1>2 DEF LogIsRead
  <2>2. CASE listed = AnswerRows /\ rs = AnswerRules
    <3>1. r.kind \in {2, 4, 5} /\ s.kind \in {2, 4, 5}
      BY <2>2 DEF AnswerRows
    <3>2. /\ r.type > s.type <=> r.kind > s.kind
          /\ r.type = s.type <=> r.kind = s.kind
      BY <1>3, <2>1, <3>1
    <3> QED
      BY <2>1, <2>2, <3>2, LogOrders
  <2>3. CASE rs = ResultRules /\ r.kind = s.kind /\ r.kind \in {1, 3}
    <3>1. SameResult(r, s) => r = s
      BY <2>1, <2>3, ActivitiesDiffer DEF LogIsRead, SameResult
    <3> QED
      BY <2>1, <2>3, <3>1, LogOrders
  <2> QED
    BY <2>2, <2>3 DEF IsPart, StartedRows, ValidatedRows
<1>5. ASSUME lastRow # NoLastRow, NEW r \in listed
      PROVE  OrderBy(rs, lastRow, r) <=> OrderBy(rules, lastRow, r)
  <2> DEFINE l == lastRow
  <2>1. l \in table /\ l \in LogRows /\ r \in table /\ r \in LogRows /\ rules = UnionRules
    BY <1>2, <1>5 DEF LogIsRead
  <2>2. l.kind \in 1..5 /\ r.kind \in 1..5 /\ l.answer \in Int /\ r.answer \in Int /\ l.type \in Int /\ r.type \in Int
    BY <1>1, <2>1
  <2>3. r # l /\ SameResult(l, r) =>
          /\ ~(r.kind \in {1, 3} /\ r.kind < l.kind)
          /\ ~(l.kind \in {1, 3} /\ r.kind \in {2, 4, 5} /\ r.kind > l.kind)
    BY <1>5, <2>1 DEF LogIsRead, Twins, SameResult
  <2>4. r # l => /\ ~(l.kind \in {1, 3} /\ l.kind = r.kind /\ l.result = r.result)
    BY <2>1, ActivitiesDiffer DEF LogIsRead
  <2> SUFFICES OrderBy(rs, l, r) <=> OrderBy(rules, l, r)
    OBVIOUS
  <2> HIDE DEF l
  <2>5. /\ OrderBy(UnionRules, l, r) <=>
             ByResult(l, r) \/ (SameResult(l, r) /\ (l.kind > r.kind \/ (l.kind = r.kind /\ l.answer < r.answer)))
        /\ OrderBy(ResultRules, l, r) <=> ByResult(l, r)
        /\ OrderBy(AnswerRules, l, r) <=>
              ByResult(l, r) \/ (SameResult(l, r) /\ (l.type > r.type \/ (l.type = r.type /\ l.answer < r.answer)))
    BY <2>1, LogOrders
  <2>6. SameResult(l, r) => l.result = r.result
    BY DEF SameResult
  <2>7. CASE listed = AnswerRows /\ rs = AnswerRules
    <3>1. r.kind \in {2, 4, 5}
      BY <2>7 DEF AnswerRows
    <3>2. CASE l.kind \in {2, 4, 5}
      <4>1. /\ l.type > r.type <=> l.kind > r.kind
            /\ l.type = r.type <=> l.kind = r.kind
        BY <1>3, <2>1, <3>1, <3>2
      <4> QED
        BY <2>1, <2>5, <2>7, <4>1
    <3>3. CASE l.kind \in {1, 3}
      <4>1. l.type > r.type
        BY <1>3, <2>1, <3>1, <3>3
      <4>2. r # l
        BY <3>1, <3>3
      <4>3. SameResult(l, r) => l.kind > r.kind
        BY <2>2, <2>3, <3>1, <3>3, <4>2
      <4> QED
        BY <2>1, <2>5, <2>7, <4>1, <4>3
    <3> QED
      BY <2>2, <3>2, <3>3
  <2>8. CASE rs = ResultRules /\ r.kind \in {1, 3}
    <3>1. SameResult(l, r) /\ r # l => ~(l.kind > r.kind) /\ l.kind # r.kind
      BY <2>2, <2>3, <2>4, <2>6, <2>8
    <3>2. SameResult(l, r) => ~(l.kind > r.kind) /\ ~(l.kind = r.kind /\ l.answer < r.answer)
      <4>1. CASE r = l
        BY <2>2, <4>1
      <4> QED
        BY <3>1, <4>1
    <3> QED
      BY <2>1, <2>5, <2>8, <3>2
  <2> QED
    BY <2>7, <2>8 DEF IsPart, StartedRows, ValidatedRows
<1> QED
  BY <1>4, <1>5

\* The union of the three queries, each cut at the limit, has the first activities.
LEMMA PageOfLog ==
  ASSUME LogIsRead
  PROVE  FirstRows(LogPage, {r \in table : Comes(r)}, rules, limit)
<1> DEFINE first == (lastRow = NoLastRow)
           pageOf(listed, rs) == Page(listed, rs, first, LogFrom, limit)
           taken(listed, rs) == {pageOf(listed, rs)[n] : n \in DOMAIN pageOf(listed, rs)}
           un == taken(AnswerRows, AnswerRules) \union taken(StartedRows, ResultRules)
                   \union taken(ValidatedRows, ResultRules)
           coming == {r \in table : Comes(r)}
<1>1. /\ IsFiniteSet(table) /\ Fits(rules, LogRows) /\ SortsRows(rules, table)
      /\ rules = UnionRules /\ limit \in Nat /\ table \in SUBSET LogRows
      /\ lastRow \in LogRows \union {NoLastRow}
  <2>1. PossibleRows = LogRows /\ RulesInUse /\ reads \in {"list", "log"}
    BY DEF LogIsRead, PossibleRows, RulesInUse
  <2>2. IsFiniteSet(table) /\ Fits(rules, PossibleRows) /\ SortsRows(rules, table)
    BY <2>1, RulesSort DEF LogIsRead
  <2> QED
    BY <2>1, <2>2 DEF LogIsRead
<1>2. ASSUME lastRow # NoLastRow PROVE LogFrom = {lastRow}
  <2>1. lastRow \in table /\ lastRow.kind \in 1..5
    BY <1>1, <1>2, PagingAssumption DEF LogIsRead
  <2>2. lastRow \in LogFrom
    BY <2>1 DEF LogFrom, AnswerRows
  <2>3. ASSUME NEW r \in LogFrom PROVE r = lastRow
    <3>1. r \in table /\ SameRow(r, lastRow)
      BY <2>3 DEF LogFrom, AnswerRows, SameRow, LogIsRead
    <3> QED
      BY <2>1, <3>1 DEF LogIsRead, IsTable
  <2> QED
    BY <2>2, <2>3
<1>3. ASSUME NEW listed, NEW rs, IsPart(listed, rs)
      PROVE  /\ listed \in SUBSET table
             /\ FirstRows(pageOf(listed, rs), {r \in listed : Comes(r)}, rules, limit)
  <2>1. listed \in SUBSET table /\ listed \in SUBSET LogRows
    BY <1>1, <1>3 DEF IsPart, AnswerRows, StartedRows, ValidatedRows
  <2>2. IsFiniteSet(listed) /\ SortsRows(rules, listed)
    BY <1>1, <2>1, FS_Subset, SortsPart
  <2>3. Fits(rs, LogRows)
    BY <1>3, LogRulesFit DEF IsPart
  <2>4. /\ \A r, s \in listed : OrderBy(rs, r, s) <=> OrderBy(rules, r, s)
        /\ lastRow # NoLastRow => \A r \in listed : OrderBy(rs, lastRow, r) <=> OrderBy(rules, lastRow, r)
    BY <1>3, PartsAgree
  <2> DEFINE from == LogFrom
  <2>5. FirstRows(Page(listed, rs, lastRow = NoLastRow, from, limit), {r \in listed : Comes(r)}, rules, limit)
    <3>1. lastRow # NoLastRow => from = {lastRow}
      BY <1>2
    <3> HIDE DEF from
    <3> QED
      BY <1>1, <2>1, <2>2, <2>3, <2>4, <3>1, PageOfRows
  <2> QED
    BY <2>1, <2>5
<1> HIDE DEF pageOf
<1>4. ASSUME NEW listed, NEW rs, IsPart(listed, rs)
      PROVE  /\ taken(listed, rs) \in SUBSET coming
             /\ \A r \in listed \ taken(listed, rs) : Comes(r) =>
                   \E q : /\ q \in [1..limit -> taken(listed, rs)]
                          /\ \A i, j \in 1..limit : i < j => OrderBy(rules, q[i], q[j])
                          /\ \A i \in 1..limit : OrderBy(rules, q[i], r)
  <2> DEFINE p == pageOf(listed, rs)
             mine == {r \in listed : Comes(r)}
  <2>1. listed \in SUBSET table /\ mine \in SUBSET coming
    BY <1>3, <1>4
  <2>2. FirstRows(p, mine, rules, limit)
    BY <1>3, <1>4
  <2> HIDE DEF p, mine
  <2>3. /\ p \in Seq(mine) /\ DOMAIN p = 1..Len(p) /\ Len(p) \in Nat /\ \A i \in 1..Len(p) : p[i] \in mine
    BY <2>2 DEF FirstRows
  <2> DEFINE these == {p[n] : n \in DOMAIN p}
  <2>4. these \in SUBSET coming
    BY <2>1, <2>3
  <2>5. ASSUME NEW r \in listed \ these, Comes(r)
        PROVE  \E q : /\ q \in [1..limit -> these]
                      /\ \A i, j \in 1..limit : i < j => OrderBy(rules, q[i], q[j])
                      /\ \A i \in 1..limit : OrderBy(rules, q[i], r)
    <3>1. r \in mine /\ ~\E i \in 1..Len(p) : p[i] = r
      BY <2>3, <2>5 DEF mine
    <3>2. Len(p) >= limit /\ \A i \in 1..Len(p) : OrderBy(rules, p[i], r)
      BY <2>2, <3>1, Zenon DEF FirstRows
    <3>3. \A i \in 1..limit : i \in 1..Len(p)
      BY <1>1, <2>3, <3>2
    <3> DEFINE q == [i \in 1..limit |-> p[i]]
    <3>4. q \in [1..limit -> these] /\ \A i \in 1..limit : q[i] = p[i]
      BY <2>3, <3>3
    <3>5. \A i, j \in 1..Len(p) : i < j => OrderBy(rules, p[i], p[j])
      BY <2>2, Zenon DEF FirstRows
    <3> HIDE DEF q, these
    <3>6. /\ \A i, j \in 1..limit : i < j => OrderBy(rules, q[i], q[j])
          /\ \A i \in 1..limit : OrderBy(rules, q[i], r)
      BY <3>2, <3>3, <3>4, <3>5
    <3> QED
      BY <3>4, <3>6, Zenon
  <2> QED
    BY <2>4, <2>5 DEF p
<1>5. /\ IsPart(AnswerRows, AnswerRules) /\ IsPart(StartedRows, ResultRules) /\ IsPart(ValidatedRows, ResultRules)
  BY DEF IsPart
<1>6. LogPage = Page(un, UnionRules, first, LogFrom, limit)
  BY Zenon DEF LogPage, pageOf
<1>7. \A r \in table : r \in AnswerRows \/ r \in StartedRows \/ r \in ValidatedRows
  <2>1. \A r \in table : r.kind \in 1..5
    BY <1>1, PagingAssumption
  <2> QED
    BY <2>1 DEF AnswerRows, StartedRows, ValidatedRows
<1>8. /\ un \in SUBSET coming
      /\ \A r \in coming \ un : \E q : /\ q \in [1..limit -> un]
                                       /\ \A i, j \in 1..limit : i < j => OrderBy(rules, q[i], q[j])
                                       /\ \A i \in 1..limit : OrderBy(rules, q[i], r)
  <2>1. /\ taken(AnswerRows, AnswerRules) \in SUBSET coming /\ taken(StartedRows, ResultRules) \in SUBSET coming
        /\ taken(ValidatedRows, ResultRules) \in SUBSET coming
    BY <1>4, <1>5, Zenon
  <2>2. ASSUME NEW r \in coming \ un
        PROVE  \E q : /\ q \in [1..limit -> un]
                      /\ \A i, j \in 1..limit : i < j => OrderBy(rules, q[i], q[j])
                      /\ \A i \in 1..limit : OrderBy(rules, q[i], r)
    <3>1. r \in table /\ Comes(r)
      BY <2>2
    <3>2. ASSUME NEW listed, NEW rs, IsPart(listed, rs), r \in listed, taken(listed, rs) \in SUBSET un
          PROVE  \E q : /\ q \in [1..limit -> un]
                        /\ \A i, j \in 1..limit : i < j => OrderBy(rules, q[i], q[j])
                        /\ \A i \in 1..limit : OrderBy(rules, q[i], r)
      <4>1. r \in listed \ taken(listed, rs)
        BY <2>2, <3>2
      <4> HIDE DEF taken, un, coming
      <4>2. PICK q : /\ q \in [1..limit -> taken(listed, rs)]
                     /\ \A i, j \in 1..limit : i < j => OrderBy(rules, q[i], q[j])
                     /\ \A i \in 1..limit : OrderBy(rules, q[i], r)
        BY <1>4, <3>1, <3>2, <4>1, Zenon
      <4>3. q \in [1..limit -> un]
        BY <3>2, <4>2
      <4> QED
        BY <4>2, <4>3, Zenon
    <3> DEFINE a == taken(AnswerRows, AnswerRules)
               b == taken(StartedRows, ResultRules)
               c == taken(ValidatedRows, ResultRules)
    <3>3. a \in SUBSET un /\ b \in SUBSET un /\ c \in SUBSET un
      BY Zenon
    <3> HIDE DEF un
    <3> QED
      BY <1>5, <1>7, <3>1, <3>2, <3>3, Zenon
  <2> HIDE DEF taken, coming
  <2> QED
    BY <2>1, <2>2
<1> HIDE DEF un
<1>9. FirstRows(LogPage, un, rules, limit)
  <2>1. un \in SUBSET table /\ un \in SUBSET LogRows
    BY <1>1, <1>8
  <2>2. IsFiniteSet(un) /\ SortsRows(rules, un)
    BY <1>1, <2>1, FS_Subset, SortsPart
  <2>3. {r \in un : Comes(r)} = un
    BY <1>8
  <2> DEFINE from == LogFrom
  <2>4. lastRow # NoLastRow => from = {lastRow}
    BY <1>2
  <2> HIDE DEF from
  <2>5. FirstRows(Page(un, rules, lastRow = NoLastRow, from, limit), {r \in un : Comes(r)}, rules, limit)
    BY <1>1, <2>1, <2>2, <2>4, PageOfRows
  <2> QED
    BY <1>1, <1>6, <2>3, <2>5 DEF from
<1>10. SortsRows(rules, coming)
  BY <1>1, SortsPart
<1> HIDE DEF coming
<1> DEFINE page == LogPage
<1>11. FirstRows(page, un, rules, limit)
  BY <1>9
<1> HIDE DEF page
<1>12. FirstRows(page, coming, rules, limit)
  BY <1>1, <1>8, <1>10, <1>11, FirstOfMore
<1> QED
  BY <1>12 DEF page, coming

\* The rows read so far come one after the other; every row that stayed is among them
\* or comes after the last one, which is still there or of which the rules need no more
\* than was given.
PagesFollow ==
  /\ seen \in Seq(PossibleRows)
  /\ lastRow = IF seen = <<>> THEN NoLastRow ELSE seen[Len(seen)]
  /\ lastRow # NoLastRow => lastRow \in table \/ (reads = "list" /\ ~subQueryNeeded(rules))
  /\ \A i, j \in 1..Len(seen) : i < j => OrderBy(rules, seen[i], seen[j])
  /\ \A r \in kept : (\E i \in 1..Len(seen) : seen[i] = r) \/ (~finished /\ Comes(r))

PagesInv ==
  /\ reads \in {"list", "log"}
  /\ table \in SUBSET PossibleRows /\ IsTable(table)
  /\ kept \in SUBSET table
  /\ limit \in Nat
  /\ limit = 0 => seen = <<>> /\ lastRow = NoLastRow /\ ~finished /\ ~strayed
  /\ limit # 0 => RulesInUse
  /\ limit # 0 /\ ~strayed => PagesFollow

\* Before the first page.
LEMMA PagesStart == PagingInit => PagesInv
BY DEF PagingInit, PagesInv

\* The first page starts, with all rows to be read.
LEMMA FirstPageStep ==
  ASSUME PagesInv, NEW asked \in SortRequests, NEW n \in PageLimits, FirstPage(asked, n)
  PROVE  PagesInv'
<1>1. UNCHANGED <<reads, table, lastRow, seen, strayed, finished>> /\ limit = 0 /\ kept' = table
      /\ limit' = QueryLimit(n)
      /\ rules' = (IF reads = "list" THEN parseSortingRules(asked) ELSE UnionRules) /\ rules' # NoRules
  BY DEF FirstPage
<1>2. limit' \in Nat
  BY <1>1, PagingAssumption DEF QueryLimit
<1>3. PossibleRows' = PossibleRows /\ IsTable(table)' = IsTable(table)
  BY <1>1 DEF PossibleRows, IsTable, SameRow
<1>4. RulesInUse'
  BY <1>1, RulesOfRequest DEF RulesInUse, PagesInv
<1>5. seen = <<>> /\ lastRow = NoLastRow /\ ~finished /\ ~strayed
  BY <1>1 DEF PagesInv
<1>6. \A r : Comes(r)'
  BY <1>1, <1>5 DEF Comes
<1>7. PagesFollow'
  <2>1. seen' = <<>> /\ seen' \in Seq(PossibleRows') /\ Len(seen') = 0 /\ 1..Len(seen') = {}
    BY <1>1, <1>5
  <2> QED
    BY <1>1, <1>5, <1>6, <2>1, Zenon DEF PagesFollow
<1> QED
  BY <1>1, <1>2, <1>3, <1>4, <1>5, <1>7 DEF PagesInv

\* A page follows the rows read so far.
LEMMA NextPageStep ==
  ASSUME PagesInv, NextPage
  PROVE  PagesInv'
<1> DEFINE page == IF reads = "list" THEN ListPage ELSE LogPage
           coming == {r \in table : Comes(r)}
<1>1. /\ limit # 0 /\ ~finished
      /\ seen' = seen \o page
      /\ lastRow' = (IF page = <<>> THEN lastRow ELSE page[Len(page)])
      /\ finished' = (Len(page) < limit)
      /\ strayed' = (strayed \/ (reads = "log" /\ lastRow # NoLastRow /\ Twins(lastRow) # {}))
      /\ UNCHANGED <<reads, table, rules, limit, kept, rowChanges>>
  BY Zenon DEF NextPage
<1>2. /\ reads \in {"list", "log"} /\ table \in SUBSET PossibleRows /\ IsTable(table) /\ kept \in SUBSET table
      /\ limit \in Nat /\ RulesInUse
  BY <1>1 DEF PagesInv
<1>3. /\ PossibleRows' = PossibleRows /\ IsTable(table)' = IsTable(table) /\ RulesInUse' = RulesInUse
      /\ subQueryNeeded(rules)' = subQueryNeeded(rules)
  BY <1>1 DEF PossibleRows, IsTable, SameRow, SameKey, RulesInUse, Fits, subQueryNeeded
<1>4. ASSUME ~strayed' PROVE PagesFollow'
  <2>1. PagesFollow /\ ~strayed /\ (reads = "log" /\ lastRow # NoLastRow => Twins(lastRow) = {})
    BY <1>1, <1>4 DEF PagesInv
  <2>2. /\ seen \in Seq(PossibleRows) /\ Len(seen) \in Nat
        /\ lastRow = IF seen = <<>> THEN NoLastRow ELSE seen[Len(seen)]
        /\ lastRow # NoLastRow => lastRow \in table \/ (reads = "list" /\ ~subQueryNeeded(rules))
        /\ \A i, j \in 1..Len(seen) : i < j => OrderBy(rules, seen[i], seen[j])
        /\ \A r \in kept : (\E i \in 1..Len(seen) : seen[i] = r) \/ Comes(r)
    BY <1>1, <2>1 DEF PagesFollow
  <2>3. /\ lastRow \in PossibleRows \union {NoLastRow} /\ NoLastRow \notin PossibleRows
        /\ seen = <<>> <=> lastRow = NoLastRow
    <3>1. seen # <<>> => seen[Len(seen)] \in PossibleRows
      BY <2>2
    <3>2. NoLastRow \notin PossibleRows
      BY PagingAssumption DEF PossibleRows
    <3> QED
      BY <2>2, <3>1, <3>2
  <2>4. FirstRows(page, coming, rules, limit)
    <3>1. CASE reads = "list"
      BY <1>2, <2>2, <2>3, <3>1, PageOfList
    <3>2. CASE reads = "log"
      <4>1. LogIsRead
        BY <1>2, <2>1, <2>2, <3>2 DEF LogIsRead, RulesInUse, PossibleRows
      <4> QED
        BY <3>2, <4>1, PageOfLog
    <3> QED
      BY <1>2, <3>1, <3>2
  <2> HIDE DEF page
  <2>5. /\ page \in Seq(coming) /\ Len(page) \in Nat /\ Len(page) <= limit
        /\ \A i \in 1..Len(page) : page[i] \in coming
        /\ \A i, j \in 1..Len(page) : i < j => OrderBy(rules, page[i], page[j])
        /\ \A r \in coming : \/ \E i \in 1..Len(page) : page[i] = r
                             \/ Len(page) >= limit /\ \A i \in 1..Len(page) : OrderBy(rules, page[i], r)
    BY <2>4 DEF FirstRows
  <2>6. coming \in SUBSET PossibleRows /\ coming \in SUBSET table /\ \A r \in coming : Comes(r)
    BY <1>2
  <2> HIDE DEF coming
  <2>7. page \in Seq(PossibleRows)
    BY <2>5, <2>6
  <2> DEFINE all == seen \o page
             s == Len(seen)
             p == Len(page)
  <2>8. /\ all \in Seq(PossibleRows) /\ Len(all) = s + p
        /\ \A i \in 1..(s + p) : all[i] = IF i <= s THEN seen[i] ELSE page[i - s]
    BY <2>2, <2>7, PlacesOfBoth
  <2>9. seen' = all
    BY <1>1
  <2> HIDE DEF all
  <2>10. s \in Nat /\ p \in Nat
    BY <2>2, <2>5
  <2>11. \A i \in 1..s : i \in 1..(s + p) /\ all[i] = seen[i]
    <3>1. \A i \in 1..(s + p) : all[i] = IF i <= s THEN seen[i] ELSE page[i - s]
      BY <2>8
    <3> QED
      BY <2>10, <3>1
  <2>12. \A i \in 1..p : s + i \in 1..(s + p) /\ all[s + i] = page[i]
    <3>1. \A i \in 1..(s + p) : all[i] = IF i <= s THEN seen[i] ELSE page[i - s]
      BY <2>8
    <3>2. ASSUME NEW i \in 1..p PROVE s + i \in 1..(s + p) /\ ~(s + i <= s) /\ (s + i) - s = i
      BY <2>10
    <3> QED
      BY <3>1, <3>2
  <2>13. lastRow' = IF all = <<>> THEN NoLastRow ELSE all[Len(all)]
    <3>1. CASE page = <<>>
      <4>1. p = 0 /\ lastRow' = lastRow
        BY <1>1, <3>1
      <4>2. Len(all) = s /\ (all = <<>> <=> s = 0) /\ (seen = <<>> <=> s = 0)
        BY <2>2, <2>8, <4>1
      <4>3. s # 0 => all[s] = seen[s]
        BY <2>2, <2>8, <4>1
      <4> QED
        BY <2>2, <4>1, <4>2, <4>3
    <3>2. CASE page # <<>>
      <4>1. p > 0 /\ lastRow' = page[p]
        BY <1>1, <2>5, <3>2
      <4>2. all # <<>> /\ all[s + p] = page[p]
        BY <2>2, <2>5, <2>8, <4>1
      <4> QED
        BY <2>8, <4>1, <4>2
    <3> QED
      BY <3>1, <3>2
  <2>14. lastRow' # NoLastRow => lastRow' \in table \/ (reads = "list" /\ ~subQueryNeeded(rules))
    <3>1. page # <<>> => page[Len(page)] \in table
      BY <2>5, <2>6
    <3> QED
      BY <1>1, <2>2, <3>1
  <2>15. /\ \A r, q, t \in PossibleRows : OrderBy(rules, r, q) /\ OrderBy(rules, q, t) => OrderBy(rules, r, t)
    BY <1>2, RulesSort
  <2>16. ASSUME NEW i \in 1..(s + p), NEW j \in 1..(s + p), i < j PROVE OrderBy(rules, all[i], all[j])
    <3>1. CASE j <= s
      <4>1. i \in 1..s /\ j \in 1..s /\ all[i] = seen[i] /\ all[j] = seen[j]
        BY <2>10, <2>11, <2>16, <3>1
      <4> QED
        BY <2>2, <2>16, <4>1
    <3>2. CASE i > s
      <4>0. i - s \in 1..p /\ j - s \in 1..p /\ i - s < j - s /\ s + (i - s) = i /\ s + (j - s) = j
        BY <2>10, <2>16, <3>2
      <4>1. i - s \in 1..p /\ j - s \in 1..p /\ i - s < j - s /\ all[i] = page[i - s] /\ all[j] = page[j - s]
        BY <2>12, <4>0
      <4> QED
        BY <2>5, <4>1
    <3>3. CASE i <= s /\ j > s
      <4>0. i \in 1..s /\ j - s \in 1..p /\ s + (j - s) = j /\ s # 0
        BY <2>10, <3>3
      <4>1. i \in 1..s /\ j - s \in 1..p /\ all[i] = seen[i] /\ all[j] = page[j - s] /\ s # 0
        BY <2>11, <2>12, <4>0
      <4>2. lastRow = seen[s] /\ s \in 1..s /\ seen[s] \in PossibleRows /\ seen[i] \in PossibleRows
        BY <2>2, <4>1
      <4>3. page[j - s] \in PossibleRows /\ OrderBy(rules, seen[s], page[j - s])
        BY <2>3, <2>5, <2>6, <4>1, <4>2 DEF Comes
      <4>4. i = s \/ OrderBy(rules, seen[i], seen[s])
        BY <2>2, <4>1, <4>2
      <4> QED
        BY <2>15, <4>1, <4>2, <4>3, <4>4
    <3> QED
      BY <2>2, <2>5, <3>1, <3>2, <3>3
  <2>17. ASSUME NEW r \in kept
         PROVE  (\E i \in 1..(s + p) : all[i] = r) \/ (~finished' /\ Comes(r)')
    <3>1. CASE \E i \in 1..s : seen[i] = r
      <4>1. PICK i \in 1..s : seen[i] = r
        BY <3>1
      <4>2. i \in 1..(s + p) /\ all[i] = r
        BY <2>11, <4>1
      <4> QED
        BY <4>2
    <3>2. CASE \E i \in 1..p : page[i] = r
      <4>1. PICK i \in 1..p : page[i] = r
        BY <3>2
      <4>2. s + i \in 1..(s + p) /\ all[s + i] = r
        BY <2>12, <4>1
      <4> QED
        BY <4>2
    <3>3. CASE p >= limit /\ \A i \in 1..p : OrderBy(rules, page[i], r)
      <4>0. limit \in Nat /\ limit # 0 /\ p >= limit
        BY <1>1, <1>2, <3>3
      <4>1. p \in 1..p /\ page # <<>> /\ ~finished'
        <5>1. page = <<>> => p = 0
          OBVIOUS
        <5>2. p \in 1..p /\ page # <<>> /\ ~(p < limit)
          BY <2>10, <4>0, <5>1
        <5> QED
          BY <1>1, <5>2, Zenon
      <4>2. OrderBy(rules, lastRow, r)' <=> OrderBy(rules, page[p], r)
        BY <1>1, <4>1 DEF OrderBy, asSQL
      <4> QED
        BY <3>3, <4>1, <4>2 DEF Comes
    <3>4. r \in coming \/ \E i \in 1..s : seen[i] = r
      BY <1>2, <2>2 DEF coming
    <3> QED
      BY <2>5, <3>1, <3>2, <3>3, <3>4
  <2> QED
    <3>1. /\ rules' = rules /\ reads' = reads /\ table' = table /\ kept' = kept
      BY <1>1
    <3>2. \A i, j \in 1..Len(seen)' : i < j => OrderBy(rules, seen[i], seen[j])'
      <4>1. \A i, j \in 1..(s + p) : i < j => OrderBy(rules, all[i], all[j])
        BY <2>16
      <4>2. \A x, y : OrderBy(rules, x, y)' <=> OrderBy(rules, x, y)
        BY <3>1 DEF OrderBy, asSQL
      <4> QED
        BY <2>8, <2>9, <4>1, <4>2
    <3> QED
      BY <1>3, <2>8, <2>9, <2>13, <2>14, <2>17, <3>1, <3>2 DEF PagesFollow
<1> QED
  BY <1>1, <1>2, <1>3, <1>4 DEF PagesInv

\* A row comes, changes or goes; if it was the last one read, the reading has strayed.
LEMMA ChangeRowStep ==
  ASSUME PagesInv, NEW r \in PossibleRows, ChangeRow(r)
  PROVE  PagesInv'
<1>1. /\ limit # 0 /\ ~finished
      /\ kept' = kept \intersect table'
      /\ strayed' = (strayed \/ (/\ lastRow # NoLastRow /\ SameRow(r, lastRow)
                                 /\ reads = "log" \/ subQueryNeeded(rules)))
      /\ UNCHANGED <<reads, rules, limit, lastRow, seen, finished>>
  BY DEF ChangeRow
<1>2. /\ reads \in {"list", "log"} /\ table \in SUBSET PossibleRows /\ IsTable(table) /\ kept \in SUBSET table
      /\ limit \in Nat /\ RulesInUse
  BY <1>1 DEF PagesInv
<1>3. /\ PossibleRows' = PossibleRows /\ RulesInUse' = RulesInUse
      /\ subQueryNeeded(rules)' = subQueryNeeded(rules)
      /\ \A x, y : SameRow(x, y)' <=> SameRow(x, y)
      /\ \A x, y : OrderBy(rules, x, y)' <=> OrderBy(rules, x, y)
      /\ \A x : Comes(x)' <=> Comes(x)
  BY <1>1 DEF PossibleRows, SameRow, SameKey, RulesInUse, Fits, subQueryNeeded, OrderBy, asSQL, Comes
<1>4. \A x, y : SameRow(x, y) <=> SameRow(y, x)
  BY DEF SameRow, SameKey
<1>5. PICK listed \in {table \ {r}, {s \in table : ~SameRow(s, r)} \union {r}} : table' = listed
  BY DEF ChangeRow
<1>6. table' \in SUBSET PossibleRows /\ \A x \in table' : x = r \/ (x \in table /\ ~SameRow(x, r)) \/ (r \notin table' /\ x \in table)
  BY <1>2, <1>5
<1>7. \A x, y \in table' : x # y => ~SameRow(x, y)
  BY <1>2, <1>4, <1>6, Zenon DEF IsTable
<1>8. IsTable(table)'
  BY <1>3, <1>7, Zenon DEF IsTable
<1>9. \A x \in table : x \in table' \/ SameRow(r, x)
  <2>1. SameRow(r, r)
    <3>1. reads = "log" => r.kind \in 1..5
      BY PagingAssumption DEF PossibleRows
    <3> QED
      BY <1>2, <3>1 DEF SameRow, SameKey
  <2>2. \A x \in table : x \in table' \/ x = r \/ SameRow(x, r)
    BY <1>5
  <2> QED
    BY <1>4, <2>1, <2>2, Zenon
<1>10. ASSUME ~strayed' PROVE PagesFollow'
  <2>1. PagesFollow /\ (lastRow # NoLastRow /\ SameRow(r, lastRow) => reads = "list" /\ ~subQueryNeeded(rules))
    BY <1>1, <1>2, <1>10 DEF PagesInv
  <2>2. lastRow # NoLastRow => lastRow \in table' \/ (reads = "list" /\ ~subQueryNeeded(rules))
    BY <1>9, <2>1 DEF PagesFollow
  <2>3. kept' \in SUBSET kept
    BY <1>1
  <2>4. /\ seen' = seen /\ lastRow' = lastRow /\ reads' = reads /\ finished' = finished
    BY <1>1
  <2>5. /\ seen \in Seq(PossibleRows)
        /\ lastRow = IF seen = <<>> THEN NoLastRow ELSE seen[Len(seen)]
        /\ \A i, j \in 1..Len(seen) : i < j => OrderBy(rules, seen[i], seen[j])
        /\ \A x \in kept' : (\E i \in 1..Len(seen) : seen[i] = x) \/ (~finished /\ Comes(x))
    BY <2>1, <2>3, Zenon DEF PagesFollow
  <2>6. \A i, j \in 1..Len(seen') : i < j => OrderBy(rules, seen[i], seen[j])'
    BY <1>3, <2>4, <2>5
  <2> QED
    BY <1>3, <2>2, <2>4, <2>5, <2>6, Zenon DEF PagesFollow
<1>11. kept' \in SUBSET table'
  BY <1>1
<1> QED
  BY <1>1, <1>2, <1>3, <1>6, <1>8, <1>10, <1>11 DEF PagesInv

\* Each of the steps of a client and of the services that write the rows.
LEMMA PagesStep == PagesInv /\ [PagingNext]_pagingVars => PagesInv'
<1> SUFFICES ASSUME PagesInv, [PagingNext]_pagingVars PROVE PagesInv'
  OBVIOUS
<1>1. CASE UNCHANGED pagingVars
  BY <1>1 DEF pagingVars, PagesInv, PagesFollow, PossibleRows, IsTable, SameRow, SameKey, RulesInUse, Fits,
     subQueryNeeded, OrderBy, asSQL, Comes
<1> QED
  BY <1>1, FirstPageStep, NextPageStep, ChangeRowStep, Zenon DEF PagingNext

\* Whoever reads a list or the log to its end gets every row that stayed once, in order.
LEMMA EndHasAll ==
  ASSUME PagesInv
  PROVE  PagesMissNothing
<1> DEFINE places(r) == {n \in DOMAIN seen : seen[n] = r}
<1> SUFFICES ASSUME finished, ~strayed
             PROVE  /\ \A r \in kept : Cardinality(places(r)) = 1
                    /\ \A r, s \in kept : OrderBy(rules, r, s) => \A m \in places(r), n \in places(s) : m < n
  BY Zenon DEF PagesMissNothing
<1>1. PagesFollow /\ RulesInUse
  BY DEF PagesInv
<1>2. /\ seen \in Seq(PossibleRows) /\ DOMAIN seen = 1..Len(seen) /\ Len(seen) \in Nat
      /\ \A i \in 1..Len(seen) : seen[i] \in PossibleRows
      /\ \A i, j \in 1..Len(seen) : i < j => OrderBy(rules, seen[i], seen[j])
      /\ \A r \in kept : \E i \in 1..Len(seen) : seen[i] = r
  BY <1>1 DEF PagesFollow
<1>3. /\ \A r, s, t \in PossibleRows : OrderBy(rules, r, s) /\ OrderBy(rules, s, t) => OrderBy(rules, r, t)
      /\ \A r \in PossibleRows : ~OrderBy(rules, r, r)
  BY <1>1, RulesSort DEF PagesInv
<1>4. ASSUME NEW r \in kept PROVE Cardinality(places(r)) = 1
  <2>1. PICK n \in 1..Len(seen) : seen[n] = r
    BY <1>2
  <2>2. ASSUME NEW m \in 1..Len(seen), seen[m] = r PROVE m = n
    <3>1. ~(m < n) /\ ~(n < m)
      BY <1>2, <1>3, <2>1, <2>2
    <3> QED
      BY <3>1
  <2>3. places(r) = {n}
    BY <1>2, <2>1, <2>2
  <2> QED
    BY <2>3, FS_Singleton
<1>5. ASSUME NEW r \in kept, NEW s \in kept, OrderBy(rules, r, s), NEW m \in places(r), NEW n \in places(s)
      PROVE  m < n
  <2>1. m \in 1..Len(seen) /\ n \in 1..Len(seen) /\ seen[m] = r /\ seen[n] = s
    BY <1>2
  <2>2. m # n
    BY <1>2, <1>3, <1>5, <2>1
  <2>3. ~(n < m)
    <3>1. n < m => OrderBy(rules, s, r)
      BY <1>2, <2>1
    <3>2. r \in PossibleRows /\ s \in PossibleRows
      BY <1>2, <2>1
    <3> QED
      BY <1>3, <1>5, <3>1, <3>2
  <2> QED
    BY <2>1, <2>2, <2>3
<1> QED
  BY <1>4, <1>5

\* The pages of a list and of the activity log, while rows come, change and go.
THEOREM PagesAreComplete == PagingSpec => []PagesMissNothing
<1>1. PagesInv => PagesMissNothing
  BY EndHasAll
<1> QED
  BY <1>1, PagesStart, PagesStep, PTL DEF PagingSpec

-----------------------------------------------------------------------------
(* The services side by side.                                              *)

\* The invariant of the service that moves.
ServicesInv ==
  /\ moving \in Components
  /\ moving = "grants" => GrantsInv
  /\ moving = "codes" => CodesInv
  /\ moving = "batches" => BatchTables
  /\ moving = "sessions" => SInv
  /\ moving = "grading" => GradingInv
  /\ moving = "threads" => ThreadsTypeOK
  /\ moving = "items" => ItemsInv

\* Every step is one of the service that moves.
LEMMA OnlyOneMoves ==
  ASSUME ServicesNext
  PROVE  /\ moving' = moving
         /\ moving = "grants" => GrantsNext
         /\ moving = "codes" => CodesNext
         /\ moving = "batches" => BatchesNext
         /\ moving = "sessions" => SessionsNext
         /\ moving = "grading" => GradingNext
         /\ moving = "threads" => ThreadsNext
         /\ moving = "items" => ItemsNext
BY DEF ServicesNext

\* Each service keeps its own invariant, and the others do not touch its variables.
LEMMA ServicesKeepInvariants ==
  /\ ServicesInit => ServicesInv
  /\ ServicesInv /\ [ServicesNext]_<<moving, vars, grantVars, codeVars, batchVars, sessionVars,
                       gradingVars, threadVars, itemVars, pagingVars>> => ServicesInv'
<1>1. ASSUME ServicesInit PROVE ServicesInv
  <2>1. /\ moving \in Components /\ GrantsInit /\ CodesInit /\ BatchesInit /\ SessionsInit
        /\ GradingInit /\ ThreadsInit /\ ItemsInit
    BY <1>1 DEF ServicesInit
  <2>2. ThreadsTypeOK
    BY <2>1 DEF ThreadsInit, ThreadsTypeOK
  <2> QED
    BY <2>1, <2>2, GrantsInitInv, CodesInitInv, BatchesStart, SessionsStart, GradingStart, ItemsInitInv, Zenon
    DEF ServicesInv
<1>2. ASSUME ServicesInv,
             [ServicesNext]_<<moving, vars, grantVars, codeVars, batchVars, sessionVars,
                gradingVars, threadVars, itemVars, pagingVars>>
      PROVE  ServicesInv'
  <2>1. /\ moving' = moving
        /\ moving = "grants" => [GrantsNext]_grantVars
        /\ moving = "codes" => [CodesNext]_codeVars
        /\ moving = "batches" => [BatchesNext]_batchVars
        /\ moving = "sessions" => [SessionsNext]_sessionVars
        /\ moving = "grading" => [GradingNext]_gradingVars
        /\ moving = "threads" => [ThreadsNext]_threadVars
        /\ moving = "items" => [ItemsNext]_itemVars
    BY <1>2, OnlyOneMoves
  <2> QED
    BY <1>2, <2>1, GrantsNextInv, CodesNextInv, BatchTablesStep, SessionsStep, GradingStep, ThreadsStep,
       ItemsNextInv, Zenon
    DEF ServicesInv
<1> QED
  BY <1>1, <1>2

\* The types of all the services of the composition.
THEOREM ServicesTypeCorrect == ServicesSpec => []ServicesTypeOK
<1>1. ASSUME ServicesInv PROVE ServicesTypeOK
  <2>1. (GrantsInv => GrantsTypeOK) /\ (CodesInv => CodesTypeOK)
    BY DEF GrantsInv, GrantRowOK, GrantsTypeOK, CodesInv
  <2> QED
    BY <1>1, <2>1, BatchesAreTyped, SessionsAreTyped, GradingIsTyped, ItemsAreTyped, Zenon
    DEF ServicesInv, ServicesTypeOK
<1> QED
  BY <1>1, ServicesKeepInvariants, PTL DEF ServicesSpec

\* What a service announces, another does: getPermissions and updateThread about help,
\* checkCode and joinGroupByCode about codes.
THEOREM AnnouncementsAreKept == ServicesSpec => []AnnouncedIsDone
<1>1. ASSUME ServicesInv PROVE AnnouncedIsDone
  <2>1. CodeCheckAgreesWithJoin
    BY DEF CodeCheckAgreesWithJoin, checkGroupCodeForUser, MayUseCode, BecomesMember
  <2> QED
    BY <1>1, <2>1, HelpListedIsAllowed DEF ServicesInv, AnnouncedIsDone
<1> QED
  BY <1>1, ServicesKeepInvariants, PTL DEF ServicesSpec
================================================================================
