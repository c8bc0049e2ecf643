---------------------------- MODULE ItemChildren ----------------------------
(***************************************************************************)
(* The rules of the services that write items: createItem, updateItem,     *)
(* updateItemString, deleteItem, createDependency and deleteDependency     *)
(* (app/api/items).  They decide who may link which items, how much a link *)
(* may let permissions propagate, which properties of an item go together, *)
(* and which language is its default.  What the links then do to the       *)
(* permissions is the subject of PermissionsPropagation; each handler runs *)
(* in one transaction with the rows it reads locked, so is one step here.  *)
(* Levels are the indexes of the database enums; in a boolean column       *)
(* FALSE is level 1 and TRUE level 2.                                      *)
(***************************************************************************)
EXTENDS Integers, FiniteSets

CONSTANTS
  FirstItems,    \* item -> type, of the items there are at the start
  NewItems,      \* ids that createItem may draw
  ItemEditors,   \* users who call the services; none of them temporary
  EditorRights,  \* editor -> item -> generated permissions on the item
  RootManagers,  \* editors who may manage the group whose root an item can be
  ItemLanguages, \* languages, the first item strings being in FirstLanguage
  FirstLanguage,
  ChildRequests, \* what a request may ask of the links: field -> level or Absent
  MaxItemCalls,  \* bound: calls of the services
  NoItem,        \* no parent
  Absent         \* a field absent from the request

Types == {"Chapter", "Task", "Skill"}
LinkFields == {"content", "upper", "grant", "watch", "edit", "help"}
TopLevel == [f \in LinkFields |-> IF f \in {"content", "upper"} THEN 3 ELSE 2]
AllItems == DOMAIN FirstItems \cup NewItems
Everything == [view |-> 5, grant_view |-> 6, watch |-> 4, edit |-> 4]

ASSUME ItemsAssumption ==
  /\ DOMAIN FirstItems \cap NewItems = {} /\ NoItem \notin AllItems
  /\ \A i \in DOMAIN FirstItems : FirstItems[i] \in Types
  /\ \A u \in ItemEditors, i \in AllItems :
       EditorRights[u][i] \in [view : 1..5, grant_view : 1..6, watch : 1..4, edit : 1..4]
  /\ RootManagers \subseteq ItemEditors /\ FirstLanguage \in ItemLanguages
  /\ \A r \in ChildRequests, f \in LinkFields : r[f] \in 1..TopLevel[f] \cup {Absent}

VARIABLES
  itemRow,      \* item -> its row
  itemLink,     \* <<parent, child>> -> levels of the row of items_items
  linkHands,    \* <<parent, child>> -> editors who have written the row since its insertion
  itemOwner,    \* item -> editors to whom its creation gave is_owner
  itemStrings,  \* rows of items_strings: <<item, language>>
  dependencies, \* rows of item_dependencies: <<prerequisite, dependent, grant_content_view>>
  rootItem,     \* root_activity_id and root_skill_id of the group
  itemCalls     \* calls so far

itemVars == <<itemRow, itemLink, linkHands, itemOwner, itemStrings, dependencies, rootItem, itemCalls>>

\* duration is NULL or not; the participants group is there or not.
Row(type, timed, entry, language) ==
  [type |-> type, timed |-> timed, entry |-> entry, participants |-> entry, language |-> language]

ItemsInit ==
  /\ itemRow = [i \in DOMAIN FirstItems |-> Row(FirstItems[i], FALSE, FALSE, FirstLanguage)]
  /\ itemLink = <<>> /\ linkHands = <<>>
  /\ itemOwner = [i \in DOMAIN FirstItems |-> {}]
  /\ itemStrings = (DOMAIN FirstItems) \X {FirstLanguage}
  /\ dependencies = {}
  /\ rootItem = [activity |-> NoItem, skill |-> NoItem]
  /\ itemCalls = 0

There == DOMAIN itemRow
Called == itemCalls' = itemCalls + 1

\* Generated permissions: an owner has all of them.
RightsOf(u, i) == IF u \in itemOwner[i] THEN Everything ELSE EditorRights[u][i]

\* The least set with the parents of the item and those of its members, the
\* rows of items_ancestors.
ItemAncestors(links, i) ==
  {a \in AllItems : \A S \in SUBSET AllItems :
     (\A l \in links : l[2] \in S \cup {i} => l[1] \in S) => a \in S}

-----------------------------------------------------------------------------
(* The levels of a link: what the rights on the child allow, and what a    *)
(* field absent from the request becomes.                                  *)

ContentAllowed(r) == IF r.grant_view = 1 THEN 1 ELSE IF r.grant_view < 3 THEN 2 ELSE 3
UpperAllowed(r) == IF r.grant_view >= 5 THEN 3 ELSE IF r.grant_view >= 4 THEN 2 ELSE 1
GrantAllowed(r) == IF r.grant_view >= 6 THEN 2 ELSE 1
WatchAllowed(r) == IF r.watch >= 4 THEN 2 ELSE 1
EditAllowed(r) == IF r.edit >= 4 THEN 2 ELSE 1
HelpAllowed(r) == IF r.grant_view >= 3 THEN 2 ELSE 1

LevelAllowed(r) ==
  [content |-> ContentAllowed(r), upper |-> UpperAllowed(r), grant |-> GrantAllowed(r),
   watch |-> WatchAllowed(r), edit |-> EditAllowed(r), help |-> HelpAllowed(r)]

\* as_content is never a default.
LevelByDefault(r) == [LevelAllowed(r) EXCEPT !.content = IF @ = 1 THEN 1 ELSE 2]

\* Mutant: any value passes once the link exists.
ExistingLinkPasses(old, r, request) ==
  \A f \in LinkFields : request[f] # Absent => old # {} \/ request[f] <= LevelAllowed(r)[f]

\* `old' has the link's levels, or is empty: the same or a lower level is
\* always accepted, any other needs the rights.
LevelsAccepted(old, r, request) ==
  \A f \in LinkFields : request[f] # Absent =>
    request[f] <= LevelAllowed(r)[f] \/ \E levels \in old : request[f] <= levels[f]

NewLevels(old, r, request) ==
  [f \in LinkFields |->
     IF request[f] # Absent THEN request[f]
     ELSE IF old = {} THEN LevelByDefault(r)[f]
     ELSE (CHOOSE levels \in old : TRUE)[f]]

-----------------------------------------------------------------------------
(* The children of a request, for an item that has `old' children now.     *)

\* generateChildrenInfoMap: the visible ones.
ChildrenInfo(u, C) == {c \in C \cap There : RightsOf(u, c).view >= 2}

\* A child that is not visible is accepted only if it is a child already; it
\* counts as one on which the user has no rights, of no type.
ChildrenValid(u, C, old) == C \subseteq ChildrenInfo(u, C) \cup old
RightsOnChild(u, c) ==
  IF c \in ChildrenInfo(u, {c}) THEN RightsOf(u, c)
  ELSE [view |-> 1, grant_view |-> 1, watch |-> 1, edit |-> 1]

ChildrenAllowed(type, C) == C = {} \/ type # "Task"
ChildTypesValid(u, type, C) ==
  type = "Skill" \/ \A c \in ChildrenInfo(u, C) : itemRow[c].type # "Skill"

OldLevels(i, c) == {itemLink[l] : l \in {<<i, c>>} \cap DOMAIN itemLink}
OldChildren(i) == {c \in AllItems : <<i, c>> \in DOMAIN itemLink}

\* validateChildrenFieldsAndApplyDefaults for every child, then the rows of
\* the parent are those of the list.
LinksAccepted(u, i, C, request) ==
  \A c \in C : LevelsAccepted(OldLevels(i, c), RightsOnChild(u, c), request)

LinksOf(u, i, C, request) ==
  [l \in {i} \X C |-> NewLevels(OldLevels(i, l[2]), RightsOnChild(u, l[2]), request)]
HandsOf(u, i, C) ==
  [l \in {i} \X C |-> {u} \cup (IF l \in DOMAIN linkHands THEN linkHands[l] ELSE {})]

Without(f, D) == [x \in DOMAIN f \ D |-> f[x]]
Merged(f, g) == [x \in DOMAIN f \cup DOMAIN g |-> IF x \in DOMAIN g THEN g[x] ELSE f[x]]

-----------------------------------------------------------------------------
(* duration and requires_explicit_entry, given (TRUE or FALSE: the duration*)
(* is NULL or not) or absent.                                              *)

ValueOr(value, otherwise) == IF value = Absent THEN otherwise ELSE value

\* createItem: explicit entry cannot be given as FALSE, whatever the duration.
MayStartWith(type, timed, entry) ==
  /\ type = "Skill" => TRUE \notin {timed, entry}
  /\ timed = TRUE => entry = TRUE
  /\ entry # FALSE

\* Mutant: only what the request gives is looked at, not what the row has.
EntryRuleOfRequestOnly(row, timed, entry) ==
  /\ row.type = "Skill" => TRUE \notin {timed, entry}
  /\ timed = TRUE => ValueOr(entry, row.entry)

\* updateItem: whatever is not given counts with the value it has.
MayChangeTo(row, timed, entry) ==
  LET newTimed == ValueOr(timed, row.timed)
      newEntry == ValueOr(entry, row.entry)
      changed == newTimed # row.timed \/ newEntry # row.entry
  IN
  /\ row.type = "Skill" => TRUE \notin {timed, entry}
  /\ changed => newEntry \/ ~newTimed

\* createContestParticipantsGroup once, when entry is given as TRUE.
WithProperties(row, p) ==
  [row EXCEPT !.timed = ValueOr(p.timed, @), !.entry = ValueOr(p.entry, @),
              !.participants = @ \/ p.entry = TRUE, !.language = ValueOr(p.language, @)]

-----------------------------------------------------------------------------

MayManageChildrenOf(u, i) ==
  i \in There /\ RightsOf(u, i).view >= 3 /\ RightsOf(u, i).edit >= 2

ParentType(parent) == IF parent = NoItem THEN "" ELSE itemRow[parent].type

\* The links the new item gets from its parent: the creator owns the item, so
\* nothing is checked.
ParentLink(request) ==
  [f \in LinkFields |-> ValueOr(request[f], IF f = "content" THEN 2 ELSE TopLevel[f])]

\* Cycles are looked for only if there is a parent: a new item has no other.
NoCycleThroughParent(parent, C) ==
  parent = NoItem \/ C \cap ({parent} \cup ItemAncestors(DOMAIN itemLink, parent)) = {}

setNewItemAsRoot(asRoot, type, n) ==
  rootItem' = IF ~asRoot THEN rootItem
              ELSE IF type = "Skill" THEN [rootItem EXCEPT !.skill = n]
              ELSE [rootItem EXCEPT !.activity = n]

\* registerAddItemValidators
TypeSkillValid(type, parent) == type = "Skill" => ParentType(parent) \in {"", "Skill"}
AsRootValid(u, asRoot) == asRoot => u \in RootManagers
LanguageValid(language) == language \in ItemLanguages

NewItemValid(u, type, parent, asRoot, p, C) ==
  /\ parent # NoItem => MayManageChildrenOf(u, parent)
  /\ ParentType(parent) # "Task"
  /\ AsRootValid(u, asRoot) /\ LanguageValid(p.language)
  /\ TypeSkillValid(type, parent) /\ MayStartWith(type, p.timed, p.entry)
  /\ ChildrenValid(u, C, {}) /\ ChildrenAllowed(type, C) /\ ChildTypesValid(u, type, C)

\* POST /items
AddItem(u, n, type, parent, asRoot, p, C, request) ==
  /\ Called
  /\ n \notin There
  /\ parent # NoItem \/ asRoot
  /\ NewItemValid(u, type, parent, asRoot, p, C)
  /\ NoCycleThroughParent(parent, C) /\ LinksAccepted(u, n, C, request)
  /\ LET above == {parent} \ {NoItem}
     IN
     /\ itemLink' = Merged(Merged(itemLink, LinksOf(u, n, C, request)),
                           [l \in above \X {n} |-> ParentLink(request)])
     /\ linkHands' = Merged(linkHands, [l \in ({n} \X C) \cup (above \X {n}) |-> {u}])
  /\ itemRow' = Merged(itemRow, [i \in {n} |-> Row(type, p.timed = TRUE, p.entry = TRUE, p.language)])
  /\ itemOwner' = Merged(itemOwner, [i \in {n} |-> {u}])
  /\ itemStrings' = itemStrings \cup {<<n, p.language>>}
  /\ setNewItemAsRoot(asRoot, type, n)
  /\ UNCHANGED dependencies

NoProperties == [timed |-> Absent, entry |-> Absent, language |-> Absent]

\* The rows of the children no more in the list are deleted before cycles are
\* looked for in items_ancestors, which still has them.
NoCycleThrough(i, C) == C \cap ({i} \cup ItemAncestors(DOMAIN itemLink, i)) = {}

\* PUT /items/{item_id}, with the list C of children unless `list' is FALSE.
ChangeItem(u, i, p, list, C, request) ==
  /\ Called
  /\ MayManageChildrenOf(u, i)
  /\ MayChangeTo(itemRow[i], p.timed, p.entry)
  /\ p # NoProperties => RightsOf(u, i).edit >= 3
  /\ p.language # Absent => <<i, p.language>> \in itemStrings
  /\ itemRow' = [itemRow EXCEPT ![i] = WithProperties(@, p)]
  /\ IF list
     THEN /\ ChildrenValid(u, C, OldChildren(i))
          /\ ChildrenAllowed(itemRow[i].type, C) /\ ChildTypesValid(u, itemRow[i].type, C)
          /\ NoCycleThrough(i, C) /\ LinksAccepted(u, i, C, request)
          /\ itemLink' = Merged(Without(itemLink, {i} \X AllItems), LinksOf(u, i, C, request))
          /\ linkHands' = Merged(Without(linkHands, {i} \X AllItems), HandsOf(u, i, C))
     ELSE UNCHANGED <<itemLink, linkHands>>
  /\ UNCHANGED <<itemOwner, itemStrings, dependencies, rootItem>>

\* PUT /items/{item_id}/strings/{language_tag}; Absent is "default".
updateItemString(u, i, language) ==
  /\ Called
  /\ i \in There /\ RightsOf(u, i).view >= 3 /\ RightsOf(u, i).edit >= 3
  /\ itemStrings' = itemStrings \cup {<<i, ValueOr(language, itemRow[i].language)>>}
  /\ UNCHANGED <<itemRow, itemLink, linkHands, itemOwner, dependencies, rootItem>>

\* DELETE /items/{item_id}: foreign keys delete what hangs on the row.
RemoveItem(u, i) ==
  /\ Called
  /\ i \in There /\ u \in itemOwner[i]
  /\ OldChildren(i) = {}
  /\ itemRow' = Without(itemRow, {i})
  /\ itemOwner' = Without(itemOwner, {i})
  /\ itemLink' = Without(itemLink, AllItems \X {i})
  /\ linkHands' = Without(linkHands, AllItems \X {i})
  /\ itemStrings' = itemStrings \ ({i} \X ItemLanguages)
  /\ dependencies' = {d \in dependencies : i \notin {d[1], d[2]}}
  /\ rootItem' = [k \in DOMAIN rootItem |-> IF rootItem[k] = i THEN NoItem ELSE rootItem[k]]

\* POST and DELETE /items/{dependent_item_id}/prerequisites/{prerequisite_item_id}
createDependency(u, prerequisite, dependent, grants) ==
  /\ Called
  /\ {prerequisite, dependent} \subseteq There
  /\ RightsOf(u, prerequisite).view >= 2
  /\ RightsOf(u, dependent).edit >= 3 /\ (grants => RightsOf(u, dependent).grant_view >= 3)
  /\ ~\E d \in dependencies : d[1] = prerequisite /\ d[2] = dependent
  /\ dependencies' = dependencies \cup {<<prerequisite, dependent, grants>>}
  /\ UNCHANGED <<itemRow, itemLink, linkHands, itemOwner, itemStrings, rootItem>>

deleteDependency(u, prerequisite, dependent) ==
  /\ Called
  /\ dependent \in There /\ RightsOf(u, dependent).edit >= 3
  /\ dependencies' = {d \in dependencies : d[1] # prerequisite \/ d[2] # dependent}
  /\ dependencies' # dependencies
  /\ UNCHANGED <<itemRow, itemLink, linkHands, itemOwner, itemStrings, rootItem>>

-----------------------------------------------------------------------------

\* The requests: on the properties, on the links, or a new item with either.
EntryRequests == [timed : BOOLEAN \cup {Absent}, entry : BOOLEAN \cup {Absent}, language : {Absent}]
LanguageRequests == [timed : {Absent}, entry : {Absent}, language : ItemLanguages]
NewItemProperties == [timed : {TRUE, Absent}, entry : {TRUE, Absent}, language : {FirstLanguage}]
PlainItem == [timed |-> Absent, entry |-> Absent, language |-> FirstLanguage]
AllAbsent == [f \in LinkFields |-> Absent]

ItemsNext ==
  /\ itemCalls < MaxItemCalls
  /\ \E u \in ItemEditors :
       \/ \E n \in NewItems, type \in Types, parent \in There \cup {NoItem} :
            \/ \E asRoot \in BOOLEAN, p \in NewItemProperties :
                 AddItem(u, n, type, parent, asRoot, p, {}, AllAbsent)
            \/ \E C \in SUBSET There, request \in ChildRequests :
                 AddItem(u, n, type, parent, parent = NoItem, PlainItem, C, request)
       \/ \E i \in There :
            \/ \E p \in EntryRequests \cup LanguageRequests :
                 ChangeItem(u, i, p, FALSE, {}, AllAbsent)
            \/ \E C \in SUBSET There, request \in ChildRequests :
                 ChangeItem(u, i, NoProperties, TRUE, C, request)
            \/ \E language \in ItemLanguages \cup {Absent} : updateItemString(u, i, language)
            \/ RemoveItem(u, i)
            \/ \E j \in There : \/ \E grants \in BOOLEAN : createDependency(u, j, i, grants)
                                \/ deleteDependency(u, j, i)

ItemsSpec == ItemsInit /\ [][ItemsNext]_itemVars

\* Items are linked only as their types allow and without cycles, every row is
\* about items that are there; a timed item requires explicit entry, an item
\* that requires it has a participants group, none of that is true of skills;
\* and every item has its strings in its default language.
ItemsTypeOK ==
  /\ There \subseteq AllItems
  /\ itemRow \in [There -> [type : Types, timed : BOOLEAN, entry : BOOLEAN, participants : BOOLEAN,
                            language : ItemLanguages]]
  /\ \A i \in There :
       /\ itemRow[i].timed => itemRow[i].entry
       /\ itemRow[i].entry => itemRow[i].participants /\ itemRow[i].type # "Skill"
       /\ <<i, itemRow[i].language>> \in itemStrings
       /\ i \notin ItemAncestors(DOMAIN itemLink, i)
  /\ DOMAIN itemLink = DOMAIN linkHands /\ DOMAIN itemOwner = There
  /\ \A l \in DOMAIN itemLink :
       /\ {l[1], l[2]} \subseteq There
       /\ itemRow[l[1]].type # "Task"
       /\ itemRow[l[2]].type = "Skill" => itemRow[l[1]].type = "Skill"
       /\ \A f \in LinkFields : itemLink[l][f] \in 1..TopLevel[f]
  /\ itemStrings \subseteq There \X ItemLanguages
  /\ dependencies \subseteq There \X There \X BOOLEAN
  /\ rootItem.activity # NoItem => itemRow[rootItem.activity].type # "Skill"
  /\ rootItem.skill # NoItem => itemRow[rootItem.skill].type = "Skill"

\* A link propagates no more than one of those who have written it since it
\* was inserted could give: successive editors, the ones without rights who may
\* leave or lower a level included, never raise it together, and a child taken
\* out of the list and put back starts again from the rights of who puts it
\* back (validateChildrenFieldsAndApplyDefaults, the comments of itemChild).
PropagationWasAllowed ==
  \A l \in DOMAIN itemLink, f \in LinkFields :
    \E u \in linkHands[l] : itemLink[l][f] <= LevelAllowed(RightsOf(u, l[2]))[f]
=============================================================================
