------------------------ MODULE PermissionsPropagation ------------------------
(***************************************************************************)
(* The propagation of permissions: from the permissions granted to a group *)
(* on items (permissions_granted) and the relations between items          *)
(* (items_items) to the permissions the group has (permissions_generated). *)
(* Nothing in it relates two groups, so the module is about one group.     *)
(*                                                                         *)
(* SQL triggers mark the pairs (group, item) to recompute: 'self' (the     *)
(* item), 'children' (the items below it).  After its commit a service     *)
(* calls the propagation, a loop whose every turn is a transaction of its  *)
(* own; other services commit between two turns, and the process may die   *)
(* between the commit and the call, or between two turns.  saveGrade runs  *)
(* the loop inside its transaction, on marks of its own.                   *)
(***************************************************************************)
EXTENDS Integers, FiniteSetsExt

CONSTANTS
    Items,       \* ids of items
    Existing,    \* items that exist at the start
    Linked,      \* relations between them at the start
    Grants,      \* permissions managers give (permissions_granted rows)
    Kinds,       \* propagation rules of a relation (columns of items_items)
    NoGrant,     \* no permissions_granted row
    MaxServices  \* bound on the calls of services

Permissions == [view : 1..5, grant_view : 1..6, watch : 1..4, edit : 1..4, owner : BOOLEAN]

RelationKinds ==
    [content : {"none", "as_info", "as_content"},
     upper : {"use_content_view_propagation", "as_content_with_descendants", "as_is"},
     grant_view : BOOLEAN, watch : BOOLEAN, edit : BOOLEAN]

ASSUME PermissionConstants ==
    /\ IsFiniteSet(Items) /\ Existing \subseteq Items
    /\ Linked \subseteq [parent : Existing, child : Existing, kind : Kinds]
    /\ Grants \subseteq Permissions /\ Kinds \subseteq RelationKinds
    /\ NoGrant \notin Permissions
    /\ MaxServices \in Nat

\* The relations at the start have no cycle: every set of items has one without a parent in it.
ASSUME LinkedAcyclic ==
    \A T \in SUBSET Existing : T # {} =>
        \E x \in T : \A r \in Linked : r.child = x => r.parent \notin T

\* permissions_granted.origin (group_membership, self and item_unlocking are what the services write)
Origins == {"group_membership", "self", "item_unlocking"}

NoPermissions == [view |-> 1, grant_view |-> 1, watch |-> 1, edit |-> 1, owner |-> FALSE]
Ownership == [view |-> 1, grant_view |-> 1, watch |-> 1, edit |-> 1, owner |-> TRUE]
ContentAccess == [view |-> 3, grant_view |-> 1, watch |-> 1, edit |-> 1, owner |-> FALSE]

VARIABLES
    items,      \* items
    rel,        \* items_items
    granted,    \* permissions_granted of the group, by item and origin
    rows,       \* items with a permissions_generated row for the group
    generated,  \* permissions_generated (NoPermissions where there is no row)
    marks,      \* permissions_propagate: [self, children], sets of items
    syncMarks,  \* permissions_propagate_sync of the connection of saveGrade
    inSync,     \* the transaction of a saveGrade is open
    due,        \* a service has committed and not yet called the propagation
    running,    \* the loop is running
    lost,       \* a process died with its call or its loop undone, and no loop ended since
    unlinked,   \* items that lost a parent and were not recomputed since
    calls       \* services called so far

vars == <<items, rel, granted, rows, generated, marks, syncMarks, inSync, due, running,
          lost, unlinked, calls>>

dataVars == <<items, rel, granted, unlinked>>

NoMarks == [self |-> {}, children |-> {}]

(***************************************************************************)
(* The computation.                                                        *)
(***************************************************************************)
GreatestOf(S) == Max({1} \cup S)

\* What a parent's can_view_generated gives through a relation.
ViewThrough(view, kind) ==
    IF view <= 2 THEN 1
    ELSE IF view = 3 \/ kind.upper = "use_content_view_propagation"
         THEN [none |-> 1, as_info |-> 2, as_content |-> 3][kind.content]
         ELSE IF kind.upper = "as_content_with_descendants" THEN 4 ELSE view

\* Mutant: the permission to give the permission away goes down too.
Uncapped(propagates, level, most) == IF propagates THEN level ELSE 1

LevelThrough(propagates, level, most) ==
    IF ~propagates THEN 1 ELSE IF level < most THEN level ELSE most

\* own: the group's permissions_granted rows on the item; above: the permissions_generated
\* rows of its parents, each with the relation that leads from it.
Aggregate(own, above) ==
    IF \E g \in own : g.owner
    THEN [view |-> 5, grant_view |-> 6, watch |-> 4, edit |-> 4, owner |-> TRUE]
    ELSE [view |-> GreatestOf({g.view : g \in own}
                              \cup {ViewThrough(a.parent.view, a.kind) : a \in above}),
          grant_view |-> GreatestOf({g.grant_view : g \in own}
                \cup {LevelThrough(a.kind.grant_view, a.parent.grant_view, 5) : a \in above}),
          watch |-> GreatestOf({g.watch : g \in own}
                \cup {LevelThrough(a.kind.watch, a.parent.watch, 3) : a \in above}),
          edit |-> GreatestOf({g.edit : g \in own}
                \cup {LevelThrough(a.kind.edit, a.parent.edit, 3) : a \in above}),
          owner |-> FALSE]

GrantedOn(i) == {granted[i][o] : o \in Origins} \ {NoGrant}
Above(i) == {[kind |-> r.kind, parent |-> generated[r.parent]] :
                r \in {x \in rel : x.child = i /\ x.parent \in rows}}

Computed(i) == Aggregate(GrantedOn(i), Above(i))

ChildrenOf(S) == {r.child : r \in {x \in rel : x.parent \in S}}

\* items_ancestors, which every service that changes items_items brings up to date: the
\* least set with the parents of the item and the parents of its members.
AncestorsOf(i) ==
    {a \in Items : \A S \in SUBSET Items :
        (\A r \in rel : r.child \in S \cup {i} => r.parent \in S) => a \in S}

(***************************************************************************)
(* One turn of the loop, on the marks m.                                   *)
(***************************************************************************)
\* Mutant: INSERT IGNORE, a child that is marked already keeps its mark.
ChildrenMarkedIfUnmarked(m) == m.self \cup (ChildrenOf(m.children \cap rows) \ m.children)

\* INSERT ... ON DUPLICATE KEY UPDATE propagate_to = 'self'
MarkChildrenOfChildrenAsSelf(m) == m.self \cup ChildrenOf(m.children \cap rows)

\* 'self' pairs that are not below other 'self' pairs.
Processing(m) ==
    LET self == MarkChildrenOfChildrenAsSelf(m)
    IN  {i \in self : AncestorsOf(i) \cap self = {}}

\* Mutant: the processed pairs stay to be processed.
MarksKept(m, P) == [self |-> MarkChildrenOfChildrenAsSelf(m), children |-> {}]

MarksAfter(m, P) == [self |-> MarkChildrenOfChildrenAsSelf(m) \ P, children |-> P]

UpdatePermissionsGenerated(P) ==
    /\ rows' = rows \cup P
    /\ generated' = [i \in Items |-> IF i \in P THEN Computed(i) ELSE generated[i]]
    /\ unlinked' = unlinked \ P
    /\ UNCHANGED <<items, rel, granted>>

(***************************************************************************)
(* Triggers.                                                               *)
(***************************************************************************)
\* REPLACE INTO permissions_propagate ... 'self'
MarkSelf(m, i) == [self |-> m.self \cup {i}, children |-> m.children \ {i}]

\* INSERT IGNORE INTO permissions_propagate ... 'children'
MarkChildren(m, S) ==
    [self |-> m.self, children |-> m.children \cup ((S \cap rows) \ m.self)]

\* The triggers of permissions_granted, called with the new row (or none).
GrantedChanged(m, i, o, g) == IF granted[i][o] = g THEN m ELSE MarkSelf(m, i)

(***************************************************************************)
(* Services.  The propagation is called after the commit.                  *)
(***************************************************************************)
Service ==
    /\ ~inSync /\ calls < MaxServices
    /\ calls' = calls + 1
    /\ due' = TRUE
    /\ UNCHANGED <<syncMarks, inSync, running, lost>>

SetGranted(i, o, g) == granted' = [granted EXCEPT ![i][o] = g]

\* PUT /groups/{source_group_id}/permissions/{group_id}/{item_id}, with a modification; who
\* may give what, and the corrections of inconsistent values, are in the choice of Grants.
UpdatePermissions(i, g) ==
    /\ Service
    /\ i \in items /\ granted[i]["group_membership"] # g
    /\ SetGranted(i, "group_membership", g)
    /\ marks' = GrantedChanged(marks, i, "group_membership", g)
    /\ UNCHANGED <<items, rel, rows, generated, unlinked>>

\* The groups that gave permissions, or their users, are deleted.
DeleteSource(i, o) ==
    /\ Service
    /\ i \in items /\ granted[i][o] # NoGrant
    /\ SetGranted(i, o, NoGrant)
    /\ marks' = GrantedChanged(marks, i, o, NoGrant)
    /\ UNCHANGED <<items, rel, rows, generated, unlinked>>

\* applyDependency, and the unlocking of items by a results propagation after a commit.
Unlock(i) ==
    /\ Service
    /\ i \in items
    /\ SetGranted(i, "item_unlocking", ContentAccess)
    /\ marks' = GrantedChanged(marks, i, "item_unlocking", ContentAccess)
    /\ UNCHANGED <<items, rel, rows, generated, unlinked>>

\* Mutant: the ancestors of the item are not looked at.
OnlyOtherItems(i, C) == i \notin C

CanBecomeChildren(i, C) == C \cap ({i} \cup AncestorsOf(i)) = {}

RelationsTo(i, kindOf) == {[parent |-> i, child |-> c, kind |-> kindOf[c]] : c \in DOMAIN kindOf}

\* PUT /items/{item_id} with children.  Triggers fire on the rows deleted, inserted, and
\* updated with other propagation rules.
UpdateItem(i, kindOf) ==
    LET old == {r \in rel : r.parent = i}
        new == RelationsTo(i, kindOf)
    IN  /\ Service
        /\ i \in items
        /\ CanBecomeChildren(i, DOMAIN kindOf)
        /\ rel' = (rel \ old) \cup new
        /\ marks' = IF old = new THEN marks ELSE MarkChildren(marks, {i})
        /\ unlinked' = unlinked \cup ({r.child : r \in old} \ DOMAIN kindOf)
        /\ UNCHANGED <<items, granted, rows, generated>>

\* POST /items.  The creator becomes the owner; P is the parent (none for a root), and
\* kindOf gives the children.
CreateItem(i, isCreator, P, kind, kindOf) ==
    LET own == IF isCreator THEN Ownership ELSE NoGrant
    IN  /\ Service
        /\ i \notin items
        /\ DOMAIN kindOf \cap (P \cup UNION {AncestorsOf(p) : p \in P}) = {}
        /\ items' = items \cup {i}
        /\ SetGranted(i, "self", own)
        /\ rel' = rel \cup RelationsTo(i, kindOf)
                      \cup {[parent |-> p, child |-> i, kind |-> kind] : p \in P}
        /\ marks' = MarkChildren(GrantedChanged(marks, i, "self", own), P \cup {i})
        /\ UNCHANGED <<rows, generated, unlinked>>

\* Mutant: the marks of the item are not deleted with it.
MarksStay(m, i) == m

CascadeToMarks(m, i) == [self |-> m.self \ {i}, children |-> m.children \ {i}]

\* DELETE /items/{item_id}, by an owner (this group or another): foreign keys delete what hangs on the item; no trigger fires.
DeleteItem(i) ==
    /\ Service
    /\ i \in items /\ ChildrenOf({i}) = {}
    /\ items' = items \ {i}
    /\ rel' = {r \in rel : r.child # i}
    /\ granted' = [granted EXCEPT ![i] = [o \in Origins |-> NoGrant]]
    /\ rows' = rows \ {i}
    /\ generated' = [generated EXCEPT ![i] = NoPermissions]
    /\ marks' = CascadeToMarks(marks, i)
    /\ unlinked' = unlinked \ {i}

(***************************************************************************)
(* saveGrade: the loop runs in its transaction, on its own marks.  The     *)
(* statements take locks on what they read, so the transaction is one step *)
(* for the others, here a sequence of turns nobody else comes between.     *)
(***************************************************************************)
SaveGradeUnlocks(i) ==
    /\ ~inSync /\ calls < MaxServices
    /\ i \in items
    /\ calls' = calls + 1
    /\ inSync' = TRUE
    /\ SetGranted(i, "item_unlocking", ContentAccess)
    /\ syncMarks' = GrantedChanged(syncMarks, i, "item_unlocking", ContentAccess)
    /\ UNCHANGED <<items, rel, rows, generated, marks, due, running, lost, unlinked>>

SyncTurn ==
    LET P == Processing(syncMarks)
    IN  /\ inSync
        /\ UpdatePermissionsGenerated(P)
        /\ syncMarks' = MarksAfter(syncMarks, P)
        /\ inSync' = (P # {})
        /\ UNCHANGED <<marks, due, running, lost, calls>>

(***************************************************************************)
(* The propagation after commits.                                          *)
(***************************************************************************)
StartPropagation ==
    /\ due
    /\ due' = FALSE /\ running' = TRUE
    /\ UNCHANGED <<dataVars, rows, generated, marks, syncMarks, inSync, lost, calls>>

Turn ==
    LET P == Processing(marks)
    IN  /\ running /\ ~inSync
        /\ UpdatePermissionsGenerated(P)
        /\ marks' = MarksAfter(marks, P)
        /\ running' = (P # {})
        /\ lost' = (lost /\ P # {})
        /\ UNCHANGED <<syncMarks, inSync, due, calls>>

\* The process dies, or the endpoint that accepted the call does.
Die ==
    /\ due \/ running
    /\ due' = FALSE /\ running' = FALSE /\ lost' = TRUE
    /\ UNCHANGED <<dataVars, rows, generated, marks, syncMarks, inSync, calls>>

-------------------------------------------------------------------------------
Init ==
    /\ items = Existing /\ rel = Linked
    /\ granted = [i \in Items |-> [o \in Origins |-> NoGrant]]
    /\ rows = {} /\ generated = [i \in Items |-> NoPermissions]
    /\ marks = NoMarks /\ syncMarks = NoMarks
    /\ inSync = FALSE /\ due = FALSE /\ running = FALSE /\ lost = FALSE
    /\ unlinked = {} /\ calls = 0

Next ==
    \/ \E i \in Items, g \in Grants : UpdatePermissions(i, g)
    \/ \E i \in Items, o \in Origins : DeleteSource(i, o)
    \/ \E i \in Items : Unlock(i) \/ DeleteItem(i) \/ SaveGradeUnlocks(i)
    \/ \E i \in Items, C \in SUBSET items : \E kindOf \in [C -> Kinds] : UpdateItem(i, kindOf)
    \/ \E i \in Items, P \in {{}} \cup {{p} : p \in items}, C \in SUBSET items,
          isCreator \in BOOLEAN, kind \in Kinds :
          \E kindOf \in [C -> Kinds] : CreateItem(i, isCreator, P, kind, kindOf)
    \/ SyncTurn \/ StartPropagation \/ Turn \/ Die

\* A loop that has started goes on to its end unless its process dies.
Spec == Init /\ [][Next]_vars /\ WF_vars(Turn) /\ WF_vars(SyncTurn)

-------------------------------------------------------------------------------
\* The variables have their types; marks and rows are of existing items, a pair has one
\* mark, only a pair with a row is marked 'children', and no mark of a synchronous
\* propagation outlives its transaction.
TypeOK ==
    /\ items \subseteq Items /\ rows \subseteq items /\ unlinked \subseteq items
    /\ rel \subseteq [parent : items, child : items, kind : Kinds]
    /\ granted \in [Items -> [Origins -> Permissions \cup {NoGrant}]]
    /\ generated \in [Items -> Permissions]
    /\ \A m \in {marks, syncMarks} :
          /\ m = [self |-> m.self, children |-> m.children]
          /\ m.self \subseteq items /\ m.children \subseteq rows
          /\ m.self \cap m.children = {}
    /\ {inSync, due, running, lost} \subseteq BOOLEAN
    /\ ~inSync => syncMarks = NoMarks
    /\ calls \in 0..MaxServices

IsMarked(i) ==
    \E m \in {marks, syncMarks} :
        \/ i \in m.self
        \/ \E r \in rel : r.child = i /\ r.parent \in m.self \cup m.children

\* computeAllAccess and the triggers: in every state, between any two transactions and
\* after any crash, a pair whose stored permissions are not what its grants and its parents
\* give is marked, itself or at a parent, so that the next loop comes to it.  (A former
\* child is the exception: see FormerChildrenAreUpToDate.)
StaleIsMarked ==
    \A i \in items : generated[i] = Computed(i) \/ i \in unlinked \/ IsMarked(i)

NoLoop == ~due /\ ~running /\ ~lost /\ ~inSync

\* computeAllAccess: when the loops have ended, the permissions of every item are what its
\* grants and its parents' permissions give, whatever was committed between two turns and
\* whichever calls died before the last loop.
IdleMeansUpToDate ==
    NoLoop => \A i \in items \ unlinked : generated[i] = Computed(i)

\* computeAllAccess, LEAST(...): *_with_grant permissions and ownership come from a grant on
\* the item itself, never from a parent, also while a propagation is under way.
TopLevelsComeFromGrants ==
    \A i \in items \ (marks.self \cup syncMarks.self) :
        LET best == generated[i]
            own == GrantedOn(i)
        IN  \/ \E g \in own : g.owner
            \/ /\ ~best.owner
               /\ best.grant_view = 6 => \E g \in own : g.grant_view = 6
               /\ best.watch = 4 => \E g \in own : g.watch = 4
               /\ best.edit = 4 => \E g \in own : g.edit = 4

\* computeAllAccess: 'the function may loop endlessly if items_items is a cyclic graph';
\* with the checks of itemCreate and itemUpdate the loop comes to an end.
LoopsEnd == (running ~> ~running) /\ (inSync ~> ~inSync)

\* itemUpdate: 'the service removes relations between the item and its former children ...
\* and propagates permissions_generated': once the loops have ended, former children have
\* the permissions their remaining parents and grants give.
FormerChildrenAreUpToDate ==
    NoLoop => \A i \in unlinked : generated[i] = Computed(i)
===============================================================================
