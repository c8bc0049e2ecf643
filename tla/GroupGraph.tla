------------------------------ MODULE GroupGraph ------------------------------
(***************************************************************************)
(* The graph of the groups (groups_groups) and the cache of its transitive *)
(* closure (groups_ancestors), which every access check of the backend     *)
(* reads.  A relation has an expires_at; an ancestor row has the instant   *)
(* at which the last path between the two groups expires, so that the      *)
(* cache stays right while time passes and no transaction runs.            *)
(*                                                                         *)
(* The triggers of groups_groups mark the child of a changed relation as   *)
(* 'todo' in groups_propagate; the transaction that made the change calls  *)
(* createNewAncestors before it commits, under the locks of the rows, so   *)
(* each action below is one transaction.                                   *)
(***************************************************************************)
EXTENDS Naturals, FiniteSets

CONSTANTS
    Groups,     \* ids of all the groups that may exist
    Type,       \* groups.type
    Initially,  \* the groups that exist at the start
    AllUsers,   \* the Base group every user belongs to
    MaxTime     \* bound on the instants considered

Forever == MaxTime + 1      \* expires_at = '9999-12-31 23:59:59'
Types == {"Base", "Class", "Team", "User", "ContestParticipants"}

ASSUME GraphConstants ==
    /\ IsFiniteSet(Groups)
    /\ Type \in [Groups -> Types]
    /\ AllUsers \in Initially /\ Initially \subseteq Groups
    /\ Type[AllUsers] = "Base"
    /\ \A g \in Initially : Type[g] # "User"
    /\ MaxTime \in Nat \ {0}

VARIABLES
    now,        \* NOW()
    groups,     \* rows of groups
    relations,        \* rows of groups_groups: <<parent, child, expires_at>>
    anc,        \* rows of groups_ancestors: <<ancestor, child, expires_at>>
    todo        \* rows of groups_propagate with ancestors_computation_state = 'todo'

graphVars == <<now, groups, relations, anc, todo>>

HasRow(table, g, h) == \E r \in table : r[1] = g /\ r[2] = h
IsActual(r) == now < r[3]       \* the row is in the *_active view
Actual(table, g, h) == \E r \in table : r[1] = g /\ r[2] = h /\ IsActual(r)
IsTeamMembership(r) == Type[r[1]] = "Team"

Least(x, y) == IF x < y THEN x ELSE y

(***************************************************************************)
(* createNewAncestors("groups", "group"), on a record of the tables it     *)
(* reads and writes.                                                       *)
(***************************************************************************)
Tables(r, a, t) == [rel |-> r, anc |-> a, todo |-> t]

\* The descendants of the groups that are 'todo' become 'todo' (expired rows count).
MarkDescendants(s) ==
    Tables(s.rel, s.anc, s.todo \cup {r[2] : r \in {r \in s.anc : r[1] \in s.todo}})

\* A group is processed once none of its parents is 'todo' (expired relations count).
Processing(s) ==
    s.todo \ {r[2] : r \in {r \in s.rel : ~IsTeamMembership(r) /\ r[1] \in s.todo}}

\* <<groups_ancestors_join row, groups_groups row>> of the groups being processed.
Joined(s, processing) ==
    {j \in s.anc \X {r \in s.rel : r[2] \in processing} :
        /\ j[1][2] = j[2][1]
        /\ ~IsTeamMembership(j[2])
        /\ IsActual(j[1]) /\ IsActual(j[2])}

\* Mutant: the expiry of the parent's own ancestor row counts alone.
PathsOfTheParent(s, processing) ==
    {<<j[1][1], j[2][2], j[1][3]>> : j \in Joined(s, processing)}

\* A row per path, with LEAST(groups_ancestors_join.expires_at, groups_groups.expires_at).
Paths(s, processing) ==
    {<<j[1][1], j[2][2], Least(j[1][3], j[2][3])>> : j \in Joined(s, processing)}

\* GROUP BY child and ancestor, with the MAX over the paths.
Longest(paths) ==
    {p \in paths : \A q \in paths : q[1] = p[1] /\ q[2] = p[2] => q[3] <= p[3]}

\* The row of a group as its own ancestor is kept.
ProcessOnce(s) ==
    LET processing == Processing(s)
    IN  Tables(s.rel,
               {r \in s.anc : r[2] \notin processing \/ r[1] = r[2]}
                 \cup Longest(Paths(s, processing)),
               s.todo \ processing)

\* The loop ends when a turn marks nothing as done; every turn but the last marks one.
CreateNewAncestors(s) ==
    LET turn[n \in 0..Cardinality(Groups)] ==
            IF n = 0 THEN MarkDescendants(s) ELSE ProcessOnce(turn[n - 1])
    IN  turn[Cardinality(Groups)]

(***************************************************************************)
(* Changes of groups_groups, with the triggers that mark the child.        *)
(***************************************************************************)
Marked(rows) == {r[2] : r \in {r \in rows : ~IsTeamMembership(r)}}

DeleteRelations(s, rows) == Tables(s.rel \ rows, s.anc, s.todo \cup Marked(rows))

\* Also INSERT ... ON DUPLICATE KEY UPDATE expires_at, and UPDATE of expires_at.
PutRelation(s, p, c, expiresAt) ==
    LET row == <<p, c, expiresAt>>
    IN  Tables({r \in s.rel : r[1] # p \/ r[2] # c} \cup {row}, s.anc,
               s.todo \cup Marked({row}))

Current == Tables(relations, anc, todo)

Commit(s) ==
    /\ relations' = s.rel
    /\ anc' = s.anc
    /\ todo' = s.todo
    /\ UNCHANGED now

(***************************************************************************)
(* Deletion of a group with the descendants that become orphans.           *)
(***************************************************************************)
\* Mutant: the relations in which a deleted group is the child are forgotten.
LinkedAsParent(table, G) == {r \in table : r[1] \in G}

LinkedTo(table, G) == {r \in table : r[1] \in G \/ r[2] \in G}

Candidates(g) ==
    {c \in groups : c # g /\ Actual(anc, g, c) /\ Type[c] \notin {"Base", "User"}}

\* Mutant: the descendants are looked up before the ancestors are recomputed.
OrphansBeforeRecomputing(s, candidates) ==
    {c \in candidates : \A a \in groups \ {c} : Actual(anc, a, c) => a \in candidates}

\* Candidates whose ancestors are candidates too, once the group is unlinked.
Orphans(s, candidates) ==
    {c \in candidates : \A a \in groups \ {c} : Actual(s.anc, a, c) => a \in candidates}

\* The ancestors are recomputed only if a relation was deleted.
Unlink(s, G) ==
    IF LinkedTo(s.rel, G) = {} THEN s
    ELSE CreateNewAncestors(DeleteRelations(s, LinkedTo(s.rel, G)))

DeleteGroupAndOrphanedDescendants(g) ==
    LET alone   == Unlink(Current, {g})
        orphans == Orphans(alone, Candidates(g))
        final   == Unlink(alone, orphans)
        deleted == orphans \cup {g}
    IN  /\ groups' = groups \ deleted
        /\ relations' = final.rel
        /\ anc' = final.anc \ LinkedTo(final.anc, deleted)
        /\ todo' = final.todo \ deleted
        /\ UNCHANGED now

(***************************************************************************)
(* Services.                                                               *)
(***************************************************************************)
\* The trigger after_insert_groups inserts the ancestor row of the group itself.
CreateGroup(g) ==
    /\ g \notin groups
    /\ Type[g] \in {"Class", "Team", "ContestParticipants"}
    /\ groups' = groups \cup {g}
    /\ anc' = anc \cup {<<g, g, Forever>>}
    /\ UNCHANGED <<now, relations, todo>>

\* A new user is attached to AllUsers with CreateRelationsWithoutChecking.
CreateUser(u) ==
    /\ u \notin groups
    /\ Type[u] = "User"
    /\ groups' = groups \cup {u}
    /\ Commit(CreateNewAncestors(
                PutRelation(Tables(relations, anc \cup {<<u, u, Forever>>}, todo),
                            AllUsers, u, Forever)))

\* A group that managers may be appointed for: neither a user nor made by the backend.
DirectRelationAllowed(p, c) ==
    /\ Type[p] \in {"Class"}
    /\ Type[c] \in {"Class", "Team"}

RowsOf(p, c) == {r \in relations : r[1] = p /\ r[2] = c}

\* Mutant: expired or not, an ancestor may become a child.
CreateRelationUnchecked(p, c) ==
    /\ {p, c} \subseteq groups
    /\ DirectRelationAllowed(p, c)
    /\ p # c
    /\ Commit(CreateNewAncestors(
                PutRelation(DeleteRelations(Current, RowsOf(p, c)), p, c, Forever)))
    /\ UNCHANGED groups

CreateRelation(p, c) ==
    /\ {p, c} \subseteq groups
    /\ DirectRelationAllowed(p, c)
    /\ ~HasRow(anc, c, p)
    /\ Commit(CreateNewAncestors(
                PutRelation(DeleteRelations(Current, RowsOf(p, c)), p, c, Forever)))
    /\ UNCHANGED groups

HasOtherActiveParent(p, c) == \E q \in groups \ {p} : Actual(relations, q, c)

DeleteRelation(p, c, deleteOrphans) ==
    /\ {p, c} \subseteq groups
    /\ DirectRelationAllowed(p, c)
    /\ Actual(relations, p, c)
    /\ IF deleteOrphans /\ ~HasOtherActiveParent(p, c)
         THEN DeleteGroupAndOrphanedDescendants(c)
         ELSE /\ Commit(CreateNewAncestors(DeleteRelations(Current, RowsOf(p, c))))
              /\ UNCHANGED groups

DeleteGroup(g) ==
    /\ g \in groups
    /\ Type[g] \in {"Class", "Team"}
    /\ \A c \in Groups : ~Actual(relations, g, c)
    /\ DeleteGroupAndOrphanedDescendants(g)

\* Transition: insertRelations and deleteRelations leave the ancestors alone for a team.
JoinGroup(p, u) ==
    /\ {p, u} \subseteq groups
    /\ Type[p] \in {"Class", "Team"} /\ Type[u] = "User"
    /\ ~Actual(relations, p, u)
    /\ LET joined == PutRelation(Current, p, u, Forever)
       IN  Commit(IF Type[p] = "Team" THEN joined ELSE CreateNewAncestors(joined))
    /\ UNCHANGED groups

QuitGroup(p, u) ==
    /\ {p, u} \subseteq groups
    /\ Type[p] \in {"Class", "Team"} /\ Type[u] = "User"
    /\ Actual(relations, p, u)
    /\ LET left == DeleteRelations(Current, RowsOf(p, u))
       IN  Commit(IF Type[p] = "Team" THEN left ELSE CreateNewAncestors(left))
    /\ UNCHANGED groups

Participation(k, x) ==
    /\ {k, x} \subseteq groups
    /\ Type[k] = "ContestParticipants" /\ Type[x] \in {"User", "Team"}

\* items/enter: the participant joins the participants' group until its time is over.
Enter(k, x, expiresAt) ==
    /\ Participation(k, x)
    /\ now < expiresAt
    /\ Commit(CreateNewAncestors(PutRelation(Current, k, x, expiresAt)))
    /\ UNCHANGED groups

\* items/end_attempt: expires_at = LEAST(NOW(), expires_at), nothing if it has expired.
EndAttempt(k, x) ==
    /\ Participation(k, x)
    /\ Actual(relations, k, x)
    /\ Commit(CreateNewAncestors(PutRelation(Current, k, x, now)))
    /\ UNCHANGED groups

\* contests/set_additional_time: expires_at moves, whether or not it had been reached.
SetAdditionalTime(k, x, expiresAt) ==
    /\ Participation(k, x)
    /\ HasRow(relations, k, x)
    /\ <<k, x, expiresAt>> \notin relations
    /\ Commit(CreateNewAncestors(PutRelation(Current, k, x, expiresAt)))
    /\ UNCHANGED groups

Tick ==
    /\ now < MaxTime
    /\ now' = now + 1
    /\ UNCHANGED <<groups, relations, anc, todo>>

GraphInit ==
    /\ now = 1
    /\ groups = Initially
    /\ relations = {}
    /\ anc = {<<g, g, Forever>> : g \in Initially}
    /\ todo = {}

GraphNext ==
    \/ \E g \in Groups : CreateGroup(g) \/ CreateUser(g) \/ DeleteGroup(g)
    \/ \E p, c \in Groups :
          \/ CreateRelation(p, c)
          \/ \E deleteOrphans \in BOOLEAN : DeleteRelation(p, c, deleteOrphans)
          \/ JoinGroup(p, c)
          \/ QuitGroup(p, c)
          \/ EndAttempt(p, c)
          \/ \E expiresAt \in 1..Forever :
                Enter(p, c, expiresAt) \/ SetAdditionalTime(p, c, expiresAt)
    \/ Tick

GraphSpec == GraphInit /\ [][GraphNext]_graphVars

(***************************************************************************)
(* Properties.                                                             *)
(***************************************************************************)
\* Rows are of groups that exist (no foreign key dangles after a deletion).
GraphTypeOK ==
    /\ now \in 1..MaxTime
    /\ groups \subseteq Groups
    /\ relations \subseteq groups \X groups \X (1..Forever)
    /\ anc \subseteq groups \X groups \X (1..Forever)
    /\ todo \subseteq groups

Successors(G, R) == G \cup {r[2] : r \in {r \in R : r[1] \in G}}

\* Groups reachable from g over relations R, in at most as many steps as there are groups.
ReachableFrom(g, R) ==
    LET step[n \in 0..Cardinality(Groups)] ==
            IF n = 0 THEN {g} ELSE Successors(step[n - 1], R)
    IN  step[Cardinality(Groups)]

RelationsAt(t) == {r \in relations : t < r[3] /\ ~IsTeamMembership(r)}

\* The view groups_ancestors_active is the reflexive transitive closure of the relations
\* that are not team memberships, now and at every later instant if nothing else happens:
\* createNewAncestors never stops with groups still to do, and no service forgets to call it.
AncestorsAreTheClosure ==
    /\ todo = {}
    /\ \A t \in now..MaxTime : \A a \in groups :
         {r[2] : r \in {r \in anc : r[1] = a /\ t < r[3]}} = ReachableFrom(a, RelationsAt(t))

\* CreateRelation: no cycles, "even via expired relations".
RelationsAreAcyclic ==
    \A r \in RelationsAt(0) : r[1] \notin ReachableFrom(r[2], RelationsAt(0))

\* deleteGroupAndOrphanedDescendants: a descendant of a deleted group that is neither a
\* user nor a Base group is deleted exactly when no active parent of it remains.
OnlyOrphansAreDeleted ==
    [][\A g \in groups :
        (/\ Type[g] \notin {"Base", "User"}
         /\ \E d \in groups \ groups' : d # g /\ Actual(anc, d, g))
        => (g \in groups' <=> \E p \in groups' : Actual(relations, p, g))]_graphVars
=============================================================================
