------------------------------ MODULE ItemPaths ------------------------------
(***************************************************************************)
(* The way of one participant from a root item down to an item, through    *)
(* attempts and results.  Three pieces of code follow it, each with a      *)
(* query of its own: FindItemPaths (getPathFromRoot,                       *)
(* getBreadcrumbsFromRoots) looks for paths, startResultPath starts the    *)
(* results along one, and the participation hierarchies of ItemStore       *)
(* decide on startResult, createAttempt, enter and getBreadcrumbs.         *)
(*                                                                         *)
(* A chain gives each item of a path the attempt its result is in.         *)
(***************************************************************************)
EXTENDS Integers, Sequences, FiniteSetsExt

CONSTANTS
  PathItems,      \* the items
  PathLinks,      \* items_items: pairs <<parent, child>>
  PathRoots,      \* roots of groups the participant is in or manages
  EntryItems,     \* items with requires_explicit_entry
  MultipleItems,  \* items with allows_multiple_attempts
  EntryDuration,  \* items.duration of those
  LastAttempt,    \* bound on attempt ids
  LastInstantOfPaths, \* bound on NOW()
  MaxPathCalls,   \* bound on the calls
  NoAttempt, NothingReturned

VARIABLES
  views,        \* item -> can_view_generated_value: 1 none, 2 info, 3 content
  attemptRows,  \* attempt id -> [root, parent, until, ended] or NoAttempt
  resultRows,   \* <<attempt, item>> -> "none", "created" (not started), "started"
  pathClock,    \* NOW()
  returned,     \* history: path and attempt of the last startResultPath, if
                \* nothing happened since
  pathCalls

pathVars == <<views, attemptRows, resultRows, pathClock, returned, pathCalls>>

Always == LastInstantOfPaths + 1        \* '9999-12-31 23:59:59'

\* NoAttempt, an SQL NULL, is neither a number nor a row of attempts.
ASSUME PathsAssumption ==
  /\ IsFiniteSet(PathItems) /\ PathRoots \subseteq PathItems
  /\ PathLinks \subseteq PathItems \X PathItems
  /\ EntryDuration \in Nat /\ LastAttempt \in Nat /\ LastInstantOfPaths \in Nat
  /\ MaxPathCalls \in Nat /\ NoAttempt \notin Int
  /\ NoAttempt \notin [root : PathItems \union {NoAttempt}, parent : Int \union {NoAttempt},
                     until : Int, ended : BOOLEAN]

\* items_items has no cycle: every set of items has one without a parent in it.
ASSUME PathLinksAcyclic ==
  \A T \in SUBSET PathItems : T # {} =>
    \E i \in T : \A link \in PathLinks : link[2] = i => link[1] \notin T

-----------------------------------------------------------------------------
AttemptIds == 0..LastAttempt
ItemSeqs == UNION {[1..n -> PathItems] : n \in 1..Cardinality(PathItems)}
\* Ordered lists of parent-child items, and those that start with a root.
LinkPaths == {p \in ItemSeqs : \A n \in 2..Len(p) : <<p[n - 1], p[n]>> \in PathLinks}
RootPaths == {p \in LinkPaths : p[1] \in PathRoots}
LastItem(p) == p[Len(p)]
SelfAndAncestors(i) == {p[1] : p \in {q \in LinkPaths : LastItem(q) = i}}
PathsTo(item) == {p \in RootPaths : LastItem(p) = item}

Row(a) == attemptRows[a]
AttemptThere(a) == Row(a) # NoAttempt
HasResult(a, i) == resultRows[<<a, i>>] # "none"
HasStarted(a, i) == resultRows[<<a, i>>] = "started"
\* ended_at IS NULL AND NOW() < allows_submissions_until
IsOpen(a) == ~Row(a).ended /\ pathClock < Row(a).until
\* IF(attempts.root_item_id = items.id, attempts.parent_attempt_id, attempts.id)
AttemptOver(a, i) == IF Row(a).root = i THEN Row(a).parent ELSE a

\* attempts that the JOINs allow for the item of a path, below the attempt
\* of the item before.
Joinable(i, above) ==
  {a \in AttemptIds : /\ AttemptThere(a)
                      /\ i \in EntryItems => Row(a).root = i
                      /\ above # NoAttempt => AttemptOver(a, i) = above}

-----------------------------------------------------------------------------
(* FindItemPaths.                                                          *)

\* paths.is_active: the attempts so far are all open.
OpenUpTo(s, n) == \A m \in 1..n : IsOpen(s[m])

\* The rows a path may be continued from: an item before the last must be
\* seen with its content, entered if it has to be, and started or startable.
PassesThrough(p, s, n) ==
  /\ s[n] # NoAttempt
  /\ views[p[n]] >= 3
  /\ p[n] \in EntryItems => HasResult(s[n], p[n])
  /\ HasStarted(s[n], p[n]) \/ OpenUpTo(s, n)
  /\ n = 1 => HasResult(s[n], p[n]) \/ s[n] = 0

\* The chains of the recursive query for a path: attempts are LEFT JOINed, so
\* the last item may have none.
FoundChains(p) ==
  {s \in [DOMAIN p -> AttemptIds \union {NoAttempt}] :
     \A n \in DOMAIN p :
       LET allowed == Joinable(p[n], IF n = 1 THEN NoAttempt ELSE s[n - 1])
       IN /\ views[p[n]] >= 2
          /\ s[n] \in IF allowed = {} THEN {NoAttempt} ELSE allowed
          /\ n < Len(p) => PassesThrough(p, s, n)}

StartedIn(p, s, n) == s[n] # NoAttempt /\ HasStarted(s[n], p[n])
\* score: a bit for every result that is not started, the root's the highest.
Score(p, s) ==
  LET score[n \in 0..Len(p)] ==
        IF n = 0 THEN 0 ELSE 2 * score[n - 1] + (IF StartedIn(p, s, n) THEN 0 ELSE 1)
  IN score[Len(p)]

\* ORDER BY score, attempts DESC; a chain without attempt at its end is NULL
\* and comes last.
HigherAttempts(s, t) ==
  LET common == {n \in DOMAIN s \intersect DOMAIN t : s[n] # t[n]}
  IN IF NoAttempt \in {t[n] : n \in DOMAIN t} THEN NoAttempt \notin {s[n] : n \in DOMAIN s}
     ELSE IF NoAttempt \in {s[n] : n \in DOMAIN s} THEN FALSE
     ELSE IF common = {} THEN Len(s) > Len(t)
     ELSE s[Min(common)] > t[Min(common)]
Precedes(p, s, q, t) ==
  Score(p, s) < Score(q, t) \/ (Score(p, s) = Score(q, t) /\ HigherAttempts(s, t))

\* The paths returned are those with a chain; is_started is that of the first
\* row of each path.
FindItemPaths(item) == {p \in PathsTo(item) : FoundChains(p) # {}}
IsStartedPath(p) ==
  \E s \in FoundChains(p) : /\ \A t \in FoundChains(p) : ~Precedes(p, t, p, s)
                            /\ \A n \in DOMAIN p : StartedIn(p, s, n)
\* getPathFromRoot: a path of the first row.
getPathFromRoot(item) ==
  {p \in FindItemPaths(item) : \E s \in FoundChains(p) :
     \A q \in FindItemPaths(item) : \A t \in FoundChains(q) : ~Precedes(q, t, p, s)}

-----------------------------------------------------------------------------
(* startResultPath.                                                        *)

hasAccessToItemPath(p) == \A n \in DOMAIN p : views[p[n]] >= 3

StartableChains(p) ==
  {s \in [DOMAIN p -> AttemptIds] :
     /\ \A n \in DOMAIN p :
          /\ s[n] \in Joinable(p[n], IF n = 1 THEN NoAttempt ELSE s[n - 1])
          /\ p[n] \in EntryItems => HasResult(s[n], p[n])
          /\ HasStarted(s[n], p[n]) \/ \A m \in 1..n : IsOpen(s[m])
     /\ HasResult(s[1], p[1]) \/ s[1] = 0}

\* Mutant: the chain with the lowest attempts.
FirstByAttempts(p) ==
  LET chains == IF hasAccessToItemPath(p) THEN StartableChains(p) ELSE {}
  IN {s \in chains : \A t \in chains : s # t => HigherAttempts(t, s)}

\* The chain taken: fewest unstarted results, near the end, highest attempts.
getDataForResultPathStart(p) ==
  LET chains == IF hasAccessToItemPath(p) THEN StartableChains(p) ELSE {}
  IN {s \in chains : \A t \in chains : ~Precedes(p, t, p, s)}

-----------------------------------------------------------------------------
(* The participation hierarchies.                                          *)

\* itemAttemptChainWithoutAttemptForTail: chains of started results for the
\* first last items of the path, all seen with their content.
ChainsBefore(p, last, active) ==
  {s \in [1..last -> AttemptIds] : \A n \in 1..last :
     /\ AttemptThere(s[n]) /\ HasStarted(s[n], p[n])
     /\ n < Len(p) => views[p[n]] >= 3
     /\ n > 1 => AttemptOver(s[n], p[n]) = s[n - 1]
     /\ active => IsOpen(s[n])}

\* The last item must be visible; some services ask for its content too.
IsValidParticipationHierarchyForParentAttempt(p, parent) ==
  /\ views[LastItem(p)] >= 2
  /\ IF Len(p) = 1 THEN parent = 0
     ELSE \E s \in ChainsBefore(p, Len(p) - 1, TRUE) : s[Len(p) - 1] = parent

\* getBreadcrumbs with attempt_id: the chains that end in the attempt.
BreadcrumbsHierarchyForAttempt(p, a) ==
  IF views[LastItem(p)] < 2 THEN {}
  ELSE {s \in ChainsBefore(p, Len(p), FALSE) : s[Len(p)] = a}

\* getBreadcrumbs with parent_attempt_id: the last item needs no result.
BreadcrumbsHierarchyForParentAttempt(p, parent) ==
  IF views[LastItem(p)] < 2 \/ (Len(p) = 1 /\ parent # 0) THEN {}
  ELSE {s \in ChainsBefore(p, Len(p) - 1, FALSE) : Len(p) > 1 => s[Len(p) - 1] = parent}

-----------------------------------------------------------------------------
PathsInit ==
  /\ views = [i \in PathItems |-> 3]
  /\ attemptRows = [a \in AttemptIds |->
       IF a = 0 THEN [root |-> NoAttempt, parent |-> NoAttempt, until |-> Always, ended |-> FALSE]
       ELSE NoAttempt]
  /\ resultRows = [k \in AttemptIds \X PathItems |-> "none"]
  /\ pathClock = 0 /\ returned = NothingReturned /\ pathCalls = 0

PathCall ==
  /\ pathCalls < MaxPathCalls
  /\ pathCalls' = pathCalls + 1

\* startResultPath: the results of the chain that are not started are.
StartPath(p) ==
  /\ PathCall
  /\ \E s \in getDataForResultPathStart(p) :
       /\ resultRows' = [k \in DOMAIN resultRows |->
            IF \E n \in DOMAIN p : k = <<s[n], p[n]>> THEN "started" ELSE resultRows[k]]
       /\ returned' = [path |-> p, chain |-> s]
  /\ UNCHANGED <<views, attemptRows, pathClock>>

\* startResult.
StartAt(p, a) ==
  /\ PathCall
  /\ AttemptThere(a)
  /\ views[LastItem(p)] >= 3 /\ IsValidParticipationHierarchyForParentAttempt(p, a)
  /\ LastItem(p) \notin EntryItems
  /\ resultRows' = [resultRows EXCEPT ![<<a, LastItem(p)>>] = "started"]
  /\ returned' = NothingReturned
  /\ UNCHANGED <<views, attemptRows, pathClock>>

\* AttemptStore.CreateNew: the next attempt id, with a started result.
CreateNew(parent, i, until) ==
  LET free == {a \in AttemptIds : ~AttemptThere(a)}
  IN /\ free # {}
     /\ attemptRows' = [attemptRows EXCEPT ![Min(free)] =
          [root |-> i, parent |-> parent, until |-> until, ended |-> FALSE]]
     /\ resultRows' = [resultRows EXCEPT ![<<Min(free), i>>] = "started"]

\* createAttempt, also at an item that requires an entry.
CreateAttemptAt(p, parent) ==
  /\ PathCall
  /\ views[LastItem(p)] >= 3
  /\ IsValidParticipationHierarchyForParentAttempt(p, parent)
  /\ LastItem(p) \notin MultipleItems => \A a \in AttemptIds : ~HasResult(a, LastItem(p))
  /\ CreateNew(parent, LastItem(p), Always)
  /\ returned' = NothingReturned
  /\ UNCHANGED <<views, pathClock>>

\* enter: not again while a participation is under way; nothing else is asked
\* of the participant here.
EnterAt(p, parent) ==
  LET entered == {a \in AttemptIds : AttemptThere(a) /\ Row(a).root = LastItem(p)}
  IN /\ PathCall
     /\ LastItem(p) \in EntryItems
     /\ IsValidParticipationHierarchyForParentAttempt(p, parent)
     /\ \A a \in entered : pathClock >= Row(a).until
     /\ entered # {} => LastItem(p) \in MultipleItems
     /\ CreateNew(parent, LastItem(p), pathClock + EntryDuration)
     /\ returned' = NothingReturned
     /\ UNCHANGED <<views, pathClock>>

\* endAttempt: with the attempts below it, never attempt 0.
EndAttemptAt(a) ==
  LET below[n \in 0..LastAttempt] ==
        IF n = 0 THEN {a}
        ELSE below[n - 1] \union {b \in AttemptIds : AttemptThere(b) /\ Row(b).parent \in below[n - 1]}
  IN /\ PathCall
     /\ a # 0 /\ AttemptThere(a) /\ IsOpen(a)
     /\ attemptRows' = [b \in AttemptIds |->
          IF b \in below[LastAttempt] THEN [Row(b) EXCEPT !.ended = TRUE, !.until = Min({@, pathClock})]
          ELSE Row(b)]
     /\ returned' = NothingReturned
     /\ UNCHANGED <<views, resultRows, pathClock>>

\* The propagation of results creates the missing result of a parent, if it
\* or an item above is visible and it is in the scope of the attempt.
PropagationCreates(a, i, parent) ==
  LET over == AttemptOver(a, i)
  IN /\ PathCall
     /\ AttemptThere(a) /\ HasResult(a, i) /\ <<parent, i>> \in PathLinks
     /\ parent \notin EntryItems /\ \E q \in SelfAndAncestors(parent) : views[q] >= 2
     /\ over = 0 \/ Row(over).root \in SelfAndAncestors(parent)
     /\ ~HasResult(over, parent)
     /\ resultRows' = [resultRows EXCEPT ![<<over, parent>>] = "created"]
     /\ returned' = NothingReturned
     /\ UNCHANGED <<views, attemptRows, pathClock>>

\* Permissions change.
ChangeView(i, level) ==
  /\ PathCall
  /\ level # views[i]
  /\ views' = [views EXCEPT ![i] = level]
  /\ returned' = NothingReturned
  /\ UNCHANGED <<attemptRows, resultRows, pathClock>>

PathTick ==
  /\ pathClock < LastInstantOfPaths
  /\ pathClock' = pathClock + 1
  /\ UNCHANGED <<views, attemptRows, resultRows, returned, pathCalls>>

PathsNext ==
  \/ \E p \in RootPaths : StartPath(p)
  \/ \E p \in RootPaths, a \in AttemptIds : StartAt(p, a)
  \/ \E p \in RootPaths, a \in AttemptIds : CreateAttemptAt(p, a)
  \/ \E p \in RootPaths, a \in AttemptIds : EnterAt(p, a)
  \/ \E a \in AttemptIds : EndAttemptAt(a)
  \/ \E a \in AttemptIds, i, parent \in PathItems : PropagationCreates(a, i, parent)
  \/ \E i \in PathItems, level \in {1, 2, 3} : ChangeView(i, level)
  \/ PathTick

PathsSpec == PathsInit /\ [][PathsNext]_pathVars

-----------------------------------------------------------------------------
\* A path that startResultPath accepts is one FindItemPaths finds.
StartablePathsAreFound ==
  \A p \in RootPaths : getDataForResultPathStart(p) # {} => p \in FindItemPaths(LastItem(p))

\* A path it finds can be started when the last item may be: it is seen with
\* its content, needs no entry, and its attempts are open.
FoundPathsCanBeStarted ==
  \A i \in PathItems : \A p \in FindItemPaths(i) :
    (/\ views[i] >= 3 /\ i \notin EntryItems
     /\ \E s \in FoundChains(p) : /\ NoAttempt \notin {s[n] : n \in DOMAIN p}
                                  /\ \A n \in DOMAIN p : IsOpen(s[n])
                                  /\ \A t \in FoundChains(p) : ~Precedes(p, t, p, s))
    => getDataForResultPathStart(p) # {}

\* What startResultPath has started FindItemPaths puts first and reports as
\* started, a second call takes again, getPathFromRoot returns a started path
\* then, and the attempt returned leads getBreadcrumbs along the same chain.
StartedPathIsKnown ==
  returned # NothingReturned =>
    LET p == returned.path
        s == returned.chain
    IN /\ s \in FoundChains(p) /\ \A t \in FoundChains(p) : ~Precedes(p, t, p, s)
       /\ IsStartedPath(p) /\ getDataForResultPathStart(p) = {s}
       /\ \A q \in getPathFromRoot(LastItem(p)) : IsStartedPath(q)
       /\ BreadcrumbsHierarchyForAttempt(p, s[Len(p)]) = {s}
       /\ Len(p) > 1 => SubSeq(s, 1, Len(p) - 1) \in BreadcrumbsHierarchyForParentAttempt(p, s[Len(p) - 1])

\* path_from_root.go says of an item before the last that requires an entry:
\* it "must have at least one result with started=1 AND its attempt must have
\* (ended_at IS NULL) AND (NOW() < allows_submissions_until)".
PathsPassOpenContests ==
  \A i \in PathItems : \A p \in getPathFromRoot(i) : \A n \in 1..(Len(p) - 1) :
    p[n] \in EntryItems =>
      \E a \in AttemptIds :
        AttemptThere(a) /\ Row(a).root = p[n] /\ HasStarted(a, p[n]) /\ IsOpen(a)
=============================================================================
