------------------------- MODULE ResultsPropagation -------------------------
(***************************************************************************)
(* Results of one participant (the table results) and their propagation up *)
(* the items (app/database/result_store_propagate.go).                     *)
(*                                                                         *)
(* A task's result is written by the services; a chapter's result is an    *)
(* aggregate of the results of its children, recomputed by a propagation   *)
(* that the rows of results_propagate drive.  The propagation that runs    *)
(* after a commit holds the named lock "results_propagation" and is a      *)
(* sequence of transactions between which any service may commit; the      *)
(* one of saveGrade runs to its end inside the transaction of the service, *)
(* on marks of its own connection (results_propagate_sync).                *)
(*                                                                         *)
(* Results of different participants never meet in a query, so one         *)
(* participant is modelled; a result is named by <<attempt, item>>.        *)
(***************************************************************************)
EXTENDS Integers, FiniteSets, FiniteSetsExt

CONSTANTS
  Items, Tasks,        \* the items, and those that are tasks (leaves)
  Explicit,            \* items with requires_explicit_entry
  RootItems,           \* root activities of the participant's groups
  Attempts,            \* attempt ids; 0 is the one every participant has
  AttemptRoot,         \* attempts.root_item_id, NoItem for attempt 0
  ParentAttempt,       \* attempts.parent_attempt_id
  ValidationType,      \* items.validation_type of each item
  Validating,          \* pairs <<parent, child>> with category 'Validation'
  Weight,              \* items_items.score_weight of each pair
  Dependencies,        \* possible item_dependencies: [item, score, dependent]
  InitialChildren,     \* items_items at the start: pairs <<parent, child>>
  AddedChildren,       \* pairs that updateItem may add or remove
  InitialDeps,         \* item_dependencies at the start
  InitialVisible,      \* items the participant can see at the start
  Calls,               \* the kinds of calls that are made
  MaxCalls,            \* bound on their number
  ChunkSize,           \* rows handled by one transaction of the propagation
  InitialStarted,      \* results started before
  NoItem, NoResult

VARIABLES
  results,    \* <<attempt, item>> -> row of results or NoResult
  marks,      \* <<attempt, item>> -> state in results_propagate or "none"
  recompute,  \* item -> state in results_recompute_for_items or "none"
  children,   \* items_items
  noScore,    \* items with no_score
  deps,       \* item_dependencies with grant_content_view
  grants,     \* items unlocked for the participant (origin 'item_unlocking')
  visible,    \* items with can_view_generated /= 'none' for the participant
  pc,         \* where the asynchronous propagation is
  unlocked,   \* its itemsUnlockedCount > 0
  clock,      \* NOW()
  calls,      \* calls made so far
  late,       \* history: dependencies created and not applied since
  rescored,   \* history: items whose no_score changed
  reshaped,   \* history: attempts that items came to, or left, below their root
  lost        \* history: results recomputed instead of being propagated, or not
              \* propagated to a parent whose result they would have created

resultsVars == <<results, marks, recompute, children, noScore, deps, grants, visible,
          pc, unlocked, clock, calls, late, rescored, reshaped, lost>>

-----------------------------------------------------------------------------
Keys == {<<a, i>> : a \in Attempts, i \in Items}
MarkStates == {"none", "to_be_propagated", "propagating", "to_be_recomputed"}

\* latest_activity_at = 0 is '1000-01-01 00:00:00'; validatedAt = 0 is NULL.
ResultRow == [score : 0..100, tried : Nat, validatedAt : Nat, activity : Nat, started : BOOLEAN]
NewResult == [score |-> 0, tried |-> 0, validatedAt |-> 0, activity |-> 0, started |-> FALSE]
StartedResult(now) == [NewResult EXCEPT !.activity = now, !.started = TRUE]

\* Every attempt but the first is at an item; NoResult, a missing row, is no row.
ASSUME ResultsAssumption ==
  /\ IsFiniteSet(Items) /\ IsFiniteSet(Attempts)
  /\ NoItem \notin Items
  /\ InitialVisible \subseteq Items /\ InitialStarted \subseteq Keys
  /\ AttemptRoot \in [Attempts -> Items \union {NoItem}]
  /\ \A a \in Attempts : AttemptRoot[a] = NoItem <=> a = 0
  /\ ParentAttempt \in [Attempts -> Attempts]
  /\ Weight \in [Items \X Items -> Nat]
  /\ Dependencies \subseteq [item : Items, score : Nat, dependent : Items]
  /\ InitialChildren \subseteq Items \X Items /\ AddedChildren \subseteq Items \X Items
  /\ InitialDeps \subseteq Dependencies
  /\ NoResult \notin ResultRow

\* items_items has no cycle: every set of items has one without a child in it.
ASSUME InitialChildrenAcyclic ==
  \A T \in SUBSET Items : T # {} =>
    \E i \in T : \A edge \in InitialChildren : edge[1] = i => edge[2] \notin T

\* The initial results are those of items of their attempts, that is of their root items and
\* the items below; these attempts and their parents exist; and no dependency awaits a
\* propagation of these results, the scores of which are 0.
ASSUME InitialStartedInPlace ==
  /\ \A k \in InitialStarted, T \in SUBSET Items :
       /\ k[2] \in T /\ \A edge \in InitialChildren : edge[2] \in T => edge[1] \in T
       => AttemptRoot[k[1]] \in T \union {NoItem}
  /\ \A k \in InitialStarted : k[1] # 0 =>
       /\ <<k[1], AttemptRoot[k[1]]>> \in InitialStarted
       /\ ParentAttempt[k[1]] # 0 =>
            <<ParentAttempt[k[1]], AttemptRoot[ParentAttempt[k[1]]]>> \in InitialStarted
  /\ \A d \in InitialDeps, k \in InitialStarted : d.item = k[2] => d.score > 0

Exists(res, k) == res[k] # NoResult
Parents(i) == {p \in Items : <<p, i>> \in children}
Children(i) == {c \in Items : <<i, c>> \in children}

\* items_ancestors: the ancestors of an item by following items_items.
Ancestors(i) ==
  LET up[n \in 0..Cardinality(Items)] ==
        IF n = 0 THEN Parents(i) ELSE up[n - 1] \union UNION {Parents(j) : j \in up[n - 1]}
  IN up[Cardinality(Items)]
Descendants(i) == {j \in Items : i \in Ancestors(j)}

\* root_item_id of the attempt of k is NULL, the item of k or above it.
InScope(k) == AttemptRoot[k[1]] \in {NoItem, k[2]} \union Ancestors(k[2])

\* The attempts whose root is an item or above it.
AttemptsOver(i) == {a \in Attempts : AttemptRoot[a] \in {i} \union Ancestors(i)}

\* The attempt in which the parents of the item of k are looked for.
AttemptAbove(k) == IF AttemptRoot[k[1]] = k[2] THEN ParentAttempt[k[1]] ELSE k[1]

-----------------------------------------------------------------------------
(* The aggregates of a chapter.                                            *)

\* The results of child c that count for attempt a: those of the attempt and
\* those of the attempts created below it for this child.
ChildResults(res, a, c) ==
  {res[<<b, c>>] : b \in {b \in Attempts :
      /\ Exists(res, <<b, c>>)
      /\ b = a \/ (AttemptRoot[b] = c /\ ParentAttempt[b] = a)}}

BestOf(values) == Max(values \union {0})
ValidatedAt(rows) ==
  LET times == {r.validatedAt : r \in rows} \ {0} IN IF times = {} THEN 0 ELSE Min(times)

\* What one statement writes into the result k: score, tried, validatedAt and
\* the latest activity, from the children that are not without score.
Aggregate(res, k) ==
  LET i         == k[2]
      scored    == Children(i) \ noScore
      rows(c)   == ChildResults(res, k[1], c)
      valid(c)  == ValidatedAt(rows(c))
      missing   == {c \in scored : valid(c) = 0}
      missingCategories == {c \in missing : <<i, c>> \in Validating}
      latest    == BestOf({valid(c) : c \in scored})
      latestCategories == BestOf({valid(c) : c \in {d \in scored : <<i, d>> \in Validating}})
      weight    == [c \in scored |-> Weight[<<i, c>>]]
      points    == [c \in scored |-> weight[c] * BestOf({r.score : r \in rows(c)})]
      tried     == [c \in scored |-> BestOf({r.tried : r \in rows(c)})]
      weights   == MapThenSumSet(LAMBDA c : weight[c], scored)
  IN [res[k] EXCEPT
       !.activity = BestOf({@} \union UNION {{r.activity : r \in rows(c)} : c \in scored}),
       !.tried = MapThenSumSet(LAMBDA c : tried[c], scored),
       !.validatedAt =
          CASE scored = {} -> 0
            [] ValidationType[i] = "Categories" /\ missingCategories = {} -> latestCategories
            [] ValidationType[i] = "All" /\ missing = {} -> latest
            [] ValidationType[i] = "AllButOne" /\ Cardinality(missing) < 2 -> latest
            [] ValidationType[i] = "One" /\ missing # scored -> latest
            [] OTHER -> 0,
       !.score = IF i \in noScore \/ scored = {} THEN 0
                 ELSE MapThenSumSet(LAMBDA c : points[c], scored) \div (IF weights = 0 THEN 1 ELSE weights)]

-----------------------------------------------------------------------------
(* The three transactions of the loop of propagate, on a record db with    *)
(* the fields results, marks, grants, visible, again (items unlocked) and  *)
(* lost.                                                                   *)

NoMarks == [k \in Keys |-> "none"]

\* INSERT IGNORE of 'to_be_propagated' marks; INSERT ... ON DUPLICATE KEY
\* UPDATE of 'to_be_recomputed' ones.
InsertIgnore(m, keys) ==
  [k \in Keys |-> IF k \in keys /\ m[k] = "none" THEN "to_be_propagated" ELSE m[k]]
SetToBeRecomputed(m, keys) == [k \in Keys |-> IF k \in keys THEN "to_be_recomputed" ELSE m[k]]
\* DELETE of the marks 'propagating'.
Unmark(m) == [k \in Keys |-> IF m[k] = "propagating" THEN "none" ELSE m[k]]

Marked(db, state) == {k \in Keys : db.marks[k] = state}
\* Results of keys that were to be propagated, and will be recomputed instead.
Overwritten(m, keys) == {k \in keys : m[k] \in {"to_be_propagated", "propagating"}}

\* Results that cannot be marked to be propagated because of the mark they have.
Ignored(m, keys) == {k \in keys : m[k] \in {"propagating", "to_be_recomputed"}}
\* Results above which a chapter has no result.
TopsOf(res, keys) == {k \in keys : \E p \in Parents(k[2]) : ~Exists(res, <<AttemptAbove(k), p>>)}

\* A chapter's missing result is created if the chapter or one of its
\* ancestors is visible, no explicit entry is required, and the chapter is
\* in the scope of the attempt.
MayBeCreated(db, k) ==
  /\ k[2] \notin Explicit
  /\ ({k[2]} \union Ancestors(k[2])) \intersect db.visible # {}
  /\ InScope(k)

\* markAsPropagatingSomeResults...: the chunk becomes 'propagating', the
\* parents of everything 'propagating' become 'to_be_recomputed'.
MarkParents(db, chunk) ==
  LET m == [k \in Keys |-> IF k \in chunk THEN "propagating" ELSE db.marks[k]]
      above == UNION {{<<AttemptAbove(k), p>> : p \in Parents(k[2])} :
                        k \in {j \in Keys : m[j] = "propagating"}}
      toMark == {q \in above : IF Exists(db.results, q) THEN m[q] # "to_be_recomputed"
                               ELSE MayBeCreated(db, q)}
      missing == {q \in toMark : ~Exists(db.results, q)}
  IN [db EXCEPT !.results = [q \in Keys |-> IF q \in missing THEN NewResult ELSE @[q]],
                !.marks = SetToBeRecomputed(m, toMark),
                !.lost = (@ \ {k \in Keys : m[k] = "propagating"}) \union Overwritten(m, toMark)]

\* Mutant: the score of the dependency must be exceeded.
UnlockItemsAbove(db) ==
  LET new == {d.dependent : d \in {e \in deps : \E k \in Keys :
                /\ db.marks[k] = "propagating" /\ k[2] = e.item
                /\ e.score < db.results[k].score}} \ db.grants
  IN [db EXCEPT !.grants = @ \union new,
                !.marks = Unmark(@),
                !.again = @ \/ new # {}]

\* Unlocked items for the results marked 'propagating', which are unmarked.
UnlockItems(db) ==
  LET new == {d.dependent : d \in {e \in deps : \E k \in Keys :
                /\ db.marks[k] = "propagating" /\ k[2] = e.item
                /\ e.score <= db.results[k].score}} \ db.grants
  IN [db EXCEPT !.grants = @ \union new,
                !.marks = Unmark(@),
                !.again = @ \/ new # {}]

\* Results that no child marked 'to_be_recomputed' keeps from being recomputed.
Recomputable(db) ==
  LET marked == Marked(db, "to_be_recomputed")
  IN {k \in marked : \A j \in marked :
        ~(j[2] \in Children(k[2]) /\
          (j[1] = k[1] \/ (AttemptRoot[j[1]] = j[2] /\ ParentAttempt[j[1]] = k[1])))}

\* before_update_results: a row is 'modified' when an aggregate changed or
\* when it still has the latest_activity_at of a new row.
Modified(old, new) == old # new \/ new.activity = 0

Recompute(db, chunk) ==
  LET new == [k \in Keys |-> IF k \in chunk THEN Aggregate(db.results, k) ELSE db.results[k]]
  IN [db EXCEPT !.results = new,
                !.marks = [k \in Keys |-> IF k \notin chunk THEN @[k]
                                          ELSE IF Modified(db.results[k], new[k])
                                          THEN "to_be_propagated" ELSE "none"]]

\* computeAllAccess after items were unlocked: an item unlocked without
\* explicit entry becomes visible, and the triggers on permissions_generated
\* mark the results below it.
Access(db) ==
  LET gained == (db.grants \ Explicit) \ db.visible
      below == {k \in Keys : Exists(db.results, k) /\ Ancestors(k[2]) \intersect gained # {}}
  IN [db EXCEPT !.visible = @ \union gained,
                !.marks = InsertIgnore(@, below),
                !.again = FALSE,
                !.lost = @ \union Ignored(db.marks, TopsOf(db.results, below))]

\* A propagation that nothing interrupts: its next recomputation, if there is
\* one, and one turn.
RecomputeAll(db) ==
  LET rows == Recomputable(db) IN IF rows = {} THEN db ELSE Recompute(db, rows)
Turn(db) ==
  LET propagated == UnlockItems(MarkParents(db, Marked(db, "to_be_propagated")))
  IN IF db.marks = NoMarks /\ ~db.again THEN db
     ELSE IF propagated.marks # NoMarks
     THEN FoldSet(LAMBDA n, d : RecomputeAll(d), propagated, Items)
     ELSE IF propagated.again THEN Access(propagated) ELSE propagated

\* The whole propagation of saveGrade: turns until nothing is marked. Each turn
\* goes up one level of items, and unlocking, of ever more items, starts again.
Settled(db) ==
  LET levels == Cardinality(Items) + 1
  IN FoldSet(LAMBDA n, d : Turn(d), db, 1..(levels * (levels + 1)))

-----------------------------------------------------------------------------
ResultsInit ==
  /\ results = [k \in Keys |-> IF k \in InitialStarted THEN StartedResult(1) ELSE NoResult]
  /\ marks = NoMarks
  /\ recompute = [i \in Items |-> "none"]
  /\ children = InitialChildren
  /\ noScore = {}
  /\ deps = InitialDeps
  /\ grants = {}
  /\ visible = InitialVisible
  /\ pc = "idle" /\ unlocked = FALSE
  /\ clock = 1 /\ calls = 0 /\ late = {} /\ rescored = {}
  /\ reshaped = {} /\ lost = {}

\* A call of a service or a command of the given kind; NOW() grows from one to the next.
Call(kind) ==
  /\ kind \in Calls /\ calls < MaxCalls
  /\ calls' = calls + 1
  /\ clock' = clock + 1
  /\ UNCHANGED <<pc, unlocked>>

\* An attempt other than 0 exists once its root item has a result.
AttemptExists(a) == a \in {b \in Attempts : IF b = 0 THEN TRUE ELSE Exists(results, <<b, AttemptRoot[b]>>)}
Started(k) == Exists(results, k) /\ results[k].started
\* The results a participation hierarchy goes through: visible and started
\* from a root in attempt 0 down, each item in the attempt of its parent or in
\* one created below it.
Hierarchy ==
  LET down[n \in 0..Cardinality(Items)] ==
        IF n = 0 THEN {k \in Keys : k[1] = 0 /\ k[2] \in RootItems \intersect visible /\ Started(k)}
        ELSE down[n - 1] \union {k \in Keys : /\ k[2] \in visible /\ Started(k)
               /\ \E p \in Parents(k[2]) : <<AttemptAbove(k), p>> \in down[n - 1]}
  IN down[Cardinality(Items)]
\* IsValidParticipationHierarchyForParentAttempt for some path that ends in k.
ValidHierarchy(k) ==
  \/ k[2] \in RootItems /\ AttemptAbove(k) = 0
  \/ \E p \in Parents(k[2]) : <<AttemptAbove(k), p>> \in Hierarchy

\* startResult: NOW() is stored on the first start only, and only then is
\* the result marked.
StartResult(k) ==
  /\ Call("start")
  /\ k[2] \in visible \ Explicit
  /\ AttemptExists(k[1]) /\ AttemptRoot[k[1]] # k[2] /\ ValidHierarchy(k)
  /\ ~Started(k)
  /\ results' = [results EXCEPT ![k] =
       IF Exists(results, k) THEN [@ EXCEPT !.activity = clock', !.started = TRUE]
       ELSE StartedResult(clock')]
  /\ marks' = InsertIgnore(marks, {k})
  /\ lost' = lost \union {j \in {k} : marks[j] = "to_be_recomputed"}
  /\ UNCHANGED <<recompute, children, noScore, deps, grants, visible, late, rescored, reshaped>>

\* createAttempt and enter: AttemptStore.CreateNew inserts the attempt and the
\* result of its root item, and marks it.
CreateAttempt(a) ==
  /\ Call("attempt")
  /\ a # 0 /\ ~AttemptExists(a)
  /\ AttemptRoot[a] \in visible
  /\ ValidHierarchy(<<a, AttemptRoot[a]>>)
  /\ results' = [results EXCEPT ![<<a, AttemptRoot[a]>>] = StartedResult(clock')]
  /\ marks' = InsertIgnore(marks, {<<a, AttemptRoot[a]>>})
  /\ UNCHANGED <<recompute, children, noScore, deps, grants, visible, late, rescored, reshaped, lost>>

\* The attempts startResultPath may take along a path of items from a root:
\* each is the attempt of the previous item, or one created below it for the
\* item; an item that requires an explicit entry must have its result.
AttemptPaths(path) ==
  {s \in [DOMAIN path -> Attempts] :
     \A n \in DOMAIN path :
       LET k == <<s[n], path[n]>> IN
       /\ AttemptExists(s[n])
       /\ path[n] \in Explicit => AttemptRoot[s[n]] = path[n] /\ Exists(results, k)
       /\ IF n = 1 THEN s[n] = 0 \/ Exists(results, k) ELSE AttemptAbove(k) = s[n - 1]}
Unstarted(path, s) ==
  {n \in DOMAIN path : ~Started(<<s[n], path[n]>>)}
\* ORDER BY: fewest unstarted results, those near the root first, then the
\* highest attempts.
Before(path, s, t) ==
  LET u == Unstarted(path, s)
      w == Unstarted(path, t)
      differ == {n \in DOMAIN path : s[n] # t[n]}
  IN IF u # w THEN Min((u \ w) \union (w \ u)) \in w
     ELSE s # t /\ s[Min(differ)] > t[Min(differ)]

\* startResultPath on a path of two items from a root.
StartResultPath(root, item) ==
  LET path == <<root, item>>
      best == {s \in AttemptPaths(path) : \A t \in AttemptPaths(path) : ~Before(path, t, s)}
  IN /\ Call("path")
     /\ root \in RootItems /\ <<root, item>> \in children
     /\ {root, item} \subseteq visible
     /\ \E s \in best :
          LET new == {<<s[n], path[n]>> : n \in Unstarted(path, s)} IN
          /\ new # {}
          /\ results' = [k \in Keys |->
               IF k \notin new THEN results[k]
               ELSE IF Exists(results, k) THEN [results[k] EXCEPT !.activity = clock', !.started = TRUE]
               ELSE StartedResult(clock')]
          /\ marks' = InsertIgnore(marks, new)
          /\ lost' = lost \union {j \in new : marks[j] = "to_be_recomputed"}
     /\ UNCHANGED <<recompute, children, noScore, deps, grants, visible, late, rescored, reshaped>>

\* submit, askHint and generateTaskToken on a task: latest_activity_at moves
\* and the result is marked.
TouchTask(k) ==
  /\ Call("touch")
  /\ k[2] \in Tasks \intersect visible
  /\ Started(k)
  /\ results' = [results EXCEPT ![k].activity = clock']
  /\ marks' = InsertIgnore(marks, {k})
  /\ UNCHANGED <<recompute, children, noScore, deps, grants, visible, late, rescored, reshaped, lost>>

\* saveGrade: the best score is kept, and everything it changes above the task
\* is settled before the transaction ends.
SaveTaskGrade(k, score) ==
  /\ Call("grade")
  /\ k[2] \in Tasks /\ Started(k)
  /\ LET graded == [results EXCEPT ![k].tried = 1,
                                   ![k].score = BestOf({@, score}),
                                   ![k].validatedAt = IF score = 100 /\ @ = 0 THEN clock' ELSE @]
         db == Settled([results |-> graded, marks |-> InsertIgnore(NoMarks, {k}),
                        grants |-> grants, visible |-> visible, again |-> FALSE, lost |-> lost])
     IN /\ results' = db.results /\ grants' = db.grants
        /\ visible' = db.visible /\ lost' = db.lost
  /\ UNCHANGED <<marks, recompute, children, noScore, deps, late, rescored, reshaped>>

\* updateItem with a child more or less: the triggers on items_items mark the
\* results of the child and of the parent, or ask for the parent's to be
\* recomputed.
AddItemChild(edge) ==
  /\ Call("children")
  /\ edge \in AddedChildren \ children
  /\ edge[1] \notin {edge[2]} \union Descendants(edge[2])
  /\ children' = children \union {edge}
  /\ LET of(i) == {k \in Keys : k[2] = i /\ Exists(results, k)}
         tops == {k \in of(edge[2]) : ~Exists(results, <<AttemptAbove(k), edge[1]>>)}
     IN /\ marks' = SetToBeRecomputed(InsertIgnore(marks, of(edge[2])), of(edge[1]))
        /\ lost' = lost \union Overwritten(marks, of(edge[1])) \union Ignored(marks, tops)
  /\ reshaped' = reshaped \union AttemptsOver(edge[1])
  /\ UNCHANGED <<results, recompute, noScore, deps, grants, visible, late, rescored>>

RemoveItemChild(edge) ==
  /\ Call("children")
  /\ edge \in AddedChildren \intersect children
  /\ children' = children \ {edge}
  /\ recompute' = [recompute EXCEPT ![edge[1]] = IF @ = "none" THEN "todo" ELSE @]
  /\ reshaped' = reshaped \union AttemptsOver(edge[1])
  /\ UNCHANGED <<results, marks, noScore, deps, grants, visible, late, rescored, lost>>

\* updateItem with another no_score: the results of the item are to be
\* recomputed.
ChangeNoScore(i) ==
  /\ Call("no_score")
  /\ noScore' = IF i \in noScore THEN noScore \ {i} ELSE noScore \union {i}
  /\ LET own == {k \in Keys : k[2] = i /\ Exists(results, k)}
     IN marks' = SetToBeRecomputed(marks, own) /\ lost' = lost \union Overwritten(marks, own)
  /\ rescored' = rescored \union {i}
  /\ UNCHANGED <<results, recompute, children, deps, grants, visible, late, reshaped>>

\* The command recompute-results, for one of its chapters.
RecomputeCommand(i) ==
  /\ Call("recompute")
  /\ i \notin Tasks /\ recompute[i] = "none"
  /\ recompute' = [recompute EXCEPT ![i] = "todo"]
  /\ UNCHANGED <<results, marks, children, noScore, deps, grants, visible, late, rescored, reshaped, lost>>

\* Permissions computed elsewhere make an item visible (after_insert and
\* after_update_permissions_generated).
BecomesVisible(i) ==
  /\ Call("visible")
  /\ i \notin visible
  /\ visible' = visible \union {i}
  /\ LET below == {k \in Keys : Exists(results, k) /\ i \in Ancestors(k[2])}
     IN /\ marks' = InsertIgnore(marks, below)
        /\ lost' = lost \union Ignored(marks, TopsOf(results, below))
  /\ UNCHANGED <<results, recompute, children, noScore, deps, grants, late, rescored, reshaped>>

CreateDependency(d) ==
  /\ Call("dependency")
  /\ d \in Dependencies /\ ~\E e \in deps : e.item = d.item /\ e.dependent = d.dependent
  /\ deps' = deps \union {d} /\ late' = late \union {d}
  /\ UNCHANGED <<results, marks, recompute, children, noScore, grants, visible, rescored, reshaped, lost>>

DeleteDependency(d) ==
  /\ Call("dependency")
  /\ d \in deps
  /\ deps' = deps \ {d} /\ late' = late \ {d}
  /\ UNCHANGED <<results, marks, recompute, children, noScore, grants, visible, rescored, reshaped, lost>>

\* applyDependency: unlocks for the results that have the score already.
ApplyDependency(d) ==
  /\ Call("dependency")
  /\ d \in deps
  /\ grants' = grants \union {e \in {d.dependent} : \E k \in Keys :
                  k[2] = d.item /\ Exists(results, k) /\ d.score <= results[k].score}
  /\ late' = late \ {d}
  /\ UNCHANGED <<results, marks, recompute, children, noScore, deps, visible, rescored, reshaped, lost>>

Service ==
  \/ \E k \in Keys : StartResult(k)
  \/ \E a \in Attempts : CreateAttempt(a)
  \/ \E r \in RootItems, i \in Items : StartResultPath(r, i)
  \/ \E k \in Keys : TouchTask(k)
  \/ \E k \in Keys, s \in {0, 100} : SaveTaskGrade(k, s)
  \/ \E e \in AddedChildren : AddItemChild(e)
  \/ \E e \in AddedChildren : RemoveItemChild(e)
  \/ \E i \in Items : ChangeNoScore(i)
  \/ \E i \in Items : RecomputeCommand(i)
  \/ \E i \in Items : BecomesVisible(i)
  \/ \E d \in Dependencies : CreateDependency(d)
  \/ \E d \in Dependencies : DeleteDependency(d)
  \/ \E d \in Dependencies : ApplyDependency(d)

-----------------------------------------------------------------------------
(* The asynchronous propagation, one action per transaction.               *)

Db == [results |-> results, marks |-> marks, grants |-> grants, visible |-> visible,
       again |-> unlocked, lost |-> lost]
Become(db) ==
  /\ results' = db.results /\ marks' = db.marks /\ grants' = db.grants
  /\ visible' = db.visible /\ unlocked' = db.again /\ lost' = db.lost
Propagation == UNCHANGED <<children, noScore, deps, clock, calls, late, rescored, reshaped>>

\* A chunk: all the rows when they fit, some of them otherwise.
Chunks(rows) == IF Cardinality(rows) <= ChunkSize THEN {rows} ELSE kSubset(ChunkSize, rows)

\* Under the named lock, which another process may hold (then the call fails
\* after 10 s and nothing happens): rows of results_recompute_for_items become
\* is_being_processed.
StartPropagation ==
  /\ pc = "idle"
  /\ pc' = "fill"
  /\ recompute' = [i \in Items |-> IF recompute[i] = "none" THEN "none" ELSE "processing"]
  /\ Propagation /\ UNCHANGED <<results, marks, grants, visible, unlocked, lost>>

\* One chunk of the results of those items, or the end of the loop.
FillStep ==
  /\ pc = "fill"
  /\ LET missing == {k \in Keys : /\ Exists(results, k) /\ recompute[k[2]] = "processing"
                                  /\ marks[k] # "to_be_recomputed"}
     IN \/ /\ missing # {}
           /\ \E chunk \in Chunks(missing) :
                marks' = SetToBeRecomputed(marks, chunk) /\ lost' = lost \union Overwritten(marks, chunk)
           /\ UNCHANGED <<pc, recompute>>
        \/ /\ missing = {}
           /\ recompute' = [i \in Items |-> IF recompute[i] = "processing" THEN "none" ELSE recompute[i]]
           /\ pc' = "mark" /\ UNCHANGED <<marks, lost>>
  /\ Propagation /\ UNCHANGED <<results, grants, visible, unlocked>>

MarkStep ==
  /\ pc = "mark"
  /\ \E chunk \in Chunks(Marked(Db, "to_be_propagated")) : Become(MarkParents(Db, chunk))
  /\ pc' = "unlock"
  /\ Propagation /\ UNCHANGED recompute

\* Mutant: the 'propagating' marks are left.
UnlockStepOnly ==
  /\ pc = "unlock"
  /\ Become([UnlockItems(Db) EXCEPT !.marks = marks])
  /\ pc' = "check"
  /\ Propagation /\ UNCHANGED recompute

UnlockStep ==
  /\ pc = "unlock"
  /\ Become(UnlockItems(Db))
  /\ pc' = "check"
  /\ Propagation /\ UNCHANGED recompute

\* The loop ends when the table is empty; unlocked items need their access
\* computed and a propagation of the results again.
CheckStep ==
  /\ pc = "check"
  /\ pc' = IF \E k \in Keys : marks[k] # "none" THEN "recompute"
           ELSE IF unlocked THEN "access" ELSE "idle"
  /\ Propagation /\ UNCHANGED <<results, marks, recompute, grants, visible, unlocked, lost>>

RecomputeStep ==
  /\ pc = "recompute"
  /\ LET rows == Recomputable(Db)
     IN \/ /\ rows # {}
           /\ \E chunk \in Chunks(rows) : Become(Recompute(Db, chunk))
           /\ UNCHANGED pc
        \/ /\ rows = {}
           /\ pc' = "mark" /\ UNCHANGED <<results, marks, grants, visible, unlocked, lost>>
  /\ Propagation /\ UNCHANGED recompute

AccessStep ==
  /\ pc = "access"
  /\ Become(Access(Db))
  /\ pc' = "mark"
  /\ Propagation /\ UNCHANGED recompute

\* The process dies: the lock is released, the committed steps stay.
PropagationCrash ==
  /\ pc # "idle" /\ "crash" \in Calls /\ calls < MaxCalls
  /\ calls' = calls + 1
  /\ pc' = "idle" /\ unlocked' = FALSE
  /\ UNCHANGED <<results, marks, recompute, children, noScore, deps, grants, visible, clock, late, rescored, reshaped, lost>>

\* Another call's propagation of permissions computes the access to unlocked
\* items (after a crash, or after applyDependency).
ComputeAccess ==
  /\ (grants \ Explicit) \ visible # {}
  /\ LET db == Access(Db) IN visible' = db.visible /\ marks' = db.marks /\ lost' = db.lost
  /\ Propagation /\ UNCHANGED <<results, recompute, grants, pc, unlocked>>

Propagate == StartPropagation \/ FillStep \/ MarkStep \/ UnlockStep \/ CheckStep \/ RecomputeStep \/ AccessStep

ResultsNext == Service \/ Propagate \/ ComputeAccess \/ PropagationCrash
ResultsSpec == ResultsInit /\ [][ResultsNext]_resultsVars /\ WF_resultsVars(Propagate) /\ WF_resultsVars(ComputeAccess)

-----------------------------------------------------------------------------
\* Every mark of results_propagate is of an existing result (its foreign key),
\* and the tables keep their types.
ResultsTypeOK ==
  /\ \A k \in Keys : results[k] = NoResult \/ results[k] \in ResultRow
  /\ marks \in [Keys -> MarkStates]
  /\ \A k \in Keys : marks[k] # "none" => Exists(results, k)
  /\ recompute \in [Items -> {"none", "todo", "processing"}]
  /\ grants \subseteq Items /\ visible \subseteq Items

Quiet == pc = "idle" /\ \A k \in Keys : marks[k] = "none" /\ recompute[k[2]] = "none"

\* A result the propagation to the parents of which was lost.
LostBelow(k) == \E j \in lost : j[2] \in Children(k[2]) /\ k[1] \in {j[1], AttemptAbove(j)}

\* When nothing is marked and no propagation runs, every chapter's score,
\* tasks_tried and validated_at are the aggregate of its children, whatever
\* services committed between the transactions of the propagation.  Excepted:
\* parents of an item whose no_score changed (only its own results are marked,
\* update_item.go); attempts of an item below which a child was added or
\* removed, as results may come to them, or leave them, unmarked; and parents
\* of a result the pending propagation of which was replaced by
\* 'to_be_recomputed' (ON DUPLICATE KEY UPDATE in the marking), or which was not
\* marked, being so already, when a row above it could have been created
\* (INSERT IGNORE of the triggers).
IdleMeansAggregated ==
  Quiet => \A k \in Keys :
    \/ ~Exists(results, k) \/ k[2] \in Tasks
    \/ k[1] \in reshaped \/ Children(k[2]) \intersect rescored # {} \/ LostBelow(k)
    \/ LET due == Aggregate(results, k)
       IN /\ results[k].score = due.score /\ results[k].tried = due.tried
          /\ results[k].validatedAt = due.validatedAt

\* The score for dependency d is reached in result k.
Reached(d, k) == k[2] = d.item /\ Exists(results, k) /\ d.score <= results[k].score

\* When nothing is marked and no propagation runs, a participant whose result
\* reached the score of a dependency has the dependent item unlocked, if the
\* dependency existed before or was applied, unless the 'propagating' or
\* 'to_be_propagated' mark of the result was replaced before it was used.
IdleMeansUnlocked ==
  Quiet => \A d \in deps \ late, k \in Keys :
    Reached(d, k) => d.dependent \in grants \/ k \in lost

\* Once the propagation is at rest, results and unlocked items are what the
\* tasks' results and the dependencies say, up to the exceptions above.
IdleMeansSettled == IdleMeansAggregated /\ IdleMeansUnlocked

\* The loops of the propagation end: after the last call every mark is
\* consumed, in spite of results that mark each other and of crashes.
MarksDisappear == <>[](\A k \in Keys : marks[k] = "none")
=============================================================================
