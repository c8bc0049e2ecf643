# A TLA+ verification of AlgoreaBackend

AlgoreaBackend is the server of a learning platform: users and teams in a graph
of groups, items (chapters, tasks, contests) in a graph of items, permissions of
groups on items, attempts and results. All of its state is in a MySQL database;
every service is an HTTP handler that runs one transaction (sometimes several),
so what is hard in it is what transactions do to each other and to caches that
are kept by SQL triggers and by loops that run after the commit.

This project models that core: seventeen specifications (one of them abstract, for
a refinement), seven modules of proofs about sixteen of them and one of facts that
the proofs share, and the modules `MC…` with configurations for TLC. `PROJECT.json` maps each definition to the lines it models and lists the
components, hazards, runs, mutants and theorems.

    tlc -workers 2 -config MCServices.cfg MCServices
    tlapm GroupMembershipProofs.tla

## 1. The system and its parts

| Part | State | Operations | What is hard | What makes it correct |
|---|---|---|---|---|
| Group membership | `groups_groups`, `group_pending_requests`, `group_membership_changes`, settings of the group | `GroupGroupStore.Transition` behind some 15 services of users and managers, `updateGroup` | checks made on a snapshot before `Transition` locks; batches; settings that change under pending requests | one state per member, explained by the log; freezing, approvals, lock and limit are effective |
| Group graph | `groups`, `groups_groups`, `groups_ancestors`, `groups_propagate` | creation, addition and removal of relations, deletion of groups with orphans, `createNewAncestors` | a cache of the closure that must stay right while relations expire; cycles through expired relations | the cache is the closure, now and later; no cycle; only orphans are deleted |
| Permissions | `permissions_granted`, `items_items`, `permissions_generated`, `permissions_propagate` (and `_sync`) | grants, item services, `computeAllAccess` | a loop of transactions with other services between its turns; a process that dies; marks written by triggers | what is stale is marked; the loop ends; everything is right then |
| Contest participation | `attempts`, `groups_groups.expires_at`, `groups_contest_items` | enter, create and end attempts, additional time | one instant stored twice and moved by three services, also after the time is over | one participation at a time, with the time it is due; ended means closed |
| Teams | team memberships, permissions to enter, attempts of teams | the membership services on teams, `enter` | two services that each check the other's table; members who come and go during a contest | nobody takes part twice; entry conditions are kept |
| Results | `results`, `results_propagate` with its `_internal` and `_sync` tables, `results_recompute_for_items` | `propagate`, its chunks, unlocking of items, every service that marks results | a loop over three mark states which starts itself again, with services between its transactions | scores agree with the children's; earned items are unlocked; the marks disappear |
| Transactions | rows, locks, connections of the pool with their session state, named locks | `InTransaction`, `WithNamedLock`, `withForeignKeyChecksDisabled` | a deadlock restarts the function; a commit fails; a lock times out after the commit | a call is applied whole, at most once; nothing of a connection's last user survives |
| Item paths | `attempts`, `results`, view permissions along a path | `FindItemPaths`, `startResultPath`, `startResult`, `createAttempt`, `enter`, breadcrumbs | three queries that follow attempts each in its own way | nobody is sent along a path the next service refuses |
| Items | `items`, `items_items`, `items_strings`, `item_dependencies` | create, update, delete, strings, dependencies | rules that relate types, levels and the editor's own rights | nobody lets more through a link than they could give |
| Granted permissions | a row of `permissions_granted`, the help an item's group may ask | `updatePermissions`, `getPermissions` | validators whose order matters, a row whose levels depend on each other | rows are consistent; what is announced is what is done |
| Sessions and users | `sessions`, `access_tokens`, users, refresh tokens of the login module | login, refresh, temporary users, logout, deletion | a check before the lock, a crash after the remote rotation | no revoked refresh token is presented |
| User batches | `user_batches`, users here and in the login module | create and remove a batch | three steps of which one is remote | compensation; the limit |
| Group codes and managers | code, lifetime, expiry, `group_managers` | create, remove and check codes, join by code, managers | a first attempt fixes the end of the code | a code expires |
| Answers and grading | `answers`, `gradings`, tokens, one result | tokens, hints, answers, grades | grades that come late, twice, in any order | the result is what the grades say |
| Threads | `threads` | `updateThread`, four places that decide who sees it | rights and groups that change under it | who may write sees the thread |
| Lists | — | sorting and paging of 28 services, the activity log | rows that change between two pages | nothing is missed or repeated |
| Read services, forms, token encoding, logging, configuration | none | queries and conversions | — | not modelled |

The parts meet in the database. The membership services write `groups_groups`,
whose triggers mark groups for `createNewAncestors` in the same transaction;
every access check reads `groups_ancestors_active`. Removing a member removes
the permissions it got through the group, and that change, like the change of
an item, is propagated after the commit (`service.SchedulePropagation`).
Entering a contest is a row of `groups_groups` with an expiry, so it is
participation, graph edge and access right at the same time. `saveGrade`
propagates results and permissions inside its own transaction. The login module
is the only remote service with state; it is external.

## 2. How transactions become steps

* **A transaction whose reads lock** (`FOR SHARE`, `FOR UPDATE`, or the
  statements of the trigger and the loop) **is one action.** Its locks are held
  until the commit, so no other transaction can come between.
* **A check without a lock reads a snapshot**, so it is an action of its own:
  the request then waits (`inFlight` in `GroupMembership`) and any other
  transaction may commit before the request goes on with what it saw.
* **Code after the commit** (the propagation of permissions) **is separate
  actions**: the call, each turn of the loop, and the death of the process
  before the call or between two turns.
* A transaction that fails or is rolled back is a stuttering step: that retries
  make no difference to the caller is what `Transactions` shows.
* Triggers and the calls a service makes before its commit are part of the
  service's action.

## 3. The modules

### GroupMembership

One group that is not a team, its users, and teams that managers attach to it
directly. Per member: the row of `groups_groups` (`rel`: none, active or
expired, with `approved`), the row of `group_pending_requests` (`pending`,
`offered`), the newest row of `group_membership_changes` (`lastChange`), and
whether it holds permissions given through the group (`grants`). `settings` is
the group's row: required approvals and their strength, `is_public`,
`frozen_membership`, the limit of participants.

`Transition(action, ids, given)` is `GroupGroupStore.Transition`: `Rules` is the
table `groupGroupTransitionRules`, `BuildTransitionsPlan` the choice of a target
for each member (with the downgrade to an invitation when approvals are
missing), `IsFull` the enforcement of the limit, and `RelAfter` … `GrantsAfter`
the rows written. Each service is an action with the guards the handler puts in
front of it; `UpdateGroup` is the whole of `updateGroup`: approval changes that
empty the group or invite the members again, and the refusal of pending requests
when the group becomes private or frozen. `Expire` and `LockElapses` are the
passing of time.

### GroupGraph

All groups, their relations with `expires_at`, the cache of the closure, and the
`todo` marks. `CreateNewAncestors` is the loop of `ancestors.go` as a recursive
function on a record of the three tables: mark the descendants, then process the
groups none of whose parents is to do, and take for each ancestor the longest of
the paths (each as long as its shortest edge). The actions are the services that
change groups and relations; `Tick` is time.

### PermissionsPropagation

One group and all items, because nothing in `computeAllAccess` relates two
groups. `Aggregate` is the SQL that computes a row of `permissions_generated`
from the grants on the item and from the parents' rows through the columns of
`items_items`; levels are the positions of the enum values, as in the tables.
`Turn` is one turn of the loop, `SyncTurn` the same inside the transaction of
`saveGrade`, on marks of its own. `MarkSelf`, `MarkChildren`, `CascadeToMarks`
are the triggers and the foreign keys. `due`, `running` and `lost` tell whether a
call is owed, under way, or died with its process. `unlinked` is a history
variable: the items that lost a parent and have not been recomputed since.

### ContestParticipation and TeamParticipation

`ContestParticipation` has a clock, the attempts of each participant (a tree by
`parent`), the expiry of its membership of the participants' group, and
additional times; `enter`, `createAttempt`, `endAttempt` and `setAdditionalTime`
are its actions. `NewExpiresAt` and `Moves` are the temporary table and the
condition of `setAdditionalTime`, with the sums the SQL really computes.

`TeamParticipation` is about who is in a team while it takes part. Time is cut
into two eras, since only the eras in which a permission to enter is valid
matter; an attempt is open, over or ended. It has the checks the membership
services make only for teams (`Conflict`, `StillSatisfied`), and `enter` with
the ratio of admitted members and the size of the team. The history variable
`loosened` holds the teams whose open participation no longer has its entry conditions
checked by the code: entered by the team's own permission, extended after the time was
over, or changed by `removeMembers`, `leaveGroup`, the loss of a member's permission, or
an invitation sent to the author of a join request (which makes that user a member).

The model `ContestParticipation` leaves out `createAttempt` at the contest itself,
which the code does not exclude when the contest allows several attempts;
`ItemPaths` has it.

### ResultsPropagation

The results of one participant, named by attempt and item: rows of different
participants never meet in a query. The propagation is one action per
transaction: fill from `results_recompute_for_items`, mark parents (creating the
missing rows), unlock items, recompute in the order the query imposes, each in
chunks; `PropagationCrash` may follow any of them. Each service that writes
results (`start`, `touch`, grade, children and `no_score` of an item,
dependencies, permissions) is an action with the triggers it sets off; `saveGrade`
runs the same operators to their end inside its transaction: `Settled` takes as many
turns as there can be, one per level of items and again after each unlocking, of
which there are no more than items (`SettledEnds` is the proof that these are enough).

Three exceptions are kept as history variables, because they are what the code does:

* `lost`: results whose parents are not told. A pending `to_be_propagated` or
  `propagating` mark was replaced by `to_be_recomputed` (`ON DUPLICATE KEY UPDATE`), and
  the recomputation may then find nothing modified. Or the result should have been
  marked because a row above it can now be created (a child added, an item that becomes
  visible), but had the mark `propagating` or `to_be_recomputed` already (`INSERT
  IGNORE`). The result is taken off when its mark is propagated after all.
* `rescored`: items whose `no_score` changed. Only the item's own results are marked, not
  the parents'.
* `reshaped`: attempts whose root item is the parent of a relation that was added or
  removed, or above it. The scope of such an attempt changes with the relation, and the
  results in it are not marked: when a chapter with a task already solved in the attempt
  comes under its root, no row of that chapter is created for the task's result, and one
  that the participant starts later shows nothing of it until the task is marked again.

### Transactions and AtomicTransactions

`Transactions` is `InTransaction` down to connections of the pool: statements
that lock rows, deadlocks and lock wait timeouts that run the function again up
to `RetriesLimit` times, rollbacks and commits that fail, the session variables
a connection carries, the propagation after the commit and its named lock, and
processes that die. `AtomicTransactions` is what callers are promised: all the
rows change at one moment or never, a call answered without an error has been
applied and what it scheduled has been propagated (unless its context prohibits
that), and every call of a living process is answered. `Promise` instantiates the
second in the first, and `CallsAreAtomic` is the refinement, checked with its
fairness.

### ItemPaths

One participant, a small graph of items, attempts with their root item and
parent attempt, results that are created or started. A *chain* gives each item of
a path an attempt. `FoundChains` are the rows of the recursive query of
`FindItemPaths` (with `LEFT JOIN`, score, and order), `StartableChains` the joins of
`getDataForResultPathStart`, `ChainsBefore` those of the participation hierarchies.
`Score` is the sum that `FindItemPaths` computes, shifted left at each item. As in
`items_items`, the links have no cycle (`PathLinksAcyclic`).
The services that change attempts, results and permissions run between them.

### The services

* `ItemChildren`: `createItem`, `updateItem`, `updateItemString`, `deleteItem` and the
  dependencies; validators in the order of the code, default levels, merged links.
* `PermissionGrants`: `updatePermissions` for one item, group and source group, with
  `correctPermissionsDataMap`, and the help part of `getPermissions` against
  `User.CanRequestHelpTo`.
* `GroupCodes`: managers, `createCode`, `removeCode`, `checkCode`, `joinGroupByCode`, and
  `updateGroup`, which writes those of the two columns of the code that the request
  gives. `promised` records the first attempt to join since a manager last wrote
  `code_expires_at`, with the lifetime then.
* `UserBatches`: creation and removal of batches in their separate steps, with requests
  that overlap. The login module fails before it did anything, or its answer is lost or
  not understood (`client.go`) after it did; the users in an answer of success may not be
  decodable, before the deletion of the row is deferred; the transaction fails before its
  commit or after it was applied, and the response may fail after it; users are deleted
  in part; the process dies at any step. History variables name what each accident
  leaves: `interrupted` (a row half-way), `orphaned` (accounts in the login module
  without a row), `rowless` (users here and there without a row), `clashed` (a removal
  that overlapped other work on the prefix), `raced` (a row whose request another
  insertion overtook since it read the sum).
* `Sessions`: login, refresh step by step under the lock of the process, temporary
  users, deletion of users, logout, clock and a server that dies.
* `Grading`: task and answer tokens, hints, answers, and `saveGrade` with scores
  that come in any order and more than once.
* `Threads`: one thread, `updateThread` with its check before the transaction, and
  the four decisions on who sees it. The participant is a user, or a team whose members
  call the services; `listThreads` shows no thread of a team, since it joins the
  participants with `users`.
* `Paging`: `ApplySortingAndPaging` on a list and on the activity log, read page by
  page while rows change.

## 4. The runs

Runs that must pass:

| Run | Instance | What it shows |
|---|---|---|
| `groups` | memberships: two users, one approval, a limit of one, one request between check and act; graph: three classes, a team, a participants' group, a user, the Base group; two instants and "forever" | Freezing, stronger approvals and the limit stay effective although another transaction commits between a check and its `Transition`. Its next-state relation `OverlapNext` is `Next` without what `RequestKinds` and `MayExpire` disable there; those services move in `services`. The cache of the graph is the closure now and at all later instants, no cycle arises even through expired relations, and only orphans are deleted. |
| `permissions` | three items, two grants, one relation kind in which every column matters, three calls of services | What is stale is marked, the loop ends, everything is right when it has ended, `*_with_grant` and ownership come only from grants. |
| `contests` | two teams with two users and permissions to enter that are valid or not; and one participant in a class with extra time of -1, 0 and 2 for either, three attempts, five instants | No service puts a user into two participations; a team at work keeps the entry conditions of its participation, `loosened` teams excepted. One participation at a time, which ends when it should; the membership of the participants' group follows it; an ended attempt and all below it stay closed. |
| `propagation` | results: four items, two attempts, three calls or crashes, chunks of one; transactions: two callers locking two rows in opposite orders, two connections, one retry; paths: three items, a contest that is also a root, three attempts, five calls | `IdleMeansSettled`, `MarksDisappear`; `ModesAreAsked`, `CallsAreAtomic`; `PathQueriesAgree`. |
| `services` | one small instance of each of the nine models of section 3 that are about single services, with memberships serially (expiring rows, grants, a team, a managing user) | Memberships: no contradictory rows, a log that explains them, grants that end with them. `GrantedRowIsConsistent`, `AnnouncedIsDone` (help and codes), `CodeExpiresAfterItsLifetime`, `BatchesMatchUsers`, `RefreshUsesAcceptedToken`, `ResultFollowsGradings`, `ThreadWritersSeeIt`, `PropagationWasAllowed`, `PagesMissNothing`. |

**Models side by side.** `MCGroups`, `MCContests`, `MCPropagation` and `MCServices` extend
several models that have no variable in common. A variable `moving` (`side` in `MCGroups`), chosen by the initial
state and never changed, says which model takes steps; the others keep one initial
state. The reachable states are the disjoint union of the models' own. Nothing is
lost: for models without common variables, a property of the variables of one holds
of all interleavings if and only if it holds of that model alone. The fairness
conditions are guarded with `moving` likewise.

Runs in which a sentence of the repository is refuted by the code:

| Run | The sentence | What the code does |
|---|---|---|
| `freeze_race` | freezing a group rejects all pending leave requests | `createGroupLeaveRequest` reads `frozen_membership` without a lock; its request can be inserted after the freeze, and stays pending. |
| `approval_change` | `approval_change_action` removes all the pending requests to the group | Invitations of people who were not participants survive. |
| `former_children` | `itemUpdate` removes relations to former children and propagates `permissions_generated` | The mark names the parent and is read after the relation is gone: the former child keeps what it had through that parent. |
| `team_leave` | `leaveGroup` refuses when leaving breaks the entry conditions | The check is made with `isAdding = true`, that is, on the team with the member who leaves. |
| `second_attempt_time` | additional time gives `started_at + duration + total additional time` to the latest attempt | A participation that ran out of time keeps `ended_at NULL` and enters the sums: the second one gets the end of the first, plus twice the extra. |
| `grade_order` | a lower score leaves `score_obtained_at` alone | For a lower score the compared value is `GREATEST(score, score_computed)`, so an earlier answer with a lower score, graded later, moves `score_obtained_at` back to its own creation. |
| `path_through_ended_contest` | `getPathFromRoot` returns a path through a contest only if it "has been started and is still open" (`path_from_root.go:43-49`) | For an item before the last one `FindItemPaths` asks for a result that is started *or* an attempt that is open (225, 254-256): a path through a contest that was started and then ended or ran out of time is returned. |

**Preconditions worth knowing.** `OnlyOpenAttemptHasItsTime`,
`MembershipFollowsParticipation` and `EndedStaysClosed` are about participants
whose earlier participations were ended; `second_attempt_time` shows why.
`StaleIsMarked` and `IdleMeansUpToDate` leave out former children
(`former_children`), `IdleMeansSettled` what `lost`, `rescored` and `reshaped` hold.
`MembersGaveRequiredApprovals` is checked without expiring rows (rejoining over an
expired row keeps the approvals of the earlier membership) and
`GrantsFollowMembership` without overlapping transactions: it shows that every way out of
the group deletes the permissions granted there, and is false when a removal commits
between the check of `updatePermissions` and its insertion. `OpenTeamsKeepConditions`
leaves out `loosened` teams. `CodeExpiresAfterItsLifetime` holds the end that the first
attempt to join fixed; a manager who then changes `code_lifetime` alone does not move it,
and a code made after it has that end, or is born expired (`update_group.go:33` calls
`code_lifetime` the "duration after the first use of the code when it will expire").
`BatchesMatchUsers` leaves out the rows and prefixes named by its history variables:
requests that overlap do exceed `max_users`, which is read without a lock, against
`create_user_batch.go:87-88`, and an error that follows the applied commit does leave
users whose batch is gone. `PathQueriesAgree` is about what the services do with paths;
what the comment of `getPathFromRoot` says of contests is another property,
`PathsPassOpenContests`, and false. `RefreshUsesAcceptedToken` leaves
out sessions whose new refresh token was lost by a failure or a crash between the
answer of the login module and the commit: the code has no remedy there.
`PagesMissNothing` leaves out reading on from a row that changed or was deleted
(the page is then computed from its new place, or is empty), and in the activity
log reading on from an activity that has *twins*, others of the same result at the
same instant. The three queries compare only date and result (and type for
answers) with the from row, strictly, before their union is sorted: a started or
validated result with the from row's date is dropped although it comes after it,
and answers that come before it may fill the limit of their query.

**Seen while modelling, without a run.** `createItem` refuses
a request that gives `requires_explicit_entry: false` whatever the duration, because
the validator asks whether the field that carries it is valid, and a boolean always
is (`create_item.go:357`; the comment of the field asks only for `true` when there is
a duration). When a user is
deleted here and the call to the login module fails, the login module keeps the
link.

### Bounds

* *Two users or one user and one team* in `GroupMembership`: members influence
  each other only through the group's settings and the limit; two suffice for a
  batch that is partly refused and for the last place. One approval that may be
  required or not, since approvals are treated alike except for the lock, and the
  approval of the instance is the lock. `MaxInFlight = 1`: one stale check
  against everything else.
* *Seven groups* in `GroupGraph`: one of each type with rules of its own and
  three classes, enough for a diamond, for a descendant that stays attached
  elsewhere, and for a cycle of three. `MaxTime = 2`: expired, now, later,
  forever. The three classes are interchangeable.
* *Three items, three calls* in `PermissionsPropagation`: a chain in which the
  last item depends on a row that is itself being processed, with a call between
  any two turns. `MaxServices` also makes the state space finite; that the
  calls may run out is why deadlock is not checked there. The proofs have no
  such bounds.
* *Five instants, duration 2, three attempts* in `ContestParticipation`: a
  participation can end, run out, be extended back to life, and be followed by
  another, with attempts at tasks below it.
* *Four items, three calls, chunks of one row* in `ResultsPropagation`: a chapter
  between root and task, a chapter to unlock whose results then propagate again,
  an attempt below another, and a call or crash between any two chunks.
* *Two callers, two rows, two connections, one retry* in `Transactions`: the
  smallest deadlock, a connection that is used again, a caller that waits for the
  pool, and a caller that runs out of retries.
* *Three items, three attempts, five calls* in `ItemPaths`: an item reached in two
  ways and from two roots, an entry below a started result that runs out, attempts
  that end above others.
* *Services*: three answers (best, earlier, later) and three scores; two requests
  for one session and three tokens; two prefixes, two requests at a time
  and three calls, so that requests overlap and a batch can be removed and made again
  after a failure; a lifetime of two moments, or none; three
  rows, a nullable field and two tie-breakers, pages of one and two rows (a third
  limit is cut to the maximum) and one change meanwhile; three calls of item
  services by two editors.

In `MCServices` and `MCPermissionsPropagation` and `MCPropagation` deadlock is not
checked: the calls, tokens, answers and instants run out there. Symmetry is used for
users, teams and classes only in runs without liveness properties.

## 5. Fairness

`LoopsEnd` (`PermissionsPropagation`): weak fairness on `Turn` and `SyncTurn`. A loop
that has started goes on, because it is a `for` loop in a running goroutine, unless
its process dies (`Die`, which is not fair). No service is fair, and neither is the
start of the propagation.

`MarksDisappear` (`ResultsPropagation`): weak fairness on the steps of the propagation,
its start included, and on the computation of access. The steps follow each other in
a loop; a start comes with every later call that schedules one and with the
`propagation` command (`src/cmd/propagation.go`), which is meant to be run
repeatedly. It is stated for calls that come to an end (`MaxCalls`): a stream of
calls that never stops can keep marks coming. Crashes are not fair.

`CallsAreAtomic` (`Transactions`): weak fairness on the steps of each call, so that the
abstract "every call is answered" is implemented. A goroutine goes on by itself,
MySQL ends a wait for a lock (`innodb_lock_wait_timeout`) and `GET_LOCK` after its
timeout; waiting for a connection of the pool ends because those who have one end.

## 6. What is proved

The theorems hold for all values of the constants that satisfy the assumption
named in the component's module (`MembershipConstants`, `GraphConstants`,
`PermissionConstants` with `LinkedAcyclic`, `ContestConstants`, `TeamConstants`,
`ResultsAssumption` with `InitialChildrenAcyclic` and `InitialStartedInPlace`,
`TransactionsAssumption`, `PathsAssumption` with
`PathLinksAcyclic`, `GrantsAssumption`, `CodesAssumption`,
`BatchesAssumption`, `SessionsAssumption`, `GradingAssumption`,
`ThreadsAssumption`, `ItemsAssumption`, `PagingAssumption`): any number of users, groups, items,
attempts, rows, callers and calls. TLC evaluates each of them on the instance it
checks. Where a property is about some runs only (section 4, preconditions), the
theorem has the same hypothesis, written out: `~MayExpire`, `~Overlap`,
`Percentages`.

All the safety properties that the passing runs check are proved.

| Module | Theorem | Property | Hypothesis |
|---|---|---|---|
| `GroupMembershipProofs` | `TypeCorrect`, `NeverContradictory`, `LogExplains`, `NoJoinRequestWhenFrozen` | `TypeOK`, `NoContradictoryState`, `LogExplainsState`, `FrozenGroupHasNoJoinRequest` | |
| | `MembersApprove` | `MembersGaveRequiredApprovals` | no expiring row |
| | `OnlyBadgesWhenFrozen`, `LimitIsKept` | `FrozenGroupAdmitsOnlyBadges`, `UsersStayWithinLimit` | |
| | `GrantsGoWithMembership` | `GrantsFollowMembership` | no overlap |
| `GroupGraphProofs` | `GraphTypeCorrect`, `CacheIsTheClosure`, `NoCycleEvenExpired`, `OrphansGoOthersStay` | `TypeOK`, `AncestorsAreTheClosure`, `RelationsAreAcyclic`, `OnlyOrphansAreDeleted` | |
| `PermissionsPropagationProofs` | `PropagationTypeCorrect`, `StaleMarked`, `UpToDateWhenIdle`, `TopLevelsAreEarned`, `ItemsStayAcyclic` | `TypeOK`, `StaleIsMarked`, `IdleMeansUpToDate`, `TopLevelsComeFromGrants` | |
| `ContestParticipationProofs` | `OneParticipationAtATime`, `RunningParticipationHasItsTime`, `MembershipEndsWithParticipation`, `EndedAttemptsStayClosed` | `AtMostOneOngoingParticipation`, `OnlyOpenAttemptHasItsTime`, `MembershipFollowsParticipation`, `EndedStaysClosed` | |
| | `NobodyTakesPartTwice`, `OpenTeamsAreEntitled` | `NobodyJoinsTwoParticipations`, `OpenTeamsKeepConditions` | |
| `PropagationProofs` | `TxTypeCorrect`, `ModesAreTheCallersOwn`, `Atomicity` | `ModesAreAsked`; `Atomicity` is the safety part of `CallsAreAtomic` | |
| | `ResultsAndTransactionsTyped`, `PathQueriesAlwaysAgree` | `PropagationTypeOK`, `PathQueriesAgree` | |
| `ResultsProofs` | `ResultsSettle` (and `ResultsSettleInAll`, in `PropagationProofs`) | `IdleMeansSettled` | |
| | `SettledEnds` | | nothing marked but to be propagated |
| `ServicesProofs` | `ItemsTypeCorrect`, `LinksWereAllowed` | `PropagationWasAllowed` | |
| | `GrantedRowSupportsItself`, `HelpIsReportedAsAllowed` | `GrantedRowIsConsistent` | |
| | `CodeEndsInTime`, `CodeCheckAgrees` | `CodeExpiresAfterItsLifetime` | |
| | `WritersSeeTheThread` | `ThreadWritersSeeIt` | |
| | `ResultIsTheBestGrade` | `ResultFollowsGradings` | scores are percentages |
| | `RefreshTokenIsAccepted` | `RefreshUsesAcceptedToken` | |
| | `BatchesAgree`, `BatchesTypeCorrect` | `BatchesMatchUsers` | |
| | `PagesAreComplete` | `PagesMissNothing` | |
| | `ServicesTypeCorrect`, `AnnouncementsAreKept` | `ServicesTypeOK`, `AnnouncedIsDone` | |

**`GroupMembershipProofs`.** None of the four type and row properties is
inductive by itself: what `Transition` does to a member depends on the state it is
in, which `NoContradictoryState` makes one of the rules' states; that an
acceptance finds no request in a frozen group depends on
`FrozenGroupHasNoJoinRequest`. Their conjunction `RowsInv` is inductive. The
argument goes by member: `PlanLeadsToTargets` says what a member in the plan may
become, `NewRelIs` and `NewPendingIs` what rows it then has, and there is one lemma
for each kind of service. `ApprovalsInv` adds that nobody is an expired member:
`MovedMember` and `ApprovalsAfter` say with which approvals a member comes in,
`UpdateGroupKeepsApprovals` that a requirement that is raised empties the group or
finds it approving. The limit and the freeze are action properties: `NewPlaces`
lists the steps that take somebody in, and `PlacesWithinLimit` is that `IsFull`
counts them all, whatever another transaction did since the check. For requests one
after the other `SerialInv` says that what the check of a request in flight saw still
holds when it goes on; without that hypothesis `GrantsFollowMembership` is false.

**`GroupGraphProofs`.** `CreateNewAncestors` is a recursive function, and the proof is
about what it computes. `ReachExists` and `TurnsExist` show that the functions exist
at all (`Induction`, below), `ReachFacts` that `ReachableFrom` is the closure.
`Sound` is the invariant of the loop's record and of the tables: every cached row is
a path with the right end (`MarkedIsRight`, `LongestKnows`), every path of unmarked
groups is in the cache, and the relations, expired ones included, have no cycle. That
a turn always finds a group to process, so that the loop leaves no mark, is
`SourcedIsAcyclic`: marks closed downwards in an acyclic graph have a source.
`PutIsSound`, `DeletedIsSound`, `RestrictedIsSound` and `CreatedIsSound` are the
statements of the services; `NothingBelow` and `NoWayBack` are why the check of
`addChild` on the cache excludes cycles, although the cache forgets what has expired:
relations between classes never expire, nothing but a class is above a class, and
below users and teams there is nothing.

**`PermissionsPropagationProofs`.** The invariant `Inv` has five parts: `Shape` (rows
and marks are of existing items, only a pair with a row is marked 'children', items
that do not exist have nothing), `Acyclic` (every set of items has one without a
parent in it), no marks when idle, no marks of a synchronous propagation outside its
transaction, and `StaleIsMarked`. `StaleIsMarked` needs only `Shape`, and the argument
is local: an item's permissions can become stale only through its grants or a parent
with a row, and both are marked. That nothing is stale when the loop has ended needs
`Acyclic`: a turn that finds nothing to process could leave marks behind if all marked
items had marked parents, which without cycles is impossible (`SomethingToProcess`,
`LastTurnClears`). `Acyclic` in turn is kept because `itemUpdate` and `itemCreate`
refuse children among the ancestors of the item. `TypesInv` strengthens
`TopLevelsComeFromGrants` to what can be kept through the turns: `EarnedStays` and
`AggregateIsEarned` say that the aggregation of rows whose top levels are earned earns
its own, by a grant on the item.

**`ContestParticipationProofs`.** The four properties need one another.
`ContestInv` says, for each participant, that attempts form a tree, that only the
latest participation may be under way (`EarlierOver`), that it has the time of the
contest after its start plus all additional time (`Timed`), that the membership ends
with it (`Together`) and that what is below an ended attempt is ended and over
(`ClosedBelow`); the last three for a participant that left no earlier participation
to run out, as in the properties. The additional time is a sum over a finite set of groups
(`TotalFacts`), and the chain of an attempt is a recursive function over the tree
(`ChainsExist`, `ChainFacts`). `NobodyJoinsTwoParticipations` follows
from `TeamSteps`: only a service that made the check takes somebody in, alone.
`OpenTeamsKeepConditions` is inductive with the types: `ConditionsStay` says that what
changes neither the members nor the start, and takes no permission back at that start,
keeps the conditions, `MemberServiceKeepsConditions` that a service on members either
evaluated them for the members it leaves, or puts the team among the loosened.

**`PropagationProofs`.** Transactions: `Inv` has a part for connections (one caller each, with the
modes of that caller or none), for locks (a row has one writer), for what a
transaction wrote (`WritesAreStatements`: the effect of each of its
statements so far, on top of the committed values) and for the answers given.
`StepIsAtomic` then maps each step: a commit is `Apply`, an answer is an answer, and
every other step changes nothing that `AtomicTransactions` can see, a deadlock in the
middle and a retry included. `Atomicity` is the refinement without its fairness.

Paths: the three queries are compared chain by chain. What `startResultPath` may start
`FindItemPaths` finds (`StartableAreFound`), by a comparison of their conditions for any
length of the path. The converse, `FoundAreStartable`, goes along the chain. That the
started path is known needs an invariant over time, `ReturnedIsKnown`: the chain that was
just started comes first in `FindItemPaths`, and the attempt returned leads
`getBreadcrumbs` along that chain only. It comes first because a chain that overtook
it would have been taken by `startResultPath` itself (`StartedIsKnown`). That
rests on `ScoreFacts`: the score is 0 when every result of the chain is started and only
then, and it is not higher for a chain that has the same results started and more.
`KnownIsFirst` then gives that `getPathFromRoot` answers with a started path.

**`ResultsProofs`.** `ResultsTypes` is inductive, and what it takes is in the operators.
`AggregateIsRow` says that an aggregated score is a percentage, since it is a weighted
sum of percentages divided by the sum of the weights (`SumOfPercentages`). `Dbs` are the
tables on which a transaction of the propagation works, with the foreign key of
`results_propagate` and with all results that were there before; each of the three
transactions, a turn, and any number of turns (`SettledTyped`, by `FoldExists` and
`PickInduction`) leave such tables. That no result disappears matters because `saveGrade`
runs on marks of its own while other marks wait.

`IdleMeansSettled` says nothing while anything is marked. Its inductive form `Sound` says
what each mark stands for, in four parts. `Aggregated`: a chapter's result is the
aggregate of its children, or it awaits a recomputation, or it is overdue, that is a
child of it is announced (`to_be_propagated`, or lost). `MissingIsNothing`: where a
propagation would create a row and there is none yet, the children show what a new row
shows, or are announced. `Earned`: an item that a result earned is unlocked, or the
result has a mark that leads to the unlocking. `InPlace`: results are in the scope of
their attempts, and the attempts and their parents exist. `Sound` is about any tables
and two tables of marks, because a transaction of `saveGrade` has marks of its own.

What an aggregate depends on is made precise first. `Shown` is what a chapter above can
see of a row, a missing row showing the same as a new one (`ValuesShown`), and
`AggregateIsDue` that an aggregate is a function `Due` of what the counted rows show. So
a row that is created changes no chapter, and a recomputation that finds nothing
modified has no chapter to tell (`RecomputeSound`). `MarkParentsSound`,
`UnlockItemsSound`, `RecomputeSound` and `AccessSound` are then about the transactions,
on any chunk, and `TouchedSound`, `SeenSound`, `LinkAddedSound`, `LinkRemovedSound` and
`RemarkedSound` about what services write. `NoOwnAncestor` and `OneAbove` are where the
relations without cycle are needed: the results that count for a chapter are those that
`markAsPropagating...` finds it from, only in the scope of the attempt.

`SettledEnds` is a measure. A turn recomputes all that is marked and leaves only marks one
level of items higher (`RecomputationsClear`, `TurnPropagates`); without cycles there is
nothing N levels up (`LevelsExist`), so that after a turn for each level nothing is marked.
If items were unlocked meanwhile, it starts again with more items unlocked, of which
there are finitely many (`TurnGoesOn`). The bound `(N + 1) * (N + 2)` of `Settled` is thus
no bound on the code.

**`ServicesProofs`.** Eight services and their composition. Items: `ItemsInv` are the rules
between the tables, that links make no cycle, and that every link lets through only what
an editor of it could give; `WrittenLevels` is about one level of one link (its default,
its reduction, what an existing link keeps), `NewItemLinks` and `ChangedItemLinks` about
the lists of children. Codes: `EndIsPromised`
and `UsesBeforeTheEnd`, since the property compares uses with what the first attempt
promised while the code compares them with an end that it stored then. Granted rows: the row supports
itself after `correctPermissionsDataMap`, whatever it was before (`CorrectedIsConsistent`).
Threads: the four conditions, written apart in the code, fit together in every
state, so no invariant is needed; the same is so for `checkCode` and joining by a code. Gradings: the score is that of the best grade counted,
and the date of the validation that of the earliest answer with a full score; the two
are kept together, because which date `saveGrade` keeps depends on the score that was
there. Sessions: `OneInLock` (the lock of the process), and `Accepted` (who is at which
step holds which token), for any number of refreshes, logouts and deletions at once.
Batches: `PrefixOK` says that at most one request works on a prefix that no removal
clashed on, what that request has done so far to each of the three places
(`InProgress`), and that they are settled when there is none; `PlacesFree`, that a request
about to insert its row has room for it unless another one inserted since. The sums
follow `SumTheorems` (`NoRowInserted`, `RowInserted`). Any number of requests overlap. Pages: `OneRule` is about two values, with NULL first, last or
excluded; from it, the condition of a page lets through exactly the rows after the from
row (`OrderIsStrict`), and the tie-breakers leave no two rows of a table at one place
(`OrderIsTotal`, `RulesOfRequest`). For the log, `PartsAgree` says that without twins each
of the three queries orders and cuts its rows as the union does, and `FirstOfMore` that
what their limits leave out is not among the first of the union. `PagesFollow` is the
invariant: the rows read are in order, and a row that stayed is among them or comes
after the last one. The composition moves one service and leaves the others' variables
alone (`OnlyOneMoves`), so the invariants of the parts are its invariant.

**`SumTheorems`** has what several proofs need: `Induction` (for a set of natural
numbers, from the well-foundedness of `<`) and `PickInduction` (over the members that a
fold takes one after the other), `LeastNatural` and `GreatestNatural`, what
`MapThenSumSet` of the community modules computes (`SumExists`, `SumFacts`, `SumOfPart`,
`SumOfSubset`, `SumWithout`), and that `FoldSet` computes something at all (`FoldExists`).

**Only model-checked.**

* Liveness, which is out of the prover's reach: `LoopsEnd`, `MarksDisappear`, and the
  fairness part of `CallsAreAtomic`.

## 7. What is abstracted

* *Who may call a service* is left open unless a state of the model decides it:
  a manager exists for every manager's service, and permissions are data of
  `PermissionsPropagation`.
* *The text of a request*, its validation as a form, and the text of responses.
* *Timestamps of the log*: the newest row per member is kept.
* *View permissions* are left open in `ContestParticipation`; they are data of
  `ItemPaths`, where additional time is not.
* *The propagation endpoint* (`service/propagation.go`) that answers, fails or
  times out is the choice between a propagation that starts and one that does not.
  It is called inside the transaction, before the commit, so it may run before the
  marks are visible; the next propagation then handles them.
* *Columns that decide nothing*: titles, descriptions, orders, personal data.

## 8. What is not modelled

* *Read services* other than those named above: queries that change nothing. Their
  access checks use the operators modelled with permissions and groups; the
  lists share `Paging`.
* *Forms, routing, signing and encoding of tokens, drivers, logging, configuration
  and commands*: conversions and plumbing. What a token says and for how long is in
  `Grading`, `Threads` and `Sessions`.
* *Badges* at login (groups created from the profile of the login module).
* *`updateResult`*, which writes one flag that nothing reads.
* *The aggregation of levels in `getPermissions`*, a second time in SQL what
  `permission_store.go` computes, shown and not stored.
* *The history of the schema*; the triggers in force are modelled with the component
  they serve.

Hazards known and covered by no property here, because no document promises
anything and the code does nothing about them: the login module not told of a deleted
user; log entries of two refusals in one instant whose order is undefined
(`refuseSentGroupRequestsIfNeeded`); additional time that makes a team's participation
active again after a member has gone to another team; a member who leaves a group that
was frozen after the check of `leaveGroup`; two creations of relations at once that close
a cycle together; tasks below a participation that
is over, closed by view permissions only.

## 9. What to prove next

No safety property is left. `SettledEnds` bounds the turns of one propagation that
nothing interrupts; the same measure could be stated of the asynchronous steps
(`RecomputeStep`, `MarkStep`, `UnlockStep`) between two calls, as the safety part of
`MarksDisappear`, and of the loop of `PermissionsPropagation`, as that of `LoopsEnd`.
