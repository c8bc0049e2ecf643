------------------------------- MODULE Threads -------------------------------
(***************************************************************************)
(* The help thread of one participant on one item (app/api/threads): its   *)
(* row in threads, who may change it, and the four places that decide on   *)
(* their own who sees it: getThread, listThreads, getAnswer and the rights *)
(* written into a thread token.  The participant is a user or a team.      *)
(* Permissions, memberships and results change under it, and helper groups *)
(* are deleted.                                                            *)
(***************************************************************************)
EXTENDS Integers

CONSTANTS
  Participant,   \* the participant of the thread
  Others,        \* users, other than the participant
  Mates,         \* those in the participant, where it is a team
  HelperGroups,  \* groups help can be asked to
  PublicGroups,  \* those with is_public
  AllUsersGroup, \* the group every user is a descendant of
  MaxMessages,   \* bound on message_count
  NoThread,      \* no row: the status reads as 'not_started'
  NotGiven       \* a field absent from the request

ASSUME ThreadsAssumption ==
  /\ Participant \notin Others /\ Mates \subseteq Others /\ PublicGroups \subseteq HelperGroups
  /\ AllUsersGroup \notin HelperGroups /\ MaxMessages \in Nat \ {0}

VARIABLES
  thread,        \* NoThread, or its status, helper group, messages, and
                 \* whether latest_update_at is less than two weeks ago
  contentViewers,\* users with can_view >= content on the item
  watch,         \* user -> can_watch on the item
  memberWatchers,\* users with can_watch_members on the participant
  joined,        \* user -> helper groups it is an active descendant of
  solvers,       \* users, and the team, with a validated result on the item
  ofTeam,        \* the participant is a team
  helpTo,        \* groups the participant may request help to
  threadRequest  \* user whose updateThread passed the check of can_view

threadVars == <<thread, contentViewers, watch, memberWatchers, joined, solvers, ofTeam, helpTo,
                threadRequest>>

\* The participant and the others; a team makes no request.
ThreadUsers == Others \cup {Participant}
Callers == IF ofTeam THEN Others ELSE ThreadUsers
IsParticipant(u) == u = Participant /\ ~ofTeam
OpenStatuses == {"waiting_for_participant", "waiting_for_trainer"}
Statuses == OpenStatuses \cup {"closed"}
Groups == HelperGroups \cup {AllUsersGroup}

ThreadsInit ==
  /\ thread = NoThread /\ contentViewers = {} /\ memberWatchers = {} /\ solvers = {}
  /\ ofTeam \in BOOLEAN
  /\ watch = [u \in ThreadUsers |-> "none"]
  /\ joined = [u \in ThreadUsers |-> {}] /\ helpTo = {} /\ threadRequest = NotGiven

-----------------------------------------------------------------------------
(* constructThreadInfoQuery.                                               *)

ThreadStatus == IF thread = NoThread THEN "not_started" ELSE thread.status
IsThreadOpenStatus(status) == status \in OpenStatuses
ThreadIsOpen == IsThreadOpenStatus(ThreadStatus)
WasUpdatedRecently == thread # NoThread /\ thread.recent
CanWatchAnswer(u) == watch[u] = "answer"
CanWatchResult(u) == watch[u] \in {"result", "answer"}
IsDescendantOfHelperGroup(u) ==
  thread # NoThread /\ thread.helper \in joined[u] \cup {AllUsersGroup}

userCanWatchForThread(u) == CanWatchAnswer(u) /\ u \in memberWatchers

userCanWriteInThread(u) ==
  /\ ThreadIsOpen
  /\ \/ IsParticipant(u)
     \/ userCanWatchForThread(u)
     \/ IsDescendantOfHelperGroup(u) /\ (CanWatchAnswer(u) \/ (CanWatchResult(u) /\ u \in solvers))

\* What helpers who solved the item see, while the thread is open or recent.
SeenAsHelper(u) ==
  /\ ThreadIsOpen \/ WasUpdatedRecently
  /\ CanWatchResult(u) /\ IsDescendantOfHelperGroup(u) /\ u \in solvers

\* getThread answers; the token it returns says whether u may write.
getThread(u) ==
  /\ u \in contentViewers
  /\ IsParticipant(u) \/ CanWatchAnswer(u) \/ SeenAsHelper(u)

ThreadToken(u) ==
  [isMine |-> IsParticipant(u), canWatch |-> userCanWatchForThread(u),
   canWrite |-> userCanWriteInThread(u)]

\* listThreads shows the thread to u, with is_mine for the participant; the
\* join with users filters out the threads of teams.
listThreads(u, isMine) ==
  /\ thread # NoThread /\ ~ofTeam /\ u \in contentViewers
  /\ IF isMine THEN u = Participant
               ELSE u # Participant /\ (CanWatchAnswer(u) \/ SeenAsHelper(u))

\* The user is the participant or a member of the team that is, and one of
\* them views the item.
AsParticipant(u) ==
  IF ofTeam THEN u \in Mates /\ {u, Participant} \cap contentViewers # {}
            ELSE u = Participant /\ u \in contentViewers

\* The user or his team has a validated result.
HasSolved(u) == u \in solvers \/ (ofTeam /\ u \in Mates /\ Participant \in solvers)

\* Mutant: getAnswer counts a thread only while it is open or recent and for helpers.
getAnswerAsHelper(u) ==
  \/ AsParticipant(u)
  \/ CanWatchAnswer(u) /\ u \in memberWatchers
  \/ CanWatchResult(u) /\ HasSolved(u) /\ (u \in memberWatchers \/ SeenAsHelper(u))

\* getAnswer shows u an answer of the participant on the item.
getAnswer(u) ==
  \/ AsParticipant(u)
  \/ CanWatchAnswer(u) /\ (u \in memberWatchers \/ thread # NoThread)
  \/ /\ CanWatchResult(u) /\ HasSolved(u)
     /\ \/ u \in memberWatchers
        \/ (ThreadIsOpen \/ WasUpdatedRecently) /\ IsDescendantOfHelperGroup(u)

-----------------------------------------------------------------------------
(* updateThread.  can_view is checked before the transaction; the rights   *)
(* and the old row are read in it, the row locked.                         *)

CheckUpdateThread(u) ==
  /\ threadRequest = NotGiven /\ u \in contentViewers \cap Callers
  /\ threadRequest' = u
  /\ UNCHANGED <<thread, contentViewers, watch, memberWatchers, joined, solvers, ofTeam, helpTo>>

\* IsVisibleFor: public groups, and those the user joined.
IsVisibleFor(g, u) == g \in PublicGroups \cup joined[u]

\* The validators of helper_group_id and status.
ValidHelper(u, status, helper) ==
  LET willBeOpen == IsThreadOpenStatus(status) IN
  /\ ~ThreadIsOpen /\ willBeOpen => helper # NotGiven
  /\ helper # NotGiven =>
       /\ (status = NotGiven => ThreadIsOpen) /\ (status # NotGiven => willBeOpen)
       /\ IsVisibleFor(helper, u) /\ IsVisibleFor(helper, Participant)
       /\ IsParticipant(u) => helper \in helpTo

userCanChangeThreadStatus(u, status) ==
  \/ ThreadStatus = status
  \/ IsParticipant(u)
  \/ IsThreadOpenStatus(status) /\ userCanWatchForThread(u)
  \/ IsThreadOpenStatus(status) /\ ThreadIsOpen /\ userCanWriteInThread(u)

checkUpdateThreadPermissions(u, status, helper, count) ==
  IF status = NotGiven
  THEN (helper # NotGiven \/ count # NotGiven) /\ userCanWriteInThread(u)
  ELSE userCanChangeThreadStatus(u, status)

\* Messages counted afterwards: message_count, or the old count plus
\* message_count_increment, at least 0.
MessageCounts == [set : 0..MaxMessages] \cup [increment : {-1, 1}] \cup {NotGiven}
OldMessages == IF thread = NoThread THEN 0 ELSE thread.messages
NewMessageCount(count) ==
  CASE count = NotGiven -> OldMessages
    [] count # NotGiven /\ "set" \in DOMAIN count -> count.set
    [] OTHER -> IF OldMessages + count.increment < 0 THEN 0 ELSE OldMessages + count.increment

Given(new, old) == IF new = NotGiven THEN old ELSE new

\* The row written.  Without a row and without helper_group_id the helper
\* group would be 0, which the foreign key refuses: UpdateThread excludes it.
computeNewThreadData(status, helper, count) ==
  [status |-> Given(status, ThreadStatus), helper |-> Given(helper, thread.helper),
   messages |-> NewMessageCount(count), recent |-> TRUE]

UpdateThread(u, status, helper, count) ==
  /\ threadRequest = u /\ NewMessageCount(count) <= MaxMessages
  /\ ValidHelper(u, status, helper)
  /\ checkUpdateThreadPermissions(u, status, helper, count)
  /\ thread # NoThread \/ helper # NotGiven
  /\ thread' = computeNewThreadData(status, helper, count)
  /\ threadRequest' = NotGiven
  /\ UNCHANGED <<contentViewers, watch, memberWatchers, joined, solvers, ofTeam, helpTo>>

\* The request is refused, fails or loses its connection.
UpdateThreadFails ==
  /\ threadRequest # NotGiven /\ threadRequest' = NotGiven
  /\ UNCHANGED <<thread, contentViewers, watch, memberWatchers, joined, solvers, ofTeam, helpTo>>

-----------------------------------------------------------------------------
(* The rest of the system, as the thread sees it.                          *)

\* deleteGroup: the group is empty, its threads go to AllUsers, and the
\* foreign key of can_request_help_to keeps groups that are named there.
DeleteHelperGroup(g) ==
  /\ g \notin helpTo /\ \A u \in ThreadUsers : g \notin joined[u]
  /\ thread # NoThread /\ thread.helper = g
  /\ thread' = [thread EXCEPT !.helper = AllUsersGroup]
  /\ UNCHANGED <<contentViewers, watch, memberWatchers, joined, solvers, ofTeam, helpTo, threadRequest>>

\* updatePermissions and the propagation of permissions.  What the participant
\* may watch is never looked at, nor what it has solved, but for a team.
ChangeItemPermissions(u) ==
  /\ \/ /\ contentViewers' \in {contentViewers \cup {u}, contentViewers \ {u}}
        /\ UNCHANGED <<watch, helpTo>>
     \/ /\ u # Participant /\ \E level \in {"none", "result", "answer"} :
                                 watch' = [watch EXCEPT ![u] = level]
        /\ UNCHANGED <<contentViewers, helpTo>>
     \/ /\ u = Participant /\ \E g \in HelperGroups : helpTo' \in {helpTo \cup {g}, helpTo \ {g}}
        /\ UNCHANGED <<contentViewers, watch>>
  /\ UNCHANGED <<thread, memberWatchers, joined, solvers, ofTeam, threadRequest>>

\* Managers come and go, users join and leave groups.
ChangeGroups(u) ==
  /\ \/ /\ u # Participant /\ memberWatchers' \in {memberWatchers \cup {u}, memberWatchers \ {u}}
        /\ UNCHANGED joined
     \/ /\ \E g \in HelperGroups : joined' \in {[joined EXCEPT ![u] = @ \cup {g}],
                                                [joined EXCEPT ![u] = @ \ {g}]}
        /\ UNCHANGED memberWatchers
  /\ UNCHANGED <<thread, contentViewers, watch, solvers, ofTeam, helpTo, threadRequest>>

\* A result on the item is validated; it stays so.
SolveItem(u) ==
  /\ u \notin solvers /\ ~IsParticipant(u) /\ solvers' = solvers \cup {u}
  /\ UNCHANGED <<thread, contentViewers, watch, memberWatchers, joined, ofTeam, helpTo, threadRequest>>

TwoWeeksPass ==
  /\ WasUpdatedRecently /\ thread' = [thread EXCEPT !.recent = FALSE]
  /\ UNCHANGED <<contentViewers, watch, memberWatchers, joined, solvers, ofTeam, helpTo, threadRequest>>

ThreadsNext ==
  \/ \E u \in ThreadUsers : \/ CheckUpdateThread(u) \/ ChangeItemPermissions(u) \/ ChangeGroups(u)
                      \/ SolveItem(u)
  \/ \E u \in ThreadUsers, status \in Statuses \cup {NotGiven}, helper \in HelperGroups \cup {NotGiven},
        count \in MessageCounts : UpdateThread(u, status, helper, count)
  \/ UpdateThreadFails \/ TwoWeeksPass
  \/ \E g \in HelperGroups : DeleteHelperGroup(g)

ThreadsSpec == ThreadsInit /\ [][ThreadsNext]_threadVars

-----------------------------------------------------------------------------

ThreadRows == [status : Statuses, helper : Groups, messages : 0..MaxMessages, recent : BOOLEAN]

ThreadsTypeOK ==
  /\ thread \in ThreadRows \cup {NoThread}
  /\ contentViewers \subseteq ThreadUsers /\ memberWatchers \subseteq Others /\ solvers \subseteq ThreadUsers
  /\ watch \in [ThreadUsers -> {"none", "result", "answer"}]
  /\ joined \in [ThreadUsers -> SUBSET HelperGroups] /\ helpTo \subseteq HelperGroups
  /\ ofTeam \in BOOLEAN /\ threadRequest \in Callers \cup {NotGiven}

\* Whoever may write in the thread and views the item can fetch the thread
\* and its token (getThread), sees the answers discussed there (getAnswer)
\* and, if the participant is a user, finds the thread in one of its two
\* lists (listThreads, which shows no thread of a team): four queries that
\* are written separately agree in every mix of permissions.
ThreadWritersSeeIt ==
  \A u \in contentViewers \cap Callers :
    ThreadToken(u).canWrite => /\ getThread(u) /\ getAnswer(u)
                               /\ ~ofTeam => listThreads(u, TRUE) \/ listThreads(u, FALSE)

=============================================================================
