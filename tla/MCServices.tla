----------------------------- MODULE MCServices -----------------------------
(***************************************************************************)
(* The services, checked side by side: memberships with one request at a   *)
(* time, granted permissions, group codes and managers, batches of users,  *)
(* sessions, gradings, threads, the services that write items and those    *)
(* that read pages of lists.  They share no variable, so their states      *)
(* together are the tuples of their states and say nothing more: one of    *)
(* them moves, chosen at the start, and the others keep an initial state.  *)
(***************************************************************************)
EXTENDS MCGroupMembership, PermissionGrants, GroupCodes, UserBatches, Sessions, Grading,
        Threads, ItemChildren, Paging

CONSTANTS boss, chap, prob, fresh, ed, chief

\* A manager who may grant little, one who may grant all but the edition of
\* the item's ownership, and an owner.
Rights(v, w, e, owns, groups) ==
  [can_grant_view |-> v, can_watch |-> w, can_edit |-> e, is_owner |-> owns, visible |-> groups]
MCManagers == {Rights(3, 1, 1, FALSE, {"club"}), Rights(6, 4, 4, FALSE, {}),
               Rights(6, 4, 4, TRUE, {"club"})}

\* A chapter, a task and an item to create; an editor with all rights but
\* can_edit:all_with_grant, and one who edits the chapter's children and may
\* do little with them.
MCFirstItems == [i \in {chap, prob} |-> IF i = chap THEN "Chapter" ELSE "Task"]
OnItem(v, g, w, e) == [view |-> v, grant_view |-> g, watch |-> w, edit |-> e]
MCEditorRights ==
  [u \in {ed, chief} |-> [i \in {chap, prob, fresh} |->
     IF u = chief THEN OnItem(5, 6, 4, 3)
     ELSE CASE i = chap -> OnItem(3, 1, 1, 2) [] i = prob -> OnItem(2, 2, 1, 1)
            [] i = fresh -> OnItem(1, 1, 1, 1)]]
Asks(content, upper, flags) ==
  [f \in LinkFields |-> CASE f = "content" -> content [] f = "upper" -> upper [] OTHER -> flags]
MCChildRequests == {AllAbsent, Asks(3, 3, 2), Asks(Absent, 2, 1)}

\* A list of at most three rows with a grade, identified by team and id; the
\* activities of one result. Some of the requests for a sort are refused.
MCFieldNames == <<"grade", "id", "team">>
MCListRows == {[grade |-> g, team |-> k[1], id |-> k[2]] :
                 g \in {SqlNull, 1, 2}, k \in {<<1, 1>>, <<1, 2>>, <<2, 1>>}}
By(f, d, l) == [field |-> f, desc |-> d, last |-> l]
MCSortRequests ==
  {<<By(f, d, l)>> : f \in {"grade", "id"}, d \in BOOLEAN, l \in BOOLEAN}
    \union {<<By("grade", d, TRUE), By("team", TRUE, FALSE)>> : d \in BOOLEAN}
    \union {<<By("id", FALSE, FALSE), By("id", TRUE, FALSE)>>, <<By("team", TRUE, FALSE)>>}
Activity(at, kind, answer) ==
  [at |-> at, result |-> 1, kind |-> kind, answer |-> answer,
   type |-> CASE kind = 2 -> 1 [] kind = 4 -> 2 [] kind = 5 -> 3 [] OTHER -> NoType]
MCLogRows == {Activity(at, k, -1) : at \in {1, 2}, k \in {1, 3}}
               \union {Activity(at, k, 1) : at \in {1, 2}, k \in {2, 5}}
               \union {Activity(1, 2, 2)}

VARIABLE moving

Components == {"memberships", "grants", "codes", "batches", "sessions", "grading", "threads",
               "items", "pages"}

\* Those that do not move have one initial state each.
ServicesInit ==
  /\ moving \in Components
  /\ Init /\ SessionsInit /\ ItemsInit
  /\ ThreadsInit /\ (moving # "threads" => ~ofTeam)
  /\ GrantsInit /\ (moving # "grants" => ~helpPropagates /\ ~itemReach)
  /\ CodesInit /\ (moving # "codes" => canManage[boss] > 0 /\ codeLifetime = Null)
  /\ BatchesInit /\ (moving # "batches" => ~lockedMembers /\ ~lockedGroups)
  /\ GradingInit /\ (moving # "grading" => ~readOnly)
  /\ PagingInit /\ (moving # "pages" => reads = "list" /\ table = {})

ServicesNext ==
  \/ moving = "memberships" /\ Next
     /\ UNCHANGED <<moving, grantVars, codeVars, batchVars, sessionVars, gradingVars, threadVars, itemVars,
                    pagingVars>>
  \/ moving = "grants" /\ GrantsNext
     /\ UNCHANGED <<moving, vars, codeVars, batchVars, sessionVars, gradingVars, threadVars, itemVars,
                    pagingVars>>
  \/ moving = "codes" /\ CodesNext
     /\ UNCHANGED <<moving, vars, grantVars, batchVars, sessionVars, gradingVars, threadVars, itemVars,
                    pagingVars>>
  \/ moving = "batches" /\ BatchesNext
     /\ UNCHANGED <<moving, vars, grantVars, codeVars, sessionVars, gradingVars, threadVars, itemVars,
                    pagingVars>>
  \/ moving = "sessions" /\ SessionsNext
     /\ UNCHANGED <<moving, vars, grantVars, codeVars, batchVars, gradingVars, threadVars, itemVars,
                    pagingVars>>
  \/ moving = "grading" /\ GradingNext
     /\ UNCHANGED <<moving, vars, grantVars, codeVars, batchVars, sessionVars, threadVars, itemVars,
                    pagingVars>>
  \/ moving = "threads" /\ ThreadsNext
     /\ UNCHANGED <<moving, vars, grantVars, codeVars, batchVars, sessionVars, gradingVars, itemVars,
                    pagingVars>>
  \/ moving = "items" /\ ItemsNext
     /\ UNCHANGED <<moving, vars, grantVars, codeVars, batchVars, sessionVars, gradingVars, threadVars,
                    pagingVars>>
  \/ moving = "pages" /\ PagingNext
     /\ UNCHANGED <<moving, vars, grantVars, codeVars, batchVars, sessionVars, gradingVars, threadVars,
                    itemVars>>

ServicesSpec ==
  /\ ServicesInit
  /\ [][ServicesNext]_<<moving, vars, grantVars, codeVars, batchVars, sessionVars, gradingVars,
                        threadVars, itemVars, pagingVars>>

ServicesTypeOK ==
  /\ moving \in Components
  /\ moving = "grants" => GrantsTypeOK
  /\ moving = "codes" => CodesTypeOK
  /\ moving = "batches" => BatchesTypeOK
  /\ moving = "sessions" => SessionsTypeOK
  /\ moving = "grading" => GradingTypeOK
  /\ moving = "threads" => ThreadsTypeOK
  /\ moving = "items" => ItemsTypeOK

\* What one service tells a user in advance is what another then does, each
\* with code of its own: whom getPermissions says a group may ask for help,
\* and updateThread lets it ask; who checkCode says can join by a code, and
\* joinGroupByCode takes in.
AnnouncedIsDone ==
  /\ moving = "grants" => HelpReportedIsHelpAllowed
  /\ moving = "codes" => CodeCheckAgreesWithJoin
=============================================================================
