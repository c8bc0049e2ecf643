------------------------ MODULE GroupMembershipProofs ------------------------
(***************************************************************************)
(* Invariants of GroupMembership, for any group, any number of users and   *)
(* teams, any approvals and limits, with overlapping transactions.         *)
(***************************************************************************)
EXTENDS GroupMembership, FiniteSetTheorems, TLAPS

\* The states a rule may lead to: "is_member" and "leave_request_created" are only read.
Targets == MembershipActions \ {"is_member", "leave_request_created"}

\* Every rule leads to one of the targets, and only a user's own request to a join request.
LEMMA RulesLeadToTargets ==
    \A r \in Rules : /\ r[3] \in Targets
                     /\ r[3] = "join_request_created" => r[1] = "UserCreatesJoinRequest"
  BY DEF Rules, Targets, MembershipActions, Active, Pending, Final

\* What a member in the plan of Transition may become.
LEMMA PlanLeadsToTargets ==
    ASSUME NEW action, NEW ids, NEW given, NEW m \in Plan(action, ids, given)
    PROVE  /\ m \in ids
           /\ ToAction(action, m, given) \in Targets
           /\ ToAction(action, m, given) = "join_request_created"
                => action = "UserCreatesJoinRequest"
           /\ ToAction(action, m, given) # OldAction(m)
           /\ NeedsApprovals(m, ToAction(action, m, given)) => ApprovalsOK(m, given)
<1>1. /\ m \in ids /\ HasRule(action, m)
      /\ ToAction(action, m, given) # OldAction(m)
      /\ LacksApprovals(action, m, given) => IfNotEnoughApprovalsDowngradeTo(action) # "none"
  BY DEF Plan, BuildTransitionsPlan
<1>2. PICK r \in Rules : r[1] = action /\ r[2] = OldAction(m) /\ r[3] = Rule(action, m)
  BY <1>1 DEF HasRule, RuleDomain, Rule
<1>3. CASE LacksApprovals(action, m, given)
  <2>1. ToAction(action, m, given) = "invitation_created"
    BY <1>1, <1>3 DEF ToAction, IfNotEnoughApprovalsDowngradeTo
  <2> QED
    BY <1>1, <2>1 DEF Targets, MembershipActions, Pending, Active, NeedsApprovals
<1>4. CASE ~LacksApprovals(action, m, given)
  <2>1. ToAction(action, m, given) = Rule(action, m)
    BY <1>4 DEF ToAction
  <2> QED
    BY <1>1, <1>2, <1>4, <2>1, RulesLeadToTargets DEF LacksApprovals
<1> QED
  BY <1>3, <1>4

\* The row a member gets, in terms of its new state alone.
LEMMA NewRelIs ==
    ASSUME TypeOK, NoContradictoryState, NEW m \in Members, NEW to \in Targets
    PROVE  NewRel(m, to) = IF to \in Active THEN "active"
                           ELSE IF rel[m] = "active" THEN "none" ELSE rel[m]
  BY DEF NewRel, Deletes, Inserts, OldAction, Active, TypeOK, NoContradictoryState

\* The request a member gets, in terms of its new state alone.
LEMMA NewPendingIs ==
    ASSUME TypeOK, NoContradictoryState, NEW m \in Members, NEW to \in Targets
    PROVE  NewPending(m, to) = IF to \in Pending THEN PendingType(to) ELSE "none"
  BY DEF NewPending, OldAction, Pending, TypeOK, NoContradictoryState

Rows == {"none", "active", "expired"}
RequestTypes == {"none", "invitation", "join_request", "leave_request"}

\* A member's row and request can stand together.
Compatible(r, p) == r = "active" => p \in {"none", "leave_request"}

\* The newest log entry explains the row and the request.
Explained(r, p, l) ==
    /\ p = "invitation" => l = "invitation_created"
    /\ p = "join_request" => l = "join_request_created"
    /\ p = "leave_request" => l = "leave_request_created"
    /\ r = "active" => l \in Active \cup {"leave_request_created"}

\* What a transition makes of one member is well typed.
LEMMA AfterTypes ==
    ASSUME TypeOK, NoContradictoryState,
           NEW action, NEW ids \in SUBSET Members, NEW given \in SUBSET Approvals,
           NEW plan, plan = Plan(action, ids, given)
    PROVE  /\ RelAfter(plan, action, given) \in [Members -> Rows]
           /\ ApprovedAfter(plan, action, given) \in [Members -> SUBSET Approvals]
           /\ PendingAfter(plan, action, given) \in [Members -> RequestTypes]
           /\ OfferedAfter(plan, action, given) \in [Members -> SUBSET Approvals]
           /\ LastChangeAfter(plan, action, given) \in [Members -> MembershipActions]
           /\ GrantsAfter(plan, action, given) \subseteq Members
<1>1. \A m \in Members : m \in plan => ToAction(action, m, given) \in Targets
  BY PlanLeadsToTargets
<1>2. RelAfter(plan, action, given) \in [Members -> Rows]
  BY <1>1, NewRelIs DEF RelAfter, Rows, TypeOK
<1>3. ApprovedAfter(plan, action, given) \in [Members -> SUBSET Approvals]
  BY DEF ApprovedAfter, NewApproved, TypeOK
<1>4. PendingAfter(plan, action, given) \in [Members -> RequestTypes]
  <2>1. \A to \in Targets : to \in Pending => PendingType(to) \in RequestTypes
    BY DEF Targets, Pending, PendingType, RequestTypes
  <2> QED
    BY <1>1, <2>1, NewPendingIs DEF PendingAfter, RequestTypes, TypeOK
<1>5. OfferedAfter(plan, action, given) \in [Members -> SUBSET Approvals]
  BY DEF OfferedAfter, NewOffered, TypeOK
<1>6. LastChangeAfter(plan, action, given) \in [Members -> MembershipActions]
  <2>1. "leave_request_created" \in MembershipActions
    BY DEF MembershipActions, Pending
  <2> QED
    BY <1>1, <2>1 DEF LastChangeAfter, NewLastChange, Targets, TypeOK
<1>7. GrantsAfter(plan, action, given) \subseteq Members
  BY DEF GrantsAfter, TypeOK
<1> QED
  BY <1>2, <1>3, <1>4, <1>5, <1>6, <1>7

\* A transition keeps a member's row and request compatible and, if they were explained
\* by the log, explained, whatever the action and whoever else is moved by the same call.
\* Only a user's own request creates a join request.
LEMMA AfterConsistent ==
    ASSUME TypeOK, NoContradictoryState,
           NEW action, NEW ids \in SUBSET Members, NEW given \in SUBSET Approvals,
           NEW plan, plan = Plan(action, ids, given),
           NEW m \in Members
    PROVE  /\ Compatible(RelAfter(plan, action, given)[m], PendingAfter(plan, action, given)[m])
           /\ Explained(rel[m], pending[m], lastChange[m]) =>
                Explained(RelAfter(plan, action, given)[m],
                          PendingAfter(plan, action, given)[m],
                          LastChangeAfter(plan, action, given)[m])
           /\ PendingAfter(plan, action, given)[m] = "join_request"
                => pending[m] = "join_request" \/ action = "UserCreatesJoinRequest"
<1>1. CASE m \notin plan
  <2>1. Compatible(rel[m], pending[m])
    BY DEF Compatible, NoContradictoryState, OldAction, TypeOK
  <2> QED
    BY <1>1, <2>1 DEF RelAfter, PendingAfter, LastChangeAfter
<1>2. CASE m \in plan
  <2> DEFINE to == ToAction(action, m, given)
  <2>1. /\ to \in Targets /\ to # OldAction(m)
        /\ to = "join_request_created" => action = "UserCreatesJoinRequest"
    BY <1>2, PlanLeadsToTargets
  <2>2. RelAfter(plan, action, given)[m] = IF to \in Active THEN "active"
                           ELSE IF rel[m] = "active" THEN "none" ELSE rel[m]
    BY <1>2, <2>1, NewRelIs DEF RelAfter
  <2>3. PendingAfter(plan, action, given)[m] = IF to \in Pending THEN PendingType(to) ELSE "none"
    BY <1>2, <2>1, NewPendingIs DEF PendingAfter
  <2>4. LastChangeAfter(plan, action, given)[m] = NewLastChange(m, to)
    BY <1>2 DEF LastChangeAfter
  <2> HIDE DEF to
  <2> QED
    BY <2>1, <2>2, <2>3, <2>4
    DEF Compatible, Explained, NewLastChange, Targets, MembershipActions, Active, Pending,
        Final, PendingType
<1> QED
  BY <1>1, <1>2

\* NoContradictoryState and LogExplainsState, member by member.
LEMMA InvariantsByMember ==
    ASSUME TypeOK
    PROVE  /\ NoContradictoryState <=> \A m \in Members : Compatible(rel[m], pending[m])
           /\ LogExplainsState
                <=> \A u \in Users : Explained(rel[u], pending[u], lastChange[u])
<1>1. \A m \in Members : OldAction(m) # "contradictory" <=> Compatible(rel[m], pending[m])
  BY DEF OldAction, Compatible, TypeOK
<1> QED
  BY <1>1 DEF NoContradictoryState, LogExplainsState, Explained

\* The inductive invariant of the rows.
RowsInv ==
    /\ TypeOK
    /\ NoContradictoryState
    /\ LogExplainsState
    /\ FrozenGroupHasNoJoinRequest

\* Every service that only calls Transition preserves the invariant; a join request may
\* be created only while the group is not frozen.
LEMMA TransitionPreserves ==
    ASSUME RowsInv,
           NEW action, NEW ids \in SUBSET Members, NEW given \in SUBSET Approvals,
           Transition(action, ids, given), settings' = settings, inFlight' \subseteq Requests,
           settings.frozen => action # "UserCreatesJoinRequest"
    PROVE  RowsInv'
<1> DEFINE plan == Plan(action, ids, given)
<1>0. TypeOK /\ NoContradictoryState
  BY DEF RowsInv
<1>1. /\ rel' = RelAfter(plan, action, given)
      /\ approved' = ApprovedAfter(plan, action, given)
      /\ pending' = PendingAfter(plan, action, given)
      /\ offered' = OfferedAfter(plan, action, given)
      /\ lastChange' = LastChangeAfter(plan, action, given)
      /\ grants' = GrantsAfter(plan, action, given)
  BY DEF Transition
<1> HIDE DEF plan
<1>2. TypeOK'
  BY <1>0, <1>1, AfterTypes DEF TypeOK, Rows, RequestTypes, plan
<1>3. /\ \A m \in Members : Compatible(rel'[m], pending'[m])
      /\ \A u \in Users : Explained(rel'[u], pending'[u], lastChange'[u])
      /\ \A m \in Members : pending'[m] = "join_request"
            => pending[m] = "join_request" \/ action = "UserCreatesJoinRequest"
  BY <1>0, <1>1, AfterConsistent, InvariantsByMember DEF RowsInv, plan, Members
<1>4. NoContradictoryState' /\ LogExplainsState'
  BY <1>2, <1>3 DEF NoContradictoryState, OldAction, LogExplainsState, Compatible, Explained, TypeOK
<1>5. FrozenGroupHasNoJoinRequest'
  BY <1>3 DEF RowsInv, FrozenGroupHasNoJoinRequest
<1> QED
  BY <1>2, <1>4, <1>5 DEF RowsInv

\* AddChild and RemoveChild touch only a team, for which the log is not kept.
LEMMA DirectRelationPreserves ==
    ASSUME RowsInv, NEW t \in Teams,
           AddChild(t) \/ \E orphan \in BOOLEAN : RemoveChild(t, orphan)
    PROVE  RowsInv'
<1>1. TypeOK'
  <2>1. "none" \in MembershipActions
    BY DEF MembershipActions, Final
  <2> QED
    BY <2>1 DEF RowsInv, TypeOK, AddChild, RemoveChild, Members
<1>2. \A u \in Users : rel'[u] = rel[u] /\ pending'[u] = pending[u] /\ lastChange'[u] = lastChange[u]
  <2>1. \A u \in Users : u # t
    BY MembershipConstants
  <2> QED
    BY <2>1 DEF RowsInv, TypeOK, AddChild, RemoveChild, Members
<1>3. /\ rel'[t] = "active" => pending'[t] = "none"
      /\ pending'[t] = pending[t] \/ pending'[t] = "none"
      /\ \A m \in Members \ {t} : rel'[m] = rel[m] /\ pending'[m] = pending[m]
  BY DEF RowsInv, TypeOK, AddChild, RemoveChild, Members
<1>4. NoContradictoryState'
  BY <1>1, <1>3 DEF RowsInv, NoContradictoryState, OldAction, TypeOK, Members
<1>5. LogExplainsState'
  BY <1>2 DEF RowsInv, LogExplainsState
<1>6. FrozenGroupHasNoJoinRequest'
  <2>1. settings' = settings
    BY DEF AddChild, RemoveChild
  <2> QED
    BY <1>3, <2>1 DEF RowsInv, FrozenGroupHasNoJoinRequest
<1> QED
  BY <1>1, <1>4, <1>5, <1>6 DEF RowsInv

\* updateGroup: the transition it starts with keeps the rows consistent, the refusals
\* that follow only remove requests, and a freeze removes every join request.
LEMMA UpdateGroupPreserves ==
    ASSUME RowsInv, NEW new \in Settings, NEW change \in {"", "empty", "reinvite"},
           UpdateGroup(new, change)
    PROVE  RowsInv'
<1> DEFINE action == StrengthenAction(change)
           plan == Plan(action, Participants, {})
           moved == PendingAfter(plan, action, {})
           offers == OfferedAfter(plan, action, {})
           logged == LastChangeAfter(plan, action, {})
           Refused(m) == /\ ShouldRefusePendingRequests(new, change)
                         /\ moved[m] \in PendingTypesToRefuse(new, change)
<1>0. TypeOK /\ NoContradictoryState
  BY DEF RowsInv
<1>1. /\ settings.frozen => new.frozen
      /\ settings' = new
      /\ rel' = RelAfter(plan, action, {})
      /\ approved' = ApprovedAfter(plan, action, {})
      /\ pending' = [m \in Members |-> IF Refused(m) THEN "none" ELSE moved[m]]
      /\ offered' = [m \in Members |-> IF Refused(m) THEN {} ELSE offers[m]]
      /\ lastChange' = [m \in Members |-> IF Refused(m) THEN Refusal(moved[m]) ELSE logged[m]]
      /\ grants' = GrantsAfter(plan, action, {})
      /\ inFlight' = inFlight
  BY DEF UpdateGroup
<1>2. action # "UserCreatesJoinRequest"
  BY DEF StrengthenAction
<1>3. Participants \in SUBSET Members
  BY DEF Participants
<1> HIDE DEF action, plan, moved, offers, logged
<1>4. /\ RelAfter(plan, action, {}) \in [Members -> Rows]
      /\ ApprovedAfter(plan, action, {}) \in [Members -> SUBSET Approvals]
      /\ moved \in [Members -> RequestTypes]
      /\ offers \in [Members -> SUBSET Approvals]
      /\ logged \in [Members -> MembershipActions]
      /\ GrantsAfter(plan, action, {}) \subseteq Members
  BY <1>0, <1>3, AfterTypes DEF plan, moved, offers, logged
<1>5. \A m \in Members :
        /\ Compatible(RelAfter(plan, action, {})[m], moved[m])
        /\ Explained(rel[m], pending[m], lastChange[m]) =>
             Explained(RelAfter(plan, action, {})[m], moved[m], logged[m])
        /\ moved[m] = "join_request" => pending[m] = "join_request"
  BY <1>0, <1>2, <1>3, AfterConsistent DEF plan, moved, logged
<1>6. \A m \in Members : Refused(m) =>
        /\ moved[m] \in {"join_request", "leave_request", "invitation"}
        /\ Refusal(moved[m]) \in MembershipActions
        /\ moved[m] = "leave_request" => Refusal(moved[m]) = "leave_request_refused"
  BY DEF PendingTypesToRefuse, Refusal, MembershipActions, Active, Final
<1>7. TypeOK'
  BY <1>0, <1>1, <1>4, <1>6 DEF TypeOK, Rows, RequestTypes
<1>8. NoContradictoryState'
  BY <1>1, <1>5, <1>7 DEF NoContradictoryState, OldAction, Compatible, TypeOK
<1>9. LogExplainsState'
  <2>1. \A u \in Users : Explained(RelAfter(plan, action, {})[u], moved[u], logged[u])
    BY <1>0, <1>5, InvariantsByMember DEF RowsInv, Members
  <2>2. \A u \in Users : RelAfter(plan, action, {})[u] = "active" /\ Refused(u)
          => Refusal(moved[u]) \in Active
    BY <1>5, <1>6 DEF Compatible, Active, Members
  <2>3. ASSUME NEW u \in Users PROVE Explained(rel'[u], pending'[u], lastChange'[u])
    <3>1. CASE Refused(u)
      BY <1>1, <2>2, <3>1 DEF Explained, Members
    <3>2. CASE ~Refused(u)
      BY <1>1, <2>1, <3>2 DEF Members
    <3> QED
      BY <3>1, <3>2
  <2> QED
    BY <2>3 DEF LogExplainsState, Explained
<1>10. FrozenGroupHasNoJoinRequest'
  <2>1. CASE settings.frozen
    BY <1>1, <1>5, <2>1 DEF RowsInv, FrozenGroupHasNoJoinRequest
  <2>2. CASE ~settings.frozen /\ new.frozen
    <3>1. /\ ShouldRefusePendingRequests(new, change)
          /\ "join_request" \in PendingTypesToRefuse(new, change)
      BY <2>2 DEF ShouldRefusePendingRequests, PendingTypesToRefuse, FreezesMembership
    <3> QED
      BY <1>1, <3>1 DEF FrozenGroupHasNoJoinRequest
  <2>3. CASE ~new.frozen
    BY <1>1, <2>3 DEF FrozenGroupHasNoJoinRequest
  <2> QED
    BY <2>1, <2>2, <2>3
<1> QED
  BY <1>7, <1>8, <1>9, <1>10 DEF RowsInv

\* The unlocked checks change nothing but inFlight.
LEMMA StartPreserves ==
    ASSUME RowsInv, NEW kind, NEW ids \in SUBSET Members, Start(kind, ids)
    PROVE  RowsInv'
<1>1. [kind |-> kind, ids |-> ids] \in Requests
  BY MembershipConstants DEF Start, Requests
<1>2. TypeOK'
  BY <1>1 DEF RowsInv, TypeOK, Start, rows
<1>3. UNCHANGED <<settings, rel, pending, lastChange>>
  BY DEF Start, rows
<1> QED
  BY <1>2, <1>3
  DEF RowsInv, NoContradictoryState, OldAction, LogExplainsState, FrozenGroupHasNoJoinRequest

\* A request that passed its unlocked check goes on from whatever state it finds.
LEMMA FinishPreserves ==
    ASSUME RowsInv, NEW kind, NEW action, NEW ids \in SUBSET Members,
           Finish(kind, ids), Transition(action, ids, {}), action # "UserCreatesJoinRequest"
    PROVE  RowsInv'
<1>1. {} \in SUBSET Approvals
  OBVIOUS
<1>2. settings' = settings /\ inFlight' \subseteq Requests
  BY DEF Finish, RowsInv, TypeOK
<1> QED
  BY <1>1, <1>2, TransitionPreserves

\* A service of the current user takes approvals from the request, a member from Users.
LEMMA UserServicesPreserve ==
    ASSUME RowsInv, NEW u \in Users, UserServices(u)
    PROVE  RowsInv'
<1>1. /\ {u} \in SUBSET Members
      /\ {} \in SUBSET Approvals
      /\ inFlight \subseteq Requests
  BY DEF RowsInv, TypeOK, Members
<1>2. ASSUME NEW action, NEW given \in SUBSET Approvals, Atomic(action, {u}, given),
             settings.frozen => action # "UserCreatesJoinRequest"
      PROVE  RowsInv'
  <2>1. Transition(action, {u}, given) /\ settings' = settings /\ inFlight' = inFlight
    BY <1>2 DEF Atomic
  <2> QED
    BY <1>1, <1>2, <2>1, TransitionPreserves
<1>3. ASSUME NEW given \in SUBSET Approvals, CreateGroupJoinRequest(u, given)
      PROVE  RowsInv'
  BY <1>2, <1>3 DEF CreateGroupJoinRequest
<1>4. ASSUME NEW given \in SUBSET Approvals, AcceptGroupInvitation(u, given)
      PROVE  RowsInv'
  BY <1>2, <1>4 DEF AcceptGroupInvitation
<1>5. ASSUME NEW given \in SUBSET Approvals, JoinGroupByCode(u, given)
      PROVE  RowsInv'
  BY <1>2, <1>5 DEF JoinGroupByCode
<1>6. CASE MakeUserMemberOfBadgeGroup(u)
  BY <1>1, <1>2, <1>6 DEF MakeUserMemberOfBadgeGroup
<1>7. CASE RejectGroupInvitation(u)
  BY <1>1, <1>2, <1>7 DEF RejectGroupInvitation
<1>8. CASE WithdrawGroupJoinRequest(u)
  BY <1>1, <1>2, <1>8 DEF WithdrawGroupJoinRequest
<1>9. CASE WithdrawGroupLeaveRequest(u)
  BY <1>1, <1>2, <1>9 DEF WithdrawGroupLeaveRequest
<1>10. CASE CheckLeaveGroup(u)
  BY <1>1, <1>10, StartPreserves DEF CheckLeaveGroup
<1>11. CASE LeaveGroup(u)
  BY <1>1, <1>11, FinishPreserves DEF LeaveGroup
<1>12. CASE CheckGroupLeaveRequest(u)
  BY <1>1, <1>12, StartPreserves DEF CheckGroupLeaveRequest
<1>13. CASE CreateGroupLeaveRequest(u)
  BY <1>1, <1>13, FinishPreserves DEF CreateGroupLeaveRequest
<1> QED
  BY <1>3, <1>4, <1>5, <1>6, <1>7, <1>8, <1>9, <1>10, <1>11, <1>12, <1>13 DEF UserServices

\* A service of the managers moves a set of members and gives no approvals.
LEMMA ManagerServicesPreserve ==
    ASSUME RowsInv, NEW ids \in SUBSET Members, ManagerServices(ids)
    PROVE  RowsInv'
<1>1. {} \in SUBSET Approvals /\ inFlight \subseteq Requests
  BY DEF RowsInv, TypeOK
<1>2. ASSUME NEW action, Atomic(action, ids, {}), action # "UserCreatesJoinRequest"
      PROVE  RowsInv'
  <2>1. Transition(action, ids, {}) /\ settings' = settings /\ inFlight' = inFlight
    BY <1>2 DEF Atomic
  <2> QED
    BY <1>1, <1>2, <2>1, TransitionPreserves
<1>3. CASE \E kind \in {"accept_join", "accept_leave"} : CheckAcceptRequests(kind, ids)
  BY <1>3, StartPreserves DEF CheckAcceptRequests
<1>4. CASE AcceptJoinRequests(ids)
  BY <1>4, FinishPreserves DEF AcceptJoinRequests
<1>5. CASE AcceptLeaveRequests(ids)
  BY <1>5, FinishPreserves DEF AcceptLeaveRequests
<1>6. CASE RejectJoinRequests(ids)
  BY <1>2, <1>6 DEF RejectJoinRequests
<1>7. CASE RejectLeaveRequests(ids)
  BY <1>2, <1>7 DEF RejectLeaveRequests
<1>8. CASE WithdrawInvitations(ids)
  BY <1>2, <1>8 DEF WithdrawInvitations
<1>9. CASE CreateGroupInvitations(ids)
  BY <1>2, <1>9 DEF CreateGroupInvitations
<1>10. CASE RemoveMembers(ids)
  BY <1>2, <1>10 DEF RemoveMembers
<1> QED
  BY <1>3, <1>4, <1>5, <1>6, <1>7, <1>8, <1>9, <1>10 DEF ManagerServices

\* A group is created with no requirement, no member and no request.
LEMMA InitEstablishes == Init => RowsInv
<1> SUFFICES ASSUME Init PROVE RowsInv
  OBVIOUS
<1>1. settings \in Settings
  BY MembershipConstants DEF Init, Settings
<1>2. "none" \in MembershipActions
  BY DEF MembershipActions, Final
<1>3. TypeOK
  BY <1>1, <1>2 DEF Init, TypeOK
<1>4. NoContradictoryState
  BY DEF Init, NoContradictoryState, OldAction
<1>5. LogExplainsState /\ FrozenGroupHasNoJoinRequest
  BY DEF Init, LogExplainsState, FrozenGroupHasNoJoinRequest, Members
<1> QED
  BY <1>3, <1>4, <1>5 DEF RowsInv

\* NOW() reaching the end of the lock lowers one requirement and touches no row.
LEMMA LockElapsesPreserves ==
    ASSUME RowsInv, LockElapses
    PROVE  RowsInv'
<1>1. settings' \in Settings /\ settings'.frozen = settings.frozen
  BY MembershipConstants DEF RowsInv, TypeOK, LockElapses, Settings
<1>2. UNCHANGED <<rel, approved, pending, offered, lastChange, grants, inFlight>>
  BY DEF LockElapses, rows
<1>3. TypeOK'
  BY <1>1, <1>2 DEF RowsInv, TypeOK
<1>4. NoContradictoryState' /\ LogExplainsState' /\ FrozenGroupHasNoJoinRequest'
  BY <1>1, <1>2
  DEF RowsInv, NoContradictoryState, OldAction, LogExplainsState, FrozenGroupHasNoJoinRequest
<1> QED
  BY <1>3, <1>4 DEF RowsInv

\* A membership that expires leaves the request and the log alone.
LEMMA ExpirePreserves ==
    ASSUME RowsInv, NEW m \in Members, Expire(m)
    PROVE  RowsInv'
<1>1. TypeOK'
  BY DEF RowsInv, TypeOK, Expire
<1>2. /\ \A x \in Members : rel'[x] = "active" => rel[x] = "active"
      /\ UNCHANGED <<settings, pending, lastChange>>
  BY DEF RowsInv, TypeOK, Expire
<1>3. NoContradictoryState'
  BY <1>1, <1>2 DEF RowsInv, NoContradictoryState, OldAction, TypeOK
<1>4. LogExplainsState' /\ FrozenGroupHasNoJoinRequest'
  BY <1>2 DEF RowsInv, LogExplainsState, FrozenGroupHasNoJoinRequest, Members
<1> QED
  BY <1>1, <1>3, <1>4 DEF RowsInv

\* Granting permissions touches neither the rows nor the requests.
LEMMA UpdatePermissionsPreserves ==
    ASSUME RowsInv, NEW m \in Members, UpdatePermissions(m)
    PROVE  RowsInv'
<1>1. TypeOK'
  BY DEF RowsInv, TypeOK, UpdatePermissions, Finish
<1>2. UNCHANGED <<settings, rel, pending, lastChange>>
  BY DEF UpdatePermissions, Finish
<1> QED
  BY <1>1, <1>2
  DEF RowsInv, NoContradictoryState, OldAction, LogExplainsState, FrozenGroupHasNoJoinRequest

\* Every step of every service preserves the invariant of the rows.
LEMMA StepPreserves == RowsInv /\ [Next]_vars => RowsInv'
<1> SUFFICES ASSUME RowsInv, [Next]_vars PROVE RowsInv'
  OBVIOUS
<1>1. CASE \E u \in Users : UserServices(u)
  BY <1>1, UserServicesPreserve
<1>2. CASE \E ids \in SUBSET Members \ {{}} : ManagerServices(ids)
  BY <1>2, ManagerServicesPreserve
<1>3. CASE \E t \in Teams : AddChild(t) \/ \E orphan \in BOOLEAN : RemoveChild(t, orphan)
  BY <1>3, DirectRelationPreserves
<1>4. CASE \E m \in Members : CheckUpdatePermissions(m)
  BY <1>4, StartPreserves DEF CheckUpdatePermissions
<1>5. CASE \E m \in Members : UpdatePermissions(m)
  BY <1>5, UpdatePermissionsPreserves
<1>6. CASE \E m \in Members : Expire(m)
  BY <1>6, ExpirePreserves
<1>7. CASE \E new \in Settings, change \in {"", "empty", "reinvite"} : UpdateGroup(new, change)
  BY <1>7, UpdateGroupPreserves
<1>8. CASE LockElapses
  BY <1>8, LockElapsesPreserves
<1>9. CASE UNCHANGED vars
  BY <1>9
  DEF vars, rows, RowsInv, TypeOK, NoContradictoryState, OldAction, LogExplainsState,
      FrozenGroupHasNoJoinRequest
<1> QED
  BY <1>1, <1>2, <1>3, <1>4, <1>5, <1>6, <1>7, <1>8, <1>9 DEF Next

\* The invariant of the rows holds in every reachable state.
THEOREM RowsInvariant == Spec => []RowsInv
  BY InitEstablishes, StepPreserves, PTL DEF Spec

\* Every service leaves rows of the types the tables allow.
THEOREM TypeCorrect == Spec => []TypeOK
<1>1. RowsInv => TypeOK
  BY DEF RowsInv
<1> QED
  BY <1>1, RowsInvariant, PTL

\* No interleaving of the services gives a member an invitation or a join request as well.
THEOREM NeverContradictory == Spec => []NoContradictoryState
<1>1. RowsInv => NoContradictoryState
  BY DEF RowsInv
<1> QED
  BY <1>1, RowsInvariant, PTL

\* The newest group_membership_changes row of a user always explains the user's state.
THEOREM LogExplains == Spec => []LogExplainsState
<1>1. RowsInv => LogExplainsState
  BY DEF RowsInv
<1> QED
  BY <1>1, RowsInvariant, PTL

\* A frozen group never has a join request, however its freeze overlaps other requests.
THEOREM NoJoinRequestWhenFrozen == Spec => []FrozenGroupHasNoJoinRequest
<1>1. RowsInv => FrozenGroupHasNoJoinRequest
  BY DEF RowsInv
<1> QED
  BY <1>1, RowsInvariant, PTL

-----------------------------------------------------------------------------
(* The steps, told apart by what the other properties need of them.        *)

StrengtheningActions ==
    {"AdminStrengthensApprovalWithEmpty", "AdminStrengthensApprovalWithReinvite"}

\* Refused by a frozen group, besides the creation of a join request.
JoiningActions ==
    {"UserCreatesJoinRequest", "UserCreatesAcceptedJoinRequest", "UserAcceptsInvitation",
     "UserJoinsGroupByCode"}

\* A service calls Transition, in the transaction of its checks or after them.
Moves(action, ids, given) ==
    /\ Transition(action, ids, given)
    /\ settings' = settings
    /\ \/ Alone /\ inFlight' = inFlight
       \/ \E kind \in Kinds : Finish(kind, ids)
    /\ settings.frozen => action \notin JoiningActions
    /\ action \notin StrengtheningActions

\* A service has made its unlocked check.
Checks(kind, ids) ==
    /\ Start(kind, ids)
    /\ kind = "grant" => \A m \in ids : IsMember(m)

\* Every step of the services of a user.
LEMMA UserSteps ==
    ASSUME NEW u \in Users, UserServices(u)
    PROVE  \/ \E action, given : given \in SUBSET Approvals /\ Moves(action, {u}, given)
           \/ \E kind : Checks(kind, {u})
<1>1. ASSUME NEW action, NEW given \in SUBSET Approvals, Atomic(action, {u}, given),
             settings.frozen => action \notin JoiningActions,
             action \notin StrengtheningActions
      PROVE  Moves(action, {u}, given)
  BY <1>1 DEF Moves, Atomic
<1>2. {} \in SUBSET Approvals
  OBVIOUS
<1>3. ASSUME NEW given \in SUBSET Approvals,
             \/ CreateGroupJoinRequest(u, given)
             \/ AcceptGroupInvitation(u, given)
             \/ JoinGroupByCode(u, given)
      PROVE  \E action : Moves(action, {u}, given)
  <2>1. CASE CreateGroupJoinRequest(u, given)
    <3>1. ~settings.frozen /\ \/ Atomic("UserCreatesAcceptedJoinRequest", {u}, given)
                              \/ Atomic("UserCreatesJoinRequest", {u}, given)
      BY <2>1 DEF CreateGroupJoinRequest
    <3> QED
      BY <1>1, <3>1 DEF StrengtheningActions
  <2>2. CASE AcceptGroupInvitation(u, given)
    BY <1>1, <2>2 DEF AcceptGroupInvitation, StrengtheningActions
  <2>3. CASE JoinGroupByCode(u, given)
    BY <1>1, <2>3 DEF JoinGroupByCode, StrengtheningActions
  <2> QED
    BY <1>3, <2>1, <2>2, <2>3
<1>4. ASSUME \/ MakeUserMemberOfBadgeGroup(u) \/ RejectGroupInvitation(u)
             \/ WithdrawGroupJoinRequest(u) \/ WithdrawGroupLeaveRequest(u)
      PROVE  \E action : Moves(action, {u}, {})
  <2>1. \/ Atomic("UserJoinsGroupByBadge", {u}, {}) \/ Atomic("UserRefusesInvitation", {u}, {})
        \/ Atomic("UserCancelsJoinRequest", {u}, {}) \/ Atomic("UserCancelsLeaveRequest", {u}, {})
    BY <1>4 DEF MakeUserMemberOfBadgeGroup, RejectGroupInvitation, WithdrawGroupJoinRequest,
                WithdrawGroupLeaveRequest
  <2> QED
    BY <1>1, <1>2, <2>1 DEF StrengtheningActions, JoiningActions
<1>5. CASE LeaveGroup(u)
  <2>1. Moves("UserLeavesGroup", {u}, {})
    BY <1>5 DEF LeaveGroup, Moves, StrengtheningActions, JoiningActions, Finish, Kinds
  <2> QED
    BY <1>2, <2>1
<1>6. CASE CreateGroupLeaveRequest(u)
  <2>1. Moves("UserCreatesLeaveRequest", {u}, {})
    BY <1>6 DEF CreateGroupLeaveRequest, Moves, StrengtheningActions, JoiningActions, Finish, Kinds
  <2> QED
    BY <1>2, <2>1
<1>7. CASE CheckLeaveGroup(u)
  <2>1. Checks("leave", {u})
    BY <1>7 DEF CheckLeaveGroup, Checks
  <2> QED
    BY <2>1
<1>8. CASE CheckGroupLeaveRequest(u)
  <2>1. Checks("leave_request", {u})
    BY <1>8 DEF CheckGroupLeaveRequest, Checks
  <2> QED
    BY <2>1
<1> QED
  BY <1>2, <1>3, <1>4, <1>5, <1>6, <1>7, <1>8, Zenon DEF UserServices

\* Every step of the services of the managers.
LEMMA ManagerSteps ==
    ASSUME NEW ids \in SUBSET Members, ManagerServices(ids)
    PROVE  \/ \E action : Moves(action, ids, {})
           \/ \E kind : Checks(kind, ids)
<1>1. ASSUME NEW action, Atomic(action, ids, {}), action \notin JoiningActions,
             action \notin StrengtheningActions
      PROVE  Moves(action, ids, {})
  BY <1>1 DEF Moves, Atomic
<1>2. ASSUME NEW kind \in Kinds, NEW action, Finish(kind, ids), Transition(action, ids, {}),
             action \notin JoiningActions, action \notin StrengtheningActions
      PROVE  Moves(action, ids, {})
  BY <1>2 DEF Moves, Finish
<1>3. CASE \/ RejectJoinRequests(ids) \/ RejectLeaveRequests(ids) \/ WithdrawInvitations(ids)
           \/ CreateGroupInvitations(ids) \/ RemoveMembers(ids)
  <2>1. \/ Atomic("AdminRefusesJoinRequest", ids, {}) \/ Atomic("AdminRefusesLeaveRequest", ids, {})
        \/ Atomic("AdminWithdrawsInvitation", ids, {}) \/ Atomic("AdminCreatesInvitation", ids, {})
        \/ Atomic("AdminRemovesUser", ids, {})
    BY <1>3 DEF RejectJoinRequests, RejectLeaveRequests, WithdrawInvitations,
                CreateGroupInvitations, RemoveMembers
  <2> QED
    BY <1>1, <2>1 DEF StrengtheningActions, JoiningActions
<1>4. CASE AcceptJoinRequests(ids) \/ AcceptLeaveRequests(ids)
  BY <1>2, <1>4 DEF AcceptJoinRequests, AcceptLeaveRequests, Kinds, StrengtheningActions, JoiningActions
<1>5. ASSUME NEW kind \in {"accept_join", "accept_leave"}, CheckAcceptRequests(kind, ids)
      PROVE  Checks(kind, ids)
  BY <1>5 DEF CheckAcceptRequests, Checks
<1> QED
  BY <1>3, <1>4, <1>5, Zenon DEF ManagerServices

\* Every step of the group.
LEMMA Steps ==
    ASSUME [Next]_vars
    PROVE  \/ \E ids \in SUBSET Members, given \in SUBSET Approvals : \E action : Moves(action, ids, given)
           \/ \E ids \in SUBSET Members : \E kind : Checks(kind, ids)
           \/ \E t \in Teams : AddChild(t) \/ \E orphan \in BOOLEAN : RemoveChild(t, orphan)
           \/ \E m \in Members : UpdatePermissions(m)
           \/ \E m \in Members : Expire(m)
           \/ \E new \in Settings, change \in {"", "empty", "reinvite"} : UpdateGroup(new, change)
           \/ LockElapses
           \/ UNCHANGED vars
<1>1. ASSUME NEW u \in Users, UserServices(u)
      PROVE  \/ \E ids \in SUBSET Members, given \in SUBSET Approvals : \E action : Moves(action, ids, given)
             \/ \E ids \in SUBSET Members : \E kind : Checks(kind, ids)
  <2>1. {u} \in SUBSET Members
    BY DEF Members
  <2> QED
    BY <1>1, <2>1, UserSteps
<1>2. ASSUME NEW ids \in SUBSET Members \ {{}}, ManagerServices(ids)
      PROVE  \/ \E given \in SUBSET Approvals : \E action : Moves(action, ids, given)
             \/ \E kind : Checks(kind, ids)
  <2>1. {} \in SUBSET Approvals
    OBVIOUS
  <2> QED
    BY <1>2, <2>1, ManagerSteps
<1>3. ASSUME NEW m \in Members, CheckUpdatePermissions(m)
      PROVE  \E ids \in SUBSET Members : \E kind : Checks(kind, ids)
  <2>1. Checks("grant", {m}) /\ {m} \in SUBSET Members
    BY <1>3 DEF CheckUpdatePermissions, Checks
  <2> QED
    BY <2>1
<1>4. \A ids \in SUBSET Members \ {{}} : ids \in SUBSET Members
  OBVIOUS
<1> QED
  BY <1>1, <1>2, <1>3, <1>4, Zenon DEF Next

-----------------------------------------------------------------------------
(* What the plan of Transition does to one member.                         *)

\* A rule that makes a member of who is not one is a join, or the answer to a join
\* request, and no rule of a strengthened approval does.
LEMMA RulesThatAdmit ==
    /\ \A r \in Rules : r[3] \in Active /\ r[2] \notin Active =>
         \/ r[1] \in JoiningActions
         \/ r[2] = "join_request_created"
         \/ r[1] = "UserJoinsGroupByBadge" /\ r[3] = "joined_by_badge"
    /\ \A r \in Rules : r[3] \in Active \cup {"invitation_created"}
                        /\ r[2] \notin Active \cup {"invitation_created"} =>
         r[1] \in LimitedActions
    /\ \A r \in Rules : r[1] \in StrengtheningActions => r[3] \notin Active
    /\ \A r \in Rules : r[1] \in LimitedActions => r[3] # "none"
  BY DEF Rules, Active, JoiningActions, LimitedActions, StrengtheningActions

\* The rule behind what a member becomes, unless an invitation stands in for it.
LEMMA PlanFollowsRule ==
    ASSUME NEW action, NEW ids, NEW given, NEW m \in Plan(action, ids, given)
    PROVE  \/ <<action, OldAction(m), ToAction(action, m, given)>> \in Rules
           \/ /\ action = "AdminCreatesInvitation"
              /\ ToAction(action, m, given) = "invitation_created"
<1>1. /\ HasRule(action, m)
      /\ LacksApprovals(action, m, given) => IfNotEnoughApprovalsDowngradeTo(action) # "none"
  BY DEF Plan, BuildTransitionsPlan
<1>2. PICK r \in Rules : r[1] = action /\ r[2] = OldAction(m) /\ r[3] = Rule(action, m)
  BY <1>1 DEF HasRule, RuleDomain, Rule
<1>3. r = <<action, OldAction(m), Rule(action, m)>>
  <2>1. \A x \in Rules : x = <<x[1], x[2], x[3]>>
    BY DEF Rules
  <2> QED
    BY <1>2, <2>1
<1> QED
  BY <1>1, <1>2, <1>3 DEF ToAction, IfNotEnoughApprovalsDowngradeTo

\* The row, the approvals and the place a member has after a transition.
LEMMA MovedMember ==
    ASSUME TypeOK, NoContradictoryState,
           NEW action, NEW ids, NEW given, NEW plan, plan = Plan(action, ids, given),
           NEW m \in Members, NEW to, to = ToAction(action, m, given)
    PROVE  /\ m \notin plan => /\ RelAfter(plan, action, given)[m] = rel[m]
                               /\ PendingAfter(plan, action, given)[m] = pending[m]
                               /\ ApprovedAfter(plan, action, given)[m] = approved[m]
                               /\ LastChangeAfter(plan, action, given)[m] = lastChange[m]
           /\ m \in plan => /\ to \in Targets
                            /\ RelAfter(plan, action, given)[m] =
                                 IF to \in Active THEN "active"
                                 ELSE IF rel[m] = "active" THEN "none" ELSE rel[m]
                            /\ PendingAfter(plan, action, given)[m] =
                                 IF to \in Pending THEN PendingType(to) ELSE "none"
                            /\ ApprovedAfter(plan, action, given)[m] = NewApproved(m, to, given)
                            /\ LastChangeAfter(plan, action, given)[m] = NewLastChange(m, to)
<1>1. CASE m \notin plan
  BY <1>1 DEF RelAfter, PendingAfter, ApprovedAfter, LastChangeAfter
<1>2. CASE m \in plan
  <2>1. to \in Targets
    BY <1>2, PlanLeadsToTargets
  <2>2. /\ RelAfter(plan, action, given)[m] = NewRel(m, to)
        /\ PendingAfter(plan, action, given)[m] = NewPending(m, to)
        /\ ApprovedAfter(plan, action, given)[m] = NewApproved(m, to, given)
        /\ LastChangeAfter(plan, action, given)[m] = NewLastChange(m, to)
    BY <1>2 DEF RelAfter, PendingAfter, ApprovedAfter, LastChangeAfter
  <2> QED
    BY <1>2, <2>1, <2>2, NewRelIs, NewPendingIs
<1> QED
  BY <1>1, <1>2

-----------------------------------------------------------------------------
(* The approvals of the members.                                           *)

\* Without expiry, a user who becomes a member gives what is required, and one who stays
\* keeps what it gave.
LEMMA ApprovalsAfter ==
    ASSUME TypeOK, NoContradictoryState,
           NEW action, NEW ids, NEW given, NEW plan, plan = Plan(action, ids, given),
           NEW m \in Members, rel[m] # "expired", RelAfter(plan, action, given)[m] = "active"
    PROVE  \/ rel[m] = "active" /\ ApprovedAfter(plan, action, given)[m] = approved[m]
           \/ Required(settings) \subseteq ApprovedAfter(plan, action, given)[m]
<1> DEFINE to == ToAction(action, m, given)
<1>1. CASE m \notin plan
  BY <1>1, MovedMember
<1>2. CASE m \in plan
  <2>1. /\ to \in Active
        /\ ApprovedAfter(plan, action, given)[m] = NewApproved(m, to, given)
    <3>1. /\ RelAfter(plan, action, given)[m] = IF to \in Active THEN "active"
                                 ELSE IF rel[m] = "active" THEN "none" ELSE rel[m]
          /\ ApprovedAfter(plan, action, given)[m] = NewApproved(m, to, given)
      BY <1>2, MovedMember
    <3> QED
      BY <3>1
  <2>2. NeedsApprovals(m, to) => ApprovalsOK(m, given)
    BY <1>2, PlanLeadsToTargets
  <2> HIDE DEF to
  <2>3. CASE OldAction(m) \in Active
    <3>1. rel[m] = "active"
      BY <2>3 DEF OldAction, Active, TypeOK
    <3> QED
      BY <2>1, <2>3, <3>1 DEF NewApproved, Deletes, Inserts
  <2>4. CASE OldAction(m) \notin Active
    <3>1. rel[m] = "none"
      BY <2>4 DEF OldAction, Active, TypeOK, NoContradictoryState
    <3> QED
      BY <2>1, <2>2, <2>4, <3>1
      DEF NewApproved, Deletes, Inserts, NeedsApprovals, ApprovalsOK
  <2> QED
    BY <2>3, <2>4
<1> QED
  BY <1>1, <1>2

\* Raising a requirement removes every member.
LEMMA StrengtheningRemovesMembers ==
    ASSUME TypeOK, NoContradictoryState, NEW action \in StrengtheningActions,
           NEW plan, plan = Plan(action, Participants, {}), NEW m \in Members
    PROVE  RelAfter(plan, action, {})[m] # "active"
<1> DEFINE to == ToAction(action, m, {})
<1>1. CASE rel[m] = "active"
  <2>1. OldAction(m) \in {"is_member", "member_leave_request_created"} /\ OldAction(m) \in Active
    BY <1>1 DEF OldAction, TypeOK, NoContradictoryState, Active
  <2>2. HasRule(action, m)
    <3>1. \E r \in Rules : r[1] = action /\ r[2] = OldAction(m)
      BY <2>1 DEF Rules, StrengtheningActions
    <3> QED
      BY <3>1 DEF HasRule, RuleDomain
  <2>3. PICK r \in Rules : r[1] = action /\ r[2] = OldAction(m) /\ r[3] = Rule(action, m)
    BY <2>2 DEF HasRule, RuleDomain, Rule
  <2>4. Rule(action, m) \notin Active /\ Rule(action, m) # "join_request_created"
    BY <2>3, RulesThatAdmit, RulesLeadToTargets DEF StrengtheningActions
  <2>5. ~LacksApprovals(action, m, {})
    BY <2>4 DEF LacksApprovals, NeedsApprovals
  <2>6. to = Rule(action, m) /\ to # OldAction(m) /\ to \notin Active
    BY <2>1, <2>4, <2>5 DEF ToAction
  <2>7. m \in Participants /\ m # Group /\ ~MakesCycle(m, to)
    BY <1>1, <2>1, MembershipConstants DEF Participants, MakesCycle
  <2>8. m \in BuildTransitionsPlan(action, Participants, {})
    BY <2>2, <2>5, <2>6, <2>7 DEF BuildTransitionsPlan
  <2>9. action \notin LimitedActions
    BY DEF StrengtheningActions, LimitedActions
  <2>10. m \in plan
    BY <2>8, <2>9 DEF Plan, IsFull
  <2> HIDE DEF to
  <2>11. RelAfter(plan, action, {})[m] = IF to \in Active THEN "active"
                                 ELSE IF rel[m] = "active" THEN "none" ELSE rel[m]
    BY <2>10, MovedMember DEF to
  <2> QED
    BY <1>1, <2>6, <2>11
<1>2. CASE rel[m] # "active"
  <2>1. CASE m \in plan
    <3>1. \/ <<action, OldAction(m), to>> \in Rules
          \/ action = "AdminCreatesInvitation"
      BY <2>1, PlanFollowsRule
    <3>2. to \notin Active
      <4>1. action # "AdminCreatesInvitation"
        BY DEF StrengtheningActions
      <4> HIDE DEF to
      <4>2. PICK r \in Rules : r = <<action, OldAction(m), to>>
        BY <3>1, <4>1
      <4>3. r[1] = action /\ r[3] = to
        BY <4>2
      <4> QED
        BY <4>3, RulesThatAdmit
    <3> HIDE DEF to
    <3>3. RelAfter(plan, action, {})[m] = IF to \in Active THEN "active"
                                 ELSE IF rel[m] = "active" THEN "none" ELSE rel[m]
      BY <2>1, MovedMember DEF to
    <3> QED
      BY <1>2, <3>2, <3>3
  <2>2. CASE m \notin plan
    BY <1>2, <2>2, MovedMember
  <2> QED
    BY <2>1, <2>2
<1> QED
  BY <1>1, <1>2

\* No membership expires.
ApprovalsInv ==
    /\ \A m \in Members : rel[m] # "expired"
    /\ MembersGaveRequiredApprovals

\* approval_change_action is given when a requirement is raised, and only then.
LEMMA ChangeActionIs ==
    ASSUME NEW new, NEW change \in {"", "empty", "reinvite"}, ActionFitsChange(new, change)
    PROVE  \/ /\ StrengthenAction(change) = "no_transition"
              /\ \A a \in Approvals : ~IsStrengthened(new, a)
           \/ StrengthenAction(change) \in StrengtheningActions
<1>1. CASE change = ""
  BY <1>1, Zenon DEF ActionFitsChange, StrengthenAction
<1>2. CASE change = "empty"
  <2>1. StrengthenAction(change) = "AdminStrengthensApprovalWithEmpty"
    BY <1>2, Zenon DEF StrengthenAction
  <2> QED
    BY <2>1, Zenon DEF StrengtheningActions
<1>3. CASE change = "reinvite"
  <2>1. StrengthenAction(change) = "AdminStrengthensApprovalWithReinvite"
    BY <1>3, Zenon DEF StrengthenAction
  <2> QED
    BY <2>1, Zenon DEF StrengtheningActions
<1> QED
  BY <1>1, <1>2, <1>3, Zenon

\* updateGroup either leaves the requirements alone or lower, or removes the members.
LEMMA UpdateGroupKeepsApprovals ==
    ASSUME RowsInv, ApprovalsInv, NEW new \in Settings, NEW change, UpdateGroup(new, change),
           \/ /\ StrengthenAction(change) = "no_transition"
              /\ \A a \in Approvals : ~IsStrengthened(new, a)
           \/ StrengthenAction(change) \in StrengtheningActions
    PROVE  ApprovalsInv'
<1> DEFINE action == StrengthenAction(change)
           plan == Plan(action, Participants, {})
<1>0. TypeOK /\ NoContradictoryState /\ settings \in Settings
  BY DEF RowsInv, TypeOK
<1>1. /\ settings' = new
      /\ rel' = RelAfter(plan, action, {})
      /\ approved' = ApprovedAfter(plan, action, {})
  BY DEF UpdateGroup
<1>2. CASE action = "no_transition" /\ \A a \in Approvals : ~IsStrengthened(new, a)
  <2>2. plan = {}
    <3>1. \A r \in Rules : r[1] # "no_transition"
      BY DEF Rules
    <3> QED
      BY <1>2, <3>1 DEF Plan, BuildTransitionsPlan, HasRule, RuleDomain
  <2> HIDE DEF plan
  <2>3. rel' = rel /\ approved' = approved
    BY <1>0, <1>1, <2>2 DEF RelAfter, ApprovedAfter, TypeOK
  <2>4. CASE Participants = {}
    <3>1. \A m \in Members : rel[m] = "none"
      BY <2>4 DEF Participants
    <3> QED
      BY <2>3, <3>1 DEF ApprovalsInv, MembersGaveRequiredApprovals, Members
  <2>5. CASE Participants # {}
    <3>1. \A a \in Approvals : new.req[a] <= settings.req[a]
      <4>1. \A a \in Approvals : ~(new.req[a] > settings.req[a])
        BY <1>2, <2>5 DEF IsStrengthened
      <4>2. \A a \in Approvals : new.req[a] \in 0..2 /\ settings.req[a] \in 0..2
        BY <1>0 DEF Settings
      <4> QED
        BY <4>1, <4>2
    <3>2. \A a \in Approvals : new.req[a] \in 0..2 /\ settings.req[a] \in 0..2
      BY <1>0 DEF Settings
    <3>3. Required(new) \subseteq Required(settings)
      BY <3>1, <3>2 DEF Required
    <3> QED
      BY <1>1, <2>3, <3>3 DEF ApprovalsInv, MembersGaveRequiredApprovals
  <2> QED
    BY <2>4, <2>5
<1>3. CASE action \in StrengtheningActions
  <2>2. \A m \in Members : RelAfter(plan, action, {})[m] # "active"
    <3> HIDE DEF action
    <3> QED
      BY <1>0, <1>3, StrengtheningRemovesMembers
  <2>3. ASSUME NEW m \in Members PROVE RelAfter(plan, action, {})[m] # "expired"
    <3>1. rel[m] # "expired"
      BY DEF ApprovalsInv
    <3> HIDE DEF action, plan
    <3>2. RelAfter(plan, action, {})[m] \in {rel[m], "active", "none"}
      BY DEF RelAfter, NewRel
    <3> QED
      BY <3>1, <3>2
  <2> HIDE DEF action, plan
  <2> QED
    BY <1>1, <2>2, <2>3 DEF ApprovalsInv, MembersGaveRequiredApprovals, Members
<1> QED
  BY <1>2, <1>3

\* Each step keeps the approvals of the members up to the requirements.
LEMMA StepKeepsApprovals ==
    ASSUME ~MayExpire, RowsInv, ApprovalsInv, [Next]_vars
    PROVE  ApprovalsInv'
<1>0. TypeOK /\ NoContradictoryState
  BY DEF RowsInv
<1>1. ASSUME NEW ids \in SUBSET Members, NEW given \in SUBSET Approvals, NEW action,
             Moves(action, ids, given)
      PROVE  ApprovalsInv'
  <2> DEFINE plan == Plan(action, ids, given)
  <2>1. /\ settings' = settings /\ rel' = RelAfter(plan, action, given)
        /\ approved' = ApprovedAfter(plan, action, given)
    BY <1>1 DEF Moves, Transition
  <2>2. ASSUME NEW m \in Members PROVE RelAfter(plan, action, given)[m] # "expired"
    <3>1. rel[m] # "expired"
      BY DEF ApprovalsInv
    <3> HIDE DEF plan
    <3>2. RelAfter(plan, action, given)[m] \in {rel[m], "active", "none"}
      BY DEF RelAfter, NewRel
    <3> QED
      BY <3>1, <3>2
  <2>3. ASSUME NEW u \in Users, RelAfter(plan, action, given)[u] = "active"
        PROVE  Required(settings) \subseteq ApprovedAfter(plan, action, given)[u]
    <3>1. u \in Members /\ rel[u] # "expired"
      BY DEF ApprovalsInv, Members
    <3>2. \/ rel[u] = "active" /\ ApprovedAfter(plan, action, given)[u] = approved[u]
          \/ Required(settings) \subseteq ApprovedAfter(plan, action, given)[u]
      BY <1>0, <2>3, <3>1, ApprovalsAfter
    <3> QED
      BY <3>2 DEF ApprovalsInv, MembersGaveRequiredApprovals
  <2> HIDE DEF plan
  <2> QED
    BY <2>1, <2>2, <2>3 DEF ApprovalsInv, MembersGaveRequiredApprovals
<1>2. ASSUME NEW t \in Teams, AddChild(t) \/ \E orphan \in BOOLEAN : RemoveChild(t, orphan)
      PROVE  ApprovalsInv'
  <2>1. /\ settings' = settings
        /\ rel' = [rel EXCEPT ![t] = "active"] \/ rel' = [rel EXCEPT ![t] = "none"]
        /\ approved' = [approved EXCEPT ![t] = {}]
    BY <1>2 DEF AddChild, RemoveChild
  <2>2. \A u \in Users : u # t
    BY MembershipConstants
  <2> QED
    BY <1>0, <2>1, <2>2 DEF ApprovalsInv, MembersGaveRequiredApprovals, TypeOK, Members
<1>3. CASE LockElapses
  <2>1. Required(settings') \subseteq Required(settings)
    <3>1. settings.req \in [Approvals -> 0..2] /\ Lock \in Approvals
      BY <1>0, MembershipConstants DEF TypeOK, Settings
    <3>2. settings'.req = [settings.req EXCEPT ![Lock] = @ - 1]
      BY <1>0, <1>3 DEF LockElapses, TypeOK, Settings
    <3> QED
      BY <3>1, <3>2 DEF Required
  <2>2. rel' = rel /\ approved' = approved
    BY <1>3 DEF LockElapses, rows
  <2> QED
    BY <2>1, <2>2 DEF ApprovalsInv, MembersGaveRequiredApprovals
<1>4. ASSUME settings' = settings, rel' = rel, approved' = approved
      PROVE  ApprovalsInv'
  BY <1>4 DEF ApprovalsInv, MembersGaveRequiredApprovals
<1>5. ASSUME NEW ids \in SUBSET Members, NEW kind, Checks(kind, ids)
      PROVE  ApprovalsInv'
  BY <1>4, <1>5 DEF Checks, Start, rows
<1>6. ASSUME NEW m \in Members, UpdatePermissions(m) PROVE ApprovalsInv'
  BY <1>4, <1>6 DEF UpdatePermissions, Finish
<1>7. \A m \in Members : ~Expire(m)
  BY DEF Expire
<1>8. CASE UNCHANGED vars
  BY <1>4, <1>8 DEF vars, rows
<1>9. ASSUME NEW new \in Settings, NEW change \in {"", "empty", "reinvite"}, UpdateGroup(new, change)
      PROVE  ApprovalsInv'
  <2>1. ActionFitsChange(new, change)
    BY <1>9, Zenon DEF UpdateGroup
  <2> QED
    BY <1>9, <2>1, ChangeActionIs, UpdateGroupKeepsApprovals, Zenon
<1> QED
  BY <1>1, <1>2, <1>3, <1>5, <1>6, <1>7, <1>8, <1>9, Steps, Zenon

\* MembersGaveRequiredApprovals: as long as memberships do not expire, every member has
\* given the approvals required now, through all changes of the requirements.
THEOREM MembersApprove == ~MayExpire => (Spec => []MembersGaveRequiredApprovals)
<1> SUFFICES ASSUME ~MayExpire PROVE Spec => []MembersGaveRequiredApprovals
  OBVIOUS
<1>1. Init => ApprovalsInv
  BY DEF Init, ApprovalsInv, MembersGaveRequiredApprovals, Members
<1>2. RowsInv /\ ApprovalsInv /\ [Next]_vars => ApprovalsInv'
  BY StepKeepsApprovals
<1>3. ApprovalsInv => MembersGaveRequiredApprovals
  BY DEF ApprovalsInv
<1> QED
  BY <1>1, <1>2, <1>3, RowsInvariant, PTL DEF Spec

-----------------------------------------------------------------------------
(* Frozen groups and limits.                                               *)

\* Nobody is taken in by updateGroup, which only lets members go.
LEMMA UpdateGroupAdmitsNobody ==
    ASSUME TypeOK, NoContradictoryState, NEW new, NEW change, UpdateGroup(new, change),
           \/ StrengthenAction(change) = "no_transition"
           \/ StrengthenAction(change) \in StrengtheningActions,
           NEW m \in Members
    PROVE  /\ rel'[m] = "active" => rel[m] = "active"
           /\ TakesPlace(m)' => TakesPlace(m)
<1> DEFINE action == StrengthenAction(change)
           plan == Plan(action, Participants, {})
           moved == PendingAfter(plan, action, {})
<1>1. /\ rel'[m] = RelAfter(plan, action, {})[m]
      /\ pending'[m] \in {"none", moved[m]}
  BY DEF UpdateGroup
<1>2. CASE m \notin plan
  BY <1>1, <1>2, MovedMember DEF TakesPlace
<1>3. CASE m \in plan
  <2> DEFINE to == ToAction(action, m, {})
  <2>1. /\ to \in Targets
        /\ RelAfter(plan, action, {})[m] = IF to \in Active THEN "active"
                                 ELSE IF rel[m] = "active" THEN "none" ELSE rel[m]
        /\ moved[m] = IF to \in Pending THEN PendingType(to) ELSE "none"
    BY <1>3, MovedMember
  <2>2. /\ <<action, OldAction(m), to>> \in Rules \/ action = "AdminCreatesInvitation"
        /\ HasRule(action, m)
    BY <1>3, PlanFollowsRule DEF Plan, BuildTransitionsPlan
  <2> HIDE DEF plan, moved, to
  <2>3. action \in StrengtheningActions
    <3>1. \A r \in Rules : r[1] # "no_transition"
      BY DEF Rules
    <3>2. action # "no_transition"
      BY <2>2, <3>1 DEF HasRule, RuleDomain
    <3> QED
      BY <3>2
  <2>4. action \notin LimitedActions /\ action # "AdminCreatesInvitation"
    <3> HIDE DEF action
    <3> QED
      BY <2>3 DEF StrengtheningActions, LimitedActions
  <2>5. PICK r \in Rules : r[1] = action /\ r[2] = OldAction(m) /\ r[3] = to
    <3> HIDE DEF action
    <3> QED
      BY <2>2, <2>4
  <2>6. /\ to \notin Active
        /\ to = "invitation_created" => OldAction(m) \in Active \cup {"invitation_created"}
    <3> HIDE DEF action
    <3> QED
      BY <2>3, <2>4, <2>5, RulesThatAdmit
  <2>7. rel'[m] # "active"
    BY <1>1, <2>1, <2>6
  <2>8. ASSUME pending'[m] = "invitation" PROVE TakesPlace(m)
    <3>1. to = "invitation_created"
      BY <1>1, <2>1, <2>8 DEF Targets, Pending, PendingType
    <3> QED
      BY <2>6, <3>1 DEF OldAction, Active, TypeOK, NoContradictoryState, TakesPlace
  <2> QED
    BY <2>7, <2>8 DEF TakesPlace
<1> QED
  BY <1>2, <1>3

\* A new member or a new invitation: what the rule was.
LEMMA NewPlaces ==
    ASSUME TypeOK, NoContradictoryState,
           NEW action, NEW ids, NEW given, NEW plan, plan = Plan(action, ids, given),
           NEW m \in Members
    PROVE  LET to == ToAction(action, m, given)
               placed == \/ RelAfter(plan, action, given)[m] = "active"
                         \/ PendingAfter(plan, action, given)[m] = "invitation"
           IN  /\ m \notin plan => (placed <=> TakesPlace(m))
               /\ m \in plan => (placed <=> to \in Active \cup {"invitation_created"})
               /\ placed /\ ~TakesPlace(m) => m \in plan /\ action \in LimitedActions
               /\ RelAfter(plan, action, given)[m] = "active" /\ rel[m] # "active" =>
                    /\ m \in plan
                    /\ \/ action \in JoiningActions \cup StrengtheningActions
                       \/ pending[m] = "join_request"
                       \/ LastChangeAfter(plan, action, given)[m] = "joined_by_badge"
<1> DEFINE to == ToAction(action, m, given)
           r == RelAfter(plan, action, given)[m]
           p == PendingAfter(plan, action, given)[m]
<1>1. CASE m \notin plan
  BY <1>1, MovedMember DEF TakesPlace
<1>2. CASE m \in plan
  <2>1. /\ to \in Targets
        /\ r = IF to \in Active THEN "active" ELSE IF rel[m] = "active" THEN "none" ELSE rel[m]
        /\ p = IF to \in Pending THEN PendingType(to) ELSE "none"
        /\ LastChangeAfter(plan, action, given)[m] = NewLastChange(m, to)
    BY <1>2, MovedMember
  <2>2. \/ <<action, OldAction(m), to>> \in Rules
        \/ action = "AdminCreatesInvitation" /\ to = "invitation_created"
    BY <1>2, PlanFollowsRule
  <2> HIDE DEF to, r, p
  <2>3. r = "active" <=> to \in Active
    BY <2>1
  <2>4. p = "invitation" <=> to = "invitation_created"
    BY <2>1 DEF Targets, Pending, PendingType
  <2>5. ASSUME to \in Active \cup {"invitation_created"}, ~TakesPlace(m)
        PROVE  action \in LimitedActions
    <3>1. OldAction(m) \notin Active \cup {"invitation_created"}
      BY <2>5 DEF TakesPlace, OldAction, Active, TypeOK
    <3>2. CASE action = "AdminCreatesInvitation"
      BY <3>2 DEF LimitedActions
    <3>3. CASE <<action, OldAction(m), to>> \in Rules
      <4>1. PICK x \in Rules : x[1] = action /\ x[2] = OldAction(m) /\ x[3] = to
        BY <3>3
      <4> QED
        BY <2>5, <3>1, <4>1, RulesThatAdmit
    <3> QED
      BY <2>2, <3>2, <3>3
  <2>6. ASSUME to \in Active, rel[m] # "active"
        PROVE  \/ action \in JoiningActions \cup StrengtheningActions
               \/ pending[m] = "join_request"
               \/ LastChangeAfter(plan, action, given)[m] = "joined_by_badge"
    <3>1. OldAction(m) \notin Active
      BY <2>6 DEF OldAction, Active, TypeOK
    <3>2. <<action, OldAction(m), to>> \in Rules
      BY <2>2, <2>6 DEF Active
    <3>3. PICK x \in Rules : x[1] = action /\ x[2] = OldAction(m) /\ x[3] = to
      BY <3>2
    <3>4. \/ action \in JoiningActions
          \/ OldAction(m) = "join_request_created"
          \/ to = "joined_by_badge"
      BY <2>6, <3>1, <3>3, RulesThatAdmit
    <3>5. OldAction(m) = "join_request_created" => pending[m] = "join_request"
      BY DEF OldAction, TypeOK
    <3>6. to = "joined_by_badge" => NewLastChange(m, to) = "joined_by_badge"
      BY DEF NewLastChange
    <3> QED
      BY <2>1, <3>4, <3>5, <3>6
  <2>7. r = "active" => TakesPlace(m) \/ to \in Active
    BY <2>3
  <2> QED
    BY <1>2, <2>3, <2>4, <2>5, <2>6 DEF to, r, p
<1> QED
  BY <1>1, <1>2

\* FrozenGroupAdmitsOnlyBadges: a frozen group has no join request left to accept, and
\* every other way to join looks at frozen_membership, but the badges of a login.
THEOREM OnlyBadgesWhenFrozen == Spec => FrozenGroupAdmitsOnlyBadges
<1>1. ASSUME RowsInv, [Next]_vars, settings.frozen, NEW u \in Users,
             rel[u] # "active", rel'[u] = "active"
      PROVE  lastChange'[u] = "joined_by_badge"
  <2>0. TypeOK /\ NoContradictoryState /\ u \in Members /\ pending[u] # "join_request"
    BY <1>1 DEF RowsInv, FrozenGroupHasNoJoinRequest, Members
  <2>1. ASSUME NEW ids \in SUBSET Members, NEW given \in SUBSET Approvals, NEW action,
               Moves(action, ids, given)
        PROVE  lastChange'[u] = "joined_by_badge"
    <3>1. /\ rel' = RelAfter(Plan(action, ids, given), action, given)
          /\ lastChange' = LastChangeAfter(Plan(action, ids, given), action, given)
          /\ action \notin JoiningActions \cup StrengtheningActions
      BY <1>1, <2>1 DEF Moves, Transition
    <3> QED
      BY <1>1, <2>0, <3>1, NewPlaces
  <2>2. ASSUME NEW t \in Teams, AddChild(t) \/ \E orphan \in BOOLEAN : RemoveChild(t, orphan)
        PROVE  FALSE
    <3>1. u # t
      BY MembershipConstants
    <3>2. rel' = [rel EXCEPT ![t] = "active"] \/ rel' = [rel EXCEPT ![t] = "none"]
      BY <2>2 DEF AddChild, RemoveChild
    <3> QED
      BY <1>1, <2>0, <3>1, <3>2 DEF TypeOK
  <2>3. ASSUME NEW new \in Settings, NEW change \in {"", "empty", "reinvite"},
               UpdateGroup(new, change)
        PROVE  FALSE
    <3>1. ActionFitsChange(new, change)
      BY <2>3, Zenon DEF UpdateGroup
    <3>2. \/ StrengthenAction(change) = "no_transition"
          \/ StrengthenAction(change) \in StrengtheningActions
      BY <3>1, ChangeActionIs, Zenon
    <3> QED
      BY <1>1, <2>0, <2>3, <3>2, UpdateGroupAdmitsNobody, Zenon
  <2>4. ASSUME NEW m \in Members, Expire(m) PROVE FALSE
    BY <1>1, <2>0, <2>4 DEF Expire, TypeOK
  <2>5. ~(rel' = rel)
    BY <1>1
  <2>6. \A ids \in SUBSET Members : \A kind : ~Checks(kind, ids)
    BY <2>5 DEF Checks, Start, rows
  <2>7. (\A m \in Members : ~UpdatePermissions(m)) /\ ~LockElapses /\ ~UNCHANGED vars
    BY <2>5 DEF UpdatePermissions, LockElapses, vars, rows
  <2> QED
    BY <1>1, <2>1, <2>2, <2>3, <2>4, <2>6, <2>7, Steps, Zenon
<1>2. RowsInv /\ [Next]_vars =>
        [settings.frozen =>
          \A u \in Users : rel[u] # "active" /\ rel'[u] = "active"
                             => lastChange'[u] = "joined_by_badge"]_vars
  BY <1>1
<1> QED
  BY <1>2, RowsInvariant, PTL DEF Spec, FrozenGroupAdmitsOnlyBadges

\* A limited action that gives someone a place leaves no more places taken than allowed.
LEMMA PlacesWithinLimit ==
    ASSUME TypeOK, NoContradictoryState, settings.limit # Unlimited,
           NEW action \in LimitedActions, NEW ids \in SUBSET Members, NEW given,
           NEW plan, plan = Plan(action, ids, given),
           NEW placed, placed = {m \in Members : \/ RelAfter(plan, action, given)[m] = "active"
                                                 \/ PendingAfter(plan, action, given)[m] = "invitation"},
           NEW u \in placed, ~TakesPlace(u)
    PROVE  Cardinality(placed) <= settings.limit
<1> DEFINE full == BuildTransitionsPlan(action, ids, given)
           changed == {m \in full : ToAction(action, m, given) # "none"}
           stay == {m \in Members \ changed : TakesPlace(m)}
           come == {m \in changed : ToAction(action, m, given) \in Active \cup {"invitation_created"}}
<1>1. \A m \in Members :
        /\ m \notin plan => (m \in placed <=> TakesPlace(m))
        /\ m \in plan => (m \in placed <=> ToAction(action, m, given) \in Active \cup {"invitation_created"})
  BY NewPlaces
<1>2. plan = IF IsFull(action, changed, given) THEN full \ changed ELSE full
  BY DEF Plan
<1>3. full \subseteq Members
  BY DEF BuildTransitionsPlan
<1>4. u \in plan /\ ToAction(action, u, given) # "none"
  <2>1. u \in plan /\ ToAction(action, u, given) \in Active \cup {"invitation_created"}
    BY <1>1
  <2> QED
    BY <2>1 DEF Active
<1>5. ~IsFull(action, changed, given) /\ plan = full
  BY <1>2, <1>4
<1>6. changed = plan
  <2>1. ASSUME NEW m \in plan PROVE ToAction(action, m, given) # "none"
    <3>1. \/ <<action, OldAction(m), ToAction(action, m, given)>> \in Rules
          \/ ToAction(action, m, given) = "invitation_created"
      BY PlanFollowsRule
    <3>2. CASE <<action, OldAction(m), ToAction(action, m, given)>> \in Rules
      <4>1. PICK r \in Rules : r[1] = action /\ r[3] = ToAction(action, m, given)
        BY <3>2
      <4> QED
        BY <4>1, RulesThatAdmit
    <3> QED
      BY <3>1, <3>2
  <2> QED
    BY <1>5, <2>1
<1>7. ~(MembersCount(action, changed, given) > settings.limit)
  BY <1>5 DEF IsFull
<1>8. MembersCount(action, changed, given) = Cardinality(stay) + Cardinality(come)
  BY DEF MembersCount
<1>9. placed = stay \cup come /\ stay \cap come = {} /\ stay \subseteq Members /\ come \subseteq Members
  BY <1>1, <1>3, <1>6
<1> HIDE DEF stay, come
<1>10. IsFiniteSet(stay) /\ IsFiniteSet(come)
  BY <1>9, FS_Subset, MembershipConstants
<1>11. /\ Cardinality(placed) = Cardinality(stay) + Cardinality(come) - Cardinality(stay \cap come)
       /\ Cardinality(stay \cap come) = 0
       /\ Cardinality(stay) \in Nat /\ Cardinality(come) \in Nat
  BY <1>9, <1>10, FS_Union, FS_EmptySet, FS_CardinalityType
<1>12. settings.limit \in Nat
  BY MembershipConstants DEF TypeOK, Settings
<1> QED
  BY <1>7, <1>8, <1>11, <1>12

\* UsersStayWithinLimit: a service that gives a user a place counts all of those taken,
\* with the ones its own batch takes and releases.
THEOREM LimitIsKept == Spec => UsersStayWithinLimit
<1>1. ASSUME RowsInv, [Next]_vars, settings'.limit # Unlimited,
             NEW u \in Users, TakesPlace(u)', ~TakesPlace(u)
      PROVE  Cardinality({m \in Members : TakesPlace(m)'}) <= settings'.limit
  <2>0. TypeOK /\ NoContradictoryState /\ u \in Members
    BY <1>1 DEF RowsInv, Members
  <2>1. ASSUME NEW ids \in SUBSET Members, NEW given \in SUBSET Approvals, NEW action,
               Moves(action, ids, given)
        PROVE  Cardinality({m \in Members : TakesPlace(m)'}) <= settings'.limit
    <3> DEFINE plan == Plan(action, ids, given)
               placed == {m \in Members : TakesPlace(m)'}
    <3>1. /\ settings' = settings
          /\ rel' = RelAfter(plan, action, given) /\ pending' = PendingAfter(plan, action, given)
      BY <2>1 DEF Moves, Transition
    <3>2. placed = {m \in Members : \/ RelAfter(plan, action, given)[m] = "active"
                                    \/ PendingAfter(plan, action, given)[m] = "invitation"}
      BY <3>1 DEF TakesPlace
    <3>3. u \in placed
      BY <1>1, <2>0
    <3>4. action \in LimitedActions
      <4>1. \/ RelAfter(plan, action, given)[u] = "active"
            \/ PendingAfter(plan, action, given)[u] = "invitation"
        BY <3>2, <3>3
      <4> HIDE DEF plan
      <4> QED
        BY <1>1, <2>0, <4>1, NewPlaces DEF plan
    <3> HIDE DEF plan, placed
    <3>5. Cardinality(placed) <= settings.limit
      BY <1>1, <2>0, <3>1, <3>2, <3>3, <3>4, PlacesWithinLimit DEF plan
    <3> QED
      BY <3>1, <3>5 DEF placed
  <2>2. ASSUME NEW t \in Teams, AddChild(t) \/ \E orphan \in BOOLEAN : RemoveChild(t, orphan)
        PROVE  FALSE
    <3>1. u # t
      BY MembershipConstants
    <3>2. /\ rel' = [rel EXCEPT ![t] = "active"] \/ rel' = [rel EXCEPT ![t] = "none"]
          /\ pending' = [pending EXCEPT ![t] = "none"] \/ pending' = pending
      BY <2>2 DEF AddChild, RemoveChild
    <3> QED
      BY <1>1, <2>0, <3>1, <3>2 DEF TypeOK, TakesPlace
  <2>3. ASSUME NEW new \in Settings, NEW change \in {"", "empty", "reinvite"},
               UpdateGroup(new, change)
        PROVE  FALSE
    <3>1. ActionFitsChange(new, change)
      BY <2>3, Zenon DEF UpdateGroup
    <3>2. \/ StrengthenAction(change) = "no_transition"
          \/ StrengthenAction(change) \in StrengtheningActions
      BY <3>1, ChangeActionIs, Zenon
    <3> QED
      BY <1>1, <2>0, <2>3, <3>2, UpdateGroupAdmitsNobody, Zenon
  <2>4. ASSUME NEW m \in Members, Expire(m) PROVE FALSE
    BY <1>1, <2>0, <2>4 DEF Expire, TypeOK, TakesPlace
  <2>5. ~(rel' = rel /\ pending' = pending)
    BY <1>1 DEF TakesPlace
  <2>6. \A ids \in SUBSET Members : \A kind : ~Checks(kind, ids)
    BY <2>5 DEF Checks, Start, rows
  <2>7. (\A m \in Members : ~UpdatePermissions(m)) /\ ~LockElapses /\ ~UNCHANGED vars
    BY <2>5 DEF UpdatePermissions, LockElapses, vars, rows
  <2> QED
    BY <1>1, <2>1, <2>2, <2>3, <2>4, <2>6, <2>7, Steps, Zenon
<1>2. RowsInv /\ [Next]_vars =>
        [(/\ settings'.limit # Unlimited
          /\ {u \in Users : TakesPlace(u)'} \ {u \in Users : TakesPlace(u)} # {})
         => Cardinality({m \in Members : TakesPlace(m)'}) <= settings'.limit]_vars
  BY <1>1
<1> QED
  BY <1>2, RowsInvariant, PTL DEF Spec, UsersStayWithinLimit

-----------------------------------------------------------------------------
(* One transaction at a time: what a check read still holds when the       *)
(* service goes on.                                                        *)

SerialInv ==
    /\ \A r, s \in inFlight : r = s
    /\ \A r \in inFlight : r.kind = "grant" => \A m \in r.ids : IsMember(m)
    /\ GrantsFollowMembership

\* A service that goes on without another's commit in between leaves nothing in flight.
LEMMA AloneEmpties ==
    ASSUME ~Overlap, SerialInv
    PROVE  /\ Alone /\ inFlight' = inFlight => inFlight' = {}
           /\ \A kind, ids : Finish(kind, ids) => inFlight' = {}
<1>1. ASSUME NEW kind, NEW ids, Finish(kind, ids) PROVE inFlight' = {}
  <2>1. inFlight' = inFlight \ {[kind |-> kind, ids |-> ids]} /\ [kind |-> kind, ids |-> ids] \in inFlight
    BY <1>1 DEF Finish
  <2> QED
    BY <2>1 DEF SerialInv
<1> QED
  BY <1>1 DEF Alone

\* The permissions granted through the group go with the row, whatever deletes it.
LEMMA GrantsAfterRows ==
    ASSUME NEW action, NEW given, NEW plan, GrantsFollowMembership, grants \subseteq Members,
           rel' = RelAfter(plan, action, given), grants' = GrantsAfter(plan, action, given)
    PROVE  GrantsFollowMembership'
<1> SUFFICES ASSUME NEW m \in grants' PROVE rel'[m] # "none"
  BY DEF GrantsFollowMembership
<1>1. m \in grants /\ m \in Members /\ rel[m] # "none"
      /\ ~(m \in plan /\ Deletes(m, ToAction(action, m, given)))
  BY DEF GrantsAfter, GrantsFollowMembership
<1> QED
  BY <1>1 DEF RelAfter, NewRel

\* Each step, when transactions do not overlap.
LEMMA StepKeepsSerial ==
    ASSUME ~Overlap, TypeOK, SerialInv, [Next]_vars
    PROVE  SerialInv'
<1>0. grants \subseteq Members /\ rel \in [Members -> {"none", "active", "expired"}]
      /\ GrantsFollowMembership
  BY DEF TypeOK, SerialInv
<1>1. ASSUME inFlight' = {}, GrantsFollowMembership' PROVE SerialInv'
  BY <1>1 DEF SerialInv
<1>2. ASSUME NEW ids \in SUBSET Members, NEW given \in SUBSET Approvals, NEW action,
             Moves(action, ids, given)
      PROVE  SerialInv'
  <2>1. inFlight' = {}
    BY <1>2, AloneEmpties DEF Moves
  <2>2. /\ rel' = RelAfter(Plan(action, ids, given), action, given)
        /\ grants' = GrantsAfter(Plan(action, ids, given), action, given)
    BY <1>2 DEF Moves, Transition
  <2>3. GrantsFollowMembership'
    BY <1>0, <2>2, GrantsAfterRows
  <2> QED
    BY <1>1, <2>1, <2>3
<1>3. ASSUME NEW ids \in SUBSET Members, NEW kind, Checks(kind, ids)
      PROVE  SerialInv'
  <2>1. inFlight = {} /\ inFlight' = {[kind |-> kind, ids |-> ids]}
        /\ settings' = settings /\ rel' = rel /\ approved' = approved /\ grants' = grants
    BY <1>3 DEF Checks, Start, Alone, rows
  <2>2. \A r \in inFlight' : r.kind = kind /\ r.ids = ids
    BY <2>1
  <2> QED
    BY <1>3, <2>1, <2>2
    DEF Checks, SerialInv, IsMember, GrantsFollowMembership
<1>4. ASSUME NEW t \in Teams, AddChild(t) \/ \E orphan \in BOOLEAN : RemoveChild(t, orphan)
      PROVE  SerialInv'
  <2>1. inFlight' = {}
    BY <1>4, AloneEmpties DEF AddChild, RemoveChild
  <2>2. GrantsFollowMembership'
    BY <1>0, <1>4 DEF AddChild, RemoveChild, GrantsFollowMembership
  <2> QED
    BY <1>1, <2>1, <2>2
<1>5. ASSUME NEW m \in Members, UpdatePermissions(m) PROVE SerialInv'
  <2>1. inFlight' = {} /\ [kind |-> "grant", ids |-> {m}] \in inFlight
        /\ grants' = grants \cup {m} /\ rel' = rel
    BY <1>5, AloneEmpties DEF UpdatePermissions, Finish
  <2>2. [kind |-> "grant", ids |-> {m}].kind = "grant" /\ m \in [kind |-> "grant", ids |-> {m}].ids
    OBVIOUS
  <2>3. rel[m] = "active"
    BY <2>1, <2>2, Zenon DEF SerialInv, IsMember
  <2>4. GrantsFollowMembership'
    BY <1>0, <2>1, <2>3 DEF GrantsFollowMembership
  <2> QED
    BY <1>1, <2>1, <2>4
<1>6. ASSUME NEW m \in Members, Expire(m) PROVE SerialInv'
  <2>1. inFlight' = {}
    BY <1>6, AloneEmpties DEF Expire
  <2>2. GrantsFollowMembership'
    BY <1>0, <1>6 DEF Expire, GrantsFollowMembership
  <2> QED
    BY <1>1, <2>1, <2>2
<1>7. ASSUME NEW new, NEW change, UpdateGroup(new, change) PROVE SerialInv'
  <2>1. inFlight' = {}
    BY <1>7, AloneEmpties, Zenon DEF UpdateGroup
  <2>2. /\ rel' = RelAfter(Plan(StrengthenAction(change), Participants, {}), StrengthenAction(change), {})
        /\ grants' = GrantsAfter(Plan(StrengthenAction(change), Participants, {}), StrengthenAction(change), {})
    BY <1>7, Zenon DEF UpdateGroup
  <2>3. GrantsFollowMembership'
    BY <1>0, <2>2, GrantsAfterRows, Zenon
  <2> QED
    BY <1>1, <2>1, <2>3
<1>8. CASE LockElapses
  <2>1. inFlight' = {} /\ rel' = rel /\ grants' = grants
    BY <1>8, AloneEmpties DEF LockElapses, rows
  <2> QED
    BY <1>0, <1>1, <2>1 DEF GrantsFollowMembership
<1>9. CASE UNCHANGED vars
  BY <1>9 DEF vars, rows, SerialInv, IsMember, GrantsFollowMembership
<1> QED
  BY <1>2, <1>3, <1>4, <1>5, <1>6, <1>7, <1>8, <1>9, Steps, Zenon

\* Without overlap, what the checks read holds in every state they wait in.
LEMMA SerialInvariant == ~Overlap => (Spec => []SerialInv)
<1> SUFFICES ASSUME ~Overlap PROVE Spec => []SerialInv
  OBVIOUS
<1>1. Init => SerialInv
  BY DEF Init, SerialInv, GrantsFollowMembership
<1>2. TypeOK /\ SerialInv /\ [Next]_vars => SerialInv'
  BY StepKeepsSerial
<1> QED
  BY <1>1, <1>2, TypeCorrect, PTL DEF Spec

\* GrantsFollowMembership: as long as transactions do not overlap, no service deletes a
\* row and leaves the permissions granted through it.
THEOREM GrantsGoWithMembership == ~Overlap => (Spec => []GrantsFollowMembership)
<1> SUFFICES ASSUME ~Overlap PROVE Spec => []GrantsFollowMembership
  OBVIOUS
<1>1. SerialInv => GrantsFollowMembership
  BY DEF SerialInv
<1> QED
  BY <1>1, SerialInvariant, PTL
=============================================================================
