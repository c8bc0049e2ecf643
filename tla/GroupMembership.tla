--------------------------- MODULE GroupMembership ---------------------------
(***************************************************************************)
(* The life of the memberships of one group: the rows of groups_groups and *)
(* group_pending_requests whose parent is the group, the newest row of     *)
(* group_membership_changes per member, and the group's own settings.      *)
(*                                                                         *)
(* Every service that moves a member goes through                          *)
(* GroupGroupStore.Transition, which is the operator Transition below; the *)
(* actions are the services, with the guards they put in front of it.      *)
(*                                                                         *)
(* A service runs in one REPEATABLE READ transaction.  What it reads with  *)
(* FOR SHARE or FOR UPDATE is the latest committed data and stays locked   *)
(* until the commit, so locking reads and writes form one atomic step.     *)
(* What it reads without a lock comes from the snapshot taken earlier, so  *)
(* such a check is a step of its own: the request then waits in inFlight   *)
(* and other transactions may commit before it goes on.                    *)
(***************************************************************************)
EXTENDS Naturals, FiniteSets

CONSTANTS
    Group,              \* id of the parent group
    GroupType,          \* groups.type of the parent group, which is not a team
    Users,              \* groups of type User
    TempUsers,          \* those whose users.temp_user is set
    Teams,              \* groups of type Team that managers may attach directly
    Managers,           \* users managing the group with can_manage # 'none'
    AncestorsOfGroup,   \* child ids that are ancestors of the group
    Approvals,          \* kinds of approvals a group may require
    Lock,               \* the approval that locks the membership
    MaxLevel,           \* strongest requirement per approval (view < edit)
    Limits,             \* values of max_participants
    Unlimited,          \* enforce_max_participants is off
    MayExpire,          \* may a row of groups_groups reach its expires_at?
    RequestKinds,       \* the services with an unlocked check that are in use
    Overlap,            \* may transactions commit between check and act?
    MaxInFlight         \* bound on the requests between check and act

Members == Users \cup Teams
Kinds == {"leave", "leave_request", "accept_join", "accept_leave", "grant"}

ASSUME MembershipConstants ==
    /\ TempUsers \subseteq Users
    /\ Managers \subseteq Users
    /\ Users \cap Teams = {}
    /\ IsFiniteSet(Members) /\ Group \notin Members
    /\ AncestorsOfGroup \subseteq Members
    /\ Lock \in Approvals
    /\ MaxLevel \in [Approvals -> 0..2]
    /\ Limits \subseteq Nat
    /\ Unlimited \notin Nat
    /\ GroupType \in {"Class", "Club", "Friends", "Other", "Session", "Base"}
    /\ MayExpire \in BOOLEAN /\ Overlap \in BOOLEAN
    /\ RequestKinds \subseteq Kinds
    /\ MaxInFlight \in Nat

VARIABLES
    settings,       \* the group's row: requirements, is_public, frozen_membership, limit
    rel,            \* groups_groups row of each member: none, active or expired
    approved,       \* the approvals recorded in that row (*_approved_at)
    pending,        \* group_pending_requests row of each member: its type
    offered,        \* the approvals recorded in that row
    lastChange,     \* action of the member's newest group_membership_changes row
    grants,         \* members with permissions_granted from this group
    inFlight        \* requests that passed their unlocked checks

rows == <<rel, approved, pending, offered, lastChange, grants>>
vars == <<settings, rows, inFlight>>

(***************************************************************************)
(* GroupMembershipAction: the state of a (group, member) pair.  The state  *)
(* member_leave_request_created is the code's IsMemberLeaveRequestCreated. *)
(***************************************************************************)
Active == {"joined_by_badge", "invitation_accepted", "join_request_accepted",
           "joined_by_code", "is_member", "member_leave_request_created",
           "leave_request_withdrawn", "leave_request_refused"}

Pending == {"invitation_created", "join_request_created",
            "member_leave_request_created", "leave_request_created"}

Final == {"none", "invitation_withdrawn", "invitation_refused",
          "join_request_withdrawn", "join_request_refused", "leave_request_accepted",
          "left", "removed", "removed_due_to_approval_change"}

MembershipActions == Active \cup Pending \cup Final

PendingType(action) ==
    CASE action = "invitation_created" -> "invitation"
      [] action = "join_request_created" -> "join_request"
      [] action = "member_leave_request_created" -> "leave_request"

(***************************************************************************)
(* groupGroupTransitionRules, one triple per "FromAction: ToAction".       *)
(***************************************************************************)
Rules ==
    {<<"AdminCreatesInvitation", "none", "invitation_created">>,
     <<"AdminCreatesInvitation", "invitation_created", "invitation_created">>,
     <<"AdminCreatesInvitation", "join_request_created", "join_request_accepted">>,
     <<"AdminCreatesInvitation", "leave_request_created", "invitation_created">>,
     <<"UserCreatesJoinRequest", "none", "join_request_created">>,
     <<"UserCreatesJoinRequest", "join_request_created", "join_request_created">>,
     <<"UserCreatesJoinRequest", "leave_request_created", "join_request_created">>,
     <<"UserCreatesAcceptedJoinRequest", "none", "join_request_accepted">>,
     <<"UserCreatesAcceptedJoinRequest", "join_request_created", "join_request_accepted">>,
     <<"UserCreatesAcceptedJoinRequest", "invitation_created", "join_request_accepted">>,
     <<"UserCreatesAcceptedJoinRequest", "leave_request_created", "join_request_accepted">>,
     <<"UserJoinsGroupByBadge", "none", "joined_by_badge">>,
     <<"UserJoinsGroupByBadge", "join_request_created", "joined_by_badge">>,
     <<"UserJoinsGroupByBadge", "invitation_created", "joined_by_badge">>,
     <<"UserJoinsGroupByBadge", "leave_request_created", "joined_by_badge">>,
     <<"UserJoinsGroupByCode", "none", "joined_by_code">>,
     <<"UserJoinsGroupByCode", "join_request_created", "joined_by_code">>,
     <<"UserJoinsGroupByCode", "invitation_created", "joined_by_code">>,
     <<"UserJoinsGroupByCode", "leave_request_created", "joined_by_code">>,
     <<"UserAcceptsInvitation", "invitation_created", "invitation_accepted">>,
     <<"AdminAcceptsJoinRequest", "join_request_created", "join_request_accepted">>,
     <<"AdminAcceptsLeaveRequest", "member_leave_request_created", "leave_request_accepted">>,
     <<"UserRefusesInvitation", "invitation_created", "invitation_refused">>,
     <<"AdminRefusesJoinRequest", "join_request_created", "join_request_refused">>,
     <<"AdminRefusesLeaveRequest", "member_leave_request_created", "leave_request_refused">>,
     <<"AdminRemovesUser", "is_member", "removed">>,
     <<"AdminRemovesUser", "member_leave_request_created", "removed">>,
     <<"AdminWithdrawsInvitation", "invitation_created", "invitation_withdrawn">>,
     <<"UserLeavesGroup", "is_member", "left">>,
     <<"UserLeavesGroup", "member_leave_request_created", "left">>,
     <<"UserCreatesLeaveRequest", "is_member", "member_leave_request_created">>,
     <<"UserCreatesLeaveRequest", "member_leave_request_created",
       "member_leave_request_created">>,
     <<"UserCancelsJoinRequest", "join_request_created", "join_request_withdrawn">>,
     <<"UserCancelsLeaveRequest", "member_leave_request_created", "leave_request_withdrawn">>,
     <<"AdminStrengthensApprovalWithEmpty", "is_member", "removed_due_to_approval_change">>,
     <<"AdminStrengthensApprovalWithEmpty", "none", "none">>,
     <<"AdminStrengthensApprovalWithEmpty", "join_request_created", "none">>,
     <<"AdminStrengthensApprovalWithEmpty", "member_leave_request_created",
       "removed_due_to_approval_change">>,
     <<"AdminStrengthensApprovalWithEmpty", "leave_request_created",
       "removed_due_to_approval_change">>,
     <<"AdminStrengthensApprovalWithEmpty", "invitation_created", "none">>,
     <<"AdminStrengthensApprovalWithReinvite", "is_member", "invitation_created">>,
     <<"AdminStrengthensApprovalWithReinvite", "none", "none">>,
     <<"AdminStrengthensApprovalWithReinvite", "join_request_created", "none">>,
     <<"AdminStrengthensApprovalWithReinvite", "member_leave_request_created",
       "removed_due_to_approval_change">>,
     <<"AdminStrengthensApprovalWithReinvite", "leave_request_created",
       "removed_due_to_approval_change">>,
     <<"AdminStrengthensApprovalWithReinvite", "invitation_created", "invitation_created">>}

\* AdminRemovesDirectRelation has rules too, but no service uses that action.

\* The state Transition reads: GROUP_CONCAT of the active row and the pending row.
\* A combination the rules do not know (a member with an invitation) is "contradictory".
OldAction(m) ==
    CASE rel[m] = "active" /\ pending[m] = "none" -> "is_member"
      [] rel[m] = "active" /\ pending[m] = "leave_request" -> "member_leave_request_created"
      [] rel[m] = "active" /\ pending[m] \in {"invitation", "join_request"} -> "contradictory"
      [] rel[m] # "active" /\ pending[m] = "none" -> "none"
      [] rel[m] # "active" /\ pending[m] = "invitation" -> "invitation_created"
      [] rel[m] # "active" /\ pending[m] = "join_request" -> "join_request_created"
      [] rel[m] # "active" /\ pending[m] = "leave_request" -> "leave_request_created"

(***************************************************************************)
(* Approvals.                                                              *)
(***************************************************************************)
Required(s) == {a \in Approvals : s.req[a] > 0}

\* A join request carries its own approvals; otherwise those given in the call count.
ApprovalsOK(m, given) ==
    Required(settings) \subseteq
        (IF OldAction(m) = "join_request_created" THEN offered[m] ELSE given)

NeedsApprovals(m, to) ==
    \/ to \in Active /\ OldAction(m) \notin Active
    \/ to = "join_request_created"

(***************************************************************************)
(* The transition plan: which of the ids change, and to what.  An id that  *)
(* is left out got invalid, unchanged, approvals_missing, cycle or full as *)
(* its result.                                                             *)
(***************************************************************************)
RuleDomain == {<<r[1], r[2]>> : r \in Rules}
HasRule(action, m) == <<action, OldAction(m)>> \in RuleDomain
Rule(action, m) == (CHOOSE r \in Rules : r[1] = action /\ r[2] = OldAction(m))[3]

IfNotEnoughApprovalsDowngradeTo(action) ==
    IF action = "AdminCreatesInvitation" THEN "invitation_created" ELSE "none"

LacksApprovals(action, m, given) ==
    NeedsApprovals(m, Rule(action, m)) /\ ~ApprovalsOK(m, given)

ToAction(action, m, given) ==
    IF LacksApprovals(action, m, given)
      THEN IfNotEnoughApprovalsDowngradeTo(action)
      ELSE Rule(action, m)

MakesCycle(m, to) ==
    OldAction(m) \notin Active /\ to \in Active \cup Pending /\ m \in AncestorsOfGroup

BuildTransitionsPlan(action, ids, given) ==
    {m \in ids :
        /\ m # Group
        /\ HasRule(action, m)
        /\ LacksApprovals(action, m, given) => IfNotEnoughApprovalsDowngradeTo(action) # "none"
        /\ ToAction(action, m, given) # OldAction(m)
        /\ ~MakesCycle(m, ToAction(action, m, given))}

\* Mutant: invitations are not among the limited actions.
LimitedActionsButInvitations ==
    {"UserJoinsGroupByBadge", "UserJoinsGroupByCode", "UserCreatesJoinRequest",
     "UserCreatesAcceptedJoinRequest", "AdminAcceptsJoinRequest"}

LimitedActions ==
    {"UserJoinsGroupByBadge", "UserJoinsGroupByCode", "UserCreatesJoinRequest",
     "UserCreatesAcceptedJoinRequest", "AdminCreatesInvitation", "AdminAcceptsJoinRequest"}

TakesPlace(m) == rel[m] = "active" \/ pending[m] = "invitation"

\* Participants once the changed ids have moved.
MembersCount(action, changed, given) ==
    Cardinality({m \in Members \ changed : TakesPlace(m)})
    + Cardinality({m \in changed :
                     ToAction(action, m, given) \in Active \cup {"invitation_created"}})

IsFull(action, changed, given) ==
    /\ settings.limit # Unlimited
    /\ action \in LimitedActions
    /\ \/ MembersCount(action, changed, given) > settings.limit
       \/ MembersCount(action, changed, given) = settings.limit
          /\ action = "UserCreatesJoinRequest"

Plan(action, ids, given) ==
    LET plan    == BuildTransitionsPlan(action, ids, given)
        changed == {m \in plan : ToAction(action, m, given) # "none"}
    IN  IF IsFull(action, changed, given) THEN plan \ changed ELSE plan

(***************************************************************************)
(* The writes, in the order Transition makes them.                         *)
(***************************************************************************)
Inserts(m, to) == OldAction(m) \notin Active /\ to \in Active
Deletes(m, to) == OldAction(m) \in Active /\ to \notin Active

NewRel(m, to) ==
    IF Deletes(m, to) THEN "none" ELSE IF Inserts(m, to) THEN "active" ELSE rel[m]

\* INSERT ... ON DUPLICATE KEY UPDATE expires_at: an expired row keeps its approvals.
NewApproved(m, to, given) ==
    IF Deletes(m, to) THEN {}
    ELSE IF Inserts(m, to) /\ rel[m] = "none"
      THEN IF OldAction(m) = "join_request_created" THEN offered[m] ELSE given
    ELSE approved[m]

\* Mutant: the pending row survives the transition it caused.
NewPendingKept(m, to) == IF to \in Pending THEN PendingType(to) ELSE pending[m]

NewPending(m, to) ==
    IF to \in Pending THEN PendingType(to)
    ELSE IF OldAction(m) \in Pending THEN "none" ELSE pending[m]

NewOffered(m, to, given) ==
    IF to \in Pending THEN given ELSE IF OldAction(m) \in Pending THEN {} ELSE offered[m]

\* Mutant: what becomes of a request is not logged.
NewLastChangeOfRequestsOnly(m, to) ==
    IF to = "none" \/ OldAction(m) \in Pending THEN lastChange[m]
    ELSE IF to = "member_leave_request_created" THEN "leave_request_created" ELSE to

\* the log keeps what follows the comma; a silent change (to no relation) adds no row
NewLastChange(m, to) ==
    IF to = "none" THEN lastChange[m]
    ELSE IF to = "member_leave_request_created" THEN "leave_request_created" ELSE to

RelAfter(plan, action, given) ==
    [m \in Members |-> IF m \in plan THEN NewRel(m, ToAction(action, m, given)) ELSE rel[m]]
ApprovedAfter(plan, action, given) ==
    [m \in Members |-> IF m \in plan THEN NewApproved(m, ToAction(action, m, given), given)
                       ELSE approved[m]]
PendingAfter(plan, action, given) ==
    [m \in Members |-> IF m \in plan THEN NewPending(m, ToAction(action, m, given))
                       ELSE pending[m]]
OfferedAfter(plan, action, given) ==
    [m \in Members |-> IF m \in plan THEN NewOffered(m, ToAction(action, m, given), given)
                       ELSE offered[m]]
LastChangeAfter(plan, action, given) ==
    [m \in Members |-> IF m \in plan THEN NewLastChange(m, ToAction(action, m, given))
                       ELSE lastChange[m]]
\* Mutant: the permissions granted through the membership outlive it.
GrantsKept(plan, action, given) == grants

GrantsAfter(plan, action, given) ==
    grants \ {m \in plan : Deletes(m, ToAction(action, m, given))}

Transition(action, ids, given) ==
    LET plan == Plan(action, ids, given)
    IN  /\ rel' = RelAfter(plan, action, given)
        /\ approved' = ApprovedAfter(plan, action, given)
        /\ pending' = PendingAfter(plan, action, given)
        /\ offered' = OfferedAfter(plan, action, given)
        /\ lastChange' = LastChangeAfter(plan, action, given)
        /\ grants' = GrantsAfter(plan, action, given)

(***************************************************************************)
(* Requests.  Start is the snapshot read of a check that takes no lock,    *)
(* the action that removes the request from inFlight does the rest.        *)
(***************************************************************************)
Requests == [kind : Kinds, ids : SUBSET Members]

\* Without Overlap, a transaction runs alone from its first read to its commit.
Alone == Overlap \/ inFlight = {}

Start(kind, ids) ==
    /\ Alone
    /\ kind \in RequestKinds
    /\ Cardinality(inFlight) < MaxInFlight
    /\ inFlight' = inFlight \cup {[kind |-> kind, ids |-> ids]}
    /\ UNCHANGED <<settings, rows>>

Finish(kind, ids) ==
    /\ [kind |-> kind, ids |-> ids] \in inFlight
    /\ inFlight' = inFlight \ {[kind |-> kind, ids |-> ids]}
    /\ UNCHANGED settings

\* A service whose checks all read under locks: one step.
Atomic(action, ids, given) ==
    /\ Alone
    /\ Transition(action, ids, given)
    /\ UNCHANGED <<settings, inFlight>>

Registered == Users \ TempUsers
IsMember(m) == rel[m] = "active"
IsLocked(m) == IsMember(m) /\ Lock \in approved[m] /\ settings.req[Lock] > 0

(***************************************************************************)
(* Services of the current user.                                           *)
(***************************************************************************)
\* A manager's join request is accepted at once and needs no public group.
CreateGroupJoinRequest(u, given) ==
    /\ u \in Registered
    /\ ~settings.frozen
    /\ IF u \in Managers
         THEN Atomic("UserCreatesAcceptedJoinRequest", {u}, given)
         ELSE settings.public /\ Atomic("UserCreatesJoinRequest", {u}, given)

\* Mutant: accepting an invitation skips checkPreconditionsForGroupRequests.
AcceptInvitationUnchecked(u, given) ==
    u \in Registered /\ Atomic("UserAcceptsInvitation", {u}, given)

AcceptGroupInvitation(u, given) ==
    /\ u \in Registered
    /\ ~settings.frozen
    /\ Atomic("UserAcceptsInvitation", {u}, given)

JoinGroupByCode(u, given) ==
    /\ u \in Registered
    /\ ~settings.frozen
    /\ Atomic("UserJoinsGroupByCode", {u}, given)

\* At login; neither frozen_membership nor temp_user is looked at.
MakeUserMemberOfBadgeGroup(u) ==
    /\ ~IsMember(u)
    /\ Atomic("UserJoinsGroupByBadge", {u}, {})

RejectGroupInvitation(u) == Atomic("UserRefusesInvitation", {u}, {})
WithdrawGroupJoinRequest(u) == Atomic("UserCancelsJoinRequest", {u}, {})
WithdrawGroupLeaveRequest(u) == Atomic("UserCancelsLeaveRequest", {u}, {})

CheckLeaveGroup(u) ==
    /\ ~IsLocked(u)
    /\ IsMember(u) => ~settings.frozen /\ GroupType # "Base"
    /\ Start("leave", {u})

LeaveGroup(u) ==
    /\ Finish("leave", {u})
    /\ Transition("UserLeavesGroup", {u}, {})

CheckGroupLeaveRequest(u) ==
    /\ IsLocked(u) /\ ~settings.frozen
    /\ Start("leave_request", {u})

CreateGroupLeaveRequest(u) ==
    /\ Finish("leave_request", {u})
    /\ Transition("UserCreatesLeaveRequest", {u}, {})

(***************************************************************************)
(* Services of the group's managers.                                       *)
(***************************************************************************)
CheckAcceptRequests(kind, ids) ==
    /\ ~settings.frozen
    /\ Start(kind, ids)

AcceptJoinRequests(ids) ==
    /\ Finish("accept_join", ids)
    /\ Transition("AdminAcceptsJoinRequest", ids, {})

AcceptLeaveRequests(ids) ==
    /\ Finish("accept_leave", ids)
    /\ Transition("AdminAcceptsLeaveRequest", ids, {})

RejectJoinRequests(ids) == Atomic("AdminRefusesJoinRequest", ids, {})
RejectLeaveRequests(ids) == Atomic("AdminRefusesLeaveRequest", ids, {})
WithdrawInvitations(ids) == Atomic("AdminWithdrawsInvitation", ids, {})

CreateGroupInvitations(ids) ==
    /\ ids \subseteq Registered
    /\ Atomic("AdminCreatesInvitation", ids, {})

RemoveMembers(ids) ==
    /\ ids \subseteq Users
    /\ Atomic("AdminRemovesUser", ids, {})

\* GroupGroupStore.CreateRelation: replaces whatever relation and request there were.
AddChild(t) ==
    /\ Alone
    /\ t \notin AncestorsOfGroup
    /\ rel' = [rel EXCEPT ![t] = "active"]
    /\ approved' = [approved EXCEPT ![t] = {}]
    /\ pending' = [pending EXCEPT ![t] = "none"]
    /\ offered' = [offered EXCEPT ![t] = {}]
    /\ UNCHANGED <<settings, lastChange, grants, inFlight>>

\* GroupGroupStore.DeleteRelation; an orphaned team is deleted with all its rows.
RemoveChild(t, deleteGroup) ==
    /\ Alone
    /\ IsMember(t)
    /\ rel' = [rel EXCEPT ![t] = "none"]
    /\ approved' = [approved EXCEPT ![t] = {}]
    /\ grants' = grants \ {t}
    /\ IF deleteGroup
         THEN /\ pending' = [pending EXCEPT ![t] = "none"]
              /\ offered' = [offered EXCEPT ![t] = {}]
              /\ lastChange' = [lastChange EXCEPT ![t] = "none"]
         ELSE UNCHANGED <<pending, offered, lastChange>>
    /\ UNCHANGED <<settings, inFlight>>

\* Permissions are granted to a descendant of the group; the check takes no lock.
CheckUpdatePermissions(m) ==
    /\ IsMember(m)
    /\ Start("grant", {m})

UpdatePermissions(m) ==
    /\ Finish("grant", {m})
    /\ grants' = grants \cup {m}
    /\ UNCHANGED <<rel, approved, pending, offered, lastChange>>

(***************************************************************************)
(* updateGroup.  Raising a requirement of a group that has participants    *)
(* removes them all (and may invite them again), before the pending        *)
(* requests are refused and the settings are written.                      *)
(***************************************************************************)
Settings ==
    [req : {r \in [Approvals -> 0..2] : \A a \in Approvals : r[a] <= MaxLevel[a]},
     public : BOOLEAN, frozen : BOOLEAN, limit : Limits \cup {Unlimited}]

Participants == {m \in Members : rel[m] # "none"}

\* Mutant: a first requirement (none -> view) is not seen as strengthening.
StrengthenedOnlyIfRequired(new, a) ==
    Participants # {} /\ settings.req[a] > 0 /\ new.req[a] > settings.req[a]

IsStrengthened(new, a) == Participants # {} /\ new.req[a] > settings.req[a]

\* approval_change_action is given if and only if some requirement is strengthened.
ActionFitsChange(new, approvalChangeAction) ==
    (approvalChangeAction # "") <=> \E a \in Approvals : IsStrengthened(new, a)

StrengthenAction(approvalChangeAction) ==
    CASE approvalChangeAction = "" -> "no_transition"
      [] approvalChangeAction = "empty" -> "AdminStrengthensApprovalWithEmpty"
      [] approvalChangeAction = "reinvite" -> "AdminStrengthensApprovalWithReinvite"

FreezesMembership(new) == new.frozen /\ ~settings.frozen

\* Mutant: a freeze alone refuses nothing.
RefuseOnlyOnPrivacyOrApprovals(new, approvalChangeAction) ==
    (settings.public /\ ~new.public) \/ approvalChangeAction # ""

ShouldRefusePendingRequests(new, approvalChangeAction) ==
    \/ settings.public /\ ~new.public
    \/ FreezesMembership(new)
    \/ approvalChangeAction # ""

PendingTypesToRefuse(new, approvalChangeAction) ==
    {"join_request"}
    \cup (IF FreezesMembership(new) THEN {"leave_request", "invitation"} ELSE {})
    \cup (IF approvalChangeAction # "" /\ IsStrengthened(new, Lock)
            THEN {"leave_request"} ELSE {})

\* Mutant: the log gets the type of the request instead of what became of it.
RefusalLoggedAsType(type) == type

Refusal(type) ==
    CASE type = "join_request" -> "join_request_refused"
      [] type = "leave_request" -> "leave_request_refused"
      [] type = "invitation" -> "invitation_withdrawn"

UpdateGroup(new, approvalChangeAction) ==
    LET action     == StrengthenAction(approvalChangeAction)
        plan       == Plan(action, Participants, {})
        moved      == PendingAfter(plan, action, {})
        Refused(m) == /\ ShouldRefusePendingRequests(new, approvalChangeAction)
                      /\ moved[m] \in PendingTypesToRefuse(new, approvalChangeAction)
    IN  /\ Alone
        /\ settings.frozen => new.frozen
        /\ ActionFitsChange(new, approvalChangeAction)
        /\ settings' = new
        /\ rel' = RelAfter(plan, action, {})
        /\ approved' = ApprovedAfter(plan, action, {})
        /\ pending' = [m \in Members |-> IF Refused(m) THEN "none" ELSE moved[m]]
        /\ offered' = [m \in Members |-> IF Refused(m) THEN {}
                                          ELSE OfferedAfter(plan, action, {})[m]]
        /\ lastChange' = [m \in Members |-> IF Refused(m) THEN Refusal(moved[m])
                                             ELSE LastChangeAfter(plan, action, {})[m]]
        /\ grants' = GrantsAfter(plan, action, {})
        /\ UNCHANGED inFlight

(***************************************************************************)
(* Time.                                                                   *)
(***************************************************************************)
\* groups_groups_active no longer shows the row: NOW() has reached expires_at.
Expire(m) ==
    /\ MayExpire /\ Alone
    /\ IsMember(m)
    /\ rel' = [rel EXCEPT ![m] = "expired"]
    /\ UNCHANGED <<settings, approved, pending, offered, lastChange, grants, inFlight>>

\* NOW() moves on towards require_lock_membership_approval_until.
LockElapses ==
    /\ Alone
    /\ settings.req[Lock] > 0
    /\ settings' = [settings EXCEPT !.req[Lock] = @ - 1]
    /\ UNCHANGED <<rows, inFlight>>

Init ==
    /\ settings = [req |-> [a \in Approvals |-> 0], public |-> FALSE,
                   frozen |-> FALSE, limit |-> Unlimited]
    /\ rel = [m \in Members |-> "none"]
    /\ approved = [m \in Members |-> {}]
    /\ pending = [m \in Members |-> "none"]
    /\ offered = [m \in Members |-> {}]
    /\ lastChange = [m \in Members |-> "none"]
    /\ grants = {}
    /\ inFlight = {}

UserServices(u) ==
    \/ \E given \in SUBSET Approvals :
          \/ CreateGroupJoinRequest(u, given)
          \/ AcceptGroupInvitation(u, given)
          \/ JoinGroupByCode(u, given)
    \/ MakeUserMemberOfBadgeGroup(u)
    \/ RejectGroupInvitation(u)
    \/ WithdrawGroupJoinRequest(u)
    \/ WithdrawGroupLeaveRequest(u)
    \/ CheckLeaveGroup(u)
    \/ LeaveGroup(u)
    \/ CheckGroupLeaveRequest(u)
    \/ CreateGroupLeaveRequest(u)

ManagerServices(ids) ==
    \/ \E kind \in {"accept_join", "accept_leave"} : CheckAcceptRequests(kind, ids)
    \/ AcceptJoinRequests(ids)
    \/ AcceptLeaveRequests(ids)
    \/ RejectJoinRequests(ids)
    \/ RejectLeaveRequests(ids)
    \/ WithdrawInvitations(ids)
    \/ CreateGroupInvitations(ids)
    \/ RemoveMembers(ids)

Next ==
    \/ \E u \in Users : UserServices(u)
    \/ \E ids \in SUBSET Members \ {{}} : ManagerServices(ids)
    \/ \E t \in Teams : AddChild(t) \/ \E orphan \in BOOLEAN : RemoveChild(t, orphan)
    \/ \E m \in Members : CheckUpdatePermissions(m) \/ UpdatePermissions(m) \/ Expire(m)
    \/ \E new \in Settings, change \in {"", "empty", "reinvite"} : UpdateGroup(new, change)
    \/ LockElapses

Spec == Init /\ [][Next]_vars

(***************************************************************************)
(* Properties.                                                             *)
(***************************************************************************)
\* Rows, requests, log entries and settings have the types of their columns.
TypeOK ==
    /\ settings \in Settings
    /\ rel \in [Members -> {"none", "active", "expired"}]
    /\ approved \in [Members -> SUBSET Approvals]
    /\ pending \in [Members -> {"none", "invitation", "join_request", "leave_request"}]
    /\ offered \in [Members -> SUBSET Approvals]
    /\ lastChange \in [Members -> MembershipActions]
    /\ grants \subseteq Members
    /\ inFlight \subseteq Requests

\* A member never has an invitation or a join request as well: the rules of Transition
\* have no row for such a pair, so it could never be moved again by any service.
NoContradictoryState == \A m \in Members : OldAction(m) # "contradictory"

\* A frozen group has no join request: the freeze refuses them, and the services that
\* create one check frozen_membership under the lock of the group's row.
FrozenGroupHasNoJoinRequest ==
    settings.frozen => \A m \in Members : pending[m] # "join_request"

\* The newest group_membership_changes row of a user explains the rows it has: a request
\* is preceded by its creation, a membership by a way to join that is still in force.
LogExplainsState ==
    \A u \in Users :
        /\ pending[u] = "invitation" => lastChange[u] = "invitation_created"
        /\ pending[u] = "join_request" => lastChange[u] = "join_request_created"
        /\ pending[u] = "leave_request" => lastChange[u] = "leave_request_created"
        /\ rel[u] = "active" => lastChange[u] \in Active \cup {"leave_request_created"}

\* Every user who is a member has given every approval the group requires now, although
\* the requirements change over time (holds as long as no membership row expires).
MembersGaveRequiredApprovals ==
    \A u \in Users : rel[u] = "active" => Required(settings) \subseteq approved[u]

\* Users are never taken in or invited beyond max_participants, by no service and in no
\* batch, while the limit is enforced (teams attached by AddChild are not checked).
UsersStayWithinLimit ==
    [][(/\ settings'.limit # Unlimited
        /\ {u \in Users : TakesPlace(u)'} \ {u \in Users : TakesPlace(u)} # {})
       => Cardinality({m \in Members : TakesPlace(m)'}) <= settings'.limit]_vars

\* Once the membership is frozen, a user can only become a member through a badge:
\* an acceptance that was checked before the freeze finds its request refused.
FrozenGroupAdmitsOnlyBadges ==
    [][settings.frozen =>
        \A u \in Users : rel[u] # "active" /\ rel'[u] = "active"
                           => lastChange'[u] = "joined_by_badge"]_vars

\* Permissions granted through the group are held only by those with a row in it: every
\* service that deletes the row deletes them (as long as transactions do not overlap).
GrantsFollowMembership == \A m \in grants : rel[m] # "none"

\* update_group.go says of frozen_membership that setting it auto-rejects all pending
\* leave requests, and no leave request can be created afterwards.
FrozenGroupHasNoLeaveRequest ==
    settings.frozen => \A m \in Members : pending[m] # "leave_request"

\* update_group.go says that approval_change_action removes all the pending requests to
\* the group; the only ones left afterwards are the invitations of former participants.
ApprovalChangeRemovesAllRequests ==
    [][\A a \in Approvals :
        settings'.req[a] > settings.req[a] /\ Participants # {} =>
            \A m \in Members : pending'[m] # "none" => rel[m] = "active"]_vars
=============================================================================
