-------------------------- MODULE MCGroupMembership --------------------------
(* Instances of GroupMembership for TLC. *)
EXTENDS GroupMembership, TLC

CONSTANTS u1, u2, t1, lock

OneApproval == {lock}
OneLevel == [a \in Approvals |-> 1]

UserSymmetry == Permutations(Users)

\* The steps of Next that are enabled when requests overlap: leaving at once,
\* leave requests accepted, permissions and expiry need a request at a time
\* (RequestKinds, MayExpire), and are in MCServices.
OverlapNext ==
    \/ \E u \in Users :
          \/ \E given \in SUBSET Approvals :
                \/ CreateGroupJoinRequest(u, given)
                \/ AcceptGroupInvitation(u, given)
                \/ JoinGroupByCode(u, given)
          \/ MakeUserMemberOfBadgeGroup(u)
          \/ RejectGroupInvitation(u)
          \/ WithdrawGroupJoinRequest(u)
          \/ WithdrawGroupLeaveRequest(u)
          \/ CheckGroupLeaveRequest(u)
          \/ CreateGroupLeaveRequest(u)
    \/ \E ids \in SUBSET Members \ {{}} :
          \/ CheckAcceptRequests("accept_join", ids)
          \/ AcceptJoinRequests(ids)
          \/ RejectJoinRequests(ids)
          \/ RejectLeaveRequests(ids)
          \/ WithdrawInvitations(ids)
          \/ CreateGroupInvitations(ids)
          \/ RemoveMembers(ids)
    \/ \E new \in Settings, change \in {"", "empty", "reinvite"} : UpdateGroup(new, change)
    \/ LockElapses

OverlapSpec == Init /\ [][OverlapNext]_vars
=============================================================================
