-------------------------- MODULE TeamParticipation --------------------------
(***************************************************************************)
(* Teams that take part in one contest (a team item with explicit entry),  *)
(* and the services that move their members meanwhile.  The item asks for  *)
(* a ratio of members admitted to it and bounds the size of a team; a user *)
(* should not take part in the contest with two teams.  Both are checked   *)
(* when a team enters and again when its members change.                   *)
(*                                                                         *)
(* Of the time only the eras matter in which permissions to enter are      *)
(* valid, and of an attempt whether it is open; the item's own entering    *)
(* period covers both eras.  Approvals, locks of the membership and limits *)
(* are in GroupMembership and left open here.                              *)
(* The checks lock what they read: each action is a transaction.           *)
(***************************************************************************)
EXTENDS Naturals, FiniteSets

CONSTANTS
    Users, Teams,
    Windows,            \* sets of eras a permission to enter may cover
    Admittable,         \* users and teams whose permission to enter may change
    MinRatio,           \* items.entry_min_admitted_members_ratio
    MaxTeamSize,        \* items.entry_max_team_size
    FrozenTeams         \* items.entry_frozen_teams

Eras == {1, 2}

ASSUME TeamConstants ==
    /\ IsFiniteSet(Users) /\ Users \cap Teams = {}
    /\ Windows \subseteq SUBSET Eras /\ {} \in Windows
    /\ Admittable \subseteq Users \cup Teams
    /\ MinRatio \in {"None", "All", "Half", "One"}
    /\ MaxTeamSize \in Nat
    /\ FrozenTeams \in BOOLEAN

VARIABLES
    era,        \* the era NOW() is in
    window,     \* eras covered by can_enter_from .. can_enter_until, per user or team
    multiple,   \* items.allows_multiple_attempts
    link,       \* per team and user, the membership or the pending request
    frozen,     \* groups.frozen_membership, per team
    part,       \* per team, the state of its latest participation
    startEra,   \* era of its started_at
    loosened    \* history: teams at work whose entry conditions a service did not check

teamVars == <<era, window, multiple, link, frozen, part, startEra, loosened>>

Links == {"none", "invitation", "join_request", "member", "leaving"}
Outside == {"none", "invitation", "join_request"}

Members(t) == {u \in Users : link[t, u] \notin Outside}
IsOpen(t) == part[t] = "open"

RatioSatisfied(admitted, count) ==
    \/ MinRatio = "None"
    \/ MinRatio = "All" /\ admitted = count
    \/ MinRatio = "Half" /\ count <= 2 * admitted
    \/ MinRatio = "One" /\ admitted >= 1

AdmittedAt(M, e) == {u \in M : e \in window[u]}

\* Entry conditions of the open participation of t, if its members were M.  A team without
\* members gives no row to check; the team's own permission does not count.
StillSatisfied(t, M) ==
    IsOpen(t) /\ M # {} =>
        /\ RatioSatisfied(Cardinality(AdmittedAt(M, startEra[t])), Cardinality(M))
        /\ Cardinality(M) <= MaxTeamSize

\* Another team of the user has attempts at the same contest.
Conflict(t, u) ==
    \E s \in Teams \ {t} :
        /\ u \in Members(s)
        /\ part[t] # "none" /\ part[s] # "none"
        /\ (IsOpen(t) /\ IsOpen(s)) \/ ~multiple

(***************************************************************************)
(* Memberships.                                                            *)
(***************************************************************************)
\* The services that change members or their permissions without a look at the entry
\* conditions of the open participations of the teams S.
Loosens(S) == loosened' = loosened \cup {t \in S : IsOpen(t)}
Keeps == UNCHANGED loosened

Becomes(t, u, from, to) ==
    /\ link[t, u] \in from
    /\ link' = [link EXCEPT ![<<t, u>>] = to]
    /\ UNCHANGED <<era, window, multiple, frozen, part, startEra>>

\* checkPreconditionsForGroupRequests, checkPossibilityToJoinTeam
MayJoin(t, u) ==
    /\ ~frozen[t]
    /\ ~Conflict(t, u)
    /\ StillSatisfied(t, Members(t) \cup {u})

\* Also the join request of a user who manages the team.
JoinGroupByCode(t, u) == MayJoin(t, u) /\ Becomes(t, u, Outside, "member") /\ Keeps

AcceptGroupInvitation(t, u) ==
    MayJoin(t, u) /\ Becomes(t, u, {"invitation"}, "member") /\ Keeps

CreateGroupJoinRequest(t, u) ==
    MayJoin(t, u) /\ Becomes(t, u, {"none"}, "join_request") /\ Keeps

\* Mutant: the conditions that held when the request was made are not evaluated again.
AcceptJoinRequestAsMade(t, u) ==
    ~frozen[t] /\ ~Conflict(t, u) /\ Becomes(t, u, {"join_request"}, "member") /\ Keeps

AcceptJoinRequest(t, u) == MayJoin(t, u) /\ Becomes(t, u, {"join_request"}, "member") /\ Keeps

\* A join request is accepted, without a look at the entry conditions.
CreateGroupInvitation(t, u) ==
    /\ ~Conflict(t, u)
    /\ \/ Becomes(t, u, {"none"}, "invitation") /\ Keeps
       \/ Becomes(t, u, {"join_request"}, "member") /\ Loosens({t})

\* The entry conditions are checked as if the user was added.
LeaveGroup(t, u) ==
    /\ ~frozen[t]
    /\ StillSatisfied(t, Members(t) \cup {u})
    /\ Becomes(t, u, {"member", "leaving"}, "none")
    /\ Loosens({t})

CreateGroupLeaveRequest(t, u) == ~frozen[t] /\ Becomes(t, u, {"member"}, "leaving") /\ Keeps

AcceptLeaveRequest(t, u) ==
    /\ ~frozen[t]
    /\ StillSatisfied(t, Members(t) \ {u})
    /\ Becomes(t, u, {"leaving"}, "none")
    /\ Keeps

RemoveMember(t, u) == Becomes(t, u, {"member", "leaving"}, "none") /\ Loosens({t})

\* Withdrawn by one side or refused by the other.
EndRequest(t, u) ==
    /\ \/ Becomes(t, u, {"invitation", "join_request"}, "none")
       \/ Becomes(t, u, {"leaving"}, "member")
    /\ Keeps

\* Mutant: leave requests are forgotten.
RefusedOutside(l) == IF l \in Outside THEN "none" ELSE l

Refused(l) == IF l = "leaving" THEN "member" ELSE IF l \in Outside THEN "none" ELSE l

\* updateGroup: freezing refuses the pending requests.
SetFrozenMembership(t, value) ==
    /\ frozen[t] # value
    /\ frozen' = [frozen EXCEPT ![t] = value]
    /\ link' = IF value THEN [p \in Teams \X Users |->
                                IF p[1] = t THEN Refused(link[p]) ELSE link[p]]
               ELSE link
    /\ UNCHANGED <<era, window, multiple, part, startEra, loosened>>

(***************************************************************************)
(* Participations.                                                         *)
(***************************************************************************)
\* Mutant: only participations that are still open keep a member from another team.
ParticipatesElsewhereNow(t) ==
    \E u \in Members(t), s \in Teams \ {t} : u \in Members(s) /\ IsOpen(s)

\* attemptsViolationsFound
ParticipatesElsewhere(t) ==
    \E u \in Members(t), s \in Teams \ {t} :
        u \in Members(s) /\ part[s] # "none" /\ (IsOpen(s) \/ ~multiple)

TeamCanEnter(t) == era \in window[t]

IsReadyToEnter(t) ==
    /\ ~TeamCanEnter(t) =>
          /\ Cardinality(Members(t)) <= MaxTeamSize
          /\ RatioSatisfied(Cardinality(AdmittedAt(Members(t), era)), Cardinality(Members(t)))
    /\ FrozenTeams => frozen[t]
    /\ ~ParticipatesElsewhere(t)
    /\ part[t] # "none" => multiple

EnterAsTeam(t) ==
    /\ Members(t) # {}
    /\ ~IsOpen(t)
    /\ IsReadyToEnter(t)
    /\ part' = [part EXCEPT ![t] = "open"]
    /\ startEra' = [startEra EXCEPT ![t] = era]
    /\ loosened' = IF TeamCanEnter(t) THEN loosened \cup {t} ELSE loosened \ {t}
    /\ UNCHANGED <<era, window, multiple, link, frozen>>

Turns(t, from, to) ==
    /\ part[t] = from
    /\ part' = [part EXCEPT ![t] = to]
    /\ loosened' = IF to = "open" THEN loosened \cup {t} ELSE loosened \ {t}
    /\ UNCHANGED <<era, window, multiple, link, frozen, startEra>>

EndTeamAttempt(t) == Turns(t, "open", "ended")
TimeIsOver(t) == Turns(t, "open", "over")
ExtendTeamTime(t) == Turns(t, "over", "open")

UpdatePermissions(x, w) ==
    /\ window[x] # w
    /\ window' = [window EXCEPT ![x] = w]
    /\ Loosens({t \in Teams : x \in Members(t) /\ startEra[t] \in window[x] \ w})
    /\ UNCHANGED <<era, multiple, link, frozen, part, startEra>>

UpdateItem(value) ==
    /\ multiple # value
    /\ multiple' = value
    /\ UNCHANGED <<era, window, link, frozen, part, startEra, loosened>>

NextEra ==
    /\ era = 1
    /\ era' = 2
    /\ UNCHANGED <<window, multiple, link, frozen, part, startEra, loosened>>

TeamInit ==
    /\ era = 1
    /\ window = [x \in Users \cup Teams |-> {}]
    /\ multiple \in BOOLEAN
    /\ link = [p \in Teams \X Users |-> "none"]
    /\ frozen = [t \in Teams |-> FALSE]
    /\ part = [t \in Teams |-> "none"]
    /\ startEra = [t \in Teams |-> 1]
    /\ loosened = {}

TeamNext ==
    \/ \E t \in Teams, u \in Users :
          \/ JoinGroupByCode(t, u) \/ AcceptGroupInvitation(t, u)
          \/ CreateGroupJoinRequest(t, u) \/ AcceptJoinRequest(t, u)
          \/ CreateGroupInvitation(t, u)
          \/ LeaveGroup(t, u) \/ CreateGroupLeaveRequest(t, u) \/ AcceptLeaveRequest(t, u)
          \/ RemoveMember(t, u) \/ EndRequest(t, u)
    \/ \E t \in Teams :
          \/ \E value \in BOOLEAN : SetFrozenMembership(t, value)
          \/ EnterAsTeam(t) \/ EndTeamAttempt(t) \/ TimeIsOver(t) \/ ExtendTeamTime(t)
    \/ \E x \in Admittable, w \in Windows : UpdatePermissions(x, w)
    \/ \E value \in BOOLEAN : UpdateItem(value)
    \/ NextEra

TeamSpec == TeamInit /\ [][TeamNext]_teamVars

(***************************************************************************)
(* Properties.                                                             *)
(***************************************************************************)
Joins(t, u) == u \notin Members(t) /\ u \in Members(t)'
Enters(t) == ~IsOpen(t) /\ IsOpen(t)' /\ part[t] # "over"

\* No service lets a user in, and no team starts an attempt, when that user would take part
\* in the contest with another team as well ("ensure that the current user is not a member
\* of another team having attempts for the same contests").
NobodyJoinsTwoParticipations ==
    [][\A t \in Teams, u \in Users :
          Joins(t, u) \/ (Enters(t) /\ u \in Members(t)) => ~Conflict(t, u)']_teamVars

\* The team of an open participation satisfies the conditions it entered with, evaluated at
\* its started_at, whatever time it is: users come by code, by invitation and by requests made
\* before the entry or after it, members leave by request, managers freeze the team.  Excepted
\* are the participations of which the code promises nothing: entered by the team's own
\* permission, extended after the time was over (users come freely until then), or followed by
\* a removal, a leaveGroup (see LeavingKeepsEntryConditions), the loss of a member's permission
\* or an invitation to the author of a join request.
OpenTeamsKeepConditions ==
    \A t \in Teams \ loosened : StillSatisfied(t, Members(t))

\* leaveGroup: "If the group is a team and leaving breaks entry conditions of at least one of
\* the team's participations ..., the unprocessable entity error is returned."
LeavingKeepsEntryConditions ==
    [][\A t \in Teams, u \in Users :
          LeaveGroup(t, u) /\ StillSatisfied(t, Members(t)) => StillSatisfied(t, Members(t))']_teamVars
==============================================================================
