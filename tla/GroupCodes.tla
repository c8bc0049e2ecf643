----------------------------- MODULE GroupCodes -----------------------------
(***************************************************************************)
(* The managers of one group and its code (app/api/groups, and             *)
(* joinGroupByCode of app/api/currentuser).  createCode and removeCode     *)
(* check the caller's rights before the statement that changes the group;  *)
(* the first attempt to join by a code that passes the checks fixes when   *)
(* the code expires, and checkCode tells users in advance what             *)
(* joinGroupByCode will do.                                                *)
(***************************************************************************)
EXTENDS Integers, FiniteSets

CONSTANTS
  People,      \* users
  TempPeople,  \* those with temporary accounts
  Codes,       \* values the generator can draw
  TakenCodes,  \* codes of other groups
  Lifetimes,   \* values of code_lifetime, with Null
  LastMoment,  \* bound on time
  GroupIsTeam, \* the group's type is Team
  MaxMembers,  \* max_participants, enforced
  Null

ASSUME CodesAssumption ==
  /\ TempPeople \subseteq People /\ TakenCodes \subseteq Codes
  /\ Lifetimes \subseteq Nat \cup {Null} /\ LastMoment \in Nat /\ MaxMembers \in Nat
  /\ GroupIsTeam \in BOOLEAN /\ Null \notin Nat \cup [at : Nat, lifetime : Nat]

VARIABLES
  canManage,     \* user -> can_manage_value of its row in group_managers, 0 without a row
  code,          \* groups.code
  codeLifetime,  \* groups.code_lifetime
  codeExpiresAt, \* groups.code_expires_at
  frozen,        \* groups.frozen_membership
  groupMembers,  \* users in the group
  teamRefuses,   \* users that the checks for teams refuse
  codeChange,    \* the change of the code whose caller's rights were checked
  codeClock,       \* NOW()
  promised,      \* history: the first attempt to join since a manager last wrote
                 \* code_expires_at, its time and the lifetime then, or Null
  lastUse,       \* history: when a user last joined by the code
  managed        \* history: code_expires_at was left non-null by updateGroup

codeVars == <<canManage, code, codeLifetime, codeExpiresAt, frozen, groupMembers, teamRefuses,
              codeChange, codeClock, promised, lastUse, managed>>

groupState == <<code, codeLifetime, codeExpiresAt, frozen, groupMembers>>
useHistory == <<promised, lastUse, managed>>

Memberships == 2
MembershipsAndGroup == 3

CodesInit ==
  /\ \E boss \in People \ TempPeople :
       canManage = [p \in People |-> IF p = boss THEN MembershipsAndGroup ELSE 0]
  /\ code = Null /\ codeLifetime \in Lifetimes /\ codeExpiresAt = Null /\ frozen = FALSE
  /\ groupMembers = {} /\ teamRefuses = {} /\ codeChange = Null /\ codeClock = 0
  /\ promised = Null /\ lastUse = Null /\ managed = FALSE

-----------------------------------------------------------------------------
(* Managers.  The rows are read and written in one transaction, under lock.*)

CreateGroupManager(p, q, level) ==
  /\ canManage[p] = MembershipsAndGroup /\ canManage[q] = 0
  /\ canManage' = [canManage EXCEPT ![q] = level]
  /\ UNCHANGED <<groupState, useHistory, teamRefuses, codeChange, codeClock>>

UpdateGroupManager(p, q, level) ==
  /\ canManage[p] = MembershipsAndGroup /\ canManage[q] # 0
  /\ canManage' = [canManage EXCEPT ![q] = level]
  /\ UNCHANGED <<groupState, useHistory, teamRefuses, codeChange, codeClock>>

\* A manager may also remove itself, the last one too.
RemoveGroupManager(p, q) ==
  /\ canManage[q] # 0 /\ (p = q \/ canManage[p] = MembershipsAndGroup)
  /\ canManage' = [canManage EXCEPT ![q] = 0]
  /\ UNCHANGED <<groupState, useHistory, teamRefuses, codeChange, codeClock>>

-----------------------------------------------------------------------------
(* The code.                                                               *)

\* createCode and removeCode check the rights on their own.
CheckManagesMemberships(p, change) ==
  /\ codeChange = Null /\ canManage[p] >= Memberships
  /\ codeChange' = change
  /\ UNCHANGED <<groupState, useHistory, canManage, teamRefuses, codeClock>>

\* The unique index refuses the codes of other groups; the generator draws again.
FreshCodes == Codes \ TakenCodes

\* The new code keeps the end of the old one.
CreateCode ==
  /\ codeChange = "create"
  /\ code' \in FreshCodes
  /\ codeChange' = Null
  /\ UNCHANGED <<canManage, codeLifetime, codeExpiresAt, frozen, groupMembers, teamRefuses,
                 codeClock, useHistory>>

\* "The code generator is broken": three draws in a row were taken.
CreateCodeFails ==
  /\ codeChange = "create" /\ TakenCodes # {}
  /\ codeChange' = Null
  /\ UNCHANGED <<groupState, useHistory, canManage, teamRefuses, codeClock>>

RemoveCode ==
  /\ codeChange = "remove"
  /\ code' = Null /\ codeChange' = Null
  /\ UNCHANGED <<canManage, codeLifetime, codeExpiresAt, frozen, groupMembers, teamRefuses,
                 codeClock, useHistory>>

\* updateGroup writes the fields the request gives, and no others.
CodeFields == {"code_lifetime", "code_expires_at"}

UpdateGroupCode(p, fields, lifetime, expires) ==
  /\ canManage[p] >= Memberships
  /\ codeLifetime' = IF "code_lifetime" \in fields THEN lifetime ELSE codeLifetime
  /\ IF "code_expires_at" \in fields
     THEN /\ codeExpiresAt' = expires
          /\ managed' = (expires # Null) /\ promised' = Null /\ lastUse' = Null
     ELSE UNCHANGED <<codeExpiresAt, useHistory>>
  /\ UNCHANGED <<canManage, code, frozen, groupMembers, teamRefuses, codeChange, codeClock>>

\* updateGroup with frozen_membership, which can only be set.
FreezeMembership(p) ==
  /\ canManage[p] >= Memberships /\ ~frozen /\ frozen' = TRUE
  /\ UNCHANGED <<canManage, code, codeLifetime, codeExpiresAt, groupMembers, teamRefuses,
                 codeChange, codeClock, useHistory>>

-----------------------------------------------------------------------------
(* Joining.                                                                *)

\* GetGroupJoiningByCodeInfoByCode finds the group.
FoundByCode(c) == code = c /\ (codeExpiresAt # Null => codeClock < codeExpiresAt)

\* Mutant: frozen_membership is not looked at.
CheckCodeUnfrozen(p, c) ==
  FoundByCode(c) /\ p \notin groupMembers /\ ~(GroupIsTeam /\ p \in teamRefuses)

\* checkCode, for a user that is not temporary.
checkGroupCodeForUser(p, c) ==
  FoundByCode(c) /\ ~frozen /\ p \notin groupMembers /\ ~(GroupIsTeam /\ p \in teamRefuses)

\* The checks of joinGroupByCode before the transition.
MayUseCode(p, c) ==
  p \notin TempPeople /\ FoundByCode(c) /\ ~frozen /\ ~(GroupIsTeam /\ p \in teamRefuses)

\* The transition makes the user a member, given the approvals and a free place.
BecomesMember(p, approved) ==
  approved /\ p \notin groupMembers /\ Cardinality(groupMembers) < MaxMembers

\* Mutant: every use moves the end of the code.
ExpiryAtEveryUse == IF codeLifetime # Null THEN codeClock + codeLifetime ELSE codeExpiresAt

\* code_expires_at after a use: fixed by the first one.
ExpiryAtUse ==
  IF codeExpiresAt = Null /\ codeLifetime # Null THEN codeClock + codeLifetime ELSE codeExpiresAt

\* joinGroupByCode commits in each case: a user without the approvals starts
\* the lifetime of the code too.
JoinByCode(p, c, approved) ==
  /\ MayUseCode(p, c)
  /\ codeExpiresAt' = ExpiryAtUse
  /\ IF BecomesMember(p, approved)
     THEN /\ groupMembers' = groupMembers \cup {p}
          /\ lastUse' = codeClock
     ELSE UNCHANGED <<groupMembers, lastUse>>
  /\ promised' = IF promised = Null /\ codeLifetime # Null
                 THEN [at |-> codeClock, lifetime |-> codeLifetime] ELSE promised
  /\ UNCHANGED <<canManage, code, codeLifetime, frozen, teamRefuses, codeChange, codeClock, managed>>

\* Members leave; what teams take part in changes; time passes.
LeaveTheGroup(p) ==
  /\ p \in groupMembers /\ groupMembers' = groupMembers \ {p}
  /\ UNCHANGED <<canManage, code, codeLifetime, codeExpiresAt, frozen, teamRefuses, codeChange,
                 codeClock, useHistory>>

ChangeTeams(p) ==
  /\ GroupIsTeam
  /\ teamRefuses' \in {teamRefuses \cup {p}, teamRefuses \ {p}}
  /\ UNCHANGED <<groupState, useHistory, canManage, codeChange, codeClock>>

MomentPasses ==
  /\ codeClock < LastMoment /\ codeClock' = codeClock + 1
  /\ UNCHANGED <<groupState, useHistory, canManage, teamRefuses, codeChange>>

CodesNext ==
  \/ \E p \in People :
       \/ \E q \in People, level \in 1..3 : \/ CreateGroupManager(p, q, level)
                                            \/ UpdateGroupManager(p, q, level)
       \/ \E q \in People : RemoveGroupManager(p, q)
       \/ \E change \in {"create", "remove"} : CheckManagesMemberships(p, change)
       \/ \E fields \in SUBSET CodeFields \ {{}}, lifetime \in Lifetimes, expires \in {Null, LastMoment} :
            UpdateGroupCode(p, fields, lifetime, expires)
       \/ FreezeMembership(p) \/ LeaveTheGroup(p) \/ ChangeTeams(p)
       \/ \E c \in Codes, approved \in BOOLEAN : JoinByCode(p, c, approved)
  \/ CreateCode \/ CreateCodeFails \/ RemoveCode \/ MomentPasses

CodesSpec == CodesInit /\ [][CodesNext]_codeVars

-----------------------------------------------------------------------------

CodesTypeOK ==
  /\ canManage \in [People -> 0..3]
  /\ code \in FreshCodes \cup {Null} /\ codeLifetime \in Lifetimes
  /\ codeExpiresAt \in Nat \cup {Null} /\ frozen \in BOOLEAN
  /\ groupMembers \subseteq People \ TempPeople /\ teamRefuses \subseteq People
  /\ codeChange \in {"create", "remove", Null} /\ codeClock \in 0..LastMoment
  /\ promised \in [at : 0..LastMoment, lifetime : Nat] \cup {Null}
  /\ lastUse \in 0..LastMoment \cup {Null} /\ managed \in BOOLEAN

\* Unless a manager writes code_expires_at, the first attempt to join while a
\* lifetime is set ends the code that much later, whichever managers replace
\* the code or change its lifetime, users leave and come back, or attempts
\* fail in between (joinGroupByCode, createCode, updateGroup): nobody joins
\* after that end, and no code is refused as expired before it.  A code made
\* after the first attempt has the end of the one it replaces.
CodeExpiresAfterItsLifetime ==
  LET Over(t) == promised # Null /\ t >= promised.at + promised.lifetime IN
  ~managed =>
    /\ promised # Null /\ lastUse # Null => lastUse <= promised.at \/ ~Over(lastUse)
    /\ code # Null /\ ~FoundByCode(code) => Over(codeClock)

\* checkCode answers true exactly for the users whom joinGroupByCode would
\* make members if they gave the approvals and a place were free.
CodeCheckAgreesWithJoin ==
  \A p \in People \ TempPeople, c \in Codes :
    Cardinality(groupMembers) < MaxMembers =>
      (checkGroupCodeForUser(p, c) <=> MayUseCode(p, c) /\ BecomesMember(p, TRUE))

=============================================================================
