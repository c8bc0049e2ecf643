------------------------- MODULE ContestParticipation -------------------------
(***************************************************************************)
(* The time participants have in one timed contest (an item with           *)
(* requires_explicit_entry, a duration and a participants_group_id).       *)
(*                                                                         *)
(* A participation is an attempt whose root_item_id is the contest; it     *)
(* accepts answers until attempts.allows_submissions_until.  The same      *)
(* instant is kept in groups_groups.expires_at, the participant's          *)
(* membership of the participants' group, which gives it the access to the *)
(* contest.  Managers give groups additional time, also while participants *)
(* are at work and after their time is over.  Below a participation the    *)
(* participant may create attempts at the tasks of the contest.            *)
(*                                                                         *)
(* Every service locks the rows it reads, so each action is a transaction. *)
(* Whether a participant is admitted is left open (see TeamParticipation). *)
(* Participations are those made by enter: createAttempt at the contest    *)
(* itself, which the code does not exclude while the participant sees its  *)
(* content and the contest allows several attempts, is left out here (see  *)
(* ItemPaths).                                                             *)
(***************************************************************************)
EXTENDS Integers, Sequences, FiniteSetsExt

CONSTANTS
    Participants,           \* users or teams that may enter the contest
    Groups,                 \* groups that additional time is given to
    DescendantsOf,          \* participants below each group (groups_ancestors_active)
    Duration,               \* items.duration
    AllowsMultipleAttempts, \* items.allows_multiple_attempts
    Extras,                 \* values of additional_time considered
    NoExtra,                \* no groups_contest_items row for the group
    NULL,                   \* of ended_at and expires_at
    MaxTime,                \* bound on the instants considered
    MaxAttempts             \* bound on the attempts of a participant

ASSUME ContestConstants ==
    /\ IsFiniteSet(Groups)
    /\ DescendantsOf \in [Groups -> SUBSET Participants]
    /\ Duration \in Nat \ {0}
    /\ AllowsMultipleAttempts \in BOOLEAN
    /\ Extras \subseteq Int /\ NoExtra \notin Int /\ NULL \notin Int
    /\ MaxTime \in Nat /\ MaxAttempts \in Nat

Forever == 100 * (MaxTime + Duration + 1)    \* '9999-12-31 23:59:59'

VARIABLES
    now,        \* NOW()
    attempts,   \* per participant, its attempts but the implicit one; the id is the index
    expires,    \* per participant, expires_at of its row in the participants' group
    extra       \* per group, groups_contest_items.additional_time

contestVars == <<now, attempts, expires, extra>>

LeastOf(x, y) == IF x < y THEN x ELSE y

IsActive(a) == a.ended = NULL /\ now < a.until

IdsOf(p) == 1..Len(attempts[p])
Participations(p) == {i \in IdsOf(p) : attempts[p][i].item = "contest"}

\* The attempt and the attempts it was created under.
ChainOf(p, i) ==
    LET chain[j \in 0..Len(attempts[p])] ==
            IF j = 0 THEN {} ELSE {j} \cup chain[attempts[p][j].parent]
    IN  chain[i]

\* Mutant: the attempts below are forgotten.
AttemptAlone(p, i) == {i}

DescendantAttempts(p, i) == {j \in IdsOf(p) : i \in ChainOf(p, j)}

(***************************************************************************)
(* Additional time.                                                        *)
(***************************************************************************)
\* Groups above p (p included) that have a groups_contest_items row for the contest.
ExtraGroups(p, x) == {g \in Groups : p \in DescendantsOf[g] /\ x[g] # NoExtra}

TotalAdditionalTime(p, x) == MapThenSumSet(LAMBDA g : x[g], ExtraGroups(p, x))

(***************************************************************************)
(* Services.                                                               *)
(***************************************************************************)
IsStarted(p) == Participations(p) # {}
MayStillSubmit(p) == \E i \in Participations(p) : now < attempts[p][i].until

\* Mutant: a participation that is under way does not matter.
IsReadyAgain(p) == IsStarted(p) => AllowsMultipleAttempts

\* computeEntryState = ready, for a participant that is admitted.
IsReady(p) ==
    /\ ~(IsStarted(p) /\ MayStillSubmit(p))
    /\ IsStarted(p) => AllowsMultipleAttempts

NewAttempt(item, parent, until) ==
    [item |-> item, parent |-> parent, started |-> now, until |-> until, ended |-> NULL]

\* items/enter
Enter(p) ==
    LET until == now + Duration + TotalAdditionalTime(p, extra)
    IN  /\ Len(attempts[p]) < MaxAttempts
        /\ IsReady(p)
        /\ attempts' = [attempts EXCEPT ![p] = Append(@, NewAttempt("contest", 0, until))]
        /\ expires' = [expires EXCEPT ![p] = until]
        /\ UNCHANGED <<now, extra>>

\* items/create_attempt: at a task of the contest, or of another task's attempt.
CreateAttempt(p, parent) ==
    /\ Len(attempts[p]) < MaxAttempts
    /\ \A i \in ChainOf(p, parent) : IsActive(attempts[p][i])
    /\ attempts' = [attempts EXCEPT ![p] = Append(@, NewAttempt("task", parent, Forever))]
    /\ UNCHANGED <<now, expires, extra>>

\* ended_at = IFNULL(LEAST(NOW(), ended_at), NOW()), ended attempts being in the past.
Ended(a) == [a EXCEPT !.ended = IF @ = NULL THEN now ELSE @, !.until = LeastOf(now, @)]

\* items/end_attempt: with the attempts below it; participations expire.
EndAttempt(p, i) ==
    LET toUpdate == DescendantAttempts(p, i)
    IN  /\ IsActive(attempts[p][i])
        /\ attempts' = [attempts EXCEPT ![p] =
              [j \in IdsOf(p) |-> IF j \in toUpdate THEN Ended(@[j]) ELSE @[j]]]
        /\ expires' = IF toUpdate \cap Participations(p) = {} THEN expires
                      ELSE [expires EXCEPT ![p] = LeastOf(now, @)]
        /\ UNCHANGED <<now, extra>>

(***************************************************************************)
(* contests/set_additional_time                                            *)
(***************************************************************************)
\* A row that does not exist is not created for zero.
ExtraAfter(g, seconds) ==
    IF extra[g] = NoExtra /\ seconds = 0 THEN extra ELSE [extra EXCEPT ![g] = seconds]

NotEnded(p) == {i \in Participations(p) : attempts[p][i].ended = NULL}

\* Rows of new_expires_at: joins of the members of the participants' group.
Affected(g, x) ==
    {p \in DescendantsOf[g] : expires[p] # NULL /\ NotEnded(p) # {} /\ ExtraGroups(p, x) # {}}

FirstStart(p) == Min({attempts[p][i].started : i \in NotEnded(p)})

\* Mutant: the time left is counted from the instant of the change.
NewExpiresAtFromNow(p, x) ==
    now + Duration + Cardinality(NotEnded(p)) * TotalAdditionalTime(p, x)

\* The sum is over the rows of the join: one per attempt that is not ended and per group.
NewExpiresAt(p, x) ==
    FirstStart(p) + Duration + Cardinality(NotEnded(p)) * TotalAdditionalTime(p, x)

LatestAttempt(p) == Max(Participations(p))

\* Mutant: the participation moves only if it is active.
MovesIfActive(p, newExpiresAt) == now < attempts[p][LatestAttempt(p)].until

\* "if the participation is active or if the change makes it active"
Moves(p, newExpiresAt) ==
    now < newExpiresAt \/ now < attempts[p][LatestAttempt(p)].until

\* expires_at is always modified.
SetAdditionalTime(g, seconds) ==
    LET x == ExtraAfter(g, seconds)
        affected == Affected(g, x)
    IN  /\ extra' = x
        /\ expires' = [p \in Participants |->
              IF p \in affected THEN NewExpiresAt(p, x) ELSE expires[p]]
        /\ attempts' = [p \in Participants |->
              IF p \in affected /\ Moves(p, NewExpiresAt(p, x))
                THEN [attempts[p] EXCEPT ![LatestAttempt(p)].until = NewExpiresAt(p, x)]
                ELSE attempts[p]]
        /\ UNCHANGED now

Tick ==
    /\ now < MaxTime
    /\ now' = now + 1
    /\ UNCHANGED <<attempts, expires, extra>>

ContestInit ==
    /\ now = 1
    /\ attempts = [p \in Participants |-> <<>>]
    /\ expires = [p \in Participants |-> NULL]
    /\ extra = [g \in Groups |-> NoExtra]

ContestNext ==
    \/ \E p \in Participants :
          \/ Enter(p)
          \/ \E i \in IdsOf(p) : CreateAttempt(p, i) \/ EndAttempt(p, i)
    \/ \E g \in Groups, seconds \in Extras : SetAdditionalTime(g, seconds)
    \/ Tick

ContestSpec == ContestInit /\ [][ContestNext]_contestVars

(***************************************************************************)
(* Properties.                                                             *)
(***************************************************************************)
\* setAdditionalTimeForGroupInContest: "We are assuming here that a participant has only
\* at most one ongoing participation at a moment."
AtMostOneOngoingParticipation ==
    \A p \in Participants :
        Cardinality({i \in Participations(p) : IsActive(attempts[p][i])}) <= 1

\* No participation but the latest was left to run out of time.
EarlierOnesAreEnded(p) == \A i \in NotEnded(p) : i = LatestAttempt(p)

HasItsTime(p) ==
    \A i \in Participations(p) : IsActive(attempts[p][i]) =>
        attempts[p][i].until = attempts[p][i].started + Duration + TotalAdditionalTime(p, extra)

\* setAdditionalTime: allows_submissions_until "is set to results.started_at +
\* items.duration + total additional time", whenever and however often the time changes.
RunningAttemptHasItsTime == \A p \in Participants : HasItsTime(p)

\* The same, for participants whose earlier participations were ended.
OnlyOpenAttemptHasItsTime == \A p \in Participants : EarlierOnesAreEnded(p) => HasItsTime(p)

\* A participant is in the participants' group exactly while one of its participations is
\* active: enter, endAttempt and setAdditionalTime move the two instants together.
MembershipFollowsParticipation ==
    \A p \in Participants : EarlierOnesAreEnded(p) =>
        (expires[p] # NULL /\ now < expires[p] <=> \E i \in Participations(p) : IsActive(attempts[p][i]))

\* endAttempt ends "this and descendant attempts", and nothing reopens them or is created
\* below them afterwards.
EndedStaysClosed ==
    \A p \in Participants : EarlierOnesAreEnded(p) =>
        \A j \in IdsOf(p) : (\E i \in ChainOf(p, j) : attempts[p][i].ended # NULL) =>
            attempts[p][j].ended # NULL /\ attempts[p][j].until <= now
===============================================================================
