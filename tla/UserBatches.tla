----------------------------- MODULE UserBatches -----------------------------
(***************************************************************************)
(* Batches of users of one group prefix: createUserBatch and               *)
(* removeUserBatch (app/api/groups), which keep three places in step: the  *)
(* rows of user_batches, the users of the login module, and the users      *)
(* here.  No transaction spans them; each call may fail before or after    *)
(* its effect, the process may die between two of them, and requests       *)
(* overlap.  History variables name what each accident leaves behind.      *)
(***************************************************************************)
EXTENDS Integers, FiniteSetsExt

CONSTANTS
  Prefixes,      \* custom prefixes
  Sizes,         \* numbers of users asked for
  MaxUsers,      \* user_batch_prefixes.max_users
  PostfixLength, \* postfix_length of the requests
  BatchRequests, \* requests in progress at the same time
  MaxBatchCalls, \* bound on the requests
  NoBatch

ASSUME BatchesAssumption ==
  /\ IsFiniteSet(Prefixes) /\ Sizes \subseteq Nat /\ NoBatch \notin Sizes
  /\ PostfixLength \in Nat /\ MaxUsers \in Nat /\ MaxBatchCalls \in Nat

VARIABLES
  batches,       \* custom prefix -> size of its row in user_batches, or NoBatch
  remoteUsers,   \* prefixes with users in the login module
  localUsers,    \* custom prefix -> number of its users here
  batchRequest,  \* per request, where it is, its prefix and size
  lockedMembers, \* a user of a batch approved a membership lock of some group
  lockedGroups,  \* some group the caller does not manage has a lock in force
  batchCalls,    \* requests made
  interrupted,   \* prefixes whose row is there, but a request stopped half-way with
  orphaned,      \* prefixes that may have users in the login module without a row
  rowless,       \* prefixes with users here and in the login module without a row
  clashed,       \* prefixes removed while another request was at work on them
  behind,        \* requests that do not count a row inserted since they read the sum
  raced          \* prefixes whose row was inserted by such a request

tables == <<batches, remoteUsers, localUsers>>
locks == <<lockedMembers, lockedGroups>>
accidents == <<interrupted, orphaned, rowless>>
races == <<clashed, behind, raced>>
batchVars == <<tables, batchRequest, locks, batchCalls, accidents, races>>

NoRequest == [pc |-> "idle"]
Stored == {p \in Prefixes : batches[p] # NoBatch}
SizeOf(S) == MapThenSumSet(LAMBDA p : batches[p], S)
SumSize == SizeOf(Stored)

BatchesInit ==
  /\ batches = [p \in Prefixes |-> NoBatch]
  /\ remoteUsers = {} /\ localUsers = [p \in Prefixes |-> 0]
  /\ batchRequest = [r \in BatchRequests |-> NoRequest]
  /\ lockedMembers \in BOOLEAN /\ lockedGroups \in BOOLEAN
  /\ batchCalls = 0
  /\ interrupted = {} /\ orphaned = {} /\ rowless = {}
  /\ clashed = {} /\ behind = {} /\ raced = {}

AtStep(r, pc) == batchRequest[r].pc = pc
Of(r) == batchRequest[r].prefix
Proceed(r, pc) == batchRequest' = [batchRequest EXCEPT ![r].pc = pc]
Done(r) == batchRequest' = [batchRequest EXCEPT ![r] = NoRequest]

\* The request works on the prefix, whose row it found or inserted.
WorksOn(r, p) == ~AtStep(r, "idle") /\ ~AtStep(r, "insert") /\ Of(r) = p

-----------------------------------------------------------------------------
(* createUserBatch.                                                        *)

\* 32^postfix_length is greater than twice the number of users.
PostfixSuffices(size) == 32 ^ PostfixLength > 2 * size

\* Mutant: the batches that exist are not counted.
AloneWithinMaximum(size) == size <= MaxUsers

WithinMaximum(size) == size + SumSize <= MaxUsers

CheckCreateUserBatch(r, p, size) ==
  /\ batchRequest[r] = NoRequest /\ batchCalls < MaxBatchCalls
  /\ PostfixSuffices(size) /\ WithinMaximum(size)
  /\ batchRequest' = [batchRequest EXCEPT ![r] = [pc |-> "insert", prefix |-> p, size |-> size]]
  /\ batchCalls' = batchCalls + 1
  /\ behind' = behind \ {r}
  /\ UNCHANGED <<tables, locks, accidents, clashed, raced>>

\* A row with the prefix makes the insertion fail.  The sum is not read again.
InsertBatch(r) ==
  /\ AtStep(r, "insert")
  /\ IF Of(r) \in Stored THEN Done(r) /\ UNCHANGED <<batches, behind, raced>>
     ELSE /\ Proceed(r, "create_users")
          /\ batches' = [batches EXCEPT ![Of(r)] = batchRequest[r].size]
          /\ raced' = IF r \in behind THEN raced \union {Of(r)} ELSE raced \ {Of(r)}
          /\ behind' = behind \union {s \in BatchRequests \ {r} : AtStep(s, "insert")}
  /\ UNCHANGED <<remoteUsers, localUsers, locks, batchCalls, accidents, clashed>>

\* CreateUsers of the login module.  It fails without creating users, or after it created them
\* (an answer lost or not understood); if the users in an answer of success cannot be decoded,
\* the request ends before the function that would delete the row is deferred.
CreateRemoteUsers(r) ==
  /\ AtStep(r, "create_users")
  /\ \/ /\ remoteUsers' = remoteUsers \union {Of(r)}
        /\ \/ Proceed(r, "create_local") /\ UNCHANGED accidents
           \/ Proceed(r, "undo") /\ orphaned' = orphaned \union {Of(r)} /\ UNCHANGED <<interrupted, rowless>>
           \/ Done(r) /\ interrupted' = interrupted \union {Of(r)} /\ UNCHANGED <<orphaned, rowless>>
     \/ Proceed(r, "undo") /\ UNCHANGED <<remoteUsers, accidents>>
  /\ UNCHANGED <<batches, localUsers, locks, batchCalls, races>>

\* createBatchUsersInDB: one transaction, whose error comes before the COMMIT or after it is
\* applied, and the response, which may fail to be rendered.
CreateLocalUsers(r) ==
  /\ AtStep(r, "create_local")
  /\ \/ /\ localUsers' = [localUsers EXCEPT ![Of(r)] = @ + batchRequest[r].size]
        /\ \/ Done(r) /\ UNCHANGED rowless
           \/ Proceed(r, "undo") /\ rowless' = rowless \union {Of(r)}
        /\ UNCHANGED orphaned
     \/ /\ orphaned' = orphaned \union {Of(r)}
        /\ Proceed(r, "undo") /\ UNCHANGED <<localUsers, rowless>>
  /\ UNCHANGED <<batches, remoteUsers, locks, batchCalls, interrupted, races>>

\* The deferred function deletes the row by its prefixes.
UndoBatch(r) ==
  /\ AtStep(r, "undo")
  /\ batches' = [batches EXCEPT ![Of(r)] = NoBatch]
  /\ Done(r)
  /\ UNCHANGED <<remoteUsers, localUsers, locks, batchCalls, accidents, races>>

-----------------------------------------------------------------------------
(* removeUserBatch.                                                        *)

\* "There should not be users with locked membership in the groups the current
\* user cannot manage"; the join puts no condition between the membership and
\* the group, so a lock anywhere counts.
RefusedByLock == lockedMembers /\ lockedGroups

CheckRemoveUserBatch(r, p) ==
  /\ batchRequest[r] = NoRequest /\ batchCalls < MaxBatchCalls
  /\ p \in Stored
  /\ ~(RefusedByLock /\ localUsers[p] > 0)
  /\ batchRequest' = [batchRequest EXCEPT ![r] = [pc |-> "delete_users", prefix |-> p]]
  /\ batchCalls' = batchCalls + 1
  /\ clashed' = IF \E s \in BatchRequests : WorksOn(s, p) THEN clashed \union {p} ELSE clashed
  /\ UNCHANGED <<tables, locks, accidents, behind, raced>>

\* DeleteUsers of the login module; its answer may be lost after it deleted them.
DeleteRemoteUsers(r) ==
  /\ AtStep(r, "delete_users")
  /\ \/ /\ remoteUsers' = remoteUsers \ {Of(r)} /\ orphaned' = orphaned \ {Of(r)}
        /\ \/ Proceed(r, "delete_local") /\ UNCHANGED interrupted
           \/ Done(r) /\ interrupted' = interrupted \union {Of(r)}
     \/ Done(r) /\ UNCHANGED <<remoteUsers, orphaned, interrupted>>
  /\ UNCHANGED <<batches, localUsers, locks, batchCalls, rowless, races>>

\* DeleteWithTrapsByScope on the logins that start with the prefixes, in transactions of a
\* number of users each: it may stop after some of them.
DeleteLocalUsers(r) ==
  /\ AtStep(r, "delete_local")
  /\ \/ /\ localUsers' = [localUsers EXCEPT ![Of(r)] = 0]
        /\ Proceed(r, "delete_row") /\ UNCHANGED interrupted
     \/ /\ \E left \in 0..localUsers[Of(r)] : localUsers' = [localUsers EXCEPT ![Of(r)] = left]
        /\ Done(r) /\ interrupted' = interrupted \union {Of(r)}
  /\ UNCHANGED <<batches, remoteUsers, locks, batchCalls, orphaned, rowless, races>>

DeleteBatchRow(r) ==
  /\ AtStep(r, "delete_row")
  /\ batches' = [batches EXCEPT ![Of(r)] = NoBatch]
  /\ Done(r)
  /\ interrupted' = interrupted \ {Of(r)} /\ rowless' = rowless \ {Of(r)}
  /\ UNCHANGED <<remoteUsers, localUsers, locks, batchCalls, orphaned, races>>

\* The process dies, or the request is aborted.
BatchRequestDies(r) ==
  /\ batchRequest[r] # NoRequest
  /\ Done(r)
  /\ interrupted' = IF AtStep(r, "insert") THEN interrupted ELSE interrupted \union {Of(r)}
  /\ UNCHANGED <<tables, locks, batchCalls, orphaned, rowless, races>>

BatchesNext ==
  \E r \in BatchRequests :
    \/ \E p \in Prefixes, size \in Sizes : CheckCreateUserBatch(r, p, size)
    \/ InsertBatch(r)
    \/ CreateRemoteUsers(r)
    \/ CreateLocalUsers(r)
    \/ UndoBatch(r)
    \/ \E p \in Prefixes : CheckRemoveUserBatch(r, p)
    \/ DeleteRemoteUsers(r)
    \/ DeleteLocalUsers(r)
    \/ DeleteBatchRow(r)
    \/ BatchRequestDies(r)

BatchesSpec == BatchesInit /\ [][BatchesNext]_batchVars

-----------------------------------------------------------------------------
BatchesTypeOK ==
  /\ batches \in [Prefixes -> Sizes \union {NoBatch}]
  /\ localUsers \in [Prefixes -> Nat]
  /\ remoteUsers \subseteq Prefixes /\ interrupted \subseteq Prefixes /\ orphaned \subseteq Prefixes
  /\ rowless \subseteq Prefixes
  /\ batchCalls \in 0..MaxBatchCalls
  /\ \A r \in BatchRequests : batchRequest[r] = NoRequest \/ batchRequest[r].prefix \in Prefixes

Quiescent == \A r \in BatchRequests : batchRequest[r] = NoRequest

\* What is there of a prefix with no request at work on it: a row that no accident touched has
\* exactly its users, here and in the login module; a row left half-way is there, so that
\* removeUserBatch finds it; users without a row are here only after an error that followed the
\* applied COMMIT or a failing response, and in the login module only after a failed creation.
Settled(p) ==
  /\ p \in Stored \ (interrupted \union rowless) => localUsers[p] = batches[p] /\ p \in remoteUsers
  /\ p \in interrupted => p \in Stored
  /\ p \notin Stored /\ localUsers[p] > 0 => p \in rowless
  /\ p \in remoteUsers \ Stored => p \in orphaned \union rowless

\* createUserBatch and removeUserBatch, whatever fails before or after its effect and whatever
\* overlaps: when no request is in progress, the batches stay within max_users together, except
\* those whose insertion another one overtook; and the row, the users here and those of the
\* login module agree, except for a prefix removed while another request was at work on it.
BatchesMatchUsers ==
  Quiescent =>
    /\ SizeOf(Stored \ raced) <= MaxUsers
    /\ \A p \in Prefixes \ clashed : Settled(p)
=============================================================================
