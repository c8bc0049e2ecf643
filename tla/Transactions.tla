---------------------------- MODULE Transactions ----------------------------
(***************************************************************************)
(* DataStore.InTransaction (app/database/data_store.go, db.go) over the    *)
(* wrappers of app/database: connections of a pool, row locks, deadlocks   *)
(* and lock wait timeouts that make the whole function run again, rollback *)
(* and commit that may fail, and, once committed, the propagation under a  *)
(* named lock that lives on a connection of its own.                       *)
(*                                                                         *)
(* The function of a caller increments the rows of Order[c] one statement  *)
(* at a time: a read with WithExclusiveWriteLock, which sees the committed *)
(* value, and a write that only the transaction sees.                      *)
(***************************************************************************)
EXTENDS Integers, Sequences, FiniteSets

CONSTANTS
  Callers,      \* calls of InTransaction
  Rows,         \* rows of the database
  Order,        \* caller -> the rows its function increments, in order
  Modes,        \* caller -> session modes its function sets, of AllModes
  Schedules,    \* callers whose function schedules a propagation
  Connections,  \* connections to MySQL
  RetriesLimit, \* transactionRetriesLimit
  NoConnection,
  NoCaller

\* SET FOREIGN_KEY_CHECKS = 0 and SetPropagationsModeToSync.
AllModes == {"no_foreign_keys", "sync"}

ASSUME TransactionsAssumption ==
  /\ RetriesLimit \in Nat
  /\ Schedules \subseteq Callers
  /\ Order \in [Callers -> Seq(Rows)] /\ Modes \in [Callers -> SUBSET AllModes]
  /\ NoConnection \notin Connections /\ NoCaller \notin Callers

VARIABLES
  value,    \* row -> its committed value
  written,  \* caller -> the values its transaction wrote, row -> value
  call,     \* caller -> [pc, count, done, conn, cause]
  session,  \* connection -> the modes its session is in
  holder,   \* the caller with the named lock of the propagation, or NoCaller
  applied,  \* history: callers that committed
  unpropagated, \* callers whose changes wait for a propagation
  reply,    \* caller -> what its call returned
  prohibits \* callers whose context prohibits the propagation

txVars == <<value, written, call, session, holder, applied, unpropagated, reply, prohibits>>

Nothing == [r \in {} |-> 0]

TxInit ==
  /\ value = [r \in Rows |-> 0]
  /\ written = [c \in Callers |-> Nothing]
  /\ call = [c \in Callers |-> [pc |-> "idle", count |-> 0, done |-> 0,
                                conn |-> NoConnection, cause |-> "none"]]
  /\ session = [k \in Connections |-> {}]
  /\ holder = NoCaller
  /\ applied = {} /\ unpropagated = {}
  /\ reply = [c \in Callers |-> "not_called"]
  /\ prohibits = {}

CallAt(c, pc) == call[c].pc = pc
InUse == {call[c].conn : c \in Callers}
Free == Connections \ InUse

\* The row the next statement of c locks, and whether another has it.
FunctionDone(c) == call[c].done = Len(Order[c])
NextRow(c) == Order[c][call[c].done + 1]
Holds(c) == DOMAIN written[c]
Blocks(d, c) == d # c /\ NextRow(c) \in Holds(d)
Waits(c) == CallAt(c, "function") /\ ~FunctionDone(c) /\ \E d \in Callers : Blocks(d, c)
WaitsFor(c, d) == Waits(c) /\ Blocks(d, c)

\* The call is over: its connection goes back to the pool or is closed.
Returns(c, answer) ==
  /\ call' = [call EXCEPT ![c].pc = "over", ![c].conn = NoConnection]
  /\ reply' = [reply EXCEPT ![c] = answer]

\* InTransaction is called, in a context that may prohibit the propagation.
InTransaction(c) ==
  /\ CallAt(c, "idle")
  /\ call' = [call EXCEPT ![c].pc = "begin"]
  /\ reply' = [reply EXCEPT ![c] = "none"]
  /\ prohibits' \in {prohibits, prohibits \union {c}}
  /\ UNCHANGED <<value, written, session, holder, applied, unpropagated>>

-----------------------------------------------------------------------------
(* inTransactionWithCount: one attempt.                                    *)

\* Mutant: the driver's own ResetSession, which leaves the session alone.
KeepSession(k) == session[k]

ResetSession(k) == {}

\* A connection of the pool is reset when it is taken; the function sets its
\* modes before anything else.
BeginTx(c) ==
  /\ CallAt(c, "begin")
  /\ \/ \E k \in Free :
          /\ call' = [call EXCEPT ![c].pc = "function", ![c].conn = k, ![c].done = 0,
                                  ![c].cause = "none"]
          /\ session' = [session EXCEPT ![k] = ResetSession(k) \union Modes[c]]
          /\ UNCHANGED reply
     \/ Returns(c, "error") /\ UNCHANGED session
  /\ UNCHANGED <<value, written, holder, applied, unpropagated, prohibits>>

ExecuteStatement(c) ==
  /\ CallAt(c, "function") /\ ~FunctionDone(c) /\ ~Waits(c)
  /\ LET r == NextRow(c)
         seen == IF r \in Holds(c) THEN written[c][r] ELSE value[r]
     IN written' = [written EXCEPT ![c] = [s \in Holds(c) \union {r} |->
                                             IF s = r THEN seen + 1 ELSE written[c][s]]]
  /\ call' = [call EXCEPT ![c].done = @ + 1]
  /\ UNCHANGED <<value, session, holder, applied, unpropagated, reply, prohibits>>

\* The deferred part of withForeignKeyChecksDisabled runs whenever the
\* function ends; nothing ends the synchronous mode.
Leaves(c, cause) ==
  /\ call' = [call EXCEPT ![c].pc = "rollback", ![c].cause = cause]
  /\ session' = [session EXCEPT ![call[c].conn] = @ \ {"no_foreign_keys"}]

\* InnoDB rolls the whole transaction of the victim back.
Deadlock(c) ==
  /\ \E d \in Callers : WaitsFor(c, d) /\ WaitsFor(d, c)
  /\ Leaves(c, "retryable")
  /\ written' = [written EXCEPT ![c] = Nothing]
  /\ UNCHANGED <<value, holder, applied, unpropagated, reply, prohibits>>

\* Only the statement is undone: what the transaction wrote stays, locked.
LockWaitTimeout(c) ==
  /\ Waits(c)
  /\ Leaves(c, "retryable")
  /\ UNCHANGED <<value, written, holder, applied, unpropagated, reply, prohibits>>

\* An error or a panic of the function itself.
FunctionFails(c) ==
  /\ CallAt(c, "function")
  /\ Leaves(c, "other")
  /\ UNCHANGED <<value, written, holder, applied, unpropagated, reply, prohibits>>

-----------------------------------------------------------------------------
(* The deferred function of inTransactionWithCount.                        *)

ReleaseRows(c) == written' = [written EXCEPT ![c] = Nothing]

\* Mutant: the limit is compared one attempt too late.
RetriesOnceMore(c) == call[c].cause = "retryable" /\ call[c].count <= RetriesLimit

\* handleDeadlockAndLockWaitTimeout.
Retries(c) == call[c].cause = "retryable" /\ call[c].count < RetriesLimit

\* Mutant: the function runs again in the transaction it was in.
RetryInPlace(c) ==
  /\ CallAt(c, "rollback")
  /\ IF Retries(c)
     THEN /\ call' = [call EXCEPT ![c].pc = "function", ![c].done = 0, ![c].count = @ + 1]
          /\ session' = [session EXCEPT ![call[c].conn] = Modes[c]]
          /\ UNCHANGED <<written, reply>>
     ELSE Returns(c, "error") /\ ReleaseRows(c) /\ UNCHANGED session
  /\ UNCHANGED <<value, holder, applied, unpropagated, prohibits>>

Rollback(c) ==
  /\ CallAt(c, "rollback")
  /\ ReleaseRows(c)
  /\ IF Retries(c)
     THEN /\ call' = [call EXCEPT ![c].pc = "begin", ![c].conn = NoConnection, ![c].count = @ + 1]
          /\ UNCHANGED reply
     ELSE Returns(c, "error")
  /\ UNCHANGED <<value, session, holder, applied, unpropagated, prohibits>>

\* The connection is broken or the context is cancelled: the connection is
\* closed, which rolls back, and the function is not run again.
RollbackFails(c) ==
  /\ CallAt(c, "rollback")
  /\ ReleaseRows(c) /\ Returns(c, "error")
  /\ session' = [session EXCEPT ![call[c].conn] = {}]
  /\ UNCHANGED <<value, holder, applied, unpropagated, prohibits>>

Install(c) ==
  /\ value' = [r \in Rows |-> IF r \in Holds(c) THEN written[c][r] ELSE value[r]]
  /\ applied' = applied \union {c}
  /\ unpropagated' = unpropagated \union ({c} \intersect Schedules)

Commit(c) ==
  /\ CallAt(c, "function") /\ FunctionDone(c)
  /\ Install(c) /\ ReleaseRows(c)
  /\ call' = [call EXCEPT ![c].pc = "committed", ![c].conn = NoConnection]
  /\ session' = [session EXCEPT ![call[c].conn] = @ \ {"no_foreign_keys"}]
  /\ UNCHANGED <<holder, reply, prohibits>>

\* COMMIT returns an error, which is not retried; the server may have
\* carried it out before the connection was lost.
CommitFails(c) ==
  /\ CallAt(c, "function") /\ FunctionDone(c)
  /\ Install(c) \/ UNCHANGED <<value, applied, unpropagated>>
  /\ ReleaseRows(c) /\ Returns(c, "error")
  /\ session' = [session EXCEPT ![call[c].conn] = {}]
  /\ UNCHANGED <<holder, prohibits>>

-----------------------------------------------------------------------------
(* InTransaction after the commit, and withNamedLock.                      *)

RunsPropagation(c) == c \in Schedules \ prohibits

ReturnNil(c) ==
  /\ CallAt(c, "committed") /\ ~RunsPropagation(c)
  /\ Returns(c, "ok")
  /\ UNCHANGED <<value, written, session, holder, applied, unpropagated, prohibits>>

\* GET_LOCK on a connection of its own; the propagation steps use others.
GetLock(c) ==
  /\ CallAt(c, "committed") /\ RunsPropagation(c)
  /\ holder = NoCaller
  /\ \E k \in Free :
       /\ call' = [call EXCEPT ![c].pc = "locked", ![c].conn = k]
       /\ session' = [session EXCEPT ![k] = ResetSession(k)]
  /\ holder' = c
  /\ UNCHANGED <<value, written, applied, unpropagated, reply, prohibits>>

\* ErrNamedLockWaitTimeoutExceeded: the caller gets an error although its
\* changes are committed, and the marks wait for another propagation.
GetLockTimesOut(c) ==
  /\ CallAt(c, "committed") /\ RunsPropagation(c)
  /\ holder # NoCaller
  /\ Returns(c, "error")
  /\ UNCHANGED <<value, written, session, holder, applied, unpropagated, prohibits>>

\* The propagation handles all the marks, or fails; RELEASE_LOCK, or the
\* closing of the connection when it fails, frees the lock either way.
PropagateAndRelease(c) ==
  /\ CallAt(c, "locked")
  /\ \/ unpropagated' = {} /\ call' = [call EXCEPT ![c].pc = "propagated", ![c].conn = NoConnection]
        /\ UNCHANGED reply
     \/ Returns(c, "error") /\ UNCHANGED unpropagated
  /\ holder' = NoCaller
  /\ UNCHANGED <<value, written, session, applied, prohibits>>

ReturnAfterPropagation(c) ==
  /\ CallAt(c, "propagated")
  /\ Returns(c, "ok")
  /\ UNCHANGED <<value, written, session, holder, applied, unpropagated, prohibits>>

\* The process dies: the server closes its connections.
ProcessDies(c) ==
  /\ call[c].pc \notin {"idle", "over"}
  /\ ReleaseRows(c) /\ Returns(c, "died")
  /\ session' = [k \in Connections |-> IF k = call[c].conn THEN {} ELSE session[k]]
  /\ holder' = IF holder = c THEN NoCaller ELSE holder
  /\ UNCHANGED <<value, applied, unpropagated, prohibits>>

-----------------------------------------------------------------------------
CallStep(c) ==
  \/ BeginTx(c) \/ ExecuteStatement(c) \/ Deadlock(c) \/ LockWaitTimeout(c)
  \/ FunctionFails(c) \/ Rollback(c) \/ RollbackFails(c) \/ Commit(c) \/ CommitFails(c)
  \/ ReturnNil(c) \/ GetLock(c) \/ GetLockTimesOut(c) \/ PropagateAndRelease(c)
  \/ ReturnAfterPropagation(c)

TxNext == \E c \in Callers : InTransaction(c) \/ CallStep(c) \/ ProcessDies(c)

\* Each call goes on by itself; nothing makes a process die.
TxFairness == \A c \in Callers : WF_txVars(CallStep(c))

TxSpec == TxInit /\ [][TxNext]_txVars /\ TxFairness

TxTypeOK ==
  /\ DOMAIN value = Rows /\ \A r \in Rows : value[r] \in Nat
  /\ \A c \in Callers :
       /\ DOMAIN written[c] \subseteq Rows
       /\ call[c].pc \in {"idle", "begin", "function", "rollback", "committed", "locked", "propagated", "over"}
       /\ call[c].count \in 0..RetriesLimit /\ call[c].done \in 0..Len(Order[c])
       /\ call[c].conn \in Connections \union {NoConnection}
       /\ reply[c] \in {"not_called", "none", "ok", "error", "died"}
  /\ session \in [Connections -> SUBSET AllModes]
  /\ holder \in Callers \union {NoCaller}
  /\ applied \subseteq Callers /\ unpropagated \subseteq applied /\ prohibits \subseteq Callers

\* A transaction runs in the modes its own function asked for: foreign keys
\* unchecked, or marks written to the tables of the synchronous propagation,
\* never carry over from the connection's last user (ResetSession of
\* mysql_connection_wrapper.go, withForeignKeyChecksDisabled of db.go).
ModesAreAsked ==
  \A c \in Callers : CallAt(c, "function") => session[call[c].conn] = Modes[c]

\* How often the first n statements of c increment row r.
Times(c, n, r) == Cardinality({i \in 1..n : Order[c][i] = r})

\* InTransaction is what AtomicTransactions promises: however deadlocks,
\* timeouts, retries, failing commits and deaths interleave, a call is
\* applied whole, at most once, before it is answered without an error.
Promise == INSTANCE AtomicTransactions
             WITH Adds <- [c \in Callers |-> [r \in Rows |-> Times(c, Len(Order[c]), r)]]

CallsAreAtomic == Promise!AtomicSpec
=============================================================================
