-------------------------- MODULE PropagationProofs ---------------------------
(***************************************************************************)
(* Proofs about the models that MCPropagation composes.                    *)
(*                                                                         *)
(* Transactions, for any calls, functions, connections and retries: its    *)
(* types, the modes of its sessions, and that every step is a step of      *)
(* AtomicTransactions or changes nothing a caller can see.                 *)
(*                                                                         *)
(* ItemPaths, for any items, links without a cycle and attempts: its three *)
(* queries agree.                                                          *)
(***************************************************************************)
EXTENDS MCPropagation, ResultsProofs, TLAPS

(***************************************************************************)
(* Transactions.                                                           *)
(***************************************************************************)
Pcs == {"idle", "begin", "function", "rollback", "committed", "locked", "propagated", "over"}
Causes == {"none", "retryable", "other"}
Answers == {"ok", "error", "died"}
CallRecord == [pc : Pcs, count : 0..RetriesLimit, done : Nat,
               conn : Connections \union {NoConnection}, cause : Causes]

\* What the statements of c so far leave in its transaction.
DoneRows(c) == {Order[c][i] : i \in 1..call[c].done}
Statements(c) == [r \in DoneRows(c) |-> value[r] + Times(c, call[c].done, r)]

-------------------------------------------------------------------------------
(* The inductive invariant.                                                *)

Types ==
  /\ value \in [Rows -> Nat]
  /\ DOMAIN written = Callers
  /\ call \in [Callers -> CallRecord]
  /\ \A c \in Callers : call[c].done <= Len(Order[c])
  /\ session \in [Connections -> SUBSET AllModes]
  /\ holder \in Callers \union {NoCaller}
  /\ applied \subseteq Callers
  /\ unpropagated \subseteq applied \intersect Schedules
  /\ reply \in [Callers -> {"not_called", "none"} \union Answers]
  /\ prohibits \subseteq Callers

\* A connection is held in the phases that need one, and by one call.
ConnectionsHeld ==
  /\ \A c \in Callers : call[c].conn # NoConnection <=> call[c].pc \in {"function", "rollback", "locked"}
  /\ \A c, d \in Callers : call[c].conn = call[d].conn /\ call[c].conn # NoConnection => c = d

\* A transaction has written what its statements say over the committed
\* values, and has these rows for itself.
WritesAreStatements ==
  \A c \in Callers :
    /\ CallAt(c, "function") => written[c] = Statements(c)
    /\ CallAt(c, "rollback") => written[c] \in {Nothing, Statements(c)}
    /\ call[c].pc \notin {"function", "rollback"} => written[c] = Nothing

RowsAreExclusive == \A c, d \in Callers : c # d => Holds(c) \intersect Holds(d) = {}

\* What the callers were told, and what was applied, go with the phase.
RepliesFollow ==
  \A c \in Callers :
    /\ CallAt(c, "idle") <=> reply[c] = "not_called"
    /\ CallAt(c, "over") <=> reply[c] \in Answers

AppliedFollows ==
  \A c \in Callers :
    /\ call[c].pc \in {"idle", "begin", "function", "rollback"} => c \notin applied
    /\ call[c].pc \in {"committed", "locked", "propagated"} => c \in applied
    /\ CallAt(c, "propagated") => c \notin unpropagated

Inv == /\ Types /\ ConnectionsHeld /\ WritesAreStatements /\ RowsAreExclusive
       /\ RepliesFollow /\ AppliedFollows /\ ModesAreAsked

Step(c) == InTransaction(c) \/ CallStep(c) \/ ProcessDies(c)
-------------------------------------------------------------------------------
\* No statement has incremented a row before the first one.
LEMMA TimesAtFirst == \A c, r : Times(c, 0, r) = 0
<1> SUFFICES ASSUME NEW c, NEW r PROVE Times(c, 0, r) = 0
  OBVIOUS
<1>1. {i \in 1..0 : Order[c][i] = r} = {}
  OBVIOUS
<1> QED
  BY <1>1, FS_EmptySet DEF Times

\* The next statement increments the row it is for, and no other.
LEMMA TimesNext ==
  ASSUME NEW c, NEW n \in Nat, NEW r
  PROVE  /\ Times(c, n, r) \in Nat
         /\ Times(c, n + 1, r) = Times(c, n, r) + (IF Order[c][n + 1] = r THEN 1 ELSE 0)
<1> DEFINE Earlier == {i \in 1..n : Order[c][i] = r}
           After == {i \in 1..(n + 1) : Order[c][i] = r}
<1>1. IsFiniteSet(Earlier) /\ Cardinality(Earlier) \in Nat
  <2>1. IsFiniteSet(1..n)
    BY FS_Interval
  <2>2. Earlier \in SUBSET (1..n)
    OBVIOUS
  <2> QED
    BY <2>1, <2>2, FS_Subset, FS_CardinalityType
<1>2. CASE Order[c][n + 1] = r
  <2>1. After = Earlier \union {n + 1} /\ n + 1 \notin Earlier
    BY <1>2
  <2> QED
    BY <1>1, <1>2, <2>1, FS_AddElement DEF Times
<1>3. CASE Order[c][n + 1] # r
  <2>1. After = Earlier
    BY <1>3
  <2> QED
    BY <1>1, <1>3, <2>1 DEF Times
<1> QED
  BY <1>2, <1>3

\* A transaction that has done all its statements has written the row of each with what it
\* adds, and adds nothing to the others.
LEMMA OtherRowsUntouched ==
  ASSUME NEW c, NEW n \in Nat, NEW r, \A i \in 1..n : Order[c][i] # r
  PROVE  Times(c, n, r) = 0
<1>1. {i \in 1..n : Order[c][i] = r} = {}
  OBVIOUS
<1> QED
  BY <1>1, FS_EmptySet DEF Times
-------------------------------------------------------------------------------
\* The initial state satisfies the invariant.
LEMMA InitInv == TxInit => Inv
<1> SUFFICES ASSUME TxInit PROVE Inv
  OBVIOUS
<1> USE TransactionsAssumption DEF TxInit
<1>1. Types
  <2>1. value \in [Rows -> Nat] /\ session \in [Connections -> SUBSET AllModes]
    OBVIOUS
  <2>2. call \in [Callers -> CallRecord] /\ \A c \in Callers : call[c].done <= Len(Order[c])
    BY DEF CallRecord, Pcs, Causes
  <2>3. /\ DOMAIN written = Callers /\ holder \in Callers \union {NoCaller} /\ applied \subseteq Callers
        /\ unpropagated \subseteq applied \intersect Schedules /\ prohibits \subseteq Callers
        /\ reply \in [Callers -> {"not_called", "none"} \union Answers]
    BY Zenon
  <2> QED
    BY <2>1, <2>2, <2>3, Zenon DEF Types
<1>2. ConnectionsHeld /\ RepliesFollow /\ AppliedFollows /\ ModesAreAsked
  BY DEF ConnectionsHeld, RepliesFollow, AppliedFollows, ModesAreAsked, CallAt, Answers
<1>3. WritesAreStatements /\ RowsAreExclusive
  BY DEF WritesAreStatements, RowsAreExclusive, CallAt, Holds, Nothing
<1> QED
  BY <1>1, <1>2, <1>3 DEF Inv

\* The two outcomes of BeginTx.
Begins(c, k) ==
  /\ CallAt(c, "begin")
  /\ call' = [call EXCEPT ![c].pc = "function", ![c].conn = k, ![c].done = 0, ![c].cause = "none"]
  /\ session' = [session EXCEPT ![k] = Modes[c]]
  /\ UNCHANGED <<value, written, holder, applied, unpropagated, reply, prohibits>>

BeginFails(c) ==
  /\ CallAt(c, "begin") /\ Returns(c, "error")
  /\ UNCHANGED <<value, written, session, holder, applied, unpropagated, prohibits>>

\* A connection is had, with the modes of the caller alone, or not.
LEMMA BeginTxIs ==
  ASSUME NEW c, BeginTx(c)
  PROVE  (\E k \in Free : Begins(c, k)) \/ BeginFails(c)
<1>1. \A k : ResetSession(k) \union Modes[c] = Modes[c]
  BY DEF ResetSession
<1> QED
  BY <1>1, Zenon DEF BeginTx, Begins, BeginFails

\* A step of a call is one of its actions.
LEMMA StepIs ==
  ASSUME NEW c, Step(c)
  PROVE  \/ InTransaction(c) \/ BeginTx(c) \/ ExecuteStatement(c) \/ Deadlock(c)
         \/ LockWaitTimeout(c) \/ FunctionFails(c) \/ Rollback(c) \/ RollbackFails(c)
         \/ Commit(c) \/ CommitFails(c) \/ ReturnNil(c) \/ GetLock(c) \/ GetLockTimesOut(c)
         \/ PropagateAndRelease(c) \/ ReturnAfterPropagation(c) \/ ProcessDies(c)
BY DEF Step, CallStep

\* The names the actions write are of the types.
LEMMA NamesAreTyped ==
  /\ {"begin", "function", "rollback", "committed", "locked", "propagated", "over"} \subseteq Pcs
  /\ {"none", "retryable", "other"} \subseteq Causes
BY DEF Pcs, Causes

\* Every step keeps the phases and counters of the calls.
LEMMA CallsTyped ==
  ASSUME Inv, NEW c \in Callers, Step(c)
  PROVE  call' \in [Callers -> CallRecord]
<1> USE NamesAreTyped, TransactionsAssumption
<1>0. call \in [Callers -> CallRecord] /\ call[c] \in CallRecord
  BY DEF Inv, Types
<1> USE <1>0 DEF CallRecord, CallAt, Returns, Leaves, Free, Retries
<1>1. CASE InTransaction(c)
  BY <1>1 DEF InTransaction
<1>2. CASE BeginTx(c)
  <2>1. ASSUME NEW k \in Connections,
               call' = [call EXCEPT ![c].pc = "function", ![c].conn = k, ![c].done = 0,
                                    ![c].cause = "none"]
        PROVE  call' \in [Callers -> CallRecord]
    BY <1>0, <2>1
  <2>2. CASE Returns(c, "error")
    BY <2>2
  <2>3. \/ \E k \in Connections :
             call' = [call EXCEPT ![c].pc = "function", ![c].conn = k, ![c].done = 0,
                                  ![c].cause = "none"]
        \/ Returns(c, "error")
    BY <1>2, Zenon DEF BeginTx
  <2> QED
    BY <2>1, <2>2, <2>3
<1>3. CASE ExecuteStatement(c)
  <2>1. call' = [call EXCEPT ![c].done = call[c].done + 1]
    BY <1>3 DEF ExecuteStatement
  <2>2. call[c].done + 1 \in Nat
    OBVIOUS
  <2> QED
    BY <2>1, <2>2
<1>4. CASE Deadlock(c)
  BY <1>4 DEF Deadlock
<1>5. CASE LockWaitTimeout(c)
  BY <1>5 DEF LockWaitTimeout
<1>6. CASE FunctionFails(c)
  BY <1>6 DEF FunctionFails
<1>7. CASE Rollback(c)
  <2>1. CASE Retries(c)
    <3>1. call' = [call EXCEPT ![c].pc = "begin", ![c].conn = NoConnection,
                               ![c].count = call[c].count + 1]
      BY <1>7, <2>1 DEF Rollback
    <3>2. call[c].count + 1 \in 0..RetriesLimit
      BY <2>1
    <3> QED
      BY <3>1, <3>2
  <2>2. CASE Returns(c, "error")
    BY <2>2
  <2> QED
    BY <1>7, <2>1, <2>2, Zenon DEF Rollback
<1>8. CASE RollbackFails(c)
  BY <1>8 DEF RollbackFails
<1>9. CASE Commit(c)
  BY <1>9 DEF Commit
<1>10. CASE CommitFails(c)
  BY <1>10 DEF CommitFails
<1>11. CASE ReturnNil(c)
  BY <1>11 DEF ReturnNil
<1>12. CASE GetLock(c)
  <2>1. PICK k \in Connections :
          call' = [call EXCEPT ![c].pc = "locked", ![c].conn = k]
    BY <1>12 DEF GetLock
  <2> QED
    BY <2>1
<1>13. CASE GetLockTimesOut(c)
  BY <1>13 DEF GetLockTimesOut
<1>14. CASE PropagateAndRelease(c)
  <2>1. CASE call' = [call EXCEPT ![c].pc = "propagated", ![c].conn = NoConnection]
    BY <2>1
  <2>2. CASE Returns(c, "error")
    BY <2>2
  <2> QED
    BY <1>14, <2>1, <2>2, Zenon DEF PropagateAndRelease
<1>15. CASE ReturnAfterPropagation(c)
  BY <1>15 DEF ReturnAfterPropagation
<1>16. CASE ProcessDies(c)
  BY <1>16 DEF ProcessDies
<1> QED
  BY StepIs, <1>1, <1>2, <1>3, <1>4, <1>5, <1>6, <1>7, <1>8, <1>9, <1>10, <1>11, <1>12, <1>13, <1>14, <1>15, <1>16

\* A step of one call leaves the phase, the writes and the answer of the others alone.
LEMMA OthersStay ==
  ASSUME Inv, NEW c \in Callers, Step(c), NEW d \in Callers, d # c
  PROVE  /\ call'[d] = call[d] /\ written'[d] = written[d] /\ reply'[d] = reply[d]
         /\ d \in applied' <=> d \in applied
         /\ d \in unpropagated' => d \in unpropagated
<1> USE DEF Returns, Leaves, ReleaseRows, Install
<1>0. DOMAIN call = Callers /\ DOMAIN written = Callers /\ DOMAIN reply = Callers
  BY DEF Inv, Types
<1> USE <1>0
<1>1. CASE InTransaction(c)
  BY <1>1 DEF InTransaction
<1>2. CASE BeginTx(c)
  BY <1>2 DEF BeginTx
<1>3. CASE ExecuteStatement(c)
  BY <1>3 DEF ExecuteStatement
<1>4. CASE Deadlock(c)
  BY <1>4 DEF Deadlock
<1>5. CASE LockWaitTimeout(c)
  BY <1>5 DEF LockWaitTimeout
<1>6. CASE FunctionFails(c)
  BY <1>6 DEF FunctionFails
<1>7. CASE Rollback(c)
  BY <1>7 DEF Rollback
<1>8. CASE RollbackFails(c)
  BY <1>8 DEF RollbackFails
<1>9. CASE Commit(c)
  BY <1>9 DEF Commit
<1>10. CASE CommitFails(c)
  BY <1>10 DEF CommitFails
<1>11. CASE ReturnNil(c)
  BY <1>11 DEF ReturnNil
<1>12. CASE GetLock(c)
  BY <1>12 DEF GetLock
<1>13. CASE GetLockTimesOut(c)
  BY <1>13 DEF GetLockTimesOut
<1>14. CASE PropagateAndRelease(c)
  BY <1>14 DEF PropagateAndRelease
<1>15. CASE ReturnAfterPropagation(c)
  BY <1>15 DEF ReturnAfterPropagation
<1>16. CASE ProcessDies(c)
  BY <1>16 DEF ProcessDies
<1> QED
  BY StepIs, <1>1, <1>2, <1>3, <1>4, <1>5, <1>6, <1>7, <1>8, <1>9, <1>10, <1>11, <1>12, <1>13, <1>14, <1>15, <1>16

\* A transaction that has done its statements has written what they add to each row.
LEMMA WritesAre ==
  ASSUME Inv, NEW c \in Callers, CallAt(c, "function"), FunctionDone(c), Install(c)
  PROVE  value' = [r \in Rows |-> value[r] + Times(c, Len(Order[c]), r)]
<1>1. /\ Order[c] \in Seq(Rows) /\ call[c].done = Len(Order[c]) /\ value \in [Rows -> Nat]
      /\ written[c] = [r \in DoneRows(c) |-> value[r] + Times(c, Len(Order[c]), r)]
  BY TransactionsAssumption DEF Inv, Types, WritesAreStatements, Statements, FunctionDone
<1>2. Holds(c) = DoneRows(c)
  BY <1>1 DEF Holds
<1>3. \A r \in Rows : r \notin DoneRows(c) => Times(c, Len(Order[c]), r) = 0
  <2>1. Len(Order[c]) \in Nat
    BY <1>1
  <2> QED
    BY <1>1, <2>1, OtherRowsUntouched DEF DoneRows
<1>4. value' = [r \in Rows |-> IF r \in DoneRows(c) THEN written[c][r] ELSE value[r]]
  BY <1>2 DEF Install
<1>5. \A r \in Rows : (IF r \in DoneRows(c) THEN written[c][r] ELSE value[r])
                        = value[r] + Times(c, Len(Order[c]), r)
  BY <1>1, <1>3
<1> QED
  BY <1>4, <1>5

\* Only a transaction that commits changes values, and not the rows another one has.
LEMMA ValuesChangeByCommit ==
  ASSUME Inv, NEW c \in Callers, Step(c)
  PROVE  /\ value' # value => Install(c) /\ CallAt(c, "function") /\ FunctionDone(c)
         /\ value' \in [Rows -> Nat]
         /\ \A d \in Callers : d # c => \A r \in Holds(d) \intersect Rows : value'[r] = value[r]
<1>1. value' # value => Install(c) /\ CallAt(c, "function") /\ FunctionDone(c)
  BY StepIs, Zenon DEF InTransaction, BeginTx, ExecuteStatement, Deadlock, LockWaitTimeout,
     FunctionFails, Rollback, RollbackFails, Commit, CommitFails, ReturnNil, GetLock,
     GetLockTimesOut, PropagateAndRelease, ReturnAfterPropagation, ProcessDies
<1>2. CASE value' = value
  BY <1>1, <1>2 DEF Inv, Types
<1>3. CASE value' # value
  <2>1. value' = [r \in Rows |-> value[r] + Times(c, Len(Order[c]), r)]
    BY <1>1, <1>3, WritesAre
  <2>2. \A r \in Rows : value[r] + Times(c, Len(Order[c]), r) \in Nat
    <3>1. Order[c] \in Seq(Rows) /\ value \in [Rows -> Nat]
      BY TransactionsAssumption DEF Inv, Types
    <3>2. \A r \in Rows : Times(c, Len(Order[c]), r) \in Nat
      <4>1. Len(Order[c]) \in Nat
        BY <3>1
      <4> QED
        BY <4>1, TimesNext, Zenon
    <3> QED
      BY <3>1, <3>2
  <2>3. ASSUME NEW d \in Callers, d # c, NEW r \in Holds(d) \intersect Rows
        PROVE  value'[r] = value[r]
    <3>1. r \notin Holds(c)
      BY <2>3 DEF Inv, RowsAreExclusive
    <3> QED
      BY <1>1, <1>3, <3>1 DEF Install
  <2> QED
    BY <1>1, <1>3, <2>1, <2>2, <2>3
<1> QED
  BY <1>2, <1>3

\* Every step keeps the other tables of their types.
LEMMA OthersTyped ==
  ASSUME Inv, NEW c \in Callers, Step(c)
  PROVE  /\ DOMAIN written' = Callers
         /\ session' \in [Connections -> SUBSET AllModes]
         /\ holder' \in Callers \union {NoCaller}
         /\ reply' \in [Callers -> {"not_called", "none"} \union Answers]
         /\ prohibits' \subseteq Callers
<1> USE TransactionsAssumption
    DEF Inv, Types, CallAt, Returns, Leaves, ReleaseRows, ResetSession, Free, Answers
<1>1. CASE InTransaction(c)
  BY <1>1 DEF InTransaction
<1>2. CASE BeginTx(c)
  <2>1. ASSUME NEW k \in Free, Begins(c, k)
        PROVE  /\ DOMAIN written' = Callers
               /\ session' \in [Connections -> SUBSET AllModes]
               /\ holder' \in Callers \union {NoCaller}
               /\ reply' \in [Callers -> {"not_called", "none"} \union Answers]
               /\ prohibits' \subseteq Callers
    BY <2>1 DEF Begins
  <2> QED
    BY <1>2, <2>1, BeginTxIs DEF BeginFails
<1>3. CASE ExecuteStatement(c)
  BY <1>3 DEF ExecuteStatement
<1>4. CASE Deadlock(c)
  BY <1>4 DEF Deadlock
<1>5. CASE LockWaitTimeout(c)
  BY <1>5 DEF LockWaitTimeout
<1>6. CASE FunctionFails(c)
  BY <1>6 DEF FunctionFails
<1>7. CASE Rollback(c)
  BY <1>7 DEF Rollback
<1>8. CASE RollbackFails(c)
  BY <1>8 DEF RollbackFails
<1>9. CASE Commit(c)
  BY <1>9 DEF Commit
<1>10. CASE CommitFails(c)
  BY <1>10 DEF CommitFails
<1>11. CASE ReturnNil(c)
  BY <1>11 DEF ReturnNil
<1>12. CASE GetLock(c)
  BY <1>12 DEF GetLock
<1>13. CASE GetLockTimesOut(c)
  BY <1>13 DEF GetLockTimesOut
<1>14. CASE PropagateAndRelease(c)
  BY <1>14 DEF PropagateAndRelease
<1>15. CASE ReturnAfterPropagation(c)
  BY <1>15 DEF ReturnAfterPropagation
<1>16. CASE ProcessDies(c)
  BY <1>16 DEF ProcessDies
<1> QED
  BY StepIs, <1>1, <1>2, <1>3, <1>4, <1>5, <1>6, <1>7, <1>8, <1>9, <1>10, <1>11, <1>12, <1>13, <1>14, <1>15, <1>16

\* What is applied, and what of it waits for the propagation.
LEMMA AppliedTyped ==
  ASSUME Inv, NEW c \in Callers, Step(c)
  PROVE  /\ applied' \subseteq Callers
         /\ unpropagated' \subseteq applied' \intersect Schedules
<1> USE DEF Inv, Types
<1>1. CASE InTransaction(c)
  BY <1>1 DEF InTransaction
<1>2. CASE BeginTx(c)
  BY <1>2, BeginTxIs DEF Begins, BeginFails
<1>3. CASE ExecuteStatement(c)
  BY <1>3 DEF ExecuteStatement
<1>4. CASE Deadlock(c)
  BY <1>4 DEF Deadlock
<1>5. CASE LockWaitTimeout(c)
  BY <1>5 DEF LockWaitTimeout
<1>6. CASE FunctionFails(c)
  BY <1>6 DEF FunctionFails
<1>7. CASE Rollback(c)
  BY <1>7 DEF Rollback
<1>8. CASE RollbackFails(c)
  BY <1>8 DEF RollbackFails
<1>9. CASE Commit(c)
  BY <1>9 DEF Commit, Install
<1>10. CASE CommitFails(c)
  BY <1>10 DEF CommitFails, Install
<1>11. CASE ReturnNil(c)
  BY <1>11 DEF ReturnNil
<1>12. CASE GetLock(c)
  BY <1>12 DEF GetLock
<1>13. CASE GetLockTimesOut(c)
  BY <1>13 DEF GetLockTimesOut
<1>14. CASE PropagateAndRelease(c)
  BY <1>14 DEF PropagateAndRelease
<1>15. CASE ReturnAfterPropagation(c)
  BY <1>15 DEF ReturnAfterPropagation
<1>16. CASE ProcessDies(c)
  BY <1>16 DEF ProcessDies
<1> QED
  BY StepIs, <1>1, <1>2, <1>3, <1>4, <1>5, <1>6, <1>7, <1>8, <1>9, <1>10, <1>11, <1>12, <1>13, <1>14, <1>15, <1>16

\* No call does more statements than its function has.
LEMMA DoneBounded ==
  ASSUME Inv, NEW c \in Callers, Step(c)
  PROVE  \A d \in Callers : call'[d].done <= Len(Order[d])
<1>0. /\ call \in [Callers -> CallRecord] /\ Order[c] \in Seq(Rows)
      /\ \A d \in Callers : call[d].done <= Len(Order[d])
  BY TransactionsAssumption DEF Inv, Types
<1>1. \A d \in Callers : d # c => call'[d] = call[d]
  BY OthersStay
<1>2. call'[c].done \in {0, call[c].done} \/ (ExecuteStatement(c) /\ call'[c].done = call[c].done + 1)
  <2> USE DEF CallRecord, Returns, Leaves
  <2>1. CASE InTransaction(c)
    BY <1>0, <2>1 DEF InTransaction
  <2>2. CASE BeginTx(c)
    <3>1. ASSUME NEW k \in Free, Begins(c, k)
          PROVE  call'[c].done \in {0, call[c].done}
      BY <1>0, <3>1 DEF Begins
    <3>2. CASE BeginFails(c)
      BY <1>0, <3>2 DEF BeginFails
    <3> QED
      BY <2>2, <3>1, <3>2, BeginTxIs
  <2>3. CASE ExecuteStatement(c)
    BY <1>0, <2>3 DEF ExecuteStatement
  <2>4. CASE Deadlock(c)
    BY <1>0, <2>4 DEF Deadlock, WaitsFor, Waits
  <2>5. CASE LockWaitTimeout(c)
    BY <1>0, <2>5 DEF LockWaitTimeout, Waits
  <2>6. CASE FunctionFails(c)
    BY <1>0, <2>6 DEF FunctionFails
  <2>7. CASE Rollback(c)
    BY <1>0, <2>7 DEF Rollback
  <2>8. CASE RollbackFails(c)
    BY <1>0, <2>8 DEF RollbackFails
  <2>9. CASE Commit(c)
    BY <1>0, <2>9 DEF Commit
  <2>10. CASE CommitFails(c)
    BY <1>0, <2>10 DEF CommitFails
  <2>11. CASE ReturnNil(c)
    BY <1>0, <2>11 DEF ReturnNil
  <2>12. CASE GetLock(c)
    BY <1>0, <2>12 DEF GetLock
  <2>13. CASE GetLockTimesOut(c)
    BY <1>0, <2>13 DEF GetLockTimesOut
  <2>14. CASE PropagateAndRelease(c)
    BY <1>0, <2>14 DEF PropagateAndRelease
  <2>15. CASE ReturnAfterPropagation(c)
    BY <1>0, <2>15 DEF ReturnAfterPropagation
  <2>16. CASE ProcessDies(c)
    BY <1>0, <2>16 DEF ProcessDies
  <2> QED
    BY StepIs, <2>1, <2>2, <2>3, <2>4, <2>5, <2>6, <2>7, <2>8, <2>9, <2>10, <2>11, <2>12, <2>13, <2>14, <2>15, <2>16
<1>3. call'[c].done <= Len(Order[c])
  BY <1>0, <1>2 DEF ExecuteStatement, FunctionDone, CallRecord
<1> QED
  BY <1>0, <1>1, <1>3

\* Every step keeps the types.
LEMMA TypesKept ==
  ASSUME Inv, NEW c \in Callers, Step(c)
  PROVE  Types'
BY CallsTyped, OthersTyped, AppliedTyped, DoneBounded, ValuesChangeByCommit DEF Types

\* The answers follow the phases: a call is answered when it is over.
LEMMA RepliesKept ==
  ASSUME Inv, NEW c \in Callers, Step(c)
  PROVE  RepliesFollow'
<1>0. /\ call \in [Callers -> CallRecord] /\ DOMAIN reply = Callers
      /\ CallAt(c, "idle") <=> reply[c] = "not_called"
      /\ CallAt(c, "over") <=> reply[c] \in Answers
  BY DEF Inv, Types, RepliesFollow
<1>1. /\ call'[c].pc = "idle" <=> reply'[c] = "not_called"
      /\ call'[c].pc = "over" <=> reply'[c] \in Answers
  <2> USE DEF CallRecord, CallAt, Returns, Leaves, Answers
  <2>1. CASE InTransaction(c)
    BY <1>0, <2>1 DEF InTransaction
  <2>2. CASE BeginTx(c)
    <3>1. ASSUME NEW k \in Free, Begins(c, k)
          PROVE  /\ call'[c].pc = "idle" <=> reply'[c] = "not_called"
                 /\ call'[c].pc = "over" <=> reply'[c] \in Answers
      BY <1>0, <3>1 DEF Begins
    <3>2. CASE BeginFails(c)
      BY <1>0, <3>2 DEF BeginFails
    <3> QED
      BY <2>2, <3>1, <3>2, BeginTxIs
  <2>3. CASE ExecuteStatement(c)
    BY <1>0, <2>3 DEF ExecuteStatement
  <2>4. CASE Deadlock(c)
    BY <1>0, <2>4 DEF Deadlock, WaitsFor, Waits
  <2>5. CASE LockWaitTimeout(c)
    BY <1>0, <2>5 DEF LockWaitTimeout, Waits
  <2>6. CASE FunctionFails(c)
    BY <1>0, <2>6 DEF FunctionFails
  <2>7. CASE Rollback(c)
    <3>1. CASE Retries(c)
      <4>1. /\ UNCHANGED reply /\ CallAt(c, "rollback")
            /\ call' = [call EXCEPT ![c].pc = "begin", ![c].conn = NoConnection,
                                   ![c].count = call[c].count + 1]
        BY <2>7, <3>1, Zenon DEF Rollback
      <4> QED
        BY <1>0, <4>1
    <3>2. CASE ~Retries(c)
      <4>1. Returns(c, "error")
        BY <2>7, <3>2, Zenon DEF Rollback
      <4> QED
        BY <1>0, <4>1
    <3> QED
      BY <3>1, <3>2
  <2>8. CASE RollbackFails(c)
    BY <1>0, <2>8 DEF RollbackFails
  <2>9. CASE Commit(c)
    BY <1>0, <2>9 DEF Commit
  <2>10. CASE CommitFails(c)
    BY <1>0, <2>10 DEF CommitFails
  <2>11. CASE ReturnNil(c)
    BY <1>0, <2>11 DEF ReturnNil
  <2>12. CASE GetLock(c)
    BY <1>0, <2>12 DEF GetLock
  <2>13. CASE GetLockTimesOut(c)
    BY <1>0, <2>13 DEF GetLockTimesOut
  <2>14. CASE PropagateAndRelease(c)
    BY <1>0, <2>14 DEF PropagateAndRelease
  <2>15. CASE ReturnAfterPropagation(c)
    BY <1>0, <2>15 DEF ReturnAfterPropagation
  <2>16. CASE ProcessDies(c)
    BY <1>0, <2>16 DEF ProcessDies
  <2> QED
    BY StepIs, <2>1, <2>2, <2>3, <2>4, <2>5, <2>6, <2>7, <2>8, <2>9, <2>10, <2>11, <2>12, <2>13, <2>14, <2>15, <2>16
<1>2. ASSUME NEW d \in Callers, d # c
      PROVE  /\ call'[d].pc = "idle" <=> reply'[d] = "not_called"
             /\ call'[d].pc = "over" <=> reply'[d] \in Answers
  BY <1>2, OthersStay DEF Inv, RepliesFollow, CallAt
<1> QED
  BY <1>1, <1>2 DEF RepliesFollow, CallAt

\* A call is applied by its commit and at no other moment, and the propagation that ends it
\* has left none of its changes waiting.
LEMMA AppliedKept ==
  ASSUME Inv, NEW c \in Callers, Step(c)
  PROVE  AppliedFollows'
<1>0. /\ call \in [Callers -> CallRecord]
      /\ call[c].pc \in {"idle", "begin", "function", "rollback"} => c \notin applied
      /\ call[c].pc \in {"committed", "locked", "propagated"} => c \in applied
      /\ CallAt(c, "propagated") => c \notin unpropagated
  BY DEF Inv, Types, AppliedFollows
<1>1. /\ call'[c].pc \in {"idle", "begin", "function", "rollback"} => c \notin applied'
      /\ call'[c].pc \in {"committed", "locked", "propagated"} => c \in applied'
      /\ call'[c].pc = "propagated" => c \notin unpropagated'
  <2> USE DEF CallRecord, CallAt, Returns, Leaves, Install
  <2>1. CASE InTransaction(c)
    BY <1>0, <2>1 DEF InTransaction
  <2>2. CASE BeginTx(c)
    <3>1. ASSUME NEW k \in Free, Begins(c, k)
          PROVE  /\ call'[c].pc \in {"idle", "begin", "function", "rollback"} => c \notin applied'
                 /\ call'[c].pc \in {"committed", "locked", "propagated"} => c \in applied'
                 /\ call'[c].pc = "propagated" => c \notin unpropagated'
      BY <1>0, <3>1 DEF Begins
    <3>2. CASE BeginFails(c)
      BY <1>0, <3>2 DEF BeginFails
    <3> QED
      BY <2>2, <3>1, <3>2, BeginTxIs
  <2>3. CASE ExecuteStatement(c)
    BY <1>0, <2>3 DEF ExecuteStatement
  <2>4. CASE Deadlock(c)
    BY <1>0, <2>4 DEF Deadlock, WaitsFor, Waits
  <2>5. CASE LockWaitTimeout(c)
    BY <1>0, <2>5 DEF LockWaitTimeout, Waits
  <2>6. CASE FunctionFails(c)
    BY <1>0, <2>6 DEF FunctionFails
  <2>7. CASE Rollback(c)
    BY <1>0, <2>7 DEF Rollback
  <2>8. CASE RollbackFails(c)
    BY <1>0, <2>8 DEF RollbackFails
  <2>9. CASE Commit(c)
    BY <1>0, <2>9 DEF Commit
  <2>10. CASE CommitFails(c)
    BY <1>0, <2>10 DEF CommitFails
  <2>11. CASE ReturnNil(c)
    BY <1>0, <2>11 DEF ReturnNil
  <2>12. CASE GetLock(c)
    BY <1>0, <2>12 DEF GetLock
  <2>13. CASE GetLockTimesOut(c)
    BY <1>0, <2>13 DEF GetLockTimesOut
  <2>14. CASE PropagateAndRelease(c)
    BY <1>0, <2>14 DEF PropagateAndRelease
  <2>15. CASE ReturnAfterPropagation(c)
    BY <1>0, <2>15 DEF ReturnAfterPropagation
  <2>16. CASE ProcessDies(c)
    BY <1>0, <2>16 DEF ProcessDies
  <2> QED
    BY StepIs, <2>1, <2>2, <2>3, <2>4, <2>5, <2>6, <2>7, <2>8, <2>9, <2>10, <2>11, <2>12, <2>13, <2>14, <2>15, <2>16
<1>2. ASSUME NEW d \in Callers, d # c
      PROVE  /\ call'[d].pc \in {"idle", "begin", "function", "rollback"} => d \notin applied'
             /\ call'[d].pc \in {"committed", "locked", "propagated"} => d \in applied'
             /\ call'[d].pc = "propagated" => d \notin unpropagated'
  BY <1>2, OthersStay DEF Inv, AppliedFollows, CallAt
<1> QED
  BY <1>1, <1>2 DEF AppliedFollows, CallAt

\* The connection a call has after a step is the one it had or a free one; only the sessions
\* of these two change.
LEMMA OwnConnection ==
  ASSUME Inv, NEW c \in Callers, Step(c)
  PROVE  /\ call'[c].conn # NoConnection <=> call'[c].pc \in {"function", "rollback", "locked"}
         /\ call'[c].conn \in {call[c].conn, NoConnection} \union Free
         /\ \A k \in Connections : session'[k] # session[k] => k \in {call[c].conn, call'[c].conn}
         /\ call'[c].pc = "function" => session'[call'[c].conn] = Modes[c]
<1>0. /\ call \in [Callers -> CallRecord] /\ DOMAIN session = Connections
      /\ call[c].conn # NoConnection <=> call[c].pc \in {"function", "rollback", "locked"}
      /\ CallAt(c, "function") => session[call[c].conn] = Modes[c]
      /\ NoConnection \notin Connections /\ Free \subseteq Connections
  BY TransactionsAssumption DEF Inv, Types, ConnectionsHeld, ModesAreAsked, Free
<1>1. /\ call'[c].conn # NoConnection <=> call'[c].pc \in {"function", "rollback", "locked"}
      /\ call'[c].conn \in {call[c].conn, NoConnection} \union Free
      /\ \A k \in Connections : session'[k] # session[k] => k \in {call[c].conn, call'[c].conn}
      /\ call'[c].pc = "function" => session'[call'[c].conn] = Modes[c]
  <2> USE DEF CallRecord, CallAt, Returns, Leaves
  <2>1. CASE InTransaction(c)
    BY <1>0, <2>1 DEF InTransaction
  <2>2. CASE BeginTx(c)
    <3>1. ASSUME NEW k \in Free, Begins(c, k)
          PROVE  /\ call'[c].conn # NoConnection <=> call'[c].pc \in {"function", "rollback", "locked"}
                 /\ call'[c].conn \in {call[c].conn, NoConnection} \union Free
                 /\ \A j \in Connections : session'[j] # session[j] => j \in {call[c].conn, call'[c].conn}
                 /\ call'[c].pc = "function" => session'[call'[c].conn] = Modes[c]
      BY <1>0, <3>1 DEF Begins
    <3>2. CASE BeginFails(c)
      BY <1>0, <3>2 DEF BeginFails
    <3> QED
      BY <2>2, <3>1, <3>2, BeginTxIs
  <2>3. CASE ExecuteStatement(c)
    BY <1>0, <2>3 DEF ExecuteStatement
  <2>4. CASE Deadlock(c)
    BY <1>0, <2>4 DEF Deadlock, WaitsFor, Waits
  <2>5. CASE LockWaitTimeout(c)
    BY <1>0, <2>5 DEF LockWaitTimeout, Waits
  <2>6. CASE FunctionFails(c)
    BY <1>0, <2>6 DEF FunctionFails
  <2>7. CASE Rollback(c)
    <3>1. CASE Retries(c)
      <4>1. /\ UNCHANGED session
            /\ call' = [call EXCEPT ![c].pc = "begin", ![c].conn = NoConnection,
                                   ![c].count = call[c].count + 1]
        BY <2>7, <3>1, Zenon DEF Rollback
      <4> QED
        BY <1>0, <4>1
    <3>2. CASE ~Retries(c)
      <4>1. Returns(c, "error") /\ UNCHANGED session
        BY <2>7, <3>2, Zenon DEF Rollback
      <4> QED
        BY <1>0, <4>1
    <3> QED
      BY <3>1, <3>2
  <2>8. CASE RollbackFails(c)
    BY <1>0, <2>8 DEF RollbackFails
  <2>9. CASE Commit(c)
    BY <1>0, <2>9 DEF Commit
  <2>10. CASE CommitFails(c)
    BY <1>0, <2>10 DEF CommitFails
  <2>11. CASE ReturnNil(c)
    BY <1>0, <2>11 DEF ReturnNil
  <2>12. CASE GetLock(c)
    BY <1>0, <2>12 DEF GetLock
  <2>13. CASE GetLockTimesOut(c)
    BY <1>0, <2>13 DEF GetLockTimesOut
  <2>14. CASE PropagateAndRelease(c)
    BY <1>0, <2>14 DEF PropagateAndRelease
  <2>15. CASE ReturnAfterPropagation(c)
    BY <1>0, <2>15 DEF ReturnAfterPropagation
  <2>16. CASE ProcessDies(c)
    BY <1>0, <2>16 DEF ProcessDies
  <2> QED
    BY StepIs, <2>1, <2>2, <2>3, <2>4, <2>5, <2>6, <2>7, <2>8, <2>9, <2>10, <2>11, <2>12, <2>13, <2>14, <2>15, <2>16
<1> QED
  BY <1>1

\* No two calls have the same connection.
LEMMA ConnectionsKept ==
  ASSUME Inv, NEW c \in Callers, Step(c)
  PROVE  ConnectionsHeld'
<1>1. \A d \in Callers : d # c => call'[d] = call[d]
  BY OthersStay
<1>2. \A d \in Callers : d # c => call[d].conn \notin Free
  BY DEF Free, InUse
<1>3. \A d \in Callers : call'[d].conn # NoConnection
                           <=> call'[d].pc \in {"function", "rollback", "locked"}
  BY <1>1, OwnConnection, Zenon DEF Inv, ConnectionsHeld
<1>4. ASSUME NEW d \in Callers, d # c, call'[d].conn # NoConnection
      PROVE  call'[d].conn # call'[c].conn
  <2>1. call'[c].conn \in {call[c].conn, NoConnection} \union Free
    BY OwnConnection, Zenon
  <2>2. call'[d].conn = call[d].conn /\ call[d].conn \notin Free
    BY <1>1, <1>2, <1>4, Zenon
  <2>3. call[d].conn # call[c].conn
    BY <1>4, <2>2, Zenon DEF Inv, ConnectionsHeld
  <2> QED
    BY <1>4, <2>1, <2>2, <2>3, Zenon
<1>5. ASSUME NEW d \in Callers, NEW e \in Callers, call'[d].conn = call'[e].conn,
             call'[d].conn # NoConnection
      PROVE  d = e
  <2>1. CASE d = c \/ e = c
    BY <1>4, <1>5, <2>1
  <2>2. CASE d # c /\ e # c
    BY <1>1, <1>5, <2>2 DEF Inv, ConnectionsHeld
  <2> QED
    BY <2>1, <2>2
<1> QED
  BY <1>3, <1>5 DEF ConnectionsHeld

\* A step of one call does not touch the session of another's transaction.
LEMMA ModesKept ==
  ASSUME Inv, NEW c \in Callers, Step(c)
  PROVE  ModesAreAsked'
<1>1. ASSUME NEW d \in Callers, d # c, call'[d].pc = "function"
      PROVE  session'[call'[d].conn] = Modes[d]
  <2>1. call'[d] = call[d] /\ call[d].pc = "function"
    BY <1>1, OthersStay
  <2>2. /\ session[call[d].conn] = Modes[d] /\ call[d].conn # NoConnection
        /\ call[d].conn \in Connections \union {NoConnection}
    BY <2>1 DEF Inv, Types, CallRecord, ModesAreAsked, CallAt, ConnectionsHeld
  <2>3. ConnectionsHeld'
    BY ConnectionsKept
  <2>4. call[d].conn # call[c].conn /\ call[d].conn # call'[c].conn
    BY <1>1, <2>1, <2>2, <2>3 DEF Inv, ConnectionsHeld
  <2> QED
    BY <2>1, <2>2, <2>4, OwnConnection
<1> QED
  BY <1>1, OwnConnection DEF ModesAreAsked, CallAt

\* A statement takes a row nobody else has; everything else only gives rows back.
LEMMA RowsKept ==
  ASSUME Inv, NEW c \in Callers, Step(c)
  PROVE  RowsAreExclusive'
<1>0. DOMAIN written = Callers /\ DOMAIN Nothing = {}
  BY DEF Inv, Types, Nothing
<1>1. \/ DOMAIN written'[c] \subseteq Holds(c)
      \/ /\ ExecuteStatement(c)
         /\ DOMAIN written'[c] = Holds(c) \union {NextRow(c)}
  <2> USE DEF ReleaseRows, Leaves, Holds
  <2>1. CASE InTransaction(c)
    BY <1>0, <2>1 DEF InTransaction
  <2>2. CASE BeginTx(c)
    BY <1>0, <2>2 DEF BeginTx
  <2>3. CASE ExecuteStatement(c)
    BY <1>0, <2>3 DEF ExecuteStatement
  <2>4. CASE Deadlock(c)
    BY <1>0, <2>4 DEF Deadlock
  <2>5. CASE LockWaitTimeout(c)
    BY <1>0, <2>5 DEF LockWaitTimeout
  <2>6. CASE FunctionFails(c)
    BY <1>0, <2>6 DEF FunctionFails
  <2>7. CASE Rollback(c)
    BY <1>0, <2>7 DEF Rollback
  <2>8. CASE RollbackFails(c)
    BY <1>0, <2>8 DEF RollbackFails
  <2>9. CASE Commit(c)
    BY <1>0, <2>9 DEF Commit
  <2>10. CASE CommitFails(c)
    BY <1>0, <2>10 DEF CommitFails
  <2>11. CASE ReturnNil(c)
    BY <1>0, <2>11 DEF ReturnNil
  <2>12. CASE GetLock(c)
    BY <1>0, <2>12 DEF GetLock
  <2>13. CASE GetLockTimesOut(c)
    BY <1>0, <2>13 DEF GetLockTimesOut
  <2>14. CASE PropagateAndRelease(c)
    BY <1>0, <2>14 DEF PropagateAndRelease
  <2>15. CASE ReturnAfterPropagation(c)
    BY <1>0, <2>15 DEF ReturnAfterPropagation
  <2>16. CASE ProcessDies(c)
    BY <1>0, <2>16 DEF ProcessDies
  <2> QED
    BY StepIs, <2>1, <2>2, <2>3, <2>4, <2>5, <2>6, <2>7, <2>8, <2>9, <2>10, <2>11, <2>12, <2>13, <2>14, <2>15, <2>16
<1>2. ASSUME NEW d \in Callers, d # c
      PROVE  DOMAIN written'[c] \intersect DOMAIN written'[d] = {}
  <2>1. written'[d] = written[d] /\ Holds(c) \intersect Holds(d) = {}
    BY <1>2, OthersStay DEF Inv, RowsAreExclusive
  <2>2. ExecuteStatement(c) => NextRow(c) \notin Holds(d)
    BY <1>2, Zenon DEF ExecuteStatement, Waits, Blocks
  <2> QED
    BY <1>1, <2>1, <2>2 DEF Holds
<1>3. ASSUME NEW d \in Callers, NEW e \in Callers, d # c, e # c, d # e
      PROVE  DOMAIN written'[d] \intersect DOMAIN written'[e] = {}
  BY <1>3, OthersStay DEF Inv, RowsAreExclusive, Holds
<1>4. ASSUME NEW d \in Callers, NEW e \in Callers, d # e
      PROVE  DOMAIN written'[d] \intersect DOMAIN written'[e] = {}
  <2>1. CASE d = c
    BY <1>2, <1>4, <2>1
  <2>2. CASE e = c
    BY <1>2, <1>4, <2>2
  <2> QED
    BY <1>3, <1>4, <2>1, <2>2
<1> QED
  BY <1>4, Zenon DEF RowsAreExclusive, Holds

\* The statement of a caller adds one to its row, on top of what it added to it before.
LEMMA StatementWrites ==
  ASSUME Inv, NEW c \in Callers, ExecuteStatement(c)
  PROVE  written'[c] = Statements(c)'
<1> DEFINE n == call[c].done
           r == NextRow(c)
           seen == IF r \in Holds(c) THEN written[c][r] ELSE value[r]
<1>1. /\ n \in Nat /\ Order[c] \in Seq(Rows) /\ n < Len(Order[c]) /\ r = Order[c][n + 1]
      /\ call'[c].done = n + 1 /\ value' = value /\ value \in [Rows -> Nat]
      /\ DOMAIN written = Callers
  <2>1. /\ call \in [Callers -> CallRecord] /\ n <= Len(Order[c]) /\ DOMAIN written = Callers
        /\ value \in [Rows -> Nat]
    BY DEF Inv, Types
  <2>2. n \in Nat /\ Order[c] \in Seq(Rows)
    BY <2>1, TransactionsAssumption DEF CallRecord
  <2>3. n # Len(Order[c]) /\ value' = value /\ call' = [call EXCEPT ![c].done = @ + 1]
    BY DEF ExecuteStatement, FunctionDone
  <2>4. call'[c].done = n + 1
    BY <2>1, <2>3 DEF CallRecord
  <2> QED
    BY <2>1, <2>2, <2>3, <2>4 DEF NextRow
<1>2. /\ written[c] = Statements(c)
      /\ Holds(c) = DoneRows(c)
  BY DEF Inv, WritesAreStatements, ExecuteStatement, Holds, Statements
<1>3. r \in Rows /\ DoneRows(c) \subseteq Rows
  BY <1>1 DEF DoneRows
<1>4. DoneRows(c)' = DoneRows(c) \union {r}
  <2>1. DoneRows(c)' = {Order[c][i] : i \in 1..(n + 1)}
    BY <1>1 DEF DoneRows
  <2>2. 1..(n + 1) = (1..n) \union {n + 1}
    BY <1>1
  <2> QED
    BY <1>1, <2>1, <2>2 DEF DoneRows
<1>5. \A s \in Rows : /\ Times(c, n, s) \in Nat
                      /\ Times(c, n + 1, s) = Times(c, n, s) + (IF r = s THEN 1 ELSE 0)
  <2>1. \A s \in Rows : /\ Times(c, n, s) \in Nat
                        /\ Times(c, n + 1, s) = Times(c, n, s)
                                                  + (IF Order[c][n + 1] = s THEN 1 ELSE 0)
    <3> SUFFICES ASSUME NEW s \in Rows
                 PROVE  /\ Times(c, n, s) \in Nat
                        /\ Times(c, n + 1, s) = Times(c, n, s)
                                                  + (IF Order[c][n + 1] = s THEN 1 ELSE 0)
      OBVIOUS
    <3>1. n \in Nat
      BY <1>1
    <3> HIDE DEF n
    <3> QED
      BY <3>1, TimesNext
  <2> QED
    BY <1>1, <2>1
<1>6. seen = value[r] + Times(c, n, r)
  <2>1. CASE r \in DoneRows(c)
    BY <1>2, <2>1 DEF Statements
  <2>2. CASE r \notin DoneRows(c)
    <3>1. Times(c, n, r) = 0
      BY <1>1, <2>2, OtherRowsUntouched DEF DoneRows
    <3> QED
      BY <1>1, <1>2, <1>3, <2>2, <3>1
  <2> QED
    BY <2>1, <2>2
<1>7. written'[c] = [s \in DoneRows(c) \union {r} |-> IF s = r THEN seen + 1 ELSE written[c][s]]
  <2>1. written' = [written EXCEPT ![c] = [s \in Holds(c) \union {r} |->
                                             IF s = r THEN seen + 1 ELSE written[c][s]]]
    BY Zenon DEF ExecuteStatement
  <2> HIDE DEF r, seen
  <2>2. written'[c] = [s \in Holds(c) \union {r} |-> IF s = r THEN seen + 1 ELSE written[c][s]]
    BY <1>1, <2>1
  <2> QED
    BY <1>2, <2>2, Zenon
<1>8. ASSUME NEW s \in DoneRows(c) \union {r}
      PROVE  (IF s = r THEN seen + 1 ELSE written[c][s]) = value[s] + Times(c, n + 1, s)
  <2>1. CASE s = r
    <3>1. /\ value[r] \in Nat /\ Times(c, n, r) \in Nat
          /\ Times(c, n + 1, r) = Times(c, n, r) + 1
      BY <1>1, <1>3, <1>5
    <3> HIDE DEF n, r, seen
    <3>2. seen + 1 = value[r] + Times(c, n + 1, r)
      BY <1>6, <3>1
    <3> QED
      BY <2>1, <3>2
  <2>2. CASE s # r
    BY <1>1, <1>2, <1>3, <1>5, <2>2, SMTT(30) DEF Statements
  <2> QED
    BY <2>1, <2>2
<1>9. Statements(c)' = [s \in DoneRows(c) \union {r} |-> value[s] + Times(c, n + 1, s)]
  BY <1>1, <1>4 DEF Statements
<1> QED
  BY <1>7, <1>8, <1>9

\* What a transaction has written are its own statements: another commit changes no row it has.
LEMMA WritesOfOthers ==
  ASSUME Inv, NEW c \in Callers, Step(c), NEW d \in Callers, d # c,
         call[d].pc \in {"function", "rollback"}, written[d] = Statements(d)
  PROVE  written'[d] = Statements(d)'
<1>1. call'[d] = call[d] /\ written'[d] = written[d]
  BY OthersStay
<1>2. Holds(d) = DoneRows(d)
  BY DEF Holds, Statements
<1>3. DoneRows(d) \subseteq Rows
  <2>1. Order[d] \in Seq(Rows) /\ call[d].done \in Nat /\ call[d].done <= Len(Order[d])
    BY TransactionsAssumption DEF Inv, Types, CallRecord
  <2> QED
    BY <2>1 DEF DoneRows
<1>4. \A r \in DoneRows(d) : value'[r] = value[r]
  BY <1>2, <1>3, ValuesChangeByCommit
<1>5. DoneRows(d)' = DoneRows(d)
  BY <1>1 DEF DoneRows
<1> QED
  BY <1>1, <1>4, <1>5 DEF Statements

\* A step that leaves the values and the statements done as they are.
LEMMA StatementsStay ==
  ASSUME NEW c, value' = value, call'[c].done = call[c].done
  PROVE  Statements(c)' = Statements(c)
<1>1. DoneRows(c)' = DoneRows(c)
  BY DEF DoneRows
<1> QED
  BY <1>1 DEF Statements

\* A transaction has written its statements, or has been rolled back.
LEMMA WritesKept ==
  ASSUME Inv, NEW c \in Callers, Step(c)
  PROVE  WritesAreStatements'
<1>0. /\ call \in [Callers -> CallRecord] /\ DOMAIN written = Callers
      /\ CallAt(c, "function") => written[c] = Statements(c)
      /\ CallAt(c, "rollback") => written[c] \in {Nothing, Statements(c)}
      /\ call[c].pc \notin {"function", "rollback"} => written[c] = Nothing
  BY DEF Inv, Types, WritesAreStatements
<1>1. /\ call'[c].pc = "function" => written'[c] = Statements(c)'
      /\ call'[c].pc = "rollback" => written'[c] \in {Nothing, Statements(c)'}
      /\ call'[c].pc \notin {"function", "rollback"} => written'[c] = Nothing
  <2> USE DEF CallRecord, CallAt, Returns, Leaves, ReleaseRows
  <2>1. CASE InTransaction(c)
    BY <1>0, <2>1 DEF InTransaction
  <2>2. CASE BeginTx(c)
    <3>1. ASSUME NEW k \in Free, Begins(c, k)
          PROVE  /\ call'[c].pc = "function" => written'[c] = Statements(c)'
                 /\ call'[c].pc = "rollback" => written'[c] \in {Nothing, Statements(c)'}
                 /\ call'[c].pc \notin {"function", "rollback"} => written'[c] = Nothing
      <4>1. call'[c].pc = "function" /\ call'[c].done = 0 /\ written'[c] = Nothing
        BY <1>0, <3>1 DEF Begins
      <4>2. DoneRows(c)' = {}
        BY <4>1 DEF DoneRows
      <4> QED
        BY <4>1, <4>2 DEF Statements, Nothing
    <3>2. CASE BeginFails(c)
      BY <1>0, <3>2 DEF BeginFails
    <3> QED
      BY <2>2, <3>1, <3>2, BeginTxIs
  <2>3. CASE ExecuteStatement(c)
    <3>1. call'[c].pc = "function"
      BY <1>0, <2>3 DEF ExecuteStatement
    <3> QED
      BY <2>3, <3>1, StatementWrites
  <2>4. CASE Deadlock(c)
    BY <1>0, <2>4 DEF Deadlock, WaitsFor, Waits
  <2>5. CASE LockWaitTimeout(c)
    <3>1. /\ call'[c].pc = "rollback" /\ call'[c].done = call[c].done
          /\ CallAt(c, "function") /\ written' = written /\ value' = value
      BY <1>0, <2>5 DEF LockWaitTimeout, Waits
    <3> QED
      BY <1>0, <3>1, StatementsStay
  <2>6. CASE FunctionFails(c)
    <3>1. /\ call'[c].pc = "rollback" /\ call'[c].done = call[c].done
          /\ CallAt(c, "function") /\ written' = written /\ value' = value
      BY <1>0, <2>6 DEF FunctionFails
    <3> QED
      BY <1>0, <3>1, StatementsStay
  <2>7. CASE Rollback(c)
    <3>1. call'[c].pc \in {"begin", "over"}
      <4>1. CASE Retries(c)
        BY <1>0, <2>7, <4>1 DEF Rollback
      <4>2. CASE ~Retries(c)
        <5>1. Returns(c, "error")
          BY <2>7, <4>2, Zenon DEF Rollback
        <5> QED
          BY <1>0, <5>1
      <4> QED
        BY <4>1, <4>2
    <3>2. written'[c] = Nothing
      BY <1>0, <2>7 DEF Rollback
    <3> QED
      BY <3>1, <3>2
  <2>8. CASE RollbackFails(c)
    BY <1>0, <2>8 DEF RollbackFails
  <2>9. CASE Commit(c)
    BY <1>0, <2>9 DEF Commit
  <2>10. CASE CommitFails(c)
    BY <1>0, <2>10 DEF CommitFails
  <2>11. CASE ReturnNil(c)
    BY <1>0, <2>11 DEF ReturnNil
  <2>12. CASE GetLock(c)
    BY <1>0, <2>12 DEF GetLock
  <2>13. CASE GetLockTimesOut(c)
    BY <1>0, <2>13 DEF GetLockTimesOut
  <2>14. CASE PropagateAndRelease(c)
    BY <1>0, <2>14 DEF PropagateAndRelease
  <2>15. CASE ReturnAfterPropagation(c)
    BY <1>0, <2>15 DEF ReturnAfterPropagation
  <2>16. CASE ProcessDies(c)
    BY <1>0, <2>16 DEF ProcessDies
  <2> QED
    BY StepIs, <2>1, <2>2, <2>3, <2>4, <2>5, <2>6, <2>7, <2>8, <2>9, <2>10, <2>11, <2>12, <2>13, <2>14, <2>15, <2>16
<1>2. ASSUME NEW d \in Callers, d # c
      PROVE  /\ call'[d].pc = "function" => written'[d] = Statements(d)'
             /\ call'[d].pc = "rollback" => written'[d] \in {Nothing, Statements(d)'}
             /\ call'[d].pc \notin {"function", "rollback"} => written'[d] = Nothing
  <2>1. call'[d] = call[d] /\ written'[d] = written[d]
    BY <1>2, OthersStay
  <2>2. /\ CallAt(d, "function") => written[d] = Statements(d)
        /\ CallAt(d, "rollback") => written[d] \in {Nothing, Statements(d)}
        /\ call[d].pc \notin {"function", "rollback"} => written[d] = Nothing
    BY DEF Inv, WritesAreStatements
  <2>3. call[d].pc \in {"function", "rollback"} /\ written[d] = Statements(d)
          => written'[d] = Statements(d)'
    BY <1>2, WritesOfOthers
  <2> QED
    BY <2>1, <2>2, <2>3 DEF CallAt
<1> QED
  BY <1>1, <1>2 DEF WritesAreStatements, CallAt

\* Every step of a call keeps the invariant.
LEMMA StepInv ==
  ASSUME Inv, NEW c \in Callers, Step(c)
  PROVE  Inv'
BY TypesKept, ConnectionsKept, WritesKept, RowsKept, RepliesKept, AppliedKept, ModesKept DEF Inv

\* Every step keeps the invariant.
LEMMA NextInv == Inv /\ [TxNext]_txVars => Inv'
<1>1. ASSUME Inv, UNCHANGED txVars
      PROVE  Inv'
  <2> USE <1>1 DEF Inv, txVars
  <2>1. (Types /\ ConnectionsHeld /\ ModesAreAsked)'
    BY DEF Types, ConnectionsHeld, ModesAreAsked, CallAt
  <2>2. (RowsAreExclusive /\ RepliesFollow /\ AppliedFollows)'
    BY DEF RowsAreExclusive, RepliesFollow, AppliedFollows, CallAt, Holds
  <2>3. \A c \in Callers : Statements(c)' = Statements(c)
    BY StatementsStay
  <2>4. WritesAreStatements'
    BY <2>3 DEF WritesAreStatements, CallAt
  <2> QED
    BY <2>1, <2>2, <2>4
<1>2. ASSUME Inv, TxNext
      PROVE  Inv'
  BY <1>2, StepInv DEF TxNext, Step
<1> QED
  BY <1>1, <1>2

\* The strengthened invariant, for all functions, connections and limits of retries.
THEOREM Invariant == TxSpec => []Inv
<1> QED
  BY InitInv, NextInv, PTL DEF TxSpec

\* The invariant says more than the types that the runs check.
LEMMA InvIsTyped == Inv => TxTypeOK
<1> SUFFICES ASSUME Inv PROVE TxTypeOK
  OBVIOUS
<1>1. ASSUME NEW c \in Callers
      PROVE  /\ DOMAIN written[c] \subseteq Rows
             /\ call[c].done \in 0..Len(Order[c])
  <2>1. call[c].done \in Nat /\ Order[c] \in Seq(Rows) /\ call[c].done <= Len(Order[c])
    BY TransactionsAssumption DEF Inv, Types, CallRecord
  <2>2. DoneRows(c) \subseteq Rows
    BY <2>1 DEF DoneRows
  <2>3. DOMAIN written[c] \in {{}, DoneRows(c)}
    BY DEF Inv, WritesAreStatements, Statements, Nothing, CallAt
  <2> QED
    BY <2>1, <2>2, <2>3
<1>2. ASSUME NEW c \in Callers
      PROVE  /\ call[c].pc \in Pcs /\ call[c].count \in 0..RetriesLimit
             /\ call[c].conn \in Connections \union {NoConnection}
             /\ reply[c] \in {"not_called", "none"} \union Answers
  BY DEF Inv, Types, CallRecord
<1>3. /\ DOMAIN value = Rows /\ \A r \in Rows : value[r] \in Nat
      /\ session \in [Connections -> SUBSET AllModes] /\ holder \in Callers \union {NoCaller}
      /\ applied \subseteq Callers /\ unpropagated \subseteq applied /\ prohibits \subseteq Callers
  BY DEF Inv, Types
<1> QED
  BY <1>1, <1>2, <1>3, Zenon DEF TxTypeOK, Pcs, Answers

\* InTransaction and its tables keep their types, and no call is run again more often than
\* transactionRetriesLimit allows.
THEOREM TxTypeCorrect == TxSpec => []TxTypeOK
BY Invariant, InvIsTyped, PTL

\* mysqlConnWrapper and withForeignKeyChecksDisabled: no transaction runs in a mode that a
\* former user of its connection asked for.
THEOREM ModesAreTheCallersOwn == TxSpec => []ModesAreAsked
<1>1. Inv => ModesAreAsked
  BY DEF Inv
<1> QED
  BY <1>1, Invariant, PTL

-------------------------------------------------------------------------------
(* The refinement.                                                         *)

\* The initial states are those of AtomicTransactions.
LEMMA InitIsAtomic == TxInit => Promise!AtomicInit
BY DEF TxInit, Promise!AtomicInit

\* The commit of a transaction applies the whole function at once.
LEMMA CommitApplies ==
  ASSUME Inv, NEW c \in Callers, CallAt(c, "function"), FunctionDone(c), Install(c),
         UNCHANGED prohibits, NEW answer, reply' = [reply EXCEPT ![c] = answer]
  PROVE  Promise!Apply(c, answer)
<1>1. reply[c] = "none" /\ c \notin applied
  BY DEF Inv, Types, RepliesFollow, AppliedFollows, CallAt
<1>2. value' = [r \in Rows |-> value[r] + Times(c, Len(Order[c]), r)]
  BY WritesAre
<1> QED
  BY <1>1, <1>2 DEF Promise!Apply, Promise!Unanswered, Install

\* A call that has not been answered may be answered with an error.
LEMMA AnswersWithError ==
  ASSUME Inv, NEW c \in Callers, call[c].pc \notin {"idle", "over"}, NEW answer \in {"error", "died"},
         Returns(c, answer), UNCHANGED <<value, applied, unpropagated, prohibits>>
  PROVE  Promise!Answer(c)
<1>1. reply[c] = "none"
  BY DEF Inv, Types, RepliesFollow, CallAt
<1>2. Promise!Fail(c, answer)
  BY <1>1 DEF Promise!Fail, Promise!Unanswered, Returns
<1> QED
  BY <1>2 DEF Promise!Answer

\* Every step of a call is one step of AtomicTransactions, or none.
LEMMA StepIsAtomic ==
  ASSUME Inv, NEW c \in Callers, Step(c)
  PROVE  \/ Promise!Invoke(c) \/ Promise!Apply(c, "none") \/ Promise!Propagate(c)
         \/ Promise!Answer(c) \/ UNCHANGED Promise!atomicVars
<1>0. /\ reply \in [Callers -> {"not_called", "none"} \union Answers]
      /\ CallAt(c, "idle") <=> reply[c] = "not_called"
      /\ CallAt(c, "over") <=> reply[c] \in Answers
      /\ call[c].pc \in {"committed", "locked", "propagated"} => c \in applied
      /\ CallAt(c, "propagated") => c \notin unpropagated
      /\ unpropagated \subseteq Schedules
  BY DEF Inv, Types, RepliesFollow, AppliedFollows
<1> USE DEF Promise!atomicVars
<1>1. CASE InTransaction(c)
  <2>1. Promise!Invoke(c)
    BY <1>0, <1>1 DEF InTransaction, Promise!Invoke
  <2> QED
    BY <2>1
<1>2. CASE BeginTx(c)
  <2>1. CASE BeginFails(c)
    BY <2>1, AnswersWithError DEF BeginFails, CallAt
  <2>2. ASSUME NEW k \in Free, Begins(c, k)
        PROVE  UNCHANGED Promise!atomicVars
    BY <2>2 DEF Begins
  <2> QED
    BY <1>2, <2>1, <2>2, BeginTxIs
<1>3. CASE ExecuteStatement(c)
  BY <1>3 DEF ExecuteStatement
<1>4. CASE Deadlock(c)
  BY <1>4 DEF Deadlock
<1>5. CASE LockWaitTimeout(c)
  BY <1>5 DEF LockWaitTimeout
<1>6. CASE FunctionFails(c)
  BY <1>6 DEF FunctionFails
<1>7. CASE Rollback(c)
  <2>1. CASE Returns(c, "error")
    BY <1>7, <2>1, AnswersWithError DEF Rollback, CallAt
  <2>2. CASE UNCHANGED reply
    BY <1>7, <2>2 DEF Rollback
  <2> QED
    BY <1>7, <2>1, <2>2, Zenon DEF Rollback
<1>8. CASE RollbackFails(c)
  BY <1>8, AnswersWithError DEF RollbackFails, CallAt
<1>9. CASE Commit(c)
  <2>1. reply' = [reply EXCEPT ![c] = "none"]
    BY <1>0, <1>9 DEF Commit, CallAt, Answers
  <2>2. Promise!Apply(c, "none")
    BY <1>9, <2>1, CommitApplies DEF Commit
  <2> QED
    BY <2>2
<1>10. CASE CommitFails(c)
  <2>1. CASE Install(c)
    <3>1. Promise!Apply(c, "error")
      BY <1>10, <2>1, CommitApplies DEF CommitFails, Returns
    <3> QED
      BY <3>1 DEF Promise!Answer
  <2>2. CASE UNCHANGED <<value, applied, unpropagated>>
    BY <1>10, <2>2, AnswersWithError DEF CommitFails, CallAt
  <2> QED
    BY <1>10, <2>1, <2>2 DEF CommitFails
<1>11. CASE ReturnNil(c)
  <2>1. Promise!Succeed(c)
    BY <1>0, <1>11 DEF ReturnNil, RunsPropagation, Returns, CallAt, Answers, Promise!Succeed, Promise!Unanswered
  <2> QED
    BY <2>1 DEF Promise!Answer
<1>12. CASE GetLock(c)
  BY <1>12 DEF GetLock
<1>13. CASE GetLockTimesOut(c)
  BY <1>13, AnswersWithError DEF GetLockTimesOut, CallAt
<1>14. CASE PropagateAndRelease(c)
  <2>1. CASE Returns(c, "error") /\ UNCHANGED unpropagated
    BY <1>14, <2>1, AnswersWithError DEF PropagateAndRelease, CallAt
  <2>2. CASE unpropagated' = {} /\ UNCHANGED reply
    <3>1. Promise!Propagate(c)
      BY <1>0, <1>14, <2>2 DEF PropagateAndRelease, CallAt, Promise!Propagate
    <3> QED
      BY <3>1
  <2> QED
    BY <1>14, <2>1, <2>2, Zenon DEF PropagateAndRelease
<1>15. CASE ReturnAfterPropagation(c)
  <2>1. Promise!Succeed(c)
    BY <1>0, <1>15 DEF ReturnAfterPropagation, Returns, CallAt, Answers, Promise!Succeed, Promise!Unanswered
  <2> QED
    BY <2>1 DEF Promise!Answer
<1>16. CASE ProcessDies(c)
  BY <1>16, AnswersWithError DEF ProcessDies
<1> QED
  BY StepIs, <1>1, <1>2, <1>3, <1>4, <1>5, <1>6, <1>7, <1>8, <1>9, <1>10, <1>11, <1>12, <1>13, <1>14, <1>15, <1>16

\* InTransaction implements AtomicTransactions: whatever deadlocks, timeouts, retries, failing
\* commits and deaths interleave, the function of a call is applied whole, at one moment and at
\* most once, before the call is answered without an error.
THEOREM Atomicity == TxSpec => Promise!AtomicSafety
<1>1. Inv /\ [TxNext]_txVars => [Promise!AtomicNext]_(Promise!atomicVars)
  <2>1. ASSUME Inv, NEW c \in Callers, Step(c)
        PROVE  Promise!AtomicNext \/ UNCHANGED Promise!atomicVars
    BY <2>1, StepIsAtomic DEF Promise!AtomicNext
  <2>2. UNCHANGED txVars => UNCHANGED Promise!atomicVars
    BY DEF txVars, Promise!atomicVars
  <2> QED
    BY <2>1, <2>2 DEF TxNext, Step
<1> QED
  BY <1>1, InitIsAtomic, Invariant, PTL DEF TxSpec, Promise!AtomicSafety

(***************************************************************************)
(* Item paths.                                                             *)
(***************************************************************************)
-----------------------------------------------------------------------------
(* Paths, and the scores of their chains.                                  *)

\* A path is a list of items without repetition, in which each is a parent of the next:
\* items that follow each other around would be a cycle.
LEMMA PathFacts ==
  ASSUME NEW p \in LinkPaths
  PROVE  /\ Len(p) \in Nat \ {0} /\ DOMAIN p = 1..Len(p)
         /\ \A n \in 1..Len(p) : p[n] \in PathItems
         /\ \A n, m \in 1..Len(p) : p[n] = p[m] => n = m
<1>1. PICK k \in 1..Cardinality(PathItems) : p \in [1..k -> PathItems]
  BY DEF LinkPaths, ItemSeqs
<1>2. k \in Nat \ {0}
  BY PathsAssumption, FS_CardinalityType
<1>3. Len(p) = k /\ DOMAIN p = 1..k
  BY <1>1, <1>2
<1>4. ASSUME NEW n \in 1..k, NEW m \in 1..k, n < m PROVE p[n] # p[m]
  <2> DEFINE T == {p[j] : j \in (n + 1)..m}
  <2> SUFFICES ASSUME p[n] = p[m] PROVE FALSE
    OBVIOUS
  <2>1. T \in SUBSET PathItems /\ p[m] \in T
    BY <1>1, <1>2, <1>4
  <2>2. PICK i \in T : \A link \in PathLinks : link[2] = i => link[1] \notin T
    <3> HIDE DEF T
    <3> QED
      BY <2>1, PathLinksAcyclic
  <2>3. PICK j \in (n + 1)..m : i = p[j]
    BY <2>2
  <2>4. j \in 2..Len(p) /\ <<p[j - 1], p[j]>> \in PathLinks
    BY <1>2, <1>3, <2>3 DEF LinkPaths
  <2>5. p[j - 1] \notin T
    <3> HIDE DEF T
    <3> QED
      BY <2>2, <2>3, <2>4
  <2>6. CASE j = n + 1
    BY <1>2, <2>1, <2>5, <2>6
  <2>7. CASE j # n + 1
    BY <1>2, <2>3, <2>5, <2>7
  <2> QED
    BY <2>6, <2>7
<1> QED
  BY <1>1, <1>2, <1>3, <1>4

\* The definition of Score, with its function as a parameter.
Bit(p, s, n) == IF StartedIn(p, s, n) THEN 0 ELSE 1
IsScore(f, p, s) ==
  f = [n \in 0..Len(p) |-> IF n = 0 THEN 0 ELSE 2 * f[n - 1] + Bit(p, s, n)]
ScoreUpTo(p, s) == CHOOSE f : IsScore(f, p, s)

\* Score is the last value of that function.
LEMMA ScoreIs == \A p, s : Score(p, s) = ScoreUpTo(p, s)[Len(p)]
BY DEF Score, ScoreUpTo, IsScore, Bit

\* The value of the first n bits.
ScoreAt(f, p, s, n) == f[n] = IF n = 0 THEN 0 ELSE 2 * f[n - 1] + Bit(p, s, n)

\* Every chain has its score.
LEMMA ScoreExists ==
  ASSUME NEW p, Len(p) \in Nat, NEW s
  PROVE  /\ ScoreUpTo(p, s)[0] = 0
         /\ \A n \in 1..Len(p) : ScoreUpTo(p, s)[n] = 2 * ScoreUpTo(p, s)[n - 1] + Bit(p, s, n)
<1> DEFINE Known == {n \in Nat : \E f : \A j \in 0..n : ScoreAt(f, p, s, j)}
<1>1. 0 \in Known
  <2> DEFINE f == [j \in 0..0 |-> 0]
  <2>1. \A j \in 0..0 : ScoreAt(f, p, s, j)
    BY DEF ScoreAt
  <2> QED
    BY <2>1
<1>2. ASSUME NEW n \in Nat, n \in Known PROVE n + 1 \in Known
  <2>1. PICK f : \A j \in 0..n : ScoreAt(f, p, s, j)
    BY <1>2
  <2> DEFINE g == [j \in 0..(n + 1) |-> IF j = n + 1 THEN 2 * f[n] + Bit(p, s, j) ELSE f[j]]
  <2>2. ASSUME NEW j \in 0..(n + 1) PROVE ScoreAt(g, p, s, j)
    <3>1. CASE j = n + 1
      <4>1. g[j] = 2 * f[n] + Bit(p, s, j) /\ j # 0 /\ j - 1 = n /\ g[n] = f[n]
        BY <3>1
      <4> HIDE DEF g
      <4> QED
        BY <4>1 DEF ScoreAt
    <3>2. CASE j # n + 1
      <4>1. g[j] = f[j] /\ j \in 0..n /\ (j # 0 => g[j - 1] = f[j - 1])
        BY <3>2
      <4>2. ScoreAt(f, p, s, j)
        BY <2>1, <4>1
      <4> HIDE DEF g
      <4> QED
        BY <4>1, <4>2, Zenon DEF ScoreAt
    <3> QED
      BY <3>1, <3>2
  <2> HIDE DEF g
  <2> QED
    BY <2>2
<1>3. Nat \subseteq Known
  <2> HIDE DEF Known
  <2> QED
    BY <1>1, <1>2, Induction
<1>4. PICK f : \A j \in 0..Len(p) : ScoreAt(f, p, s, j)
  BY <1>3
<1> DEFINE g == [j \in 0..Len(p) |-> f[j]]
<1>5. \A j \in 0..Len(p) : ScoreAt(g, p, s, j)
  <2> SUFFICES ASSUME NEW j \in 0..Len(p) PROVE ScoreAt(g, p, s, j)
    OBVIOUS
  <2>1. g[j] = f[j] /\ (j # 0 => g[j - 1] = f[j - 1])
    OBVIOUS
  <2>2. ScoreAt(f, p, s, j)
    BY <1>4
  <2> HIDE DEF g
  <2> QED
    BY <2>1, <2>2, Zenon DEF ScoreAt
<1>6. IsScore(g, p, s)
  <2>1. g = [j \in 0..Len(p) |-> g[j]]
    OBVIOUS
  <2> HIDE DEF g
  <2> QED
    BY <1>5, <2>1 DEF ScoreAt, IsScore
<1>7. IsScore(ScoreUpTo(p, s), p, s)
  <2> HIDE DEF g
  <2> QED
    BY <1>6 DEF ScoreUpTo
<1> DEFINE h == ScoreUpTo(p, s)
<1> HIDE DEF h
<1>8. \A n \in 0..Len(p) : h[n] = IF n = 0 THEN 0 ELSE 2 * h[n - 1] + Bit(p, s, n)
  BY <1>7 DEF IsScore, h
<1>9. h[0] = 0 /\ \A n \in 1..Len(p) : h[n] = 2 * h[n - 1] + Bit(p, s, n)
  BY <1>8
<1> QED
  BY <1>9 DEF h

\* A chain with fewer unstarted results has a score that is not higher; it is 0 when all
\* results are started, and then only.
LEMMA ScoreFacts ==
  ASSUME NEW p, Len(p) \in Nat, NEW s
  PROVE  /\ Score(p, s) \in Nat
         /\ Score(p, s) = 0 <=> \A n \in 1..Len(p) : StartedIn(p, s, n)
         /\ \A t : (\A n \in 1..Len(p) : StartedIn(p, s, n) => StartedIn(p, t, n))
                     => Score(p, t) <= Score(p, s)
<1> DEFINE f == ScoreUpTo(p, s)
           Known == {n \in Nat : n <= Len(p) => f[n] \in Nat /\ (f[n] = 0 <=> \A m \in 1..n : StartedIn(p, s, m))}
<1>0. f[0] = 0 /\ \A n \in 1..Len(p) : f[n] = 2 * f[n - 1] + Bit(p, s, n)
  BY ScoreExists
<1>1. 0 \in Known
  BY <1>0
<1>2. ASSUME NEW n \in Nat, n \in Known PROVE n + 1 \in Known
  <2> SUFFICES ASSUME n + 1 <= Len(p)
               PROVE  f[n + 1] \in Nat /\ (f[n + 1] = 0 <=> \A m \in 1..(n + 1) : StartedIn(p, s, m))
    OBVIOUS
  <2>1. f[n + 1] = 2 * f[n] + Bit(p, s, n + 1)
    BY <1>0
  <2>2. f[n] \in Nat /\ (f[n] = 0 <=> \A m \in 1..n : StartedIn(p, s, m))
    BY <1>2
  <2> HIDE DEF f
  <2>3. \A m \in 1..(n + 1) : m \in 1..n \/ m = n + 1
    OBVIOUS
  <2>4. 1..n \subseteq 1..(n + 1) /\ n + 1 \in 1..(n + 1)
    OBVIOUS
  <2>5. (\A m \in 1..(n + 1) : StartedIn(p, s, m)) <=> (\A m \in 1..n : StartedIn(p, s, m)) /\ StartedIn(p, s, n + 1)
    BY <2>3, <2>4, Zenon
  <2> QED
    BY <2>1, <2>2, <2>5, SMTT(30) DEF Bit
<1>3. Nat \subseteq Known
  <2> HIDE DEF Known
  <2> QED
    BY <1>1, <1>2, Induction
<1>4. \A n \in 0..Len(p) : f[n] \in Nat /\ (f[n] = 0 <=> \A m \in 1..n : StartedIn(p, s, m))
  BY <1>3
<1>5. ASSUME NEW t, \A n \in 1..Len(p) : StartedIn(p, s, n) => StartedIn(p, t, n)
      PROVE  Score(p, t) <= Score(p, s)
  <2> DEFINE g == ScoreUpTo(p, t)
             Lower == {n \in Nat : n <= Len(p) => g[n] \in Nat /\ g[n] <= f[n]}
  <2>0. g[0] = 0 /\ \A n \in 1..Len(p) : g[n] = 2 * g[n - 1] + Bit(p, t, n)
    BY ScoreExists
  <2>1. 0 \in Lower
    BY <1>0, <2>0
  <2>2. ASSUME NEW n \in Nat, n \in Lower PROVE n + 1 \in Lower
    <3> SUFFICES ASSUME n + 1 <= Len(p) PROVE g[n + 1] \in Nat /\ g[n + 1] <= f[n + 1]
      OBVIOUS
    <3>1. f[n + 1] = 2 * f[n] + Bit(p, s, n + 1) /\ g[n + 1] = 2 * g[n] + Bit(p, t, n + 1)
      BY <1>0, <2>0
    <3>2. f[n] \in Nat /\ g[n] \in Nat /\ g[n] <= f[n]
      BY <1>4, <2>2
    <3>3. Bit(p, t, n + 1) <= Bit(p, s, n + 1) /\ Bit(p, t, n + 1) \in {0, 1} /\ Bit(p, s, n + 1) \in {0, 1}
      BY <1>5 DEF Bit
    <3> HIDE DEF f, g
    <3> QED
      BY <3>1, <3>2, <3>3
  <2>3. Nat \subseteq Lower
    <3> HIDE DEF Lower
    <3> QED
      BY <2>1, <2>2, Induction
  <2>4. g[Len(p)] <= f[Len(p)]
    BY <2>3
  <2> QED
    BY <2>4, ScoreIs
<1>6. Score(p, s) = f[Len(p)]
  BY ScoreIs
<1> HIDE DEF f
<1> QED
  BY <1>4, <1>5, <1>6
-----------------------------------------------------------------------------
(* Chains of attempts.                                                     *)

Chains(p) == [DOMAIN p -> AttemptIds]
Over(s, n) == IF n = 1 THEN NoAttempt ELSE s[n - 1]

\* The joins of the three queries.
Joined(p, s) == \A n \in DOMAIN p : s[n] \in Joinable(p[n], Over(s, n))
AllStarted(p, s) == \A n \in DOMAIN p : HasStarted(s[n], p[n])

\* From an attempt the joins lead to the same attempts above.
LEMMA SameAbove ==
  ASSUME NEW p \in LinkPaths, NEW s \in Chains(p), NEW t \in Chains(p),
         \A n \in 2..Len(p) : AttemptOver(s[n], p[n]) = s[n - 1],
         \A n \in 2..Len(p) : AttemptOver(t[n], p[n]) = t[n - 1],
         NEW n \in 1..Len(p), s[n] = t[n]
  PROVE  \A m \in 1..n : s[m] = t[m]
<1> DEFINE Known == {k \in Nat : \A m \in 1..n : n - m <= k => s[m] = t[m]}
<1>1. Len(p) \in Nat
  BY PathFacts
<1>2. 0 \in Known
  BY <1>1
<1>3. ASSUME NEW k \in Nat, k \in Known PROVE k + 1 \in Known
  <2> SUFFICES ASSUME NEW m \in 1..n, n - m <= k + 1 PROVE s[m] = t[m]
    OBVIOUS
  <2>1. CASE n - m <= k
    BY <1>3, <2>1
  <2>2. CASE ~(n - m <= k)
    <3>1. m + 1 \in 1..n /\ n - (m + 1) <= k /\ m + 1 \in 2..Len(p) /\ (m + 1) - 1 = m
      BY <1>1, <2>2
    <3>2. s[m + 1] = t[m + 1]
      BY <1>3, <3>1
    <3>3. AttemptOver(s[m + 1], p[m + 1]) = s[m] /\ AttemptOver(t[m + 1], p[m + 1]) = t[m]
      BY <3>1
    <3> QED
      BY <3>2, <3>3
  <2> QED
    BY <2>1, <2>2
<1>4. Nat \subseteq Known
  <2> HIDE DEF Known
  <2> QED
    BY <1>2, <1>3, Induction
<1>5. n \in Known
  <2> HIDE DEF Known
  <2> QED
    BY <1>1, <1>4
<1>6. \A m \in 1..n : n - m <= n
  BY <1>1
<1> QED
  BY <1>5, <1>6

\* An attempt is a number.
LEMMA AttemptNumbers == AttemptIds \subseteq Nat /\ NoAttempt \notin AttemptIds /\ 0 \in AttemptIds
BY PathsAssumption DEF AttemptIds

\* The joins, one by one.
LEMMA JoinedFacts ==
  ASSUME NEW p \in LinkPaths, NEW s \in Chains(p)
  PROVE  Joined(p, s) <=> /\ \A n \in 1..Len(p) : AttemptThere(s[n]) /\ (p[n] \in EntryItems => Row(s[n]).root = p[n])
                          /\ \A n \in 2..Len(p) : AttemptOver(s[n], p[n]) = s[n - 1]
<1>1. Len(p) \in Nat \ {0} /\ DOMAIN p = 1..Len(p)
  BY PathFacts
<1>2. \A n \in 1..Len(p) : s[n] \in AttemptIds
  BY <1>1 DEF Chains
<1>3. \A n \in 1..Len(p) : n = 1 \/ (n \in 2..Len(p) /\ n - 1 \in 1..Len(p) /\ Over(s, n) = s[n - 1])
  BY <1>1 DEF Over
<1>4. \A n \in 2..Len(p) : n # 1 /\ n \in 1..Len(p)
  BY <1>1
<1>5. Over(s, 1) = NoAttempt
  BY DEF Over
<1>6. \A n \in 1..Len(p) : s[n] \in Joinable(p[n], Over(s, n)) <=>
        /\ AttemptThere(s[n]) /\ (p[n] \in EntryItems => Row(s[n]).root = p[n])
        /\ n \in 2..Len(p) => AttemptOver(s[n], p[n]) = s[n - 1]
  <2> SUFFICES ASSUME NEW n \in 1..Len(p)
               PROVE  s[n] \in Joinable(p[n], Over(s, n)) <=>
                        /\ AttemptThere(s[n]) /\ (p[n] \in EntryItems => Row(s[n]).root = p[n])
                        /\ n \in 2..Len(p) => AttemptOver(s[n], p[n]) = s[n - 1]
    OBVIOUS
  <2>1. s[n] \in AttemptIds
    BY <1>2
  <2>2. CASE n = 1
    <3>1. n \notin 2..Len(p) /\ Over(s, n) = NoAttempt
      BY <1>4, <1>5, <2>2
    <3> QED
      BY <2>1, <3>1, Zenon DEF Joinable
  <2>3. CASE n # 1
    <3>1. n \in 2..Len(p) /\ Over(s, n) = s[n - 1] /\ s[n - 1] # NoAttempt
      BY <1>2, <1>3, <2>3, AttemptNumbers
    <3> QED
      BY <2>1, <3>1, Zenon DEF Joinable
  <2> QED
    BY <2>2, <2>3
<1>7. Joined(p, s) <=> \A n \in 1..Len(p) : s[n] \in Joinable(p[n], Over(s, n))
  BY <1>1, Zenon DEF Joined
<1> QED
  BY <1>4, <1>6, <1>7, Zenon

\* The definitions of the chains found and startable, by the joins.
LEMMA StartableIs ==
  ASSUME NEW p \in LinkPaths, NEW s
  PROVE  s \in StartableChains(p) <=>
           /\ s \in Chains(p) /\ Joined(p, s)
           /\ \A n \in 1..Len(p) : /\ p[n] \in EntryItems => HasResult(s[n], p[n])
                                   /\ HasStarted(s[n], p[n]) \/ OpenUpTo(s, n)
           /\ HasResult(s[1], p[1]) \/ s[1] = 0
<1>1. DOMAIN p = 1..Len(p)
  BY PathFacts
<1> QED
  BY <1>1, Zenon DEF StartableChains, Chains, Joined, Over, OpenUpTo

LEMMA FoundIs ==
  ASSUME NEW p \in LinkPaths, NEW s \in Chains(p)
  PROVE  s \in FoundChains(p) <=>
           /\ Joined(p, s) /\ \A n \in 1..Len(p) : views[p[n]] >= 2
           /\ \A n \in 1..Len(p) : n < Len(p) => PassesThrough(p, s, n)
<1>1. DOMAIN p = 1..Len(p)
  BY PathFacts
<1>2. s \in [DOMAIN p -> AttemptIds \union {NoAttempt}]
  BY <1>1 DEF Chains
<1>3. \A n \in 1..Len(p) :
        s[n] \in (IF Joinable(p[n], Over(s, n)) = {} THEN {NoAttempt} ELSE Joinable(p[n], Over(s, n)))
          <=> s[n] \in Joinable(p[n], Over(s, n))
  <2>1. \A n \in 1..Len(p) : s[n] # NoAttempt
    BY <1>1, AttemptNumbers DEF Chains
  <2> QED
    BY <2>1
<1>4. s \in FoundChains(p) <=>
        \A n \in 1..Len(p) :
          /\ views[p[n]] >= 2
          /\ s[n] \in (IF Joinable(p[n], Over(s, n)) = {} THEN {NoAttempt} ELSE Joinable(p[n], Over(s, n)))
          /\ n < Len(p) => PassesThrough(p, s, n)
  BY <1>1, <1>2, Zenon DEF FoundChains, Over
<1> QED
  BY <1>1, <1>3, <1>4, Zenon DEF Joined

\* Of two chains of a path one is before the other in the order of the attempts.
LEMMA HigherIsTotal ==
  ASSUME NEW p \in LinkPaths, NEW s \in Chains(p), NEW t \in Chains(p)
  PROVE  /\ s = t => ~HigherAttempts(s, t)
         /\ s # t => HigherAttempts(s, t) \/ HigherAttempts(t, s)
<1>1. Len(p) \in Nat /\ DOMAIN p = 1..Len(p) /\ DOMAIN s = DOMAIN p /\ DOMAIN t = DOMAIN p
  BY PathFacts DEF Chains
<1>2. \A n \in DOMAIN p : s[n] \in Nat /\ t[n] \in Nat
  BY AttemptNumbers DEF Chains
<1>3. NoAttempt \notin {t[n] : n \in DOMAIN t} /\ NoAttempt \notin {s[n] : n \in DOMAIN s}
  BY <1>1, AttemptNumbers DEF Chains
<1> DEFINE common == {n \in DOMAIN s \intersect DOMAIN t : s[n] # t[n]}
<1>4. {n \in DOMAIN t \intersect DOMAIN s : t[n] # s[n]} = common
  OBVIOUS
<1>5. HigherAttempts(s, t) <=> IF common = {} THEN Len(s) > Len(t) ELSE s[Min(common)] > t[Min(common)]
  BY <1>3, Zenon DEF HigherAttempts
<1>6. HigherAttempts(t, s) <=> IF common = {} THEN Len(t) > Len(s) ELSE t[Min(common)] > s[Min(common)]
  BY <1>3, <1>4, Zenon DEF HigherAttempts
<1>7. CASE s = t
  <2>1. common = {}
    BY <1>7
  <2>2. Len(s) = Len(p)
    BY <1>1
  <2> HIDE DEF common
  <2> QED
    BY <1>1, <1>5, <1>7, <2>1, <2>2
<1>8. CASE s # t
  <2>1. common # {}
    BY <1>1, <1>8 DEF Chains
  <2>2. common \in SUBSET Nat
    BY <1>1
  <2>3. Min(common) \in common
    <3> HIDE DEF common
    <3> QED
      BY <2>1, <2>2, LeastNatural
  <2>4. Min(common) \in DOMAIN p /\ s[Min(common)] # t[Min(common)]
    BY <1>1, <2>3
  <2> HIDE DEF common
  <2>5. s[Min(common)] > t[Min(common)] \/ t[Min(common)] > s[Min(common)]
    BY <1>2, <2>4
  <2> QED
    BY <1>5, <1>6, <1>8, <2>1, <2>5
<1> QED
  BY <1>7, <1>8
-----------------------------------------------------------------------------
(* The three properties.                                                   *)

\* The tables that the properties read, and that the first attempt is always open.
FirstAttempt == [root |-> NoAttempt, parent |-> NoAttempt, until |-> Always, ended |-> FALSE]
PathTables ==
  /\ views \in [PathItems -> 1..3]
  /\ DOMAIN attemptRows = AttemptIds /\ attemptRows[0] = FirstAttempt
  /\ DOMAIN resultRows = AttemptIds \X PathItems
  /\ pathClock \in 0..LastInstantOfPaths

\* A chain along which results can be started is one that FindItemPaths has found.
LEMMA StartableAreFound ==
  ASSUME PathTables, NEW p \in LinkPaths, hasAccessToItemPath(p), NEW s \in StartableChains(p)
  PROVE  s \in FoundChains(p) /\ s \in Chains(p)
<1>1. Len(p) \in Nat \ {0} /\ DOMAIN p = 1..Len(p)
  BY PathFacts
<1>2. \A n \in 1..Len(p) : views[p[n]] >= 3
  BY <1>1 DEF hasAccessToItemPath
<1>3. s \in Chains(p) /\ Joined(p, s)
  BY StartableIs
<1>4. \A n \in 1..Len(p) : s[n] # NoAttempt
  BY <1>1, <1>3, AttemptNumbers DEF Chains
<1>5. \A n \in 1..Len(p) : PassesThrough(p, s, n)
  BY <1>2, <1>4, StartableIs DEF PassesThrough
<1>6. \A n \in 1..Len(p) : views[p[n]] >= 2
  <2> SUFFICES ASSUME NEW n \in 1..Len(p) PROVE views[p[n]] >= 2
    OBVIOUS
  <2>1. views[p[n]] \in 1..3
    BY PathFacts DEF PathTables
  <2> QED
    BY <1>2, <2>1
<1> QED
  BY <1>3, <1>5, <1>6, FoundIs

\* A chain of one attempt, and two of them.
Single(a) == [n \in 1..1 |-> a]

LEMMA SinglesCompare ==
  ASSUME NEW p \in LinkPaths, Len(p) = 1, NEW a \in AttemptIds, NEW b \in AttemptIds, a <= b
  PROVE  ~HigherAttempts(Single(a), Single(b))
<1> DEFINE s == Single(a)
           t == Single(b)
           common == {n \in DOMAIN s \intersect DOMAIN t : s[n] # t[n]}
<1>1. DOMAIN s = 1..1 /\ DOMAIN t = 1..1 /\ s[1] = a /\ t[1] = b /\ Len(s) = 1 /\ Len(t) = 1
  BY DEF Single
<1>2. NoAttempt \notin {t[n] : n \in DOMAIN t} /\ NoAttempt \notin {s[n] : n \in DOMAIN s}
  BY AttemptNumbers DEF Single
<1>3. HigherAttempts(s, t) <=> IF common = {} THEN Len(s) > Len(t) ELSE s[Min(common)] > t[Min(common)]
  BY <1>2, Zenon DEF HigherAttempts
<1>4. common \subseteq 1..1
  BY <1>1
<1>5. common # {} => Min(common) \in common
  <2> HIDE DEF common
  <2> QED
    BY <1>4, LeastNatural
<1>6. common # {} => Min(common) = 1
  <2> HIDE DEF common
  <2>1. \A n \in 1..1 : n = 1
    OBVIOUS
  <2> QED
    BY <1>4, <1>5, <2>1
<1>7. a \in Nat /\ b \in Nat
  BY AttemptNumbers
<1>8. ~(IF common = {} THEN Len(s) > Len(t) ELSE s[Min(common)] > t[Min(common)])
  <2> HIDE DEF common, s, t
  <2> QED
    BY <1>1, <1>6, <1>7
<1> QED
  BY <1>3, <1>8, Zenon

\* Some attempts: one is the latest.
LEMMA LatestAttempt ==
  ASSUME NEW B \in SUBSET AttemptIds, B # {}
  PROVE  \E b \in B : \A a \in B : a <= b
<1> DEFINE D == {LastAttempt - a : a \in B}
<1>0. LastAttempt \in Nat /\ B \subseteq 0..LastAttempt
  <2>1. LastAttempt \in Nat
    BY PathsAssumption, Zenon
  <2>2. B \subseteq 0..LastAttempt
    BY Zenon DEF AttemptIds
  <2> QED
    BY <2>1, <2>2
<1>1. D \in SUBSET Nat /\ D # {}
  <2>1. \A a \in B : LastAttempt - a \in Nat
    BY <1>0
  <2> QED
    BY <2>1
<1>2. Min(D) \in D /\ \A d \in D : Min(D) <= d
  <2> HIDE DEF D
  <2> QED
    BY <1>1, LeastNatural
<1>3. PICK b \in B : Min(D) = LastAttempt - b
  BY <1>2
<1>4. \A a \in B : LastAttempt - b <= LastAttempt - a
  BY <1>2, <1>3
<1> QED
  BY <1>0, <1>4

\* On a path of one item the first attempt can always be used.
LEMMA RootCanBeStarted ==
  ASSUME PathTables, NEW p \in LinkPaths, Len(p) = 1, hasAccessToItemPath(p), p[1] \notin EntryItems
  PROVE  getDataForResultPathStart(p) # {}
<1> DEFINE T == {a \in AttemptIds : Single(a) \in StartableChains(p)}
           St == {a \in T : HasStarted(a, p[1])}
           B == IF St = {} THEN T ELSE St
<1>0. DOMAIN p = 1..1 /\ \A a : Single(a)[1] = a
  BY PathFacts DEF Single
<1>1. \A a \in AttemptIds : StartedIn(p, Single(a), 1) <=> HasStarted(a, p[1])
  BY <1>0, AttemptNumbers, Zenon DEF StartedIn
<1>2. 0 \in T
  <2>1. AttemptThere(0) /\ IsOpen(0)
    <3>1. attemptRows[0] # NoAttempt
      <4>1. FirstAttempt \in [root : PathItems \union {NoAttempt}, parent : Int \union {NoAttempt},
                              until : Int, ended : BOOLEAN]
        BY PathsAssumption DEF FirstAttempt, Always
      <4> QED
        BY <4>1, PathsAssumption, Zenon DEF PathTables
    <3>2. ~attemptRows[0].ended /\ pathClock < attemptRows[0].until
      BY PathsAssumption DEF PathTables, FirstAttempt, Always
    <3> QED
      BY <3>1, <3>2 DEF AttemptThere, IsOpen, Row
  <2>2. Single(0) \in Chains(p) /\ 0 \in AttemptIds
    BY <1>0, AttemptNumbers DEF Single, Chains
  <2>3. Joined(p, Single(0))
    <3>1. Len(p) = 1 /\ 2..Len(p) = {} /\ 1..Len(p) = {1}
      OBVIOUS
    <3>2. \A n \in 1..Len(p) : AttemptThere(Single(0)[n]) /\ p[n] \notin EntryItems
      BY <1>0, <2>1, <3>1
    <3> QED
      BY <2>2, <3>1, <3>2, JoinedFacts, Zenon
  <2>4. OpenUpTo(Single(0), 1)
    BY <1>0, <2>1 DEF OpenUpTo
  <2>5. 1..Len(p) = {1}
    OBVIOUS
  <2>6. Single(0) \in StartableChains(p)
    BY <1>0, <2>2, <2>3, <2>4, <2>5, StartableIs
  <2> QED
    BY <2>2, <2>6
<1>3. B # {} /\ B \in SUBSET AttemptIds
  BY <1>2
<1>4. PICK b \in B : \A a \in B : a <= b
  <2> HIDE DEF B
  <2> QED
    BY <1>3, LatestAttempt
<1>5. b \in T /\ b \in AttemptIds /\ Single(b) \in StartableChains(p)
  BY <1>4
<1>6. ASSUME NEW t \in StartableChains(p) PROVE ~Precedes(p, t, p, Single(b))
  <2> DEFINE a == t[1]
  <2>1. t \in Chains(p)
    BY StartableIs
  <2>2. t = Single(a) /\ a \in AttemptIds
    BY <1>0, <2>1 DEF Chains, Single
  <2> HIDE DEF a
  <2>3. a \in T
    BY <2>2
  <2>4. /\ Score(p, t) \in Nat /\ Score(p, Single(b)) \in Nat
        /\ Score(p, t) = 0 <=> HasStarted(a, p[1])
        /\ Score(p, Single(b)) = 0 <=> HasStarted(b, p[1])
        /\ (HasStarted(a, p[1]) => HasStarted(b, p[1])) => Score(p, Single(b)) <= Score(p, t)
    <3>1. 1..Len(p) = {1} /\ Len(p) \in Nat
      OBVIOUS
    <3> QED
      BY <1>1, <1>5, <2>2, <3>1, ScoreFacts
  <2>5. HasStarted(a, p[1]) => HasStarted(b, p[1])
    BY <1>4, <2>3
  <2>6. Score(p, t) = Score(p, Single(b)) => a \in B
    BY <1>5, <2>3, <2>4
  <2>7. a \in B => ~HigherAttempts(t, Single(b))
    <3> HIDE DEF B
    <3> QED
      BY <1>4, <1>5, <2>2, SinglesCompare
  <2>8. ~(Score(p, t) < Score(p, Single(b)))
    BY <2>4, <2>5
  <2> HIDE DEF B
  <2> QED
    BY <2>6, <2>7, <2>8, Zenon DEF Precedes
<1>7. Single(b) \in getDataForResultPathStart(p)
  BY <1>5, <1>6, Zenon DEF getDataForResultPathStart
<1> QED
  BY <1>7
\* A chain found whose attempts are open can be taken, when the last item can be started.
LEMMA OpenAreStartable ==
  ASSUME PathTables, NEW p \in LinkPaths, Len(p) # 1, NEW s \in FoundChains(p),
         views[LastItem(p)] >= 3, LastItem(p) \notin EntryItems,
         NoAttempt \notin {s[n] : n \in DOMAIN p}, \A n \in DOMAIN p : IsOpen(s[n])
  PROVE  hasAccessToItemPath(p) /\ s \in StartableChains(p)
<1>0. Len(p) \in Nat \ {0} /\ DOMAIN p = 1..Len(p)
  BY PathFacts
<1>1. Len(p) \in Nat \ {0} /\ DOMAIN p = 1..Len(p) /\ Len(p) > 1
  BY <1>0
<1>2. s \in Chains(p)
  <2>1. s \in [DOMAIN p -> AttemptIds \union {NoAttempt}]
    BY Zenon DEF FoundChains
  <2> QED
    BY <2>1 DEF Chains
<1>3. Joined(p, s) /\ \A n \in 1..Len(p) : n < Len(p) => PassesThrough(p, s, n)
  BY <1>2, FoundIs
<1>4. \A n \in 1..Len(p) : n < Len(p) \/ n = Len(p)
  <2>1. \A k \in Nat : \A n \in 1..k : n < k \/ n = k
    OBVIOUS
  <2> QED
    BY <1>1, <2>1, Zenon
<1>5. hasAccessToItemPath(p)
  BY <1>1, <1>3, <1>4, Zenon DEF hasAccessToItemPath, PassesThrough, LastItem
<1>6. \A n \in 1..Len(p) : /\ p[n] \in EntryItems => HasResult(s[n], p[n])
                           /\ HasStarted(s[n], p[n]) \/ OpenUpTo(s, n)
  <2>1. \A n \in 1..Len(p) : p[n] \in EntryItems => HasResult(s[n], p[n])
    BY <1>3, <1>4, Zenon DEF PassesThrough, LastItem
  <2>2. \A n \in 1..Len(p) : 1..n \subseteq 1..Len(p)
    BY <1>1
  <2>3. \A n \in 1..Len(p) : OpenUpTo(s, n)
    BY <1>1, <2>2, Zenon DEF OpenUpTo
  <2> QED
    BY <2>1, <2>3
<1>7. HasResult(s[1], p[1]) \/ s[1] = 0
  <2>1. 1 \in 1..Len(p) /\ 1 < Len(p)
    BY <1>1
  <2>2. PassesThrough(p, s, 1)
    BY <1>3, <2>1
  <2> QED
    BY <2>2, Zenon DEF PassesThrough
<1> QED
  BY <1>2, <1>3, <1>5, <1>6, <1>7, StartableIs

\* What FindItemPaths finds can be started.
LEMMA FoundAreStartable ==
  ASSUME PathTables PROVE FoundPathsCanBeStarted
<1> SUFFICES ASSUME NEW i \in PathItems, NEW p \in FindItemPaths(i), views[i] >= 3, i \notin EntryItems,
                    NEW s \in FoundChains(p), NoAttempt \notin {s[n] : n \in DOMAIN p},
                    \A n \in DOMAIN p : IsOpen(s[n]),
                    \A t \in FoundChains(p) : ~Precedes(p, t, p, s)
             PROVE  getDataForResultPathStart(p) # {}
  BY Zenon DEF FoundPathsCanBeStarted
<1>1. p \in LinkPaths /\ LastItem(p) = i
  BY DEF FindItemPaths, PathsTo, RootPaths
<1>2. CASE Len(p) = 1
  <2>1. p[1] = i /\ DOMAIN p = {1}
    BY <1>1, <1>2, PathFacts DEF LastItem
  <2>2. hasAccessToItemPath(p)
    BY <2>1 DEF hasAccessToItemPath
  <2> QED
    BY <1>1, <1>2, <2>1, <2>2, RootCanBeStarted
<1>3. CASE Len(p) # 1
  <2>1. hasAccessToItemPath(p) /\ s \in StartableChains(p)
    BY <1>1, <1>3, OpenAreStartable
  <2>2. \A t \in StartableChains(p) : ~Precedes(p, t, p, s)
    BY <1>1, <2>1, StartableAreFound
  <2>3. s \in getDataForResultPathStart(p)
    BY <2>1, <2>2, Zenon DEF getDataForResultPathStart
  <2> QED
    BY <2>3
<1> QED
  BY <1>2, <1>3

\* What was started along a path: the chain is joined and started, and none that is
\* started has higher attempts.
IsKnown(p, s) ==
  /\ p \in RootPaths /\ s \in Chains(p) /\ Joined(p, s) /\ AllStarted(p, s)
  /\ hasAccessToItemPath(p)
  /\ \A t \in Chains(p) : Joined(p, t) /\ AllStarted(p, t) => ~HigherAttempts(t, s)

ReturnedIsKnown == returned # NothingReturned => IsKnown(returned.path, returned.chain)

\* Started results are all along the chain, exactly when the score is 0.
LEMMA StartedScore ==
  ASSUME NEW p \in LinkPaths, NEW s \in Chains(p)
  PROVE  /\ Score(p, s) \in Nat
         /\ Score(p, s) = 0 <=> AllStarted(p, s)
<1>1. Len(p) \in Nat /\ DOMAIN p = 1..Len(p)
  BY PathFacts
<1>2. \A n \in 1..Len(p) : StartedIn(p, s, n) <=> HasStarted(s[n], p[n])
  BY <1>1, AttemptNumbers DEF StartedIn, Chains
<1> QED
  BY <1>1, <1>2, ScoreFacts, Zenon DEF AllStarted

\* The three queries know such a chain.
LEMMA KnownIsFound ==
  ASSUME PathTables, NEW p, NEW s, IsKnown(p, s)
  PROVE  /\ s \in FoundChains(p) /\ \A t \in FoundChains(p) : ~Precedes(p, t, p, s)
         /\ IsStartedPath(p) /\ getDataForResultPathStart(p) = {s}
<1>1. p \in LinkPaths /\ Len(p) \in Nat \ {0} /\ DOMAIN p = 1..Len(p)
  BY PathFacts DEF IsKnown, RootPaths
<1>2. s \in Chains(p) /\ Joined(p, s) /\ AllStarted(p, s) /\ hasAccessToItemPath(p)
  BY DEF IsKnown
<1>3. \A n \in 1..Len(p) : HasStarted(s[n], p[n]) /\ HasResult(s[n], p[n])
  BY <1>1, <1>2 DEF AllStarted, HasStarted, HasResult
<1>4. s \in StartableChains(p)
  BY <1>1, <1>2, <1>3, StartableIs
<1>5. s \in FoundChains(p)
  BY <1>1, <1>2, <1>4, StartableAreFound
<1>6. Score(p, s) = 0
  BY <1>1, <1>2, StartedScore
<1>7. ASSUME NEW t \in FoundChains(p) PROVE ~Precedes(p, t, p, s)
  <2> SUFFICES ASSUME Precedes(p, t, p, s) PROVE FALSE
    OBVIOUS
  <2>1. Score(p, t) \in Nat /\ (Score(p, t) = 0 => \A n \in 1..Len(p) : StartedIn(p, t, n))
    BY <1>1, ScoreFacts
  <2>2. Score(p, t) = 0 /\ HigherAttempts(t, s)
    BY <1>6, <2>1 DEF Precedes
  <2>3. t \in Chains(p) /\ AllStarted(p, t)
    <3>1. t \in [DOMAIN p -> AttemptIds \union {NoAttempt}]
      BY Zenon DEF FoundChains
    <3> QED
      BY <1>1, <2>1, <2>2, <3>1 DEF Chains, AllStarted, StartedIn
  <2>4. Joined(p, t)
    BY <1>1, <2>3, FoundIs
  <2> QED
    BY <2>2, <2>3, <2>4 DEF IsKnown
<1>8. IsStartedPath(p)
  <2>1. \A n \in DOMAIN p : StartedIn(p, s, n)
    BY <1>1, <1>2, <1>3, AttemptNumbers DEF StartedIn, Chains
  <2> QED
    BY <1>5, <1>7, <2>1, Zenon DEF IsStartedPath
<1>9. ASSUME NEW t \in StartableChains(p), t # s PROVE Precedes(p, s, p, t)
  <2>1. t \in Chains(p) /\ Joined(p, t)
    BY <1>1, StartableIs
  <2>2. Score(p, t) \in Nat /\ (Score(p, t) = 0 => AllStarted(p, t))
    BY <1>1, <2>1, StartedScore
  <2>3. Score(p, t) = 0 => HigherAttempts(s, t)
    BY <1>1, <1>2, <1>9, <2>1, <2>2, HigherIsTotal DEF IsKnown
  <2> QED
    BY <1>6, <2>2, <2>3 DEF Precedes
<1>10. \A t \in StartableChains(p) : ~Precedes(p, t, p, s)
  BY <1>1, <1>2, <1>7, StartableAreFound
<1>11. \A t : t \in getDataForResultPathStart(p) <=>
              t \in StartableChains(p) /\ \A u \in StartableChains(p) : ~Precedes(p, u, p, t)
  BY <1>2, Zenon DEF getDataForResultPathStart
<1>12. getDataForResultPathStart(p) = {s}
  BY <1>4, <1>9, <1>10, <1>11, Zenon
<1> QED
  BY <1>5, <1>7, <1>8, <1>12

\* getPathFromRoot goes along a started path, if there is one.
LEMMA KnownIsFirst ==
  ASSUME PathTables, NEW p, NEW s, IsKnown(p, s), NEW q \in getPathFromRoot(LastItem(p))
  PROVE  IsStartedPath(q)
<1>1. p \in RootPaths /\ p \in LinkPaths /\ Len(p) \in Nat /\ DOMAIN p = 1..Len(p)
  BY PathFacts DEF IsKnown, RootPaths
<1>2. s \in FoundChains(p) /\ p \in FindItemPaths(LastItem(p))
  <2>1. s \in FoundChains(p)
    BY KnownIsFound, Zenon
  <2> QED
    BY <1>1, <2>1, Zenon DEF FindItemPaths, PathsTo
<1>3. Score(p, s) = 0
  BY <1>1, StartedScore DEF IsKnown
<1>4. PICK t \in FoundChains(q) : \A r \in FindItemPaths(LastItem(p)) : \A u \in FoundChains(r) : ~Precedes(r, u, q, t)
  BY Zenon DEF getPathFromRoot
<1>5. q \in FindItemPaths(LastItem(p)) /\ q \in LinkPaths
  BY Zenon DEF getPathFromRoot, FindItemPaths, PathsTo, RootPaths
<1>6. Len(q) \in Nat /\ DOMAIN q = 1..Len(q)
  BY <1>5, PathFacts
<1>7. Score(q, t) \in Nat /\ (Score(q, t) = 0 => \A n \in 1..Len(q) : StartedIn(q, t, n))
  BY <1>6, ScoreFacts
<1>8. ~Precedes(p, s, q, t) /\ \A u \in FoundChains(q) : ~Precedes(q, u, q, t)
  BY <1>2, <1>4, <1>5, Zenon
<1>9. Score(q, t) = 0
  BY <1>3, <1>7, <1>8 DEF Precedes
<1>10. \A n \in DOMAIN q : StartedIn(q, t, n)
  BY <1>6, <1>7, <1>9, Zenon
<1> QED
  BY <1>4, <1>8, <1>10, Zenon DEF IsStartedPath

\* The chains of started results, with the conditions by name.
StartedBefore(p, s, last) ==
  \A n \in 1..last : /\ AttemptThere(s[n]) /\ HasStarted(s[n], p[n])
                     /\ n < Len(p) => views[p[n]] >= 3
                     /\ n > 1 => AttemptOver(s[n], p[n]) = s[n - 1]
LEMMA ChainsBeforeIs ==
  \A p, last, s : s \in ChainsBefore(p, last, FALSE) <=> s \in [1..last -> AttemptIds] /\ StartedBefore(p, s, last)
BY DEF ChainsBefore, StartedBefore

\* getBreadcrumbs follows the chain of a known path, and no other, from its attempt.
LEMMA KnownIsShown ==
  ASSUME PathTables, NEW p, NEW s, IsKnown(p, s)
  PROVE  /\ BreadcrumbsHierarchyForAttempt(p, s[Len(p)]) = {s}
         /\ Len(p) > 1 => SubSeq(s, 1, Len(p) - 1) \in BreadcrumbsHierarchyForParentAttempt(p, s[Len(p) - 1])
<1>1. p \in LinkPaths /\ Len(p) \in Nat \ {0} /\ DOMAIN p = 1..Len(p) /\ \A n \in 1..Len(p) : p[n] \in PathItems
  BY PathFacts DEF IsKnown, RootPaths
<1>2. s \in Chains(p) /\ Joined(p, s) /\ AllStarted(p, s) /\ hasAccessToItemPath(p)
  BY DEF IsKnown
<1>3. \A n \in 1..Len(p) : views[p[n]] >= 3 /\ s[n] \in AttemptIds /\ HasStarted(s[n], p[n])
  BY <1>1, <1>2, Zenon DEF hasAccessToItemPath, Chains, AllStarted
<1>4. /\ \A n \in 1..Len(p) : AttemptThere(s[n])
      /\ \A n \in 2..Len(p) : AttemptOver(s[n], p[n]) = s[n - 1]
  BY <1>1, <1>2, JoinedFacts, Zenon
<1>5. ~(views[LastItem(p)] < 2)
  <2>1. Len(p) \in 1..Len(p)
    BY <1>1
  <2>2. views[LastItem(p)] \in 1..3 /\ views[LastItem(p)] >= 3
    BY <1>1, <1>3, <2>1 DEF LastItem, PathTables
  <2> QED
    BY <2>2
<1>6. s \in [1..Len(p) -> AttemptIds]
  BY <1>1, <1>2, Zenon DEF Chains
<1>7. \A n \in 1..Len(p) : n > 1 => n \in 2..Len(p)
  BY <1>1
<1>8. StartedBefore(p, s, Len(p))
  BY <1>3, <1>4, <1>7, Zenon DEF StartedBefore
<1>9. ASSUME NEW t \in ChainsBefore(p, Len(p), FALSE), t[Len(p)] = s[Len(p)] PROVE t = s
  <2>1. t \in [1..Len(p) -> AttemptIds] /\ StartedBefore(p, t, Len(p))
    BY <1>9, ChainsBeforeIs, Zenon
  <2>2. \A n \in 2..Len(p) : n \in 1..Len(p) /\ n > 1
    BY <1>1
  <2>3. \A n \in 2..Len(p) : AttemptOver(t[n], p[n]) = t[n - 1]
    BY <2>1, <2>2, Zenon DEF StartedBefore
  <2>4. t \in Chains(p) /\ Len(p) \in 1..Len(p)
    BY <1>1, <2>1 DEF Chains
  <2>5. \A m \in 1..Len(p) : t[m] = s[m]
    BY <1>1, <1>2, <1>4, <1>9, <2>3, <2>4, SameAbove
  <2> QED
    BY <1>6, <2>1, <2>5
<1>10. BreadcrumbsHierarchyForAttempt(p, s[Len(p)]) = {t \in ChainsBefore(p, Len(p), FALSE) : t[Len(p)] = s[Len(p)]}
  BY <1>5, Zenon DEF BreadcrumbsHierarchyForAttempt
<1>11. s \in ChainsBefore(p, Len(p), FALSE)
  BY <1>6, <1>8, ChainsBeforeIs, Zenon
<1>12. BreadcrumbsHierarchyForAttempt(p, s[Len(p)]) = {s}
  BY <1>9, <1>10, <1>11, Zenon
<1>13. ASSUME Len(p) > 1
       PROVE  SubSeq(s, 1, Len(p) - 1) \in BreadcrumbsHierarchyForParentAttempt(p, s[Len(p) - 1])
  <2> DEFINE m == Len(p) - 1
             t == SubSeq(s, 1, m)
  <2>0. m \in Nat \ {0} /\ m < Len(p) /\ Len(p) # 1 /\ m \in 1..m
    BY <1>1, <1>13
  <2>1. t = [n \in 1..m |-> s[n]]
    <3>1. s \in Seq(AttemptIds) /\ Len(s) = Len(p)
      BY <1>1, <1>6
    <3> QED
      BY <2>0, <3>1
  <2> HIDE DEF t
  <2>2. \A n \in 1..m : n \in 1..Len(p) /\ (n > 1 => n - 1 \in 1..m)
    BY <1>1, <2>0
  <2>3. \A n \in 1..m : t[n] = s[n]
    BY <2>1, Zenon
  <2>4. t \in [1..m -> AttemptIds]
    <3> HIDE DEF m
    <3> QED
      BY <1>3, <2>1, <2>2
  <2>5. StartedBefore(p, t, m)
    <3> HIDE DEF m
    <3> QED
      BY <1>8, <2>2, <2>3, Zenon DEF StartedBefore
  <2>6. t \in ChainsBefore(p, m, FALSE) /\ t[m] = s[m]
    <3> HIDE DEF m
    <3> QED
      BY <2>0, <2>3, <2>4, <2>5, ChainsBeforeIs, Zenon
  <2>7. t \in BreadcrumbsHierarchyForParentAttempt(p, s[m])
    BY <1>5, <2>0, <2>6, Zenon DEF BreadcrumbsHierarchyForParentAttempt
  <2> QED
    BY <2>7 DEF t
<1> QED
  BY <1>12, <1>13
-----------------------------------------------------------------------------
(* The steps.                                                              *)

\* One level of the attempts below an attempt, and all of them.
BelowAt(f, a, n) ==
  f[n] = IF n = 0 THEN {a}
         ELSE f[n - 1] \union {b \in AttemptIds : AttemptThere(b) /\ Row(b).parent \in f[n - 1]}
IsBelow(f, a) ==
  f = [n \in 0..LastAttempt |->
         IF n = 0 THEN {a}
         ELSE f[n - 1] \union {b \in AttemptIds : AttemptThere(b) /\ Row(b).parent \in f[n - 1]}]

\* The first attempt is below no other: it has no parent.
LEMMA FirstIsBelowNone ==
  ASSUME PathTables, NEW a \in AttemptIds, a # 0
  PROVE  0 \notin (CHOOSE f : IsBelow(f, a))[LastAttempt]
<1> DEFINE Known == {n \in Nat : \E f : \A j \in 0..n : BelowAt(f, a, j)}
<1>0. LastAttempt \in Nat
  BY PathsAssumption, Zenon
<1>1. 0 \in Known
  <2> DEFINE f == [j \in 0..0 |-> {a}]
  <2>1. \A j \in 0..0 : BelowAt(f, a, j)
    BY DEF BelowAt
  <2> QED
    BY <2>1
<1>2. ASSUME NEW n \in Nat, n \in Known PROVE n + 1 \in Known
  <2>1. PICK f : \A j \in 0..n : BelowAt(f, a, j)
    BY <1>2
  <2> DEFINE next == f[n] \union {b \in AttemptIds : AttemptThere(b) /\ Row(b).parent \in f[n]}
             g == [j \in 0..(n + 1) |-> IF j = n + 1 THEN next ELSE f[j]]
  <2>2. ASSUME NEW j \in 0..(n + 1) PROVE BelowAt(g, a, j)
    <3>1. CASE j = n + 1
      <4>1. g[j] = next /\ j # 0 /\ j - 1 = n /\ g[n] = f[n]
        BY <3>1
      <4> HIDE DEF g
      <4> QED
        BY <4>1, Zenon DEF BelowAt
    <3>2. CASE j # n + 1
      <4>1. g[j] = f[j] /\ j \in 0..n /\ (j # 0 => g[j - 1] = f[j - 1])
        BY <3>2
      <4>2. BelowAt(f, a, j)
        BY <2>1, <4>1
      <4> HIDE DEF g
      <4> QED
        BY <4>1, <4>2, Zenon DEF BelowAt
    <3> QED
      BY <3>1, <3>2
  <2> HIDE DEF g
  <2> QED
    BY <2>2
<1>3. Nat \subseteq Known
  <2> HIDE DEF Known
  <2> QED
    BY <1>1, <1>2, Induction
<1>4. PICK f : \A j \in 0..LastAttempt : BelowAt(f, a, j)
  BY <1>0, <1>3
<1> DEFINE g == [j \in 0..LastAttempt |-> f[j]]
<1>5. \A j \in 0..LastAttempt : BelowAt(g, a, j)
  <2> SUFFICES ASSUME NEW j \in 0..LastAttempt PROVE BelowAt(g, a, j)
    OBVIOUS
  <2>1. g[j] = f[j] /\ (j # 0 => g[j - 1] = f[j - 1])
    BY <1>0
  <2>2. BelowAt(f, a, j)
    BY <1>4
  <2> HIDE DEF g
  <2> QED
    BY <2>1, <2>2, Zenon DEF BelowAt
<1>6. IsBelow(g, a)
  <2>1. g = [j \in 0..LastAttempt |-> g[j]]
    OBVIOUS
  <2> HIDE DEF g
  <2> QED
    BY <1>5, <2>1 DEF BelowAt, IsBelow
<1> DEFINE h == CHOOSE h : IsBelow(h, a)
<1>7. IsBelow(h, a)
  <2> HIDE DEF g
  <2> QED
    BY <1>6
<1> HIDE DEF h
<1>8. \A n \in 0..LastAttempt : BelowAt(h, a, n)
  BY <1>7 DEF IsBelow, BelowAt
<1> DEFINE Without == {n \in Nat : n <= LastAttempt => h[n] \subseteq AttemptIds \ {0}}
<1>9. 0 \in Without
  <2>1. BelowAt(h, a, 0)
    BY <1>0, <1>8
  <2> QED
    BY <2>1 DEF BelowAt
<1>10. ASSUME NEW n \in Nat, n \in Without PROVE n + 1 \in Without
  <2> SUFFICES ASSUME n + 1 <= LastAttempt PROVE h[n + 1] \subseteq AttemptIds \ {0}
    OBVIOUS
  <2>1. BelowAt(h, a, n + 1) /\ n + 1 # 0 /\ (n + 1) - 1 = n
    BY <1>0, <1>8
  <2>2. h[n] \subseteq AttemptIds \ {0}
    BY <1>0, <1>10
  <2>3. h[n + 1] = h[n] \union {b \in AttemptIds : AttemptThere(b) /\ Row(b).parent \in h[n]}
    BY <2>1, Zenon DEF BelowAt
  <2>4. Row(0).parent = NoAttempt
    BY DEF PathTables, FirstAttempt, Row
  <2>5. Row(0).parent \notin h[n]
    BY <2>2, <2>4, AttemptNumbers
  <2> QED
    BY <2>2, <2>3, <2>5
<1>11. Nat \subseteq Without
  <2> HIDE DEF Without
  <2> QED
    BY <1>9, <1>10, Induction
<1>12. h[LastAttempt] \subseteq AttemptIds \ {0}
  BY <1>0, <1>11
<1>13. 0 \notin h[LastAttempt]
  BY <1>12
<1> QED
  BY <1>13 DEF h

\* The free attempt that is taken is not the first.
LEMMA CreateKeepsTables ==
  ASSUME PathTables, NEW parent, NEW i \in PathItems, NEW until, CreateNew(parent, i, until),
         UNCHANGED <<views, pathClock>>
  PROVE  PathTables'
<1> DEFINE free == {a \in AttemptIds : ~AttemptThere(a)}
<1>1. 0 \notin free
  <2>1. FirstAttempt \in [root : PathItems \union {NoAttempt}, parent : Int \union {NoAttempt},
                          until : Int, ended : BOOLEAN]
    BY PathsAssumption DEF FirstAttempt, Always
  <2>2. attemptRows[0] # NoAttempt
    BY <2>1, PathsAssumption, Zenon DEF PathTables
  <2> QED
    BY <2>2, Zenon DEF AttemptThere, Row
<1>2. free \in SUBSET Nat /\ free # {}
  BY AttemptNumbers, Zenon DEF CreateNew
<1>3. Min(free) \in free
  <2> HIDE DEF free
  <2> QED
    BY <1>2, LeastNatural
<1> DEFINE new == Min(free)
           row == [root |-> i, parent |-> parent, until |-> until, ended |-> FALSE]
<1>4. attemptRows' = [attemptRows EXCEPT ![new] = row] /\ resultRows' = [resultRows EXCEPT ![<<new, i>>] = "started"]
  BY Zenon DEF CreateNew
<1>5. new # 0
  BY <1>1, <1>3
<1> HIDE DEF new, row
<1>6. DOMAIN attemptRows' = AttemptIds /\ attemptRows'[0] = FirstAttempt
  BY <1>4, <1>5, AttemptNumbers DEF PathTables
<1>7. DOMAIN resultRows' = AttemptIds \X PathItems
  BY <1>4 DEF PathTables
<1> QED
  BY <1>6, <1>7, Zenon DEF PathTables, FirstAttempt

\* Every step keeps the tables.
LEMMA TablesKept ==
  ASSUME PathTables, [PathsNext]_pathVars PROVE PathTables'
<1>1. CASE UNCHANGED pathVars
  BY <1>1, Zenon DEF pathVars, PathTables
<1>2. ASSUME NEW p \in RootPaths, StartPath(p) PROVE PathTables'
  <2>1. UNCHANGED <<views, attemptRows, pathClock>> /\ DOMAIN resultRows' = DOMAIN resultRows
    BY <1>2 DEF StartPath
  <2> QED
    BY <2>1, Zenon DEF PathTables
<1>3. ASSUME NEW p \in RootPaths PROVE LastItem(p) \in PathItems
  <2>1. p \in LinkPaths
    BY DEF RootPaths
  <2>2. Len(p) \in 1..Len(p) /\ \A n \in 1..Len(p) : p[n] \in PathItems
    BY <2>1, PathFacts
  <2> QED
    BY <2>2 DEF LastItem
<1>4. ASSUME NEW p \in RootPaths, NEW a \in AttemptIds, StartAt(p, a) PROVE PathTables'
  <2>1. UNCHANGED <<views, attemptRows, pathClock>> /\ DOMAIN resultRows' = DOMAIN resultRows
    BY <1>4 DEF StartAt
  <2> QED
    BY <2>1, Zenon DEF PathTables
<1>5. ASSUME NEW p \in RootPaths, NEW a \in AttemptIds, CreateAttemptAt(p, a) PROVE PathTables'
  <2>1. CreateNew(a, LastItem(p), Always) /\ UNCHANGED <<views, pathClock>>
    BY <1>5, Zenon DEF CreateAttemptAt
  <2> QED
    BY <1>3, <2>1, CreateKeepsTables
<1>6. ASSUME NEW p \in RootPaths, NEW a \in AttemptIds, EnterAt(p, a) PROVE PathTables'
  <2>1. CreateNew(a, LastItem(p), pathClock + EntryDuration) /\ UNCHANGED <<views, pathClock>>
    BY <1>6, Zenon DEF EnterAt
  <2> QED
    BY <1>3, <2>1, CreateKeepsTables
<1>7. ASSUME NEW a \in AttemptIds, EndAttemptAt(a) PROVE PathTables'
  <2> DEFINE below == CHOOSE f : IsBelow(f, a)
  <2>1. /\ a # 0 /\ UNCHANGED <<views, resultRows, pathClock>>
        /\ attemptRows' = [b \in AttemptIds |->
             IF b \in below[LastAttempt] THEN [Row(b) EXCEPT !.ended = TRUE, !.until = Min({@, pathClock})]
             ELSE Row(b)]
    BY <1>7, Zenon DEF EndAttemptAt, IsBelow
  <2>2. 0 \notin below[LastAttempt]
    <3>1. a # 0
      BY <1>7, Zenon DEF EndAttemptAt
    <3> QED
      BY <3>1, FirstIsBelowNone, Zenon
  <2> DEFINE rows(b) == IF b \in below[LastAttempt] THEN [Row(b) EXCEPT !.ended = TRUE, !.until = Min({@, pathClock})]
                        ELSE Row(b)
  <2>3. rows(0) = Row(0) /\ attemptRows' = [b \in AttemptIds |-> rows(b)]
    BY <2>1, <2>2, Zenon
  <2> HIDE DEF below, rows
  <2>4. DOMAIN attemptRows' = AttemptIds /\ attemptRows'[0] = Row(0)
    BY <2>3, AttemptNumbers
  <2> QED
    BY <2>1, <2>4, Zenon DEF PathTables, Row, FirstAttempt
<1>8. ASSUME NEW a \in AttemptIds, NEW i \in PathItems, NEW parent \in PathItems, PropagationCreates(a, i, parent)
      PROVE  PathTables'
  <2>1. UNCHANGED <<views, attemptRows, pathClock>> /\ DOMAIN resultRows' = DOMAIN resultRows
    BY <1>8 DEF PropagationCreates
  <2> QED
    BY <2>1, Zenon DEF PathTables
<1>9. ASSUME NEW i \in PathItems, NEW level \in {1, 2, 3}, ChangeView(i, level) PROVE PathTables'
  <2>1. views' = [views EXCEPT ![i] = level] /\ UNCHANGED <<attemptRows, resultRows, pathClock>>
    BY <1>9, Zenon DEF ChangeView
  <2>2. views' \in [PathItems -> 1..3]
    <3>1. views \in [PathItems -> 1..3] /\ level \in 1..3
      BY DEF PathTables
    <3> QED
      BY <2>1, <3>1
  <2> QED
    BY <2>1, <2>2, Zenon DEF PathTables
<1>10. CASE PathTick
  <2>1. pathClock' \in 0..LastInstantOfPaths /\ UNCHANGED <<views, attemptRows, resultRows>>
    BY <1>10, PathsAssumption DEF PathTick, PathTables
  <2> QED
    BY <2>1, Zenon DEF PathTables
<1> QED
  BY <1>1, <1>2, <1>4, <1>5, <1>6, <1>7, <1>8, <1>9, <1>10, Zenon DEF PathsNext

\* startResultPath: a chain that overtook the one taken would have been taken itself.
LEMMA StartedIsKnown ==
  ASSUME PathTables, NEW p \in RootPaths, NEW s \in getDataForResultPathStart(p),
         UNCHANGED <<views, attemptRows>>,
         resultRows' = [k \in DOMAIN resultRows |->
            IF \E n \in DOMAIN p : k = <<s[n], p[n]>> THEN "started" ELSE resultRows[k]]
  PROVE  IsKnown(p, s)'
<1>1. /\ p \in LinkPaths /\ Len(p) \in Nat \ {0} /\ DOMAIN p = 1..Len(p)
      /\ \A n \in 1..Len(p) : p[n] \in PathItems
      /\ \A n, m \in 1..Len(p) : p[n] = p[m] => n = m
  BY PathFacts DEF RootPaths
<1>2. hasAccessToItemPath(p) /\ s \in StartableChains(p) /\ \A t \in StartableChains(p) : ~Precedes(p, t, p, s)
  BY Zenon DEF getDataForResultPathStart
<1>3. /\ s \in Chains(p) /\ Joined(p, s)
      /\ \A n \in 1..Len(p) : /\ p[n] \in EntryItems => HasResult(s[n], p[n])
                              /\ HasStarted(s[n], p[n]) \/ OpenUpTo(s, n)
      /\ HasResult(s[1], p[1]) \/ s[1] = 0
  BY <1>1, <1>2, StartableIs
<1>4. ASSUME NEW t \in Chains(p), NEW n \in 1..Len(p)
      PROVE  HasStarted(t[n], p[n])' <=> HasStarted(t[n], p[n]) \/ t[n] = s[n]
  <2>1. t[n] \in AttemptIds /\ <<t[n], p[n]>> \in DOMAIN resultRows
    BY <1>1 DEF Chains, PathTables
  <2>2. (\E m \in DOMAIN p : <<t[n], p[n]>> = <<s[m], p[m]>>) <=> t[n] = s[n]
    BY <1>1
  <2>3. resultRows'[<<t[n], p[n]>>] =
          IF \E m \in DOMAIN p : <<t[n], p[n]>> = <<s[m], p[m]>> THEN "started" ELSE resultRows[<<t[n], p[n]>>]
    BY <2>1, Zenon
  <2>4. CASE t[n] = s[n]
    BY <2>2, <2>3, <2>4, Zenon DEF HasStarted
  <2>5. CASE t[n] # s[n]
    BY <2>2, <2>3, <2>5, Zenon DEF HasStarted
  <2> QED
    BY <2>4, <2>5
<1>5. \A t : Joined(p, t)' <=> Joined(p, t)
  BY DEF Joined, Joinable, AttemptThere, AttemptOver, Row
<1>6. AllStarted(p, s)'
  BY <1>1, <1>3, <1>4, Zenon DEF AllStarted
<1>7. ASSUME NEW t \in Chains(p), Joined(p, t)', AllStarted(p, t)' PROVE ~HigherAttempts(t, s)
  <2>1. Joined(p, t) /\ \A n \in 1..Len(p) : HasStarted(t[n], p[n]) \/ t[n] = s[n]
    BY <1>1, <1>4, <1>5, <1>7, Zenon DEF AllStarted
  <2>2. /\ \A n \in 2..Len(p) : AttemptOver(s[n], p[n]) = s[n - 1]
        /\ \A n \in 2..Len(p) : AttemptOver(t[n], p[n]) = t[n - 1]
    BY <1>1, <1>3, <2>1, JoinedFacts, Zenon
  <2>3. ASSUME NEW n \in 1..Len(p)
        PROVE  /\ p[n] \in EntryItems => HasResult(t[n], p[n])
               /\ HasStarted(t[n], p[n]) \/ OpenUpTo(t, n)
    <3>1. CASE HasStarted(t[n], p[n])
      BY <3>1 DEF HasStarted, HasResult
    <3>2. CASE t[n] = s[n] /\ ~HasStarted(t[n], p[n])
      <4>1. \A m \in 1..n : s[m] = t[m]
        BY <1>1, <1>3, <2>2, <3>2, SameAbove
      <4>2. OpenUpTo(s, n)
        BY <1>3, <3>2
      <4>3. OpenUpTo(t, n)
        BY <4>1, <4>2, Zenon DEF OpenUpTo
      <4>4. p[n] \in EntryItems => HasResult(t[n], p[n])
        BY <1>3, <3>2
      <4> QED
        BY <4>3, <4>4
    <3> QED
      BY <2>1, <3>1, <3>2
  <2>4. HasResult(t[1], p[1]) \/ t[1] = 0
    <3>1. 1 \in 1..Len(p)
      BY <1>1
    <3>2. HasStarted(t[1], p[1]) => HasResult(t[1], p[1])
      BY DEF HasStarted, HasResult
    <3>3. HasStarted(t[1], p[1]) \/ t[1] = s[1]
      BY <2>1, <3>1
    <3> QED
      BY <1>3, <3>2, <3>3
  <2>5. t \in StartableChains(p)
    BY <1>1, <2>1, <2>3, <2>4, StartableIs, Zenon
  <2>6. \A n \in 1..Len(p) : StartedIn(p, s, n) => StartedIn(p, t, n)
    <3> SUFFICES ASSUME NEW n \in 1..Len(p), StartedIn(p, s, n) PROVE StartedIn(p, t, n)
      OBVIOUS
    <3>1. HasStarted(s[n], p[n]) /\ t[n] # NoAttempt
      BY <1>1, AttemptNumbers DEF StartedIn, Chains
    <3>2. HasStarted(t[n], p[n])
      BY <2>1, <3>1
    <3> QED
      BY <3>1, <3>2 DEF StartedIn
  <2>7. Score(p, t) \in Nat /\ Score(p, s) \in Nat /\ Score(p, t) <= Score(p, s)
    BY <1>1, <2>6, ScoreFacts
  <2>8. ~Precedes(p, t, p, s)
    BY <1>2, <2>5
  <2> QED
    BY <2>7, <2>8 DEF Precedes
<1>8. hasAccessToItemPath(p)'
  BY <1>2 DEF hasAccessToItemPath
<1>9. \A t \in Chains(p) : Joined(p, t)' /\ AllStarted(p, t)' => ~HigherAttempts(t, s)
  BY <1>7
<1> QED
  BY <1>3, <1>5, <1>6, <1>8, <1>9, Zenon DEF IsKnown

\* Every step keeps what was returned known, or forgets it.
LEMMA KnownKept ==
  ASSUME PathTables, ReturnedIsKnown, [PathsNext]_pathVars PROVE ReturnedIsKnown'
<1>1. ASSUME UNCHANGED <<views, attemptRows, resultRows, returned>> PROVE ReturnedIsKnown'
  <2>1. \A p, s : Joined(p, s)' <=> Joined(p, s)
    BY <1>1 DEF Joined, Joinable, AttemptThere, AttemptOver, Row
  <2>2. \A p, s : AllStarted(p, s)' <=> AllStarted(p, s)
    BY <1>1 DEF AllStarted, HasStarted
  <2>3. \A p : hasAccessToItemPath(p)' <=> hasAccessToItemPath(p)
    BY <1>1 DEF hasAccessToItemPath
  <2>4. \A p, s : IsKnown(p, s)' <=> IsKnown(p, s)
    BY <2>1, <2>2, <2>3, Zenon DEF IsKnown
  <2> QED
    BY <1>1, <2>4, Zenon DEF ReturnedIsKnown
<1>2. ASSUME NEW p \in RootPaths, StartPath(p) PROVE ReturnedIsKnown'
  <2>1. PICK s \in getDataForResultPathStart(p) :
          /\ resultRows' = [k \in DOMAIN resultRows |->
               IF \E n \in DOMAIN p : k = <<s[n], p[n]>> THEN "started" ELSE resultRows[k]]
          /\ returned' = [path |-> p, chain |-> s]
    BY <1>2, Zenon DEF StartPath
  <2>2. UNCHANGED <<views, attemptRows>>
    BY <1>2, Zenon DEF StartPath
  <2>3. IsKnown(p, s)'
    BY <2>1, <2>2, StartedIsKnown
  <2>4. returned'.path = p /\ returned'.chain = s
    BY <2>1
  <2> QED
    BY <2>3, <2>4, Zenon DEF ReturnedIsKnown
<1>3. CASE UNCHANGED pathVars
  BY <1>1, <1>3, Zenon DEF pathVars
<1>4. CASE PathTick
  BY <1>1, <1>4, Zenon DEF PathTick
<1>5. ASSUME NEW p \in RootPaths, NEW a \in AttemptIds, StartAt(p, a) \/ CreateAttemptAt(p, a) \/ EnterAt(p, a)
      PROVE  returned' = NothingReturned
  BY <1>5, Zenon DEF StartAt, CreateAttemptAt, EnterAt
<1>6. ASSUME NEW a \in AttemptIds, EndAttemptAt(a) PROVE returned' = NothingReturned
  BY <1>6, Zenon DEF EndAttemptAt
<1>7. ASSUME NEW a \in AttemptIds, NEW i \in PathItems, NEW parent \in PathItems, PropagationCreates(a, i, parent)
      PROVE  returned' = NothingReturned
  BY <1>7, Zenon DEF PropagationCreates
<1>8. ASSUME NEW i \in PathItems, NEW level \in {1, 2, 3}, ChangeView(i, level) PROVE returned' = NothingReturned
  BY <1>8, Zenon DEF ChangeView
<1>9. returned' = NothingReturned => ReturnedIsKnown'
  BY Zenon DEF ReturnedIsKnown
<1> QED
  BY <1>2, <1>3, <1>4, <1>5, <1>6, <1>7, <1>8, <1>9, Zenon DEF PathsNext

\* The tables at the start.
LEMMA PathsStart == PathsInit => PathTables /\ ReturnedIsKnown
<1> SUFFICES ASSUME PathsInit PROVE PathTables /\ ReturnedIsKnown
  OBVIOUS
<1>1. DOMAIN attemptRows = AttemptIds /\ attemptRows[0] = FirstAttempt
  BY AttemptNumbers DEF PathsInit, FirstAttempt
<1>2. views \in [PathItems -> 1..3] /\ pathClock \in 0..LastInstantOfPaths
  BY PathsAssumption DEF PathsInit
<1>3. DOMAIN resultRows = AttemptIds \X PathItems
  BY DEF PathsInit
<1>4. ReturnedIsKnown
  BY Zenon DEF PathsInit, ReturnedIsKnown
<1> QED
  BY <1>1, <1>2, <1>3, <1>4, Zenon DEF PathTables

\* The three queries agree.
LEMMA QueriesAgree ==
  ASSUME PathTables, ReturnedIsKnown
  PROVE  StartablePathsAreFound /\ FoundPathsCanBeStarted /\ StartedPathIsKnown
<1>1. StartablePathsAreFound
  <2> SUFFICES ASSUME NEW p \in RootPaths, NEW s \in getDataForResultPathStart(p)
               PROVE  p \in FindItemPaths(LastItem(p))
    BY Zenon DEF StartablePathsAreFound
  <2>1. p \in LinkPaths
    BY DEF RootPaths
  <2>2. hasAccessToItemPath(p) /\ s \in StartableChains(p)
    BY Zenon DEF getDataForResultPathStart
  <2>3. s \in FoundChains(p)
    BY <2>1, <2>2, StartableAreFound
  <2> QED
    BY <2>3, Zenon DEF FindItemPaths, PathsTo
<1>2. StartedPathIsKnown
  <2> SUFFICES ASSUME returned # NothingReturned, NEW p, p = returned.path, NEW s, s = returned.chain
               PROVE  /\ s \in FoundChains(p) /\ \A t \in FoundChains(p) : ~Precedes(p, t, p, s)
                      /\ IsStartedPath(p) /\ getDataForResultPathStart(p) = {s}
                      /\ \A q \in getPathFromRoot(LastItem(p)) : IsStartedPath(q)
                      /\ BreadcrumbsHierarchyForAttempt(p, s[Len(p)]) = {s}
                      /\ Len(p) > 1 => SubSeq(s, 1, Len(p) - 1) \in BreadcrumbsHierarchyForParentAttempt(p, s[Len(p) - 1])
    BY Zenon DEF StartedPathIsKnown
  <2>1. IsKnown(p, s)
    BY Zenon DEF ReturnedIsKnown
  <2> QED
    BY <2>1, KnownIsFound, KnownIsFirst, KnownIsShown, Zenon
<1> QED
  BY <1>1, <1>2, FoundAreStartable

-----------------------------------------------------------------------------
\* The paths move alone, or the other models do and they rest: the queries of
\* FindItemPaths, startResultPath and the participation hierarchies agree along
\* every behaviour.
THEOREM PathQueriesAlwaysAgree == PropagationSpec => []PathQueriesAgree
<1> DEFINE PathInv == PathTables /\ ReturnedIsKnown
<1>1. PropagationInit => PathInv
  BY PathsStart, Zenon DEF PropagationInit
<1>2. PathInv /\ [PropagationNext]_<<moving, resultsVars, txVars, pathVars>> => PathInv'
  <2>1. [PropagationNext]_<<moving, resultsVars, txVars, pathVars>> => [PathsNext]_pathVars
    BY Zenon DEF PropagationNext
  <2> QED
    BY <2>1, TablesKept, KnownKept, Zenon
<1>3. PathInv => PathQueriesAgree
  BY QueriesAgree, Zenon DEF PathQueriesAgree
<1> HIDE DEF PathInv
<1> QED
  BY <1>1, <1>2, <1>3, PTL DEF PropagationSpec

\* results_propagate and the tables that it drives: nothing is marked that has no result
\* (the foreign key), whatever the services write between two transactions of the
\* propagation and at whichever of them it dies; and no call is tried again more often
\* than transactionRetriesLimit says.
THEOREM ResultsAndTransactionsTyped == PropagationSpec => []PropagationTypeOK
<1> DEFINE TypeInv == moving \in Components /\ ResultsTypes /\ Inv
<1>1. PropagationInit => TypeInv
  BY ResultsStart, InitInv, Zenon DEF PropagationInit
<1>2. TypeInv /\ [PropagationNext]_<<moving, resultsVars, txVars, pathVars>> => TypeInv'
  <2>1. [PropagationNext]_<<moving, resultsVars, txVars, pathVars>>
          => [ResultsNext]_resultsVars /\ [TxNext]_txVars /\ moving' = moving
    BY Zenon DEF PropagationNext
  <2> QED
    BY <2>1, ResultsTypesKept, NextInv, Zenon
<1>3. TypeInv => PropagationTypeOK
  BY ResultsTypesAre, InvIsTyped, Zenon DEF PropagationTypeOK
<1> HIDE DEF TypeInv
<1> QED
  BY <1>1, <1>2, <1>3, PTL DEF PropagationSpec

\* The results settle (ResultsSettle) along every behaviour of the models together: they move
\* alone, or the other models do and they rest.
THEOREM ResultsSettleInAll == PropagationSpec => []IdleMeansSettled
<1> DEFINE ResultsInv == ResultsTypes /\ ResultsSound
<1>1. PropagationInit => ResultsInv
  BY ResultsStart, ResultsSoundStart, Zenon DEF PropagationInit
<1>2. ResultsInv /\ [PropagationNext]_<<moving, resultsVars, txVars, pathVars>> => ResultsInv'
  <2>1. [PropagationNext]_<<moving, resultsVars, txVars, pathVars>> => [ResultsNext]_resultsVars
    BY Zenon DEF PropagationNext
  <2> QED
    BY <2>1, ResultsTypesKept, ResultsSoundKept, Zenon
<1>3. ResultsInv => IdleMeansSettled
  BY SettledWhenIdle, Zenon
<1> HIDE DEF ResultsInv
<1> QED
  BY <1>1, <1>2, <1>3, PTL DEF PropagationSpec

===============================================================================
