-------------------------- MODULE AtomicTransactions --------------------------
(***************************************************************************)
(* What DataStore.InTransaction (app/database/data_store.go) promises its  *)
(* callers, without connections, locks, deadlocks or retries: the whole    *)
(* function of a call is applied to the database at one moment or not at   *)
(* all, never twice; a call that is answered without an error has been     *)
(* applied, and the propagation it scheduled has been run; every call of a *)
(* process that lives is answered.  An error says less: a call that fails  *)
(* may have been applied.                                                  *)
(***************************************************************************)
EXTENDS Naturals

CONSTANTS
  Callers,    \* calls of InTransaction
  Rows,       \* rows of the database
  Adds,       \* caller -> row -> what its function adds to the row
  Schedules   \* callers whose function schedules a propagation

VARIABLES
  value,    \* row -> its committed value
  applied,  \* callers whose function has been applied
  unpropagated, \* callers whose changes wait for a propagation
  reply,    \* caller -> what its call returned
  prohibits \* callers whose context prohibits the propagation

atomicVars == <<value, applied, unpropagated, reply, prohibits>>

AtomicInit ==
  /\ value = [r \in Rows |-> 0]
  /\ applied = {} /\ unpropagated = {}
  /\ reply = [c \in Callers |-> "not_called"]
  /\ prohibits = {}

Unanswered(c) == reply[c] = "none"

\* The context of a request may prohibit the propagation.
Invoke(c) ==
  /\ reply[c] = "not_called"
  /\ reply' = [reply EXCEPT ![c] = "none"]
  /\ prohibits' \in {prohibits, prohibits \union {c}}
  /\ UNCHANGED <<value, applied, unpropagated>>

\* All the rows change at once.  A failing COMMIT may have been carried out:
\* then the answer is an error although the changes are there.
Apply(c, answer) ==
  /\ Unanswered(c) /\ c \notin applied
  /\ value' = [r \in Rows |-> value[r] + Adds[c][r]]
  /\ applied' = applied \union {c}
  /\ unpropagated' = unpropagated \union ({c} \intersect Schedules)
  /\ reply' = [reply EXCEPT ![c] = answer]
  /\ UNCHANGED prohibits

\* A propagation handles the marks of every caller.
Propagate(c) ==
  /\ c \in applied
  /\ unpropagated' = {}
  /\ UNCHANGED <<value, applied, reply, prohibits>>

Succeed(c) ==
  /\ Unanswered(c) /\ c \in applied
  /\ c \in unpropagated => c \in prohibits
  /\ reply' = [reply EXCEPT ![c] = "ok"]
  /\ UNCHANGED <<value, applied, unpropagated, prohibits>>

Fail(c, answer) ==
  /\ Unanswered(c)
  /\ reply' = [reply EXCEPT ![c] = answer]
  /\ UNCHANGED <<value, applied, unpropagated, prohibits>>

Answer(c) == Succeed(c) \/ Fail(c, "error") \/ Fail(c, "died") \/ Apply(c, "error")

AtomicNext ==
  \E c \in Callers : Invoke(c) \/ Apply(c, "none") \/ Propagate(c) \/ Answer(c)

\* What may never happen, apart from the promise that calls are answered.
AtomicSafety == AtomicInit /\ [][AtomicNext]_atomicVars

AtomicSpec ==
  /\ AtomicSafety
  /\ \A c \in Callers : WF_atomicVars(Answer(c))
=============================================================================
