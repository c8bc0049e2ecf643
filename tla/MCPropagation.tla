--------------------------- MODULE MCPropagation ---------------------------
(***************************************************************************)
(* The propagation of results, the transactions it is started from, and    *)
(* the paths of items on which results are started.                        *)
(*                                                                         *)
(* The models share no variable, so their states together are the tuples   *)
(* of their states and say nothing more: one of them moves, chosen at the  *)
(* start, and the others keep their initial states.                        *)
(*                                                                         *)
(* The results are of a root chapter with a chapter and, when updateItem   *)
(* adds it, a bonus chapter; attempt 1 is one of the chapter.  The calls   *)
(* lock two rows in opposite orders.  The paths are those of MCItemPaths.  *)
(***************************************************************************)
EXTENDS ResultsPropagation, Transactions, MCItemPaths, TLC

CONSTANTS root, chapter, task, bonus, c1, c2, row1, row2

MCAttemptRoot == [a \in Attempts |-> IF a = 0 THEN NoItem ELSE chapter]
MCParentAttempt == [a \in Attempts |-> 0]
MCValidationType == [i \in Items |-> IF i = root THEN "AllButOne" ELSE "All"]
MCWeight == [e \in Items \X Items |-> 1]
MCInitialChildren == {<<root, chapter>>, <<chapter, task>>}
MCAddedChildren == {<<root, task>>, <<chapter, bonus>>, <<bonus, task>>}
MCDependencies == {[item |-> task, score |-> 100, dependent |-> bonus],
                   [item |-> root, score |-> 100, dependent |-> bonus]}
MCInitialStarted == {<<0, root>>, <<0, chapter>>, <<0, task>>}

MCOrder == (c1 :> <<row1, row2>>) @@ (c2 :> <<row2, row1>>)
MCModes == (c1 :> {"sync"}) @@ (c2 :> {"no_foreign_keys"})

VARIABLE moving

Components == {"results", "transactions", "paths"}

PropagationInit == moving \in Components /\ ResultsInit /\ TxInit /\ PathsInit

PropagationNext ==
  \/ moving = "results" /\ ResultsNext
     /\ UNCHANGED <<moving, txVars, pathVars>>
  \/ moving = "transactions" /\ TxNext
     /\ UNCHANGED <<moving, resultsVars, pathVars>>
  \/ moving = "paths" /\ PathsNext
     /\ UNCHANGED <<moving, resultsVars, txVars>>

\* The fairness of each, when it moves.
PropagationSpec ==
  /\ PropagationInit /\ [][PropagationNext]_<<moving, resultsVars, txVars, pathVars>>
  /\ WF_resultsVars(moving = "results" /\ Propagate)
  /\ WF_resultsVars(moving = "results" /\ ComputeAccess)
  /\ \A c \in Callers : WF_txVars(moving = "transactions" /\ CallStep(c))

\* The tables keep their types, marks are of results that exist, and no call
\* is tried again more often than transactionRetriesLimit says.
PropagationTypeOK ==
  /\ moving \in Components
  /\ moving = "results" => ResultsTypeOK
  /\ moving = "transactions" => TxTypeOK

\* The queries of FindItemPaths, startResultPath and the participation
\* hierarchies agree: nobody is sent along a path that the next service
\* refuses, although each is written on its own and attempts run out, end and
\* are added meanwhile.  All of them lead through contests that are over but
\* started, whatever path_from_root.go says of it (PathsPassOpenContests).
PathQueriesAgree ==
  moving = "paths" => StartablePathsAreFound /\ FoundPathsCanBeStarted /\ StartedPathIsKnown
=============================================================================
