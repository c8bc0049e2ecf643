------------------------------ MODULE MCContests ------------------------------
(***************************************************************************)
(* Two models checked side by side: two teams and two users with           *)
(* permissions to enter that cover the first era, and a participant of a   *)
(* class with additional time for the class and for itself.                *)
(*                                                                         *)
(* They share no variable, so the states of both together are the pairs of *)
(* their states and say nothing more: one of them moves, chosen at the     *)
(* start, and the other keeps its initial state.                           *)
(***************************************************************************)
EXTENDS MCTeamParticipation, MCContestParticipation

VARIABLE moving

Models == {"teams", "contest"}

\* The teams at rest have one initial state.
ContestsInit ==
  /\ moving \in Models
  /\ TeamInit /\ ContestInit
  /\ moving # "teams" => ~multiple

ContestsNext ==
  /\ UNCHANGED moving
  /\ \/ moving = "teams" /\ TeamNext /\ UNCHANGED contestVars
     \/ moving = "contest" /\ ContestNext /\ UNCHANGED teamVars

ContestsSpec == ContestsInit /\ [][ContestsNext]_<<moving, teamVars, contestVars>>
===============================================================================
