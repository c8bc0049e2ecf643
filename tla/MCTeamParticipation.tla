------------------------- MODULE MCTeamParticipation -------------------------
(* Two teams and two users; permissions to enter that cover the first era. *)
EXTENDS TeamParticipation, TLC

CONSTANTS u1, u2, t1, t2

EntryWindows == {{}, {1}}
TeamsAndUsers == Permutations({u1, u2}) \cup Permutations({t1, t2})
==============================================================================
