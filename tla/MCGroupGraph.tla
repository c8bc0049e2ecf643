----------------------------- MODULE MCGroupGraph -----------------------------
(* Instance of GroupGraph for TLC. *)
EXTENDS GroupGraph, TLC

CONSTANTS all, a, b, c, t, k, u

GroupTypes ==
    [g \in Groups |-> CASE g = all -> "Base"
                        [] g \in {a, b, c} -> "Class"
                        [] g = t -> "Team"
                        [] g = k -> "ContestParticipants"
                        [] OTHER -> "User"]

ClassSymmetry == Permutations({a, b, c})
=============================================================================
