------------------------------ MODULE MCGroups ------------------------------
(***************************************************************************)
(* The groups, from two sides: the memberships of one group, with requests *)
(* that overlap (GroupMembership), and the graph of all of them with the   *)
(* cache of its closure (GroupGraph).  They share no variable: one of them *)
(* moves, chosen at the start, and the other keeps its initial state.      *)
(***************************************************************************)
EXTENDS MCGroupMembership, MCGroupGraph

VARIABLE side

GroupsInit == side \in {"memberships", "graph"} /\ Init /\ GraphInit

GroupsNext ==
    \/ side = "memberships" /\ OverlapNext /\ UNCHANGED <<side, graphVars>>
    \/ side = "graph" /\ GraphNext /\ UNCHANGED <<side, vars>>

GroupsSpec == GroupsInit /\ [][GroupsNext]_<<side, vars, graphVars>>

GroupsSymmetry == UserSymmetry \cup ClassSymmetry
=============================================================================
