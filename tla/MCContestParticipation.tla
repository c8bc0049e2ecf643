------------------------ MODULE MCContestParticipation ------------------------
(* A participant of a class; additional time for the class and for itself. *)
EXTENDS ContestParticipation

CONSTANTS p1, class

ClassMembers == [g \in {class, p1} |-> {p1}]
ExtraValues == {-1, 0, 2}
OneExtra == {1}
===============================================================================
