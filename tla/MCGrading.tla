------------------------------ MODULE MCGrading ------------------------------
(* One author, three answers, a platform that signs its tokens.          *)
EXTENDS Grading
=============================================================================
