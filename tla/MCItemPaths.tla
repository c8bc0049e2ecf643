---------------------------- MODULE MCItemPaths ----------------------------
(* Instance of ItemPaths for TLC: a home page, a contest on it, itself a   *)
(* root, and a quiz in both.                                               *)
EXTENDS ItemPaths

CONSTANTS home, contest, quiz

MCPathLinks == {<<home, contest>>, <<home, quiz>>, <<contest, quiz>>}
=============================================================================
