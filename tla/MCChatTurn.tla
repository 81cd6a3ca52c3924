----------------------------- MODULE MCChatTurn -----------------------------
(* ChatTurn for TLC.                                                       *)
EXTENDS ChatTurn, TLC

\* Nothing tells two turns apart.
Symmetric == Permutations(Turn)
=============================================================================
