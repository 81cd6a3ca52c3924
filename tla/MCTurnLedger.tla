---------------------------- MODULE MCTurnLedger ----------------------------
(* TurnLedger for TLC.                                                     *)
EXTENDS TurnLedger, TLC

\* Nothing tells two admissions, or two requests, apart.
Symmetric == Permutations(Admission) \union Permutations(Request)
=============================================================================
