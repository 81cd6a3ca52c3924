--------------------------- MODULE MCSessionInbox ---------------------------
(* SessionInbox for TLC.                                                   *)
EXTENDS SessionInboxRefinement, TLC

\* Nothing tells two hosts, two entries or two polls apart.
Symmetric == Permutations(Host) \union Permutations(Entry) \union Permutations(Poll)
=============================================================================
