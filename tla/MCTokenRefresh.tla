--------------------------- MODULE MCTokenRefresh ---------------------------
(* TokenRefresh for TLC.                                                   *)
EXTENDS TokenRefresh, TLC

\* Nothing tells two hosts, or two readers, apart.
Symmetric == Permutations(Host) \union Permutations(Reader)
=============================================================================
