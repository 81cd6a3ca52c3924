-------------------------- MODULE MCProviderMeter --------------------------
(* ProviderMeter for TLC.                                                  *)
EXTENDS ProviderMeter, TLC

\* Nothing tells two sessions, two meters or two tunnels apart.
Symmetric == Permutations(Session) \union Permutations(Meter) \union Permutations(Tunnel)
=============================================================================
