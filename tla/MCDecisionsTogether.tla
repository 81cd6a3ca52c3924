------------------------- MODULE MCDecisionsTogether -------------------------
(* Two questions about one call, two requests at a time, a routine's rows.  *)
EXTENDS DecisionsTogether, TLC

Unattended == {<<FALSE, FALSE>>}
=============================================================================
