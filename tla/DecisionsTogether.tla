-------------------------- MODULE DecisionsTogether --------------------------
(***************************************************************************)
(* Decisions with a history of the pairs of questions that were open side  *)
(* by side, to ask the twin rule by what happened rather than by the       *)
(* stamps the rows carry.                                                  *)
(***************************************************************************)
EXTENDS Decisions

VARIABLE together   \* pairs of ids that were open at one moment

togetherVars == <<now, rows, gates, tabs, picks, host, sent, together>>

OpenPairs == {p \in SUBSET Id : \E d, e \in Id : /\ d # e /\ p = {d, e}
                                                  /\ SameCall(rows[d], rows[e])
                                                  /\ isOpen(rows[d]) /\ isOpen(rows[e])}

TogetherInit == Init /\ together = {}

TogetherNext == Next /\ together' = together \union OpenPairs'

TogetherSpec == TogetherInit /\ [][TogetherNext]_togetherVars

\* Two identical questions that a person had open side by side run the call
\* once between them (the rule claimForApproval enforces by comparing
\* resolved_at with created_at).
TwinsRunOnce ==
  \A d, e \in Id : {d, e} \in together /\ d # e => sent[d] + sent[e] <= 1
=============================================================================
