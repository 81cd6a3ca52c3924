----------------------------- MODULE MCDecisions -----------------------------
(* Decisions for TLC: two questions that can be about one call, one person. *)
EXTENDS DecisionsRefinement, TLC

\* Rows held in a chat reach every path an approval can take: told, parked,
\* deferred (irreversible) or sent at once; a routine's reach all but the first.
ChatShapes == {TRUE} \X BOOLEAN

\* Nothing tells two ids, or two people, apart.
Symmetric == Permutations(Id) \union Permutations(Owner)
=============================================================================
