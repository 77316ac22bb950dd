----------------------------- MODULE MCSteward -----------------------------
(* A few jobs over a store that changes under the worker.                  *)
EXTENDS Steward, TLC

(* The steward only does to the store what a component may do.             *)
KnowledgeSpec == Spec

InterchangeableEvents == Permutations(Events) \cup Permutations(Jobs)

OneLine == {<<"a">>}
=============================================================================
