------------------------ MODULE MCKnowledgeDistiller ------------------------
(* Two passes over a few items. *)
EXTENDS KnowledgeDistiller, TLC

Symmetry == Permutations(Candidates) \cup Permutations(Items) \cup Permutations(Passes)
=============================================================================
