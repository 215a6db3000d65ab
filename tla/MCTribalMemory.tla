--------------------------- MODULE MCTribalMemory ---------------------------
(* Two reviews or edits at once over a lineage of a few entries. *)
EXTENDS TribalMemory, TLC

Symmetry == Permutations(Entries) \cup Permutations(Candidates) \cup Permutations(Jobs)
=============================================================================
