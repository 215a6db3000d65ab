-------------------------- MODULE MCSkillLifecycle --------------------------
(* Three entries, two edits or reviews at once. *)
EXTENDS SkillLifecycle, TLC

Symmetry == Permutations(Ids) \cup Permutations(Txs)
=============================================================================
