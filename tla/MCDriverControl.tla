-------------------------- MODULE MCDriverControl --------------------------
(* Three users, two transactions open at once. *)
EXTENDS DriverControl, TLC

Symmetry == Permutations(Users) \cup Permutations(Txs)
=============================================================================
