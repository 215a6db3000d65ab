-------------------------- MODULE MCSessionRunner --------------------------
(* Two executions, two handlers in flight, two redirects. *)
EXTENDS SessionRunner, TLC

Symmetry == Permutations(Ctrls) \cup Permutations(Execs) \cup Permutations(Reqs)
              \cup Permutations(Redirects)
=============================================================================
