---------------------------- MODULE MCTaskTurns ----------------------------
(* Three tasks; no symmetry, since a liveness property is checked. *)
EXTENDS TaskTurns
=============================================================================
