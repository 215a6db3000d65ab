--------------------------- MODULE MCWorkspaceFiles ---------------------------
(* A file of up to two lines and a change of it. *)
EXTENDS WorkspaceFiles, TLC

MCContents == {<<"a">>, <<"b", "a">>}
Symmetry == Permutations(Jobs)
=============================================================================
