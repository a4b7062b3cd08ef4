------------------------------ MODULE MCWorkspace ------------------------------
(* Small instances of Workspace for TLC. *)
EXTENDS Workspace, TLC

CONSTANTS a, b

Ids == {a, b}
Symmetry == Permutations(Ids)
=============================================================================
