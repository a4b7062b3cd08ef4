----------------------------- MODULE MCSandbox -----------------------------
(* Small instances of Sandbox for TLC. *)
EXTENDS Sandbox

CONSTANTS p1, p2, root1, tracked, untracked
=============================================================================
