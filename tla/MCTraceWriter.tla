---------------------------- MODULE MCTraceWriter ----------------------------
(* Small instances of TraceWriter for TLC. *)
EXTENDS TraceWriter

CONSTANTS s1, s2, s3

MCSpan == {s1, s2, s3}
AllFaults == {"store", "schema"}
SchemaFaults == {"schema"}
Symmetry == Permutations(MCSpan)
=============================================================================
