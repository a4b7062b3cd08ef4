----------------------------- MODULE MCRunCommand -----------------------------
(* Small instances of RunCommand for TLC. *)
EXTENDS RunCommand, TLC

CONSTANTS p1, p2

BothAgents == {"baseline", "groq"}
Groq == {"groq"}
Baseline == {"baseline"}
AllFaults == {"step", "store", "file"}
StepFaults == {"step"}
NoFaults == {}
Symmetry == Permutations({p1, p2})
=============================================================================
