SPECIFICATION Spec
CONSTANTS
  p1 = p1
  p2 = p2
  Process = {p1}
  Nobody = Nobody
  Configs <- Baseline
  Concurrent = FALSE
  Faults <- NoFaults
INVARIANT InterruptedIsCancelled
