SPECIFICATION Spec
CONSTANTS
  Strategies <- Truncation
  MaxTurns = 1
  MaxCalls = 1
  Conversations <- Talks
  MaxBytes = 256
  Text = {"x", "y"}
  Edits = {}
  Faults = {}
INVARIANT LossIsReported
