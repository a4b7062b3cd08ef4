SPECIFICATION Spec
CONSTANTS
  p1 = p1
  p2 = p2
  Process = {p1, p2}
  Nobody = Nobody
  Configs <- BothAgents
  Concurrent = FALSE
  Faults <- AllFaults
SYMMETRY Symmetry
INVARIANTS
  TypeOK
  RecordIsTrue
  CancelWins
  EndIsTold
PROPERTY NeverOverwritten
