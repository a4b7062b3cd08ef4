SPECIFICATION Spec
CONSTANTS
  s1 = s1
  s2 = s2
  s3 = s3
  Span <- MCSpan
  NoSpan = NoSpan
  MaxRev = 1
  MaxEvents = 1
  Faults <- AllFaults
SYMMETRY Symmetry
INVARIANTS
  TypeOK
  NestingIsSound
  RowsAreTrue
PROPERTY RefinesTraceLog
CHECK_DEADLOCK FALSE
