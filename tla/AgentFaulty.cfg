SPECIFICATION Spec
CONSTANTS
  Span <- MCSpan
  NoSpan = NoSpan
  RootSpan = 1
  Unlimited = Unlimited
  MaxRev = 1
  MaxEvents = 9
  Faults <- AllFaults
  Limit <- MCLimit
  Usage <- MCUsage
INVARIANTS
  TypeOK
  LimitsHold
  AccountIsTrue
  LeavesWriterClean
PROPERTIES
  NoWorkAfterCancel
  Terminates
