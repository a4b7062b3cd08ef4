SPECIFICATION Spec
CONSTANTS
  Strategies <- All
  MaxTurns = 3
  MaxCalls = 2
  Conversations <- LongTalks
  MaxBytes = 256
  Text = {"x", "y"}
  Edits <- AllEdits
  Faults = {"store"}
INVARIANTS
  TypeOK
  CallIsAccounted
  OutcomeIsTrue
  TruncationIsSound
  EditIsExact
PROPERTY CallEnds
