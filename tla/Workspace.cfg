SPECIFICATION Spec
CONSTANTS
  Page = {"page"}
  Script = {"script"}
  Kind = {"task", "run"}
  a = a
  b = b
  Id <- Ids
  MaxRequests = 3
  MaxCalls = 1
  MaxCreates = 2
  MaxFaults = 1
  Faults = {"loss", "query", "create", "restart"}
SYMMETRY Symmetry
INVARIANTS
  TypeOK
  RowsAreWhole
  SchemaIsShared
  EditorIsOneRecord
  ListIsTrue
