SPECIFICATION Spec
CONSTANTS
  Commands <- AllStudies
  MaxStarts = 2
INVARIANTS
  TypeOK
  EvidenceIsWhole
  ManifestIsTrue
  MorphIsOptIn
PROPERTIES
  LeftoverBlocks
