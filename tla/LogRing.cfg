CONSTANTS
  N = 2
  Batch = 2
  MaxId = 6
  SkipEnd = TRUE
SPECIFICATION Spec
INVARIANTS
  TypeOK
  SentRecordIsEnded
PROPERTIES
  EndedCallLoggedWithoutHoles
