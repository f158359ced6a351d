CONSTANTS
  N = 4
  Batch = 2
  MaxId = 3
  SkipEnd = TRUE
SPECIFICATION Spec
PROPERTIES
  EndedCallLogged
