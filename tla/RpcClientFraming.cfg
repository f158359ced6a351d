CONSTANTS
  c1 = c1
  c2 = c2
  Callers <- MCCallers
  MaxCalls = 2
  MaxEpoch = 1
  ChunkedWrite = TRUE
SYMMETRY MCSymmetry
SPECIFICATION Spec
INVARIANTS
  WireWellFramed
