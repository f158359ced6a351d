CONSTANTS
  c1 = c1
  c2 = c2
  Callers <- MCCallers
  MaxCalls = 3
  MaxEpoch = 2
  ChunkedWrite = TRUE
SPECIFICATION Spec
INVARIANTS
  NoStrandedFuture

PROPERTIES
  RpcCallRefined
  RegisteredIdRemoved
