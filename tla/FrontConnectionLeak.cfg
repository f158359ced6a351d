\* A connection whose response write fails on a reset socket.
CONSTANTS
  MaxReq = 2

SPECIFICATION Spec

INVARIANTS
  ReleasedWhenIdle
