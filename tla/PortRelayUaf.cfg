\* The client closes first: start() returns while handle_forward_rsp still
\* holds a reference to socket_.
CONSTANTS
  MaxChunks = 1

SPECIFICATION Spec

INVARIANTS
  SrcSocketAlive
