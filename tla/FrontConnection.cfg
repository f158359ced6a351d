\* Three requests of any kind on a front-end connection, pipelined, then a
\* close or a reset; or a forward connection carrying two chunks each way;
\* or two pipelined requests of up to two headers, every token up to two
\* characters long so that a read can cut it; or two calls of a pooled
\* HTTP client, each answered with a 200 or a 404 of at most one header;
\* or three batch requests of two rows each on a fiber pool growing from
\* 2 fibers past its cap of 3 (2 -> 4).
CONSTANTS
  MaxReq = 3
  MaxChunks = 2
  Chars = {"a"}
  MaxMsgs = 2
  MaxHdrs = 2
  MaxLen = 2
  Codes = {200, 404}
  RspHdrs = 1
  MaxCalls = 2
  b1 = b1
  b2 = b2
  b3 = b3
  PoolRows = 2
  GROW_SIZE = 2
  MAX_GROW_SIZE = 3

SPECIFICATION Spec

INVARIANTS
  TypeOK
  RequestsAssembled
  ResponseReturned
  NoLostWakeup

PROPERTIES
  ConnectionEnds
  RelayEnds
  ResponsesRelayed
  RequestsRelayed
  AllBatchesAnswered
