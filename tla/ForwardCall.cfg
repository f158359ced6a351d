CONSTANTS
  r1 = r1
  r2 = r2
  Reqs <- MCReqs
  Cacheable <- MCCacheable
  MaxRows = 2
  MAX_RETRY = 3
  MAX_CLIENT_NUM = 0
SPECIFICATION Spec
INVARIANTS
  TypeOK
  CallbackAfterRows
  RowSettled
  HttpClientsAccounted
  HttpResponseOwned
PROPERTIES
  PlainBatchAnswered
