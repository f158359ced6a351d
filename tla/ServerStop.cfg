\* Two reactor io_services and the main one, one connection per io_service,
\* one exception out of io_service_pool::run.  The process ends once run()
\* has returned, so a state with nothing left to do is not a deadlock.
CONSTANTS
  PoolSize = 2
  MaxConns = 1
  MaxThrows = 1
SPECIFICATION Spec
PROPERTIES
  StopEnds
CHECK_DEADLOCK FALSE
