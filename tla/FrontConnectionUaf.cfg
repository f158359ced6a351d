\* The parser reset by shutdown() while do_parse still runs on it.
CONSTANTS
  MaxReq = 2

SPECIFICATION Spec

INVARIANTS
  ParserOutlivesParse
