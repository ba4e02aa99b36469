SPECIFICATION Spec
CONSTANTS
  PortNumber <- MCPortNumber
  Upper <- MCUpper
  MaxText = 50
  Written <- MCWritten
  Trees <- MCPortTrees
  Texts = {}
  Rows <- MCRows
CHECK_DEADLOCK FALSE
INVARIANTS
  QueryMeansParsed
