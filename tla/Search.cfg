SPECIFICATION Spec
CONSTANTS
  PortNumber <- MCPortNumber
  Upper <- MCUpper
  MaxText = 50
  Written <- MCWritten
  Trees <- MCTrees
  Texts <- MCTexts
  Rows <- MCRows
CHECK_DEADLOCK FALSE
INVARIANTS
  QueryReadsBack
  BalancedQueryRead
  PlaceholdersBound
  CompiledMeansParsed
