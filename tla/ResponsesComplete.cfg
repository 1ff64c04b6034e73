SPECIFICATION Spec
CONSTANTS
  MaxOut = 1
  MaxIn = 1
  MaxComets = 2
  Changes <- MCChanges
INVARIANT
  ResponsesComplete
CHECK_DEADLOCK FALSE
