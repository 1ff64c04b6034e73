SPECIFICATION Spec
CONSTANTS
  MaxWrites = 1
  MaxEventId = 2
  MaxBatch = 1
INVARIANT
  NullSentBack
CHECK_DEADLOCK FALSE
