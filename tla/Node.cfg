SPECIFICATION Spec
CONSTANTS
  MaxOut = 2
  MaxIn = 3
  MaxComets = 2
  Changes <- MCChanges
INVARIANTS
  ResponsesKeepUp
  ReceivedInSequence
PROPERTIES
  CurrentIsTimed
CHECK_DEADLOCK FALSE
