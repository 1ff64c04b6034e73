SPECIFICATION Spec
CONSTANTS
  Arrays = {}
  MaxWrites = 2
  MaxComets = 3
  MaxPackets = 3
  MaxFaults = 1
INVARIANTS
  ForgottenWasSeen
  ReleasedWasReceived
  NothingLostWithoutCause
PROPERTIES
  ReadsOrderedStream
CHECK_DEADLOCK FALSE
