SPECIFICATION Spec
CONSTANTS
  MaxWrites = 2
  MaxOut = 2
  MaxComets = 2
  MaxFaults = 1
INVARIANTS
  DroppedWasSeen
  WritesArriveOnce
PROPERTIES
  ReadsFromTheFirst
CHECK_DEADLOCK FALSE
