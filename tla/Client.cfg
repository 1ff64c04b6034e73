SPECIFICATION Spec
CONSTANTS
  MaxWrites = 2
  MaxEventId = 3
  MaxBatch = 2
INVARIANTS
  WritesConserved
  RetriesKeepPackets
  DeliveredConsecutive
  NoRequestOverwritten
  LoopsAlive
PROPERTIES
  ReadyStateAdvances
  
CHECK_DEADLOCK FALSE
