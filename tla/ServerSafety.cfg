SPECIFICATION Spec
CONSTANTS
  Data = {d1, a1}
  Arrays = {a1}
  Null = Null
  App = "chat"
  Requests <- AllRequests
  MaxComets = 2
  MaxPackets = 2
INVARIANTS
  WrittenOnceInOrder
  OpenCometIsTimed
  FinishedSessionLeaves
PROPERTIES
  CompletedStays
CHECK_DEADLOCK FALSE
