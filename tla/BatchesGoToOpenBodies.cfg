SPECIFICATION Spec
CONSTANTS
  Data = {d1}
  Arrays = {}
  Null = Null
  App = "echo"
  Requests <- PlainRequests
  MaxComets = 2
  MaxPackets = 2
INVARIANTS
  BatchesGoToOpenBodies
CHECK_DEADLOCK FALSE
