SPECIFICATION PollsSpec
CONSTANTS
  Data = {d1}
  Arrays = {}
  Null = Null
  App = "echo"
  Requests <- StreamingRequests
  MaxComets = 2
  MaxPackets = 2
  MaxOut = 2
  MaxIn = 1
PROPERTIES
  CometCompletes
  UnsentWritten
  PollEnds
CHECK_DEADLOCK FALSE
