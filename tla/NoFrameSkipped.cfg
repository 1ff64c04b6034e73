SPECIFICATION MsppSpec
CONSTANTS
  MaxStreams = 1
  MaxWrites = 0
  MaxFrames = 2
  MaxConnections = 1
INVARIANT
  NoFrameSkipped
CHECK_DEADLOCK FALSE
