SPECIFICATION Spec
CONSTANTS
  MaxRequests = 2
  MaxDocuments = 2
  ClientPosts = 2
  ServerPosts = 1
  MaxStreams = 2
  MaxWrites = 1
  MaxFrames = 2
  MaxConnections = 2
  MaxLines = 4
INVARIANTS
  AnsweredInOrder
  SilencedByLateEnd
  OpenedOnceBeforeUse
  HeardAsSent
  LinesAsSent
PROPERTIES
  RequestsAnswered
  WrittenBeforeClose
  CloseIsAnswered
CHECK_DEADLOCK FALSE
