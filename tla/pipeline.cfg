SPECIFICATION Spec
CONSTANTS
  MaxRequests = 3
  MaxChunks = 2
  MaxKeepalive = 0
  IdleTimeout = TRUE
  Shapes <- KeepAliveShapes
  LoopCalls = {"respond", "begin", "chunk", "final", "drop", "close", "graceful"}
  HandlerCalls <- AnswersAndDrops
  OwnOnly = TRUE
  EarlyAnswer = FALSE
  FinalData = FALSE
  Pipelining = "buffers"
  HalfClosedReads = TRUE
  Failures = {"connect", "write", "eof"}
INVARIANTS
  TypeOK
  WireInOrder
  ResponsesWellFormed
  NoChunkLost
  LastIsLast
  NoStall
PROPERTIES
  FinishOnce
CHECK_DEADLOCK FALSE
