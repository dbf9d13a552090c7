SPECIFICATION Spec
CONSTANTS
  MaxRequests = 1
  MaxChunks = 1
  MaxKeepalive = 0
  IdleTimeout = FALSE
  Shapes <- KeepAliveShapes
  LoopCalls = {"respond", "begin", "chunk", "final"}
  HandlerCalls <- Answers
  OwnOnly = TRUE
  EarlyAnswer = FALSE
  FinalData = FALSE
  Pipelining = "buffers"
  HalfClosedReads = TRUE
  Failures = {}
INVARIANTS
  NoFault
CHECK_DEADLOCK FALSE
