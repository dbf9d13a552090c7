SPECIFICATION Spec
CONSTANTS
  MaxRequests = 2
  MaxChunks = 1
  MaxKeepalive = 0
  IdleTimeout = TRUE
  Shapes <- ExpectShapes
  LoopCalls = {"respond", "begin", "chunk", "final", "continue", "drop", "close"}
  HandlerCalls <- Droppers
  OwnOnly = TRUE
  EarlyAnswer = TRUE
  FinalData = FALSE
  Pipelining = "reads"
  HalfClosedReads = FALSE
  Failures = {"parse", "read", "write", "eof"}
INVARIANTS
  NoFault
  NoDangling
  IdleOnlyWhenIdle
  IdleIsTimed
CHECK_DEADLOCK FALSE
