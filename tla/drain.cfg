SPECIFICATION FairSpec
CONSTANTS
  MaxRequests = 3
  MaxChunks = 1
  MaxKeepalive = 2
  IdleTimeout = TRUE
  Shapes <- UpgradeShapes
  LoopCalls = {"respond", "begin", "chunk", "final", "upgrade", "graceful"}
  HandlerCalls <- Upgraders
  OwnOnly = TRUE
  EarlyAnswer = FALSE
  FinalData = TRUE
  Pipelining = "none"
  HalfClosedReads = FALSE
  Failures = {"parse", "write", "eof"}
INVARIANTS
  KeepaliveLimit
PROPERTIES
  UpgradedStreamUntouched
  ConnectionLives
  DrainEnds
CHECK_DEADLOCK FALSE
