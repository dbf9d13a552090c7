SPECIFICATION SyncFairSpec
CONSTANTS
  MaxRequests = 2
  MaxClients = 2
  MaxSubmits = 2
  Hosts = {"a", "b"}
  Target <- OneHost
  Untimed = {}
  Closing = {}
  Chunked = {}
  Form <- NoForm
  ReuseFiles = FALSE
  RedirectLimit = 1
  Limits = {1}
  FirstLimit = 1
  Buffers <- AllKinds
  LoopCalls = {}
  HandlerCalls <- Retrying
  OwnOnly = TRUE
  Resubmits = FALSE
  Failures = {"eof", "connect"}
  ReuseRequests = FALSE
INVARIANTS
  ResultInTime
  NoStaleConnection
PROPERTIES
  SyncEnds
CHECK_DEADLOCK FALSE
