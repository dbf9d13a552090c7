SPECIFICATION FairSpec
CONSTANTS
  MaxRequests = 3
  MaxClients = 2
  MaxSubmits = 1
  Hosts = {"a", "b"}
  Target <- OneHost
  Untimed = {}
  Closing = {}
  Chunked = {}
  Form <- NoForm
  ReuseFiles = FALSE
  RedirectLimit = 1
  Limits = {1}
  FirstLimit = 1
  Buffers <- AllKinds
  LoopCalls = {"request", "cancel"}
  HandlerCalls <- RedirectHandlers
  OwnOnly = TRUE
  Resubmits = FALSE
  Failures = {"eof"}
INVARIANTS
  TypeOK
  TimerCovers
PROPERTIES
  OwnEnded
  LifePromise
CHECK_DEADLOCK FALSE
