SPECIFICATION Spec
CONSTANTS
  MaxRequests = 3
  MaxClients = 3
  MaxSubmits = 2
  Hosts = {"a"}
  Target <- OneHost
  Untimed = {1, 2, 3}
  Closing = {}
  Chunked = {1}
  Form <- NoForm
  ReuseFiles = FALSE
  RedirectLimit = 1
  Limits = {1, 2}
  FirstLimit = 1
  Buffers <- Answers
  LoopCalls = {"request", "chunk", "final", "limit", "idle"}
  HandlerCalls <- Retrying
  OwnOnly = TRUE
  Resubmits = FALSE
  Failures = {"connect", "read"}
INVARIANTS
  BusyIsServing
  Linked
  LimitHolds
CHECK_DEADLOCK FALSE
