SPECIFICATION AgentSpec
CONSTANTS
  MaxRequests = 2
  MaxClients = 2
  MaxSubmits = 2
  Hosts = {"a", "b"}
  Target <- TwoHosts
  Untimed = {1, 2}
  Closing = {}
  Chunked = {}
  Form <- NoForm
  ReuseFiles = FALSE
  RedirectLimit = 2
  Limits = {1}
  FirstLimit = 1
  Buffers <- Redirects
  LoopCalls = {"request", "cancel"}
  HandlerCalls <- AgentHandlers
  OwnOnly = TRUE
  Resubmits = FALSE
  Failures = {"eof", "connect", "proxy"}
  AgentCtx = "own"
INVARIANTS
  CookiesStayHome
  ContextKept
CHECK_DEADLOCK FALSE
