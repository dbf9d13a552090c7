SPECIFICATION Spec
CONSTANTS
  MaxRequests = 3
  MaxClients = 2
  MaxSubmits = 2
  Hosts = {"a", "b"}
  Target <- TwoHosts
  Untimed = {}
  Closing = {2}
  Chunked = {}
  Form <- Uploads
  ReuseFiles = FALSE
  RedirectLimit = 0
  Limits = {1}
  FirstLimit = 1
  Buffers <- Streams
  LoopCalls = {"request", "cancel", "destroy"}
  HandlerCalls <- Cancelling
  OwnOnly = TRUE
  Resubmits = FALSE
  Failures = {"connect", "write", "read", "eof", "extra", "stream"}
INVARIANTS
  NoFault
  OnePlace
  NoLostWakeup
  ResponseBelongs
  StreamerServes
PROPERTIES
  NoOvertaking
CHECK_DEADLOCK FALSE
