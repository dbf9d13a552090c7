SPECIFICATION FairSpec
CONSTANTS
  MaxConnections = 3
  MaxRuns = 2
  LoopCalls = {"run", "stop", "graceful", "answer", "configure", "listen", "destroy"}
  HandlerCalls <- StopInCallbacks
  BindFailures = FALSE
INVARIANTS
  StateHonest
PROPERTIES
  
  GracefulEnds
  ConnectionsLive
CHECK_DEADLOCK FALSE
