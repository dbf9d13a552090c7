SPECIFICATION Spec
CONSTANTS
  Clients = {"c1", "c2"}
  Word = 64
  Start = 7
  End = 22
  Second = 3
  Timeouts = {0, 2, 5, 7}
  MaxSets = 2
INVARIANTS
  IdleDropped
PROPERTIES
  FreshKept
CHECK_DEADLOCK FALSE
