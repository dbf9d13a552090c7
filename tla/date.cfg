SPECIFICATION Spec
CONSTANTS
  Word = 64
  Second = 4
  Start = 2
  Lag = 3
  Moments <- NewYear
INVARIANTS
  DateIsCurrent
CHECK_DEADLOCK FALSE
