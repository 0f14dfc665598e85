SPECIFICATION Spec
CONSTANTS
  FD = {0, 1, 2}
  ShortBits = 2
  TimeoutVecSize = 5
  MaxTimeout = 9
  Secs = {1, 4}
  MaxTime = 6
  MaxLag = 5
  OwnOnly = FALSE
  None = None
INVARIANT FiredFdInLoop
CHECK_DEADLOCK FALSE
