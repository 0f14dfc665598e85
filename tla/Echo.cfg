SPECIFICATION EchoSpec
CONSTANTS
  FD = {0, 1, 2}
  ShortBits = 2
  TimeoutVecSize = 6
  MaxTimeout = 6
  Secs = {2}
  MaxTime = 8
  MaxLag = 3
  OwnOnly = TRUE
  None = None
  ListenSock = 0
  TimeoutSecs = 2
INVARIANTS
  EchoTypeOK
  EveryConnectionTimed
PROPERTIES
  ReapedInTime
  SilentLongEnough
  HeardBeforeExpiry
CHECK_DEADLOCK FALSE
