SPECIFICATION Spec
CONSTANTS
  FD = {0, 1, 2}
  ShortBits = 2
  TimeoutVecSize = 5
  MaxTimeout = 9
  Secs = {1, 4}
  MaxTime = 13
  MaxLag = 6
  OwnOnly = TRUE
  None = None
INVARIANTS
  TypeOK
  ArmedHasBits
  NoBitLeftBehind
  AssertionsHold
PROPERTIES
  ImplementsDeadlines
