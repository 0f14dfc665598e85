SPECIFICATION Spec
CONSTANTS
  Conns = {c1, c2}
  Reqs = {q1, q2}
  FdLimit = 8
  Faults <- HangUps
  Free = Free
  Listener = Listener
  None = None
INVARIANT RightConnection
CHECK_DEADLOCK FALSE
