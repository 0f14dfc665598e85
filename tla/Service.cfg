SPECIFICATION FairSpec
CONSTANTS
  Conns = {c1, c2, c3}
  Reqs = {q1, q2}
  FdLimit = 9
  Faults <- NoFaults
  Free = Free
  Listener = Listener
  None = None
INVARIANTS
  StaysUp
  RightConnection
  ResponseWhole
  NoStrayResult
PROPERTIES
  ImplementsService
