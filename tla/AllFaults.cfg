SPECIFICATION FairSpec
CONSTANTS
  Conns = {c1, c2}
  Reqs = {q1, q2}
  FdLimit = 7
  Faults <- AllFaults
  Free = Free
  Listener = Listener
  None = None
INVARIANTS
  TypeOK
  TableMatchesKernel
  CallbackArgLive
  AddFindsSlotFree
  NoStrayRead
  PatienceSuffices
PROPERTIES
  PassEnds
CHECK_DEADLOCK FALSE
