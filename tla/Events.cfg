SPECIFICATION FairSpec
CONSTANTS
  FD = {3, 4}
  None = None
  Backends = {"select", "epoll", "kqueue"}
  ReadWriteOn = {"select", "epoll"}
  ChangelistSize = 3
INVARIANTS
  TypeOK
  KernelWatches
  ChangeListSound
  AssertionsHold
PROPERTIES
  CallbackAsked
  Delivered
  OrphansCollected
