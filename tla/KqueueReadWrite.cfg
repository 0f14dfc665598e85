SPECIFICATION FairSpec
CONSTANTS
  FD = {3, 4}
  None = None
  Backends = {"select", "epoll", "kqueue"}
  ReadWriteOn = {"kqueue"}
  ChangelistSize = 2
INVARIANT
  KernelWatches
