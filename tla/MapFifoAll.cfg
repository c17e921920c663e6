SPECIFICATION MapFifoSpec
CONSTANTS
  MapFds = {f1, f2, f3}
  NoFd = NoFd
  Maps = {m1}
  MAX_MAP_SERVER = 3
INVARIANT AllReachesAll
