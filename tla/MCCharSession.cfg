CONSTANTS
  c1 = c1
  c2 = c2
  a1 = a1
  a2 = a2
  f1 = f1
  f2 = f2
  Clients = {c1, c2}
  Fds = {f1, f2}
  Ip <- OneAddress
  NoFd = NoFd
  None = None
  FaultKinds = {"cut", "mapcrash", "charcrash", "otherserver"}
  MaxFaults = 2
  MaxGrants = 3
  MaxQueue = 2
SPECIFICATION Spec
SYMMETRY FdSymmetry
INVARIANTS
  TypeOK
  IndexedSessionIsLive
  OnlineHasSession
  AuthTimerMatchesRow
  FlagIsRight
PROPERTIES
  LeaseSpec
