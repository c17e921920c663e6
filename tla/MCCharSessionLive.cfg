CONSTANTS
  c1 = c1
  c2 = c2
  a1 = a1
  a2 = a2
  f1 = f1
  f2 = f2
  Clients = {c1, c2}
  Fds = {f1, f2}
  Ip <- TwoAddresses
  NoFd = NoFd
  None = None
  FaultKinds = {"cut", "mapcrash", "otherserver"}
  MaxFaults = 2
  MaxGrants = 2
  MaxQueue = 1
SPECIFICATION FairSpec
PROPERTIES
  NoStuckOnline
  KickFrees
  RowExpires
