CONSTANTS
  c1 = c1
  c2 = c2
  a1 = a1
  a2 = a2
  f1 = f1
  f2 = f2
  Clients = {c1, c2}
  Fds = {f1, f2}
  Ip <- OneAddress
  NoFd = NoFd
  None = None
  FaultKinds = {}
  MaxFaults = 0
  MaxGrants = 2
  MaxQueue = 2
SPECIFICATION Spec
INVARIANT
  AtMostOnePlayer
