SPECIFICATION ServerPartsSpec
CHECK_DEADLOCK FALSE
SYMMETRY ValueSymmetry
CONSTANTS
  MaxFd = 3
  Addrs = {"player", "char"}
  CharAddr = "char"
  MaxSame = 1
  MaxInvalid = 1
  MaxOut = 1
  MaxOdd = 1
  wfifo_size = 2
  rfifo_size = 3
  ServerSize = 4
  Reserve = 1
  KernelRoom = 3
  MaxLen = 3
  MaxPackets = 4
  Keys = {1, 2, 3, 4, 5, 6}
  Nil = Nil
  HASH_SIZE = 2
  hash <- TwoBuckets
  MaxFree = 2
  MapFds = {f1, f2, f3}
  NoFd = NoFd
  Maps = {m1}
  MAX_MAP_SERVER = 2
  Values = {v1, v2}
  Blank = Blank
  NoArray = NoArray
  Size = 2
  Socks = {1}
  Authors = {"ann", "bob"}
  Nobody = "nobody"
  ChaId <- Numbers
  PageSize = 1
  MaxPosts = 2
  MaxAsks = 1
  Containers = {"ids", "items"}
  EntrySizes = {1, 2, 3}
  LinkSize = 2
  ERS_BLOCK_ENTRIES = 2
  ERS_ROOT_SIZE = 2
  MaxManagers = 2
  MaxBlocks = 2
INVARIANTS
  ServerPartsTypeOK
  RoutesByDescriptor
  StreamInOrder
  StoresSound
  TableIsRight
  SaveIsExact
PROPERTIES
  MailSound
