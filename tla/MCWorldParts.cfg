SPECIFICATION WorldPartsSpec
CHECK_DEADLOCK FALSE
SYMMETRY UserSymmetry
CONSTANTS
  Users = {u1, u2}
  NoUser = NoUser
  GroupIds = {1}
  MaxVita = 2
  MAX_THREATCOUNT = 2
  MaxNested = 1
  MaxWrites = 2
  Kinds = {"dialog", "menuseq", "menu", "buy", "sell", "input"}
  MaxCo = 3
  MaxUp = 2
  MaxDown = 2
  MaxRunning = 3
  CoLimit = 2
  Half <- Screen
  MapSize <- Ground
  Closed = {}
  Marks <- Corners
  Watchers = {u1, u2}
  Grounds = {m1, m2}
  Away = Away
  Den = m1
  Unseen = Unseen
  Persons = {u1, u2}
  Realms = {m1, m2}
  Off = Off
  GhostMaps = {m1}
  None = None
  Foes = {rival}
  Nobody = Nobody
  Self = Self
  BaseHp = 1
  ResHp = 2
  MaxCalls = 1
INVARIANTS
  WorldPartsTypeOK
  LivesSound
  ClientSound
  ScreenIsTrue
