CONSTANTS
  Players = {p1, p2, p3, p4}
  NoId = NoId
  MaxGroups = 3
  MaxMembers = 3
  Second = 2
  Swing = 2
  Preys = {u1, u2}
  NoPrey = NoPrey
  Names = {n1, n2}
  NoName = NoName
  Values = {1}
  Copies = {c1, c2}
  Owner = c1
  TableSize = 2
  MaxInserts = 3
CONSTRAINT ShortHistory
SYMMETRY Symmetry
SPECIFICATION PlayerPartsSpec
CHECK_DEADLOCK FALSE
INVARIANTS
  TypeOK
  ListedAreMembers
  SlotInUse
  ExpelWithinGroup
  PlayersSound
PROPERTY
  SeniorityKept
