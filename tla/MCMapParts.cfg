SPECIFICATION MapPartsSpec
CHECK_DEADLOCK FALSE
SYMMETRY Symmetry
CONSTRAINT FaultIsEnough
CONSTANTS
  alice = alice
  bob = bob
  carol = carol
  apple = apple
  Players = {alice, bob, carol}
  NoOne = NoOne
  Items = {apple}
  Empty = Empty
  Inventory0 <- Inventories
  Money0 <- Purses
  MaxStack = 2
  MoneyWrap = 2
  MaxActs = 6
  Spells = {s1, s2}
  NoSpell = NoSpell
  Casters = {caster}
  NoCaster = NoCaster
  MaxTicks = 2
  MAX_MAGIC_TIMERS = 2
  Pcs = {pc}
  Mobs = {mob}
  Things = {npc, item}
  Null = Null
  bl_head = bl_head
  XS = 2
  BlockSize = 1
  MaxDepth = 2
  MaxChanges = 1
  HalfView = 0
  AreaSize = 0
  WearKinds = {"sword", "axe", "ring", "charm", "potion"}
  NoItem = "none"
  itemdb_type <- KindType
  itemdb_unique <- KindUnique
  itemdb_maxamount <- KindMax
  Bag0 <- Bags
  MaxScriptActs = 2
  MaxScripts = 2
  ann = ann
  ben = ben
  Clients = {ann, ben}
  Goods = {"ore", "relic"}
  NoGood = "none"
  Plain = "plain"
  Marks = {"plain", "x"}
  maxAmount <- PerSlot
  Refused = {"relic"}
  Hold0 <- Holds
  MAX_BANK_SLOTS = 2
  MaxParcels = 2
  MaxAsked = 2
INVARIANTS
  MapPartsTypeOK
  ItemsSound
  SlotsSound
  ChainsSound
PROPERTIES
  CallsWhatItFound
