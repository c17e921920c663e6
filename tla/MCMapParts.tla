----------------------------- MODULE MCMapParts -----------------------------
(***************************************************************************)
(* Parts of the map server that share no state, checked side by side: a    *)
(* behaviour belongs to one of them, chosen at the start, and the others   *)
(* stay as they were.                                                      *)
(***************************************************************************)
EXTENDS Exchange, Durations, BlockGrid, Wear, Bank, TLC

CONSTANTS alice, bob, carol, apple, ann, ben

VARIABLE part

mapPartsVars == <<part, exchangeVars, durationsVars, gridVars, wearVars, bankVars>>

\* Two players with an item in common, one of them with gold, and a third
\* whose only slot is empty.
Inventories ==
  LET apples(n) == <<[id |-> apple, amount |-> n]>>
  IN  (alice :> apples(2)) @@ (bob :> apples(1)) @@ (carol :> <<EmptySlot>>)
Purses == (alice :> 1) @@ (bob :> 0) @@ (carol :> 0)

\* A weapon, a unique one, rings, charms and potions that stack.
KindType == [k \in WearKinds |->
  CASE k \in {"sword", "axe"} -> "WEAP" [] k = "ring" -> "LEFT"
    [] k = "charm" -> "SUBLEFT" [] OTHER -> "use"]
KindUnique == [k \in WearKinds |-> IF k = "axe" THEN 1 ELSE 0]
KindMax == [k \in WearKinds |-> IF k \in {"sword", "axe"} THEN 1 ELSE 2]
Lot(k, n) == [id |-> k, amount |-> n]
Bags == {<<Lot("sword", 1), Lot("axe", 1)>>,
         <<Lot("ring", 2), Lot("potion", 1)>>,
         <<Lot("charm", 2), Lot("potion", 2)>>}

\* Plain and engraved ore, and a relic that banks refuse.
Piece(k, m) == [id |-> k, mark |-> m, amount |-> 1]
Holds ==
  {(ann :> <<Piece("ore", "plain"), Piece("ore", m)>>)
     @@ (ben :> <<Piece("relic", "plain")>>) : m \in Marks}
PerSlot == [k \in Goods |-> IF k = "ore" THEN 2 ELSE 1]

Symmetry == Permutations(Things)

\* What follows a fault of the bank is of no further interest.
FaultIsEnough == faults \subseteq {"switched"}

MapPartsInit ==
  /\ part \in {"exchange", "durations", "grid", "wear", "bank"}
  /\ ExchangeInit /\ DurationsInit /\ GridInit /\ WearInit /\ BankInit
  /\ part # "wear" => bag[1].id = "sword"
  /\ part # "bank" => hold[ann][2].mark = "plain"

ExchangeStep ==
  /\ part = "exchange" /\ ExchangeNext
  /\ UNCHANGED <<part, durationsVars, gridVars, wearVars, bankVars>>
DurationsStep ==
  /\ part = "durations" /\ DurationsNext
  /\ UNCHANGED <<part, exchangeVars, gridVars, wearVars, bankVars>>
GridStep ==
  /\ part = "grid" /\ GridNext
  /\ UNCHANGED <<part, exchangeVars, durationsVars, wearVars, bankVars>>
WearStep ==
  /\ part = "wear" /\ WearNext
  /\ UNCHANGED <<part, exchangeVars, durationsVars, gridVars, bankVars>>
BankStep ==
  /\ part = "bank" /\ BankNext
  /\ UNCHANGED <<part, exchangeVars, durationsVars, gridVars, wearVars>>

MapPartsNext ==
  ExchangeStep \/ DurationsStep \/ GridStep \/ WearStep \/ BankStep

MapPartsSpec == MapPartsInit /\ [][MapPartsNext]_mapPartsVars

\* The part that moves keeps to its types.
MapPartsTypeOK ==
  CASE part = "exchange" -> ExchangeTypeOK
    [] part = "durations" -> DurationsTypeOK
    [] part = "grid" -> GridTypeOK
    [] part = "wear" -> WearTypeOK
    [] part = "bank" -> BankTypeOK

\* Items and gold are neither lost nor copied, whoever trades, picks up, drops,
\* wears, uses, deposits or sends them, and whatever runs in the middle.
ItemsSound ==
  /\ part = "exchange" => ExchangeSound
  /\ part = "wear" => WearSound
  /\ part = "bank" => BankSound
=============================================================================
