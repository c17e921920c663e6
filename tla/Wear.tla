-------------------------------- MODULE Wear --------------------------------
(***************************************************************************)
(* What one player wears and uses.  Using, wearing, taking off, breaking   *)
(* and expiring of an item each run scripts in the middle of moving it,    *)
(* with the item meanwhile named by sd->invslot, equipid and takeoffid,    *)
(* which the next such call overwrites.  The scripts onEquip and onUnequip *)
(* only call equip and takeOff; those of an item may add and remove items, *)
(* wear out or expire what is worn.                                        *)
(*                                                                         *)
(* Owners and engravings are all alike.  Durability is left out: whatever  *)
(* wears out may break.  Which items have expired is any choice, as        *)
(* additem keeps no timeleft.  Class, level and strength admit all.     *)
(***************************************************************************)
EXTENDS Integers, SequencesExt

CONSTANTS
  WearKinds,       \* item ids
  NoItem,          \* id 0
  itemdb_type,     \* "use", "etc", or the place where a kind is worn
  itemdb_unique,   \* how many of a kind a player may have, 0 for any number
  itemdb_maxamount,
  Bag0,            \* inventories that the player may come with
  MaxScriptActs,   \* bound: what breaks, expires, is given and taken
  MaxScripts       \* bound: scripts that run inside each other

Places == {"WEAP", "LEFT", "RIGHT", "SUBLEFT", "SUBRIGHT"}
NoPlace == "none"

ASSUME WearAssumption ==
  /\ NoItem \notin WearKinds
  /\ itemdb_type \in [WearKinds -> {"use", "etc"} \cup Places]
  /\ itemdb_unique \in [WearKinds -> Nat]
  /\ itemdb_maxamount \in [WearKinds -> Nat \ {0}]
  /\ MaxScriptActs \in Nat /\ MaxScripts \in Nat

Nothing == [id |-> NoItem, amount |-> 0]

VARIABLES
  bag,        \* status.inventory
  worn,       \* status.equip
  ground,     \* amounts on the player's cell
  equipid, invslot, takeoffid,
  scripts,    \* calls that run a script now, inner last
  scriptActs, \* counts to MaxScriptActs
  due,        \* history: the amounts there should be
  disturbed   \* history: a script took what a call around it was moving

wearVars == <<bag, worn, ground, equipid, invslot, takeoffid, scripts,
              scriptActs, due, disturbed>>

BagAmount(b, k) ==
  FoldLeft(LAMBDA n, s : n + IF s.id = k THEN s.amount ELSE 0, 0, b)

WearInit ==
  /\ bag \in Bag0
  /\ worn = [p \in Places |-> Nothing]
  /\ ground = [k \in WearKinds |-> 0]
  /\ equipid = NoItem /\ invslot = 1 /\ takeoffid = "WEAP"
  /\ scripts = <<>> /\ scriptActs = 0
  /\ due = [k \in WearKinds |-> BagAmount(bag, k)]
  /\ disturbed = FALSE

----------------------------------------------------------------------------
(* Moving items.  w is the player: bag, worn, ground.                      *)

Player == [bag |-> bag, worn |-> worn, ground |-> ground]
PlayerIs(w) == bag' = w.bag /\ worn' = w.worn /\ ground' = w.ground

BagSlots == DOMAIN bag
First(S) == {i \in S : \A j \in S : i <= j}

\* Of a unique kind, what is in the bag and what is worn counts.
WornOf(w, k) == {p \in Places : w.worn[p].id = k}
uniqueLeft(w, k) == itemdb_unique[k] - BagAmount(w.bag, k)
                      - Cardinality(WornOf(w, k))

\* A slot with the same kind and room, else an empty one.
pc_isinvenspace(w, k) ==
  LET same == {i \in DOMAIN w.bag : w.bag[i].id = k
                              /\ w.bag[i].amount < itemdb_maxamount[k]}
      free == {i \in DOMAIN w.bag : w.bag[i].id = NoItem}
  IN  IF itemdb_unique[k] > 0 /\ uniqueLeft(w, k) <= 0 THEN {}
      ELSE First(IF same # {} THEN same ELSE free)

\* How many fit there.  What is being taken off does not count.
pc_isinvenitemspace(w, slot, k) ==
  LET counted == IF takeoffid = NoPlace \/ w.worn[takeoffid].id # k
                 THEN Cardinality(WornOf(w, k)) ELSE 0
      left == itemdb_unique[k] - BagAmount(w.bag, k) - counted
  IN  IF itemdb_unique[k] = 0
      THEN itemdb_maxamount[k] - w.bag[slot].amount
      ELSE IF w.bag[slot].id = NoItem /\ left >= itemdb_maxamount[k]
      THEN itemdb_maxamount[k]
      ELSE IF w.bag[slot].id # k THEN 0 ELSE left

\* One slot is filled, and the next; what finds none drops.  An empty slot in
\* which a unique kind has less room than a stack is first taken with 0.
pc_dropitemfull(w, k, n) == [w EXCEPT !.ground[k] = @ + n]
additem(w, it) ==
  LET Fill(f, round) ==
        LET at == pc_isinvenspace(f.w, it.id)
        IN  IF f.left = 0 \/ at = {} THEN f
            ELSE LET slot == CHOOSE i \in at : TRUE
                     room == pc_isinvenitemspace(f.w, slot, it.id)
                     n == IF f.left > room THEN room ELSE f.left
                 IN  [w |-> [f.w EXCEPT !.bag[slot] =
                               [id |-> it.id, amount |-> @.amount + n]],
                      left |-> f.left - n]
      done == FoldLeft(Fill, [w |-> w, left |-> it.amount],
                       [r \in 1..(it.amount + Len(w.bag)) |-> r])
  IN  IF it.id = NoItem THEN w ELSE pc_dropitemfull(done.w, it.id, done.left)

delitem(w, slot, n) ==
  [w EXCEPT !.bag[slot] = IF @.id = NoItem \/ @.amount <= n THEN Nothing
                          ELSE [@ EXCEPT !.amount = @ - n]]

\* Where a kind is worn: rings and charms have two places each.
Full(p) == worn[p].id # NoItem
placeOf(k) ==
  CASE itemdb_type[k] \in {"LEFT", "RIGHT"} ->
         LET one == itemdb_type[k]
             two == IF one = "LEFT" THEN "RIGHT" ELSE "LEFT"
         IN  IF Full(one) /\ ~Full(two) THEN two ELSE one
    [] itemdb_type[k] \in {"SUBLEFT", "SUBRIGHT"} ->
         IF Full("SUBRIGHT") /\ ~Full("SUBLEFT") THEN "SUBLEFT"
         ELSE IF itemdb_type[k] = "SUBLEFT" /\ Full("SUBLEFT")
                 /\ ~Full("SUBRIGHT") THEN "SUBLEFT"
         ELSE "SUBRIGHT"
    [] OTHER -> itemdb_type[k]

----------------------------------------------------------------------------
(* Calls, and what they do when their script has run.                      *)

Script(call, slot, place) == [call |-> call, slot |-> slot, place |-> place]
NoSlot == 0
InScript == scripts[Len(scripts)]
Runs(call) == scripts # <<>> /\ InScript.call = call
ScriptEnded == SubSeq(scripts, 1, Len(scripts) - 1)
Runs_next(s) == scripts' = Append(ScriptEnded, s)

\* Handlers run on their own, or from the script of an item.
ItemScripts == {"use", "etc", "equip", "swapped", "unequip", "break"}
MayCall ==
  scripts # <<>> => InScript.call \in ItemScripts /\ Len(scripts) < MaxScripts

ScriptAct == scriptActs < MaxScriptActs /\ scriptActs' = scriptActs + 1

\* Slots and places that a call around is moving.
BusySlots == {scripts[i].slot : i \in DOMAIN scripts}
BusyPlaces == {scripts[i].place : i \in DOMAIN scripts}
Expiring == \E i \in DOMAIN scripts : scripts[i].call \in {"expire", "expired"}

\* Food and potions run their script and are used up then.
pc_useitem(slot) ==
  /\ scripts = <<>> /\ bag[slot].id # NoItem
  /\ itemdb_type[bag[slot].id] \in {"use", "etc"}
  /\ invslot' = slot
  /\ scripts' = <<Script(itemdb_type[bag[slot].id], slot, NoPlace)>>
  /\ due' = IF itemdb_type[bag[slot].id] = "use"
            THEN [due EXCEPT ![bag[slot].id] = @ - 1] ELSE due
  /\ UNCHANGED <<bag, worn, ground, equipid, takeoffid, scriptActs, disturbed>>

pc_useitem_used ==
  /\ Runs("use") \/ Runs("etc")
  /\ PlayerIs(IF Runs("use") THEN delitem(Player, InScript.slot, 1)
              ELSE Player)
  /\ scripts' = ScriptEnded
  /\ UNCHANGED <<equipid, invslot, takeoffid, scriptActs, due, disturbed>>

\* Wearing: onEquip calls equip.
pc_equipitem(slot) ==
  /\ scripts = <<>> /\ bag[slot].id # NoItem
  /\ itemdb_type[bag[slot].id] \in Places
  /\ equipid' = bag[slot].id /\ invslot' = slot
  /\ scripts' = <<Script("onEquip", slot, NoPlace)>>
  /\ UNCHANGED <<bag, worn, ground, takeoffid, scriptActs, due, disturbed>>

\* What is worn in the place comes off first, by onUnequip; an empty place
\* takes the whole slot, and one unit of it once the item's script has run.
pc_equipscript ==
  /\ Runs("onEquip")
  /\ LET p == placeOf(equipid)
     IN  IF Full(p)
         THEN /\ takeoffid' = p
              /\ scripts' = ScriptEnded \o <<Script("swap", invslot, p),
                                       Script("onUnequip", NoSlot, p)>>
              /\ UNCHANGED <<bag, worn, ground>>
         ELSE /\ PlayerIs(delitem([Player EXCEPT !.worn[p] = bag[invslot]],
                                     invslot, 1))
              /\ Runs_next(Script("equip", invslot, p))
              /\ UNCHANGED takeoffid
  /\ UNCHANGED <<equipid, invslot, scriptActs, due, disturbed>>

pc_equipscript_swapped ==
  /\ Runs("swap")
  /\ Runs_next(Script("swapped", NoSlot, NoPlace))
  /\ UNCHANGED <<bag, worn, ground, equipid, invslot, takeoffid, scriptActs,
                 due, disturbed>>

pc_equipscript_end ==
  /\ Runs("equip") \/ Runs("swapped")
  /\ equipid' = NoItem
  /\ worn' = IF Runs("equip") THEN [worn EXCEPT ![InScript.place].amount = 1]
             ELSE worn
  /\ scripts' = ScriptEnded
  /\ UNCHANGED <<bag, ground, invslot, takeoffid, scriptActs, due, disturbed>>

\* Taking off: onUnequip calls takeOff.
pc_unequip(p) ==
  /\ takeoffid' = p
  /\ scripts' = Append(scripts, Script("onUnequip", NoSlot, p))
clif_parseunequip(p) ==
  /\ scripts = <<>> /\ Full(p)
  /\ \E i \in BagSlots : bag[i].id = NoItem
  /\ pc_unequip(p)
  /\ UNCHANGED <<bag, worn, ground, equipid, invslot, scriptActs, due,
                 disturbed>>

\* With an equipid, the slot invslot is put on instead.
swappedIn_WholeSlot(w, p) ==
  LET out == [w EXCEPT !.worn[p] = w.bag[invslot], !.bag[invslot] = Nothing]
      in == additem(out, w.worn[p])
  IN  [in EXCEPT !.worn[p].amount = 1]
swappedIn(w, p) ==
  LET out == delitem([w EXCEPT !.worn[p] = w.bag[invslot]], invslot, 1)
      in == additem(out, w.worn[p])
  IN  [in EXCEPT !.worn[p].amount = 1]
pc_unequipscript ==
  /\ Runs("onUnequip")
  /\ LET p == takeoffid
     IN  PlayerIs(IF equipid # NoItem THEN swappedIn(Player, p)
                  ELSE [additem(Player, worn[p]) EXCEPT
                          !.worn[p] = Nothing])
  /\ Runs_next(Script("unequip", NoSlot, NoPlace))
  /\ UNCHANGED <<equipid, invslot, takeoffid, scriptActs, due, disturbed>>

pc_unequipscript_end ==
  /\ Runs("unequip")
  /\ takeoffid' = NoPlace
  /\ scripts' = ScriptEnded
  /\ UNCHANGED <<bag, worn, ground, equipid, invslot, scriptActs, due,
                 disturbed>>

----------------------------------------------------------------------------
(* Wearing out, expiring, throwing.                                        *)

\* A worn item breaks: onBreak, on_break, and the place is empty.
clif_checkdura(p) ==
  /\ MayCall /\ ScriptAct /\ Full(p)
  /\ scripts' = Append(scripts, Script("break", NoSlot, p))
  /\ due' = [due EXCEPT ![worn[p].id] = @ - 1]
  /\ disturbed' = (disturbed \/ Expiring \/ p \in BusyPlaces)
  /\ UNCHANGED <<bag, worn, ground, equipid, invslot, takeoffid>>

clif_checkdura_end ==
  /\ Runs("break")
  /\ worn' = [worn EXCEPT ![InScript.place] = Nothing]
  /\ scripts' = ScriptEnded
  /\ UNCHANGED <<bag, ground, equipid, invslot, takeoffid, scriptActs, due,
                 disturbed>>

\* pcl_expireitem: what has expired in the bag loses one; each that is worn
\* is taken off, and the slot that was the first empty one loses one.  Without
\* an empty slot eqdel is not set: any slot may be hit.
pcl_expireitem(places) ==
  /\ MayCall /\ ScriptAct
  /\ places # {} /\ \A p \in places : Full(p)
  /\ \E eqdel \in LET free == {i \in BagSlots : bag[i].id = NoItem}
                 IN  IF free = {} THEN BagSlots ELSE First(free) :
       scripts' = Append(scripts, [call |-> "expire", slot |-> eqdel,
                                   place |-> NoPlace, left |-> places])
  /\ due' = [k \in WearKinds |->
               due[k] - Cardinality({p \in places : worn[p].id = k})]
  /\ disturbed' = (disturbed \/ Expiring \/ equipid # NoItem
                   \/ places \cap BusyPlaces # {}
                   \/ \A i \in BagSlots : bag[i].id # NoItem
                   \/ \E p \in places :
                        \/ itemdb_unique[worn[p].id] > 0
                        \/ \E j \in BagSlots : bag[j].id = worn[p].id)
  /\ UNCHANGED <<bag, worn, ground, equipid, invslot, takeoffid>>

pcl_expireitem_next ==
  /\ Runs("expire") /\ InScript.left # {}
  /\ \E p \in InScript.left :
       /\ takeoffid' = p
       /\ scripts' = ScriptEnded \o <<[InScript EXCEPT !.left = @ \ {p},
                                                !.call = "expired"]>>
                  \o (IF Full(p) THEN <<Script("onUnequip", NoSlot, p)>>
                      ELSE <<>>)
  /\ UNCHANGED <<bag, worn, ground, equipid, invslot, scriptActs, due,
                 disturbed>>
pcl_expireitem_taken ==
  /\ Runs("expired")
  /\ PlayerIs(delitem(Player, InScript.slot, 1))
  /\ scripts' = IF InScript.left = {} THEN ScriptEnded
                ELSE Append(ScriptEnded, [InScript EXCEPT !.call = "expire"])
  /\ UNCHANGED <<equipid, invslot, takeoffid, scriptActs, due, disturbed>>

\* onThrow calls throwItem: one unit of the slot lies on the ground.
clif_throwitem_script(slot) ==
  /\ scripts = <<>> /\ bag[slot].id # NoItem /\ bag[slot].amount > 0
  /\ invslot' = slot
  /\ PlayerIs(delitem(pc_dropitemfull(Player, bag[slot].id, 1), slot, 1))
  /\ UNCHANGED <<worn, equipid, takeoffid, scripts, scriptActs, due,
                 disturbed>>

----------------------------------------------------------------------------
(* What else the script of an item does.                                   *)

InItemScript == scripts # <<>> /\ InScript.call \in ItemScripts

pcl_additem(k, n) ==
  /\ InItemScript /\ ScriptAct
  /\ PlayerIs(additem(Player, [id |-> k, amount |-> n]))
  /\ due' = [due EXCEPT ![k] = @ + n]
  /\ disturbed' = (disturbed \/ Expiring)
  /\ UNCHANGED <<equipid, invslot, takeoffid, scripts>>

pcl_removeitemslot(slot) ==
  /\ InItemScript /\ ScriptAct
  /\ bag[slot].id # NoItem /\ bag[slot].amount > 0
  /\ PlayerIs(delitem(Player, slot, 1))
  /\ due' = [due EXCEPT ![bag[slot].id] = @ - 1]
  /\ disturbed' = (disturbed \/ Expiring \/ slot \in BusySlots)
  /\ UNCHANGED <<equipid, invslot, takeoffid, scripts>>

----------------------------------------------------------------------------
WearNext ==
  \/ \E slot \in BagSlots :
       \/ pc_useitem(slot) \/ pc_equipitem(slot) \/ clif_throwitem_script(slot)
       \/ pcl_removeitemslot(slot)
  \/ pc_useitem_used \/ pc_equipscript \/ pc_equipscript_swapped
  \/ pc_equipscript_end \/ pc_unequipscript \/ pc_unequipscript_end
  \/ \E p \in Places : clif_parseunequip(p) \/ clif_checkdura(p)
  \/ clif_checkdura_end
  \/ \E places \in SUBSET Places : pcl_expireitem(places)
  \/ pcl_expireitem_next \/ pcl_expireitem_taken
  \/ \E k \in WearKinds : pcl_additem(k, 1)

WearSpec == WearInit /\ [][WearNext]_wearVars

----------------------------------------------------------------------------
Worn == [id : WearKinds \cup {NoItem}, amount : Nat]
WearTypeOK ==
  /\ bag \in Seq(Worn) /\ worn \in [Places -> Worn]
  /\ ground \in [WearKinds -> Nat]
  /\ equipid \in WearKinds \cup {NoItem} /\ invslot \in BagSlots
  /\ takeoffid \in Places \cup {NoPlace}
  /\ scripts \in Seq([call : STRING, slot : BagSlots \cup {NoSlot},
                      place : Places \cup {NoPlace}]
             \cup [call : {"expire", "expired"}, slot : BagSlots,
                   place : {NoPlace}, left : SUBSET Places])
  /\ scriptActs \in 0..MaxScriptActs
  /\ due \in [WearKinds -> Int] /\ disturbed \in BOOLEAN

\* Whatever is worn, swapped, taken off, used up, thrown, broken or expired,
\* and whatever scripts do meanwhile, each item is in one place and none is
\* gone but what was used; unless a script takes what a call around it moves.
ItemsStay ==
  scripts = <<>> /\ ~disturbed =>
    \A k \in WearKinds :
      due[k] = BagAmount(bag, k) + Cardinality(WornOf(Player, k)) + ground[k]

\* What is worn is worn where its kind belongs, one unit of it.
WornFits ==
  scripts = <<>> /\ ~disturbed =>
    \A p \in Places : Full(p) =>
      /\ worn[p].amount = 1
      /\ LET t == itemdb_type[worn[p].id]
         IN  \/ t = p \/ {t, p} = {"LEFT", "RIGHT"}
             \/ {t, p} = {"SUBLEFT", "SUBRIGHT"}

\* Of a unique kind nobody has more than it allows.
UniqueKept ==
  ~disturbed => \A k \in WearKinds :
    itemdb_unique[k] > 0 => uniqueLeft(Player, k) >= 0

\* However scripts interfere with what is worn, used and taken off, items stay,
\* fit where they are worn, and are not more than a kind allows.
WearSound == ItemsStay /\ WornFits /\ UniqueKept
=============================================================================
