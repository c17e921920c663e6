------------------------------ MODULE Exchange ------------------------------
(***************************************************************************)
(* Exchange between two players standing on one cell of a map server       *)
(* (clif_parse_exchange), with what it moves: inventories, money and the   *)
(* floor (pc_additem, pc_delitem, pc_dropitemmap, pc_getitemscript).  An   *)
(* item offered leaves the inventory at once and waits in exchange.item;   *)
(* finishing, quitting or logging out must bring it to exactly one         *)
(* inventory, or to the floor when that is full.  The clients behave: they *)
(* send exchange packets only while they show a window, but a notice that  *)
(* closes the window takes time to reach them, and nothing stops a third   *)
(* player from asking one of the two.                                      *)
(*                                                                         *)
(* Items are ids: owner, engraving and durability are left out, none is    *)
(* itemdb_unique, and map[].sweeptime is 0, so nothing is swept.           *)
(***************************************************************************)
EXTENDS Naturals, FiniteSets, SequencesExt

CONSTANTS
  Players,
  NoOne,        \* 0 in exchange.target, and no window at the client
  Items,        \* item ids
  Empty,        \* id 0 of an inventory slot
  Inventory0,   \* the inventories, and
  Money0,       \* the money, that players come with
  MaxStack,     \* itemdb_maxamount
  MoneyWrap,    \* 2^32 in the code: money is an unsigned int
  MaxActs       \* bound: packets the clients send

ASSUME ExchangeAssumption ==
  /\ IsFiniteSet(Players) /\ NoOne \notin Players /\ Empty \notin Items
  /\ MaxStack \in Nat \ {0} /\ MoneyWrap \in Nat \ {0} /\ MaxActs \in Nat

Slot == [id : Items \cup {Empty}, amount : 0..MaxStack]
EmptySlot == [id |-> Empty, amount |-> 0]

\* A slot is empty or holds something.
Slots(inv) ==
  /\ inv \in Seq(Slot)
  /\ \A s \in DOMAIN inv : (inv[s].id = Empty) <=> (inv[s].amount = 0)

ASSUME BelongingsAssumption ==
  /\ Inventory0 \in [Players -> Seq(Slot)]
  /\ \A p \in Players : Slots(Inventory0[p])
  /\ Money0 \in [Players -> 0..MoneyWrap - 1]

VARIABLES
  inventory,    \* status.inventory of each player, kept while it is away
  money,        \* status.money
  floorItems,   \* amount of each item on the cell
  floorGold,    \* gold on the cell
  exchange,     \* sd->exchange: target, item, gold, done
  willing,      \* FLAG_EXCHANGE of status.settingFlags
  online,       \* "on", "eof" (session to be closed) or "off"
  window,       \* partner in the exchange window of the client
  closing,      \* a notice that closes the window is on its way
  confirmed,    \* history: the client sent a finish from its window
  acts,         \* packets sent so far
  crossed,      \* history: a packet from the window crossed such a notice
  cutIn,        \* history: a third player asked one of two exchanging
  overdrawn,    \* history: gold left below what its owner had confirmed
  gift          \* history: goods left a player that had not confirmed, or
                \* for a list that had been given back

goods == <<inventory, money, floorItems, floorGold>>
clients == <<willing, online, window, closing>>
history == <<confirmed, crossed, cutIn, overdrawn, gift>>
exchangeVars == <<goods, exchange, clients, acts, history>>

NoExchange == [target |-> NoOne, item |-> <<>>, gold |-> 0, done |-> FALSE]

ExchangeInit ==
  /\ inventory = Inventory0
  /\ money = Money0
  /\ floorItems = [id \in Items |-> 0]
  /\ floorGold = 0
  /\ exchange = [p \in Players |-> NoExchange]
  /\ willing = [p \in Players |-> TRUE]
  /\ online = [p \in Players |-> "on"]
  /\ window = [p \in Players |-> NoOne]
  /\ closing = [p \in Players |-> FALSE]
  /\ confirmed = [p \in Players |-> FALSE]
  /\ crossed = FALSE /\ cutIn = FALSE /\ overdrawn = FALSE /\ gift = FALSE
  /\ acts = 0

----------------------------------------------------------------------------
(* What the handlers do, as functions of the state they share: several of  *)
(* them in a row make up one handler.                                      *)

World == [inv |-> inventory, money |-> money, ex |-> exchange,
          floor |-> floorItems]

WorldIs(w) ==
  /\ inventory' = w.inv /\ money' = w.money
  /\ exchange' = w.ex /\ floorItems' = w.floor

Least(a, b) == IF a <= b THEN a ELSE b

\* Put what fits of an item in slot s.
Put(f, s, it) ==
  LET n == Least(f.left, MaxStack - f.inv[s].amount)
  IN  IF n = 0 THEN f
      ELSE [inv  |-> [f.inv EXCEPT ![s] = [id |-> it.id, amount |-> @.amount + n]],
            left |-> f.left - n]

\* Fill the slots that hold id has, in the order pc_isinvenspace finds them.
FillSlots(f, has, it) ==
  FoldLeft(LAMBDA g, s : IF g.inv[s].id = has THEN Put(g, s, it) ELSE g,
           f, [s \in DOMAIN f.inv |-> s])

\* Stacks of the item with room first, then empty slots; what is left over
\* falls to the floor (pc_dropitemfull).
pc_additem(w, p, it) ==
  LET start == [inv |-> w.inv[p], left |-> it.amount]
      f == FillSlots(FillSlots(start, it.id, it), Empty, it)
  IN  [w EXCEPT !.inv[p] = f.inv, !.floor[it.id] = @ + f.left]

pc_delitem_KeepsId(inv, s, n) ==
  [inv EXCEPT ![s].amount = IF @ <= n THEN 0 ELSE @ - n]
pc_delitem(inv, s, n) ==
  [inv EXCEPT ![s] = IF @.amount <= n THEN EmptySlot
                     ELSE [id |-> @.id, amount |-> @.amount - n]]

AddAll(w, p, list) ==
  FoldLeft(LAMBDA v, it : pc_additem(v, p, it), w, list)

clif_exchange_cleanup(w, p) ==
  [w EXCEPT !.ex[p] = [NoExchange EXCEPT !.target = w.ex[p].target]]

\* Give the offer back.
clif_exchange_close(w, p) ==
  [AddAll(w, p, w.ex[p].item) EXCEPT !.ex[p] = NoExchange]

Pay(w, from, to) ==
  LET g == w.ex[from].gold
  IN  [w EXCEPT !.money[to] = (@ + g) % MoneyWrap,
                !.money[from] = (@ + MoneyWrap - g) % MoneyWrap,
                !.ex[from].gold = 0]

\* sd's list and gold to tsd, then tsd's to sd.
clif_exchange_finalize(w, p, q) ==
  LET half == Pay(AddAll(w, q, w.ex[p].item), p, q)
  IN  Pay(AddAll(half, p, half.ex[q].item), q, p)

clif_exchange_sendok(w, p, q) ==
  IF w.ex[q].done
  THEN clif_exchange_cleanup(
         clif_exchange_cleanup(clif_exchange_finalize(w, p, q), p), q)
  ELSE [w EXCEPT !.ex[p].done = TRUE]

\* These clients are sent a message that closes their window.
Notify(S) ==
  closing' = [p \in Players |-> closing[p] \/ (p \in S /\ window[p] # NoOne)]

Online(p) == online[p] # "off"

----------------------------------------------------------------------------
(* The packets of clif_parse_exchange.                                     *)

\* 0: clif_startexchange.  The targets are set before the other's flag is
\* read; both flags are toggled when the request is accepted.
Ask(p, q) ==
  /\ online[p] = "on" /\ window[p] = NoOne /\ Online(q) /\ q # p
  /\ cutIn' = (cutIn \/ window[q] # NoOne)
  /\ LET ex == [exchange EXCEPT ![p].target = q, ![q].target = p]
     IN  IF willing[q]
         THEN /\ exchange' = [ex EXCEPT ![p].item = <<>>, ![q].item = <<>>]
              /\ willing' = [willing EXCEPT ![p] = ~@, ![q] = FALSE]
              /\ window' = [window EXCEPT ![p] = q, ![q] = p]
              /\ closing' = [closing EXCEPT ![p] = FALSE, ![q] = FALSE]
              /\ confirmed' = [confirmed EXCEPT ![p] = FALSE, ![q] = FALSE]
         ELSE /\ exchange' = ex
              /\ UNCHANGED <<willing, window, closing, confirmed>>
  /\ UNCHANGED <<goods, online, crossed, overdrawn, gift>>

\* A client that shows a window, with that partner.
Trading(p, q) == online[p] = "on" /\ window[p] = q /\ q # NoOne

\* 1 and 2: n of the item in slot s.  Nothing asks whether the exchange the
\* client shows still exists.
Offer(p, s, n) ==
  /\ \E q \in Players : Trading(p, q) /\ Online(q)
  /\ inventory[p][s].id # Empty /\ n <= inventory[p][s].amount
  /\ inventory' = [inventory EXCEPT ![p] = pc_delitem(@, s, n)]
  /\ exchange' = [exchange EXCEPT ![p].item =
                    Append(@, [id |-> inventory[p][s].id, amount |-> n])]
  /\ crossed' = (crossed \/ closing[p])
  /\ UNCHANGED <<money, floorItems, floorGold, clients,
                 confirmed, cutIn, overdrawn, gift>>

\* 3: gold, ignored when the player has less.
OfferGold(p, g) ==
  /\ \E q \in Players : Trading(p, q)
  /\ g <= money[p]
  /\ exchange' = [exchange EXCEPT ![p].gold = g]
  /\ UNCHANGED <<goods, clients, history>>

\* 4: quit.
Quit(p) ==
  \E q \in Players :
    /\ Trading(p, q)
    /\ LET w == clif_exchange_close(World, p)
       IN  WorldIs(IF Online(q) THEN clif_exchange_close(w, q) ELSE w)
    /\ Notify({p} \cup {r \in {q} : Online(r)})
    /\ crossed' = (crossed \/ closing[p])
    /\ UNCHANGED <<floorGold, willing, online, window,
                   confirmed, cutIn, overdrawn, gift>>

HasGold(w, p) == w.ex[p].gold <= w.money[p]

\* 5: finish.  The wrong partner closes this side; the code then goes on
\* unless the partner meant this player.
Finish(p) ==
  \E q \in Players :
    /\ Trading(p, q)
    /\ LET wrong == exchange[p].target # q
           w == IF wrong THEN clif_exchange_close(World, p) ELSE World
           both == {p} \cup {r \in {q} : Online(r)}
           closeBoth == IF Online(q)
                        THEN clif_exchange_close(clif_exchange_close(w, p), q)
                        ELSE clif_exchange_close(w, p)
       IN  \/ /\ wrong /\ Online(q) /\ exchange[q].target = p
              /\ WorldIs(closeBoth)
              /\ Notify(both)
              /\ online' = [online EXCEPT ![p] = "eof"]
              /\ UNCHANGED gift
           \/ /\ ~(wrong /\ Online(q) /\ exchange[q].target = p)
              /\ ~HasGold(w, p)
              /\ WorldIs(closeBoth)
              /\ Notify(both)
              /\ UNCHANGED <<online, gift>>
           \/ /\ ~(wrong /\ Online(q) /\ exchange[q].target = p)
              /\ HasGold(w, p)
              /\ Online(q)
              /\ WorldIs(clif_exchange_sendok(w, p, q))
              /\ Notify(IF exchange[q].done THEN both
                        ELSE IF wrong THEN {p} ELSE {})
              /\ gift' = (gift \/ (exchange[q].done
                                     /\ (wrong \/ ~confirmed[q])))
              /\ UNCHANGED online
           \/ /\ HasGold(w, p)
              /\ ~Online(q)
              /\ WorldIs(clif_exchange_close(w, p))
              /\ Notify(IF wrong THEN {p} ELSE {})
              /\ UNCHANGED <<online, gift>>
    /\ confirmed' = [confirmed EXCEPT ![p] = TRUE]
    /\ crossed' = (crossed \/ closing[p])
    /\ UNCHANGED <<floorGold, willing, window, cutIn, overdrawn>>

----------------------------------------------------------------------------
(* The rest of what the players do.                                        *)

\* The client reads the notice.
SeeClose(p) ==
  /\ closing[p]
  /\ window' = [window EXCEPT ![p] = NoOne]
  /\ closing' = [closing EXCEPT ![p] = FALSE]
  /\ confirmed' = [confirmed EXCEPT ![p] = FALSE]
  /\ UNCHANGED <<goods, exchange, willing, online,
                 crossed, cutIn, overdrawn, gift>>

\* The option that refuses exchanges.
ToggleExchange(p) ==
  /\ online[p] = "on" /\ window[p] = NoOne
  /\ willing' = [willing EXCEPT ![p] = ~@]
  /\ UNCHANGED <<goods, exchange, online, window, closing, history>>

\* clif_handle_disconnect: the inventory is saved, the exchange is not.
Logout(p) ==
  /\ Online(p)
  /\ LET q == exchange[p].target
         w == IF q = NoOne THEN World ELSE clif_exchange_close(World, p)
         back == q # NoOne /\ Online(q) /\ exchange[q].target = p
         v == IF back THEN clif_exchange_close(w, q) ELSE w
     IN  /\ WorldIs([v EXCEPT !.ex[p] = NoExchange])
         /\ closing' = [r \in Players |->
                          IF r = p THEN FALSE
                          ELSE closing[r] \/ (back /\ r = q
                                                /\ window[r] # NoOne)]
  /\ online' = [online EXCEPT ![p] = "off"]
  /\ window' = [window EXCEPT ![p] = NoOne]
  /\ confirmed' = [confirmed EXCEPT ![p] = FALSE]
  /\ UNCHANGED <<floorGold, willing, crossed, cutIn, overdrawn, gift>>

Login(p) ==
  /\ online[p] = "off"
  /\ online' = [online EXCEPT ![p] = "on"]
  /\ UNCHANGED <<goods, exchange, willing, window, closing, history>>

\* pc_dropitemmap: one unit, or the whole stack.
DropItem(p, s, all) ==
  /\ online[p] = "on" /\ inventory[p][s].id # Empty
  /\ LET n == IF all THEN inventory[p][s].amount ELSE 1
     IN  /\ inventory' = [inventory EXCEPT ![p] = pc_delitem(@, s, n)]
         /\ floorItems' = [floorItems EXCEPT ![inventory[p][s].id] = @ + n]
  /\ UNCHANGED <<money, floorGold, exchange, clients, history>>

\* pc_getitemscript, called by the script onPickUp.
PickUp(p, id, all) ==
  /\ online[p] = "on" /\ floorItems[id] > 0
  /\ LET n == IF all THEN floorItems[id] ELSE 1
     IN  WorldIs(pc_additem([World EXCEPT !.floor[id] = @ - n], p,
                            [id |-> id, amount |-> n]))
  /\ UNCHANGED <<floorGold, clients, history>>

\* clif_dropgold: money is not held back by an offer.
clif_dropgold(p, g) ==
  /\ online[p] = "on" /\ g <= money[p] /\ floorGold + g < MoneyWrap
  /\ money' = [money EXCEPT ![p] = @ - g]
  /\ floorGold' = floorGold + g
  /\ overdrawn' = (overdrawn \/ (exchange[p].done
                                   /\ money[p] - g < exchange[p].gold))
  /\ UNCHANGED <<inventory, floorItems, exchange, clients,
                 confirmed, crossed, cutIn, gift>>

TakeGold(p) ==
  /\ online[p] = "on" /\ floorGold > 0
  /\ money' = [money EXCEPT ![p] = (@ + floorGold) % MoneyWrap]
  /\ floorGold' = 0
  /\ UNCHANGED <<inventory, floorItems, exchange, clients, history>>

\* What the clients send, MaxActs packets in all.
Request ==
  \E p \in Players :
    \/ \E q \in Players : Ask(p, q)
    \/ \E s \in DOMAIN inventory[p], n \in 1..MaxStack : Offer(p, s, n)
    \/ \E g \in 0..MoneyWrap - 1 : OfferGold(p, g)
    \/ Quit(p) \/ Finish(p)
    \/ ToggleExchange(p) \/ Logout(p) \/ Login(p)
    \/ \E s \in DOMAIN inventory[p], all \in BOOLEAN : DropItem(p, s, all)
    \/ \E id \in Items, all \in BOOLEAN : PickUp(p, id, all)
    \/ \E g \in 1..MoneyWrap - 1 : clif_dropgold(p, g)
    \/ TakeGold(p)

ExchangeNext ==
  \/ acts < MaxActs /\ acts' = acts + 1 /\ Request
  \/ UNCHANGED acts /\ \E p \in Players : SeeClose(p)

ExchangeSpec == ExchangeInit /\ [][ExchangeNext]_exchangeVars

----------------------------------------------------------------------------
\* Types, with slots either empty or holding something: clif_exchange_additem
\* and pc_additem never leave an id without an amount.
ExchangeTypeOK ==
  /\ \A p \in Players : Slots(inventory[p])
  /\ money \in [Players -> 0..MoneyWrap - 1]
  /\ floorItems \in [Items -> Nat] /\ floorGold \in 0..MoneyWrap - 1
  /\ \A p \in Players :
       /\ exchange[p].target \in Players \cup {NoOne}
       /\ exchange[p].item \in Seq([id : Items, amount : 1..MaxStack])
       /\ exchange[p].gold \in 0..MoneyWrap - 1
       /\ exchange[p].done \in BOOLEAN
  /\ willing \in [Players -> BOOLEAN] /\ closing \in [Players -> BOOLEAN]
  /\ online \in [Players -> {"on", "eof", "off"}]
  /\ window \in [Players -> Players \cup {NoOne}]

Sum(f) == FoldFunction(+, 0, f)
Amount(list, id) ==
  Sum([s \in DOMAIN list |-> IF list[s].id = id THEN list[s].amount ELSE 0])
Units(inv, ex, floor, id) ==
  floor + Sum([p \in Players |-> Amount(inv[p], id) + Amount(ex[p].item, id)])

Units0 == [id \in Items |->
             Units(Inventory0, [p \in Players |-> NoExchange], 0, id)]
Gold0 == Sum(Money0)

\* Every unit is in exactly one inventory, offer or floor stack, whatever the
\* order of offers, finishing, quitting and logging out.  It is never doubled,
\* and lost only after a packet crossed the notice that closed its exchange or
\* a third player asked one of the two, accepted or not.
ItemsKept ==
  \A id \in Items :
    LET now == Units(inventory, exchange, floorItems[id], id)
    IN  now <= Units0[id] /\ (now < Units0[id] => crossed \/ cutIn)

\* Gold changes hands and is not created, unless a player let it go below what
\* it had confirmed: the finish reads only the other player's purse.  There is
\* no more gold than a purse holds, or a purse could overflow.
GoldKept ==
  Gold0 < MoneyWrap => overdrawn \/ floorGold + Sum(money) = Gold0

\* Nothing is lost and nothing made, but for these exceptions.
GoodsKept == ItemsKept /\ GoldKept

\* A finished exchange was confirmed at both windows and takes both lists.  The
\* exceptions: a finish that crosses a cancel confirms the player's next
\* exchange, and so may one that a third player's request diverted.
NoGift == gift => crossed \/ cutIn

\* Whatever closes an exchange, it moves just what both confirmed.
ExchangeSound == GoodsKept /\ NoGift
=============================================================================
