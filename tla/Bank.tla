-------------------------------- MODULE Bank --------------------------------
(***************************************************************************)
(* What players give to a keeper: the bank of each and the parcels between *)
(* them.  Both are dialogs of a Lua script that calls the map server, and  *)
(* while a dialog waits for an answer its player may drop, pick up and     *)
(* move what it has; the script knows an item by its slot.  Each player is *)
(* on a map server of its own: the rows of parcels are shared, and the     *)
(* position of a new one is found in one query and used in another.        *)
(*                                                                         *)
(* Owner and engraving of an item are one mark, Plain is neither.          *)
(* Durability, fees, unique kinds and what is worn are left out (Wear).    *)
(***************************************************************************)
EXTENDS Naturals, FiniteSets, SequencesExt

CONSTANTS
  Clients,      \* players, each on its own server
  Goods,        \* item ids
  NoGood,       \* id 0
  Marks, Plain, \* owner and engraving
  maxAmount,    \* how many of a kind a slot takes
  Refused,      \* kinds that may not be deposited
  Hold0,        \* the inventories at the start
  MAX_BANK_SLOTS,
  MaxParcels,   \* bound: parcels that are ever sent
  MaxAsked      \* bound: amounts that are asked for

ASSUME BankAssumption ==
  /\ NoGood \notin Goods /\ NoGood \notin Clients
  /\ IsFiniteSet(Clients) /\ IsFiniteSet(Marks)
  /\ Plain \in Marks /\ Refused \subseteq Goods
  /\ maxAmount \in [Goods -> Nat \ {0}]
  /\ {MAX_BANK_SLOTS, MaxParcels, MaxAsked} \subseteq Nat

Lots == [id : Goods \cup {NoGood}, mark : Marks, amount : Nat]

\* A slot is empty or holds something.
LotBags ==
  {b \in Seq(Lots) : \A i \in DOMAIN b : b[i].id = NoGood <=> b[i].amount = 0}

ASSUME HoldAssumption == Hold0 \subseteq [Clients -> LotBags]

NoLot == [id |-> NoGood, mark |-> Plain, amount |-> 0]

VARIABLES
  hold,     \* status.inventory
  banks,    \* status.banks
  heap,     \* how many of each kind and mark lie on the floor
  parcels,  \* rows of the table Parcels
  sent,     \* counts to MaxParcels
  talk,     \* the dialog that waits for an answer
  posting,  \* a parcel between the two queries that send it
  owing,     \* history: how many of a kind there should be
  faults    \* history: bankfull (deposited in a full bank), copied (a slot
            \* had less than was sent), doubled (two parcels of one position
            \* were removed), switched (what was deposited is not what the
            \* player had chosen)

bankVars == <<hold, banks, heap, parcels, sent, talk, posting, owing, faults>>

Quiet == [ask |-> "nothing", slot |-> 0, id |-> NoGood, amount |-> 0]
NotPosting == [to |-> NoGood, pos |-> 0, amount |-> 0]

Total(f) == FoldFunction(+, 0, f)
AmountIn(b, k) ==
  Total([i \in DOMAIN b |-> IF b[i].id = k THEN b[i].amount ELSE 0])

BankInit ==
  /\ hold \in Hold0
  /\ banks = [c \in Clients |-> [i \in 1..MAX_BANK_SLOTS |-> NoLot]]
  /\ heap = [k \in Goods |-> [m \in Marks |-> 0]]
  /\ parcels = {} /\ sent = 0
  /\ talk = [c \in Clients |-> Quiet]
  /\ posting = [c \in Clients |-> NotPosting]
  /\ owing = [k \in Goods |->
               Total([c \in Clients |-> AmountIn(hold[c], k)])]
  /\ faults = {}

----------------------------------------------------------------------------
(* Slots.                                                                  *)

Same(s, id, mark) == s.id = id /\ s.mark = mark
Firsts(S) == {i \in S : \A j \in S : i <= j}

\* hasItem without an owner counts plain ones only.
PlainAmount(b, k) ==
  Total([i \in DOMAIN b |-> IF Same(b[i], k, Plain) THEN b[i].amount ELSE 0])

Less(b, i, n) ==
  [b EXCEPT ![i] = IF @.amount <= n THEN NoLot
                   ELSE [id |-> @.id, mark |-> @.mark, amount |-> @.amount - n]]

\* removeItem takes plain ones, from slots that are not full before the others.
TakeAt(f, i) ==
  LET m == IF f.b[i].amount < f.left THEN f.b[i].amount ELSE f.left
  IN  [b |-> Less(f.b, i, m), left |-> f.left - m]
TakeFrom(f, k, full) ==
  FoldLeft(LAMBDA g, i : IF Same(g.b[i], k, Plain)
                            /\ (full \/ g.b[i].amount < maxAmount[k])
                         THEN TakeAt(g, i) ELSE g,
           f, [i \in DOMAIN f.b |-> i])
TakePlain(b, k, n) ==
  TakeFrom(TakeFrom([b |-> b, left |-> n], k, FALSE), k, TRUE).b

\* Adding fills slots of the same kind and mark, then empty ones, and what
\* finds none is left.
RoomAt(b, it) ==
  LET same == {i \in DOMAIN b : Same(b[i], it.id, it.mark)
                              /\ b[i].amount < maxAmount[it.id]}
  IN  Firsts(IF same # {} THEN same ELSE {i \in DOMAIN b : b[i].id = NoGood})
Fill(f, it) ==
  LET at == RoomAt(f.b, it)
      i == CHOOSE j \in at : TRUE
      room == maxAmount[it.id] - f.b[i].amount
      n == IF f.left > room THEN room ELSE f.left
  IN  IF f.left = 0 \/ at = {} THEN f
      ELSE [b |-> [f.b EXCEPT ![i] = [id |-> it.id, mark |-> it.mark,
                                      amount |-> @.amount + n]],
            left |-> f.left - n]
Added(b, it) ==
  FoldLeft(LAMBDA f, round : Fill(f, it), [b |-> b, left |-> it.amount],
           [r \in DOMAIN b |-> r])

\* hasSpace: some slot takes the kind and mark; slots of the kind with another
\* mark count as room all the same.
hasspace(b, it) ==
  LET room == Total([i \in DOMAIN b |->
                IF b[i].id = it.id /\ b[i].amount < maxAmount[it.id]
                THEN maxAmount[it.id] - b[i].amount
                ELSE IF b[i].id = NoGood THEN maxAmount[it.id] ELSE 0])
  IN  RoomAt(b, it) # {} /\ room >= it.amount

\* What addItem does: the rest falls to the floor.
Receives(c, it) ==
  LET got == Added(hold[c], it) IN
  /\ hold' = [hold EXCEPT ![c] = got.b]
  /\ heap' = [heap EXCEPT ![it.id][it.mark] = @ + got.left]

----------------------------------------------------------------------------
(* The bank.                                                               *)

SlotOf(b, id, mark) == Firsts({i \in DOMAIN b : Same(b[i], id, mark)})

\* The amount of the kind and mark, or else the first empty slot, or nothing.
bankdeposit(b, it) ==
  LET at == SlotOf(b, it.id, it.mark)
      free == Firsts({i \in DOMAIN b : b[i].id = NoGood})
  IN  [i \in DOMAIN b |->
         IF i \in at THEN [b[i] EXCEPT !.amount = @ + it.amount]
         ELSE IF at = {} /\ i \in free THEN it ELSE b[i]]
BankFull(b, it) ==
  SlotOf(b, it.id, it.mark) = {} /\ \A i \in DOMAIN b : b[i].id # NoGood

\* An emptied slot is closed up by those behind it.
bankwithdraw(b, it) ==
  LET at == SlotOf(b, it.id, it.mark)
      i == CHOOSE j \in at : TRUE
  IN  IF at = {} \/ b[i].amount < it.amount THEN b
      ELSE IF b[i].amount > it.amount
      THEN [b EXCEPT ![i].amount = @ - it.amount]
      ELSE [j \in DOMAIN b |-> IF j < i THEN b[j]
                               ELSE IF j < Len(b) THEN b[j + 1] ELSE NoLot]

\* What showBank lists: the slots before the first empty one.
ListedSlots(b) == {i \in DOMAIN b : \A j \in 1..i : b[j].id # NoGood}

----------------------------------------------------------------------------
(* Dialogs.  A player answers one at a time, and may leave it.             *)

Asked(c, what) == talk[c].ask = what /\ posting[c] = NotPosting
Ends(c) == talk' = [talk EXCEPT ![c] = Quiet]
Free(c) == posting[c] = NotPosting
ChosenLot(c) == hold[c][talk[c].slot]

leave(c) ==
  /\ talk[c] # Quiet /\ Free(c) /\ Ends(c)
  /\ UNCHANGED <<hold, banks, heap, parcels, sent, posting, owing, faults>>

\* showBankAdd: what is in the slot now must be depositable; of a stack the
\* player is asked for an amount (0: not yet answered).
choose_deposit(c, s) ==
  /\ Asked(c, "nothing")
  /\ hold[c][s].id \in Goods \ Refused
  /\ talk' = [talk EXCEPT ![c] =
                [ask |-> "deposit", slot |-> s, id |-> hold[c][s].id,
                 amount |-> IF maxAmount[hold[c][s].id] > 1
                               /\ hold[c][s].amount > 1 THEN 0 ELSE 1]]
  /\ UNCHANGED <<hold, banks, heap, parcels, sent, posting, owing, faults>>

\* No more than the player has of what is in the slot by now.
amount_to_deposit(c, n) ==
  /\ Asked(c, "deposit") /\ talk[c].amount = 0
  /\ LET has == PlainAmount(hold[c], ChosenLot(c).id)
         m == IF n <= has THEN n ELSE has
     IN  talk' = [talk EXCEPT ![c] = IF m = 0 THEN Quiet
                                     ELSE [@ EXCEPT !.amount = m]]
  /\ UNCHANGED <<hold, banks, heap, parcels, sent, posting, owing, faults>>

\* The fee is accepted: what the slot holds now goes to the bank, if the
\* player has as many plain ones of the kind; one is taken from the slot,
\* several from any slots.
deposit(c) ==
  LET n == talk[c].amount
      s == talk[c].slot
      it == [ChosenLot(c) EXCEPT !.amount = n]
  IN
  /\ Asked(c, "deposit") /\ n > 0
  /\ it.id \in Goods /\ PlainAmount(hold[c], it.id) >= n
  /\ banks' = [banks EXCEPT ![c] = bankdeposit(@, it)]
  /\ hold' = [hold EXCEPT ![c] = IF n = 1 THEN Less(@, s, 1)
                                 ELSE TakePlain(@, it.id, n)]
  /\ faults' = faults
       \cup (IF BankFull(banks[c], it) THEN {"bankfull"} ELSE {})
       \cup (IF it.id # talk[c].id THEN {"switched"} ELSE {})
  /\ Ends(c)
  /\ UNCHANGED <<heap, parcels, sent, posting, owing>>

\* showBank: the first listed slot of the kind that was chosen, whatever its
\* mark.  The bank stays as it is until the dialog ends.
choose_withdraw(c, i) ==
  LET b == banks[c] IN
  /\ Asked(c, "nothing") /\ i \in ListedSlots(b)
  /\ \E f \in Firsts({j \in ListedSlots(b) : b[j].id = b[i].id}) :
       talk' = [talk EXCEPT ![c] = [ask |-> "withdraw", slot |-> f,
                                    id |-> b[f].id, amount |-> 0]]
  /\ UNCHANGED <<hold, banks, heap, parcels, sent, posting, owing, faults>>

withdraw(c, n) ==
  LET b == banks[c]
      i == talk[c].slot
      it == [b[i] EXCEPT !.amount = n]
  IN
  /\ Asked(c, "withdraw")
  /\ n <= b[i].amount /\ (maxAmount[it.id] = 1 => n = 1)
  /\ hasspace(hold[c], it)
  /\ Receives(c, it)
  /\ banks' = [banks EXCEPT ![c] = bankwithdraw(@, it)]
  /\ Ends(c)
  /\ UNCHANGED <<parcels, sent, posting, owing, faults>>

----------------------------------------------------------------------------
(* Parcels.                                                                *)

choose_parcel(c, s) ==
  /\ Asked(c, "nothing") /\ hold[c][s].id # NoGood
  /\ talk' = [talk EXCEPT ![c] =
                [ask |-> "parcel", slot |-> s, id |-> hold[c][s].id,
                 amount |-> 0]]
  /\ UNCHANGED <<hold, banks, heap, parcels, sent, posting, owing, faults>>

ParcelsTo(c) == {q \in parcels : q.to = c}
NewPos(c) == 1 + Max({0} \cup {q.pos : q \in ParcelsTo(c)})

\* The receiver is known and the player has as many plain ones of what the
\* slot holds now: the first query of sendParcel.
sendparcel(c, to, n) ==
  /\ Asked(c, "parcel") /\ sent < MaxParcels
  /\ ChosenLot(c).id \in Goods
  /\ maxAmount[talk[c].id] = 1 => n = 1
  /\ PlainAmount(hold[c], ChosenLot(c).id) >= n
  /\ posting' = [posting EXCEPT ![c] =
                   [to |-> to, pos |-> NewPos(to), amount |-> n]]
  /\ UNCHANGED <<hold, banks, heap, parcels, sent, talk, owing, faults>>

\* The second, and the removal: from the slot, unless it can not hold that
\* many.
sendparcel_sent(c) ==
  LET p == posting[c]
      s == talk[c].slot
      it == ChosenLot(c)
  IN
  /\ p # NotPosting /\ sent < MaxParcels
  /\ sent' = sent + 1
  /\ parcels' = parcels \cup {[nr |-> sent + 1, to |-> p.to, pos |-> p.pos,
                               lot |-> [it EXCEPT !.amount = p.amount]]}
  /\ hold' = [hold EXCEPT ![c] =
                IF p.amount > maxAmount[it.id] THEN TakePlain(@, it.id, p.amount)
                ELSE Less(@, s, p.amount)]
  /\ faults' = faults \cup (IF p.amount <= maxAmount[it.id]
                               /\ it.amount < p.amount
                            THEN {"copied"} ELSE {})
  /\ posting' = [posting EXCEPT ![c] = NotPosting]
  /\ Ends(c)
  /\ UNCHANGED <<banks, heap, owing>>

\* receiveParcelFrom: any of the parcels is received, and all of its position
\* are removed.
removeparcel(c, q) ==
  /\ Asked(c, "nothing") /\ q \in ParcelsTo(c)
  /\ hasspace(hold[c], q.lot)
  /\ Receives(c, q.lot)
  /\ LET gone == {r \in ParcelsTo(c) : r.pos = q.pos} IN
     /\ parcels' = parcels \ gone
     /\ faults' = faults \cup (IF gone # {q} THEN {"doubled"} ELSE {})
  /\ UNCHANGED <<banks, sent, talk, posting, owing>>

----------------------------------------------------------------------------
(* What the player does while a dialog waits.                              *)

dropitem(c, s) ==
  /\ Free(c) /\ hold[c][s].id # NoGood
  /\ heap' = [heap EXCEPT ![hold[c][s].id][hold[c][s].mark] =
                @ + hold[c][s].amount]
  /\ hold' = [hold EXCEPT ![c][s] = NoLot]
  /\ UNCHANGED <<banks, parcels, sent, talk, posting, owing, faults>>

getitem(c, k, m) ==
  LET it == [id |-> k, mark |-> m, amount |-> heap[k][m]]
      got == Added(hold[c], it)
  IN
  /\ Free(c) /\ it.amount > 0 /\ RoomAt(hold[c], it) # {}
  /\ hold' = [hold EXCEPT ![c] = got.b]
  /\ heap' = [heap EXCEPT ![k][m] = got.left]
  /\ UNCHANGED <<banks, parcels, sent, talk, posting, owing, faults>>

changeitem(c, s, t) ==
  /\ Free(c) /\ s < t
  /\ LET b == hold[c]
     IN  hold' = [hold EXCEPT ![c] = [b EXCEPT ![s] = b[t], ![t] = b[s]]]
  /\ UNCHANGED <<banks, heap, parcels, sent, talk, posting, owing, faults>>

BankNext ==
  \E c \in Clients :
    \/ leave(c) \/ deposit(c) \/ sendparcel_sent(c)
    \/ \E s \in DOMAIN hold[c] :
         \/ choose_deposit(c, s) \/ choose_parcel(c, s) \/ dropitem(c, s)
         \/ \E t \in DOMAIN hold[c] : changeitem(c, s, t)
    \/ \E i \in DOMAIN banks[c] : choose_withdraw(c, i)
    \/ \E k \in Goods, m \in Marks : getitem(c, k, m)
    \/ \E n \in 1..MaxAsked :
         \/ amount_to_deposit(c, n) \/ withdraw(c, n)
         \/ \E to \in Clients : sendparcel(c, to, n)
    \/ \E q \in parcels : removeparcel(c, q)

BankSpec == BankInit /\ [][BankNext]_bankVars

----------------------------------------------------------------------------
BankTypeOK ==
  /\ hold \in [Clients -> LotBags] /\ banks \in [Clients -> LotBags]
  /\ \A c \in Clients : Len(banks[c]) = MAX_BANK_SLOTS
  /\ heap \in [Goods -> [Marks -> Nat]]
  /\ parcels \subseteq [nr : 1..MaxParcels, to : Clients, pos : Nat \ {0},
                        lot : Lots]
  /\ sent \in 0..MaxParcels
  /\ talk \in [Clients -> [ask : {"nothing", "deposit", "withdraw", "parcel"},
                           slot : Nat, id : Goods \cup {NoGood},
                           amount : Nat]]
  /\ posting \in [Clients -> [to : Clients \cup {NoGood}, pos : Nat,
                              amount : Nat]]
  /\ owing \in [Goods -> Nat]
  /\ faults \subseteq {"bankfull", "copied", "doubled", "switched"}

AllOf(k) ==
  Total([m \in Marks |-> heap[k][m]])
    + Total([c \in Clients |-> AmountIn(hold[c], k) + AmountIn(banks[c], k)])
    + Total([q \in parcels |-> IF q.lot.id = k THEN q.lot.amount ELSE 0])

\* Whatever is deposited, withdrawn, sent and received, in dialogs during
\* which things are moved: nothing is lost but to a full bank or with a second
\* parcel of one position, and nothing is copied but by a parcel larger than
\* the slot it was taken from.
GoodsStay ==
  \A k \in Goods :
    /\ AllOf(k) < owing[k] => faults \cap {"bankfull", "doubled"} # {}
    /\ AllOf(k) > owing[k] => "copied" \in faults

\* A bank has one slot for a kind and mark, and no empty slot before a used
\* one, behind which the player would not see its goods again.
BankInOrder ==
  \A c \in Clients :
    /\ \A i \in DOMAIN banks[c] : banks[c][i].id # NoGood =>
         /\ i \in ListedSlots(banks[c])
         /\ banks[c][i].amount > 0
    /\ \A i, j \in DOMAIN banks[c] :
         banks[c][i].id # NoGood
           /\ Same(banks[c][j], banks[c][i].id, banks[c][i].mark) => i = j

\* A bank has none of the kinds that it refuses, unless the player has put
\* something else in the slot that it had chosen.
BankAccepts ==
  "switched" \notin faults =>
    \A c \in Clients : \A i \in DOMAIN banks[c] : banks[c][i].id \notin Refused

BankSound == GoodsStay /\ BankInOrder /\ BankAccepts
=============================================================================
