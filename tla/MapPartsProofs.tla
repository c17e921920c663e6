--------------------------- MODULE MapPartsProofs ---------------------------
(***************************************************************************)
(* What is proved of the parts that MCMapParts composes: the magic timer,  *)
(* the block lists and the exchange, for any number of slots, spells,      *)
(* casters, objects, cells and blocks, any times, and any players,         *)
(* belongings, stack size and width of a purse.                            *)
(*                                                                         *)
(* Slots and the spells in them agree at every stage of the timer.  The    *)
(* invariant is a condition on each slot and what is owed for it (SlotOK), *)
(* weaker for the slot whose while_cast runs, and one thing about that     *)
(* slot: as long as no script ended its spell, the uncast that Expire will *)
(* run is owed (OwedInWhile), though scripts may meanwhile have renewed    *)
(* the spell, let it wait or put another in its place.                     *)
(*                                                                         *)
(* The chains of the blocks hold what stands in them, each object once.    *)
(* The invariant says that the two links of neighbours agree (LinksAgree), *)
(* that the first of a chain stands in its block (FirstStands), that what  *)
(* is off the map names nothing (OffIsLoose), and that ranks fall along    *)
(* every chain (Ranked), so that none is a ring and a walk from its first  *)
(* object ends: it then meets exactly what stands in the block.            *)
(*                                                                         *)
(* An exchange makes and loses nothing.  The invariant (ExchangeInv) says  *)
(* who may have a window (WindowsAre), that windows which stand show each  *)
(* other and that only who stands has an offer (Tidy), that the amounts of *)
(* every item in the bags, in the offers and on the floor add up to what   *)
(* there was (ItemsKept), and that the purses do as long as all the gold   *)
(* fits one of them (PursesHold).  The lemmas say what a sum over players  *)
(* and a fold over the slots of a bag or over the items of an offer become *)
(* when one of them changes.                                               *)
(***************************************************************************)
EXTENDS Exchange, Durations, BlockGrid, Integers, TLAPS,
        WellFoundedInduction, SequenceTheorems, FiniteSetTheorems

-----------------------------------------------------------------------------
(* The magic timer.                                                        *)

DuraSlot == [id : Spells \cup {NoSpell}, duration : 0..MaxTicks,
             aether : 0..MaxTicks, caster : Casters \cup {NoCaster}]

\* The timer is in while_cast of slot x.
Busy(x) == tick.stage = "while" /\ tick.x = x

\* Slot s, for which the uncast of ow is owed.
FreeIsEmpty(s) == s.id = NoSpell => s.duration = 0 /\ s.aether = 0
EmptyIsFree(s) ==
  /\ s.duration = 0 /\ s.aether = 0 => s.id = NoSpell
  /\ s.duration = 0 => s.caster = NoCaster
ActingIsOwed(s, ow) == s.duration > 0 => ow = s.id
OwedIsActing(s, ow) == ow # NoSpell => s.duration > 0

SlotOK(s, ow, busy, disturbed) ==
  /\ FreeIsEmpty(s)
  /\ busy \/ EmptyIsFree(s)
  /\ disturbed \/ ActingIsOwed(s, ow)
  /\ disturbed \/ busy \/ OwedIsActing(s, ow)

SlotsOK == \A x \in Timers : SlotOK(dura_aether[x], owed[x], Busy(x), inWhile)
OwedInWhile ==
  inWhile \/ (tick.stage = "while" => owed[tick.x] # NoSpell)
ExtraExplained ==
  \/ inWhile \/ ~extra
  \/ \E x, y \in Timers : /\ x # y /\ dura_aether[x].id = dura_aether[y].id
                          /\ dura_aether[x].id # NoSpell

IInv == DurationsTypeOK /\ SlotsOK /\ OwedInWhile /\ ExtraExplained

----------------------------------------------------------------------------
(* One slot.                                                               *)

\* When a duration ends, nothing is owed any more, and the slot is in order
\* for whoever reads it next.
LEMMA EndDurationOK ==
  ASSUME NEW s \in DuraSlot, FreeIsEmpty(s)
  PROVE  /\ EndDuration(s) \in DuraSlot
         /\ \A busy, disturbed \in BOOLEAN :
              SlotOK(EndDuration(s), NoSpell, busy, disturbed)
<1>. DEFINE e == EndDuration(s)
<1>1. /\ e \in DuraSlot /\ e.duration = 0 /\ e.caster = NoCaster
      /\ e.aether = s.aether
      /\ e.id = IF s.aether = 0 THEN NoSpell ELSE s.id
  <2>1. /\ s.id \in Spells \cup {NoSpell} /\ 0 \in 0..MaxTicks
        /\ NoCaster \in Casters \cup {NoCaster}
    BY DurationsAssumption DEF DuraSlot
  <2>2. PICK i \in Spells \cup {NoSpell} : i = IF s.aether = 0 THEN NoSpell ELSE s.id
    BY <2>1
  <2>3. e = [s EXCEPT !.duration = 0, !.caster = NoCaster, !.id = i]
    BY <2>2 DEF EndDuration, DuraSlot
  <2>. HIDE DEF e
  <2>. QED  BY <2>1, <2>2, <2>3 DEF DuraSlot
<1>. HIDE DEF e
<1>2. FreeIsEmpty(e) /\ EmptyIsFree(e) /\ ActingIsOwed(e, NoSpell)
      /\ OwedIsActing(e, NoSpell)
  BY <1>1 DEF FreeIsEmpty, EmptyIsFree, ActingIsOwed, OwedIsActing, DuraSlot
<1>. QED  BY <1>1, <1>2 DEF SlotOK, e

\* The end of an aether changes nothing else.
LEMMA EndAetherOK ==
  ASSUME NEW s \in DuraSlot, NEW ow, NEW busy \in BOOLEAN, NEW disturbed \in BOOLEAN,
         SlotOK(s, ow, busy, disturbed)
  PROVE  EndAether(s) \in DuraSlot /\ SlotOK(EndAether(s), ow, busy, disturbed)
<1>. DEFINE e == EndAether(s)
<1>1. /\ e \in DuraSlot /\ e.duration = s.duration /\ e.caster = s.caster
      /\ e.aether = 0
      /\ e.id = IF s.duration = 0 THEN NoSpell ELSE s.id
      /\ s.duration \in Nat
  <2>1. /\ s.id \in Spells \cup {NoSpell} /\ 0 \in 0..MaxTicks
        /\ s.duration \in Nat
    BY DurationsAssumption DEF DuraSlot
  <2>2. PICK i \in Spells \cup {NoSpell} : i = IF s.duration = 0 THEN NoSpell ELSE s.id
    BY <2>1
  <2>3. e = [s EXCEPT !.aether = 0, !.id = i]
    BY <2>2 DEF EndAether, DuraSlot
  <2>. HIDE DEF e
  <2>. QED  BY <2>1, <2>2, <2>3 DEF DuraSlot
<1>. HIDE DEF e
<1>2. /\ FreeIsEmpty(e) /\ (EmptyIsFree(s) => EmptyIsFree(e))
      /\ (ActingIsOwed(s, ow) => ActingIsOwed(e, ow))
      /\ (OwedIsActing(s, ow) => OwedIsActing(e, ow))
  BY <1>1 DEF SlotOK, FreeIsEmpty, EmptyIsFree, ActingIsOwed, OwedIsActing
<1>. QED  BY <1>1, <1>2 DEF SlotOK, e

\* Nor does a second off it.
LEMMA AetherTickOK ==
  ASSUME NEW s \in DuraSlot, NEW ow, NEW busy \in BOOLEAN, NEW disturbed \in BOOLEAN,
         SlotOK(s, ow, busy, disturbed)
  PROVE  AetherTick(s) \in DuraSlot /\ SlotOK(AetherTick(s), ow, busy, disturbed)
<1>1. CASE s.aether = 0
  BY <1>1 DEF AetherTick
<1>2. CASE s.aether = 1
  BY <1>2, EndAetherOK DEF AetherTick
<1>3. CASE s.aether # 0 /\ s.aether # 1
  <2>. DEFINE e == AetherTick(s)
  <2>1. /\ e \in DuraSlot /\ e.duration = s.duration /\ e.caster = s.caster
        /\ e.id = s.id /\ e.aether \in Nat \ {0} /\ s.aether # 0
    BY <1>3, DurationsAssumption DEF AetherTick, DuraSlot
  <2>. HIDE DEF e
  <2>2. /\ FreeIsEmpty(e) /\ (EmptyIsFree(s) => EmptyIsFree(e))
        /\ (ActingIsOwed(s, ow) => ActingIsOwed(e, ow))
        /\ (OwedIsActing(s, ow) => OwedIsActing(e, ow))
    BY <2>1 DEF SlotOK, FreeIsEmpty, EmptyIsFree, ActingIsOwed, OwedIsActing
  <2>. QED  BY <2>1, <2>2 DEF SlotOK, e
<1>. QED  BY <1>1, <1>2, <1>3

\* A slot that still acts is in order when the timer leaves it.
LEMMA StillActsOK ==
  ASSUME NEW s \in DuraSlot, NEW ow, NEW busy \in BOOLEAN, NEW disturbed \in BOOLEAN,
         SlotOK(s, ow, busy, disturbed), s.duration > 0
  PROVE  SlotOK(s, ow, FALSE, disturbed)
  BY DEF SlotOK, FreeIsEmpty, EmptyIsFree, ActingIsOwed, OwedIsActing, DuraSlot

\* What a slot may be allowed besides.
LEMMA SlotWeaker ==
  ASSUME NEW s, NEW ow, NEW busy \in BOOLEAN, NEW disturbed \in BOOLEAN,
         NEW busy2 \in BOOLEAN, NEW disturbed2 \in BOOLEAN,
         SlotOK(s, ow, busy, disturbed), busy => busy2, disturbed => disturbed2
  PROVE  SlotOK(s, ow, busy2, disturbed2)
  BY DEF SlotOK

\* A spell that is put in a slot for some time, owed its uncast.
LEMMA TakesOK ==
  ASSUME NEW s \in DuraSlot, NEW id \in Spells, NEW time \in 1..MaxTicks,
         NEW caster \in Casters \cup {NoCaster}
  PROVE  LET e == [s EXCEPT !.id = id, !.duration = time, !.caster = caster]
         IN  /\ e \in DuraSlot
             /\ \A busy, disturbed \in BOOLEAN : SlotOK(e, id, busy, disturbed)
<1>. DEFINE e == [s EXCEPT !.id = id, !.duration = time, !.caster = caster]
<1>1. /\ e \in DuraSlot /\ e.id = id /\ e.duration = time /\ e.caster = caster
      /\ time > 0 /\ time # 0 /\ id # NoSpell
  <2>1. /\ time \in 0..MaxTicks /\ time > 0 /\ time # 0
        /\ id \in Spells \cup {NoSpell} /\ id # NoSpell
    BY DurationsAssumption
  <2>. QED  BY <2>1, DurationsAssumption DEF DuraSlot
<1>. HIDE DEF e
<1>2. FreeIsEmpty(e) /\ EmptyIsFree(e) /\ ActingIsOwed(e, id)
      /\ OwedIsActing(e, id)
  BY <1>1 DEF FreeIsEmpty, EmptyIsFree, ActingIsOwed, OwedIsActing
<1>. QED  BY <1>1, <1>2 DEF SlotOK, e

\* A spell in a slot that is made to wait.
LEMMA WaitsOK ==
  ASSUME NEW s \in DuraSlot, NEW ow, NEW busy \in BOOLEAN, NEW disturbed \in BOOLEAN,
         SlotOK(s, ow, busy, disturbed),
         NEW id \in Spells, NEW time \in 1..MaxTicks, s.id \in {id, NoSpell},
         NEW e \in DuraSlot, e.id = id, e.duration = s.duration, e.aether = time,
         e.caster = s.caster
  PROVE  SlotOK(e, ow, busy, disturbed)
<1>1. time > 0 /\ time # 0 /\ id # NoSpell /\ s.duration \in Nat
  BY DurationsAssumption DEF DuraSlot
<1>2. /\ FreeIsEmpty(e) /\ (EmptyIsFree(s) => EmptyIsFree(e))
      /\ (ActingIsOwed(s, ow) => ActingIsOwed(e, ow))
      /\ (OwedIsActing(s, ow) => OwedIsActing(e, ow))
  BY <1>1 DEF SlotOK, FreeIsEmpty, EmptyIsFree, ActingIsOwed, OwedIsActing
<1>. QED  BY <1>1, <1>2 DEF SlotOK

\* The lowest of some numbers is one of them.
LEMMA LowestIsThere ==
  ASSUME NEW S, S \subseteq Nat, S # {}
  PROVE  Min(S) \in S
<1>1. \E x \in S : \A y \in S : ~(<<y, x>> \in OpToRel(<, Nat))
  BY NatLessThanWellFounded, WFMin
<1>2. \E x \in S : \A y \in S : x <= y
  <2>1. PICK x \in S : \A y \in S : ~(<<y, x>> \in OpToRel(<, Nat))
    BY <1>1
  <2>2. ASSUME NEW y \in S PROVE x <= y
    <3>1. x \in Nat /\ y \in Nat
      OBVIOUS
    <3>2. <<y, x>> \in OpToRel(<, Nat) <=> y < x
      BY <3>1 DEF OpToRel
    <3>3. ~(y < x)
      BY <2>1, <3>2
    <3>. QED  BY <3>1, <3>3
  <2>. QED  BY <2>2
<1>. QED  BY <1>2 DEF Min

----------------------------------------------------------------------------
(* The steps of the timer.                                                 *)

\* The timer's own steps touch one slot: it is in order afterwards, for what is
\* owed then, and the timer is not in its while_cast, or was not disturbed.
LEMMA OneSlotKeeps ==
  ASSUME IInv, DurationsTypeOK', NEW x \in Timers,
         \A y \in Timers \ {x} : /\ dura_aether'[y] = dura_aether[y]
                                 /\ owed'[y] = owed[y]
                                 /\ Busy(y) => Busy(y)',
         inWhile => inWhile',
         SlotOK(dura_aether'[x], owed'[x], Busy(x)', inWhile'),
         OwedInWhile', ExtraExplained'
  PROVE  IInv'
<1>1. ASSUME NEW y \in Timers
      PROVE  SlotOK(dura_aether'[y], owed'[y], Busy(y)', inWhile')
  <2>1. CASE y = x
    BY <2>1
  <2>2. CASE y # x
    <3>1. /\ SlotOK(dura_aether[y], owed[y], Busy(y), inWhile)
          /\ dura_aether'[y] = dura_aether[y] /\ owed'[y] = owed[y]
          /\ Busy(y) => Busy(y)'
      BY <2>2 DEF IInv, SlotsOK
    <3>. QED  BY <3>1 DEF SlotOK
  <2>. QED  BY <2>1, <2>2
<1>2. SlotsOK'
  BY <1>1 DEF SlotsOK
<1>. QED  BY <1>2 DEF IInv

\* Where the timer goes next.
LEMMA AdvanceIs ==
  ASSUME DurationsTypeOK, Advance
  PROVE  /\ tick' \in [stage : {"idle", "slot", "while", "uncast"}, x : Timers,
                       mid : Spells \cup {NoSpell}]
         /\ tick'.stage # "while" /\ \A y \in Timers : ~Busy(y)'
<1>1. /\ MAX_MAGIC_TIMERS \in Nat \ {0} /\ tick.x \in Timers
      /\ 1 \in Timers
  BY DurationsAssumption DEF DurationsTypeOK, Timers
<1>2. CASE tick.x = MAX_MAGIC_TIMERS
  BY <1>1, <1>2 DEF Advance, Idle, Busy
<1>3. CASE tick.x # MAX_MAGIC_TIMERS
  <2>1. tick.x + 1 \in Timers
    BY <1>1, <1>3 DEF Timers
  <2>. QED  BY <1>3, <2>1 DEF Advance, Busy
<1>. QED  BY <1>2, <1>3

\* The timer begins, or the player logs out and in again.
LEMMA BeginKeeps ==
  ASSUME IInv, BeginTick \/ Relog
  PROVE  IInv'
<1>1. /\ DurationsTypeOK /\ tick.stage = "idle" /\ owed' = owed
      /\ inWhile' = inWhile /\ extra' = FALSE
  BY DEF IInv, BeginTick, Relog
<1>2. CASE BeginTick
  <2>1. tick' = [Idle EXCEPT !.stage = "slot"] /\ dura_aether' = dura_aether
    BY <1>2 DEF BeginTick
  <2>2. /\ tick' \in [stage : {"idle", "slot", "while", "uncast"}, x : Timers,
                      mid : Spells \cup {NoSpell}]
        /\ tick'.stage = "slot"
    BY <2>1, DurationsAssumption DEF Idle, Timers
  <2>3. DurationsTypeOK'
    BY <1>1, <2>1, <2>2 DEF DurationsTypeOK
  <2>4. \A y \in Timers : Busy(y)' <=> Busy(y)
    BY <1>1, <2>2 DEF Busy
  <2>5. SlotsOK'
    BY <1>1, <2>1, <2>4 DEF IInv, SlotsOK, SlotOK
  <2>6. OwedInWhile' /\ ExtraExplained'
    BY <1>1, <2>2 DEF OwedInWhile, ExtraExplained
  <2>. QED  BY <2>3, <2>5, <2>6 DEF IInv
<1>3. CASE Relog
  <2>1. /\ tick' = tick
        /\ dura_aether' = [y \in Timers |->
                             [dura_aether[y] EXCEPT !.caster = NoCaster]]
    BY <1>3 DEF Relog
  <2>2. \A y \in Timers :
          /\ dura_aether'[y] \in DuraSlot /\ dura_aether'[y].id = dura_aether[y].id
          /\ dura_aether'[y].duration = dura_aether[y].duration
          /\ dura_aether'[y].aether = dura_aether[y].aether
          /\ dura_aether'[y].caster = NoCaster
    BY <1>1, <2>1 DEF DurationsTypeOK, DuraSlot
  <2>3. DurationsTypeOK'
    BY <1>1, <2>1, <2>2 DEF DurationsTypeOK, DuraSlot
  <2>4. \A y \in Timers : Busy(y)' <=> Busy(y)
    BY <2>1 DEF Busy
  <2>5. ASSUME NEW y \in Timers
        PROVE  SlotOK(dura_aether'[y], owed'[y], Busy(y)', inWhile')
    <3>1. SlotOK(dura_aether[y], owed[y], Busy(y), inWhile)
      BY DEF IInv, SlotsOK
    <3>. QED  BY <1>1, <2>2, <2>4, <3>1
           DEF SlotOK, FreeIsEmpty, EmptyIsFree, ActingIsOwed, OwedIsActing
  <2>6. OwedInWhile' /\ ExtraExplained'
    BY <1>1, <2>1 DEF OwedInWhile, ExtraExplained
  <2>. QED  BY <2>3, <2>5, <2>6 DEF IInv, SlotsOK
<1>. QED  BY <1>2, <1>3

\* The timer leaves a slot that was in order, after a second off its aether.
LEMMA AetherKeeps ==
  ASSUME IInv, OnlyAether \/ ThenAether
  PROVE  IInv'
<1>1. PICK x \in Timers : x = tick.x
  BY DEF IInv, DurationsTypeOK
<1>2. /\ DurationsTypeOK /\ Advance /\ UNCHANGED <<owed, inWhile>>
      /\ extra' = FALSE
  BY DEF IInv, OnlyAether, ThenAether
<1>3. /\ dura_aether' = dura_aether
         \/ dura_aether' = [dura_aether EXCEPT ![x] = AetherTick(@)]
      /\ Busy(x) => dura_aether[x].duration > 0
  BY <1>1 DEF OnlyAether, ThenAether, Busy
<1>4. /\ dura_aether[x] \in DuraSlot /\ Busy(x) \in BOOLEAN /\ inWhile \in BOOLEAN
      /\ SlotOK(dura_aether[x], owed[x], Busy(x), inWhile)
  BY <1>2 DEF IInv, SlotsOK, DurationsTypeOK, DuraSlot, Busy
<1>5. SlotOK(dura_aether[x], owed[x], FALSE, inWhile)
  <2>1. CASE Busy(x)
    BY <1>3, <1>4, <2>1, StillActsOK
  <2>2. CASE ~Busy(x)
    BY <1>4, <2>2 DEF SlotOK
  <2>. QED  BY <2>1, <2>2
<1>6. /\ AetherTick(dura_aether[x]) \in DuraSlot
      /\ SlotOK(AetherTick(dura_aether[x]), owed[x], FALSE, inWhile)
  BY <1>4, <1>5, AetherTickOK
<1>7. /\ dura_aether' \in [Timers -> DuraSlot]
      /\ dura_aether'[x] \in {dura_aether[x], AetherTick(dura_aether[x])}
      /\ \A y \in Timers \ {x} : dura_aether'[y] = dura_aether[y]
  BY <1>2, <1>3, <1>4, <1>6 DEF DurationsTypeOK, DuraSlot
<1>8. /\ tick' \in [stage : {"idle", "slot", "while", "uncast"}, x : Timers,
                    mid : Spells \cup {NoSpell}]
      /\ tick'.stage # "while" /\ \A y \in Timers : ~Busy(y)'
  BY <1>2, AdvanceIs
<1>9. DurationsTypeOK'
  BY <1>2, <1>7, <1>8 DEF DurationsTypeOK, DuraSlot
<1>10. SlotOK(dura_aether'[x], owed'[x], Busy(x)', inWhile')
  BY <1>2, <1>5, <1>6, <1>7, <1>8 DEF SlotOK
<1>11. \A y \in Timers \ {x} : ~Busy(y)
  BY <1>1 DEF Busy
<1>12. OwedInWhile' /\ ExtraExplained'
  BY <1>2, <1>8 DEF OwedInWhile, ExtraExplained
<1>. QED  BY <1>2, <1>7, <1>9, <1>10, <1>11, <1>12, OneSlotKeeps

\* A second off the duration: the spell acted, so its uncast is owed.
LEMMA WhileKeeps ==
  ASSUME IInv, WhileCast
  PROVE  IInv'
<1>1. PICK x \in Timers : x = tick.x
  BY DEF IInv, DurationsTypeOK
<1>2. /\ DurationsTypeOK /\ tick.stage = "slot"
      /\ dura_aether[x].id # NoSpell /\ dura_aether[x].duration > 0
      /\ dura_aether' = [dura_aether EXCEPT ![x].duration = @ - 1]
      /\ tick' = [tick EXCEPT !.stage = "while", !.mid = dura_aether[x].id]
      /\ UNCHANGED <<owed, inWhile>> /\ extra' = FALSE
  BY <1>1 DEF IInv, WhileCast
<1>. DEFINE s == dura_aether[x]
            e == [s EXCEPT !.duration = @ - 1]
<1>3. /\ s \in DuraSlot /\ SlotOK(s, owed[x], Busy(x), inWhile)
      /\ ~Busy(x) /\ s.duration > 0 /\ s.duration \in Nat
  BY <1>2 DEF IInv, SlotsOK, DurationsTypeOK, DuraSlot, Busy
<1>4. /\ e \in DuraSlot /\ e.id = s.id /\ e.duration = s.duration - 1
      /\ e.aether = s.aether /\ e.caster = s.caster
  <2>1. s.duration - 1 \in 0..MaxTicks
    BY <1>3, DurationsAssumption DEF DuraSlot
  <2>. QED  BY <1>3, <2>1 DEF DuraSlot
<1>5. /\ dura_aether' \in [Timers -> DuraSlot] /\ dura_aether'[x] = e
      /\ \A y \in Timers \ {x} : dura_aether'[y] = dura_aether[y]
  BY <1>2, <1>4 DEF DurationsTypeOK, DuraSlot
<1>6. /\ tick' \in [stage : {"idle", "slot", "while", "uncast"}, x : Timers,
                    mid : Spells \cup {NoSpell}]
      /\ tick'.stage = "while" /\ tick'.x = x
  BY <1>1, <1>2 DEF DurationsTypeOK
<1>7. DurationsTypeOK'
  BY <1>2, <1>5, <1>6 DEF DurationsTypeOK, DuraSlot
<1>8. /\ Busy(x)' /\ \A y \in Timers \ {x} : ~Busy(y)
  BY <1>1, <1>2, <1>6 DEF Busy
<1>9. inWhile \/ owed[x] = s.id
  BY <1>3 DEF SlotOK, ActingIsOwed
<1>10. SlotOK(e, owed[x], TRUE, inWhile)
  <2>1. FreeIsEmpty(e) /\ (inWhile \/ ActingIsOwed(e, owed[x]))
    BY <1>2, <1>4, <1>9 DEF FreeIsEmpty, ActingIsOwed
  <2>. QED  BY <2>1 DEF SlotOK
<1>11. SlotOK(dura_aether'[x], owed'[x], Busy(x)', inWhile')
  BY <1>2, <1>5, <1>8, <1>10 DEF SlotOK
<1>12. OwedInWhile' /\ ExtraExplained'
  BY <1>2, <1>6, <1>9 DEF OwedInWhile, ExtraExplained
<1>. QED  BY <1>2, <1>5, <1>7, <1>8, <1>11, <1>12, OneSlotKeeps

\* The end of a duration after while_cast: the uncast was owed, unless a script
\* disturbed it.
LEMMA ExpireKeeps ==
  ASSUME IInv, Expire
  PROVE  IInv'
<1>1. PICK x \in Timers : x = tick.x
  BY DEF IInv, DurationsTypeOK
<1>2. /\ DurationsTypeOK /\ tick.stage = "while"
      /\ dura_aether' = [dura_aether EXCEPT ![x] = EndDuration(@)]
      /\ owed' = [owed EXCEPT ![x] = NoSpell]
      /\ extra' = (owed[x] = NoSpell)
      /\ tick' = [tick EXCEPT !.stage = "uncast"]
      /\ inWhile' = inWhile
  BY <1>1 DEF IInv, Expire, Uncast
<1>3. dura_aether[x] \in DuraSlot /\ FreeIsEmpty(dura_aether[x])
  BY <1>2 DEF IInv, SlotsOK, SlotOK, DurationsTypeOK, DuraSlot
<1>4. /\ EndDuration(dura_aether[x]) \in DuraSlot
      /\ SlotOK(EndDuration(dura_aether[x]), NoSpell, FALSE, inWhile)
  BY <1>2, <1>3, EndDurationOK DEF DurationsTypeOK
<1>5. /\ dura_aether' \in [Timers -> DuraSlot]
      /\ dura_aether'[x] = EndDuration(dura_aether[x]) /\ owed'[x] = NoSpell
      /\ owed' \in [Timers -> Spells \cup {NoSpell}]
      /\ \A y \in Timers \ {x} : /\ dura_aether'[y] = dura_aether[y]
                                 /\ owed'[y] = owed[y]
  BY <1>2, <1>4 DEF DurationsTypeOK, DuraSlot
<1>6. /\ tick' \in [stage : {"idle", "slot", "while", "uncast"}, x : Timers,
                    mid : Spells \cup {NoSpell}]
      /\ tick'.stage = "uncast"
  BY <1>2 DEF DurationsTypeOK
<1>7. extra' \in BOOLEAN
  BY <1>2
<1>8. DurationsTypeOK'
  BY <1>2, <1>5, <1>6, <1>7 DEF DurationsTypeOK, DuraSlot
<1>9. ~Busy(x)' /\ \A y \in Timers \ {x} : ~Busy(y)
  BY <1>1, <1>6 DEF Busy
<1>10. SlotOK(dura_aether'[x], owed'[x], Busy(x)', inWhile')
  BY <1>2, <1>4, <1>5, <1>9 DEF SlotOK
<1>11. OwedInWhile'
  BY <1>6 DEF OwedInWhile
<1>12. ExtraExplained'
  BY <1>1, <1>2 DEF IInv, OwedInWhile, ExtraExplained
<1>. QED  BY <1>2, <1>5, <1>8, <1>9, <1>10, <1>11, <1>12, OneSlotKeeps

----------------------------------------------------------------------------
(* The steps of scripts.                                                   *)

\* A script ends a duration in slot x by its uncast, in no while_cast of it or
\* to the knowledge of inWhile.
LEMMA ScriptEndsKeeps ==
  ASSUME IInv, NEW x \in Timers, UNCHANGED tick, Ended({x}), Uncast(x),
         dura_aether' = [dura_aether EXCEPT ![x] = EndDuration(@)],
         dura_aether[x].id # NoSpell,
         \/ dura_aether[x].duration > 0
         \/ \E y \in Timers : /\ dura_aether[y].id = dura_aether[x].id
                              /\ dura_aether[y].duration > 0
  PROVE  IInv'
<1>1. /\ DurationsTypeOK /\ dura_aether[x] \in DuraSlot /\ inWhile \in BOOLEAN
      /\ SlotOK(dura_aether[x], owed[x], Busy(x), inWhile)
  BY DEF IInv, SlotsOK, DurationsTypeOK, DuraSlot
<1>2. /\ owed' = [owed EXCEPT ![x] = NoSpell]
      /\ extra' = (owed[x] = NoSpell)
      /\ inWhile' = (inWhile \/ (tick.stage = "while" /\ tick.x \in {x}))
      /\ tick' = tick
  BY DEF Uncast, Ended
<1>3. inWhile' \in BOOLEAN /\ extra' \in BOOLEAN
      /\ (inWhile => inWhile') /\ (Busy(x) => inWhile')
  BY <1>1, <1>2 DEF Busy
<1>4. /\ EndDuration(dura_aether[x]) \in DuraSlot
      /\ \A busy, disturbed \in BOOLEAN :
           SlotOK(EndDuration(dura_aether[x]), NoSpell, busy, disturbed)
  BY <1>1, EndDurationOK DEF SlotOK
<1>5. /\ dura_aether' \in [Timers -> DuraSlot]
      /\ dura_aether'[x] = EndDuration(dura_aether[x]) /\ owed'[x] = NoSpell
      /\ owed' \in [Timers -> Spells \cup {NoSpell}]
      /\ \A y \in Timers \ {x} : /\ dura_aether'[y] = dura_aether[y]
                                 /\ owed'[y] = owed[y]
  BY <1>1, <1>2, <1>4 DEF DurationsTypeOK, DuraSlot
<1>6. DurationsTypeOK'
  BY <1>1, <1>2, <1>3, <1>5 DEF DurationsTypeOK, DuraSlot
<1>7. \A y \in Timers : Busy(y)' <=> Busy(y)
  BY <1>2 DEF Busy
<1>8. SlotOK(dura_aether'[x], owed'[x], Busy(x)', inWhile')
  <2>1. Busy(x)' \in BOOLEAN
    BY DEF Busy
  <2>. QED  BY <1>3, <1>4, <1>5, <2>1
<1>9. OwedInWhile'
  <2>. SUFFICES ASSUME ~inWhile', tick'.stage = "while" PROVE owed'[tick'.x] # NoSpell
    BY DEF OwedInWhile
  <2>1. tick.x \in Timers \ {x}
    BY <1>1, <1>2 DEF DurationsTypeOK
  <2>. QED  BY <1>2, <1>3, <1>5, <2>1 DEF IInv, OwedInWhile
<1>10. ExtraExplained'
  <2>. SUFFICES ASSUME ~inWhile', extra'
                PROVE  \E a, b \in Timers :
                         /\ a # b /\ dura_aether'[a].id = dura_aether'[b].id
                         /\ dura_aether'[a].id # NoSpell
    BY DEF ExtraExplained
  <2>1. ~inWhile /\ ~Busy(x) /\ owed[x] = NoSpell
    BY <1>2, <1>3
  <2>2. ~(dura_aether[x].duration > 0)
    BY <1>1, <2>1 DEF SlotOK, ActingIsOwed
  <2>3. PICK y \in Timers : /\ dura_aether[y].id = dura_aether[x].id
                            /\ dura_aether[y].duration > 0
    BY <2>2
  <2>4. dura_aether[x].duration = 0 /\ dura_aether[x].aether # 0
    <3>1. dura_aether[x].duration = 0
      BY <1>1, <2>2, DurationsAssumption DEF DuraSlot
    <3>. QED  BY <1>1, <2>1, <3>1 DEF SlotOK, EmptyIsFree
  <2>5. EndDuration(dura_aether[x]).id = dura_aether[x].id
    BY <1>1, <2>4 DEF EndDuration, DuraSlot
  <2>. QED  BY <1>5, <2>2, <2>3, <2>5
<1>. QED  BY <1>3, <1>5, <1>6, <1>7, <1>8, <1>9, <1>10, OneSlotKeeps

\* setDuration ends a spell, or gives it a time and owes its uncast; a time of
\* 0 for a spell that only waits changes nothing.
LEMMA SetDurationKeeps ==
  ASSUME IInv, NEW id \in Spells, NEW time \in 0..MaxTicks, NEW recast \in BOOLEAN,
         NEW caster \in Casters \cup {NoCaster},
         pcl_setduration(id, time, caster, recast)
  PROVE  IInv'
<1>. DEFINE s == dura_aether
            Mine(x) == s[x].id = id /\ s[x].caster = caster
            alreadycast == \E x \in Timers : Mine(x) /\ s[x].duration > 0
            Ends(x) == Mine(x) /\ time = 0 /\ alreadycast
            Resumes(x) == Mine(x) /\ s[x].aether > 0 /\ s[x].duration <= 0
            Renews(x) == Mine(x) /\ (s[x].duration > time \/ recast) /\ alreadycast
            Takes(x) == s[x].id = NoSpell /\ s[x].duration = 0 /\ time # 0
                          /\ ~alreadycast
            fits == {x \in Timers : Ends(x) \/ Resumes(x) \/ Renews(x) \/ Takes(x)}
<1>1. PICK x \in fits : x = Min(fits)
  <2>1. fits \subseteq Nat
    BY DurationsAssumption DEF Timers
  <2>2. fits # {}
    BY DEF pcl_setduration
  <2>. HIDE DEF fits
  <2>. QED  BY <2>1, <2>2, LowestIsThere
<1>2. /\ x \in Timers /\ (Ends(x) \/ Resumes(x) \/ Renews(x) \/ Takes(x))
      /\ id # NoSpell
  BY <1>1, DurationsAssumption
<1>3. /\ DurationsTypeOK /\ tick' = tick
      /\ \/ /\ Ends(x)
            /\ dura_aether' = [s EXCEPT ![x] = EndDuration(@)]
            /\ Uncast(x)
            /\ Ended({x})
         \/ /\ ~Ends(x)
            /\ dura_aether' = [s EXCEPT ![x].id = id, ![x].duration = time,
                                        ![x].caster = caster]
            /\ owed' = IF time = 0 THEN owed ELSE [owed EXCEPT ![x] = id]
            /\ UNCHANGED inWhile /\ extra' = FALSE
  BY <1>1 DEF IInv, pcl_setduration
<1>4. CASE /\ Ends(x)
           /\ dura_aether' = [s EXCEPT ![x] = EndDuration(@)]
           /\ Uncast(x)
           /\ Ended({x})
  <2>1. /\ dura_aether[x].id # NoSpell
        /\ \E y \in Timers : /\ dura_aether[y].id = dura_aether[x].id
                             /\ dura_aether[y].duration > 0
    BY <1>2, <1>4
  <2>. QED  BY <1>2, <1>3, <1>4, <2>1, ScriptEndsKeeps
<1>5. CASE /\ ~Ends(x)
           /\ dura_aether' = [s EXCEPT ![x].id = id, ![x].duration = time,
                                       ![x].caster = caster]
           /\ owed' = IF time = 0 THEN owed ELSE [owed EXCEPT ![x] = id]
           /\ UNCHANGED inWhile /\ extra' = FALSE
  <2>1. /\ s[x] \in DuraSlot /\ SlotOK(s[x], owed[x], Busy(x), inWhile)
        /\ s \in [Timers -> DuraSlot] /\ inWhile \in BOOLEAN
    BY <1>2, <1>3 DEF IInv, SlotsOK, DurationsTypeOK, DuraSlot
  <2>. DEFINE e == [s[x] EXCEPT !.id = id, !.duration = time, !.caster = caster]
  <2>2. dura_aether' = [s EXCEPT ![x] = e]
    BY <1>2, <1>5, <2>1
  <2>3. \A y \in Timers : Busy(y)' <=> Busy(y)
    BY <1>3 DEF Busy
  <2>4. CASE time = 0
    <3>1. Resumes(x)
      BY <1>2, <1>5, <2>4
    <3>2. s[x].duration = 0
      BY <2>1, <3>1, DurationsAssumption DEF DuraSlot
    <3>3. e = s[x]
      BY <2>1, <2>4, <3>1, <3>2 DEF DuraSlot
    <3>. HIDE DEF e
    <3>4. dura_aether' = dura_aether /\ owed' = owed
      <4>1. dura_aether' = [dura_aether EXCEPT ![x] = dura_aether[x]]
        BY <2>2, <3>3
      <4>. QED  BY <1>5, <2>1, <2>4, <4>1
    <3>5. DurationsTypeOK'
      BY <1>3, <1>5, <3>4 DEF DurationsTypeOK
    <3>6. OwedInWhile' /\ ExtraExplained'
      BY <1>3, <1>5, <3>4 DEF IInv, OwedInWhile, ExtraExplained
    <3>7. SlotOK(dura_aether'[x], owed'[x], Busy(x)', inWhile')
      BY <1>2, <1>5, <2>1, <2>3, <3>4 DEF SlotOK
    <3>. QED  BY <1>2, <1>5, <2>3, <3>4, <3>5, <3>6, <3>7, OneSlotKeeps
  <2>5. CASE time # 0
    <3>1. time \in 1..MaxTicks
      BY <2>5, DurationsAssumption
    <3>2. e \in DuraSlot /\ \A busy, disturbed \in BOOLEAN : SlotOK(e, id, busy, disturbed)
      BY <2>1, <3>1, TakesOK
    <3>. HIDE DEF e
    <3>3. /\ owed' = [owed EXCEPT ![x] = id] /\ owed'[x] = id
          /\ owed' \in [Timers -> Spells \cup {NoSpell}]
          /\ dura_aether' \in [Timers -> DuraSlot] /\ dura_aether'[x] = e
          /\ \A y \in Timers \ {x} : /\ dura_aether'[y] = dura_aether[y]
                                     /\ owed'[y] = owed[y]
      BY <1>2, <1>3, <1>5, <2>1, <2>2, <2>5, <3>2 DEF DurationsTypeOK
    <3>4. DurationsTypeOK'
      BY <1>3, <1>5, <3>3 DEF DurationsTypeOK, DuraSlot
    <3>5. OwedInWhile'
      <4>1. tick.x \in Timers
        BY <1>3 DEF DurationsTypeOK
      <4>. QED  BY <1>2, <1>3, <1>5, <3>3, <4>1 DEF IInv, OwedInWhile
    <3>6. ExtraExplained'
      BY <1>5 DEF ExtraExplained
    <3>7. SlotOK(dura_aether'[x], owed'[x], Busy(x)', inWhile')
      <4>1. Busy(x)' \in BOOLEAN /\ inWhile' \in BOOLEAN
        BY <1>5, <2>1 DEF Busy
      <4>. QED  BY <3>2, <3>3, <4>1
    <3>. QED  BY <1>2, <1>5, <2>3, <3>3, <3>4, <3>5, <3>6, <3>7, OneSlotKeeps
  <2>. QED  BY <2>4, <2>5
<1>. QED  BY <1>3, <1>4, <1>5

\* setAether ends a wait, or sets it.
LEMMA SetAetherKeeps ==
  ASSUME IInv, NEW id \in Spells, NEW time \in 0..MaxTicks, pcl_setaether(id, time)
  PROVE  IInv'
<1>1. PICK garbage \in BOOLEAN :
        LET s == dura_aether
            alreadycast == garbage \/ \E x \in Timers : s[x].id = id
            Ends(x) == s[x].id = id /\ time = 0
            Changes(x) == s[x].id = id /\ (s[x].aether > time \/ s[x].duration > 0)
            Takes(x) == s[x].id = NoSpell /\ s[x].aether = 0 /\ time # 0
                          /\ ~alreadycast
            fits == {x \in Timers : Ends(x) \/ Changes(x) \/ Takes(x)}
            x == Min(fits)
        IN  /\ fits # {}
            /\ dura_aether' =
                 [s EXCEPT ![x] = IF time = 0 THEN EndAether(@)
                                  ELSE [@ EXCEPT !.id = id, !.aether = time]]
            /\ Ended(IF time = 0 THEN {x} ELSE {})
            /\ UNCHANGED <<tick, owed>> /\ extra' = FALSE
  BY DEF pcl_setaether
<1>. DEFINE s == dura_aether
            alreadycast == garbage \/ \E x \in Timers : s[x].id = id
            Ends(x) == s[x].id = id /\ time = 0
            Changes(x) == s[x].id = id /\ (s[x].aether > time \/ s[x].duration > 0)
            Takes(x) == s[x].id = NoSpell /\ s[x].aether = 0 /\ time # 0
                          /\ ~alreadycast
            fits == {x \in Timers : Ends(x) \/ Changes(x) \/ Takes(x)}
<1>2. PICK x \in fits : x = Min(fits)
  <2>1. fits \subseteq Nat /\ fits # {}
    BY <1>1, DurationsAssumption DEF Timers
  <2>. QED  BY <2>1, LowestIsThere
<1>3. x \in Timers /\ s[x].id \in {id, NoSpell} /\ (s[x].id = NoSpell => time # 0)
  BY <1>2, DurationsAssumption
<1>4. /\ dura_aether' =
           [s EXCEPT ![x] = IF time = 0 THEN EndAether(@)
                            ELSE [@ EXCEPT !.id = id, !.aether = time]]
      /\ Ended(IF time = 0 THEN {x} ELSE {})
      /\ tick' = tick /\ owed' = owed /\ extra' = FALSE
  BY <1>1, <1>2
<1>5. /\ DurationsTypeOK /\ s[x] \in DuraSlot /\ s \in [Timers -> DuraSlot]
      /\ inWhile \in BOOLEAN /\ Busy(x) \in BOOLEAN
      /\ SlotOK(s[x], owed[x], Busy(x), inWhile)
  BY <1>3 DEF IInv, SlotsOK, DurationsTypeOK, DuraSlot, Busy
<1>6. PICK e \in DuraSlot :
        dura_aether' = [s EXCEPT ![x] = e] /\ SlotOK(e, owed[x], Busy(x), inWhile)
  <2>1. CASE time = 0
    <3>1. dura_aether' = [s EXCEPT ![x] = EndAether(s[x])]
      BY <1>4, <2>1
    <3>2. /\ EndAether(s[x]) \in DuraSlot
          /\ SlotOK(EndAether(s[x]), owed[x], Busy(x), inWhile)
      BY <1>5, EndAetherOK
    <3>. QED  BY <3>1, <3>2
  <2>2. CASE time # 0
    <3>. DEFINE e == [s[x] EXCEPT !.id = id, !.aether = time]
    <3>1. dura_aether' = [s EXCEPT ![x] = e]
      BY <1>4, <2>2
    <3>2. time \in 1..MaxTicks
      BY <2>2, DurationsAssumption
    <3>3. e \in DuraSlot /\ SlotOK(e, owed[x], Busy(x), inWhile)
      <4>1. PICK r \in DuraSlot : r = s[x]
        BY <1>5
      <4>2. SlotOK(r, owed[x], Busy(x), inWhile) /\ r.id \in {id, NoSpell}
        BY <1>3, <1>5, <4>1
      <4>3. PICK d : d = [r EXCEPT !.id = id, !.aether = time]
        OBVIOUS
      <4>4. /\ d \in DuraSlot /\ d.id = id /\ d.duration = r.duration
            /\ d.aether = time /\ d.caster = r.caster
        <5>1. time \in 0..MaxTicks /\ id \in Spells \cup {NoSpell}
          OBVIOUS
        <5>. QED  BY <4>3, <5>1 DEF DuraSlot
      <4>5. SlotOK(d, owed[x], Busy(x), inWhile)
        <5>. HIDE DEF e
        <5>. QED  BY <1>5, <3>2, <4>2, <4>4, WaitsOK
      <4>. QED  BY <4>1, <4>3, <4>4, <4>5
    <3>. HIDE DEF e
    <3>. QED  BY <3>1, <3>3
  <2>. QED  BY <2>1, <2>2
<1>7. inWhile' \in BOOLEAN /\ (inWhile => inWhile')
  BY <1>4, <1>5 DEF Ended
<1>8. /\ dura_aether' \in [Timers -> DuraSlot] /\ dura_aether'[x] = e
      /\ \A y \in Timers \ {x} : dura_aether'[y] = dura_aether[y]
      /\ \A y \in Timers : Busy(y)' <=> Busy(y)
  BY <1>4, <1>5, <1>6 DEF Busy
<1>9. DurationsTypeOK'
  BY <1>4, <1>5, <1>7, <1>8 DEF DurationsTypeOK, DuraSlot
<1>10. SlotOK(dura_aether'[x], owed'[x], Busy(x)', inWhile')
  BY <1>4, <1>6, <1>7, <1>8 DEF SlotOK
<1>11. OwedInWhile' /\ ExtraExplained'
  BY <1>4, <1>7 DEF IInv, OwedInWhile, ExtraExplained
<1>. QED  BY <1>3, <1>4, <1>7, <1>8, <1>9, <1>10, <1>11, OneSlotKeeps

\* Many slots at once, by a script: each is in order afterwards, for what is
\* owed then.
LEMMA ManySlotsKeep ==
  ASSUME IInv, DurationsTypeOK', UNCHANGED tick, extra' = FALSE,
         inWhile => inWhile',
         \A x \in Timers : SlotOK(dura_aether'[x], owed'[x], Busy(x), inWhile'),
         ~inWhile' /\ tick.stage = "while" => owed'[tick.x] # NoSpell
  PROVE  IInv'
<1>1. \A x \in Timers : Busy(x)' <=> Busy(x)
  BY DEF Busy
<1>2. SlotsOK'
  BY <1>1 DEF SlotsOK, SlotOK
<1>3. OwedInWhile' /\ ExtraExplained'
  BY DEF OwedInWhile, ExtraExplained
<1>. QED  BY <1>2, <1>3 DEF IInv

\* A flush ends some spells and owes them nothing; when the slot whose
\* while_cast runs is among them, inWhile knows.
LEMMA FlushKeeps ==
  ASSUME IInv, NEW ids \in SUBSET Spells, Flush(ids)
  PROVE  IInv'
<1>. DEFINE hit == {x \in Timers : dura_aether[x].id \in ids}
<1>1. /\ tick' = tick /\ extra' = FALSE
      /\ inWhile' = (inWhile \/ (tick.stage = "while" /\ tick.x \in hit))
      /\ dura_aether' = [x \in Timers |-> IF x \in hit
                                          THEN EndDuration(dura_aether[x])
                                          ELSE dura_aether[x]]
      /\ owed' = [x \in Timers |-> IF x \in hit THEN NoSpell ELSE owed[x]]
  BY DEF Flush, Ended
<1>. HIDE DEF hit
<1>2. DurationsTypeOK /\ inWhile \in BOOLEAN
  BY DEF IInv, DurationsTypeOK
<1>3. inWhile' \in BOOLEAN /\ (inWhile => inWhile')
  BY <1>1, <1>2
<1>4. ASSUME NEW x \in Timers
      PROVE  /\ dura_aether'[x] \in DuraSlot
             /\ SlotOK(dura_aether'[x], owed'[x], Busy(x), inWhile')
  <2>1. /\ dura_aether[x] \in DuraSlot /\ Busy(x) \in BOOLEAN
        /\ SlotOK(dura_aether[x], owed[x], Busy(x), inWhile)
    BY <1>2 DEF IInv, SlotsOK, DurationsTypeOK, DuraSlot, Busy
  <2>2. CASE x \in hit
    <3>1. dura_aether'[x] = EndDuration(dura_aether[x]) /\ owed'[x] = NoSpell
      BY <1>1, <2>2
    <3>2. FreeIsEmpty(dura_aether[x])
      BY <2>1 DEF SlotOK
    <3>3. /\ EndDuration(dura_aether[x]) \in DuraSlot
          /\ SlotOK(EndDuration(dura_aether[x]), NoSpell, Busy(x), inWhile')
      BY <1>3, <2>1, <3>2, EndDurationOK
    <3>. QED  BY <3>1, <3>3
  <2>3. CASE x \notin hit
    <3>1. dura_aether'[x] = dura_aether[x] /\ owed'[x] = owed[x]
      BY <1>1, <2>3
    <3>2. SlotOK(dura_aether[x], owed[x], Busy(x), inWhile')
      BY <1>2, <1>3, <2>1, SlotWeaker
    <3>. QED  BY <2>1, <3>1, <3>2
  <2>. QED  BY <2>2, <2>3
<1>5. DurationsTypeOK'
  <2>1. dura_aether' \in [Timers -> DuraSlot]
    BY <1>1, <1>4
  <2>2. owed' \in [Timers -> Spells \cup {NoSpell}]
    BY <1>1, <1>2 DEF DurationsTypeOK
  <2>. QED  BY <1>1, <1>2, <1>3, <2>1, <2>2 DEF DurationsTypeOK, DuraSlot
<1>6. ASSUME ~inWhile', tick.stage = "while" PROVE owed'[tick.x] # NoSpell
  <2>1. tick.x \in Timers /\ tick.x \notin hit /\ ~inWhile
    BY <1>1, <1>2, <1>6 DEF DurationsTypeOK
  <2>. QED  BY <1>1, <1>6, <2>1 DEF IInv, OwedInWhile
<1>. QED  BY <1>1, <1>3, <1>4, <1>5, <1>6, ManySlotsKeep

\* A flush of aethers ends some waits and changes nothing else.
LEMMA FlushAetherKeeps ==
  ASSUME IInv, NEW ids \in SUBSET Spells, pcl_flushaether(ids)
  PROVE  IInv'
<1>. DEFINE hit == {x \in Timers : \E y \in 1..x : dura_aether[y].id \in ids}
<1>1. /\ tick' = tick /\ extra' = FALSE /\ owed' = owed
      /\ inWhile' = (inWhile \/ (tick.stage = "while" /\ tick.x \in hit))
      /\ dura_aether' = [x \in Timers |-> IF x \in hit
                                          THEN EndAether(dura_aether[x])
                                          ELSE dura_aether[x]]
  BY DEF pcl_flushaether, Ended
<1>. HIDE DEF hit
<1>2. DurationsTypeOK /\ inWhile \in BOOLEAN
  BY DEF IInv, DurationsTypeOK
<1>3. inWhile' \in BOOLEAN /\ (inWhile => inWhile')
  BY <1>1, <1>2
<1>4. ASSUME NEW x \in Timers
      PROVE  /\ dura_aether'[x] \in DuraSlot
             /\ SlotOK(dura_aether'[x], owed'[x], Busy(x), inWhile')
  <2>1. /\ dura_aether[x] \in DuraSlot /\ Busy(x) \in BOOLEAN
        /\ SlotOK(dura_aether[x], owed[x], Busy(x), inWhile)
    BY <1>2 DEF IInv, SlotsOK, DurationsTypeOK, DuraSlot, Busy
  <2>2. SlotOK(dura_aether[x], owed[x], Busy(x), inWhile')
    BY <1>2, <1>3, <2>1, SlotWeaker
  <2>3. /\ EndAether(dura_aether[x]) \in DuraSlot
        /\ SlotOK(EndAether(dura_aether[x]), owed[x], Busy(x), inWhile')
    BY <1>3, <2>1, <2>2, EndAetherOK
  <2>. QED  BY <1>1, <2>1, <2>2, <2>3
<1>5. DurationsTypeOK'
  <2>1. dura_aether' \in [Timers -> DuraSlot]
    BY <1>1, <1>4
  <2>. QED  BY <1>1, <1>2, <1>3, <2>1 DEF DurationsTypeOK, DuraSlot
<1>6. ASSUME ~inWhile', tick.stage = "while" PROVE owed'[tick.x] # NoSpell
  BY <1>1, <1>3, <1>6 DEF IInv, OwedInWhile
<1>. QED  BY <1>1, <1>3, <1>4, <1>5, <1>6, ManySlotsKeep

----------------------------------------------------------------------------
(* The theorems.                                                           *)

\* The invariant that the others follow from: every slot is in order for what
\* is owed for it, at every stage of the timer (bl_duratimer and the
\* functions of the scripts that change the slots).
THEOREM SpecIInv == DurationsSpec => []IInv
<1>1. DurationsInit => IInv
  <2>. SUFFICES ASSUME DurationsInit PROVE IInv
    OBVIOUS
  <2>1. /\ NoSpell \in Spells \cup {NoSpell} /\ 0 \in 0..MaxTicks
        /\ NoCaster \in Casters \cup {NoCaster} /\ 1 \in Timers
    BY DurationsAssumption DEF Timers
  <2>2. DurationsTypeOK
    BY <2>1 DEF DurationsInit, DurationsTypeOK, NoTime, Idle
  <2>3. SlotsOK
    BY DEF DurationsInit, NoTime, SlotsOK, SlotOK, FreeIsEmpty, EmptyIsFree,
           ActingIsOwed, OwedIsActing
  <2>4. OwedInWhile /\ ExtraExplained
    BY DEF DurationsInit, Idle, OwedInWhile, ExtraExplained
  <2>. QED  BY <2>2, <2>3, <2>4 DEF IInv
<1>2. IInv /\ [DurationsNext]_durationsVars => IInv'
  <2>. SUFFICES ASSUME IInv, [DurationsNext]_durationsVars PROVE IInv'
    OBVIOUS
  <2>1. CASE BeginTick \/ Relog
    BY <2>1, BeginKeeps
  <2>2. CASE OnlyAether \/ ThenAether
    BY <2>2, AetherKeeps
  <2>3. CASE WhileCast
    BY <2>3, WhileKeeps
  <2>4. CASE Expire
    BY <2>4, ExpireKeeps
  <2>5. CASE \E id \in Spells, time \in 0..MaxTicks, recast \in BOOLEAN,
                caster \in Casters \cup {NoCaster} :
               pcl_setduration(id, time, caster, recast)
    BY <2>5, SetDurationKeeps
  <2>6. CASE \E id \in Spells, time \in 0..MaxTicks : pcl_setaether(id, time)
    BY <2>6, SetAetherKeeps
  <2>7. CASE \E ids \in (SUBSET Spells) \ {{}} : Flush(ids) \/ pcl_flushaether(ids)
    BY <2>7, FlushKeeps, FlushAetherKeeps
  <2>8. CASE clif_ondeath_uncast
    BY <2>8, FlushKeeps DEF clif_ondeath_uncast
  <2>9. CASE UNCHANGED durationsVars
    BY <2>9 DEF durationsVars, IInv, DurationsTypeOK, SlotsOK, Busy,
              OwedInWhile, ExtraExplained
  <2>. QED  BY <2>1, <2>2, <2>3, <2>4, <2>5, <2>6, <2>7, <2>8, <2>9
          DEF DurationsNext
<1>. QED  BY <1>1, <1>2, PTL DEF DurationsSpec

\* A slot is free exactly when it holds no time, and a spell that acts is
\* uncast once, but for the two exceptions the property names
\* (bl_duratimer, setDuration, setAether, flushDuration, flushAether, death).
THEOREM SpecSlotsSound == DurationsSpec => []SlotsSound
<1>1. IInv => SlotsSound
  <2>. SUFFICES ASSUME IInv PROVE SlotsSound
    OBVIOUS
  <2>1. ASSUME NEW x \in Timers
        PROVE  SlotOK(dura_aether[x], owed[x], Busy(x), inWhile)
    BY DEF IInv, SlotsOK
  <2>2. FreeHoldsNoTime
    BY <2>1 DEF FreeHoldsNoTime, SlotOK, FreeIsEmpty, EmptyIsFree, Busy
  <2>3. UncastOnce
    BY <2>1 DEF IInv, UncastOnce, ExtraExplained, SlotOK, ActingIsOwed,
                OwedIsActing, Busy
  <2>. QED  BY <2>2, <2>3 DEF SlotsSound
<1>. QED  BY <1>1, SpecIInv, PTL

-----------------------------------------------------------------------------
(* The block lists.                                                        *)

Links == [x : 0..XS, prev : Objects \cup {Null, bl_head}, next : Objects \cup {Null}]
Grids == [bl : [Objects -> Links], block : [Chains -> [Blocks -> Objects \cup {Null}]],
          user : Int]

\* The chain of an object, and the first of that chain.
SameChain(g, p, q) == ChainOf(p) = ChainOf(q) /\ PosOf(g.bl[p].x) = PosOf(g.bl[q].x)
FirstOf(g, p) == g.block[ChainOf(p)][PosOf(g.bl[p].x)]

\* What is on the map is first in its chain or has one before it, and is named
\* by what it names.
LinksAgree(g) ==
  \A p \in Objects : OnMap(g, p) =>
    LET link == g.bl[p] IN
    /\ link.x \in Cells
    /\ link.prev = bl_head <=> FirstOf(g, p) = p
    /\ link.prev # bl_head =>
         OnMap(g, link.prev) /\ SameChain(g, link.prev, p) /\ g.bl[link.prev].next = p
    /\ link.next # Null =>
         OnMap(g, link.next) /\ SameChain(g, link.next, p) /\ g.bl[link.next].prev = p

FirstStands(g) ==
  \A c \in Chains, pos \in Blocks :
    g.block[c][pos] # Null =>
      /\ OnMap(g, g.block[c][pos]) /\ ChainOf(g.block[c][pos]) = c
      /\ PosOf(g.bl[g.block[c][pos]].x) = pos

OffIsLoose(g) == \A p \in Objects : ~OnMap(g, p) => g.bl[p].next = Null

\* Ranks that fall along every chain, so no chain is a ring.
Falls(g, b, rank) ==
  /\ rank \in [Objects -> 0..b]
  /\ \A p \in Objects : g.bl[p].next # Null => rank[g.bl[p].next] < rank[p]
Ranked(g) == \E b \in Nat : \E rank : Falls(g, b, rank)

PlayersOn(g) == {p \in Pcs : OnMap(g, p)}
Counted(g) == g.user = Cardinality(PlayersOn(g))

Sound(g) ==
  /\ g \in Grids /\ LinksAgree(g) /\ FirstStands(g) /\ OffIsLoose(g)
  /\ Ranked(g) /\ Counted(g)

ChainsInv ==
  /\ Sound(Grid)
  /\ freed \subseteq Objects /\ dead \subseteq Mobs /\ dead \cap freed = {}
  /\ \A o \in freed : ~OnMap(Grid, o)

\* Objects and marks are told apart.
LEMMA MarksApart ==
  /\ Null \notin Objects /\ bl_head \notin Objects /\ bl_head # Null
  /\ IsFiniteSet(Pcs) /\ XS \in Nat \ {0} /\ BlockSize \in Nat \ {0}
BY GridAssumption

\* A cell has a block.
LEMMA PosIs ==
  ASSUME NEW x \in Cells
  PROVE  PosOf(x) \in Blocks /\ x \in 0..XS /\ x \in Int
BY MarksApart DEF PosOf, Blocks, Cells

\* A chain for each kind.
LEMMA ChainIs == \A o \in Objects : ChainOf(o) \in Chains
BY DEF ChainOf, Chains

\* What an object's links are.
LEMMA LinksAre ==
  ASSUME NEW g \in Grids, NEW p \in Objects
  PROVE  /\ g.bl[p] \in Links /\ g.bl[p].x \in 0..XS
         /\ g.bl[p].prev \in Objects \cup {Null, bl_head}
         /\ g.bl[p].next \in Objects \cup {Null}
         /\ g.bl[p] = [x |-> g.bl[p].x, prev |-> g.bl[p].prev, next |-> g.bl[p].next]
<1>1. g.bl \in [Objects -> Links]
  BY DEF Grids
<1>2. PICK l \in Links : l = g.bl[p]
  BY <1>1
<1>3. /\ l.x \in 0..XS /\ l.prev \in Objects \cup {Null, bl_head}
      /\ l.next \in Objects \cup {Null} /\ l = [x |-> l.x, prev |-> l.prev, next |-> l.next]
  BY DEF Links
<1>. QED  BY <1>2, <1>3

\* An object is put before the first of its chain.
LEMMA AddIs ==
  ASSUME NEW g \in Grids, NEW o \in Objects, ~OnMap(g, o), g.bl[o].x \in Cells,
         NEW first \in Objects \cup {Null}, first = FirstOf(g, o), first # o
  PROVE  \E h \in Grids :
           /\ h = map_addblock(g, o)
           /\ \A p \in Objects : h.bl[p].x = g.bl[p].x
           /\ h.bl[o].next = first /\ h.bl[o].prev = bl_head
           /\ \A p \in Objects \ {o} :
                /\ h.bl[p].next = g.bl[p].next
                /\ h.bl[p].prev = IF p = first THEN o ELSE g.bl[p].prev
           /\ \A c \in Chains, pos \in Blocks :
                h.block[c][pos] = IF c = ChainOf(o) /\ pos = PosOf(g.bl[o].x) THEN o
                                  ELSE g.block[c][pos]
           /\ h.user = IF o \in Pcs THEN g.user + 1 ELSE g.user
<1>. DEFINE links == [p \in Objects |->
                      IF p = o THEN [g.bl[o] EXCEPT !.next = first, !.prev = bl_head]
                      ELSE IF p = first THEN [g.bl[p] EXCEPT !.prev = o]
                      ELSE g.bl[p]]
            heads == [g.block EXCEPT ![ChainOf(o)][PosOf(g.bl[o].x)] = o]
            count == IF o \in Pcs THEN g.user + 1 ELSE g.user
            h == [bl |-> links, block |-> heads, user |-> count]
<1>1. h = map_addblock(g, o)
  BY DEF map_addblock, FirstOf
<1>2. /\ links \in [Objects -> Links]
      /\ links[o].x = g.bl[o].x /\ links[o].next = first /\ links[o].prev = bl_head
      /\ \A p \in Objects \ {o} :
           /\ links[p].x = g.bl[p].x /\ links[p].next = g.bl[p].next
           /\ links[p].prev = IF p = first THEN o ELSE g.bl[p].prev
  <2>1. ASSUME NEW l \in Links, NEW q \in Objects \cup {Null, bl_head}
        PROVE  /\ [l EXCEPT !.prev = q] \in Links /\ [l EXCEPT !.prev = q].x = l.x
               /\ [l EXCEPT !.prev = q].next = l.next /\ [l EXCEPT !.prev = q].prev = q
    BY DEF Links
  <2>2. ASSUME NEW l \in Links
        PROVE  /\ [l EXCEPT !.next = first, !.prev = bl_head] \in Links
               /\ [l EXCEPT !.next = first, !.prev = bl_head].x = l.x
               /\ [l EXCEPT !.next = first, !.prev = bl_head].next = first
               /\ [l EXCEPT !.next = first, !.prev = bl_head].prev = bl_head
    BY DEF Links
  <2>3. ASSUME NEW p \in Objects PROVE g.bl[p] \in Links
    BY LinksAre
  <2>4. /\ links[o] \in Links
        /\ links[o].x = g.bl[o].x /\ links[o].next = first /\ links[o].prev = bl_head
    <3>1. links[o] = [g.bl[o] EXCEPT !.next = first, !.prev = bl_head]
      OBVIOUS
    <3>2. PICK l \in Links : l = g.bl[o]
      BY <2>3
    <3>3. links[o] = [l EXCEPT !.next = first, !.prev = bl_head]
      BY <3>1, <3>2
    <3>. HIDE DEF links
    <3>. QED  BY <2>2, <3>2, <3>3
  <2>5. ASSUME NEW p \in Objects \ {o}
        PROVE  /\ links[p] \in Links
               /\ links[p].x = g.bl[p].x /\ links[p].next = g.bl[p].next
               /\ links[p].prev = IF p = first THEN o ELSE g.bl[p].prev
    <3>1. links[p] = IF p = first THEN [g.bl[p] EXCEPT !.prev = o] ELSE g.bl[p]
      OBVIOUS
    <3>2. g.bl[p] \in Links
      BY <2>3
    <3>. HIDE DEF links
    <3>. QED  BY <2>1, <3>1, <3>2
  <2>6. links \in [Objects -> Links]
    <3>1. \A p \in Objects : links[p] \in Links
      BY <2>4, <2>5
    <3>2. links = [p \in Objects |-> links[p]]
      OBVIOUS
    <3>. HIDE DEF links
    <3>. QED  BY <3>1, <3>2
  <2>. QED  BY <2>4, <2>5, <2>6
<1>3. /\ heads \in [Chains -> [Blocks -> Objects \cup {Null}]]
      /\ \A c \in Chains, pos \in Blocks :
           heads[c][pos] = IF c = ChainOf(o) /\ pos = PosOf(g.bl[o].x) THEN o
                           ELSE g.block[c][pos]
  <2>1. g.block \in [Chains -> [Blocks -> Objects \cup {Null}]]
    BY DEF Grids
  <2>2. ChainOf(o) \in Chains /\ PosOf(g.bl[o].x) \in Blocks
    BY ChainIs, PosIs
  <2>. QED  BY <2>1, <2>2
<1>4. g.user \in Int /\ count \in Int
  BY DEF Grids
<1>5. h \in Grids /\ h.bl = links /\ h.block = heads /\ h.user = count
  <2>. HIDE DEF links, heads, count
  <2>. QED  BY <1>2, <1>3, <1>4 DEF Grids
<1>6. count = IF o \in Pcs THEN g.user + 1 ELSE g.user
  OBVIOUS
<1>7. \A p \in Objects : links[p].x = g.bl[p].x
  <2>. HIDE DEF links
  <2>. QED  BY <1>2
<1>. HIDE DEF h, links, heads, count
<1>. QED  BY <1>1, <1>2, <1>3, <1>5, <1>6, <1>7

\* An object is taken out of its chain.
LEMMA DelIs ==
  ASSUME NEW g \in Grids, NEW o \in Objects, OnMap(g, o),
         NEW n \in Objects \cup {Null}, n = g.bl[o].next,
         NEW q \in Objects \cup {bl_head}, q = g.bl[o].prev,
         n # o, q # o, n # q, PosOf(g.bl[o].x) \in Blocks
  PROVE  \E h \in Grids :
           /\ h = map_delblock(g, o)
           /\ \A p \in Objects : h.bl[p].x = g.bl[p].x
           /\ h.bl[o].next = Null /\ h.bl[o].prev = Null
           /\ \A p \in Objects \ {o} :
                /\ h.bl[p].next = IF p = q THEN n ELSE g.bl[p].next
                /\ h.bl[p].prev = IF p = n THEN q ELSE g.bl[p].prev
           /\ \A c \in Chains, pos \in Blocks :
                h.block[c][pos] = IF q = bl_head /\ c = ChainOf(o) /\ pos = PosOf(g.bl[o].x)
                                  THEN n ELSE g.block[c][pos]
           /\ h.user = IF o \in Pcs THEN g.user - 1 ELSE g.user
<1>. DEFINE links == [p \in Objects |->
                      IF p = o THEN [g.bl[o] EXCEPT !.next = Null, !.prev = Null]
                      ELSE IF p = n THEN [g.bl[p] EXCEPT !.prev = q]
                      ELSE IF p = q THEN [g.bl[p] EXCEPT !.next = n]
                      ELSE g.bl[p]]
            heads == IF q = bl_head
                     THEN [g.block EXCEPT ![ChainOf(o)][PosOf(g.bl[o].x)] = n]
                     ELSE g.block
            count == IF o \in Pcs THEN g.user - 1 ELSE g.user
            h == [bl |-> links, block |-> heads, user |-> count]
<1>1. h = map_delblock(g, o)
  BY DEF map_delblock
<1>2. /\ links \in [Objects -> Links]
      /\ links[o].x = g.bl[o].x /\ links[o].next = Null /\ links[o].prev = Null
      /\ \A p \in Objects \ {o} :
           /\ links[p].x = g.bl[p].x
           /\ links[p].next = IF p = q THEN n ELSE g.bl[p].next
           /\ links[p].prev = IF p = n THEN q ELSE g.bl[p].prev
  <2>1. ASSUME NEW l \in Links, NEW v \in Objects \cup {Null, bl_head}
        PROVE  /\ [l EXCEPT !.prev = v] \in Links /\ [l EXCEPT !.prev = v].x = l.x
               /\ [l EXCEPT !.prev = v].next = l.next /\ [l EXCEPT !.prev = v].prev = v
    BY DEF Links
  <2>7. ASSUME NEW l \in Links, NEW v \in Objects \cup {Null}
        PROVE  /\ [l EXCEPT !.next = v] \in Links /\ [l EXCEPT !.next = v].x = l.x
               /\ [l EXCEPT !.next = v].next = v /\ [l EXCEPT !.next = v].prev = l.prev
    BY DEF Links
  <2>2. ASSUME NEW l \in Links
        PROVE  /\ [l EXCEPT !.next = Null, !.prev = Null] \in Links
               /\ [l EXCEPT !.next = Null, !.prev = Null].x = l.x
               /\ [l EXCEPT !.next = Null, !.prev = Null].next = Null
               /\ [l EXCEPT !.next = Null, !.prev = Null].prev = Null
    BY DEF Links
  <2>3. ASSUME NEW p \in Objects PROVE g.bl[p] \in Links
    BY LinksAre
  <2>4. /\ links[o] \in Links
        /\ links[o].x = g.bl[o].x /\ links[o].next = Null /\ links[o].prev = Null
    <3>1. links[o] = [g.bl[o] EXCEPT !.next = Null, !.prev = Null]
      OBVIOUS
    <3>2. PICK l \in Links : l = g.bl[o]
      BY <2>3
    <3>3. links[o] = [l EXCEPT !.next = Null, !.prev = Null]
      BY <3>1, <3>2
    <3>. HIDE DEF links
    <3>. QED  BY <2>2, <3>2, <3>3
  <2>5. ASSUME NEW p \in Objects \ {o}
        PROVE  /\ links[p] \in Links
               /\ links[p].x = g.bl[p].x
               /\ links[p].next = IF p = q THEN n ELSE g.bl[p].next
               /\ links[p].prev = IF p = n THEN q ELSE g.bl[p].prev
    <3>2. PICK l \in Links : l = g.bl[p]
      BY <2>3
    <3>1. links[p] = IF p = n THEN [l EXCEPT !.prev = q]
                     ELSE IF p = q THEN [l EXCEPT !.next = n] ELSE l
      BY <3>2
    <3>. HIDE DEF links
    <3>3. CASE p = n
      BY <2>1, <3>1, <3>2, <3>3
    <3>4. CASE p # n /\ p = q
      BY <2>7, <3>1, <3>2, <3>4
    <3>5. CASE p # n /\ p # q
      BY <3>1, <3>2, <3>5
    <3>. QED  BY <3>3, <3>4, <3>5
  <2>6. links \in [Objects -> Links]
    <3>1. \A p \in Objects : links[p] \in Links
      BY <2>4, <2>5
    <3>2. links = [p \in Objects |-> links[p]]
      OBVIOUS
    <3>. HIDE DEF links
    <3>. QED  BY <3>1, <3>2
  <2>. QED  BY <2>4, <2>5, <2>6
<1>3. /\ heads \in [Chains -> [Blocks -> Objects \cup {Null}]]
      /\ \A c \in Chains, pos \in Blocks :
           heads[c][pos] = IF q = bl_head /\ c = ChainOf(o) /\ pos = PosOf(g.bl[o].x)
                           THEN n ELSE g.block[c][pos]
  <2>1. g.block \in [Chains -> [Blocks -> Objects \cup {Null}]]
    BY DEF Grids
  <2>2. ChainOf(o) \in Chains /\ PosOf(g.bl[o].x) \in Blocks
    BY ChainIs
  <2>. QED  BY <2>1, <2>2
<1>4. g.user \in Int /\ count \in Int
  BY DEF Grids
<1>5. h \in Grids /\ h.bl = links /\ h.block = heads /\ h.user = count
  <2>. HIDE DEF links, heads, count
  <2>. QED  BY <1>2, <1>3, <1>4 DEF Grids
<1>6. count = IF o \in Pcs THEN g.user - 1 ELSE g.user
  OBVIOUS
<1>7. \A p \in Objects : links[p].x = g.bl[p].x
  <2>. HIDE DEF links
  <2>. QED  BY <1>2
<1>. HIDE DEF h, links, heads, count
<1>. QED  BY <1>1, <1>2, <1>3, <1>5, <1>6, <1>7

\* An object is at another cell.
LEMMA AtIs ==
  ASSUME NEW g \in Grids, NEW o \in Objects, NEW x \in 0..XS
  PROVE  \E h \in Grids :
           /\ h = At(g, o, x)
           /\ h.bl[o].x = x /\ \A p \in Objects \ {o} : h.bl[p].x = g.bl[p].x
           /\ \A p \in Objects : h.bl[p].next = g.bl[p].next /\ h.bl[p].prev = g.bl[p].prev
           /\ h.block = g.block /\ h.user = g.user
<1>. DEFINE links == [g.bl EXCEPT ![o] = [g.bl[o] EXCEPT !.x = x]]
            h == [bl |-> links, block |-> g.block, user |-> g.user]
<1>1. h = At(g, o, x)
  <2>1. g = [bl |-> g.bl, block |-> g.block, user |-> g.user]
        /\ g.bl \in [Objects -> Links]
    BY DEF Grids
  <2>. QED  BY <2>1 DEF At
<1>2. ASSUME NEW l \in Links
      PROVE  /\ [l EXCEPT !.x = x] \in Links /\ [l EXCEPT !.x = x].x = x
             /\ [l EXCEPT !.x = x].next = l.next /\ [l EXCEPT !.x = x].prev = l.prev
  BY DEF Links
<1>3. PICK l \in Links : l = g.bl[o]
  BY LinksAre
<1>4. PICK k \in Links : k = [l EXCEPT !.x = x] /\ k.x = x /\ k.next = l.next /\ k.prev = l.prev
  BY <1>2
<1>5. g.bl \in [Objects -> Links]
  BY DEF Grids
<1>6. /\ links \in [Objects -> Links] /\ links[o] = k
      /\ \A p \in Objects \ {o} : links[p] = g.bl[p]
  BY <1>3, <1>4, <1>5
<1>7. h \in Grids /\ h.bl = links /\ h.block = g.block /\ h.user = g.user
  <2>. HIDE DEF links
  <2>. QED  BY <1>6 DEF Grids
<1>. HIDE DEF h, links
<1>8. \A p \in Objects : h.bl[p].next = g.bl[p].next /\ h.bl[p].prev = g.bl[p].prev
  BY <1>3, <1>4, <1>6, <1>7
<1>. QED  BY <1>1, <1>4, <1>6, <1>7, <1>8

\* An object off the map is put on it.
LEMMA AddSound ==
  ASSUME NEW g, Sound(g), NEW o \in Objects, ~OnMap(g, o), g.bl[o].x \in Cells
  PROVE  /\ Sound(map_addblock(g, o))
         /\ \A p \in Objects : OnMap(map_addblock(g, o), p) <=> OnMap(g, p) \/ p = o
<1>1. g \in Grids
  BY DEF Sound
<1>2. ChainOf(o) \in Chains /\ PosOf(g.bl[o].x) \in Blocks
  BY ChainIs, PosIs
<1>3. PICK first \in Objects \cup {Null} : first = FirstOf(g, o)
  BY <1>1, <1>2 DEF FirstOf, Grids
<1>4. /\ first # o
      /\ first # Null => OnMap(g, first) /\ SameChain(g, first, o)
  <2>1. first # Null => OnMap(g, first) /\ SameChain(g, first, o)
    BY <1>2, <1>3 DEF Sound, FirstStands, FirstOf, SameChain
  <2>. QED  BY <2>1, MarksApart
<1>5. PICK h \in Grids :
        /\ h = map_addblock(g, o)
        /\ \A p \in Objects : h.bl[p].x = g.bl[p].x
        /\ h.bl[o].next = first /\ h.bl[o].prev = bl_head
        /\ \A p \in Objects \ {o} :
             /\ h.bl[p].next = g.bl[p].next
             /\ h.bl[p].prev = IF p = first THEN o ELSE g.bl[p].prev
        /\ \A c \in Chains, pos \in Blocks :
             h.block[c][pos] = IF c = ChainOf(o) /\ pos = PosOf(g.bl[o].x) THEN o
                               ELSE g.block[c][pos]
        /\ h.user = IF o \in Pcs THEN g.user + 1 ELSE g.user
  BY <1>1, <1>3, <1>4, AddIs
<1>6. \A p \in Objects : OnMap(h, p) <=> OnMap(g, p) \/ p = o
  BY <1>4, <1>5, MarksApart DEF OnMap
<1>7. \A p, q \in Objects : SameChain(h, p, q) <=> SameChain(g, p, q)
  BY <1>5 DEF SameChain
<1>8. \A p \in Objects : g.bl[p].x \in Cells =>
        FirstOf(h, p) = IF SameChain(g, p, o) THEN o ELSE FirstOf(g, p)
  BY <1>5, ChainIs, PosIs DEF FirstOf, SameChain
<1>9. LinksAgree(h)
  <2>1. SUFFICES ASSUME NEW p \in Objects, OnMap(h, p)
        PROVE  /\ h.bl[p].x \in Cells
               /\ h.bl[p].prev = bl_head <=> FirstOf(h, p) = p
               /\ h.bl[p].prev # bl_head =>
                    /\ OnMap(h, h.bl[p].prev) /\ SameChain(h, h.bl[p].prev, p)
                    /\ h.bl[h.bl[p].prev].next = p
               /\ h.bl[p].next # Null =>
                    /\ OnMap(h, h.bl[p].next) /\ SameChain(h, h.bl[p].next, p)
                    /\ h.bl[h.bl[p].next].prev = p
    BY DEF LinksAgree
  <2>2. CASE p = o
    <3>1. FirstOf(h, p) = p
      BY <1>8, <2>2 DEF SameChain
    <3>2. first # Null => h.bl[first].prev = p
      BY <1>4, <1>5, <2>2
    <3>. QED  BY <1>4, <1>5, <1>6, <1>7, <2>2, <3>1, <3>2
  <2>3. CASE p # o
    <3>1. /\ OnMap(g, p) /\ g.bl[p].x \in Cells
          /\ g.bl[p].prev = bl_head <=> FirstOf(g, p) = p
          /\ g.bl[p].prev # bl_head =>
               /\ OnMap(g, g.bl[p].prev) /\ SameChain(g, g.bl[p].prev, p)
               /\ g.bl[g.bl[p].prev].next = p
          /\ g.bl[p].next # Null =>
               /\ OnMap(g, g.bl[p].next) /\ SameChain(g, g.bl[p].next, p)
               /\ g.bl[g.bl[p].next].prev = p
      BY <1>6, <2>1, <2>3 DEF Sound, LinksAgree
    <3>2. g.bl[p].prev \in Objects \cup {bl_head} /\ g.bl[p].next \in Objects \cup {Null}
      BY <1>1, <3>1, LinksAre DEF OnMap
    <3>3. h.bl[p].x \in Cells
      BY <1>5, <3>1
    <3>4. h.bl[p].prev = bl_head <=> FirstOf(h, p) = p
      <4>1. CASE p = first
        <5>1. SameChain(g, p, o)
          BY <1>4, <4>1, MarksApart
        <5>. QED  BY <1>5, <1>8, <2>3, <3>1, <4>1, <5>1, MarksApart
      <4>2. CASE p # first
        <5>1. SameChain(g, p, o) => FirstOf(g, p) = first
          BY <1>3 DEF SameChain, FirstOf
        <5>. QED  BY <1>5, <1>8, <2>3, <3>1, <4>2, <5>1
      <4>. QED  BY <4>1, <4>2
    <3>5. ASSUME h.bl[p].prev # bl_head
          PROVE  /\ OnMap(h, h.bl[p].prev) /\ SameChain(h, h.bl[p].prev, p)
                 /\ h.bl[h.bl[p].prev].next = p
      <4>1. CASE p = first
        <5>1. h.bl[p].prev = o /\ SameChain(g, o, p)
          BY <1>4, <1>5, <2>3, <4>1, MarksApart DEF SameChain
        <5>. QED  BY <1>5, <1>6, <1>7, <4>1, <5>1
      <4>2. CASE p # first
        <5>1. PICK q \in Objects : q = g.bl[p].prev /\ h.bl[p].prev = q
          BY <1>5, <2>3, <3>2, <3>5, <4>2
        <5>2. OnMap(g, q) /\ SameChain(g, q, p) /\ g.bl[q].next = p
          BY <3>1, <5>1, MarksApart
        <5>3. q # o
          BY <5>2
        <5>. QED  BY <1>5, <1>6, <1>7, <5>1, <5>2, <5>3
      <4>. QED  BY <4>1, <4>2
    <3>6. ASSUME h.bl[p].next # Null
          PROVE  /\ OnMap(h, h.bl[p].next) /\ SameChain(h, h.bl[p].next, p)
                 /\ h.bl[h.bl[p].next].prev = p
      <4>1. PICK n \in Objects : n = g.bl[p].next /\ h.bl[p].next = n
        BY <1>5, <2>3, <3>2, <3>6
      <4>2. OnMap(g, n) /\ SameChain(g, n, p) /\ g.bl[n].prev = p
        BY <3>1, <4>1, MarksApart
      <4>3. n # o /\ n # first
        <5>1. n # o
          BY <4>2
        <5>2. CASE n = first
          <6>1. FirstOf(g, n) = n
            BY <1>3, <1>4, <5>2, MarksApart DEF SameChain, FirstOf
          <6>2. g.bl[n].prev = bl_head
            BY <4>2, <6>1 DEF Sound, LinksAgree
          <6>. QED  BY <4>2, <6>2, MarksApart
        <5>. QED  BY <5>1, <5>2
      <4>. QED  BY <1>5, <1>6, <1>7, <4>1, <4>2, <4>3
    <3>. QED  BY <3>3, <3>4, <3>5, <3>6
  <2>. QED  BY <2>2, <2>3
<1>10. FirstStands(h)
  <2>1. SUFFICES ASSUME NEW c \in Chains, NEW pos \in Blocks, h.block[c][pos] # Null
        PROVE  /\ OnMap(h, h.block[c][pos]) /\ ChainOf(h.block[c][pos]) = c
               /\ PosOf(h.bl[h.block[c][pos]].x) = pos
    BY DEF FirstStands
  <2>2. CASE c = ChainOf(o) /\ pos = PosOf(g.bl[o].x)
    BY <1>5, <1>6, <2>2
  <2>3. CASE ~(c = ChainOf(o) /\ pos = PosOf(g.bl[o].x))
    <3>1. PICK q \in Objects : q = g.block[c][pos] /\ h.block[c][pos] = q
      BY <1>1, <1>5, <2>1, <2>3 DEF Grids
    <3>2. OnMap(g, q) /\ ChainOf(q) = c /\ PosOf(g.bl[q].x) = pos
      BY <3>1, MarksApart DEF Sound, FirstStands
    <3>. QED  BY <1>5, <1>6, <3>1, <3>2
  <2>. QED  BY <2>2, <2>3
<1>11. OffIsLoose(h)
  BY <1>5, <1>6 DEF Sound, OffIsLoose
<1>12. Ranked(h)
  <2>0. PICK b \in Nat : \E rank : Falls(g, b, rank)
    BY DEF Sound, Ranked
  <2>1. PICK rank : Falls(g, b, rank)
    BY <2>0
  <2>2. rank \in [Objects -> 0..b]
    BY <2>1 DEF Falls
  <2>3. PICK r : r = [rank EXCEPT ![o] = b + 1]
    OBVIOUS
  <2>4. r \in [Objects -> 0..b + 1] /\ r[o] = b + 1 /\ \A p \in Objects \ {o} : r[p] = rank[p]
    BY <2>2, <2>3
  <2>5. ASSUME NEW p \in Objects, h.bl[p].next # Null PROVE r[h.bl[p].next] < r[p]
    <3>1. CASE p = o
      <4>1. first \in Objects \ {o} /\ h.bl[p].next = first
        BY <1>4, <1>5, <2>5, <3>1
      <4>2. rank[first] \in 0..b
        BY <2>2, <4>1
      <4>. QED  BY <2>4, <3>1, <4>1, <4>2
    <3>2. CASE p # o
      <4>1. PICK n \in Objects : n = g.bl[p].next /\ h.bl[p].next = n
        BY <1>1, <1>5, <2>5, <3>2, LinksAre
      <4>2. rank[n] < rank[p]
        BY <2>1, <4>1, MarksApart DEF Falls
      <4>3. n # o
        <5>1. OnMap(g, p)
          BY <4>1, MarksApart DEF Sound, OffIsLoose
        <5>2. OnMap(g, n)
          BY <4>1, <5>1, MarksApart DEF Sound, LinksAgree
        <5>. QED  BY <5>2
      <4>. QED  BY <2>4, <3>2, <4>1, <4>2, <4>3
    <3>. QED  BY <3>1, <3>2
  <2>6. Falls(h, b + 1, r)
    BY <2>4, <2>5 DEF Falls
  <2>. QED  BY <2>6 DEF Ranked
<1>13. Counted(h)
  <2>1. IsFiniteSet(PlayersOn(g)) /\ g.user = Cardinality(PlayersOn(g))
    <3>1. PlayersOn(g) \subseteq Pcs
      BY DEF PlayersOn
    <3>. QED  BY <3>1, MarksApart, FS_Subset DEF Sound, Counted
  <2>2. CASE o \in Pcs
    <3>1. PlayersOn(h) = PlayersOn(g) \cup {o} /\ o \notin PlayersOn(g)
      BY <1>6, <2>2 DEF PlayersOn, Objects
    <3>2. Cardinality(PlayersOn(h)) = Cardinality(PlayersOn(g)) + 1
      BY <2>1, <3>1, FS_AddElement
    <3>. QED  BY <1>5, <2>1, <2>2, <3>2 DEF Counted
  <2>3. CASE o \notin Pcs
    <3>1. PlayersOn(h) = PlayersOn(g)
      BY <1>6, <2>3 DEF PlayersOn, Objects
    <3>. QED  BY <1>5, <2>1, <2>3, <3>1 DEF Counted
  <2>. QED  BY <2>2, <2>3
<1>. QED  BY <1>5, <1>6, <1>9, <1>10, <1>11, <1>12, <1>13 DEF Sound

\* An object is taken off the map.
LEMMA DelSound ==
  ASSUME NEW g, Sound(g), NEW o \in Objects
  PROVE  /\ Sound(map_delblock(g, o))
         /\ \A p \in Objects :
              /\ OnMap(map_delblock(g, o), p) <=> OnMap(g, p) /\ p # o
              /\ map_delblock(g, o).bl[p].x = g.bl[p].x
<1>1. g \in Grids
  BY DEF Sound
<1>2. CASE ~OnMap(g, o)
  BY <1>2 DEF map_delblock
<1>3. CASE OnMap(g, o)
  <2>1. /\ g.bl[o].x \in Cells
        /\ g.bl[o].prev = bl_head <=> FirstOf(g, o) = o
        /\ g.bl[o].prev # bl_head =>
             /\ OnMap(g, g.bl[o].prev) /\ SameChain(g, g.bl[o].prev, o)
             /\ g.bl[g.bl[o].prev].next = o
        /\ g.bl[o].next # Null =>
             /\ OnMap(g, g.bl[o].next) /\ SameChain(g, g.bl[o].next, o)
             /\ g.bl[g.bl[o].next].prev = o
    BY <1>3 DEF Sound, LinksAgree
  <2>2. PICK n \in Objects \cup {Null} : n = g.bl[o].next
    BY <1>1, LinksAre
  <2>3. PICK q \in Objects \cup {bl_head} : q = g.bl[o].prev
    BY <1>1, <1>3, LinksAre DEF OnMap
  <2>4. /\ q # bl_head => OnMap(g, q) /\ SameChain(g, q, o) /\ g.bl[q].next = o
        /\ n # Null => OnMap(g, n) /\ SameChain(g, n, o) /\ g.bl[n].prev = o
        /\ q = bl_head <=> FirstOf(g, o) = o
    BY <2>1, <2>2, <2>3
  <2>5. n # o /\ q # o /\ n # q
    <3>0. PICK b \in Nat : \E rank : Falls(g, b, rank)
      BY DEF Sound, Ranked
    <3>1. PICK rank : Falls(g, b, rank)
      BY <3>0
    <3>2. /\ n # Null => rank[n] < rank[o] /\ rank[n] \in Int
          /\ q # bl_head => rank[o] < rank[q] /\ rank[q] \in Int
          /\ rank[o] \in Int
      BY <2>2, <2>4, <3>1, MarksApart DEF Falls
    <3>. QED  BY <2>2, <2>3, <3>2, MarksApart
  <2>6. PosOf(g.bl[o].x) \in Blocks /\ ChainOf(o) \in Chains
    BY <2>1, PosIs, ChainIs
  <2>7. PICK h \in Grids :
          /\ h = map_delblock(g, o)
          /\ \A p \in Objects : h.bl[p].x = g.bl[p].x
          /\ h.bl[o].next = Null /\ h.bl[o].prev = Null
          /\ \A p \in Objects \ {o} :
               /\ h.bl[p].next = IF p = q THEN n ELSE g.bl[p].next
               /\ h.bl[p].prev = IF p = n THEN q ELSE g.bl[p].prev
          /\ \A c \in Chains, pos \in Blocks :
               h.block[c][pos] = IF q = bl_head /\ c = ChainOf(o) /\ pos = PosOf(g.bl[o].x)
                                 THEN n ELSE g.block[c][pos]
          /\ h.user = IF o \in Pcs THEN g.user - 1 ELSE g.user
    BY <1>1, <1>3, <2>2, <2>3, <2>5, <2>6, DelIs
  <2>8. \A p \in Objects : OnMap(h, p) <=> OnMap(g, p) /\ p # o
    <3>1. \A p \in Objects \ {o} : p = n => OnMap(g, p)
      BY <2>4, MarksApart
    <3>2. q # Null
      BY <2>3, MarksApart
    <3>. QED  BY <2>7, <3>1, <3>2 DEF OnMap
  <2>9. \A p, r \in Objects : SameChain(h, p, r) <=> SameChain(g, p, r)
    BY <2>7 DEF SameChain
  <2>10. \A p \in Objects : g.bl[p].x \in Cells =>
           FirstOf(h, p) = IF q = bl_head /\ SameChain(g, p, o) THEN n ELSE FirstOf(g, p)
    BY <2>7, ChainIs, PosIs DEF FirstOf, SameChain
  <2>11. LinksAgree(h)
    <3>1. SUFFICES ASSUME NEW p \in Objects, OnMap(h, p)
          PROVE  /\ h.bl[p].x \in Cells
                 /\ h.bl[p].prev = bl_head <=> FirstOf(h, p) = p
                 /\ h.bl[p].prev # bl_head =>
                      /\ OnMap(h, h.bl[p].prev) /\ SameChain(h, h.bl[p].prev, p)
                      /\ h.bl[h.bl[p].prev].next = p
                 /\ h.bl[p].next # Null =>
                      /\ OnMap(h, h.bl[p].next) /\ SameChain(h, h.bl[p].next, p)
                      /\ h.bl[h.bl[p].next].prev = p
      BY DEF LinksAgree
    <3>2. /\ p # o /\ OnMap(g, p) /\ g.bl[p].x \in Cells
          /\ g.bl[p].prev = bl_head <=> FirstOf(g, p) = p
          /\ g.bl[p].prev # bl_head =>
               /\ OnMap(g, g.bl[p].prev) /\ SameChain(g, g.bl[p].prev, p)
               /\ g.bl[g.bl[p].prev].next = p
          /\ g.bl[p].next # Null =>
               /\ OnMap(g, g.bl[p].next) /\ SameChain(g, g.bl[p].next, p)
               /\ g.bl[g.bl[p].next].prev = p
      BY <2>8, <3>1 DEF Sound, LinksAgree
    <3>3. g.bl[p].prev \in Objects \cup {bl_head} /\ g.bl[p].next \in Objects \cup {Null}
      BY <1>1, <3>2, LinksAre DEF OnMap
    <3>4. h.bl[p].x \in Cells
      BY <2>7, <3>2
    <3>5. h.bl[p].prev = bl_head <=> FirstOf(h, p) = p
      <4>1. CASE p = n
        <5>1. SameChain(g, p, o) /\ g.bl[p].prev = o /\ h.bl[p].prev = q
          BY <2>4, <2>7, <3>2, <4>1, MarksApart
        <5>2. FirstOf(g, p) # p
          BY <3>2, <5>1, MarksApart
        <5>3. q = bl_head => FirstOf(h, p) = p
          BY <2>10, <3>2, <4>1, <5>1
        <5>4. q # bl_head => FirstOf(h, p) # p
          BY <2>10, <3>2, <5>2
        <5>. QED  BY <5>1, <5>3, <5>4
      <4>2. CASE p # n
        <5>1. h.bl[p].prev = g.bl[p].prev
          BY <2>7, <3>2, <4>2
        <5>2. q = bl_head /\ SameChain(g, p, o) => FirstOf(g, p) = o
          BY <2>4 DEF SameChain, FirstOf
        <5>3. CASE q = bl_head /\ SameChain(g, p, o)
          BY <2>10, <3>2, <4>2, <5>1, <5>2, <5>3
        <5>4. CASE ~(q = bl_head /\ SameChain(g, p, o))
          BY <2>10, <3>2, <5>1, <5>4
        <5>. QED  BY <5>3, <5>4
      <4>. QED  BY <4>1, <4>2
    <3>6. ASSUME h.bl[p].prev # bl_head
          PROVE  /\ OnMap(h, h.bl[p].prev) /\ SameChain(h, h.bl[p].prev, p)
                 /\ h.bl[h.bl[p].prev].next = p
      <4>1. CASE p = n
        <5>1. SameChain(g, p, o) /\ h.bl[p].prev = q /\ q \in Objects
          BY <2>4, <2>7, <3>2, <3>6, <4>1, MarksApart
        <5>2. OnMap(g, q) /\ SameChain(g, q, o) /\ h.bl[q].next = n
          BY <2>4, <2>5, <2>7, <5>1, MarksApart
        <5>3. SameChain(g, q, p)
          BY <5>1, <5>2 DEF SameChain
        <5>. QED  BY <2>5, <2>8, <2>9, <4>1, <5>1, <5>2, <5>3
      <4>2. CASE p # n
        <5>1. PICK r \in Objects : r = g.bl[p].prev /\ h.bl[p].prev = r
          BY <2>7, <3>2, <3>3, <3>6, <4>2
        <5>2. OnMap(g, r) /\ SameChain(g, r, p) /\ g.bl[r].next = p
          BY <3>2, <5>1, MarksApart
        <5>3. r # o /\ r # q
          BY <2>2, <2>4, <3>2, <4>2, <5>1, <5>2, MarksApart
        <5>. QED  BY <2>7, <2>8, <2>9, <5>1, <5>2, <5>3
      <4>. QED  BY <4>1, <4>2
    <3>7. ASSUME h.bl[p].next # Null
          PROVE  /\ OnMap(h, h.bl[p].next) /\ SameChain(h, h.bl[p].next, p)
                 /\ h.bl[h.bl[p].next].prev = p
      <4>1. CASE p = q
        <5>1. SameChain(g, p, o) /\ h.bl[p].next = n /\ n \in Objects
          BY <2>4, <2>7, <3>2, <3>7, <4>1, MarksApart
        <5>2. OnMap(g, n) /\ SameChain(g, n, o) /\ h.bl[n].prev = q
          BY <2>4, <2>5, <2>7, <5>1, MarksApart
        <5>3. SameChain(g, n, p)
          BY <5>1, <5>2 DEF SameChain
        <5>. QED  BY <2>5, <2>8, <2>9, <4>1, <5>1, <5>2, <5>3
      <4>2. CASE p # q
        <5>1. PICK r \in Objects : r = g.bl[p].next /\ h.bl[p].next = r
          BY <2>7, <3>2, <3>3, <3>7, <4>2
        <5>2. OnMap(g, r) /\ SameChain(g, r, p) /\ g.bl[r].prev = p
          BY <3>2, <5>1, MarksApart
        <5>3. r # o /\ r # n
          BY <2>3, <2>4, <3>2, <4>2, <5>1, <5>2, MarksApart
        <5>. QED  BY <2>7, <2>8, <2>9, <5>1, <5>2, <5>3
      <4>. QED  BY <4>1, <4>2
    <3>. QED  BY <3>4, <3>5, <3>6, <3>7
  <2>12. FirstStands(h)
    <3>1. SUFFICES ASSUME NEW c \in Chains, NEW pos \in Blocks, h.block[c][pos] # Null
          PROVE  /\ OnMap(h, h.block[c][pos]) /\ ChainOf(h.block[c][pos]) = c
                 /\ PosOf(h.bl[h.block[c][pos]].x) = pos
      BY DEF FirstStands
    <3>2. CASE q = bl_head /\ c = ChainOf(o) /\ pos = PosOf(g.bl[o].x)
      <4>1. h.block[c][pos] = n /\ n \in Objects /\ n # Null
        BY <2>7, <3>1, <3>2
      <4>2. OnMap(g, n) /\ SameChain(g, n, o)
        BY <2>4, <4>1
      <4>. QED  BY <2>5, <2>7, <2>8, <3>2, <4>1, <4>2 DEF SameChain
    <3>3. CASE ~(q = bl_head /\ c = ChainOf(o) /\ pos = PosOf(g.bl[o].x))
      <4>1. PICK r \in Objects : r = g.block[c][pos] /\ h.block[c][pos] = r
        BY <1>1, <2>7, <3>1, <3>3 DEF Grids
      <4>2. OnMap(g, r) /\ ChainOf(r) = c /\ PosOf(g.bl[r].x) = pos
        BY <4>1, MarksApart DEF Sound, FirstStands
      <4>3. r # o
        <5>1. r = o => FirstOf(g, o) = o /\ c = ChainOf(o) /\ pos = PosOf(g.bl[o].x)
          BY <4>1, <4>2 DEF FirstOf
        <5>. QED  BY <2>4, <3>3, <5>1
      <4>. QED  BY <2>7, <2>8, <4>1, <4>2, <4>3
    <3>. QED  BY <3>2, <3>3
  <2>13. OffIsLoose(h)
    <3>1. SUFFICES ASSUME NEW p \in Objects, ~OnMap(h, p) PROVE h.bl[p].next = Null
      BY DEF OffIsLoose
    <3>2. CASE p = o
      BY <2>7, <3>2
    <3>3. CASE p # o
      <4>1. ~OnMap(g, p) /\ g.bl[p].next = Null
        BY <2>8, <3>1, <3>3 DEF Sound, OffIsLoose
      <4>2. p # q
        BY <2>4, <4>1, MarksApart
      <4>. QED  BY <2>7, <3>3, <4>1, <4>2
    <3>. QED  BY <3>2, <3>3
  <2>14. Ranked(h)
    <3>0. PICK b \in Nat : \E rank : Falls(g, b, rank)
      BY DEF Sound, Ranked
    <3>1. PICK rank : Falls(g, b, rank)
      BY <3>0
    <3>2. rank \in [Objects -> 0..b]
      BY <3>1 DEF Falls
    <3>3. ASSUME NEW p \in Objects, h.bl[p].next # Null PROVE rank[h.bl[p].next] < rank[p]
      <4>1. CASE p = q
        <5>1. n \in Objects /\ h.bl[p].next = n
          BY <2>5, <2>7, <3>3, <4>1
        <5>2. rank[n] < rank[o] /\ rank[o] < rank[p]
          BY <2>2, <2>4, <3>1, <4>1, <5>1, MarksApart DEF Falls
        <5>3. rank[n] \in Int /\ rank[o] \in Int /\ rank[p] \in Int
          BY <3>2, <5>1
        <5>. QED  BY <5>1, <5>2, <5>3
      <4>2. CASE p # q
        <5>1. p # o /\ h.bl[p].next = g.bl[p].next
          BY <2>7, <3>3, <4>2
        <5>. QED  BY <3>1, <3>3, <5>1 DEF Falls
      <4>. QED  BY <4>1, <4>2
    <3>4. Falls(h, b, rank)
      BY <3>2, <3>3 DEF Falls
    <3>. QED  BY <3>4 DEF Ranked
  <2>15. Counted(h)
    <3>1. IsFiniteSet(PlayersOn(g)) /\ g.user = Cardinality(PlayersOn(g))
      <4>1. PlayersOn(g) \subseteq Pcs
        BY DEF PlayersOn
      <4>. QED  BY <4>1, MarksApart, FS_Subset DEF Sound, Counted
    <3>2. CASE o \in Pcs
      <4>1. PlayersOn(h) = PlayersOn(g) \ {o} /\ o \in PlayersOn(g)
        BY <1>3, <2>8, <3>2 DEF PlayersOn, Objects
      <4>2. Cardinality(PlayersOn(h)) = Cardinality(PlayersOn(g)) - 1
        BY <3>1, <4>1, FS_RemoveElement
      <4>. QED  BY <2>7, <3>1, <3>2, <4>2 DEF Counted
    <3>3. CASE o \notin Pcs
      <4>1. PlayersOn(h) = PlayersOn(g)
        BY <2>8, <3>3 DEF PlayersOn, Objects
      <4>. QED  BY <2>7, <3>1, <3>3, <4>1 DEF Counted
    <3>. QED  BY <3>2, <3>3
  <2>. QED  BY <2>7, <2>8, <2>11, <2>12, <2>13, <2>14, <2>15 DEF Sound
<1>. QED  BY <1>2, <1>3

\* The cell of an object may change while it is off the map, and within its
\* block.
LEMMA AtSound ==
  ASSUME NEW g, Sound(g), NEW o \in Objects, NEW x \in 0..XS,
         OnMap(g, o) => x \in Cells /\ PosOf(g.bl[o].x) = PosOf(x)
  PROVE  /\ Sound(At(g, o, x)) /\ At(g, o, x).bl[o].x = x
         /\ \A p \in Objects : OnMap(At(g, o, x), p) <=> OnMap(g, p)
<1>1. g \in Grids
  BY DEF Sound
<1>2. PICK h \in Grids :
        /\ h = At(g, o, x)
        /\ h.bl[o].x = x /\ \A p \in Objects \ {o} : h.bl[p].x = g.bl[p].x
        /\ \A p \in Objects : h.bl[p].next = g.bl[p].next /\ h.bl[p].prev = g.bl[p].prev
        /\ h.block = g.block /\ h.user = g.user
  BY <1>1, AtIs
<1>3. \A p \in Objects : OnMap(h, p) <=> OnMap(g, p)
  BY <1>2 DEF OnMap
<1>4. \A p \in Objects : OnMap(g, p) => PosOf(h.bl[p].x) = PosOf(g.bl[p].x)
  BY <1>2
<1>5. LinksAgree(h)
  <2>1. SUFFICES ASSUME NEW p \in Objects, OnMap(h, p)
        PROVE  /\ h.bl[p].x \in Cells
               /\ h.bl[p].prev = bl_head <=> FirstOf(h, p) = p
               /\ h.bl[p].prev # bl_head =>
                    /\ OnMap(h, h.bl[p].prev) /\ SameChain(h, h.bl[p].prev, p)
                    /\ h.bl[h.bl[p].prev].next = p
               /\ h.bl[p].next # Null =>
                    /\ OnMap(h, h.bl[p].next) /\ SameChain(h, h.bl[p].next, p)
                    /\ h.bl[h.bl[p].next].prev = p
    BY DEF LinksAgree
  <2>2. /\ OnMap(g, p) /\ g.bl[p].x \in Cells
        /\ g.bl[p].prev = bl_head <=> FirstOf(g, p) = p
        /\ g.bl[p].prev # bl_head =>
             /\ OnMap(g, g.bl[p].prev) /\ SameChain(g, g.bl[p].prev, p)
             /\ g.bl[g.bl[p].prev].next = p
        /\ g.bl[p].next # Null =>
             /\ OnMap(g, g.bl[p].next) /\ SameChain(g, g.bl[p].next, p)
             /\ g.bl[g.bl[p].next].prev = p
    BY <1>3, <2>1 DEF Sound, LinksAgree
  <2>3. g.bl[p].prev \in Objects \cup {bl_head} /\ g.bl[p].next \in Objects \cup {Null}
    BY <1>1, <2>2, LinksAre DEF OnMap
  <2>4. h.bl[p].x \in Cells
    BY <1>2, <2>2
  <2>5. FirstOf(h, p) = FirstOf(g, p)
    BY <1>2, <1>4, <2>2 DEF FirstOf
  <2>6. ASSUME NEW r \in Objects, OnMap(g, r), SameChain(g, r, p) PROVE SameChain(h, r, p)
    BY <1>4, <2>2, <2>6 DEF SameChain
  <2>7. h.bl[p].prev # bl_head =>
             /\ OnMap(h, h.bl[p].prev) /\ SameChain(h, h.bl[p].prev, p)
             /\ h.bl[h.bl[p].prev].next = p
    BY <1>2, <1>3, <2>2, <2>3, <2>6
  <2>8. h.bl[p].next # Null =>
             /\ OnMap(h, h.bl[p].next) /\ SameChain(h, h.bl[p].next, p)
             /\ h.bl[h.bl[p].next].prev = p
    BY <1>2, <1>3, <2>2, <2>3, <2>6
  <2>. QED  BY <1>2, <2>2, <2>4, <2>5, <2>7, <2>8
<1>6. FirstStands(h)
  <2>1. SUFFICES ASSUME NEW c \in Chains, NEW pos \in Blocks, h.block[c][pos] # Null
        PROVE  /\ OnMap(h, h.block[c][pos]) /\ ChainOf(h.block[c][pos]) = c
               /\ PosOf(h.bl[h.block[c][pos]].x) = pos
    BY DEF FirstStands
  <2>2. PICK r \in Objects : r = g.block[c][pos] /\ h.block[c][pos] = r
    BY <1>1, <1>2, <2>1 DEF Grids
  <2>3. OnMap(g, r) /\ ChainOf(r) = c /\ PosOf(g.bl[r].x) = pos
    BY <2>2, MarksApart DEF Sound, FirstStands
  <2>. QED  BY <1>3, <1>4, <2>2, <2>3
<1>7. OffIsLoose(h)
  BY <1>2, <1>3 DEF Sound, OffIsLoose
<1>8. Ranked(h)
  <2>0. PICK b \in Nat : \E rank : Falls(g, b, rank)
    BY DEF Sound, Ranked
  <2>1. PICK rank : Falls(g, b, rank)
    BY <2>0
  <2>2. Falls(h, b, rank)
    BY <1>2, <2>1 DEF Falls
  <2>. QED  BY <2>2 DEF Ranked
<1>9. Counted(h)
  <2>1. PlayersOn(h) = PlayersOn(g)
    BY <1>3 DEF PlayersOn, Objects
  <2>. QED  BY <1>2, <2>1 DEF Sound, Counted
<1>. QED  BY <1>2, <1>3, <1>5, <1>6, <1>7, <1>8, <1>9 DEF Sound

\* Taken off, set down, and put on the map again, if the cell is on it.
LEMMA PlaceSound ==
  ASSUME NEW g, Sound(g), NEW o \in Objects, NEW x \in 0..XS, ~OnMap(g, o)
  PROVE  /\ Sound(map_addblock(At(g, o, x), o))
         /\ \A p \in Objects \ {o} :
              OnMap(map_addblock(At(g, o, x), o), p) <=> OnMap(g, p)
<1>1. PICK h : /\ h = At(g, o, x) /\ Sound(h) /\ h.bl[o].x = x
              /\ \A p \in Objects : OnMap(h, p) <=> OnMap(g, p)
  BY AtSound
<1>2. CASE x \in Cells
  BY <1>1, <1>2, AddSound
<1>3. CASE x \notin Cells
  <2>1. map_addblock(h, o) = h
    BY <1>1, <1>3 DEF map_addblock
  <2>. QED  BY <1>1, <2>1
<1>. QED  BY <1>2, <1>3

\* A move within the map or off it.
LEMMA MoveSound ==
  ASSUME NEW g, Sound(g), NEW o \in Objects, NEW x \in 0..XS
  PROVE  /\ Sound(map_moveblock(g, o, x))
         /\ \A p \in Objects \ {o} : OnMap(map_moveblock(g, o, x), p) <=> OnMap(g, p)
<1>1. PICK y : y = (IF x >= XS THEN XS - 1 ELSE x) /\ y \in Cells /\ y \in 0..XS
  BY MarksApart DEF Cells
<1>2. CASE OnMap(g, o) /\ PosOf(g.bl[o].x) # PosOf(y)
  <2>1. map_moveblock(g, o, x) = map_addblock(At(map_delblock(g, o), o, y), o)
    BY <1>1, <1>2 DEF map_moveblock
  <2>2. PICK d : /\ d = map_delblock(g, o) /\ Sound(d)
                 /\ \A p \in Objects : OnMap(d, p) <=> OnMap(g, p) /\ p # o
    BY DelSound
  <2>. QED  BY <1>1, <2>1, <2>2, PlaceSound
<1>3. CASE ~(OnMap(g, o) /\ PosOf(g.bl[o].x) # PosOf(y))
  <2>1. map_moveblock(g, o, x) = At(g, o, y)
    BY <1>1, <1>3 DEF map_moveblock
  <2>. QED  BY <1>1, <1>3, <2>1, AtSound
<1>. QED  BY <1>2, <1>3

\* The chains of the state.
LEMMA BecomesIs ==
  ASSUME NEW g, Sound(g), Becomes(g)
  PROVE  Grid' = g
<1>1. g \in Grids
  BY DEF Sound
<1>2. g = [bl |-> g.bl, block |-> g.block, user |-> g.user]
  BY <1>1 DEF Grids
<1>. QED  BY <1>2 DEF Becomes, Grid

\* A sound grid in which the freed are off the map.
LEMMA BecomesKeeps ==
  ASSUME NEW g, Sound(g), Becomes(g), freed' \subseteq Objects, dead' \subseteq Mobs,
         dead' \cap freed' = {},
         \A o \in freed' : ~OnMap(g, o)
  PROVE  ChainsInv'
<1>1. Grid' = g
  BY BecomesIs
<1>. QED  BY <1>1 DEF ChainsInv

\* In the beginning nothing is on the map.
LEMMA ChainsInitHold == GridInit => ChainsInv
<1>. SUFFICES ASSUME GridInit PROVE ChainsInv
  OBVIOUS
<1>1. /\ \A o \in Objects : bl[o] = OffMap
      /\ bl = [o \in Objects |-> OffMap]
      /\ block = [c \in Chains |-> [pos \in Blocks |-> Null]]
      /\ \A c \in Chains, pos \in Blocks : block[c][pos] = Null
      /\ user = 0 /\ freed = Objects /\ dead = {}
  BY DEF GridInit
<1>2. OffMap \in Links /\ OffMap.prev = Null /\ OffMap.next = Null
  BY MarksApart DEF OffMap, Links
<1>3. Grid \in Grids /\ Grid.bl = bl /\ Grid.block = block /\ Grid.user = user
  <2>1. bl \in [Objects -> Links]
    BY <1>1, <1>2
  <2>2. block \in [Chains -> [Blocks -> Objects \cup {Null}]]
    BY <1>1
  <2>. QED  BY <1>1, <2>1, <2>2 DEF Grid, Grids
<1>. DEFINE g == Grid
<1>. HIDE DEF g
<1>4. \A o \in Objects : ~OnMap(g, o) /\ g.bl[o].next = Null
  BY <1>1, <1>2, <1>3 DEF OnMap, g
<1>5. g \in Grids /\ LinksAgree(g) /\ FirstStands(g) /\ OffIsLoose(g)
  BY <1>1, <1>3, <1>4 DEF LinksAgree, FirstStands, OffIsLoose, g
<1>6. Ranked(g)
  <2>1. PICK rank : rank = [o \in Objects |-> 0]
    OBVIOUS
  <2>2. Falls(g, 0, rank)
    BY <1>4, <2>1 DEF Falls
  <2>. QED  BY <2>2 DEF Ranked
<1>7. Counted(g)
  <2>1. PlayersOn(g) = {}
    BY <1>4 DEF PlayersOn, Objects
  <2>2. g.user = 0
    BY <1>1, <1>3 DEF g
  <2>. QED  BY <2>1, <2>2, FS_EmptySet DEF Counted
<1>. QED  BY <1>1, <1>4, <1>5, <1>6, <1>7 DEF ChainsInv, Sound, g

\* Every event and every call of a loop keeps the chains.
LEMMA ChainsStepHolds == ChainsInv /\ [GridNext]_gridVars => ChainsInv'
<1>. SUFFICES ASSUME ChainsInv, [GridNext]_gridVars PROVE ChainsInv'
  OBVIOUS
<1>0. PICK g : g = Grid /\ Sound(g) /\ \A o \in freed : ~OnMap(g, o)
  BY DEF ChainsInv
<1>10. freed \subseteq Objects /\ dead \subseteq Mobs /\ dead \cap freed = {}
  BY DEF ChainsInv
<1>11. ASSUME UNCHANGED <<chainVars, freed, dead>> PROVE ChainsInv'
  <2>1. Grid' = Grid /\ freed' = freed /\ dead' = dead
    BY <1>11 DEF chainVars, Grid
  <2>. QED  BY <2>1 DEF ChainsInv
<1>1. ASSUME NEW o \in Objects, NEW x \in Cells, Enter(o, x) PROVE ChainsInv'
  <2>1. x \in 0..XS /\ ~OnMap(g, o) /\ Becomes(map_addblock(At(g, o, x), o))
        /\ freed' = freed \ {o} /\ dead' \subseteq Mobs /\ dead' \cap freed' = {}
    BY <1>0, <1>1, <1>10, PosIs DEF Enter
  <2>2. PICK h : /\ h = map_addblock(At(g, o, x), o) /\ Sound(h)
                /\ \A p \in Objects \ {o} : OnMap(h, p) <=> OnMap(g, p)
    BY <1>0, <2>1, PlaceSound
  <2>4. \A p \in freed' : ~OnMap(h, p)
    BY <1>0, <1>10, <2>1, <2>2
  <2>. QED  BY <1>10, <2>1, <2>2, <2>4, BecomesKeeps
<1>2. ASSUME NEW o \in Objects, Leave(o) PROVE ChainsInv'
  <2>1. PICK d : /\ d = map_delblock(g, o) /\ Sound(d)
                /\ \A p \in Objects : OnMap(d, p) <=> OnMap(g, p) /\ p # o
    BY <1>0, DelSound
  <2>2. Becomes(At(d, o, 0)) /\ freed' = freed \cup {o} /\ dead' \subseteq Mobs /\ dead' \cap freed' = {}
    BY <1>0, <1>2, <1>10, <2>1 DEF Leave
  <2>3. 0 \in 0..XS
    BY MarksApart
  <2>4. PICK h : /\ h = At(d, o, 0) /\ Sound(h)
                /\ \A p \in Objects : OnMap(h, p) <=> OnMap(d, p)
    BY <2>1, <2>3, AtSound
  <2>5. \A p \in freed' : ~OnMap(h, p)
    BY <1>0, <1>10, <2>1, <2>2, <2>4
  <2>. QED  BY <1>10, <2>2, <2>4, <2>5, BecomesKeeps
<1>3. ASSUME NEW o \in Objects, NEW x \in 0..XS, Move(o, x) PROVE ChainsInv'
  <2>1. PICK h : /\ h = map_moveblock(g, o, x) /\ Sound(h)
                /\ \A p \in Objects \ {o} : OnMap(h, p) <=> OnMap(g, p)
    BY <1>0, MoveSound
  <2>2. Becomes(h) /\ freed' = freed /\ dead' = dead /\ o \notin freed
    BY <1>0, <1>3, <2>1 DEF Move
  <2>4. \A p \in freed' : ~OnMap(h, p)
    BY <1>0, <1>10, <2>1, <2>2
  <2>. QED  BY <1>10, <2>1, <2>2, <2>4, BecomesKeeps
<1>4. ASSUME NEW o \in Objects, NEW x \in 0..XS, Warp(o, x) PROVE ChainsInv'
  <2>1. PICK d : /\ d = map_delblock(g, o) /\ Sound(d)
                /\ \A p \in Objects : OnMap(d, p) <=> OnMap(g, p) /\ p # o
    BY <1>0, DelSound
  <2>2. PICK h : /\ h = map_addblock(At(d, o, x), o) /\ Sound(h)
                /\ \A p \in Objects \ {o} : OnMap(h, p) <=> OnMap(d, p)
    BY <2>1, PlaceSound
  <2>3. Becomes(h) /\ freed' = freed /\ dead' = dead /\ o \notin freed
    BY <1>0, <1>4, <2>1, <2>2 DEF Warp
  <2>4. \A p \in freed' : ~OnMap(h, p)
    BY <1>0, <1>10, <2>1, <2>2, <2>3
  <2>. QED  BY <1>10, <2>2, <2>3, <2>4, BecomesKeeps
<1>5. ASSUME NEW o \in Objects, Die(o) PROVE ChainsInv'
  <2>1. Grid' = Grid /\ freed' = freed /\ dead' \subseteq Mobs /\ dead' \cap freed' = {}
    BY <1>5, <1>10 DEF Die, chainVars, Grid
  <2>. QED  BY <2>1 DEF ChainsInv
<1>6. ASSUME NEW o \in Objects, NEW x \in Cells, Respawn(o, x) PROVE ChainsInv'
  <2>1. x \in 0..XS
    BY PosIs
  <2>2. PICK h : /\ h = map_moveblock(g, o, x) /\ Sound(h)
                /\ \A p \in Objects \ {o} : OnMap(h, p) <=> OnMap(g, p)
    BY <1>0, <2>1, MoveSound
  <2>3. Becomes(h) /\ freed' = freed /\ dead' \subseteq Mobs /\ dead' \cap freed' = {} /\ o \notin freed
    BY <1>0, <1>6, <1>10, <2>2 DEF Respawn
  <2>4. \A p \in freed' : ~OnMap(h, p)
    BY <1>0, <1>10, <2>2, <2>3
  <2>5. freed' \subseteq Objects
    BY <1>10, <2>3
  <2>. QED  BY ONLY <2>2, <2>3, <2>4, <2>5, BecomesKeeps
<1>7. CASE map_foreachinarea \/ map_respawnmobs
  <2>1. map_foreachinarea => UNCHANGED <<chainVars, freed, dead>>
    BY DEF map_foreachinarea, BeginLoop
  <2>2. map_respawnmobs => UNCHANGED <<chainVars, freed, dead>>
    BY DEF map_respawnmobs, BeginLoop
  <2>. QED  BY <1>7, <1>11, <2>1, <2>2
<1>8. CASE NextEntry \/ Return \/ EndLoop
  BY <1>8, <1>11 DEF NextEntry, Return, EndLoop
<1>9. CASE UNCHANGED gridVars
  BY <1>9, <1>11 DEF gridVars, chainVars
<1>. QED  BY <1>1, <1>2, <1>3, <1>4, <1>5, <1>6, <1>7, <1>8, <1>9 DEF GridNext

----------------------------------------------------------------------------
(* What following a chain comes to.                                        *)

\* Of numbers there is a least one.
LEMMA LeastIsThere ==
  ASSUME NEW S, S \subseteq Nat, S # {}
  PROVE  \E x \in S : \A y \in S : x <= y
<1>1. PICK x \in S : \A y \in S : ~(<<y, x>> \in OpToRel(<, Nat))
  BY NatLessThanWellFounded, WFMin
<1>2. ASSUME NEW y \in S PROVE x <= y
  <2>1. x \in Nat /\ y \in Nat
    OBVIOUS
  <2>2. ~(y < x)
    BY <1>1, <2>1 DEF OpToRel
  <2>. QED  BY <2>1, <2>2
<1>. QED  BY <1>2

\* What holds of an object if it holds of the next one holds of all.
LEMMA AlongChains ==
  ASSUME NEW g, Sound(g), NEW S, S \subseteq Objects,
         \A o \in Objects : g.bl[o].next = Null \/ g.bl[o].next \in S => o \in S
  PROVE  S = Objects
<1>0. PICK b \in Nat : \E rank : Falls(g, b, rank)
  BY DEF Sound, Ranked
<1>1. PICK rank : Falls(g, b, rank)
  BY <1>0
<1>2. rank \in [Objects -> 0..b]
  BY <1>1 DEF Falls
<1>3. SUFFICES ASSUME NEW z \in Objects \ S PROVE FALSE
  OBVIOUS
<1>. DEFINE R == {rank[o] : o \in Objects \ S}
<1>4. R \subseteq Nat /\ R # {}
  BY <1>2
<1>5. PICK m \in R : \A y \in R : m <= y
  <2>. HIDE DEF R
  <2>. QED  BY <1>4, LeastIsThere
<1>6. PICK o \in Objects \ S : m = rank[o]
  OBVIOUS
<1>7. g.bl[o].next # Null /\ g.bl[o].next \notin S
  BY <1>6
<1>8. PICK n \in Objects : n = g.bl[o].next
  BY <1>7, LinksAre DEF Sound
<1>9. rank[n] < rank[o] /\ rank[n] \in Int /\ rank[o] \in Int
  BY <1>1, <1>2, <1>6, <1>7, <1>8 DEF Falls
<1>10. rank[n] \in R
  BY <1>7, <1>8
<1>. HIDE DEF R
<1>11. m <= rank[n]
  BY <1>5, <1>10
<1>. QED  BY <1>6, <1>9, <1>11

\* What holds of an object if it holds of all that name it as their next holds
\* of all.
LEMMA BackAlongChains ==
  ASSUME NEW g, Sound(g), NEW S, S \subseteq Objects,
         \A o \in Objects : (\A p \in Objects : g.bl[p].next = o => p \in S) => o \in S
  PROVE  S = Objects
<1>0. PICK b \in Nat : \E rank : Falls(g, b, rank)
  BY DEF Sound, Ranked
<1>1. PICK rank : Falls(g, b, rank)
  BY <1>0
<1>2. rank \in [Objects -> 0..b]
  BY <1>1 DEF Falls
<1>3. SUFFICES ASSUME NEW z \in Objects \ S PROVE FALSE
  OBVIOUS
<1>. DEFINE R == {b - rank[o] : o \in Objects \ S}
<1>4. R \subseteq Nat /\ R # {}
  <2>1. \A o \in Objects : b - rank[o] \in Nat
    BY <1>2
  <2>. QED  BY <2>1
<1>5. PICK m \in R : \A y \in R : m <= y
  <2>. HIDE DEF R
  <2>. QED  BY <1>4, LeastIsThere
<1>6. PICK o \in Objects \ S : m = b - rank[o]
  OBVIOUS
<1>7. PICK p \in Objects : g.bl[p].next = o /\ p \notin S
  BY <1>6
<1>9. rank[o] < rank[p] /\ rank[p] \in Int /\ rank[o] \in Int
  BY <1>1, <1>2, <1>6, <1>7, MarksApart DEF Falls
<1>10. b - rank[p] \in R
  BY <1>7
<1>. HIDE DEF R
<1>11. m <= b - rank[p]
  BY <1>5, <1>10
<1>. QED  BY <1>6, <1>9, <1>11

\* A function that follows the chains from every object, as ChainSeq does.
Onward(f, g, o) == IF o = Null THEN <<>> ELSE <<o>> \o f[g.bl[o].next]
Walks(f, g) == f = [o \in Objects \cup {Null} |-> Onward(f, g, o)]

\* What a list and one before it have in them.
LEMMA ConsIs ==
  ASSUME NEW S, NEW o \in S, NEW s \in Seq(S)
  PROVE  <<o>> \o s \in Seq(S) /\ ToSet(<<o>> \o s) = {o} \cup ToSet(s)
<1>1. <<o>> \o s \in Seq(S) /\ Len(<<o>> \o s) = Len(s) + 1 /\ Len(s) \in Nat
  OBVIOUS
<1>2. DOMAIN (<<o>> \o s) = 1..Len(s) + 1 /\ DOMAIN s = 1..Len(s)
  BY <1>1
<1>3. (<<o>> \o s)[1] = o /\ \A i \in 1..Len(s) : (<<o>> \o s)[i + 1] = s[i]
  OBVIOUS
<1>4. PICK t : t = <<o>> \o s
  OBVIOUS
<1>5. \A i \in 1..Len(s) + 1 : i = 1 \/ \E j \in 1..Len(s) : i = j + 1
  <2>1. \A i \in 1..Len(s) + 1 : i = 1 \/ (i - 1 \in 1..Len(s) /\ i = (i - 1) + 1)
    BY <1>1
  <2>. QED  BY <2>1
<1>6. \A j \in 1..Len(s) : j + 1 \in 1..Len(s) + 1
  BY <1>1
<1>7. 1 \in 1..Len(s) + 1
  BY <1>1
<1>8. ToSet(t) = {t[i] : i \in 1..Len(s) + 1} /\ ToSet(s) = {s[i] : i \in 1..Len(s)}
  BY <1>2, <1>4 DEF ToSet
<1>9. ToSet(t) = {o} \cup ToSet(s)
  <2>1. \A j \in 1..Len(s) : t[j + 1] = s[j]
    BY <1>3, <1>4
  <2>2. t[1] = o
    BY <1>3, <1>4
  <2>3. ASSUME NEW x \in ToSet(t) PROVE x \in {o} \cup ToSet(s)
    <3>1. PICK i \in 1..Len(s) + 1 : x = t[i]
      BY <1>8
    <3>2. CASE i = 1
      BY <2>2, <3>1, <3>2
    <3>3. CASE i # 1
      <4>1. PICK j \in 1..Len(s) : i = j + 1
        BY <1>5, <3>3
      <4>. QED  BY <1>8, <2>1, <3>1, <4>1
    <3>. QED  BY <3>2, <3>3
  <2>4. ASSUME NEW x \in {o} \cup ToSet(s) PROVE x \in ToSet(t)
    <3>1. CASE x = o
      BY <1>7, <1>8, <2>2, <3>1
    <3>2. CASE x \in ToSet(s)
      <4>1. PICK j \in 1..Len(s) : x = s[j]
        BY <1>8, <3>2
      <4>. QED  BY <1>6, <1>8, <2>1, <4>1
    <3>. QED  BY <3>1, <3>2
  <2>. QED  BY <2>3, <2>4
<1>. QED  BY <1>1, <1>4, <1>9

\* There is such a function.
LEMMA WalkExists ==
  ASSUME NEW g, Sound(g)
  PROVE  \E f : Walks(f, g)
<1>0. PICK b \in Nat : \E rank : Falls(g, b, rank)
  BY DEF Sound, Ranked
<1>1. PICK rank : Falls(g, b, rank)
  BY <1>0
<1>2. rank \in [Objects -> 0..b]
  BY <1>1 DEF Falls
<1>. DEFINE D == Objects \cup {Null}
            Upto(f, n) == /\ f \in [D -> Seq(Objects)]
                          /\ \A o \in D : (o = Null \/ rank[o] < n) => f[o] = Onward(f, g, o)
            Bad == {n \in Nat : ~\E f : Upto(f, n)}
<1>3. \A o \in Objects : /\ g.bl[o].next \in D
                         /\ g.bl[o].next # Null => rank[g.bl[o].next] < rank[o]
                         /\ o # Null /\ rank[o] \in 0..b
  BY <1>1, <1>2, LinksAre, MarksApart DEF Sound, Falls
<1>4. \E f : Upto(f, 0)
  <2>1. PICK f : f = [o \in D |-> <<>>]
    OBVIOUS
  <2>2. f \in [D -> Seq(Objects)] /\ f[Null] = <<>>
    BY <2>1
  <2>3. ASSUME NEW o \in D, o = Null \/ rank[o] < 0 PROVE f[o] = Onward(f, g, o)
    <3>1. o = Null
      BY <1>3, <2>3
    <3>. QED  BY <2>2, <3>1 DEF Onward
  <2>4. Upto(f, 0)
    BY <2>2, <2>3
  <2>. QED  BY <2>4
<1>5. ASSUME NEW n \in Nat, NEW f, Upto(f, n) PROVE \E h : Upto(h, n + 1)
  <2>1. PICK h : h = [o \in D |-> IF o = Null \/ rank[o] < n + 1 THEN Onward(f, g, o) ELSE <<>>]
    OBVIOUS
  <2>2. f \in [D -> Seq(Objects)] /\ \A o \in D : (o = Null \/ rank[o] < n) => f[o] = Onward(f, g, o)
    BY <1>5
  <2>. HIDE DEF Upto
  <2>3. ASSUME NEW o \in D PROVE h[o] \in Seq(Objects)
    <3>1. CASE o = Null
      BY <2>1, <3>1 DEF Onward
    <3>2. CASE o # Null
      <4>1. f[g.bl[o].next] \in Seq(Objects) /\ o \in Objects
        BY <1>3, <2>2, <3>2
      <4>2. <<o>> \o f[g.bl[o].next] \in Seq(Objects)
        BY <4>1, ConsIs
      <4>. QED  BY <2>1, <3>2, <4>2 DEF Onward
    <3>. QED  BY <3>1, <3>2
  <2>4. h \in [D -> Seq(Objects)]
    BY <2>1, <2>3
  <2>5. ASSUME NEW o \in D, o = Null \/ rank[o] < n + 1 PROVE h[o] = Onward(h, g, o)
    <3>1. CASE o = Null
      BY <2>1, <3>1 DEF Onward
    <3>2. CASE o # Null
      <4>1. o \in Objects /\ g.bl[o].next \in D /\ h[o] = <<o>> \o f[g.bl[o].next]
        BY <1>3, <2>1, <2>5, <3>2 DEF Onward
      <4>2. g.bl[o].next = Null \/ rank[g.bl[o].next] < n
        <5>1. SUFFICES ASSUME g.bl[o].next # Null PROVE rank[g.bl[o].next] < n
          OBVIOUS
        <5>2. PICK q \in Objects : q = g.bl[o].next
          BY <4>1, <5>1
        <5>3. rank[q] < rank[o] /\ rank[q] \in Int /\ rank[o] \in Int /\ rank[o] < n + 1
          BY <1>3, <2>5, <3>2, <4>1, <5>1, <5>2
        <5>. QED  BY <5>2, <5>3
      <4>3. f[g.bl[o].next] = Onward(f, g, g.bl[o].next)
        BY <2>2, <4>1, <4>2
      <4>4. g.bl[o].next = Null \/ rank[g.bl[o].next] < n + 1
        <5>1. SUFFICES ASSUME g.bl[o].next # Null PROVE rank[g.bl[o].next] < n + 1
          OBVIOUS
        <5>2. PICK q \in Objects : q = g.bl[o].next
          BY <4>1, <5>1
        <5>3. rank[q] < n /\ rank[q] \in Int
          BY <1>3, <4>2, <5>1, <5>2
        <5>. QED  BY <5>2, <5>3
      <4>5. h[g.bl[o].next] = f[g.bl[o].next]
        BY <2>1, <4>1, <4>3, <4>4
      <4>. QED  BY <3>2, <4>1, <4>5 DEF Onward
    <3>. QED  BY <3>1, <3>2
  <2>6. Upto(h, n + 1)
    BY <2>4, <2>5 DEF Upto
  <2>. QED  BY <2>6
<1>6. Bad = {}
  <2>1. SUFFICES ASSUME Bad # {} PROVE FALSE
    OBVIOUS
  <2>2. PICK n \in Bad : \A y \in Bad : n <= y
    <3>1. Bad \subseteq Nat
      OBVIOUS
    <3>. HIDE DEF Bad
    <3>. QED  BY <2>1, <3>1, LeastIsThere
  <2>3. n \in Nat /\ ~\E f : Upto(f, n)
    OBVIOUS
  <2>. HIDE DEF Upto
  <2>4. n # 0
    BY <1>4, <2>3
  <2>5. n - 1 \in Nat /\ n = (n - 1) + 1
    BY <2>3, <2>4
  <2>6. ~\E f : Upto(f, n - 1)
    BY <1>5, <2>3, <2>5
  <2>7. n - 1 \in Bad
    BY <2>5, <2>6
  <2>. HIDE DEF Bad
  <2>. QED  BY <2>2, <2>3, <2>5, <2>7
<1>7. PICK f : Upto(f, b + 1)
  <2>1. b + 1 \in Nat
    OBVIOUS
  <2>. HIDE DEF Upto
  <2>. QED  BY <1>6, <2>1
<1>8. \A o \in D : f[o] = Onward(f, g, o)
  <2>1. \A o \in Objects : rank[o] < b + 1
    BY <1>2
  <2>. QED  BY <1>7, <2>1
<1>9. f = [o \in D |-> f[o]]
  BY <1>7
<1>. HIDE DEF Upto, Bad
<1>10. f = [o \in D |-> Onward(f, g, o)]
  BY <1>8, <1>9
<1>. QED  BY <1>10 DEF Walks

\* A walk from an object meets it and then what the walk from the next one meets.
LEMMA WalkIs ==
  ASSUME NEW g, Sound(g), NEW f, Walks(f, g)
  PROVE  /\ f[Null] = <<>>
         /\ \A o \in Objects : /\ f[o] \in Seq(Objects)
                               /\ ToSet(f[o]) = {o} \cup ToSet(f[g.bl[o].next])
<1>1. f[Null] = <<>> /\ \A o \in Objects : f[o] = <<o>> \o f[g.bl[o].next]
  BY MarksApart DEF Walks, Onward
<1>. DEFINE S == {o \in Objects : f[o] \in Seq(Objects)}
<1>2. \A o \in Objects : g.bl[o].next \in Objects \cup {Null}
  BY LinksAre DEF Sound
<1>3. ASSUME NEW o \in Objects, g.bl[o].next = Null \/ g.bl[o].next \in S
      PROVE  o \in S
  <2>1. f[g.bl[o].next] \in Seq(Objects)
    <3>1. CASE g.bl[o].next = Null
      <4>1. f[g.bl[o].next] = <<>>
        BY <1>1, <3>1
      <4>2. <<>> \in Seq(Objects)
        OBVIOUS
      <4>. QED  BY <4>1, <4>2
    <3>2. CASE g.bl[o].next \in S
      BY <3>2
    <3>. QED  BY <1>3, <3>1, <3>2
  <2>2. <<o>> \o f[g.bl[o].next] \in Seq(Objects)
    BY <2>1, ConsIs
  <2>. QED  BY <1>1, <2>2
<1>4. S = Objects
  <2>1. S \subseteq Objects
    OBVIOUS
  <2>. HIDE DEF S
  <2>. QED  BY <1>3, <2>1, AlongChains
<1>5. \A o \in Objects : f[o] \in Seq(Objects)
  BY <1>4
<1>6. ASSUME NEW o \in Objects PROVE ToSet(f[o]) = {o} \cup ToSet(f[g.bl[o].next])
  <2>1. f[g.bl[o].next] \in Seq(Objects)
    <3>1. CASE g.bl[o].next = Null
      <4>1. f[g.bl[o].next] = <<>>
        BY <1>1, <3>1
      <4>2. <<>> \in Seq(Objects)
        OBVIOUS
      <4>. QED  BY <4>1, <4>2
    <3>2. CASE g.bl[o].next \in Objects
      BY <1>5, <3>2
    <3>. QED  BY <1>2, <3>1, <3>2
  <2>2. ToSet(<<o>> \o f[g.bl[o].next]) = {o} \cup ToSet(f[g.bl[o].next])
    BY <2>1, ConsIs
  <2>. QED  BY <1>1, <2>2
<1>. QED  BY <1>1, <1>5, <1>6

\* An empty walk meets nothing.
LEMMA NothingMet == ToSet(<<>>) = {}
BY DEF ToSet

\* A walk meets objects of its chain, and with each the next one.
LEMMA WalkStays ==
  ASSUME NEW g, Sound(g), NEW f, Walks(f, g)
  PROVE  \A o \in Objects : OnMap(g, o) =>
           \A p \in ToSet(f[o]) :
             /\ p \in Objects /\ OnMap(g, p) /\ SameChain(g, p, o)
             /\ g.bl[p].next # Null => g.bl[p].next \in ToSet(f[o])
<1>0. \A o \in Objects : ToSet(f[o]) = {o} \cup ToSet(f[g.bl[o].next])
  <2>1. \A o \in Objects : /\ f[o] \in Seq(Objects)
                           /\ ToSet(f[o]) = {o} \cup ToSet(f[g.bl[o].next])
    BY WalkIs
  <2>. QED  BY <2>1
<1>. DEFINE S == {o \in Objects : OnMap(g, o) =>
                    \A p \in ToSet(f[o]) :
                      /\ p \in Objects /\ OnMap(g, p) /\ SameChain(g, p, o)
                      /\ g.bl[p].next # Null => g.bl[p].next \in ToSet(f[o])}
<1>1. ASSUME NEW o \in Objects, g.bl[o].next = Null \/ g.bl[o].next \in S
      PROVE  o \in S
  <2>1. SUFFICES ASSUME OnMap(g, o), NEW p \in ToSet(f[o])
        PROVE  /\ p \in Objects /\ OnMap(g, p) /\ SameChain(g, p, o)
               /\ g.bl[p].next # Null => g.bl[p].next \in ToSet(f[o])
    OBVIOUS
  <2>2. PICK n \in Objects \cup {Null} : n = g.bl[o].next
    BY LinksAre DEF Sound
  <2>3. ToSet(f[o]) = {o} \cup ToSet(f[n])
    <3>1. ToSet(f[o]) = {o} \cup ToSet(f[g.bl[o].next])
      BY <1>0
    <3>. QED  BY <2>2, <3>1
  <2>4. CASE n = Null
    <3>1. p = o
      BY <2>1, <2>3, <2>4, WalkIs, NothingMet
    <3>. QED  BY <2>1, <2>2, <2>4, <3>1 DEF SameChain
  <2>5. CASE n # Null
    <3>1. n \in Objects /\ OnMap(g, n) /\ SameChain(g, n, o)
      BY <2>1, <2>2, <2>5 DEF Sound, LinksAgree
    <3>2. n \in S
      BY <1>1, <2>2, <2>5
    <3>3. n \in ToSet(f[n])
      BY <3>1, WalkIs
    <3>4. CASE p = o
      BY <2>1, <2>2, <2>3, <3>3, <3>4 DEF SameChain
    <3>5. CASE p \in ToSet(f[n])
      <4>1. /\ p \in Objects /\ OnMap(g, p) /\ SameChain(g, p, n)
            /\ g.bl[p].next # Null => g.bl[p].next \in ToSet(f[n])
        BY <3>1, <3>2, <3>5
      <4>2. SameChain(g, p, o)
        BY <3>1, <4>1 DEF SameChain
      <4>. QED  BY <2>3, <4>1, <4>2
    <3>. QED  BY <2>1, <2>3, <3>4, <3>5
  <2>. QED  BY <2>4, <2>5
<1>2. S = Objects
  <2>1. S \subseteq Objects
    OBVIOUS
  <2>. HIDE DEF S
  <2>. QED  BY <1>1, <2>1, AlongChains
<1>. QED  BY <1>2

\* The walk from the first of a chain meets all of the chain.
LEMMA WalkMeets ==
  ASSUME NEW g, Sound(g), NEW f, Walks(f, g), NEW c \in Chains, NEW pos \in Blocks
  PROVE  ToSet(f[g.block[c][pos]])
           = {o \in Objects : OnMap(g, o) /\ ChainOf(o) = c /\ PosOf(g.bl[o].x) = pos}
<1>0. \A o \in Objects : ToSet(f[o]) = {o} \cup ToSet(f[g.bl[o].next])
  <2>1. \A o \in Objects : /\ f[o] \in Seq(Objects)
                           /\ ToSet(f[o]) = {o} \cup ToSet(f[g.bl[o].next])
    BY WalkIs
  <2>. QED  BY <2>1
<1>. DEFINE here == {o \in Objects : OnMap(g, o) /\ ChainOf(o) = c /\ PosOf(g.bl[o].x) = pos}
<1>1. PICK first \in Objects \cup {Null} : first = g.block[c][pos]
  BY DEF Sound, Grids
<1>2. first # Null => first \in here
  BY <1>1 DEF Sound, FirstStands
<1>3. \A p \in ToSet(f[first]) : p \in here
  <2>1. SUFFICES ASSUME NEW p \in ToSet(f[first]) PROVE p \in here
    OBVIOUS
  <2>2. first # Null
    BY <2>1, WalkIs, NothingMet
  <2>3. first \in Objects /\ OnMap(g, first) /\ ChainOf(first) = c /\ PosOf(g.bl[first].x) = pos
    BY <1>2, <2>2
  <2>4. p \in Objects /\ OnMap(g, p) /\ SameChain(g, p, first)
    BY <2>1, <2>3, WalkStays
  <2>. QED  BY <2>3, <2>4 DEF SameChain
<1>. DEFINE S == {o \in Objects : o \in here => o \in ToSet(f[first])}
<1>4. ASSUME NEW o \in Objects, \A p \in Objects : g.bl[p].next = o => p \in S
      PROVE  o \in S
  <2>1. SUFFICES ASSUME o \in here PROVE o \in ToSet(f[first])
    OBVIOUS
  <2>2. OnMap(g, o) /\ ChainOf(o) = c /\ PosOf(g.bl[o].x) = pos
    BY <2>1
  <2>3. PICK q \in Objects \cup {bl_head} : q = g.bl[o].prev
    BY <2>2, LinksAre DEF Sound, OnMap
  <2>4. CASE q = bl_head
    <3>1. FirstOf(g, o) = o
      BY <2>2, <2>3, <2>4 DEF Sound, LinksAgree
    <3>2. first = o
      BY <1>1, <2>2, <3>1 DEF FirstOf
    <3>3. ToSet(f[o]) = {o} \cup ToSet(f[g.bl[o].next])
      BY <1>0
    <3>4. o \in ToSet(f[o])
      BY <3>3
    <3>. QED  BY <3>2, <3>4
  <2>5. CASE q # bl_head
    <3>1. OnMap(g, q) /\ SameChain(g, q, o) /\ g.bl[q].next = o /\ q \in Objects
      BY <2>2, <2>3, <2>5 DEF Sound, LinksAgree
    <3>2. q \in ToSet(f[first])
      BY <1>4, <2>2, <3>1 DEF SameChain
    <3>3. first \in Objects /\ OnMap(g, first)
      BY <1>2, <3>2, WalkIs, NothingMet
    <3>. QED  BY <3>1, <3>2, <3>3, MarksApart, WalkStays
  <2>. QED  BY <2>4, <2>5
<1>5. S = Objects
  <2>1. S \subseteq Objects
    OBVIOUS
  <2>. HIDE DEF S
  <2>. QED  BY <1>4, <2>1, BackAlongChains
<1>6. \A o \in here : o \in ToSet(f[first])
  <2>1. here \subseteq Objects
    OBVIOUS
  <2>. QED  BY <1>5, <2>1
<1>. QED  BY <1>1, <1>3, <1>6

\* ChainSeq is such a walk.
LEMMA ChainSeqIs ==
  ASSUME NEW g, Sound(g), NEW c, NEW pos
  PROVE  \E f : Walks(f, g) /\ ChainSeq(g, c, pos) = f[g.block[c][pos]]
<1>. DEFINE Loop(w) == [o \in Objects \cup {Null} |->
                         IF o = Null THEN <<>> ELSE <<o>> \o w[g.bl[o].next]]
            s == CHOOSE w : w = Loop(w)
<1>1. ChainSeq(g, c, pos) = s[g.block[c][pos]]
  BY DEF ChainSeq
<1>2. ASSUME NEW w PROVE Walks(w, g) <=> w = Loop(w)
  BY DEF Walks, Onward
<1>3. s = Loop(s)
  <2>1. \E w : w = Loop(w)
    <3>. HIDE DEF Loop
    <3>. QED  BY <1>2, WalkExists
  <2>. HIDE DEF Loop
  <2>. QED  BY <2>1
<1>. HIDE DEF Loop, s
<1>. QED  BY <1>1, <1>2, <1>3

\* What the invariant is for.
LEMMA ChainsAreSound == ChainsInv => ChainsSound
<1>. SUFFICES ASSUME ChainsInv PROVE ChainsSound
  OBVIOUS
<1>1. PICK g : /\ g = Grid /\ Sound(g) /\ \A o \in freed : ~OnMap(g, o)
              /\ g.bl = bl /\ g.block = block /\ g.user = user
  BY DEF ChainsInv, Grid
<1>. DEFINE Here(c, pos) == {o \in Objects \ freed : /\ OnMap(Grid, o)
                                                    /\ ChainOf(o) = c
                                                    /\ PosOf(bl[o].x) = pos}
<1>2. ASSUME NEW c \in Chains, NEW pos \in Blocks, NEW here, here = Here(c, pos)
      PROVE  /\ block[c][pos] \in here \cup {Null}
             /\ here # {} => block[c][pos] # Null
             /\ \A o \in here : /\ bl[o].prev \in here \cup {bl_head}
                                /\ bl[o].prev = bl_head <=> block[c][pos] = o
                                /\ bl[o].next # Null => bl[bl[o].next].prev = o
             /\ ToSet(ChainSeq(Grid, c, pos)) = here
  <2>1. here = {o \in Objects : OnMap(g, o) /\ ChainOf(o) = c /\ PosOf(g.bl[o].x) = pos}
    BY <1>1, <1>2
  <2>2. g.block[c][pos] \in here \cup {Null}
    <3>1. g.block[c][pos] \in Objects \cup {Null}
      BY <1>1 DEF Sound, Grids
    <3>. QED  BY <1>1, <2>1, <3>1 DEF Sound, FirstStands
  <2>3. PICK f : Walks(f, g) /\ ChainSeq(g, c, pos) = f[g.block[c][pos]]
    BY <1>1, ChainSeqIs
  <2>4. ToSet(ChainSeq(g, c, pos)) = here
    BY <1>1, <2>1, <2>3, WalkMeets
  <2>5. here # {} => g.block[c][pos] # Null
    BY <1>1, <2>3, <2>4, WalkIs, NothingMet
  <2>6. ASSUME NEW o \in here
        PROVE  /\ g.bl[o].prev \in here \cup {bl_head}
               /\ g.bl[o].prev = bl_head <=> g.block[c][pos] = o
               /\ g.bl[o].next # Null => g.bl[g.bl[o].next].prev = o
    <3>1. o \in Objects /\ OnMap(g, o) /\ ChainOf(o) = c /\ PosOf(g.bl[o].x) = pos
      BY <2>1
    <3>2. /\ g.bl[o].prev = bl_head <=> FirstOf(g, o) = o
          /\ g.bl[o].prev # bl_head => OnMap(g, g.bl[o].prev) /\ SameChain(g, g.bl[o].prev, o)
          /\ g.bl[o].next # Null => g.bl[g.bl[o].next].prev = o
      BY <1>1, <3>1 DEF Sound, LinksAgree
    <3>3. g.bl[o].prev \in Objects \cup {bl_head}
      BY <1>1, <3>1, LinksAre DEF Sound, OnMap
    <3>4. FirstOf(g, o) = g.block[c][pos]
      BY <3>1 DEF FirstOf
    <3>5. g.bl[o].prev # bl_head => g.bl[o].prev \in here
      BY <2>1, <3>1, <3>2, <3>3 DEF SameChain
    <3>. QED  BY <3>2, <3>4, <3>5
  <2>. QED  BY <1>1, <2>2, <2>4, <2>5, <2>6
<1>3. user = Cardinality({o \in Pcs : OnMap(Grid, o)})
  BY <1>1 DEF Sound, Counted, PlayersOn
<1>4. ASSUME NEW c \in Chains, NEW pos \in Blocks
      PROVE  /\ block[c][pos] \in Here(c, pos) \cup {Null}
             /\ Here(c, pos) # {} => block[c][pos] # Null
             /\ \A o \in Here(c, pos) :
                  /\ bl[o].prev \in Here(c, pos) \cup {bl_head}
                  /\ bl[o].prev = bl_head <=> block[c][pos] = o
                  /\ bl[o].next # Null => bl[bl[o].next].prev = o
             /\ ToSet(ChainSeq(Grid, c, pos)) = Here(c, pos)
  <2>. HIDE DEF Here
  <2>. QED  BY <1>2
<1>. QED  BY <1>3, <1>4 DEF ChainsSound

\* In every state the chains are the map: each object that is on it is met once
\* on the way from the first of its block, with links that agree, nothing freed
\* is met and the players are counted, for any numbers of objects, any map and
\* block size, and loops and calls nested to any depth.
THEOREM SpecChainsSound == GridSpec => []ChainsSound
BY ChainsInitHold, ChainsStepHolds, ChainsAreSound, PTL DEF GridSpec

-----------------------------------------------------------------------------
(* The exchange.                                                           *)

----------------------------------------------------------------------------
(* Sums over finite sets.                                                  *)

\* What the folds that add up come to: a function of the subsets of S.
Sums(f, S, g) ==
  g = [s \in SUBSET S |->
         IF s = {} THEN 0
         ELSE f[CHOOSE x \in s : TRUE] + g[s \ {CHOOSE x \in s : TRUE}]]

SumOf(f, S) == (CHOOSE g : Sums(f, S, g))[S]

\* What is added up, unit by unit: the sum is how many they are.
UnitsOf(f, S) == {p \in S \X Nat : p[2] < f[p[1]]}

\* Amounts of what is in S.
Amounts(f, S) == \A x \in S : f[x] \in Nat

\* The units of one element.
LEMMA UnitsOfOne ==
  ASSUME NEW x, NEW n \in Nat
  PROVE  IsFiniteSet({x} \X (0..n - 1)) /\ Cardinality({x} \X (0..n - 1)) = n
<1>1. IsFiniteSet(0..n - 1) /\ Cardinality(0..n - 1) = n
  BY FS_Interval
<1>2. IsFiniteSet({x}) /\ Cardinality({x}) = 1
  BY FS_Singleton
<1>. QED  BY <1>1, <1>2, FS_Product

\* They are finitely many, for a finite set.
LEMMA UnitsAreFinite ==
  ASSUME NEW S, IsFiniteSet(S), NEW f, Amounts(f, S)
  PROVE  IsFiniteSet(UnitsOf(f, S))
<1> DEFINE h == [x \in S |-> {x} \X (0..f[x] - 1)]
           T == {h[x] : x \in S}
<1>1. h \in Surjection(S, T)
  <2>1. h \in [S -> T] /\ \A t \in T : \E x \in S : h[x] = t
    OBVIOUS
  <2>. HIDE DEF h, T
  <2>. QED  BY <2>1 DEF Surjection
<1>2. IsFiniteSet(T)
  <2>. HIDE DEF h, T
  <2>. QED  BY <1>1, FS_Surjection
<1>3. \A U \in T : IsFiniteSet(U)
  <2>1. ASSUME NEW x \in S PROVE IsFiniteSet(h[x])
    <3>1. f[x] \in Nat
      BY DEF Amounts
    <3>2. IsFiniteSet({x} \X (0..f[x] - 1))
      BY <3>1, UnitsOfOne
    <3>. QED  BY <3>2
  <2>. QED  BY <2>1
<1>4. IsFiniteSet(UNION T)
  <2>. HIDE DEF h, T
  <2>. QED  BY <1>2, <1>3, FS_UNION
<1>5. UnitsOf(f, S) \subseteq UNION T
  <2>. SUFFICES ASSUME NEW p \in UnitsOf(f, S) PROVE p \in UNION T
    OBVIOUS
  <2>1. p \in S \X Nat /\ p[2] < f[p[1]] /\ f[p[1]] \in Nat
    BY DEF UnitsOf, Amounts
  <2>2. p \in h[p[1]]
    BY <2>1
  <2>. QED  BY <2>1, <2>2
<1>. QED  BY <1>4, <1>5, FS_Subset

\* Taking one element out takes its units out.
LEMMA UnitsSplit ==
  ASSUME NEW S, IsFiniteSet(S), NEW f, Amounts(f, S), NEW x \in S
  PROVE  Cardinality(UnitsOf(f, S)) = f[x] + Cardinality(UnitsOf(f, S \ {x}))
<1> DEFINE U == UnitsOf(f, S \ {x})
           V == {x} \X (0..f[x] - 1)
<1>1. f[x] \in Nat
  BY DEF Amounts
<1>2. IsFiniteSet(V) /\ Cardinality(V) = f[x]
  BY <1>1, UnitsOfOne
<1>3. IsFiniteSet(U)
  <2>1. IsFiniteSet(S \ {x}) /\ Amounts(f, S \ {x})
    BY FS_RemoveElement DEF Amounts
  <2>. QED  BY <2>1, UnitsAreFinite
<1>4. UnitsOf(f, S) = U \cup V
  <2>1. ASSUME NEW p \in UnitsOf(f, S) PROVE p \in U \cup V
    <3>1. p \in S \X Nat /\ p[2] < f[p[1]]
      BY <2>1 DEF UnitsOf
    <3>2. CASE p[1] = x
      BY <1>1, <3>1, <3>2
    <3>3. CASE p[1] # x
      BY <3>1, <3>3 DEF UnitsOf
    <3>. QED  BY <3>2, <3>3
  <2>2. ASSUME NEW p \in V PROVE p \in UnitsOf(f, S)
    BY <1>1, <2>2 DEF UnitsOf
  <2>3. U \subseteq UnitsOf(f, S)
    BY DEF UnitsOf
  <2>. QED  BY <2>1, <2>2, <2>3
<1>5. U \cap V = {}
  BY DEF UnitsOf
<1>6. Cardinality(U \cap V) = 0
  BY <1>5, FS_EmptySet
<1>7. Cardinality(U) \in Nat
  BY <1>3, FS_CardinalityType
<1>. HIDE DEF U, V
<1>8. Cardinality(U \cup V) = Cardinality(U) + Cardinality(V) - Cardinality(U \cap V)
  BY <1>2, <1>3, FS_Union
<1>9. Cardinality(U \cup V) = Cardinality(U) + f[x]
  BY <1>1, <1>2, <1>6, <1>7, <1>8
<1>10. Cardinality(U \cup V) = f[x] + Cardinality(U)
  BY <1>1, <1>7, <1>9
<1>. QED  BY <1>4, <1>10 DEF U

\* The sum is the number of units.
LEMMA SumIsCount ==
  ASSUME NEW S, IsFiniteSet(S), NEW f, Amounts(f, S)
  PROVE  SumOf(f, S) = Cardinality(UnitsOf(f, S))
<1> DEFINE C(s) == Cardinality(UnitsOf(f, s))
<1>1. ASSUME NEW s \in SUBSET S
      PROVE  /\ IsFiniteSet(s) /\ Amounts(f, s)
             /\ C(s) \in Nat
             /\ s = {} => C(s) = 0
             /\ \A x \in s : C(s) = f[x] + C(s \ {x})
  <2>1. IsFiniteSet(s) /\ Amounts(f, s)
    BY FS_Subset DEF Amounts
  <2>2. C(s) \in Nat
    BY <2>1, UnitsAreFinite, FS_CardinalityType
  <2>3. ASSUME s = {} PROVE C(s) = 0
    <3>1. UnitsOf(f, s) = {}
      BY <2>3 DEF UnitsOf
    <3>. QED  BY <3>1, FS_EmptySet
  <2>4. ASSUME NEW x \in s PROVE C(s) = f[x] + C(s \ {x})
    BY <2>1, UnitsSplit
  <2>. QED  BY <2>1, <2>2, <2>3, <2>4
<1>. HIDE DEF C
<1>2. ASSUME NEW s \in SUBSET S, s # {}
      PROVE  (CHOOSE x \in s : TRUE) \in s
  BY <1>2
<1>3. \E g : Sums(f, S, g)
  <2> DEFINE g == [s \in SUBSET S |-> C(s)]
  <2>1. ASSUME NEW s \in SUBSET S
        PROVE  C(s) = IF s = {} THEN 0
                      ELSE f[CHOOSE x \in s : TRUE]
                             + g[s \ {CHOOSE x \in s : TRUE}]
    <3>1. CASE s = {}
      BY <1>1, <3>1
    <3>2. CASE s # {}
      <4>1. PICK x : x = CHOOSE y \in s : TRUE
        OBVIOUS
      <4>2. x \in s
        BY <1>2, <3>2, <4>1
      <4>3. g[s \ {x}] = C(s \ {x})
        OBVIOUS
      <4>4. C(s) = f[x] + g[s \ {x}]
        BY <1>1, <4>2, <4>3
      <4>. QED  BY <3>2, <4>1, <4>4
    <3>. QED  BY <3>1, <3>2
  <2>2. g = [s \in SUBSET S |-> IF s = {} THEN 0
                                ELSE f[CHOOSE x \in s : TRUE]
                                       + g[s \ {CHOOSE x \in s : TRUE}]]
    BY <2>1
  <2>. HIDE DEF g
  <2>3. Sums(f, S, g)
    BY <2>2 DEF Sums
  <2>. QED  BY <2>3
<1>4. PICK g : g = (CHOOSE h : Sums(f, S, h)) /\ Sums(f, S, g)
  BY <1>3
<1> DEFINE Bad == {n \in Nat : \E s \in SUBSET S : Cardinality(s) = n /\ g[s] # C(s)}
<1>5. ASSUME NEW s \in SUBSET S, g[s] # C(s) PROVE FALSE
  <2>1. Cardinality(s) \in Bad
    BY <1>1, <1>5, FS_CardinalityType
  <2>2. PICK n \in Bad : \A m \in Bad : n <= m
    <3>1. Bad \subseteq Nat /\ Bad # {}
      BY <2>1
    <3>. HIDE DEF Bad
    <3>. QED  BY <3>1, LeastIsThere
  <2>3. PICK t \in SUBSET S : Cardinality(t) = n /\ g[t] # C(t)
    BY <2>2
  <2>4. g[t] = IF t = {} THEN 0 ELSE f[CHOOSE x \in t : TRUE] + g[t \ {CHOOSE x \in t : TRUE}]
    BY <1>4 DEF Sums
  <2>5. t # {}
    BY <1>1, <2>3, <2>4
  <2>6. PICK x : x = CHOOSE y \in t : TRUE
    OBVIOUS
  <2>7. x \in t
    BY <1>2, <2>5, <2>6
  <2>8. g[t] = f[x] + g[t \ {x}]
    BY <2>4, <2>5, <2>6
  <2>9. g[t \ {x}] # C(t \ {x})
    BY <1>1, <2>3, <2>7, <2>8
  <2>10. IsFiniteSet(t) /\ n \in Nat
    BY <1>1, <2>2
  <2>11. Cardinality(t \ {x}) = n - 1 /\ Cardinality(t \ {x}) \in Nat
    BY <2>3, <2>7, <2>10, FS_RemoveElement, FS_CardinalityType
  <2>12. n - 1 \in Bad
    BY <2>9, <2>11
  <2>. QED  BY <2>2, <2>10, <2>12
<1>. QED  BY <1>4, <1>5 DEF SumOf, C

\* A sum is that of one element and that of the others.
LEMMA SumSplit ==
  ASSUME NEW S, IsFiniteSet(S), NEW f, Amounts(f, S)
  PROVE  /\ SumOf(f, S) \in Nat
         /\ \A x \in S : /\ f[x] \in Nat /\ SumOf(f, S \ {x}) \in Nat
                         /\ SumOf(f, S) = f[x] + SumOf(f, S \ {x})
<1>1. ASSUME NEW T, IsFiniteSet(T), Amounts(f, T)
      PROVE  SumOf(f, T) \in Nat /\ SumOf(f, T) = Cardinality(UnitsOf(f, T))
  BY <1>1, SumIsCount, UnitsAreFinite, FS_CardinalityType
<1>2. ASSUME NEW x \in S PROVE IsFiniteSet(S \ {x}) /\ Amounts(f, S \ {x})
  BY FS_RemoveElement DEF Amounts
<1>3. ASSUME NEW x \in S PROVE SumOf(f, S) = f[x] + SumOf(f, S \ {x})
  BY <1>1, <1>2, UnitsSplit
<1>. QED  BY <1>1, <1>2, <1>3 DEF Amounts

\* The same amounts have the same sum.
LEMMA SumSame ==
  ASSUME NEW S, IsFiniteSet(S), NEW f, NEW h, Amounts(f, S),
         \A x \in S : f[x] = h[x]
  PROVE  SumOf(f, S) = SumOf(h, S)
<1>1. Amounts(h, S)
  BY DEF Amounts
<1>2. UnitsOf(f, S) = UnitsOf(h, S)
  BY DEF UnitsOf
<1>. QED  BY <1>1, <1>2, SumIsCount

\* A sum of ones is their number.
LEMMA SumOfOnes ==
  ASSUME NEW S, IsFiniteSet(S), NEW f, \A x \in S : f[x] \in {0, 1}
  PROVE  SumOf(f, S) = Cardinality({x \in S : f[x] = 1})
<1> DEFINE T == {x \in S : f[x] = 1}
<1>1. Amounts(f, S)
  BY DEF Amounts
<1>2. UnitsOf(f, S) = T \X {0}
  <2>1. ASSUME NEW p \in UnitsOf(f, S) PROVE p \in T \X {0}
    <3>1. p \in S \X Nat /\ p[2] < f[p[1]]
      BY <2>1 DEF UnitsOf
    <3>2. f[p[1]] = 1 /\ p[2] = 0
      BY <3>1
    <3>. QED  BY <3>1, <3>2
  <2>2. ASSUME NEW p \in T \X {0} PROVE p \in UnitsOf(f, S)
    BY <2>2 DEF UnitsOf
  <2>. QED  BY <2>1, <2>2
<1>3. IsFiniteSet(T) /\ Cardinality(T) \in Nat
  BY FS_Subset, FS_CardinalityType
<1>4. IsFiniteSet({0}) /\ Cardinality({0}) = 1
  BY FS_Singleton
<1>. HIDE DEF T
<1>5. Cardinality(T \X {0}) = Cardinality(T)
  BY <1>3, <1>4, FS_Product
<1>. QED  BY <1>1, <1>2, <1>5, SumIsCount DEF T

\* A sum is 0 just when nothing is added up.
LEMMA SumOfNone ==
  ASSUME NEW S, IsFiniteSet(S), NEW f, Amounts(f, S)
  PROVE  SumOf(f, S) = 0 <=> \A x \in S : f[x] = 0
<1>1. SumOf(f, S) = Cardinality(UnitsOf(f, S)) /\ IsFiniteSet(UnitsOf(f, S))
  BY SumIsCount, UnitsAreFinite
<1>2. SumOf(f, S) = 0 <=> UnitsOf(f, S) = {}
  BY <1>1, FS_EmptySet
<1>3. ASSUME UnitsOf(f, S) = {}, NEW x \in S PROVE f[x] = 0
  <2>1. <<x, 0>> \notin UnitsOf(f, S)
    BY <1>3
  <2>2. ~(0 < f[x])
    BY <2>1 DEF UnitsOf
  <2>. QED  BY <2>2 DEF Amounts
<1>4. ASSUME \A x \in S : f[x] = 0 PROVE UnitsOf(f, S) = {}
  BY <1>4 DEF UnitsOf
<1>. QED  BY <1>2, <1>3, <1>4


\* The sums of two functions that differ at one element.
LEMMA SumChange ==
  ASSUME NEW S, IsFiniteSet(S), NEW f, NEW h, Amounts(f, S), Amounts(h, S),
         NEW x \in S, \A y \in S \ {x} : f[y] = h[y]
  PROVE  /\ SumOf(f, S) \in Nat /\ SumOf(h, S) \in Nat
         /\ f[x] \in Nat /\ h[x] \in Nat
         /\ SumOf(f, S) + h[x] = SumOf(h, S) + f[x]
<1>1. IsFiniteSet(S \ {x}) /\ Amounts(f, S \ {x})
  BY FS_RemoveElement DEF Amounts
<1>2. SumOf(f, S \ {x}) = SumOf(h, S \ {x})
  BY <1>1, SumSame
<1>3. /\ SumOf(f, S) \in Nat /\ f[x] \in Nat /\ SumOf(f, S \ {x}) \in Nat
      /\ SumOf(f, S) = f[x] + SumOf(f, S \ {x})
  BY SumSplit
<1>4. /\ SumOf(h, S) \in Nat /\ h[x] \in Nat /\ SumOf(h, S \ {x}) \in Nat
      /\ SumOf(h, S) = h[x] + SumOf(h, S \ {x})
  BY SumSplit
<1>. QED  BY <1>2, <1>3, <1>4

----------------------------------------------------------------------------
(* Folds over sequences.                                                   *)

\* A number of a set of numbers up to n is its greatest.
LEMMA GreatestIsThere ==
  ASSUME NEW n \in Nat, NEW s \in SUBSET (1..n), s # {}
  PROVE  Max(s) \in s /\ \A y \in s : y <= Max(s)
<1> DEFINE T == {n - x : x \in s}
<1>1. T \subseteq Nat /\ T # {}
  <2>1. ASSUME NEW x \in s PROVE n - x \in Nat
    <3>1. x \in Int /\ x <= n
      OBVIOUS
    <3>. QED  BY <3>1
  <2>2. PICK x \in s : TRUE
    OBVIOUS
  <2>. QED  BY <2>1, <2>2, Zenon
<1>2. PICK t \in T : \A u \in T : t <= u
  <2>. HIDE DEF T
  <2>. QED  BY <1>1, LeastIsThere
<1>3. PICK x \in s : t = n - x
  BY <1>2
<1>4. ASSUME NEW y \in s PROVE x >= y
  <2>1. n - y \in T
    <3>1. \E z \in s : n - y = n - z
      OBVIOUS
    <3>. QED  BY <3>1 DEF T
  <2>2. n - x <= n - y
    BY <1>2, <1>3, <2>1
  <2>3. x \in Nat /\ y \in Nat
    BY <1>3
  <2>. QED  BY <2>2, <2>3
<1>5. PICK z : z = Max(s)
  OBVIOUS
<1>6. z \in s /\ \A y \in s : z >= y
  BY <1>4, <1>5 DEF Max
<1>7. \A y \in s : y <= z
  BY <1>6
<1>. QED  BY <1>5, <1>6, <1>7

\* What a fold over the positions 1..n comes to, for a step F[i] at position i
\* and a start b: a function of the sets of positions.
Folded(n, F, b, h) ==
  h = [s \in SUBSET (1..n) |-> IF s = {} THEN b ELSE F[Max(s)][h[s \ {Max(s)}]]]

\* There is one, if the steps stay in a set.
LEMMA FoldExists ==
  ASSUME NEW n \in Nat, NEW V, NEW b \in V, NEW F,
         \A i \in 1..n : \A v \in V : F[i][v] \in V
  PROVE  \E h \in [SUBSET (1..n) -> V] : Folded(n, F, b, h)
<1> DEFINE Good(m) == \E h \in [SUBSET (1..m) -> V] : Folded(m, F, b, h)
           Bad == {m \in 0..n : ~Good(m)}
<1>1. Good(0)
  <2> DEFINE h == [s \in SUBSET (1..0) |-> b]
  <2>1. h \in [SUBSET (1..0) -> V]
    OBVIOUS
  <2>2. SUBSET (1..0) = {{}}
    OBVIOUS
  <2>3. Folded(0, F, b, h)
    BY <2>2 DEF Folded
  <2>. QED  BY <2>1, <2>3
<1>2. ASSUME NEW m \in 1..n, Good(m - 1) PROVE Good(m)
  <2>1. PICK h \in [SUBSET (1..m - 1) -> V] : Folded(m - 1, F, b, h)
    BY <1>2
  <2> DEFINE g == [s \in SUBSET (1..m) |-> IF m \in s THEN F[m][h[s \ {m}]] ELSE h[s]]
  <2>2. ASSUME NEW s \in SUBSET (1..m)
        PROVE  /\ m \in s => s \ {m} \in SUBSET (1..m - 1)
               /\ m \notin s => s \in SUBSET (1..m - 1)
    OBVIOUS
  <2>3. g \in [SUBSET (1..m) -> V]
    BY <2>2
  <2>4. ASSUME NEW s \in SUBSET (1..m)
        PROVE  g[s] = IF s = {} THEN b ELSE F[Max(s)][g[s \ {Max(s)}]]
    <3>1. CASE m \in s
      <4>1. Max(s) \in s /\ m <= Max(s)
        BY <3>1, GreatestIsThere
      <4>2. Max(s) = m
        <5>1. Max(s) \in 1..m
          BY <4>1
        <5>. QED  BY <4>1, <5>1
      <4>3. g[s \ {m}] = h[s \ {m}]
        OBVIOUS
      <4>. QED  BY <3>1, <4>2, <4>3
    <3>2. CASE s = {}
      <4>1. h[s] = b
        BY <2>1, <2>2, <3>2 DEF Folded
      <4>. QED  BY <3>2, <4>1
    <3>3. CASE m \notin s /\ s # {}
      <4>1. s \in SUBSET (1..m - 1)
        BY <3>3
      <4>2. h[s] = F[Max(s)][h[s \ {Max(s)}]]
        BY <2>1, <3>3, <4>1 DEF Folded
      <4>3. g[s] = h[s] /\ g[s \ {Max(s)}] = h[s \ {Max(s)}]
        BY <3>3
      <4>. QED  BY <3>3, <4>2, <4>3
    <3>. QED  BY <3>1, <3>2, <3>3
  <2>5. g = [s \in SUBSET (1..m) |-> IF s = {} THEN b ELSE F[Max(s)][g[s \ {Max(s)}]]]
    BY <2>4
  <2>. HIDE DEF g
  <2>6. Folded(m, F, b, g)
    BY <2>5 DEF Folded
  <2>. QED  BY <2>3, <2>6
<1>. HIDE DEF Good
<1>3. ASSUME Bad # {} PROVE FALSE
  <2>1. Bad \subseteq Nat
    OBVIOUS
  <2>2. PICK m \in Bad : \A k \in Bad : m <= k
    <3>. HIDE DEF Bad
    <3>. QED  BY <1>3, <2>1, LeastIsThere
  <2>3. m # 0
    BY <1>1, <2>2
  <2>4. m \in 1..n /\ m - 1 \in 0..n
    BY <2>2, <2>3
  <2>5. Good(m - 1)
    BY <2>2, <2>4
  <2>. QED  BY <1>2, <2>2, <2>4, <2>5
<1>4. n \notin Bad
  BY <1>3
<1>5. Good(n)
  BY <1>4
<1>. QED  BY <1>5 DEF Good

\* What is known of a fold whose steps are known only for values in V.
Climbs(n, V, F, b, g) ==
  \A s \in SUBSET (1..n) :
    /\ s = {} => g[s] = b
    /\ s # {} /\ g[s \ {Max(s)}] \in V => g[s] = F[Max(s)][g[s \ {Max(s)}]]

\* It passes through what the steps lead to, one after the other.
LEMMA FoldClimbs ==
  ASSUME NEW n \in Nat, NEW V, NEW b, NEW F, NEW g, Climbs(n, V, F, b, g),
         NEW W, b \in W[0], \A i \in 0..n : W[i] \subseteq V,
         \A i \in 1..n : \A v \in W[i - 1] : F[i][v] \in W[i]
  PROVE  g[1..n] \in W[n]
<1> DEFINE Bad == {m \in 0..n : g[1..m] \notin W[m]}
<1>1. ASSUME Bad # {} PROVE FALSE
  <2>1. Bad \subseteq Nat
    OBVIOUS
  <2>2. PICK m \in Bad : \A k \in Bad : m <= k
    <3>. HIDE DEF Bad
    <3>. QED  BY <1>1, <2>1, LeastIsThere
  <2>3. m # 0
    <3>1. (1..0) \in SUBSET (1..n) /\ 1..0 = {}
      OBVIOUS
    <3>2. g[1..0] = b
      BY <3>1 DEF Climbs
    <3>. QED  BY <2>2, <3>2
  <2>4. m \in 1..n /\ m - 1 \in 0..n
    BY <2>2, <2>3
  <2>5. g[1..m - 1] \in W[m - 1]
    BY <2>2, <2>4
  <2>6. (1..m) \in SUBSET (1..n) /\ m \in 1..m
    BY <2>4
  <2>7. Max(1..m) = m
    <3>1. Max(1..m) \in 1..m /\ m <= Max(1..m)
      BY <2>4, <2>6, GreatestIsThere
    <3>. QED  BY <2>4, <3>1
  <2>8. (1..m) \ {m} = 1..m - 1
    BY <2>4
  <2>9. g[1..m] = F[m][g[1..m - 1]]
    <3>1. g[1..m - 1] \in V
      BY <2>4, <2>5
    <3>. QED  BY <2>6, <2>7, <2>8, <3>1 DEF Climbs
  <2>10. g[1..m] \in W[m]
    BY <2>4, <2>5, <2>9
  <2>. QED  BY <2>2, <2>10
<1>2. n \notin Bad
  BY <1>1
<1>. QED  BY <1>2


----------------------------------------------------------------------------
(* Amounts.                                                                *)

\* The sum of the model is the sum above.
LEMMA SumIs == ASSUME NEW f PROVE Sum(f) = SumOf(f, DOMAIN f)
BY DEF Sum, FoldFunction, FoldFunctionOnSet, MapThenFoldSet, SumOf, Sums

\* What a slot or an offer has of an item.
Of(x, id) == IF x.id = id THEN x.amount ELSE 0
OfEach(list, id) == [s \in DOMAIN list |-> Of(list[s], id)]

\* Slots or offers, one after the other.
Lists == Seq([id : Items \cup {Empty}, amount : Nat])

\* The amount of a list is their sum.
LEMMA AmountIs ==
  ASSUME NEW list \in Lists, NEW id
  PROVE  /\ IsFiniteSet(DOMAIN list) /\ Amounts(OfEach(list, id), DOMAIN list)
         /\ Amount(list, id) = SumOf(OfEach(list, id), DOMAIN list)
         /\ Amount(list, id) \in Nat
<1>1. PICK n \in Nat : n = Len(list) /\ DOMAIN list = 1..n
  BY DEF Lists
<1>2. IsFiniteSet(DOMAIN list)
  BY <1>1, FS_Interval
<1>3. \A s \in DOMAIN list : list[s].amount \in Nat
  <2>1. PICK R : R = [id : Items \cup {Empty}, amount : Nat]
    OBVIOUS
  <2>2. list \in Seq(R)
    BY <2>1 DEF Lists
  <2>3. \A s \in DOMAIN list : list[s] \in R
    BY <2>2
  <2>. QED  BY <2>1, <2>3
<1>4. Amounts(OfEach(list, id), DOMAIN list)
  BY <1>3 DEF Amounts, OfEach, Of
<1>5. DOMAIN OfEach(list, id) = DOMAIN list
  BY DEF OfEach
<1>6. Amount(list, id) = Sum(OfEach(list, id))
  BY DEF Amount, OfEach, Of
<1>7. Amount(list, id) = SumOf(OfEach(list, id), DOMAIN list)
  BY <1>5, <1>6, SumIs
<1>8. SumOf(OfEach(list, id), DOMAIN list) \in Nat
  BY <1>2, <1>4, SumSplit
<1>. QED  BY <1>2, <1>4, <1>7, <1>8

\* Changing one slot changes the amount by what the slot gains or loses.
LEMMA AmountChange ==
  ASSUME NEW list \in Lists, NEW new \in Lists, DOMAIN new = DOMAIN list,
         NEW s \in DOMAIN list, \A t \in DOMAIN list \ {s} : new[t] = list[t],
         NEW id
  PROVE  /\ Of(list[s], id) \in Nat /\ Of(new[s], id) \in Nat
         /\ Amount(new, id) + Of(list[s], id) = Amount(list, id) + Of(new[s], id)
<1>1. /\ IsFiniteSet(DOMAIN list)
      /\ Amounts(OfEach(list, id), DOMAIN list) /\ Amounts(OfEach(new, id), DOMAIN list)
      /\ Amount(list, id) = SumOf(OfEach(list, id), DOMAIN list)
      /\ Amount(new, id) = SumOf(OfEach(new, id), DOMAIN list)
  BY AmountIs
<1>2. \A t \in DOMAIN list \ {s} : OfEach(list, id)[t] = OfEach(new, id)[t]
  BY DEF OfEach
<1>3. /\ OfEach(list, id)[s] \in Nat /\ OfEach(new, id)[s] \in Nat
      /\ SumOf(OfEach(new, id), DOMAIN list) + OfEach(list, id)[s]
           = SumOf(OfEach(list, id), DOMAIN list) + OfEach(new, id)[s]
  BY <1>1, <1>2, SumChange
<1>4. OfEach(list, id)[s] = Of(list[s], id) /\ OfEach(new, id)[s] = Of(new[s], id)
  BY DEF OfEach
<1>. QED  BY <1>1, <1>3, <1>4

\* The amount up to a position.
AmountTo(list, k, id) == SumOf(OfEach(list, id), 1..k)

\* It grows by what is at the next one.
LEMMA AmountToIs ==
  ASSUME NEW list \in Lists, NEW id
  PROVE  /\ AmountTo(list, 0, id) = 0
         /\ AmountTo(list, Len(list), id) = Amount(list, id)
         /\ \A k \in 1..Len(list) :
              /\ AmountTo(list, k - 1, id) \in Nat /\ Of(list[k], id) \in Nat
              /\ AmountTo(list, k, id) = AmountTo(list, k - 1, id) + Of(list[k], id)
<1>1. PICK n \in Nat : n = Len(list) /\ DOMAIN list = 1..n
  BY DEF Lists
<1> DEFINE f == OfEach(list, id)
<1>2. Amounts(f, DOMAIN list)
  BY AmountIs
<1>3. ASSUME NEW k \in 0..n PROVE IsFiniteSet(1..k) /\ Amounts(f, 1..k)
  <2>1. (1..k) \subseteq DOMAIN list
    BY <1>1
  <2>2. IsFiniteSet(1..k)
    BY FS_Interval
  <2>. QED  BY <1>2, <2>1, <2>2 DEF Amounts
<1>. HIDE DEF f
<1>4. SumOf(f, 1..0) = 0
  <2>1. IsFiniteSet(1..0) /\ Amounts(f, 1..0)
    BY <1>3
  <2>2. \A x \in 1..0 : f[x] = 0
    OBVIOUS
  <2>. QED  BY <2>1, <2>2, SumOfNone
<1>5. ASSUME NEW k \in 1..n
      PROVE  /\ SumOf(f, 1..k - 1) \in Nat /\ f[k] \in Nat
             /\ SumOf(f, 1..k) = SumOf(f, 1..k - 1) + f[k]
  <2>1. IsFiniteSet(1..k) /\ Amounts(f, 1..k) /\ k \in 1..k
    BY <1>3
  <2>2. (1..k) \ {k} = 1..k - 1
    OBVIOUS
  <2>3. /\ f[k] \in Nat /\ SumOf(f, (1..k) \ {k}) \in Nat
        /\ SumOf(f, 1..k) = f[k] + SumOf(f, (1..k) \ {k})
    BY <2>1, SumSplit
  <2>4. PICK r : r = SumOf(f, (1..k) \ {k})
    OBVIOUS
  <2>5. r = SumOf(f, 1..k - 1)
    BY <2>2, <2>4
  <2>6. f[k] \in Nat /\ r \in Nat /\ SumOf(f, 1..k) = r + f[k]
    BY <2>3, <2>4
  <2>. QED  BY <2>5, <2>6
<1>6. SumOf(f, 1..n) = Amount(list, id)
  BY <1>1, AmountIs DEF f
<1>7. \A k \in 1..n : f[k] = Of(list[k], id)
  BY <1>1 DEF f, OfEach
<1>. QED  BY <1>1, <1>4, <1>5, <1>6, <1>7 DEF AmountTo, f

\* An offer more.
LEMMA AmountAppend ==
  ASSUME NEW list \in Lists, NEW it \in [id : Items \cup {Empty}, amount : Nat], NEW id
  PROVE  /\ Append(list, it) \in Lists
         /\ Of(it, id) \in Nat
         /\ Amount(Append(list, it), id) = Amount(list, id) + Of(it, id)
<1>1. PICK n \in Nat : n = Len(list) /\ DOMAIN list = 1..n
  BY DEF Lists
<1>2. PICK new : new = Append(list, it)
  OBVIOUS
<1>3. /\ new \in Lists /\ Len(new) = n + 1 /\ DOMAIN new = 1..n + 1
      /\ new[n + 1] = it /\ \A k \in 1..n : new[k] = list[k]
  BY <1>1, <1>2 DEF Lists
<1>4. /\ Amount(new, id) = AmountTo(new, n + 1, id)
      /\ AmountTo(new, n + 1, id) = AmountTo(new, n, id) + Of(it, id)
      /\ Of(it, id) \in Nat
  <2>1. n + 1 \in 1..n + 1 /\ (n + 1) - 1 = n
    OBVIOUS
  <2>. QED  BY <1>3, <2>1, AmountToIs
<1>5. AmountTo(new, n, id) = Amount(list, id)
  <2>1. AmountTo(list, n, id) = Amount(list, id)
    BY <1>1, AmountToIs
  <2>2. /\ IsFiniteSet(1..n) /\ Amounts(OfEach(list, id), 1..n)
    BY <1>1, AmountIs
  <2>3. \A k \in 1..n : OfEach(list, id)[k] = OfEach(new, id)[k]
    BY <1>1, <1>3 DEF OfEach
  <2>4. SumOf(OfEach(list, id), 1..n) = SumOf(OfEach(new, id), 1..n)
    BY <2>2, <2>3, SumSame
  <2>. QED  BY <2>1, <2>4 DEF AmountTo
<1>. QED  BY <1>2, <1>3, <1>4, <1>5

\* Nothing offered is nothing.
LEMMA AmountOfNone == \A id : <<>> \in Lists /\ Amount(<<>>, id) = 0
<1>1. SUFFICES ASSUME NEW id PROVE <<>> \in Lists /\ Amount(<<>>, id) = 0
  OBVIOUS
<1>2. <<>> \in Lists /\ Len(<<>>) = 0
  BY DEF Lists
<1>3. AmountTo(<<>>, 0, id) = 0 /\ AmountTo(<<>>, 0, id) = Amount(<<>>, id)
  BY <1>2, AmountToIs
<1>. QED  BY <1>2, <1>3


----------------------------------------------------------------------------
(* Filling slots.                                                          *)

\* An inventory is a list.
LEMMA SlotsAreLists ==
  ASSUME NEW inv, Slots(inv)
  PROVE  /\ inv \in Lists /\ inv \in Seq(Slot) /\ DOMAIN inv = 1..Len(inv) /\ Len(inv) \in Nat
         /\ \A s \in DOMAIN inv : /\ inv[s] \in Slot /\ inv[s].id \in Items \cup {Empty}
                                  /\ inv[s].amount \in Nat /\ inv[s].amount <= MaxStack
                                  /\ (inv[s].id = Empty) <=> (inv[s].amount = 0)
<1>1. Slot \subseteq [id : Items \cup {Empty}, amount : Nat]
  BY DEF Slot
<1>2. PICK R : R = Slot /\ R \subseteq [id : Items \cup {Empty}, amount : Nat]
  BY <1>1
<1>3. inv \in Seq(R)
  BY <1>2 DEF Slots
<1>4. inv \in Lists
  <2>1. PICK Q : Q = [id : Items \cup {Empty}, amount : Nat] /\ R \subseteq Q
    BY <1>2
  <2>2. inv \in Seq(Q)
    BY <1>3, <2>1, SeqMonotonic
  <2>. QED  BY <2>1, <2>2 DEF Lists
<1>5. DOMAIN inv = 1..Len(inv) /\ Len(inv) \in Nat /\ \A s \in DOMAIN inv : inv[s] \in R
  BY <1>3
<1>6. \A s \in DOMAIN inv : /\ inv[s].id \in Items \cup {Empty}
                            /\ inv[s].amount \in Nat /\ inv[s].amount <= MaxStack
  BY <1>2, <1>5, ExchangeAssumption DEF Slot
<1>. QED  BY <1>2, <1>3, <1>4, <1>5, <1>6 DEF Slots

\* While slots are filled, with what is left of it: n slots, with what they
\* have and what is left together A[id] of each item.
Filling(n, it, A) ==
  {f \in [inv : Seq(Slot), left : Nat] :
     /\ Slots(f.inv) /\ Len(f.inv) = n
     /\ \A id \in Items :
          Amount(f.inv, id) + (IF it.id = id THEN f.left ELSE 0) = A[id]}

\* new is inv with x in slot s, or a function that changed in one place.
OnlyAt(inv, s, x, new) == new = [inv EXCEPT ![s] = x]
ChangesBy(inv, s, x, new) ==
  /\ Slots(new) /\ Len(new) = Len(inv)
  /\ \A id \in Items : /\ Of(inv[s], id) \in Nat /\ Of(x, id) \in Nat
                       /\ Amount(inv, id) \in Nat /\ Amount(new, id) \in Nat
                       /\ Amount(new, id) + Of(inv[s], id) = Amount(inv, id) + Of(x, id)

\* A slot of an inventory is exchanged for another one.
LEMMA SlotsChange ==
  ASSUME NEW inv, Slots(inv), NEW s \in DOMAIN inv, NEW x \in Slot,
         (x.id = Empty) <=> (x.amount = 0),
         NEW new, OnlyAt(inv, s, x, new)
  PROVE  ChangesBy(inv, s, x, new)
<1>1. new = [inv EXCEPT ![s] = x]
  BY DEF OnlyAt
<1>2. inv \in Seq(Slot) /\ inv \in Lists
  BY SlotsAreLists
<1>3. new \in Seq(Slot) /\ Len(new) = Len(inv) /\ DOMAIN new = DOMAIN inv
  BY <1>1, <1>2
<1>4. new[s] = x /\ \A t \in DOMAIN inv \ {s} : new[t] = inv[t]
  BY <1>1, <1>2
<1>5. Slots(new)
  <2>1. \A t \in DOMAIN new : (new[t].id = Empty) <=> (new[t].amount = 0)
    BY <1>3, <1>4 DEF Slots
  <2>. QED  BY <1>3, <2>1 DEF Slots
<1>6. new \in Lists
  BY <1>5, SlotsAreLists
<1>7. ASSUME NEW id \in Items
      PROVE  /\ Of(inv[s], id) \in Nat /\ Of(x, id) \in Nat
             /\ Amount(inv, id) \in Nat /\ Amount(new, id) \in Nat
             /\ Amount(new, id) + Of(inv[s], id) = Amount(inv, id) + Of(x, id)
  <2>1. /\ Of(inv[s], id) \in Nat /\ Of(new[s], id) \in Nat
        /\ Amount(new, id) + Of(inv[s], id) = Amount(inv, id) + Of(new[s], id)
    BY <1>2, <1>3, <1>4, <1>6, AmountChange
  <2>2. Amount(inv, id) \in Nat /\ Amount(new, id) \in Nat
    BY <1>2, <1>6, AmountIs
  <2>. QED  BY <1>4, <2>1, <2>2
<1>. QED  BY <1>3, <1>5, <1>7 DEF ChangesBy

\* Putting some of it in a slot keeps the sum.
LEMMA PutKeeps ==
  ASSUME NEW n \in Nat, NEW it, it.id \in Items, NEW A, NEW f \in Filling(n, it, A),
         NEW s \in 1..n, f.inv[s].id \in {it.id, Empty}
  PROVE  Put(f, s, it) \in Filling(n, it, A)
<1>1. /\ Slots(f.inv) /\ Len(f.inv) = n /\ f.left \in Nat
      /\ \A id \in Items : Amount(f.inv, id) + (IF it.id = id THEN f.left ELSE 0) = A[id]
  BY DEF Filling
<1>2. PICK inv, left, x, m :
        inv = f.inv /\ left = f.left /\ x = inv[s] /\ m = Least(left, MaxStack - x.amount)
  OBVIOUS
<1>3. /\ DOMAIN inv = 1..n /\ x.amount \in Nat /\ x.amount <= MaxStack
      /\ (x.id = Empty) <=> (x.amount = 0)
  BY <1>1, <1>2, SlotsAreLists
<1>4. m \in Nat /\ m <= left /\ x.amount + m <= MaxStack
  <2>1. MaxStack \in Nat /\ left \in Nat
    BY <1>1, <1>2, ExchangeAssumption
  <2>2. m = IF left <= MaxStack - x.amount THEN left ELSE MaxStack - x.amount
    BY <1>2 DEF Least
  <2>. QED  BY <1>3, <2>1, <2>2
<1>5. CASE m = 0
  BY <1>2, <1>5 DEF Put
<1>6. CASE m # 0
  <2>1. PICK y : y = [id |-> it.id, amount |-> x.amount + m]
    OBVIOUS
  <2>2. y \in Slot /\ y.id = it.id /\ y.amount = x.amount + m
    BY <1>3, <1>4, <2>1, ExchangeAssumption DEF Slot
  <2>3. y.id # Empty /\ y.amount # 0
    BY <1>3, <1>4, <1>6, <2>2, ExchangeAssumption
  <2>4. PICK new : new = [inv EXCEPT ![s] = y]
    OBVIOUS
  <2>5. /\ Slots(new) /\ Len(new) = n
        /\ \A id \in Items : /\ Of(x, id) \in Nat /\ Of(y, id) \in Nat
                             /\ Amount(inv, id) \in Nat /\ Amount(new, id) \in Nat
                             /\ Amount(new, id) + Of(x, id) = Amount(inv, id) + Of(y, id)
    <3>1. Slots(inv) /\ s \in DOMAIN inv /\ Len(inv) = n
      BY <1>1, <1>2, <1>3
    <3>2. (y.id = Empty) <=> (y.amount = 0)
      BY <2>3
    <3>3. ChangesBy(inv, s, y, new)
      BY <2>2, <2>4, <3>1, <3>2, SlotsChange DEF OnlyAt
    <3>. QED  BY <1>2, <3>1, <3>3 DEF ChangesBy
  <2>6. PICK r : r = [inv |-> new, left |-> left - m]
    OBVIOUS
  <2>7. Put(f, s, it) = r
    BY <1>2, <1>6, <2>1, <2>4, <2>6 DEF Put
  <2>8. new \in Seq(Slot) /\ left - m \in Nat
    BY <1>1, <1>2, <1>4, <2>5 DEF Slots
  <2>9. r \in [inv : Seq(Slot), left : Nat] /\ r.inv = new /\ r.left = left - m
    BY <2>6, <2>8
  <2>10. ASSUME NEW id \in Items
         PROVE  Amount(new, id) + (IF it.id = id THEN left - m ELSE 0) = A[id]
    <3>1. Of(y, id) = IF it.id = id THEN x.amount + m ELSE 0
      BY <2>2 DEF Of
    <3>2. Of(x, id) = IF it.id = id THEN x.amount ELSE 0
      BY <1>2, <1>3, ExchangeAssumption DEF Of
    <3>3. Amount(inv, id) + (IF it.id = id THEN left ELSE 0) = A[id]
      BY <1>1, <1>2
    <3>4. PICK a, b : a = Amount(inv, id) /\ b = Amount(new, id)
      OBVIOUS
    <3>5. a \in Nat /\ b \in Nat /\ b + Of(x, id) = a + Of(y, id)
      BY <2>5, <3>4
    <3>6. CASE it.id = id
      <4>1. b + x.amount = a + (x.amount + m) /\ a + left = A[id]
        BY <3>1, <3>2, <3>3, <3>4, <3>5, <3>6
      <4>2. left \in Nat /\ m \in Nat /\ x.amount \in Nat /\ a \in Nat /\ b \in Nat
        BY <1>1, <1>2, <1>3, <1>4, <3>5
      <4>3. b + (left - m) = A[id]
        BY <4>1, <4>2
      <4>. QED  BY <3>4, <3>6, <4>3
    <3>7. CASE it.id # id
      BY <3>1, <3>2, <3>3, <3>4, <3>5, <3>7
    <3>. QED  BY <3>6, <3>7
  <2>. QED  BY <2>5, <2>7, <2>9, <2>10 DEF Filling
<1>. QED  BY <1>5, <1>6

\* So does filling all slots of a kind.
LEMMA FillKeeps ==
  ASSUME NEW n \in Nat, NEW it, it.id \in Items, NEW A, NEW f \in Filling(n, it, A),
         NEW has \in {it.id, Empty}
  PROVE  FillSlots(f, has, it) \in Filling(n, it, A)
<1> DEFINE V == Filling(n, it, A)
           Step(g, s) == IF g.inv[s].id = has THEN Put(g, s, it) ELSE g
           F == [s \in 1..n |-> [g \in V |-> Step(g, s)]]
           Eq(g) == g = [s \in SUBSET (1..n) |->
                           IF s = {} THEN f ELSE Step(g[s \ {Max(s)}], Max(s))]
<1>1. DOMAIN f.inv = 1..n
  BY SlotsAreLists DEF Filling
<1>2. FillSlots(f, has, it) = (CHOOSE g : Eq(g))[1..n]
  <2> DEFINE seq == [x \in 1..n |-> x]
             Eq0(g) == g = [s \in SUBSET (1..n) |->
                              IF s = {} THEN f
                              ELSE Step(g[s \ {Max(s)}], seq[Max(s)])]
  <2>1. \A s \in SUBSET (1..n) : s # {} => seq[Max(s)] = Max(s)
    BY GreatestIsThere
  <2>2. FillSlots(f, has, it) = (CHOOSE g : Eq0(g))[1..n]
    <3>1. DOMAIN seq = 1..n
      OBVIOUS
    <3>. QED  BY <1>1, <3>1 DEF FillSlots, FoldLeft, MapThenFoldSet
  <2>3. \A g : Eq0(g) <=> Eq(g)
    <3>. HIDE DEF Step, seq
    <3>1. ASSUME NEW g
          PROVE  [s \in SUBSET (1..n) |->
                    IF s = {} THEN f ELSE Step(g[s \ {Max(s)}], seq[Max(s)])]
                   = [s \in SUBSET (1..n) |->
                        IF s = {} THEN f ELSE Step(g[s \ {Max(s)}], Max(s))]
      BY <2>1
    <3>. QED  BY <3>1
  <2>. HIDE DEF Eq0, Eq
  <2>. QED  BY <2>2, <2>3, Zenon
<1>3. \A s \in 1..n : \A g \in V : Step(g, s) \in V
  BY PutKeeps
<1>4. \A s \in 1..n : \A g \in V : F[s][g] = Step(g, s) /\ F[s][g] \in V
  BY <1>3
<1>. HIDE DEF V, F, Step
<1>5. PICK h \in [SUBSET (1..n) -> V] : Folded(n, F, f, h)
  BY <1>4, FoldExists DEF V
<1>6. Eq(h)
  <2>1. ASSUME NEW s \in SUBSET (1..n)
        PROVE  h[s] = IF s = {} THEN f ELSE Step(h[s \ {Max(s)}], Max(s))
    <3>1. CASE s = {}
      BY <1>5, <3>1 DEF Folded
    <3>2. CASE s # {}
      <4>1. Max(s) \in 1..n /\ h[s \ {Max(s)}] \in V
        BY <1>5, <3>2, GreatestIsThere
      <4>2. h[s] = F[Max(s)][h[s \ {Max(s)}]]
        BY <1>5, <3>2 DEF Folded
      <4>. QED  BY <1>4, <3>2, <4>1, <4>2
    <3>. QED  BY <3>1, <3>2
  <2>. QED  BY <1>5, <2>1
<1>7. PICK g : g = (CHOOSE e : Eq(e)) /\ Eq(g)
  BY <1>6
<1>8. Climbs(n, V, F, f, g)
  <2>1. ASSUME NEW s \in SUBSET (1..n), s # {}, g[s \ {Max(s)}] \in V
        PROVE  g[s] = F[Max(s)][g[s \ {Max(s)}]]
    <3>1. Max(s) \in 1..n
      BY <2>1, GreatestIsThere
    <3>2. g[s] = Step(g[s \ {Max(s)}], Max(s))
      BY <1>7, <2>1
    <3>. QED  BY <1>4, <2>1, <3>1, <3>2
  <2>2. \A s \in SUBSET (1..n) : s = {} => g[s] = f
    BY <1>7
  <2>. QED  BY <2>1, <2>2 DEF Climbs
<1>9. PICK W : W = [i \in 0..n |-> V]
  OBVIOUS
<1>10. g[1..n] \in W[n]
  <2>1. f \in W[0] /\ \A i \in 0..n : W[i] \subseteq V
    BY <1>9 DEF V
  <2>2. \A i \in 1..n : \A v \in W[i - 1] : F[i][v] \in W[i]
    BY <1>4, <1>9
  <2>. QED  BY <1>8, <2>1, <2>2, FoldClimbs
<1>. QED  BY <1>2, <1>7, <1>9, <1>10 DEF V


----------------------------------------------------------------------------
(* Players, and what there is of an item.                                  *)

Offers == [id : Items, amount : 1..MaxStack]
Exchanges == [target : Players \cup {NoOne}, item : Seq(Offers),
              gold : 0..MoneyWrap - 1, done : BOOLEAN]
Worlds ==
  {w \in [inv : [Players -> Seq(Slot)], money : [Players -> 0..MoneyWrap - 1],
          ex : [Players -> Exchanges], floor : [Items -> Nat]] :
     \A p \in Players : Slots(w.inv[p])}

\* The fields of one.
LEMMA WorldFields ==
  ASSUME NEW w \in Worlds
  PROVE  /\ w.inv \in [Players -> Seq(Slot)] /\ w.money \in [Players -> 0..MoneyWrap - 1]
         /\ w.ex \in [Players -> Exchanges] /\ w.floor \in [Items -> Nat]
         /\ w = [inv |-> w.inv, money |-> w.money, ex |-> w.ex, floor |-> w.floor]
         /\ \A p \in Players :
              /\ Slots(w.inv[p]) /\ w.inv[p] \in Lists
              /\ w.ex[p] \in Exchanges /\ w.ex[p].item \in Seq(Offers)
              /\ w.ex[p].item \in Lists
              /\ w.ex[p].gold \in 0..MoneyWrap - 1
<1>1. /\ w.inv \in [Players -> Seq(Slot)] /\ w.money \in [Players -> 0..MoneyWrap - 1]
      /\ w.ex \in [Players -> Exchanges] /\ w.floor \in [Items -> Nat]
      /\ w = [inv |-> w.inv, money |-> w.money, ex |-> w.ex, floor |-> w.floor]
  BY DEF Worlds
<1>2. ASSUME NEW p \in Players PROVE Slots(w.inv[p]) /\ w.inv[p] \in Lists
  <2>1. Slots(w.inv[p])
    BY DEF Worlds
  <2>. QED  BY <2>1, SlotsAreLists
<1>3. ASSUME NEW p \in Players
      PROVE  /\ w.ex[p] \in Exchanges /\ w.ex[p].item \in Seq(Offers)
             /\ w.ex[p].item \in Lists
             /\ w.ex[p].gold \in 0..MoneyWrap - 1
  <2>1. PICK e : e = w.ex[p]
    OBVIOUS
  <2>2. e \in Exchanges
    BY <1>1, <2>1
  <2>3. e.item \in Seq(Offers) /\ e.gold \in 0..MoneyWrap - 1
    BY <2>2 DEF Exchanges
  <2>4. Offers \subseteq [id : Items \cup {Empty}, amount : Nat]
    BY DEF Offers
  <2>5. e.item \in Lists
    BY <2>3, <2>4, SeqMonotonic DEF Lists
  <2>. QED  BY <2>1, <2>2, <2>3, <2>5
<1>. QED  BY <1>1, <1>2, <1>3

\* Making one.
MadeOf(w, inv, purses, ex, floor) ==
  /\ w = [inv |-> inv, money |-> purses, ex |-> ex, floor |-> floor]
  /\ inv \in [Players -> Seq(Slot)] /\ \A p \in Players : Slots(inv[p])
  /\ purses \in [Players -> 0..MoneyWrap - 1] /\ ex \in [Players -> Exchanges]
  /\ floor \in [Items -> Nat]

\* It is one, with those fields.
LEMMA WorldMade ==
  ASSUME NEW w, NEW inv, NEW purses, NEW ex, NEW floor,
         MadeOf(w, inv, purses, ex, floor)
  PROVE  w \in Worlds /\ w.inv = inv /\ w.money = purses /\ w.ex = ex /\ w.floor = floor
<1>1. /\ w \in [inv : [Players -> Seq(Slot)], money : [Players -> 0..MoneyWrap - 1],
                ex : [Players -> Exchanges], floor : [Items -> Nat]]
      /\ w.inv = inv /\ w.money = purses /\ w.ex = ex /\ w.floor = floor
  BY DEF MadeOf
<1>2. \A p \in Players : Slots(w.inv[p])
  BY <1>1 DEF MadeOf
<1>. QED  BY <1>1, <1>2 DEF Worlds

\* The units of an item.
Stock(w, id) == Units(w.inv, w.ex, w.floor[id], id)
OwnOf(w, p, id) == Amount(w.inv[p], id) + Amount(w.ex[p].item, id)
OwnOfEach(w, id) == [p \in Players |-> OwnOf(w, p, id)]

\* They are a sum.
LEMMA StockIs ==
  ASSUME NEW w \in Worlds, NEW id \in Items
  PROVE  /\ Amounts(OwnOfEach(w, id), Players)
         /\ w.floor[id] \in Nat /\ SumOf(OwnOfEach(w, id), Players) \in Nat
         /\ Stock(w, id) \in Nat
         /\ Stock(w, id) = w.floor[id] + SumOf(OwnOfEach(w, id), Players)
<1>1. \A p \in Players : OwnOf(w, p, id) \in Nat
  BY WorldFields, AmountIs DEF OwnOf
<1>2. Amounts(OwnOfEach(w, id), Players)
  BY <1>1 DEF Amounts, OwnOfEach
<1>3. SumOf(OwnOfEach(w, id), Players) \in Nat
  BY <1>2, SumSplit, ExchangeAssumption
<1>4. w.floor[id] \in Nat
  BY WorldFields
<1>5. DOMAIN OwnOfEach(w, id) = Players
  BY DEF OwnOfEach
<1>6. Stock(w, id) = w.floor[id] + Sum(OwnOfEach(w, id))
  BY DEF Stock, Units, OwnOfEach, OwnOf
<1>7. Stock(w, id) = w.floor[id] + SumOf(OwnOfEach(w, id), Players)
  BY <1>5, <1>6, SumIs
<1>. QED  BY <1>2, <1>3, <1>4, <1>7

\* What belongs to the others is the same.
OthersSame(w, v, p) ==
  \A r \in Players \ {p} : v.inv[r] = w.inv[r] /\ v.ex[r].item = w.ex[r].item

\* The stock changes by what one player and the floor gain and lose.
LEMMA StockChange ==
  ASSUME NEW w \in Worlds, NEW v \in Worlds, NEW p \in Players, OthersSame(w, v, p),
         NEW id \in Items
  PROVE  /\ OwnOf(w, p, id) \in Nat /\ OwnOf(v, p, id) \in Nat
         /\ Stock(v, id) + w.floor[id] + OwnOf(w, p, id)
              = Stock(w, id) + v.floor[id] + OwnOf(v, p, id)
<1> DEFINE f == OwnOfEach(w, id)
           g == OwnOfEach(v, id)
<1>1. /\ Amounts(f, Players) /\ Amounts(g, Players)
      /\ w.floor[id] \in Nat /\ v.floor[id] \in Nat
      /\ Stock(w, id) = w.floor[id] + SumOf(f, Players)
      /\ Stock(v, id) = v.floor[id] + SumOf(g, Players)
  BY StockIs
<1>2. \A r \in Players \ {p} : f[r] = g[r]
  BY DEF OwnOfEach, OwnOf, OthersSame
<1>3. f[p] = OwnOf(w, p, id) /\ g[p] = OwnOf(v, p, id)
  BY DEF OwnOfEach
<1>. HIDE DEF f, g
<1>4. /\ SumOf(f, Players) \in Nat /\ SumOf(g, Players) \in Nat
      /\ f[p] \in Nat /\ g[p] \in Nat
      /\ SumOf(f, Players) + g[p] = SumOf(g, Players) + f[p]
  BY <1>1, <1>2, SumChange, ExchangeAssumption
<1>. QED  BY <1>1, <1>3, <1>4

\* v is w with so much more of each item, in the inventory of p or on the floor.
Gains(w, v, p, More) ==
  /\ v \in Worlds /\ v.money = w.money /\ v.ex = w.ex
  /\ \A r \in Players \ {p} : v.inv[r] = w.inv[r]
  /\ \A id \in Items : Stock(v, id) = Stock(w, id) + More[id]

\* An item that is added is there.
LEMMA AdditemGains ==
  ASSUME NEW w \in Worlds, NEW p \in Players, NEW it \in [id : Items, amount : Nat],
         NEW v, v = pc_additem(w, p, it)
  PROVE  Gains(w, v, p, [id \in Items |-> Of(it, id)])
<1>1. it.id \in Items /\ it.amount \in Nat
  OBVIOUS
<1>2. PICK inv, n : inv = w.inv[p] /\ n = Len(inv)
  OBVIOUS
<1>3. Slots(inv) /\ n \in Nat /\ inv \in Seq(Slot) /\ inv \in Lists
  BY <1>2, WorldFields, SlotsAreLists
<1>4. PICK start : start = [inv |-> inv, left |-> it.amount]
  OBVIOUS
<1>5. PICK A : A = [id \in Items |-> Amount(inv, id) + (IF it.id = id THEN it.amount ELSE 0)]
  OBVIOUS
<1>6. start \in Filling(n, it, A)
  <2>1. start \in [inv : Seq(Slot), left : Nat] /\ start.inv = inv /\ start.left = it.amount
    BY <1>1, <1>3, <1>4
  <2>2. \A id \in Items : Amount(inv, id) + (IF it.id = id THEN it.amount ELSE 0) = A[id]
    BY <1>5
  <2>. QED  BY <1>2, <1>3, <2>1, <2>2 DEF Filling
<1>7. PICK f : f = FillSlots(FillSlots(start, it.id, it), Empty, it)
  OBVIOUS
<1>8. f \in Filling(n, it, A)
  <2>1. FillSlots(start, it.id, it) \in Filling(n, it, A)
    BY <1>1, <1>3, <1>6, FillKeeps
  <2>. QED  BY <1>1, <1>3, <1>7, <2>1, FillKeeps
<1>9. /\ f.inv \in Seq(Slot) /\ f.left \in Nat /\ Slots(f.inv)
      /\ \A id \in Items : Amount(f.inv, id) + (IF it.id = id THEN f.left ELSE 0) = A[id]
  BY <1>8 DEF Filling
<1>10. v = [w EXCEPT !.inv[p] = f.inv, !.floor[it.id] = @ + f.left]
  BY <1>2, <1>4, <1>7 DEF pc_additem
<1>11. PICK I, G : /\ I = [w.inv EXCEPT ![p] = f.inv]
                   /\ G = [w.floor EXCEPT ![it.id] = @ + f.left]
  OBVIOUS
<1>12. /\ w.inv \in [Players -> Seq(Slot)] /\ w.money \in [Players -> 0..MoneyWrap - 1]
       /\ w.ex \in [Players -> Exchanges] /\ w.floor \in [Items -> Nat]
       /\ w = [inv |-> w.inv, money |-> w.money, ex |-> w.ex, floor |-> w.floor]
       /\ \A r \in Players : Slots(w.inv[r]) /\ w.ex[r].item \in Lists
  BY WorldFields
<1>13. v = [inv |-> I, money |-> w.money, ex |-> w.ex, floor |-> G]
  BY <1>10, <1>11, <1>12
<1>14. /\ I \in [Players -> Seq(Slot)] /\ \A r \in Players : Slots(I[r])
       /\ I[p] = f.inv /\ \A r \in Players \ {p} : I[r] = w.inv[r]
  BY <1>9, <1>11, <1>12
<1>15. /\ G \in [Items -> Nat]
       /\ \A id \in Items : G[id] = w.floor[id] + (IF it.id = id THEN f.left ELSE 0)
  <2>1. PICK fl, i, l : fl = w.floor /\ i = it.id /\ l = f.left
    OBVIOUS
  <2>2. fl \in [Items -> Nat] /\ i \in Items /\ l \in Nat /\ G = [fl EXCEPT ![i] = fl[i] + l]
    BY <1>1, <1>9, <1>11, <1>12, <2>1
  <2>3. G \in [Items -> Nat]
    BY <2>2
  <2>4. \A id \in Items : G[id] = fl[id] + (IF i = id THEN l ELSE 0)
    BY <2>2
  <2>. QED  BY <2>1, <2>3, <2>4
<1>16. v \in Worlds /\ v.inv = I /\ v.money = w.money /\ v.ex = w.ex /\ v.floor = G
  <2>1. MadeOf(v, I, w.money, w.ex, G)
    BY <1>12, <1>13, <1>14, <1>15 DEF MadeOf
  <2>. QED  BY <2>1, WorldMade
<1>17. ASSUME NEW id \in Items PROVE Stock(v, id) = Stock(w, id) + Of(it, id)
  <2>1. OthersSame(w, v, p)
    BY <1>14, <1>16 DEF OthersSame
  <2>2. /\ OwnOf(w, p, id) \in Nat /\ OwnOf(v, p, id) \in Nat
        /\ Stock(v, id) + w.floor[id] + OwnOf(w, p, id)
             = Stock(w, id) + v.floor[id] + OwnOf(v, p, id)
    BY <1>16, <2>1, StockChange
  <2>3. PICK a, b, o : a = Amount(inv, id) /\ b = Amount(f.inv, id) /\ o = Amount(w.ex[p].item, id)
    OBVIOUS
  <2>4. a \in Nat /\ b \in Nat /\ o \in Nat
    BY <1>3, <1>9, <1>12, <2>3, AmountIs, SlotsAreLists
  <2>5. OwnOf(w, p, id) = a + o /\ OwnOf(v, p, id) = b + o
    BY <1>2, <1>14, <1>16, <2>3 DEF OwnOf
  <2>6. b + (IF it.id = id THEN f.left ELSE 0) = a + (IF it.id = id THEN it.amount ELSE 0)
    BY <1>5, <1>9, <2>3
  <2>7. v.floor[id] = w.floor[id] + (IF it.id = id THEN f.left ELSE 0)
    BY <1>15, <1>16
  <2>8. Of(it, id) = IF it.id = id THEN it.amount ELSE 0
    BY DEF Of
  <2>9. Stock(v, id) \in Nat /\ Stock(w, id) \in Nat /\ w.floor[id] \in Nat
    BY <1>16, StockIs
  <2>10. PICK s, t, u : s = Stock(v, id) /\ t = Stock(w, id) /\ u = w.floor[id]
    OBVIOUS
  <2>11. CASE it.id = id
    <3>1. s + u + (a + o) = t + (u + f.left) + (b + o) /\ b + f.left = a + it.amount
      <4>1. b + f.left = a + it.amount /\ v.floor[id] = u + f.left
        BY <2>6, <2>7, <2>10, <2>11
      <4>. QED  BY <2>2, <2>5, <2>10, <4>1
    <3>2. PICK l, m : l = f.left /\ m = it.amount
      OBVIOUS
    <3>3. /\ s + u + (a + o) = t + (u + l) + (b + o) /\ b + l = a + m
          /\ l \in Nat /\ m \in Nat /\ a \in Nat /\ b \in Nat /\ o \in Nat
          /\ s \in Nat /\ t \in Nat /\ u \in Nat
      BY <1>1, <1>9, <2>4, <2>9, <2>10, <3>1, <3>2
    <3>4. s = t + m
      BY <3>3
    <3>. QED  BY <2>8, <2>10, <2>11, <3>2, <3>4
  <2>12. CASE it.id # id
    <3>1. s + u + (a + o) = t + (u + 0) + (b + o) /\ b + 0 = a + 0
      <4>1. b + 0 = a + 0 /\ v.floor[id] = u + 0
        BY <2>6, <2>7, <2>10, <2>12
      <4>. QED  BY <2>2, <2>5, <2>10, <4>1
    <3>2. s = t + 0
      BY <2>4, <2>9, <2>10, <3>1
    <3>. QED  BY <2>8, <2>10, <2>12, <3>2
  <2>. QED  BY <2>11, <2>12
<1>. QED  BY <1>14, <1>16, <1>17 DEF Gains


\* So is a list that is added.
LEMMA AddAllGains ==
  ASSUME NEW w \in Worlds, NEW p \in Players, NEW list \in Seq(Offers),
         NEW v, v = AddAll(w, p, list)
  PROVE  Gains(w, v, p, [id \in Items |-> Amount(list, id)])
<1> DEFINE n == Len(list)
           Step(u, it) == pc_additem(u, p, it)
           F == [s \in 1..n |-> [u \in Worlds |-> Step(u, list[s])]]
           Eq(g) == g = [s \in SUBSET (1..n) |->
                           IF s = {} THEN w ELSE Step(g[s \ {Max(s)}], list[Max(s)])]
<1>1. n \in Nat /\ DOMAIN list = 1..n
  OBVIOUS
<1>2. AddAll(w, p, list) = (CHOOSE g : Eq(g))[1..n]
  BY <1>1 DEF AddAll, FoldLeft, MapThenFoldSet
<1>3. list \in Lists
  <2>1. Offers \subseteq [id : Items \cup {Empty}, amount : Nat]
    BY DEF Offers
  <2>. QED  BY <2>1, SeqMonotonic DEF Lists
<1>4. \A s \in 1..n : list[s] \in [id : Items, amount : Nat]
  <2>1. Offers \subseteq [id : Items, amount : Nat]
    BY DEF Offers
  <2>2. PICK R, Q : R = Offers /\ Q = [id : Items, amount : Nat]
    OBVIOUS
  <2>3. \A s \in 1..n : list[s] \in R
    BY <1>1, <2>2
  <2>. QED  BY <2>1, <2>2, <2>3
<1>5. ASSUME NEW s \in 1..n, NEW u \in Worlds
      PROVE  /\ Step(u, list[s]) \in Worlds
             /\ Gains(u, Step(u, list[s]), p, [id \in Items |-> Of(list[s], id)])
  <2>1. PICK x : x = Step(u, list[s])
    OBVIOUS
  <2>2. Gains(u, x, p, [id \in Items |-> Of(list[s], id)])
    BY <1>4, <2>1, AdditemGains
  <2>. QED  BY <2>1, <2>2 DEF Gains
<1>. HIDE DEF n, Step
<1>6. \A s \in 1..n : \A u \in Worlds : F[s][u] = Step(u, list[s]) /\ F[s][u] \in Worlds
  BY <1>5
<1>. HIDE DEF F
<1>7. PICK h \in [SUBSET (1..n) -> Worlds] : Folded(n, F, w, h)
  BY <1>1, <1>6, FoldExists
<1>8. Eq(h)
  <2>1. ASSUME NEW s \in SUBSET (1..n)
        PROVE  h[s] = IF s = {} THEN w ELSE Step(h[s \ {Max(s)}], list[Max(s)])
    <3>1. CASE s = {}
      BY <1>7, <3>1 DEF Folded
    <3>2. CASE s # {}
      <4>1. Max(s) \in 1..n /\ h[s \ {Max(s)}] \in Worlds
        BY <1>1, <1>7, <3>2, GreatestIsThere
      <4>2. h[s] = F[Max(s)][h[s \ {Max(s)}]]
        BY <1>7, <3>2 DEF Folded
      <4>. QED  BY <1>6, <3>2, <4>1, <4>2
    <3>. QED  BY <3>1, <3>2
  <2>. QED  BY <1>7, <2>1
<1>9. PICK g : g = (CHOOSE e : Eq(e)) /\ Eq(g)
  BY <1>8
<1>10. Climbs(n, Worlds, F, w, g)
  <2>1. ASSUME NEW s \in SUBSET (1..n), s # {}, g[s \ {Max(s)}] \in Worlds
        PROVE  g[s] = F[Max(s)][g[s \ {Max(s)}]]
    <3>1. Max(s) \in 1..n
      BY <1>1, <2>1, GreatestIsThere
    <3>2. g[s] = Step(g[s \ {Max(s)}], list[Max(s)])
      BY <1>9, <2>1
    <3>. QED  BY <1>6, <2>1, <3>1, <3>2
  <2>2. \A s \in SUBSET (1..n) : s = {} => g[s] = w
    BY <1>9
  <2>. QED  BY <2>1, <2>2 DEF Climbs
<1> DEFINE More(k) == [id \in Items |-> AmountTo(list, k, id)]
           W == [k \in 0..n |-> {u \in Worlds : Gains(w, u, p, More(k))}]
<1>11. w \in W[0]
  <2>1. \A id \in Items : AmountTo(list, 0, id) = 0 /\ Stock(w, id) \in Nat
    BY <1>3, AmountToIs, StockIs
  <2>2. Gains(w, w, p, More(0))
    BY <2>1 DEF Gains
  <2>. QED  BY <1>1, <2>2
<1>12. ASSUME NEW k \in 1..n, NEW u \in W[k - 1] PROVE F[k][u] \in W[k]
  <2>1. u \in Worlds /\ Gains(w, u, p, More(k - 1))
    BY <1>1
  <2>2. PICK x, it : x = Step(u, list[k]) /\ it = list[k]
    OBVIOUS
  <2>3. x \in Worlds /\ Gains(u, x, p, [id \in Items |-> Of(it, id)])
    BY <1>5, <2>1, <2>2
  <2>4. ASSUME NEW id \in Items PROVE Stock(x, id) = Stock(w, id) + More(k)[id]
    <3>1. Stock(u, id) = Stock(w, id) + AmountTo(list, k - 1, id)
      BY <2>1 DEF Gains
    <3>2. Stock(x, id) = Stock(u, id) + Of(it, id)
      BY <2>3 DEF Gains
    <3>3. /\ AmountTo(list, k - 1, id) \in Nat /\ Of(it, id) \in Nat
          /\ AmountTo(list, k, id) = AmountTo(list, k - 1, id) + Of(it, id)
      BY <1>3, <2>2, AmountToIs DEF n
    <3>4. Stock(w, id) \in Nat
      BY StockIs
    <3>. QED  BY <3>1, <3>2, <3>3, <3>4
  <2>5. /\ x.money = w.money /\ x.ex = w.ex
        /\ \A r \in Players \ {p} : x.inv[r] = w.inv[r]
    BY <2>1, <2>3 DEF Gains
  <2>. HIDE DEF More
  <2>6. Gains(w, x, p, More(k))
    BY <2>3, <2>4, <2>5 DEF Gains
  <2>7. F[k][u] = x
    BY <1>6, <2>1, <2>2
  <2>8. k \in 0..n
    BY <1>1
  <2>. QED  BY <2>3, <2>6, <2>7, <2>8
<1>13. g[1..n] \in W[n]
  <2>1. \A i \in 0..n : W[i] \subseteq Worlds
    OBVIOUS
  <2>. HIDE DEF W
  <2>. QED  BY <1>1, <1>10, <1>11, <1>12, <2>1, FoldClimbs
<1>14. v \in Worlds /\ Gains(w, v, p, More(n))
  <2>1. n \in 0..n
    BY <1>1
  <2>2. v = g[1..n]
    BY <1>2, <1>9
  <2>. HIDE DEF More
  <2>. QED  BY <1>13, <2>1, <2>2
<1>15. More(n) = [id \in Items |-> Amount(list, id)]
  BY <1>3, AmountToIs DEF n
<1>. HIDE DEF More
<1>. QED  BY <1>14, <1>15


----------------------------------------------------------------------------
(* What the handlers do to it.                                             *)

\* As much of each item as before.
Kept(w, v) == v \in Worlds /\ \A id \in Items : Stock(v, id) = Stock(w, id)

\* Another exchange for p.
Replaced(w, v, p, e) == v = [w EXCEPT !.ex[p] = e]

\* It changes the stock by the offers.
LEMMA ExReplaced ==
  ASSUME NEW w \in Worlds, NEW p \in Players, NEW e \in Exchanges,
         NEW v, Replaced(w, v, p, e)
  PROVE  /\ v \in Worlds /\ v.inv = w.inv /\ v.money = w.money /\ v.floor = w.floor
         /\ v.ex = [w.ex EXCEPT ![p] = e]
         /\ \A id \in Items :
              /\ Stock(v, id) \in Nat /\ Stock(w, id) \in Nat
              /\ Amount(w.ex[p].item, id) \in Nat /\ Amount(e.item, id) \in Nat
              /\ Stock(v, id) + Amount(w.ex[p].item, id) = Stock(w, id) + Amount(e.item, id)
<1>1. /\ w.inv \in [Players -> Seq(Slot)] /\ w.money \in [Players -> 0..MoneyWrap - 1]
      /\ w.ex \in [Players -> Exchanges] /\ w.floor \in [Items -> Nat]
      /\ w = [inv |-> w.inv, money |-> w.money, ex |-> w.ex, floor |-> w.floor]
      /\ \A r \in Players : Slots(w.inv[r]) /\ w.inv[r] \in Lists /\ w.ex[r].item \in Lists
  BY WorldFields
<1>2. PICK E : E = [w.ex EXCEPT ![p] = e]
  OBVIOUS
<1>3. E \in [Players -> Exchanges] /\ E[p] = e /\ \A r \in Players \ {p} : E[r] = w.ex[r]
  BY <1>1, <1>2
<1>4. v = [inv |-> w.inv, money |-> w.money, ex |-> E, floor |-> w.floor]
  BY <1>1, <1>2 DEF Replaced
<1>5. MadeOf(v, w.inv, w.money, E, w.floor)
  BY <1>1, <1>3, <1>4 DEF MadeOf
<1>6. v \in Worlds /\ v.inv = w.inv /\ v.money = w.money /\ v.ex = E /\ v.floor = w.floor
  BY <1>5, WorldMade
<1>7. OthersSame(w, v, p)
  BY <1>3, <1>6 DEF OthersSame
<1>8. e.item \in Lists
  <2>1. v.ex[p].item \in Lists
    BY <1>6, WorldFields
  <2>. QED  BY <1>3, <1>6, <2>1
<1>9. ASSUME NEW id \in Items
      PROVE  /\ Stock(v, id) \in Nat /\ Stock(w, id) \in Nat
             /\ Amount(w.ex[p].item, id) \in Nat /\ Amount(e.item, id) \in Nat
             /\ Stock(v, id) + Amount(w.ex[p].item, id) = Stock(w, id) + Amount(e.item, id)
  <2>1. PICK s, t, u, a, x, y :
          /\ s = Stock(v, id) /\ t = Stock(w, id) /\ u = w.floor[id]
          /\ a = Amount(w.inv[p], id)
          /\ x = Amount(w.ex[p].item, id) /\ y = Amount(e.item, id)
    OBVIOUS
  <2>2. s \in Nat /\ t \in Nat /\ u \in Nat
    BY <1>6, <2>1, StockIs
  <2>3. a \in Nat /\ x \in Nat /\ y \in Nat
    BY <1>1, <1>8, <2>1, AmountIs
  <2>4. OwnOf(w, p, id) = a + x /\ OwnOf(v, p, id) = a + y /\ v.floor[id] = u
    BY <1>3, <1>6, <2>1 DEF OwnOf
  <2>5. s + u + (a + x) = t + u + (a + y)
    BY <1>6, <1>7, <2>1, <2>4, StockChange
  <2>6. s + x = t + y
    BY <2>2, <2>3, <2>5
  <2>. QED  BY <2>1, <2>2, <2>3, <2>6
<1>. QED  BY <1>2, <1>6, <1>9

\* No exchange, and one of which only the target is left.
Blank(e) == [NoExchange EXCEPT !.target = e.target]

\* Both are exchanges; the second keeps the target only.
LEMMA BlankIs ==
  /\ NoExchange \in Exchanges
  /\ \A e \in Exchanges : /\ Blank(e) \in Exchanges /\ Blank(e).item = <<>>
                          /\ Blank(e).gold = 0 /\ Blank(e).done = FALSE
                          /\ Blank(e).target = e.target
<1>1. <<>> \in Seq(Offers) /\ 0 \in 0..MoneyWrap - 1
  BY ExchangeAssumption
<1>2. ASSUME NEW t \in Players \cup {NoOne}
      PROVE  [target |-> t, item |-> <<>>, gold |-> 0, done |-> FALSE] \in Exchanges
  BY <1>1 DEF Exchanges
<1>3. NoExchange \in Exchanges
  BY <1>2 DEF NoExchange
<1>4. ASSUME NEW e \in Exchanges
      PROVE  /\ Blank(e) \in Exchanges /\ Blank(e).item = <<>>
             /\ Blank(e).gold = 0 /\ Blank(e).done = FALSE
             /\ Blank(e).target = e.target
  <2>1. PICK t : t = e.target
    OBVIOUS
  <2>2. t \in Players \cup {NoOne}
    BY <2>1 DEF Exchanges
  <2>3. Blank(e) = [target |-> t, item |-> <<>>, gold |-> 0, done |-> FALSE]
    <3>1. ASSUME NEW i, NEW g, NEW d
          PROVE  [[target |-> NoOne, item |-> i, gold |-> g, done |-> d] EXCEPT !.target = t]
                   = [target |-> t, item |-> i, gold |-> g, done |-> d]
      OBVIOUS
    <3>2. [NoExchange EXCEPT !.target = t]
            = [target |-> t, item |-> <<>>, gold |-> 0, done |-> FALSE]
      BY <3>1, Zenon DEF NoExchange
    <3>. QED  BY <2>1, <3>2, Zenon DEF Blank
  <2>. QED  BY <1>2, <2>1, <2>2, <2>3
<1>. QED  BY <1>3, <1>4

\* Giving an offer back keeps the units.
LEMMA CloseKeeps ==
  ASSUME NEW w \in Worlds, NEW p \in Players, NEW v, v = clif_exchange_close(w, p)
  PROVE  /\ Kept(w, v) /\ v.money = w.money /\ v.ex = [w.ex EXCEPT ![p] = NoExchange]
<1>1. PICK list : list = w.ex[p].item
  OBVIOUS
<1>2. list \in Seq(Offers) /\ list \in Lists
  BY <1>1, WorldFields
<1>3. PICK u : u = AddAll(w, p, list)
  OBVIOUS
<1>4. Gains(w, u, p, [id \in Items |-> Amount(list, id)])
  BY <1>2, <1>3, AddAllGains
<1>5. u \in Worlds /\ u.money = w.money /\ u.ex = w.ex
      /\ \A id \in Items : Stock(u, id) = Stock(w, id) + Amount(list, id)
  BY <1>4 DEF Gains
<1>6. Replaced(u, v, p, NoExchange)
  BY <1>1, <1>3 DEF clif_exchange_close, Replaced
<1>7. NoExchange \in Exchanges /\ NoExchange.item = <<>>
  BY BlankIs DEF NoExchange
<1>8. /\ v \in Worlds /\ v.money = u.money /\ v.ex = [u.ex EXCEPT ![p] = NoExchange]
      /\ \A id \in Items :
           /\ Stock(v, id) \in Nat
           /\ Stock(v, id) + Amount(u.ex[p].item, id) = Stock(u, id) + Amount(NoExchange.item, id)
  BY <1>5, <1>6, <1>7, ExReplaced
<1>9. ASSUME NEW id \in Items PROVE Stock(v, id) = Stock(w, id)
  <2>1. Amount(list, id) \in Nat /\ Stock(w, id) \in Nat /\ Amount(<<>>, id) = 0
    BY <1>2, AmountIs, StockIs, AmountOfNone
  <2>2. Stock(v, id) + Amount(list, id) = Stock(w, id) + Amount(list, id) + 0
    <3>1. Amount(u.ex[p].item, id) = Amount(list, id) /\ Amount(NoExchange.item, id) = 0
      BY <1>1, <1>5, <1>7, <2>1
    <3>2. Stock(v, id) + Amount(u.ex[p].item, id) = Stock(u, id) + Amount(NoExchange.item, id)
      BY <1>8
    <3>3. Stock(u, id) = Stock(w, id) + Amount(list, id)
      BY <1>5
    <3>. QED  BY <3>1, <3>2, <3>3
  <2>. QED  BY <1>8, <2>1, <2>2
<1>. QED  BY <1>5, <1>8, <1>9 DEF Kept

\* The offer of p is gone, with its units.
Taken(w, v, p) ==
  /\ v \in Worlds /\ v.money = w.money /\ v.ex = [w.ex EXCEPT ![p] = Blank(w.ex[p])]
  /\ \A id \in Items :
       /\ Stock(v, id) \in Nat /\ Amount(w.ex[p].item, id) \in Nat
       /\ Stock(v, id) + Amount(w.ex[p].item, id) = Stock(w, id)

\* Dropping an offer takes its units away.
LEMMA CleanupTakes ==
  ASSUME NEW w \in Worlds, NEW p \in Players, NEW v, v = clif_exchange_cleanup(w, p)
  PROVE  Taken(w, v, p)
<1>1. PICK e : e = Blank(w.ex[p])
  OBVIOUS
<1>2. e \in Exchanges /\ e.item = <<>>
  BY <1>1, WorldFields, BlankIs
<1>3. Replaced(w, v, p, e)
  BY <1>1 DEF clif_exchange_cleanup, Blank, Replaced
<1>4. /\ v \in Worlds /\ v.money = w.money /\ v.ex = [w.ex EXCEPT ![p] = e]
      /\ \A id \in Items :
           /\ Stock(v, id) \in Nat /\ Stock(w, id) \in Nat
           /\ Amount(w.ex[p].item, id) \in Nat
           /\ Stock(v, id) + Amount(w.ex[p].item, id) = Stock(w, id) + Amount(e.item, id)
  BY <1>2, <1>3, ExReplaced
<1>5. ASSUME NEW id \in Items
      PROVE  /\ Stock(v, id) \in Nat /\ Amount(w.ex[p].item, id) \in Nat
             /\ Stock(v, id) + Amount(w.ex[p].item, id) = Stock(w, id)
  <2>1. Amount(e.item, id) = 0
    BY <1>2, AmountOfNone
  <2>. QED  BY <1>4, <2>1
<1>. QED  BY <1>1, <1>4, <1>5 DEF Taken

----------------------------------------------------------------------------
(* Gold.                                                                   *)

\* Remainders of sums and differences of purses.
LEMMA PurseWraps ==
  ASSUME NEW a \in 0..MoneyWrap - 1, NEW b \in 0..MoneyWrap - 1
  PROVE  /\ (a + b) % MoneyWrap \in 0..MoneyWrap - 1
         /\ (a + MoneyWrap - b) % MoneyWrap \in 0..MoneyWrap - 1
         /\ a + b < MoneyWrap => (a + b) % MoneyWrap = a + b
         /\ b <= a => (a + MoneyWrap - b) % MoneyWrap = a - b
<1> DEFINE W == MoneyWrap
<1>1. W \in Nat \ {0}
  BY ExchangeAssumption
<1>. HIDE DEF W
<1>2. a \in 0..W - 1 /\ b \in 0..W - 1
  BY DEF W
<1>3. \A x \in Nat : x % W \in 0..W - 1
  BY <1>1
<1>4. \A x \in 0..W - 1 : x % W = x
  BY <1>1
<1>5. ASSUME NEW x \in 0..W - 1 PROVE (x + W) % W = x
  BY <1>1, SMTT(30)
<1>6. a + b \in Nat /\ a + W - b \in Nat
  BY <1>1, <1>2
<1>7. ASSUME a + b < W PROVE (a + b) % W = a + b
  BY <1>1, <1>2, <1>4, <1>7
<1>8. ASSUME b <= a PROVE (a + W - b) % W = a - b
  <2>1. a - b \in 0..W - 1 /\ a + W - b = (a - b) + W
    BY <1>1, <1>2, <1>8
  <2>. QED  BY <1>5, <2>1
<1>. QED  BY <1>3, <1>6, <1>7, <1>8 DEF W

\* The money of the players, and of two of them.
LEMMA MoneyIs ==
  ASSUME NEW purses \in [Players -> 0..MoneyWrap - 1]
  PROVE  /\ Amounts(purses, Players) /\ Sum(purses) = SumOf(purses, Players)
         /\ Sum(purses) \in Nat
         /\ \A p, q \in Players : p # q => purses[p] + purses[q] <= Sum(purses)
<1>1. \A p \in Players : purses[p] \in Nat
  BY ExchangeAssumption
<1>2. Amounts(purses, Players) /\ IsFiniteSet(Players)
  BY <1>1, ExchangeAssumption DEF Amounts
<1>3. Sum(purses) = SumOf(purses, Players)
  BY SumIs
<1>4. SumOf(purses, Players) \in Nat
  BY <1>2, SumSplit
<1>5. ASSUME NEW p \in Players, NEW q \in Players, p # q
      PROVE  purses[p] + purses[q] <= SumOf(purses, Players)
  <2>1. SumOf(purses, Players) = purses[p] + SumOf(purses, Players \ {p})
    BY <1>2, SumSplit
  <2>2. IsFiniteSet(Players \ {p}) /\ Amounts(purses, Players \ {p}) /\ q \in Players \ {p}
    BY <1>2, <1>5, FS_RemoveElement DEF Amounts
  <2>3. /\ SumOf(purses, (Players \ {p}) \ {q}) \in Nat
        /\ SumOf(purses, Players \ {p}) = purses[q] + SumOf(purses, (Players \ {p}) \ {q})
    BY <2>2, SumSplit
  <2>. QED  BY <1>1, <2>1, <2>3
<1>. QED  BY <1>2, <1>3, <1>4, <1>5

\* One purse changes.
LEMMA MoneyChange ==
  ASSUME NEW purses \in [Players -> 0..MoneyWrap - 1], NEW p \in Players,
         NEW m \in 0..MoneyWrap - 1, NEW new, OnlyAt(purses, p, m, new)
  PROVE  /\ new \in [Players -> 0..MoneyWrap - 1]
         /\ Sum(new) \in Nat /\ Sum(purses) \in Nat
         /\ Sum(new) + purses[p] = Sum(purses) + m
<1>1. /\ new \in [Players -> 0..MoneyWrap - 1] /\ new[p] = m
      /\ \A r \in Players \ {p} : purses[r] = new[r]
  BY DEF OnlyAt
<1>2. /\ Amounts(purses, Players) /\ Sum(purses) = SumOf(purses, Players) /\ Sum(purses) \in Nat
      /\ Amounts(new, Players) /\ Sum(new) = SumOf(new, Players) /\ Sum(new) \in Nat
  BY <1>1, MoneyIs
<1>3. SumOf(purses, Players) + new[p] = SumOf(new, Players) + purses[p]
  <2>1. IsFiniteSet(Players)
    BY ExchangeAssumption
  <2>2. Amounts(purses, Players) /\ Amounts(new, Players)
    BY <1>2
  <2>3. p \in Players /\ \A r \in Players \ {p} : purses[r] = new[r]
    BY <1>1
  <2>4. /\ SumOf(purses, Players) \in Nat /\ SumOf(new, Players) \in Nat
        /\ purses[p] \in Nat /\ new[p] \in Nat
        /\ SumOf(purses, Players) + new[p] = SumOf(new, Players) + purses[p]
    BY <2>1, <2>2, <2>3, SumChange
  <2>. QED  BY <2>4
<1>. QED  BY <1>1, <1>2, <1>3


\* An exchange whose gold was paid.
NoGold(e) == [e EXCEPT !.gold = 0]

\* It is an exchange that differs in its gold only.
LEMMA NoGoldIs ==
  ASSUME NEW e \in Exchanges
  PROVE  NoGold(e) \in Exchanges /\ NoGold(e).item = e.item /\ NoGold(e).target = e.target
<1>1. PICK g : g = 0
  OBVIOUS
<1>2. g \in 0..MoneyWrap - 1
  BY <1>1, ExchangeAssumption
<1>3. PICK x : x = [e EXCEPT !.gold = g]
  OBVIOUS
<1>4. x \in Exchanges /\ x.item = e.item /\ x.target = e.target
  BY <1>2, <1>3 DEF Exchanges
<1>. QED  BY <1>1, <1>3, <1>4 DEF NoGold

\* What a purse has is all the gold of its offer, and no purse overflows.
CanPay(w, p) == w.ex[p].gold <= w.money[p]
Scarce(w) == Sum(w.money) < MoneyWrap

\* Gold goes from one player to another.
Paid(w, v, from, to) ==
  /\ Sum(v.money) = Sum(w.money)
  /\ v.money[to] = w.money[to] + w.ex[from].gold
  /\ \A r \in Players \ {from, to} : v.money[r] = w.money[r]

\* Paying moves gold and nothing else.
LEMMA PayKeeps ==
  ASSUME NEW w \in Worlds, NEW from \in Players, NEW to \in Players, from # to,
         NEW v, v = Pay(w, from, to)
  PROVE  /\ Kept(w, v) /\ v.inv = w.inv
         /\ v.ex = [w.ex EXCEPT ![from] = NoGold(w.ex[from])]
         /\ CanPay(w, from) /\ Scarce(w) => Paid(w, v, from, to)
<1>1. /\ w.inv \in [Players -> Seq(Slot)] /\ w.money \in [Players -> 0..MoneyWrap - 1]
      /\ w.ex \in [Players -> Exchanges] /\ w.floor \in [Items -> Nat]
      /\ w = [inv |-> w.inv, money |-> w.money, ex |-> w.ex, floor |-> w.floor]
      /\ \A r \in Players : Slots(w.inv[r])
  BY WorldFields
<1>2. PICK g, a, b : g = w.ex[from].gold /\ a = w.money[to] /\ b = w.money[from]
  OBVIOUS
<1>3. g \in 0..MoneyWrap - 1 /\ a \in 0..MoneyWrap - 1 /\ b \in 0..MoneyWrap - 1
  BY <1>1, <1>2, WorldFields
<1>4. PICK x, y : x = (a + g) % MoneyWrap /\ y = (b + MoneyWrap - g) % MoneyWrap
  OBVIOUS
<1>5. /\ x \in 0..MoneyWrap - 1 /\ y \in 0..MoneyWrap - 1
      /\ a + g < MoneyWrap => x = a + g
      /\ g <= b => y = b - g
  BY <1>3, <1>4, PurseWraps
<1>6. PICK m, n : m = [w.money EXCEPT ![to] = x] /\ n = [m EXCEPT ![from] = y]
  OBVIOUS
<1>7. /\ m \in [Players -> 0..MoneyWrap - 1] /\ n \in [Players -> 0..MoneyWrap - 1]
      /\ m[from] = b /\ m[to] = x /\ n[to] = x /\ n[from] = y
      /\ \A r \in Players \ {from, to} : n[r] = w.money[r]
  BY <1>1, <1>2, <1>5, <1>6
<1>8. PICK e : e = NoGold(w.ex[from])
  OBVIOUS
<1>9. e \in Exchanges /\ e.item = w.ex[from].item
  <2>1. w.ex[from] \in Exchanges
    BY <1>1
  <2>. QED  BY <1>8, <2>1, NoGoldIs
<1>10. PICK E : E = [w.ex EXCEPT ![from] = e]
  OBVIOUS
<1>11. E \in [Players -> Exchanges]
  BY <1>1, <1>9, <1>10
<1>12. v = [inv |-> w.inv, money |-> n, ex |-> E, floor |-> w.floor]
  <2>1. v = [w EXCEPT !.money[to] = (@ + g) % MoneyWrap,
                      !.money[from] = (@ + MoneyWrap - g) % MoneyWrap,
                      !.ex[from].gold = 0]
    BY <1>2 DEF Pay
  <2>2. E = [w.ex EXCEPT ![from].gold = 0]
    BY <1>1, <1>8, <1>10 DEF NoGold
  <2>3. n = [w.money EXCEPT ![to] = (@ + g) % MoneyWrap,
                            ![from] = (@ + MoneyWrap - g) % MoneyWrap]
    BY <1>1, <1>2, <1>4, <1>6
  <2>. QED  BY <1>1, <2>1, <2>2, <2>3
<1>13. MadeOf(v, w.inv, n, E, w.floor)
  BY <1>1, <1>7, <1>11, <1>12 DEF MadeOf
<1>14. v \in Worlds /\ v.inv = w.inv /\ v.money = n /\ v.ex = E /\ v.floor = w.floor
  BY <1>13, WorldMade
<1>15. ASSUME NEW id \in Items PROVE Stock(v, id) = Stock(w, id)
  <2>1. \A r \in Players : v.ex[r].item = w.ex[r].item
    BY <1>1, <1>9, <1>10, <1>14
  <2>2. OthersSame(w, v, from)
    BY <1>14, <2>1 DEF OthersSame
  <2>3. OwnOf(v, from, id) = OwnOf(w, from, id)
    BY <1>14, <2>1 DEF OwnOf
  <2>4. /\ OwnOf(w, from, id) \in Nat
        /\ Stock(v, id) + w.floor[id] + OwnOf(w, from, id)
             = Stock(w, id) + v.floor[id] + OwnOf(v, from, id)
    BY <1>14, <2>2, StockChange
  <2>5. Stock(v, id) \in Nat /\ Stock(w, id) \in Nat /\ w.floor[id] \in Nat
    BY <1>14, StockIs
  <2>. QED  BY <1>14, <2>3, <2>4, <2>5
<1>16. ASSUME CanPay(w, from), Scarce(w) PROVE Paid(w, v, from, to)
  <2>1. a + b <= Sum(w.money) /\ Sum(w.money) \in Nat
    BY <1>1, <1>2, MoneyIs
  <2>2. g <= b /\ a + g < MoneyWrap
    BY <1>2, <1>3, <1>16, <2>1, ExchangeAssumption DEF CanPay, Scarce
  <2>3. x = a + g /\ y = b - g
    BY <1>5, <2>2
  <2>4. OnlyAt(w.money, to, x, m) /\ OnlyAt(m, from, y, n)
    BY <1>6 DEF OnlyAt
  <2>5. /\ Sum(m) \in Nat /\ Sum(m) + w.money[to] = Sum(w.money) + x
        /\ Sum(n) \in Nat /\ Sum(n) + m[from] = Sum(m) + y
    <3>1. Sum(m) \in Nat /\ Sum(m) + w.money[to] = Sum(w.money) + x
      BY <1>1, <1>5, <2>4, MoneyChange
    <3>2. Sum(n) \in Nat /\ Sum(n) + m[from] = Sum(m) + y
      BY <1>5, <1>7, <2>4, MoneyChange
    <3>. QED  BY <3>1, <3>2
  <2>6. Sum(n) = Sum(w.money)
    BY <1>2, <1>3, <1>7, <2>1, <2>3, <2>5
  <2>. QED  BY <1>2, <1>7, <1>14, <2>3, <2>6 DEF Paid
<1>. QED  BY <1>8, <1>10, <1>14, <1>15, <1>16 DEF Kept

\* Both sides of an exchange, and then what is left of it.
Settled(w, p, q) == clif_exchange_cleanup(clif_exchange_cleanup(
                      clif_exchange_finalize(w, p, q), p), q)

\* The gold after it, of others too.
Settles(w, v, p, q) ==
  /\ Sum(v.money) = Sum(w.money)
  /\ \A r \in Players \ {p, q} : v.money[r] = w.money[r]

\* A finished exchange moves both lists and all gold, and keeps the rest.
LEMMA SettledKeeps ==
  ASSUME NEW w \in Worlds, NEW p \in Players, NEW q \in Players, p # q,
         NEW v, v = Settled(w, p, q)
  PROVE  /\ Kept(w, v)
         /\ v.ex = [w.ex EXCEPT ![p] = Blank(w.ex[p]), ![q] = Blank(w.ex[q])]
         /\ CanPay(w, p) /\ CanPay(w, q) /\ Scarce(w) => Settles(w, v, p, q)
<1>1. PICK lp, lq : lp = w.ex[p].item /\ lq = w.ex[q].item
  OBVIOUS
<1>2. /\ lp \in Seq(Offers) /\ lq \in Seq(Offers) /\ lp \in Lists /\ lq \in Lists
      /\ w.ex \in [Players -> Exchanges] /\ w.ex[p] \in Exchanges /\ w.ex[q] \in Exchanges
      /\ w.money \in [Players -> 0..MoneyWrap - 1]
  BY <1>1, WorldFields
<1>3. PICK w1, w2, w3, w4, w5 :
        /\ w1 = AddAll(w, q, lp) /\ w2 = Pay(w1, p, q)
        /\ w3 = AddAll(w2, p, w2.ex[q].item) /\ w4 = Pay(w3, q, p)
        /\ w5 = clif_exchange_cleanup(w4, p)
  OBVIOUS
<1>4. v = clif_exchange_cleanup(w5, q)
  BY <1>1, <1>3 DEF Settled, clif_exchange_finalize
<1>5. /\ w1 \in Worlds /\ w1.money = w.money /\ w1.ex = w.ex
      /\ \A id \in Items : Stock(w1, id) = Stock(w, id) + Amount(lp, id)
  <2>1. Gains(w, w1, q, [id \in Items |-> Amount(lp, id)])
    BY <1>2, <1>3, AddAllGains
  <2>. QED  BY <2>1 DEF Gains
<1>6. /\ w2 \in Worlds /\ \A id \in Items : Stock(w2, id) = Stock(w1, id)
      /\ w2.ex = [w.ex EXCEPT ![p] = NoGold(w.ex[p])]
      /\ CanPay(w1, p) /\ Scarce(w1) => Paid(w1, w2, p, q)
  <2>1. /\ Kept(w1, w2) /\ w2.ex = [w1.ex EXCEPT ![p] = NoGold(w1.ex[p])]
        /\ CanPay(w1, p) /\ Scarce(w1) => Paid(w1, w2, p, q)
    BY <1>3, <1>5, PayKeeps
  <2>. QED  BY <1>5, <2>1 DEF Kept
<1>7. w2.ex[q] = w.ex[q] /\ w2.ex[p].item = lp
  <2>1. NoGold(w.ex[p]).item = lp
    BY <1>1, <1>2, NoGoldIs
  <2>. QED  BY <1>2, <1>6, <2>1
<1>8. /\ w3 \in Worlds /\ w3.money = w2.money /\ w3.ex = w2.ex
      /\ \A id \in Items : Stock(w3, id) = Stock(w2, id) + Amount(lq, id)
  <2>1. w3 = AddAll(w2, p, lq)
    BY <1>1, <1>3, <1>7
  <2>2. Gains(w2, w3, p, [id \in Items |-> Amount(lq, id)])
    BY <1>2, <1>6, <2>1, AddAllGains
  <2>. QED  BY <2>2 DEF Gains
<1>9. /\ w4 \in Worlds /\ \A id \in Items : Stock(w4, id) = Stock(w3, id)
      /\ w4.ex = [w2.ex EXCEPT ![q] = NoGold(w.ex[q])]
      /\ CanPay(w3, q) /\ Scarce(w3) => Paid(w3, w4, q, p)
  <2>1. /\ Kept(w3, w4) /\ w4.ex = [w3.ex EXCEPT ![q] = NoGold(w3.ex[q])]
        /\ CanPay(w3, q) /\ Scarce(w3) => Paid(w3, w4, q, p)
    BY <1>3, <1>8, PayKeeps
  <2>. QED  BY <1>7, <1>8, <2>1 DEF Kept
<1>10. /\ w4.ex[p].item = lp /\ w4.ex[q].item = lq
       /\ w4.ex[p].target = w.ex[p].target /\ w4.ex[q].target = w.ex[q].target
       /\ \A r \in Players \ {p, q} : w4.ex[r] = w.ex[r]
  <2>1. NoGold(w.ex[q]).item = lq /\ NoGold(w.ex[q]).target = w.ex[q].target
    BY <1>1, <1>2, NoGoldIs
  <2>2. NoGold(w.ex[p]).item = lp /\ NoGold(w.ex[p]).target = w.ex[p].target
    BY <1>1, <1>2, NoGoldIs
  <2>3. w4.ex[q] = NoGold(w.ex[q]) /\ w4.ex[p] = NoGold(w.ex[p])
    BY <1>2, <1>6, <1>9
  <2>4. \A r \in Players \ {p, q} : w4.ex[r] = w.ex[r]
    BY <1>2, <1>6, <1>9
  <2>. QED  BY <2>1, <2>2, <2>3, <2>4
<1>11. w4.ex \in [Players -> Exchanges]
  BY <1>9, WorldFields
<1>12. /\ w5 \in Worlds /\ w5.money = w4.money
       /\ w5.ex = [w4.ex EXCEPT ![p] = Blank(w4.ex[p])]
       /\ \A id \in Items : /\ Stock(w5, id) \in Nat
                            /\ Stock(w5, id) + Amount(w4.ex[p].item, id) = Stock(w4, id)
  <2>1. Taken(w4, w5, p)
    BY <1>3, <1>9, CleanupTakes
  <2>. QED  BY <2>1 DEF Taken
<1>13. /\ v \in Worlds /\ v.money = w5.money
       /\ v.ex = [w5.ex EXCEPT ![q] = Blank(w5.ex[q])]
       /\ \A id \in Items : /\ Stock(v, id) \in Nat
                            /\ Stock(v, id) + Amount(w5.ex[q].item, id) = Stock(w5, id)
  <2>1. Taken(w5, v, q)
    BY <1>4, <1>12, CleanupTakes
  <2>. QED  BY <2>1 DEF Taken
<1>14. w5.ex[q] = w4.ex[q]
  BY <1>11, <1>12
<1>15. ASSUME NEW id \in Items PROVE Stock(v, id) = Stock(w, id)
  <2>1. /\ Stock(w1, id) = Stock(w, id) + Amount(lp, id) /\ Stock(w2, id) = Stock(w1, id)
        /\ Stock(w3, id) = Stock(w2, id) + Amount(lq, id) /\ Stock(w4, id) = Stock(w3, id)
    BY <1>5, <1>6, <1>8, <1>9
  <2>2. /\ Stock(w5, id) + Amount(lp, id) = Stock(w4, id)
        /\ Stock(v, id) + Amount(lq, id) = Stock(w5, id)
    BY <1>10, <1>12, <1>13, <1>14
  <2>3. /\ Stock(v, id) \in Nat /\ Stock(w5, id) \in Nat /\ Stock(w, id) \in Nat
        /\ Amount(lp, id) \in Nat /\ Amount(lq, id) \in Nat
    BY <1>2, <1>12, <1>13, StockIs, AmountIs
  <2>. QED  BY <2>1, <2>2, <2>3
<1>16. v.ex = [w.ex EXCEPT ![p] = Blank(w.ex[p]), ![q] = Blank(w.ex[q])]
  <2>1. Blank(w4.ex[p]) = Blank(w.ex[p]) /\ Blank(w4.ex[q]) = Blank(w.ex[q])
    BY <1>10 DEF Blank
  <2>2. v.ex[q] = Blank(w.ex[q])
    BY <1>11, <1>12, <1>13, <1>14, <2>1
  <2>3. v.ex[p] = Blank(w.ex[p])
    BY <1>11, <1>12, <1>13, <2>1
  <2>4. \A r \in Players \ {p, q} : v.ex[r] = w.ex[r]
    BY <1>10, <1>11, <1>12, <1>13
  <2>5. v.ex \in [Players -> Exchanges]
    BY <1>13, WorldFields
  <2>6. PICK E : E = [w.ex EXCEPT ![p] = Blank(w.ex[p]), ![q] = Blank(w.ex[q])]
    OBVIOUS
  <2>7. /\ DOMAIN E = Players /\ E = [r \in Players |-> E[r]]
        /\ E[p] = Blank(w.ex[p]) /\ E[q] = Blank(w.ex[q])
        /\ \A r \in Players \ {p, q} : E[r] = w.ex[r]
    BY <1>2, <2>6
  <2>8. \A r \in Players : v.ex[r] = E[r]
    BY <2>2, <2>3, <2>4, <2>7
  <2>9. v.ex = E
    BY <2>5, <2>7, <2>8
  <2>. QED  BY <2>6, <2>9
<1>17. ASSUME CanPay(w, p), CanPay(w, q), Scarce(w) PROVE Settles(w, v, p, q)
  <2>1. CanPay(w1, p) /\ Scarce(w1)
    BY <1>5, <1>17 DEF CanPay, Scarce
  <2>2. /\ Sum(w2.money) = Sum(w.money) /\ w2.money[q] = w.money[q] + w.ex[p].gold
        /\ \A r \in Players \ {p, q} : w2.money[r] = w.money[r]
    BY <1>5, <1>6, <2>1 DEF Paid
  <2>3. w.ex[p].gold \in Nat /\ w.money[q] \in Nat /\ w.ex[q].gold \in Nat
    BY WorldFields, ExchangeAssumption
  <2>4. w3.ex[q].gold = w.ex[q].gold
    BY <1>7, <1>8
  <2>5. w.ex[q].gold <= w.money[q]
    BY <1>17 DEF CanPay
  <2>6. CanPay(w3, q)
    BY <1>8, <2>2, <2>3, <2>4, <2>5 DEF CanPay
  <2>7. Scarce(w3)
    BY <1>8, <1>17, <2>2 DEF Scarce
  <2>8. /\ Sum(w4.money) = Sum(w3.money)
        /\ \A r \in Players \ {q, p} : w4.money[r] = w3.money[r]
    BY <1>9, <2>6, <2>7 DEF Paid
  <2>9. v.money = w4.money
    BY <1>12, <1>13
  <2>. QED  BY <1>8, <2>2, <2>8, <2>9 DEF Settles
<1>. QED  BY <1>13, <1>15, <1>16, <1>17 DEF Kept


----------------------------------------------------------------------------
(* The invariant of the exchange.                                          *)

ExchangeTyped ==
  /\ World \in Worlds /\ floorGold \in 0..MoneyWrap - 1
  /\ willing \in [Players -> BOOLEAN] /\ closing \in [Players -> BOOLEAN]
  /\ confirmed \in [Players -> BOOLEAN]
  /\ online \in [Players -> {"on", "eof", "off"}]
  /\ window \in [Players -> Players \cup {NoOne}]
  /\ {crossed, cutIn, overdrawn, gift} \subseteq BOOLEAN

\* A window shows somebody else, to a player who is there.
WindowsAre ==
  \A p \in Players : window[p] # NoOne => window[p] # p /\ Online(p)

\* The client shows a window, and no notice that closes it is on its way.
Standing(p) == window[p] # NoOne /\ ~closing[p]

\* Until a packet crosses a notice or a third player cuts in: windows that
\* stand show each other and their targets are these, and only who stands has
\* something in an exchange or is done with it, after it confirmed.
Tidy ==
  ~crossed /\ ~cutIn =>
    \A p \in Players :
      /\ Standing(p) => /\ window[window[p]] = p /\ ~closing[window[p]]
                        /\ exchange[p].target = window[p]
      /\ exchange[p].item # <<>> => Standing(p)
      /\ exchange[p].done => Standing(p) /\ confirmed[p]

\* Who is done has the gold it offered.
PursesHold ==
  Gold0 < MoneyWrap /\ ~overdrawn =>
    /\ floorGold + Sum(money) = Gold0
    /\ \A p \in Players : exchange[p].done => exchange[p].gold <= money[p]

ExchangeInv ==
  ExchangeTyped /\ WindowsAre /\ Tidy /\ ItemsKept /\ PursesHold /\ NoGift


\* The world of the next state.
LEMMA NextWorld ==
  ASSUME NEW v \in Worlds, WorldIs(v)
  PROVE  /\ World' = v /\ exchange' = v.ex /\ money' = v.money
         /\ inventory' = v.inv /\ floorItems' = v.floor
<1>1. v = [inv |-> v.inv, money |-> v.money, ex |-> v.ex, floor |-> v.floor]
  BY WorldFields
<1>. QED  BY <1>1 DEF WorldIs, World

\* What is in this one.
LEMMA ThisWorld ==
  ASSUME ExchangeTyped
  PROVE  /\ World \in Worlds
         /\ World.inv = inventory /\ World.money = money
         /\ World.ex = exchange /\ World.floor = floorItems
         /\ inventory \in [Players -> Seq(Slot)] /\ \A p \in Players : Slots(inventory[p])
         /\ money \in [Players -> 0..MoneyWrap - 1]
         /\ exchange \in [Players -> Exchanges]
         /\ floorItems \in [Items -> Nat]
<1>1. /\ World.inv = inventory /\ World.money = money
      /\ World.ex = exchange /\ World.floor = floorItems
  BY DEF World
<1>2. World \in Worlds
  BY DEF ExchangeTyped
<1>. QED  BY <1>1, <1>2, WorldFields

\* Nothing is lost that the exceptions do not excuse.
Excused == crossed \/ cutIn
KeepsItems ==
  /\ \A id \in Items :
       /\ Stock(World, id)' <= Stock(World, id)
       /\ Stock(World, id)' < Stock(World, id) => Excused'
  /\ Excused => Excused'

\* Then the units are still there.
LEMMA ItemsStay ==
  ASSUME World \in Worlds, World' \in Worlds, ItemsKept, KeepsItems,
         \A id \in Items : Units0[id] \in Nat
  PROVE  ItemsKept'
<1>1. \A id \in Items :
        /\ Stock(World, id) <= Units0[id]
        /\ Stock(World, id) < Units0[id] => Excused
  BY DEF ItemsKept, Stock, World, Excused
<1>2. \A id \in Items : Stock(World, id) \in Nat
  BY StockIs
<1>3. \A id \in Items : Stock(World, id)' \in Nat
  <2>1. PICK v : v = World'
    OBVIOUS
  <2>2. \A id \in Items : Stock(v, id) \in Nat
    BY <2>1, StockIs
  <2>. QED  BY <2>1, <2>2 DEF Stock
<1>4. \A id \in Items :
        /\ Stock(World, id)' <= Units0[id]
        /\ Stock(World, id)' < Units0[id] => Excused'
  BY <1>1, <1>2, <1>3 DEF KeepsItems
<1>. QED  BY <1>4 DEF ItemsKept, Stock, World, Excused

\* What there was at the start.
LEMMA UnitsAtStart ==
  /\ ExchangeInit => World \in Worlds
  /\ \A id \in Items : /\ Units0[id] \in Nat
                       /\ ExchangeInit => Stock(World, id) = Units0[id]
<1>1. PICK w : w = [inv |-> Inventory0, money |-> Money0,
                    ex |-> [p \in Players |-> NoExchange], floor |-> [id \in Items |-> 0]]
  OBVIOUS
<1>2. PICK E, F : E = [p \in Players |-> NoExchange] /\ F = [id \in Items |-> 0]
  OBVIOUS
<1>3. E \in [Players -> Exchanges] /\ F \in [Items -> Nat]
  BY <1>2, BlankIs
<1>4. MadeOf(w, Inventory0, Money0, E, F)
  BY <1>1, <1>2, <1>3, BelongingsAssumption DEF MadeOf
<1>5. w \in Worlds /\ w.inv = Inventory0 /\ w.ex = E /\ w.floor = F
  BY <1>4, WorldMade
<1>6. ASSUME NEW id \in Items PROVE Units0[id] = Stock(w, id) /\ Units0[id] \in Nat
  <2>1. Units0[id] = Units(Inventory0, E, 0, id)
    BY <1>2 DEF Units0
  <2>2. Stock(w, id) = Units(Inventory0, E, 0, id)
    BY <1>2, <1>5 DEF Stock
  <2>3. Stock(w, id) \in Nat
    BY <1>5, StockIs
  <2>. QED  BY <2>1, <2>2, <2>3
<1>7. ExchangeInit => World = w
  BY <1>1 DEF ExchangeInit, World
<1>. QED  BY <1>5, <1>6, <1>7

\* At the start nothing is offered.
LEMMA ExchangeInitHolds == ExchangeInit => ExchangeInv
<1>. SUFFICES ASSUME ExchangeInit PROVE ExchangeInv
  OBVIOUS
<1>1. World \in Worlds /\ \A id \in Items : Units0[id] \in Nat /\ Stock(World, id) = Units0[id]
  BY UnitsAtStart
<1>2. /\ \A p \in Players : willing[p] = TRUE /\ closing[p] = FALSE /\ confirmed[p] = FALSE
                            /\ online[p] = "on" /\ window[p] = NoOne
                            /\ exchange[p] = NoExchange
      /\ crossed = FALSE /\ cutIn = FALSE /\ overdrawn = FALSE /\ gift = FALSE
      /\ floorGold = 0 /\ money = Money0
  BY DEF ExchangeInit
<1>3. ExchangeTyped
  <2>1. floorGold \in 0..MoneyWrap - 1
    BY <1>2, ExchangeAssumption
  <2>2. /\ willing \in [Players -> BOOLEAN] /\ closing \in [Players -> BOOLEAN]
        /\ confirmed \in [Players -> BOOLEAN]
    BY DEF ExchangeInit
  <2>3. /\ online \in [Players -> {"on", "eof", "off"}]
        /\ window \in [Players -> Players \cup {NoOne}]
    BY DEF ExchangeInit
  <2>. QED  BY <1>1, <1>2, <2>1, <2>2, <2>3 DEF ExchangeTyped
<1>4. WindowsAre
  BY <1>2 DEF WindowsAre
<1>5. Tidy
  BY <1>2 DEF Tidy, Standing, NoExchange
<1>6. ItemsKept
  <2>1. \A id \in Items : Stock(World, id) <= Units0[id] /\ ~(Stock(World, id) < Units0[id])
    BY <1>1
  <2>. QED  BY <2>1 DEF ItemsKept, Stock, World
<1>7. PursesHold
  <2>1. Sum(money) = Gold0 /\ Sum(money) \in Nat
    BY <1>2, MoneyIs, BelongingsAssumption DEF Gold0
  <2>2. \A p \in Players : exchange[p].done = FALSE
    BY <1>2 DEF NoExchange
  <2>. QED  BY <1>2, <2>1, <2>2 DEF PursesHold
<1>8. NoGift
  BY <1>2 DEF NoGift
<1>. QED  BY <1>3, <1>4, <1>5, <1>6, <1>7, <1>8 DEF ExchangeInv

\* The goods and the offers stay: so does what is said of them.
LEMMA GoodsRest ==
  ASSUME ExchangeInv, UNCHANGED <<goods, exchange>>, Excused => Excused'
  PROVE  /\ World' \in Worlds /\ ItemsKept'
         /\ floorGold' \in 0..MoneyWrap - 1
         /\ (overdrawn => overdrawn') => PursesHold'
<1>1. World' = World /\ floorGold' = floorGold /\ money' = money /\ exchange' = exchange
  BY DEF World, goods
<1>2. /\ World \in Worlds /\ floorGold \in 0..MoneyWrap - 1
      /\ \A id \in Items : Stock(World, id) \in Nat /\ Units0[id] \in Nat
  BY StockIs, UnitsAtStart DEF ExchangeInv, ExchangeTyped
<1>3. KeepsItems
  <2>1. \A id \in Items : Stock(World, id)' = Stock(World, id)
    BY <1>1 DEF Stock
  <2>. QED  BY <1>2, <2>1 DEF KeepsItems
<1>4. ItemsKept'
  BY <1>1, <1>2, <1>3, ItemsStay DEF ExchangeInv
<1>5. (overdrawn => overdrawn') => PursesHold'
  BY <1>1 DEF ExchangeInv, PursesHold
<1>. QED  BY <1>1, <1>2, <1>4, <1>5


\* The goods after a step to the world v.
LEMMA GoodsMove ==
  ASSUME ExchangeInv, NEW v \in Worlds, WorldIs(v), Excused => Excused',
         \A id \in Items : \/ Stock(v, id) = Stock(World, id)
                           \/ Stock(v, id) <= Stock(World, id) /\ Excused'
  PROVE  World' \in Worlds /\ ItemsKept'
<1>1. World' = v /\ World' \in Worlds
  BY NextWorld
<1>2. World \in Worlds /\ ItemsKept /\ \A id \in Items : Units0[id] \in Nat
  BY UnitsAtStart DEF ExchangeInv, ExchangeTyped
<1>3. \A id \in Items : Stock(v, id) \in Nat /\ Stock(World, id) \in Nat
  BY <1>2, StockIs
<1>4. KeepsItems
  <2>1. \A id \in Items : Stock(World, id)' = Stock(v, id)
    BY <1>1 DEF Stock
  <2>2. ASSUME NEW id \in Items
        PROVE  /\ Stock(v, id) <= Stock(World, id)
               /\ Stock(v, id) < Stock(World, id) => Excused'
    BY <1>3
  <2>. QED  BY <2>1, <2>2 DEF KeepsItems
<1>. QED  BY <1>1, <1>2, <1>4, ItemsStay

\* The exchanges of two players are others: the stock changes by the offers.
TwoReplaced(w, v, p, e, q, f) ==
  /\ v \in Worlds /\ v.inv = w.inv /\ v.money = w.money /\ v.floor = w.floor
  /\ v.ex = [w.ex EXCEPT ![p] = e, ![q] = f]
  /\ \A id \in Items :
       /\ Stock(v, id) \in Nat /\ Stock(w, id) \in Nat
       /\ Amount(w.ex[p].item, id) \in Nat /\ Amount(w.ex[q].item, id) \in Nat
       /\ Amount(e.item, id) \in Nat /\ Amount(f.item, id) \in Nat
       /\ Stock(v, id) + Amount(w.ex[p].item, id) + Amount(w.ex[q].item, id)
            = Stock(w, id) + Amount(e.item, id) + Amount(f.item, id)

\* There is such a world.
LEMMA TwoReplacedIs ==
  ASSUME NEW w \in Worlds, NEW p \in Players, NEW q \in Players, p # q,
         NEW e \in Exchanges, NEW f \in Exchanges
  PROVE  \E v : TwoReplaced(w, v, p, e, q, f)
<1>1. PICK u : Replaced(w, u, p, e)
  BY DEF Replaced
<1>2. /\ u \in Worlds /\ u.inv = w.inv /\ u.money = w.money /\ u.floor = w.floor
      /\ u.ex = [w.ex EXCEPT ![p] = e]
      /\ \A id \in Items :
           /\ Stock(u, id) \in Nat /\ Stock(w, id) \in Nat
           /\ Amount(w.ex[p].item, id) \in Nat /\ Amount(e.item, id) \in Nat
           /\ Stock(u, id) + Amount(w.ex[p].item, id) = Stock(w, id) + Amount(e.item, id)
  BY <1>1, ExReplaced
<1>3. PICK v : Replaced(u, v, q, f)
  BY DEF Replaced
<1>4. /\ v \in Worlds /\ v.inv = u.inv /\ v.money = u.money /\ v.floor = u.floor
      /\ v.ex = [u.ex EXCEPT ![q] = f]
      /\ \A id \in Items :
           /\ Stock(v, id) \in Nat /\ Stock(u, id) \in Nat
           /\ Amount(u.ex[q].item, id) \in Nat /\ Amount(f.item, id) \in Nat
           /\ Stock(v, id) + Amount(u.ex[q].item, id) = Stock(u, id) + Amount(f.item, id)
  <2>1. u \in Worlds /\ q \in Players /\ f \in Exchanges /\ Replaced(u, v, q, f)
    BY <1>2, <1>3
  <2>. QED  BY <2>1, ExReplaced
<1>5. w.ex \in [Players -> Exchanges]
  BY WorldFields
<1>6. u.ex[q] = w.ex[q] /\ v.ex = [w.ex EXCEPT ![p] = e, ![q] = f]
  BY <1>2, <1>4, <1>5
<1>7. ASSUME NEW id \in Items
      PROVE  Stock(v, id) + Amount(w.ex[p].item, id) + Amount(w.ex[q].item, id)
               = Stock(w, id) + Amount(e.item, id) + Amount(f.item, id)
  <2>1. PICK sw, su, sv, a, b, c, d :
          /\ sw = Stock(w, id) /\ su = Stock(u, id) /\ sv = Stock(v, id)
          /\ a = Amount(w.ex[p].item, id) /\ b = Amount(w.ex[q].item, id)
          /\ c = Amount(e.item, id) /\ d = Amount(f.item, id)
    OBVIOUS
  <2>2. /\ sw \in Nat /\ su \in Nat /\ a \in Nat /\ c \in Nat /\ su + a = sw + c
    BY <1>2, <2>1
  <2>3. /\ sv \in Nat /\ b \in Nat /\ d \in Nat /\ sv + b = su + d
    BY <1>4, <1>6, <2>1
  <2>4. sv + a + b = sw + c + d
    BY <2>2, <2>3
  <2>. QED  BY <2>1, <2>4
<1>8. \A id \in Items : Amount(w.ex[q].item, id) \in Nat
  BY <1>4, <1>6
<1>. QED  BY <1>2, <1>4, <1>6, <1>7, <1>8 DEF TwoReplaced

\* The exchange of somebody who was asked, and that of one who accepted.
Meets(e, t) == [e EXCEPT !.target = t]
Starts(e, t) == [Meets(e, t) EXCEPT !.item = <<>>]

\* They are exchanges; the target is set, and the second offers nothing.
LEMMA StartsIs ==
  ASSUME NEW e \in Exchanges, NEW t \in Players
  PROVE  /\ Meets(e, t) \in Exchanges /\ Meets(e, t).target = t
         /\ Meets(e, t).item = e.item /\ Meets(e, t).gold = e.gold
         /\ Meets(e, t).done = e.done
         /\ Starts(e, t) \in Exchanges /\ Starts(e, t).target = t
         /\ Starts(e, t).item = <<>> /\ Starts(e, t).gold = e.gold
         /\ Starts(e, t).done = e.done
<1>1. PICK m : m = [e EXCEPT !.target = t]
  OBVIOUS
<1>2. /\ m \in Exchanges /\ m.target = t /\ m.item = e.item /\ m.gold = e.gold
      /\ m.done = e.done
  BY <1>1 DEF Exchanges
<1>3. PICK none : none = <<>>
  OBVIOUS
<1>4. none \in Seq(Offers)
  BY <1>3
<1>5. PICK s : s = [m EXCEPT !.item = none]
  OBVIOUS
<1>6. /\ s \in Exchanges /\ s.target = m.target /\ s.item = none /\ s.gold = m.gold
      /\ s.done = m.done
  BY <1>2, <1>4, <1>5 DEF Exchanges
<1>. QED  BY <1>1, <1>2, <1>3, <1>5, <1>6 DEF Meets, Starts


\* What the invariant says of two players whose windows are both closed, or
\* that nothing excuses any more.
LEMMA IdleIs ==
  ASSUME ExchangeInv, NEW p \in Players, window[p] = NoOne, ~Excused
  PROVE  ~Standing(p) /\ exchange[p].item = <<>> /\ ~exchange[p].done
BY DEF ExchangeInv, Tidy, Standing, Excused

\* A request, accepted or not, keeps the invariant: unless somebody cuts in,
\* neither of the two has something in an exchange.
LEMMA AskKeeps ==
  ASSUME ExchangeInv, NEW p \in Players, NEW q \in Players, Ask(p, q)
  PROVE  ExchangeInv'
<1>1. /\ ExchangeTyped /\ World \in Worlds /\ World.inv = inventory /\ World.money = money
      /\ World.ex = exchange /\ World.floor = floorItems
      /\ exchange \in [Players -> Exchanges]
      /\ \A r \in Players : exchange[r] \in Exchanges
  BY ThisWorld DEF ExchangeInv
<1>2. /\ online[p] = "on" /\ window[p] = NoOne /\ Online(q) /\ q # p
      /\ cutIn' = (cutIn \/ window[q] # NoOne)
      /\ UNCHANGED <<goods, online, crossed, overdrawn, gift>>
  BY DEF Ask
<1>3. /\ inventory' = inventory /\ money' = money /\ floorItems' = floorItems
      /\ floorGold' = floorGold /\ online' = online /\ crossed' = crossed
      /\ overdrawn' = overdrawn /\ gift' = gift
  BY <1>2 DEF goods
<1>4. (Excused => Excused') /\ (Excused' \/ (~Excused /\ window[q] = NoOne))
  <2>1. Excused' <=> crossed \/ cutIn \/ window[q] # NoOne
    <3>1. crossed' = crossed /\ cutIn' = (cutIn \/ window[q] # NoOne)
      BY <1>2, <1>3
    <3>. QED  BY <3>1, Zenon DEF Excused
  <2>. QED  BY <2>1 DEF Excused
<1>5. PICK e, f :
        /\ e = IF willing[q] THEN Starts(exchange[p], q) ELSE Meets(exchange[p], q)
        /\ f = IF willing[q] THEN Starts(exchange[q], p) ELSE Meets(exchange[q], p)
  OBVIOUS
<1>6. /\ e \in Exchanges /\ f \in Exchanges /\ e.target = q /\ f.target = p
      /\ e.gold = exchange[p].gold /\ f.gold = exchange[q].gold
      /\ e.done = exchange[p].done /\ f.done = exchange[q].done
      /\ willing[q] => e.item = <<>> /\ f.item = <<>>
      /\ ~willing[q] => e.item = exchange[p].item /\ f.item = exchange[q].item
  <2>1. PICK x, y : x = exchange[p] /\ y = exchange[q]
    OBVIOUS
  <2>2. x \in Exchanges /\ y \in Exchanges
    BY <1>1, <2>1
  <2>3. CASE willing[q]
    <3>1. e = Starts(x, q) /\ f = Starts(y, p)
      BY <1>5, <2>1, <2>3
    <3>2. /\ e \in Exchanges /\ e.target = q /\ e.gold = x.gold /\ e.done = x.done
          /\ e.item = <<>>
      BY <2>2, <3>1, StartsIs
    <3>3. /\ f \in Exchanges /\ f.target = p /\ f.gold = y.gold /\ f.done = y.done
          /\ f.item = <<>>
      BY <2>2, <3>1, StartsIs
    <3>. QED  BY <2>1, <2>3, <3>2, <3>3
  <2>4. CASE ~willing[q]
    <3>1. e = Meets(x, q) /\ f = Meets(y, p)
      BY <1>5, <2>1, <2>4
    <3>2. /\ e \in Exchanges /\ e.target = q /\ e.gold = x.gold /\ e.done = x.done
          /\ e.item = x.item
      BY <2>2, <3>1, StartsIs
    <3>3. /\ f \in Exchanges /\ f.target = p /\ f.gold = y.gold /\ f.done = y.done
          /\ f.item = y.item
      BY <2>2, <3>1, StartsIs
    <3>. QED  BY <2>1, <2>4, <3>2, <3>3
  <2>. QED  BY <2>3, <2>4
<1>7. exchange' = [exchange EXCEPT ![p] = e, ![q] = f]
  <2>1. CASE willing[q]
    <3>1. exchange' = [[exchange EXCEPT ![p].target = q, ![q].target = p]
                         EXCEPT ![p].item = <<>>, ![q].item = <<>>]
      BY <2>1 DEF Ask
    <3>. QED  BY <1>1, <1>2, <1>5, <2>1, <3>1 DEF Starts, Meets
  <2>2. CASE ~willing[q]
    <3>1. exchange' = [exchange EXCEPT ![p].target = q, ![q].target = p]
      BY <2>2 DEF Ask
    <3>. QED  BY <1>1, <1>2, <1>5, <2>2, <3>1 DEF Meets
  <2>. QED  BY <2>1, <2>2
<1>8. PICK v : TwoReplaced(World, v, p, e, q, f)
  BY <1>1, <1>2, <1>6, TwoReplacedIs
<1>9. /\ v \in Worlds /\ WorldIs(v)
  BY <1>1, <1>3, <1>7, <1>8 DEF TwoReplaced, WorldIs
<1>10. ASSUME NEW id \in Items
       PROVE  \/ Stock(v, id) = Stock(World, id)
              \/ Stock(v, id) <= Stock(World, id) /\ Excused'
  <2>1. PICK sv, sw, a, b, c, d :
          /\ sv = Stock(v, id) /\ sw = Stock(World, id)
          /\ a = Amount(exchange[p].item, id) /\ b = Amount(exchange[q].item, id)
          /\ c = Amount(e.item, id) /\ d = Amount(f.item, id)
    OBVIOUS
  <2>2. /\ sv \in Nat /\ sw \in Nat /\ a \in Nat /\ b \in Nat /\ c \in Nat /\ d \in Nat
        /\ sv + a + b = sw + c + d
    BY <1>1, <1>8, <2>1 DEF TwoReplaced
  <2>3. CASE ~willing[q]
    <3>1. a = c /\ b = d
      BY <1>6, <2>1, <2>3
    <3>2. sv = sw
      BY <2>2, <3>1
    <3>. QED  BY <2>1, <3>2
  <2>4. CASE willing[q]
    <3>1. c = 0 /\ d = 0
      BY <1>6, <2>1, <2>4, AmountOfNone
    <3>2. CASE Excused'
      <4>1. sv <= sw
        BY <2>2, <3>1
      <4>. QED  BY <2>1, <3>2, <4>1
    <3>3. CASE ~Excused'
      <4>1. exchange[p].item = <<>> /\ exchange[q].item = <<>>
        BY <1>2, <1>4, <3>3, IdleIs
      <4>2. a = 0 /\ b = 0
        BY <2>1, <4>1, AmountOfNone
      <4>3. sv = sw
        BY <2>2, <3>1, <4>2
      <4>. QED  BY <2>1, <4>3
    <3>. QED  BY <3>2, <3>3
  <2>. QED  BY <2>3, <2>4
<1>11. World' \in Worlds /\ ItemsKept'
  BY <1>4, <1>9, <1>10, GoodsMove
<1>12. /\ exchange'[p] = e /\ exchange'[q] = f
       /\ \A r \in Players \ {p, q} : exchange'[r] = exchange[r]
  BY <1>1, <1>2, <1>7
<1>13. \/ /\ willing[q]
          /\ willing' = [willing EXCEPT ![p] = ~@, ![q] = FALSE]
          /\ window' = [window EXCEPT ![p] = q, ![q] = p]
          /\ closing' = [closing EXCEPT ![p] = FALSE, ![q] = FALSE]
          /\ confirmed' = [confirmed EXCEPT ![p] = FALSE, ![q] = FALSE]
       \/ /\ ~willing[q]
          /\ UNCHANGED <<willing, window, closing, confirmed>>
  BY DEF Ask
<1>14. /\ window \in [Players -> Players \cup {NoOne}] /\ closing \in [Players -> BOOLEAN]
       /\ confirmed \in [Players -> BOOLEAN] /\ willing \in [Players -> BOOLEAN]
       /\ online \in [Players -> {"on", "eof", "off"}]
       /\ {crossed, cutIn, overdrawn, gift} \subseteq BOOLEAN
       /\ floorGold \in 0..MoneyWrap - 1 /\ NoOne \notin Players
  BY <1>1, ExchangeAssumption DEF ExchangeTyped
<1>15. /\ willing[q] => /\ window'[p] = q /\ window'[q] = p
                        /\ closing'[p] = FALSE /\ closing'[q] = FALSE
       /\ ~willing[q] => /\ window'[p] = window[p] /\ window'[q] = window[q]
                         /\ closing'[p] = closing[p] /\ closing'[q] = closing[q]
       /\ \A r \in Players \ {p, q} : /\ window'[r] = window[r] /\ closing'[r] = closing[r]
                                      /\ confirmed'[r] = confirmed[r]
  BY <1>2, <1>13, <1>14
<1>16. ExchangeTyped'
  <2>1. /\ willing' \in [Players -> BOOLEAN] /\ closing' \in [Players -> BOOLEAN]
        /\ confirmed' \in [Players -> BOOLEAN]
        /\ window' \in [Players -> Players \cup {NoOne}]
    <3>1. CASE willing[q]
      <4>1. (~willing[p]) \in BOOLEAN
        OBVIOUS
      <4>2. willing' \in [Players -> BOOLEAN]
        BY <1>13, <1>14, <3>1, <4>1
      <4>3. window' \in [Players -> Players \cup {NoOne}]
        BY <1>13, <1>14, <3>1
      <4>4. ASSUME NEW f1 \in [Players -> BOOLEAN]
            PROVE  [f1 EXCEPT ![p] = FALSE, ![q] = FALSE] \in [Players -> BOOLEAN]
        OBVIOUS
      <4>5. closing' \in [Players -> BOOLEAN] /\ confirmed' \in [Players -> BOOLEAN]
        BY <1>13, <1>14, <3>1, <4>4
      <4>. QED  BY <4>2, <4>3, <4>5
    <3>2. CASE ~willing[q]
      BY <1>13, <1>14, <3>2
    <3>. QED  BY <3>1, <3>2
  <2>2. cutIn' \in BOOLEAN
    BY <1>2
  <2>. QED  BY <1>3, <1>11, <1>14, <2>1, <2>2 DEF ExchangeTyped
<1>17. WindowsAre'
  <2>1. ASSUME NEW r \in Players, window'[r] # NoOne PROVE window'[r] # r /\ online'[r] # "off"
    BY <1>2, <1>3, <1>15, <2>1 DEF ExchangeInv, WindowsAre, Online
  <2>. QED  BY <2>1 DEF WindowsAre, Online
<1>18. Tidy'
  <2>1. SUFFICES ASSUME ~Excused', NEW r \in Players
                 PROVE  /\ window'[r] # NoOne /\ ~closing'[r] =>
                             /\ window'[window'[r]] = r /\ ~closing'[window'[r]]
                             /\ exchange'[r].target = window'[r]
                        /\ exchange'[r].item # <<>> => window'[r] # NoOne /\ ~closing'[r]
                        /\ exchange'[r].done =>
                             (window'[r] # NoOne /\ ~closing'[r]) /\ confirmed'[r]
    BY DEF Tidy, Standing, Excused
  <2>2. /\ ~Excused /\ window[q] = NoOne
        /\ exchange[p].item = <<>> /\ ~exchange[p].done
        /\ exchange[q].item = <<>> /\ ~exchange[q].done
    BY <1>2, <1>4, <2>1, IdleIs
  <2>3. CASE r \in {p, q}
    BY <1>2, <1>6, <1>12, <1>14, <1>15, <2>2, <2>3
  <2>4. CASE r \notin {p, q}
    <3>1. /\ window[r] # NoOne /\ ~closing[r] =>
               /\ window[window[r]] = r /\ ~closing[window[r]]
               /\ exchange[r].target = window[r]
          /\ exchange[r].item # <<>> => window[r] # NoOne /\ ~closing[r]
          /\ exchange[r].done => (window[r] # NoOne /\ ~closing[r]) /\ confirmed[r]
      BY <2>2 DEF ExchangeInv, Tidy, Standing, Excused
    <3>2. ASSUME window[r] # NoOne /\ ~closing[r]
          PROVE  window'[window[r]] = r /\ ~closing'[window[r]]
      <4>1. window[r] \in Players \ {p, q}
        BY <1>2, <1>14, <2>2, <3>1, <3>2
      <4>. QED  BY <1>15, <3>1, <3>2, <4>1
    <3>. QED  BY <1>12, <1>15, <2>4, <3>1, <3>2
  <2>. QED  BY <2>3, <2>4
<1>19. PursesHold'
  <2>1. \A r \in Players : exchange'[r].done = exchange[r].done /\ exchange'[r].gold = exchange[r].gold
    BY <1>6, <1>12
  <2>. QED  BY <1>3, <2>1 DEF ExchangeInv, PursesHold
<1>20. NoGift'
  BY <1>3, <1>4 DEF ExchangeInv, NoGift, Excused
<1>. QED  BY <1>11, <1>16, <1>17, <1>18, <1>19, <1>20 DEF ExchangeInv


\* The clients stay as they are: what is said of windows holds on, when only
\* an offer grows, from a window that stands or by a packet that crossed.
LEMMA ClientsStay ==
  ASSUME ExchangeInv, UNCHANGED <<clients, confirmed, cutIn, gift>>,
         World' \in Worlds, floorGold' \in 0..MoneyWrap - 1,
         crossed' \in BOOLEAN, overdrawn' \in BOOLEAN, crossed => crossed',
         \A r \in Players :
           /\ exchange'[r].target = exchange[r].target
           /\ exchange'[r].done = exchange[r].done
           /\ exchange'[r].item = exchange[r].item \/ Standing(r) \/ crossed'
  PROVE  ExchangeTyped' /\ WindowsAre' /\ Tidy' /\ NoGift'
<1>1. /\ willing' = willing /\ online' = online /\ window' = window /\ closing' = closing
      /\ confirmed' = confirmed /\ cutIn' = cutIn /\ gift' = gift
  BY DEF clients
<1>2. ExchangeTyped'
  BY <1>1 DEF ExchangeInv, ExchangeTyped
<1>3. WindowsAre'
  BY <1>1 DEF ExchangeInv, WindowsAre, Online
<1>4. NoGift'
  BY <1>1 DEF ExchangeInv, NoGift
<1>5. Tidy'
  <2>1. SUFFICES ASSUME ~crossed', ~cutIn', NEW r \in Players
                 PROVE  /\ Standing(r)' =>
                             /\ window'[window'[r]] = r /\ ~closing'[window'[r]]
                             /\ exchange'[r].target = window'[r]
                        /\ exchange'[r].item # <<>> => Standing(r)'
                        /\ exchange'[r].done => Standing(r)' /\ confirmed'[r]
    BY DEF Tidy
  <2>2. /\ Standing(r) => /\ window[window[r]] = r /\ ~closing[window[r]]
                          /\ exchange[r].target = window[r]
        /\ exchange[r].item # <<>> => Standing(r)
        /\ exchange[r].done => Standing(r) /\ confirmed[r]
    BY <1>1, <2>1 DEF ExchangeInv, Tidy
  <2>3. Standing(r)' <=> Standing(r)
    BY <1>1 DEF Standing
  <2>4. exchange'[r].item # <<>> => Standing(r)
    BY <2>1, <2>2
  <2>. QED  BY <1>1, <2>2, <2>3, <2>4
<1>. QED  BY <1>2, <1>3, <1>4, <1>5

\* Nor does money change: who is done still has what it offers.
LEMMA PursesStay ==
  ASSUME ExchangeInv, floorGold' = floorGold, Sum(money)' = Sum(money),
         overdrawn => overdrawn',
         \A r \in Players : exchange'[r].done =>
                              \/ exchange'[r].gold <= money'[r]
                              \/ /\ exchange[r].done /\ exchange'[r].gold = exchange[r].gold
                                 /\ money'[r] = money[r]
  PROVE  PursesHold'
<1>1. SUFFICES ASSUME Gold0 < MoneyWrap, ~overdrawn'
               PROVE  /\ floorGold' + Sum(money)' = Gold0
                      /\ \A r \in Players : exchange'[r].done => exchange'[r].gold <= money'[r]
  BY DEF PursesHold, Gold0
<1>2. /\ floorGold + Sum(money) = Gold0
      /\ \A r \in Players : exchange[r].done => exchange[r].gold <= money[r]
  BY <1>1 DEF ExchangeInv, PursesHold
<1>. QED  BY <1>2

\* The exchange of somebody who offers an item, or gold.
Offering(e, it) == [e EXCEPT !.item = Append(@, it)]
OfferingGold(e, g) == [e EXCEPT !.gold = g]

\* They are exchanges; the offer is added, or the gold set.
LEMMA OfferingIs ==
  ASSUME NEW e \in Exchanges, NEW it \in Offers, NEW g \in 0..MoneyWrap - 1
  PROVE  /\ Offering(e, it) \in Exchanges /\ Offering(e, it).item = Append(e.item, it)
         /\ Offering(e, it).target = e.target /\ Offering(e, it).gold = e.gold
         /\ Offering(e, it).done = e.done
<1>1. PICK l : l = Append(e.item, it)
  OBVIOUS
<1>2. l \in Seq(Offers)
  <2>1. e.item \in Seq(Offers)
    BY DEF Exchanges
  <2>. QED  BY <1>1, <2>1
<1>3. PICK x : x = [e EXCEPT !.item = l]
  OBVIOUS
<1>4. /\ x \in Exchanges /\ x.item = l /\ x.target = e.target /\ x.gold = e.gold
      /\ x.done = e.done
  BY <1>2, <1>3 DEF Exchanges
<1>5. x = Offering(e, it)
  BY <1>1, <1>3 DEF Offering
<1>. QED  BY <1>1, <1>4, <1>5

\* The same of gold.
LEMMA OfferingGoldIs ==
  ASSUME NEW e \in Exchanges, NEW g \in 0..MoneyWrap - 1
  PROVE  /\ OfferingGold(e, g) \in Exchanges /\ OfferingGold(e, g).item = e.item
         /\ OfferingGold(e, g).target = e.target /\ OfferingGold(e, g).gold = g
         /\ OfferingGold(e, g).done = e.done
<1>1. PICK x : x = [e EXCEPT !.gold = g]
  OBVIOUS
<1>2. /\ x \in Exchanges /\ x.item = e.item /\ x.target = e.target /\ x.gold = g
      /\ x.done = e.done
  BY <1>1 DEF Exchanges
<1>. QED  BY <1>1, <1>2 DEF OfferingGold

\* Offering gold keeps the invariant: it is there, and nothing moves.
LEMMA OfferGoldKeeps ==
  ASSUME ExchangeInv, NEW p \in Players, NEW g \in 0..MoneyWrap - 1, OfferGold(p, g)
  PROVE  ExchangeInv'
<1>1. /\ ExchangeTyped /\ World \in Worlds /\ World.inv = inventory /\ World.money = money
      /\ World.ex = exchange /\ World.floor = floorItems
      /\ exchange \in [Players -> Exchanges] /\ exchange[p] \in Exchanges
  BY ThisWorld DEF ExchangeInv
<1>2. /\ inventory' = inventory /\ money' = money /\ floorItems' = floorItems
      /\ floorGold' = floorGold /\ crossed' = crossed /\ cutIn' = cutIn
      /\ overdrawn' = overdrawn /\ UNCHANGED <<clients, confirmed, cutIn, gift>>
  BY DEF OfferGold, goods, history
<1>3. PICK e : e = OfferingGold(exchange[p], g)
  OBVIOUS
<1>4. /\ e \in Exchanges /\ e.item = exchange[p].item /\ e.target = exchange[p].target
      /\ e.gold = g /\ e.done = exchange[p].done
  BY <1>1, <1>3, OfferingGoldIs
<1>5. exchange' = [exchange EXCEPT ![p] = e] /\ g <= money[p]
  BY <1>3 DEF OfferGold, OfferingGold
<1>6. exchange'[p] = e /\ \A r \in Players \ {p} : exchange'[r] = exchange[r]
  BY <1>1, <1>5
<1>7. PICK v : Replaced(World, v, p, e)
  BY DEF Replaced
<1>8. /\ v \in Worlds /\ v.inv = inventory /\ v.money = money /\ v.floor = floorItems
      /\ v.ex = [exchange EXCEPT ![p] = e]
      /\ \A id \in Items : Stock(v, id) = Stock(World, id)
  <2>1. /\ v \in Worlds /\ v.inv = World.inv /\ v.money = World.money /\ v.floor = World.floor
        /\ v.ex = [World.ex EXCEPT ![p] = e]
        /\ \A id \in Items :
             /\ Stock(v, id) \in Nat /\ Stock(World, id) \in Nat
             /\ Amount(World.ex[p].item, id) \in Nat /\ Amount(e.item, id) \in Nat
             /\ Stock(v, id) + Amount(World.ex[p].item, id)
                  = Stock(World, id) + Amount(e.item, id)
    <3>1. PICK w : w = World
      OBVIOUS
    <3>2. w \in Worlds /\ e \in Exchanges /\ Replaced(w, v, p, e)
      BY <1>1, <1>4, <1>7, <3>1
    <3>3. /\ v \in Worlds /\ v.inv = w.inv /\ v.money = w.money /\ v.floor = w.floor
          /\ v.ex = [w.ex EXCEPT ![p] = e]
          /\ \A id \in Items :
               /\ Stock(v, id) \in Nat /\ Stock(w, id) \in Nat
               /\ Amount(w.ex[p].item, id) \in Nat /\ Amount(e.item, id) \in Nat
               /\ Stock(v, id) + Amount(w.ex[p].item, id)
                    = Stock(w, id) + Amount(e.item, id)
      BY <3>2, ExReplaced
    <3>. QED  BY <3>1, <3>3
  <2>2. ASSUME NEW id \in Items PROVE Stock(v, id) = Stock(World, id)
    <3>1. PICK s, t, a : s = Stock(v, id) /\ t = Stock(World, id) /\ a = Amount(e.item, id)
      OBVIOUS
    <3>2. s \in Nat /\ t \in Nat /\ a \in Nat /\ s + a = t + a
      BY <1>1, <1>4, <2>1, <3>1
    <3>3. s = t
      BY <3>2
    <3>. QED  BY <3>1, <3>3
  <2>. QED  BY <1>1, <2>1, <2>2
<1>9. World' \in Worlds /\ ItemsKept'
  <2>1. WorldIs(v)
    BY <1>2, <1>5, <1>8 DEF WorldIs
  <2>2. Excused => Excused'
    BY <1>2 DEF Excused
  <2>. QED  BY <1>8, <2>1, <2>2, GoodsMove
<1>10. ExchangeTyped' /\ WindowsAre' /\ Tidy' /\ NoGift'
  <2>1. \A r \in Players : /\ exchange'[r].target = exchange[r].target
                           /\ exchange'[r].done = exchange[r].done
                           /\ exchange'[r].item = exchange[r].item
    BY <1>4, <1>6
  <2>2. floorGold' \in 0..MoneyWrap - 1 /\ crossed' \in BOOLEAN /\ overdrawn' \in BOOLEAN
    BY <1>1, <1>2 DEF ExchangeTyped
  <2>. QED  BY <1>2, <1>9, <2>1, <2>2, ClientsStay
<1>11. PursesHold'
  <2>1. \A r \in Players : exchange'[r].done =>
                              \/ exchange'[r].gold <= money'[r]
                              \/ /\ exchange[r].done /\ exchange'[r].gold = exchange[r].gold
                                 /\ money'[r] = money[r]
    BY <1>2, <1>4, <1>5, <1>6
  <2>. QED  BY <1>2, <2>1, PursesStay
<1>. QED  BY <1>9, <1>10, <1>11 DEF ExchangeInv


\* What one player has becomes something else, and what lies on the floor.
OwnBecomes(w, v, p, i, e, F) ==
  v = [inv |-> [w.inv EXCEPT ![p] = i], money |-> w.money,
       ex |-> [w.ex EXCEPT ![p] = e], floor |-> F]
OwnCounts(w, v, p, i, e, F) ==
  /\ v \in Worlds /\ v.inv = [w.inv EXCEPT ![p] = i] /\ v.money = w.money
  /\ v.ex = [w.ex EXCEPT ![p] = e] /\ v.floor = F
  /\ \A id \in Items :
       /\ {Stock(v, id), Stock(w, id), w.floor[id], F[id], Amount(w.inv[p], id),
           Amount(i, id), Amount(w.ex[p].item, id), Amount(e.item, id)} \subseteq Nat
       /\ Stock(v, id) + w.floor[id] + Amount(w.inv[p], id) + Amount(w.ex[p].item, id)
            = Stock(w, id) + F[id] + Amount(i, id) + Amount(e.item, id)

\* The stock changes by that.
LEMMA OwnChange ==
  ASSUME NEW w \in Worlds, NEW p \in Players, NEW i, Slots(i), NEW e \in Exchanges,
         NEW F \in [Items -> Nat], NEW v, OwnBecomes(w, v, p, i, e, F)
  PROVE  OwnCounts(w, v, p, i, e, F)
<1>1. /\ w.inv \in [Players -> Seq(Slot)] /\ w.money \in [Players -> 0..MoneyWrap - 1]
      /\ w.ex \in [Players -> Exchanges] /\ w.floor \in [Items -> Nat]
      /\ \A r \in Players : Slots(w.inv[r])
      /\ w.inv[p] \in Lists /\ w.ex[p].item \in Lists
  BY WorldFields
<1>2. PICK I, E : I = [w.inv EXCEPT ![p] = i] /\ E = [w.ex EXCEPT ![p] = e]
  OBVIOUS
<1>3. i \in Seq(Slot) /\ i \in Lists
  BY SlotsAreLists
<1>4. /\ I \in [Players -> Seq(Slot)] /\ I[p] = i /\ \A r \in Players \ {p} : I[r] = w.inv[r]
      /\ E \in [Players -> Exchanges] /\ E[p] = e /\ \A r \in Players \ {p} : E[r] = w.ex[r]
  BY <1>1, <1>2, <1>3
<1>5. \A r \in Players : Slots(I[r])
  BY <1>1, <1>4
<1>6. MadeOf(v, I, w.money, E, F)
  BY <1>1, <1>2, <1>4, <1>5 DEF MadeOf, OwnBecomes
<1>7. v \in Worlds /\ v.inv = I /\ v.money = w.money /\ v.ex = E /\ v.floor = F
  BY <1>6, WorldMade
<1>8. OthersSame(w, v, p)
  BY <1>4, <1>7 DEF OthersSame
<1>9. e.item \in Lists
  <2>1. v.ex[p].item \in Lists
    BY <1>7, WorldFields
  <2>. QED  BY <1>4, <1>7, <2>1
<1>10. ASSUME NEW id \in Items
       PROVE  /\ {Stock(v, id), Stock(w, id), w.floor[id], F[id], Amount(w.inv[p], id),
                  Amount(i, id), Amount(w.ex[p].item, id), Amount(e.item, id)} \subseteq Nat
              /\ Stock(v, id) + w.floor[id] + Amount(w.inv[p], id) + Amount(w.ex[p].item, id)
                   = Stock(w, id) + F[id] + Amount(i, id) + Amount(e.item, id)
  <2>1. PICK s, t, x, y, a, b, c, d :
          /\ s = Stock(v, id) /\ t = Stock(w, id) /\ x = w.floor[id] /\ y = F[id]
          /\ a = Amount(w.inv[p], id) /\ b = Amount(i, id)
          /\ c = Amount(w.ex[p].item, id) /\ d = Amount(e.item, id)
    OBVIOUS
  <2>2. s \in Nat /\ t \in Nat /\ x \in Nat /\ y \in Nat
    BY <1>1, <1>7, <2>1, StockIs
  <2>3. a \in Nat /\ b \in Nat /\ c \in Nat /\ d \in Nat
    BY <1>1, <1>3, <1>9, <2>1, AmountIs
  <2>4. OwnOf(w, p, id) = a + c /\ OwnOf(v, p, id) = b + d /\ v.floor[id] = y
    BY <1>4, <1>7, <2>1 DEF OwnOf
  <2>5. s + x + (a + c) = t + y + (b + d)
    BY <1>7, <1>8, <2>1, <2>4, StockChange
  <2>6. s + x + a + c = t + y + b + d
    BY <2>2, <2>3, <2>5
  <2>. QED  BY <2>1, <2>2, <2>3, <2>6
<1>. QED  BY <1>2, <1>7, <1>10 DEF OwnCounts

\* Some of a slot is taken away.
TakenFrom(inv, new, it) ==
  /\ Slots(new) /\ it \in Offers /\ it \in [id : Items \cup {Empty}, amount : Nat]
  /\ it.id \in Items /\ it.amount \in Nat
  /\ \A id \in Items : /\ Amount(new, id) \in Nat /\ Of(it, id) \in Nat
                       /\ Amount(new, id) + Of(it, id) = Amount(inv, id)

\* pc_delitem takes just that.
LEMMA DelitemTakes ==
  ASSUME NEW inv, Slots(inv), NEW s \in DOMAIN inv, inv[s].id # Empty,
         NEW n \in Nat, n # 0, n <= inv[s].amount,
         NEW it, it = [id |-> inv[s].id, amount |-> n]
  PROVE  TakenFrom(inv, pc_delitem(inv, s, n), it)
<1>1. PICK o, k : o = inv[s].id /\ k = inv[s].amount
  OBVIOUS
<1>2. /\ inv[s] \in Slot /\ o \in Items /\ k \in Nat /\ k <= MaxStack /\ k # 0
      /\ MaxStack \in Nat
  BY <1>1, SlotsAreLists, ExchangeAssumption
<1>3. inv[s] = [id |-> o, amount |-> k]
  BY <1>1, <1>2 DEF Slot
<1>4. PICK x : x = IF k <= n THEN EmptySlot ELSE [id |-> o, amount |-> k - n]
  OBVIOUS
<1>5. /\ x \in Slot
      /\ (x.id = Empty) <=> (x.amount = 0)
      /\ \A id \in Items : Of(x, id) = IF o = id THEN k - n ELSE 0
  <2>1. CASE k <= n
    <3>1. x = [id |-> Empty, amount |-> 0] /\ k - n = 0
      BY <1>1, <1>2, <1>4, <2>1 DEF EmptySlot
    <3>2. x \in Slot /\ x.id = Empty /\ x.amount = 0
      BY <1>2, <3>1 DEF Slot
    <3>. QED  BY <3>1, <3>2 DEF Of
  <2>2. CASE ~(k <= n)
    <3>1. x = [id |-> o, amount |-> k - n] /\ k - n \in 1..MaxStack
      BY <1>2, <1>4, <2>2
    <3>2. x \in Slot /\ x.id = o /\ x.amount = k - n
      BY <1>2, <3>1 DEF Slot
    <3>3. o # Empty /\ k - n # 0
      BY <1>1, <3>1
    <3>. QED  BY <3>2, <3>3 DEF Of
  <2>. QED  BY <2>1, <2>2
<1>6. PICK new : new = pc_delitem(inv, s, n)
  OBVIOUS
<1>7. OnlyAt(inv, s, x, new)
  <2>1. x = IF inv[s].amount <= n THEN EmptySlot
            ELSE [id |-> inv[s].id, amount |-> inv[s].amount - n]
    BY <1>1, <1>4
  <2>2. new = [inv EXCEPT ![s] = x]
    BY <1>6, <2>1 DEF pc_delitem
  <2>. QED  BY <2>2 DEF OnlyAt
<1>8. ChangesBy(inv, s, x, new)
  BY <1>5, <1>7, SlotsChange
<1>9. it \in Offers /\ it.id = o /\ it.amount = n
  BY <1>1, <1>2 DEF Offers
<1>10. it \in [id : Items \cup {Empty}, amount : Nat]
  BY <1>9 DEF Offers
<1>11. ASSUME NEW id \in Items
       PROVE  /\ Amount(new, id) \in Nat /\ Of(it, id) \in Nat
              /\ Amount(new, id) + Of(it, id) = Amount(inv, id)
  <2>1. PICK a, b : a = Amount(inv, id) /\ b = Amount(new, id)
    OBVIOUS
  <2>2. /\ a \in Nat /\ b \in Nat /\ b + Of(inv[s], id) = a + Of(x, id)
    BY <1>8, <2>1 DEF ChangesBy
  <2>3. /\ Of(inv[s], id) = IF o = id THEN k ELSE 0
        /\ Of(it, id) = IF o = id THEN n ELSE 0
    BY <1>1, <1>9 DEF Of
  <2>4. Of(x, id) = IF o = id THEN k - n ELSE 0
    BY <1>5
  <2>5. k - n \in Nat /\ k - n = k - n
    BY <1>1, <1>2
  <2>6. CASE o = id
    <3>1. b + k = a + (k - n) /\ Of(it, id) = n
      BY <2>2, <2>3, <2>4, <2>6
    <3>2. \A c, d \in Nat : b + c = a + (c - d) => b + d = a
      BY <2>2
    <3>3. k \in Nat /\ n \in Nat
      BY <1>1, <1>2
    <3>4. b + n = a
      BY <3>1, <3>2, <3>3
    <3>. QED  BY <2>1, <2>2, <3>1, <3>4
  <2>7. CASE o # id
    <3>1. b + 0 = a + 0 /\ Of(it, id) = 0
      BY <2>2, <2>3, <2>4, <2>7
    <3>. QED  BY <2>1, <2>2, <3>1
  <2>. QED  BY <2>6, <2>7
<1>. QED  BY <1>2, <1>6, <1>8, <1>9, <1>10, <1>11 DEF TakenFrom, ChangesBy


\* An item offered leaves the inventory for the offer, one dropped for the
\* floor: the units are the same.
LEMMA MovesKeep ==
  ASSUME NEW w \in Worlds, NEW p \in Players, NEW i, NEW it, TakenFrom(w.inv[p], i, it),
         NEW e \in Exchanges, NEW F \in [Items -> Nat],
         \/ e = Offering(w.ex[p], it) /\ F = w.floor
         \/ e = w.ex[p] /\ F = [w.floor EXCEPT ![it.id] = @ + it.amount]
  PROVE  \E v : OwnCounts(w, v, p, i, e, F) /\ Kept(w, v)
<1>1. /\ Slots(i) /\ it \in Offers /\ it \in [id : Items \cup {Empty}, amount : Nat]
      /\ it.id \in Items /\ it.amount \in Nat
      /\ \A id \in Items : /\ Amount(i, id) \in Nat /\ Of(it, id) \in Nat
                           /\ Amount(i, id) + Of(it, id) = Amount(w.inv[p], id)
  BY DEF TakenFrom
<1>2. PICK v : OwnBecomes(w, v, p, i, e, F)
  BY DEF OwnBecomes
<1>3. OwnCounts(w, v, p, i, e, F)
  BY <1>1, <1>2, OwnChange
<1>4. ASSUME NEW id \in Items PROVE Stock(v, id) = Stock(w, id)
  <2>1. PICK s, t, x, y, a, b, c, d, o :
          /\ s = Stock(v, id) /\ t = Stock(w, id) /\ x = w.floor[id] /\ y = F[id]
          /\ a = Amount(w.inv[p], id) /\ b = Amount(i, id)
          /\ c = Amount(w.ex[p].item, id) /\ d = Amount(e.item, id) /\ o = Of(it, id)
    OBVIOUS
  <2>2. /\ s \in Nat /\ t \in Nat /\ x \in Nat /\ y \in Nat
        /\ a \in Nat /\ b \in Nat /\ c \in Nat /\ d \in Nat
        /\ s + x + a + c = t + y + b + d
    BY <1>3, <2>1 DEF OwnCounts
  <2>3. o \in Nat /\ b + o = a
    BY <1>1, <2>1
  <2>4. w.ex[p] \in Exchanges /\ w.ex[p].item \in Lists /\ w.floor \in [Items -> Nat]
    BY WorldFields
  <2>5. CASE e = Offering(w.ex[p], it) /\ F = w.floor
    <3>1. e.item = Append(w.ex[p].item, it)
      <4>1. 0 \in 0..MoneyWrap - 1
        BY ExchangeAssumption
      <4>. QED  BY <1>1, <2>4, <2>5, <4>1, OfferingIs
    <3>2. d = c + o
      <4>1. PICK l : l = w.ex[p].item
        OBVIOUS
      <4>2. l \in Lists /\ it \in [id : Items \cup {Empty}, amount : Nat]
        BY <1>1, <2>4, <4>1
      <4>3. Amount(Append(l, it), id) = Amount(l, id) + Of(it, id)
        BY <4>2, AmountAppend
      <4>. QED  BY <2>1, <3>1, <4>1, <4>3
    <3>3. y = x
      BY <2>1, <2>5
    <3>4. s = t
      BY <2>2, <2>3, <3>2, <3>3
    <3>. QED  BY <2>1, <3>4
  <2>6. CASE e = w.ex[p] /\ F = [w.floor EXCEPT ![it.id] = @ + it.amount]
    <3>1. d = c
      BY <2>1, <2>6
    <3>2. y = x + o
      <4>1. CASE it.id = id
        <5>1. o = it.amount
          BY <2>1, <4>1 DEF Of
        <5>2. y = w.floor[id] + it.amount
          BY <1>1, <2>1, <2>4, <2>6, <4>1
        <5>. QED  BY <2>1, <5>1, <5>2
      <4>2. CASE it.id # id
        <5>1. o = 0
          BY <2>1, <4>2 DEF Of
        <5>2. y = w.floor[id]
          BY <1>1, <2>1, <2>4, <2>6, <4>2
        <5>. QED  BY <2>1, <2>2, <5>1, <5>2
      <4>. QED  BY <4>1, <4>2
    <3>3. s + x + (b + o) + c = t + (x + o) + b + c
      BY <2>2, <2>3, <3>1, <3>2
    <3>4. s = t
      BY <2>2, <2>3, <3>3
    <3>. QED  BY <2>1, <3>4
  <2>. QED  BY <2>5, <2>6
<1>5. Kept(w, v)
  BY <1>3, <1>4 DEF OwnCounts, Kept
<1>. QED  BY <1>3, <1>5

\* An offer keeps the invariant: it comes from a window that stands, or else
\* it crossed a notice.
LEMMA OfferKeeps ==
  ASSUME ExchangeInv, NEW p \in Players, NEW s \in DOMAIN inventory[p],
         NEW n \in 1..MaxStack, Offer(p, s, n)
  PROVE  ExchangeInv'
<1>1. /\ ExchangeTyped /\ World \in Worlds /\ World.inv = inventory /\ World.money = money
      /\ World.ex = exchange /\ World.floor = floorItems
      /\ exchange \in [Players -> Exchanges] /\ exchange[p] \in Exchanges
      /\ Slots(inventory[p]) /\ floorItems \in [Items -> Nat]
  BY ThisWorld DEF ExchangeInv
<1>2. /\ money' = money /\ floorItems' = floorItems
      /\ floorGold' = floorGold /\ cutIn' = cutIn
      /\ overdrawn' = overdrawn /\ UNCHANGED <<clients, confirmed, cutIn, gift>>
      /\ inventory[p][s].id # Empty /\ n <= inventory[p][s].amount
      /\ window[p] # NoOne
  BY DEF Offer, Trading
<1>3. PICK it, i : /\ it = [id |-> inventory[p][s].id, amount |-> n]
                   /\ i = pc_delitem(inventory[p], s, n)
  OBVIOUS
<1>4. TakenFrom(inventory[p], i, it)
  <2>1. PICK inv, k : inv = inventory[p] /\ k = s
    OBVIOUS
  <2>2. /\ Slots(inv) /\ k \in DOMAIN inv /\ inv[k].id # Empty
        /\ n \in Nat /\ n # 0 /\ n <= inv[k].amount
    BY <1>1, <1>2, <2>1, ExchangeAssumption
  <2>3. TakenFrom(inv, pc_delitem(inv, k, n), [id |-> inv[k].id, amount |-> n])
    BY <2>2, DelitemTakes
  <2>. QED  BY <1>3, <2>1, <2>3
<1>5. PICK e : e = Offering(exchange[p], it)
  OBVIOUS
<1>6. /\ e \in Exchanges /\ e.target = exchange[p].target
      /\ e.gold = exchange[p].gold /\ e.done = exchange[p].done
  <2>1. it \in Offers /\ 0 \in 0..MoneyWrap - 1
    BY <1>4, ExchangeAssumption DEF TakenFrom
  <2>. QED  BY <1>1, <1>5, <2>1, OfferingIs
<1>7. /\ inventory' = [inventory EXCEPT ![p] = i]
      /\ exchange' = [exchange EXCEPT ![p] = e]
      /\ crossed' = (crossed \/ closing[p])
  BY <1>3, <1>5 DEF Offer, Offering
<1>8. exchange'[p] = e /\ \A r \in Players \ {p} : exchange'[r] = exchange[r]
  BY <1>1, <1>7
<1>9. PICK v : OwnCounts(World, v, p, i, e, floorItems) /\ Kept(World, v)
  <2>1. PICK w : w = World
    OBVIOUS
  <2>2. /\ w \in Worlds /\ TakenFrom(w.inv[p], i, it) /\ e = Offering(w.ex[p], it)
        /\ floorItems = w.floor /\ floorItems \in [Items -> Nat]
    BY <1>1, <1>4, <1>5, <2>1
  <2>3. PICK F : F = floorItems
    OBVIOUS
  <2>4. \E v : OwnCounts(w, v, p, i, e, F) /\ Kept(w, v)
    BY <1>6, <2>2, <2>3, MovesKeep
  <2>. QED  BY <2>1, <2>3, <2>4
<1>10. World' \in Worlds /\ ItemsKept'
  <2>1. WorldIs(v)
    BY <1>1, <1>2, <1>7, <1>9 DEF WorldIs, OwnCounts
  <2>2. Excused => Excused'
    <3>1. crossed' = (crossed \/ closing[p]) /\ cutIn' = cutIn
      BY <1>2, <1>7
    <3>. QED  BY <3>1, Zenon DEF Excused
  <2>3. v \in Worlds /\ \A id \in Items : Stock(v, id) = Stock(World, id)
    BY <1>9 DEF Kept
  <2>. QED  BY <2>1, <2>2, <2>3, GoodsMove
<1>11. ExchangeTyped' /\ WindowsAre' /\ Tidy' /\ NoGift'
  <2>1. \A r \in Players : /\ exchange'[r].target = exchange[r].target
                           /\ exchange'[r].done = exchange[r].done
    BY <1>6, <1>8
  <2>2. \A r \in Players : exchange'[r].item = exchange[r].item \/ Standing(r) \/ crossed'
    BY <1>2, <1>7, <1>8 DEF Standing
  <2>3. closing[p] \in BOOLEAN /\ crossed \in BOOLEAN
    BY <1>1 DEF ExchangeTyped
  <2>4. floorGold' \in 0..MoneyWrap - 1 /\ crossed' \in BOOLEAN /\ overdrawn' \in BOOLEAN
        /\ (crossed => crossed')
    BY <1>1, <1>2, <1>7, <2>3 DEF ExchangeTyped
  <2>. QED  BY <1>2, <1>10, <2>1, <2>2, <2>4, ClientsStay
<1>12. PursesHold'
  <2>1. \A r \in Players : exchange'[r].done =>
                              \/ exchange'[r].gold <= money'[r]
                              \/ /\ exchange[r].done /\ exchange'[r].gold = exchange[r].gold
                                 /\ money'[r] = money[r]
    BY <1>2, <1>6, <1>8
  <2>. QED  BY <1>2, <2>1, PursesStay
<1>. QED  BY <1>10, <1>11, <1>12 DEF ExchangeInv


\* So does an item dropped: it lies on the floor.
LEMMA DropItemKeeps ==
  ASSUME ExchangeInv, NEW p \in Players, NEW s \in DOMAIN inventory[p],
         NEW all \in BOOLEAN, DropItem(p, s, all)
  PROVE  ExchangeInv'
<1>1. /\ ExchangeTyped /\ World \in Worlds /\ World.inv = inventory /\ World.money = money
      /\ World.ex = exchange /\ World.floor = floorItems
      /\ exchange \in [Players -> Exchanges] /\ exchange[p] \in Exchanges
      /\ Slots(inventory[p]) /\ floorItems \in [Items -> Nat]
  BY ThisWorld DEF ExchangeInv
<1>2. PICK n : n = IF all THEN inventory[p][s].amount ELSE 1
  OBVIOUS
<1>3. /\ money' = money /\ floorGold' = floorGold /\ exchange' = exchange
      /\ cutIn' = cutIn /\ crossed' = crossed
      /\ overdrawn' = overdrawn /\ UNCHANGED <<clients, confirmed, cutIn, gift>>
      /\ inventory[p][s].id # Empty
      /\ inventory' = [inventory EXCEPT ![p] = pc_delitem(@, s, n)]
      /\ floorItems' = [floorItems EXCEPT ![inventory[p][s].id] = @ + n]
  BY <1>2 DEF DropItem, history
<1>4. PICK it, i, e, F :
        /\ it = [id |-> inventory[p][s].id, amount |-> n]
        /\ i = pc_delitem(inventory[p], s, n) /\ e = exchange[p]
        /\ F = [floorItems EXCEPT ![inventory[p][s].id] = @ + n]
  OBVIOUS
<1>5. TakenFrom(inventory[p], i, it)
  <2>1. PICK inv, k : inv = inventory[p] /\ k = s
    OBVIOUS
  <2>2. Slots(inv) /\ k \in DOMAIN inv /\ inv[k].id # Empty
    BY <1>1, <1>3, <2>1
  <2>3. inv[k].amount \in Nat /\ inv[k].amount # 0
    BY <2>2, SlotsAreLists
  <2>4. n \in Nat /\ n # 0 /\ n <= inv[k].amount
    BY <1>2, <2>1, <2>3
  <2>5. TakenFrom(inv, pc_delitem(inv, k, n), [id |-> inv[k].id, amount |-> n])
    BY <2>2, <2>4, DelitemTakes
  <2>. QED  BY <1>4, <2>1, <2>5
<1>6. inventory' = [inventory EXCEPT ![p] = i] /\ floorItems' = F
  BY <1>3, <1>4
<1>7. F \in [Items -> Nat] /\ F = [floorItems EXCEPT ![it.id] = @ + it.amount]
  <2>1. it.id = inventory[p][s].id /\ it.amount = n /\ it.id \in Items /\ n \in Nat
    BY <1>4, <1>5 DEF TakenFrom
  <2>2. PICK o : o = it.id
    OBVIOUS
  <2>3. F = [floorItems EXCEPT ![o] = floorItems[o] + n] /\ o \in Items
    BY <1>4, <2>1, <2>2
  <2>4. F \in [Items -> Nat]
    BY <1>1, <2>1, <2>3
  <2>. QED  BY <2>1, <2>2, <2>3, <2>4
<1>8. PICK v : OwnCounts(World, v, p, i, e, F) /\ Kept(World, v)
  <2>1. PICK w : w = World
    OBVIOUS
  <2>2. /\ w \in Worlds /\ TakenFrom(w.inv[p], i, it) /\ e = w.ex[p] /\ e \in Exchanges
        /\ F = [w.floor EXCEPT ![it.id] = @ + it.amount]
    BY <1>1, <1>4, <1>5, <1>7, <2>1
  <2>3. \E v : OwnCounts(w, v, p, i, e, F) /\ Kept(w, v)
    BY <1>7, <2>2, MovesKeep
  <2>. QED  BY <2>1, <2>3
<1>9. World' \in Worlds /\ ItemsKept'
  <2>1. exchange' = [exchange EXCEPT ![p] = e]
    BY <1>1, <1>3, <1>4
  <2>2. WorldIs(v)
    BY <1>1, <1>3, <1>6, <1>8, <2>1 DEF WorldIs, OwnCounts
  <2>3. Excused => Excused'
    BY <1>3 DEF Excused
  <2>4. v \in Worlds /\ \A id \in Items : Stock(v, id) = Stock(World, id)
    BY <1>8 DEF Kept
  <2>. QED  BY <2>2, <2>3, <2>4, GoodsMove
<1>10. ExchangeTyped' /\ WindowsAre' /\ Tidy' /\ NoGift'
  <2>1. floorGold' \in 0..MoneyWrap - 1 /\ crossed' \in BOOLEAN /\ overdrawn' \in BOOLEAN
    BY <1>1, <1>3 DEF ExchangeTyped
  <2>. QED  BY <1>3, <1>9, <2>1, ClientsStay
<1>11. PursesHold'
  <2>1. \A r \in Players : exchange'[r].done =>
                              \/ exchange'[r].gold <= money'[r]
                              \/ /\ exchange[r].done /\ exchange'[r].gold = exchange[r].gold
                                 /\ money'[r] = money[r]
    BY <1>3
  <2>. QED  BY <1>3, <2>1, PursesStay
<1>. QED  BY <1>9, <1>10, <1>11 DEF ExchangeInv

\* And one picked up.
LEMMA PickUpKeeps ==
  ASSUME ExchangeInv, NEW p \in Players, NEW id0 \in Items, NEW all \in BOOLEAN,
         PickUp(p, id0, all)
  PROVE  ExchangeInv'
<1>1. /\ ExchangeTyped /\ World \in Worlds /\ World.inv = inventory /\ World.money = money
      /\ World.ex = exchange /\ World.floor = floorItems
      /\ World = [inv |-> inventory, money |-> money, ex |-> exchange, floor |-> floorItems]
      /\ inventory \in [Players -> Seq(Slot)] /\ Slots(inventory[p])
      /\ exchange \in [Players -> Exchanges] /\ exchange[p] \in Exchanges
      /\ floorItems \in [Items -> Nat]
  BY ThisWorld DEF ExchangeInv, World
<1>2. PICK n, F, it : /\ n = IF all THEN floorItems[id0] ELSE 1
                      /\ F = [floorItems EXCEPT ![id0] = @ - n]
                      /\ it = [id |-> id0, amount |-> n]
  OBVIOUS
<1>3. /\ floorGold' = floorGold
      /\ cutIn' = cutIn /\ crossed' = crossed
      /\ overdrawn' = overdrawn /\ UNCHANGED <<clients, confirmed, cutIn, gift>>
      /\ floorItems[id0] > 0
      /\ WorldIs(pc_additem([World EXCEPT !.floor[id0] = @ - n], p, it))
  BY <1>2 DEF PickUp, history
<1>4. n \in Nat /\ n <= floorItems[id0] /\ it \in [id : Items, amount : Nat]
  <2>1. n \in Nat /\ n <= floorItems[id0]
    BY <1>1, <1>2, <1>3
  <2>. QED  BY <1>2, <2>1
<1>5. F \in [Items -> Nat] /\ \A id \in Items : F[id] + Of(it, id) = floorItems[id]
  <2>1. PICK fl, o : fl = floorItems /\ o = id0
    OBVIOUS
  <2>2. /\ fl \in [Items -> Nat] /\ o \in Items /\ n \in Nat /\ n <= fl[o]
        /\ F = [fl EXCEPT ![o] = fl[o] - n]
    BY <1>1, <1>2, <1>4, <2>1
  <2>3. fl[o] - n \in Nat
    BY <2>2
  <2>4. F \in [Items -> Nat]
    BY <2>2, <2>3
  <2>5. \A id \in Items : F[id] + (IF o = id THEN n ELSE 0) = fl[id]
    BY <2>2
  <2>. QED  BY <1>2, <2>1, <2>4, <2>5 DEF Of
<1>6. PICK u : u = [World EXCEPT !.floor[id0] = @ - n]
  OBVIOUS
<1>7. /\ u \in Worlds /\ u.inv = inventory /\ u.money = money /\ u.ex = exchange
      /\ \A id \in Items : Stock(u, id) + Of(it, id) = Stock(World, id)
  <2>1. PICK w, i, e : w = World /\ i = w.inv[p] /\ e = w.ex[p]
    OBVIOUS
  <2>2. /\ w \in Worlds /\ Slots(i) /\ e \in Exchanges
        /\ w = [inv |-> w.inv, money |-> w.money, ex |-> w.ex, floor |-> w.floor]
        /\ [w.inv EXCEPT ![p] = i] = w.inv /\ [w.ex EXCEPT ![p] = e] = w.ex
    BY <1>1, <2>1
  <2>3. u = [inv |-> w.inv, money |-> w.money, ex |-> w.ex, floor |-> F]
    BY <1>1, <1>2, <1>6, <2>1
  <2>4. OwnBecomes(w, u, p, i, e, F)
    BY <2>2, <2>3 DEF OwnBecomes
  <2>5. OwnCounts(w, u, p, i, e, F)
    BY <1>5, <2>2, <2>4, OwnChange
  <2>6. ASSUME NEW id \in Items PROVE Stock(u, id) + Of(it, id) = Stock(w, id)
    <3>1. PICK su, sw, x, y, a, c, o :
            /\ su = Stock(u, id) /\ sw = Stock(w, id) /\ x = w.floor[id] /\ y = F[id]
            /\ a = Amount(i, id) /\ c = Amount(e.item, id) /\ o = Of(it, id)
      OBVIOUS
    <3>2. /\ su \in Nat /\ sw \in Nat /\ x \in Nat /\ y \in Nat /\ a \in Nat /\ c \in Nat
          /\ su + x + a + c = sw + y + a + c
      BY <2>1, <2>5, <3>1 DEF OwnCounts
    <3>3. o \in Nat
      BY <1>4, <3>1 DEF Of
    <3>4. y + o = x
      BY <1>1, <1>5, <2>1, <3>1
    <3>5. su + o = sw
      BY <3>2, <3>3, <3>4
    <3>. QED  BY <3>1, <3>5
  <2>7. u \in Worlds /\ u.inv = w.inv /\ u.money = w.money /\ u.ex = w.ex
    BY <2>2, <2>5 DEF OwnCounts
  <2>. QED  BY <1>1, <2>1, <2>6, <2>7
<1>8. PICK v : v = pc_additem(u, p, it)
  OBVIOUS
<1>9. /\ v \in Worlds /\ v.money = money /\ v.ex = exchange /\ WorldIs(v)
      /\ \A id \in Items : Stock(v, id) = Stock(u, id) + Of(it, id)
  <2>1. Gains(u, v, p, [id \in Items |-> Of(it, id)])
    BY <1>4, <1>7, <1>8, AdditemGains
  <2>. QED  BY <1>3, <1>6, <1>7, <1>8, <2>1 DEF Gains
<1>10. World' \in Worlds /\ ItemsKept'
  <2>1. \A id \in Items : Stock(v, id) = Stock(World, id)
    BY <1>7, <1>9
  <2>2. Excused => Excused'
    BY <1>3 DEF Excused
  <2>. QED  BY <1>9, <2>1, <2>2, GoodsMove
<1>11. exchange' = exchange /\ money' = money
  BY <1>9 DEF WorldIs
<1>12. ExchangeTyped' /\ WindowsAre' /\ Tidy' /\ NoGift'
  <2>1. floorGold' \in 0..MoneyWrap - 1 /\ crossed' \in BOOLEAN /\ overdrawn' \in BOOLEAN
    BY <1>1, <1>3 DEF ExchangeTyped
  <2>. QED  BY <1>3, <1>10, <1>11, <2>1, ClientsStay
<1>13. PursesHold'
  <2>1. \A r \in Players : exchange'[r].done =>
                              \/ exchange'[r].gold <= money'[r]
                              \/ /\ exchange[r].done /\ exchange'[r].gold = exchange[r].gold
                                 /\ money'[r] = money[r]
    BY <1>11
  <2>. QED  BY <1>3, <1>11, <2>1, PursesStay
<1>. QED  BY <1>10, <1>12, <1>13 DEF ExchangeInv


\* Gold dropped lies on the floor, and is missing only to somebody overdrawn.
LEMMA DropGoldKeeps ==
  ASSUME ExchangeInv, NEW p \in Players, NEW g \in 1..MoneyWrap - 1, clif_dropgold(p, g)
  PROVE  ExchangeInv'
<1>1. /\ ExchangeTyped /\ World \in Worlds /\ World.inv = inventory /\ World.money = money
      /\ World.ex = exchange /\ World.floor = floorItems
      /\ money \in [Players -> 0..MoneyWrap - 1] /\ exchange \in [Players -> Exchanges]
      /\ floorGold \in 0..MoneyWrap - 1 /\ overdrawn \in BOOLEAN /\ crossed \in BOOLEAN
      /\ floorItems \in [Items -> Nat] /\ inventory \in [Players -> Seq(Slot)]
      /\ \A r \in Players : Slots(inventory[r])
  BY ThisWorld DEF ExchangeInv, ExchangeTyped
<1>2. /\ inventory' = inventory /\ floorItems' = floorItems /\ exchange' = exchange
      /\ floorGold' = floorGold + g /\ floorGold + g < MoneyWrap /\ g <= money[p]
      /\ money' = [money EXCEPT ![p] = @ - g]
      /\ overdrawn' = (overdrawn \/ (exchange[p].done /\ money[p] - g < exchange[p].gold))
      /\ cutIn' = cutIn /\ crossed' = crossed /\ UNCHANGED <<clients, confirmed, cutIn, gift>>
  BY DEF clif_dropgold
<1>3. PICK m, k : m = money[p] /\ k = m - g
  OBVIOUS
<1>4. /\ m \in 0..MoneyWrap - 1 /\ k \in 0..MoneyWrap - 1 /\ k = m - g
      /\ OnlyAt(money, p, k, money')
  BY <1>1, <1>2, <1>3, ExchangeAssumption DEF OnlyAt
<1>5. /\ money' \in [Players -> 0..MoneyWrap - 1]
      /\ Sum(money)' \in Nat /\ Sum(money) \in Nat
      /\ Sum(money)' + m = Sum(money) + k
  <2>1. PICK old, new : old = money /\ new = money'
    OBVIOUS
  <2>2. /\ new \in [Players -> 0..MoneyWrap - 1] /\ Sum(new) \in Nat /\ Sum(old) \in Nat
        /\ Sum(new) + old[p] = Sum(old) + k
    <3>1. /\ old \in [Players -> 0..MoneyWrap - 1] /\ k \in 0..MoneyWrap - 1
          /\ OnlyAt(old, p, k, new)
      BY <1>1, <1>4, <2>1
    <3>. QED  BY <3>1, MoneyChange
  <2>3. Sum(new) = Sum(money)'
    BY <2>1
  <2>. QED  BY <1>3, <2>1, <2>2, <2>3
<1>6. PICK v : v = [inv |-> inventory, money |-> money', ex |-> exchange, floor |-> floorItems]
  OBVIOUS
<1>7. /\ v \in Worlds /\ v.inv = inventory /\ v.money = money' /\ v.ex = exchange
      /\ v.floor = floorItems
  <2>1. MadeOf(v, inventory, money', exchange, floorItems)
    BY <1>1, <1>5, <1>6 DEF MadeOf
  <2>2. PICK a, b, c, d : a = inventory /\ b = money' /\ c = exchange /\ d = floorItems
    OBVIOUS
  <2>3. MadeOf(v, a, b, c, d)
    BY <2>1, <2>2
  <2>. QED  BY <2>2, <2>3, WorldMade
<1>8. World' \in Worlds /\ ItemsKept'
  <2>1. WorldIs(v)
    BY <1>2, <1>7 DEF WorldIs
  <2>2. Excused => Excused'
    BY <1>2 DEF Excused
  <2>3. \A id \in Items : Stock(v, id) = Stock(World, id)
    BY <1>1, <1>7 DEF Stock
  <2>. QED  BY <1>7, <2>1, <2>2, <2>3, GoodsMove
<1>9. exchange[p].done \in BOOLEAN /\ exchange[p].gold \in Nat
  <2>1. exchange[p] \in Exchanges
    BY <1>1
  <2>. QED  BY <2>1, ExchangeAssumption DEF Exchanges
<1>10. overdrawn' \in BOOLEAN /\ (overdrawn => overdrawn')
  <2>1. overdrawn' = (overdrawn \/ (exchange[p].done /\ money[p] - g < exchange[p].gold))
    BY <1>2
  <2>. QED  BY <1>1, <2>1
<1>11. ExchangeTyped' /\ WindowsAre' /\ Tidy' /\ NoGift'
  <2>1. floorGold' \in 0..MoneyWrap - 1 /\ crossed' \in BOOLEAN
    BY <1>1, <1>2, ExchangeAssumption
  <2>. QED  BY <1>2, <1>8, <1>10, <2>1, ClientsStay
<1>12. PursesHold'
  <2>1. SUFFICES ASSUME Gold0 < MoneyWrap, ~overdrawn'
                 PROVE  /\ floorGold' + Sum(money)' = Gold0
                        /\ \A r \in Players : exchange'[r].done => exchange'[r].gold <= money'[r]
    BY DEF PursesHold, Gold0
  <2>2. /\ floorGold + Sum(money) = Gold0
        /\ \A r \in Players : exchange[r].done => exchange[r].gold <= money[r]
    BY <1>10, <2>1 DEF ExchangeInv, PursesHold
  <2>3. floorGold' + Sum(money)' = Gold0
    <3>1. PICK s, t, f : s = Sum(money) /\ t = Sum(money)' /\ f = floorGold
      OBVIOUS
    <3>2. /\ s \in Nat /\ t \in Nat /\ t + m = s + k /\ k = m - g /\ f \in Nat
          /\ m \in Nat /\ g \in Nat /\ f + s = Gold0
      BY <1>1, <1>4, <1>5, <2>2, <3>1, ExchangeAssumption
    <3>3. (f + g) + t = Gold0
      BY <3>2
    <3>. QED  BY <1>2, <3>1, <3>3
  <2>4. exchange[p].done => exchange[p].gold <= k
    <3>1. ~(exchange[p].done /\ money[p] - g < exchange[p].gold)
      <4>1. overdrawn' = (overdrawn \/ (exchange[p].done /\ money[p] - g < exchange[p].gold))
        BY <1>2
      <4>. QED  BY <2>1, <4>1, Zenon
    <3>2. money[p] - g = k /\ k \in Nat
      BY <1>3, <1>4
    <3>. QED  BY <1>9, <3>1, <3>2
  <2>5. money'[p] = k /\ \A r \in Players \ {p} : money'[r] = money[r]
    BY <1>1, <1>2, <1>3
  <2>. QED  BY <1>2, <2>2, <2>3, <2>4, <2>5
<1>. QED  BY <1>8, <1>11, <1>12 DEF ExchangeInv

\* Taking the gold on the floor leaves none there.
LEMMA TakeGoldKeeps ==
  ASSUME ExchangeInv, NEW p \in Players, TakeGold(p)
  PROVE  ExchangeInv'
<1>1. /\ ExchangeTyped /\ World \in Worlds /\ World.inv = inventory /\ World.money = money
      /\ World.ex = exchange /\ World.floor = floorItems
      /\ money \in [Players -> 0..MoneyWrap - 1] /\ exchange \in [Players -> Exchanges]
      /\ floorGold \in 0..MoneyWrap - 1 /\ overdrawn \in BOOLEAN /\ crossed \in BOOLEAN
      /\ floorItems \in [Items -> Nat] /\ inventory \in [Players -> Seq(Slot)]
      /\ \A r \in Players : Slots(inventory[r])
  BY ThisWorld DEF ExchangeInv, ExchangeTyped
<1>2. /\ inventory' = inventory /\ floorItems' = floorItems /\ exchange' = exchange
      /\ floorGold' = 0 /\ money' = [money EXCEPT ![p] = (@ + floorGold) % MoneyWrap]
      /\ cutIn' = cutIn /\ crossed' = crossed /\ overdrawn' = overdrawn
      /\ UNCHANGED <<clients, confirmed, cutIn, gift>>
  BY DEF TakeGold, history
<1>3. PICK m, k, f : m = money[p] /\ f = floorGold /\ k = (m + f) % MoneyWrap
  OBVIOUS
<1>4. /\ m \in 0..MoneyWrap - 1 /\ f \in 0..MoneyWrap - 1 /\ k \in 0..MoneyWrap - 1
      /\ m + f < MoneyWrap => k = m + f
      /\ OnlyAt(money, p, k, money')
  <2>1. m \in 0..MoneyWrap - 1 /\ f \in 0..MoneyWrap - 1
    BY <1>1, <1>3
  <2>2. k \in 0..MoneyWrap - 1 /\ (m + f < MoneyWrap => k = m + f)
    BY <1>3, <2>1, PurseWraps
  <2>3. OnlyAt(money, p, k, money')
    BY <1>2, <1>3 DEF OnlyAt
  <2>. QED  BY <2>1, <2>2, <2>3
<1>5. /\ money' \in [Players -> 0..MoneyWrap - 1]
      /\ Sum(money)' \in Nat /\ Sum(money) \in Nat
      /\ Sum(money)' + m = Sum(money) + k
  <2>1. PICK old, new : old = money /\ new = money'
    OBVIOUS
  <2>2. /\ new \in [Players -> 0..MoneyWrap - 1] /\ Sum(new) \in Nat /\ Sum(old) \in Nat
        /\ Sum(new) + old[p] = Sum(old) + k
    <3>1. /\ old \in [Players -> 0..MoneyWrap - 1] /\ k \in 0..MoneyWrap - 1
          /\ OnlyAt(old, p, k, new)
      BY <1>1, <1>4, <2>1
    <3>. QED  BY <3>1, MoneyChange
  <2>3. Sum(new) = Sum(money)'
    BY <2>1
  <2>. QED  BY <1>3, <2>1, <2>2, <2>3
<1>6. PICK v : v = [inv |-> inventory, money |-> money', ex |-> exchange, floor |-> floorItems]
  OBVIOUS
<1>7. /\ v \in Worlds /\ v.inv = inventory /\ v.money = money' /\ v.ex = exchange
      /\ v.floor = floorItems
  <2>1. MadeOf(v, inventory, money', exchange, floorItems)
    BY <1>1, <1>5, <1>6 DEF MadeOf
  <2>2. PICK a, b, c, d : a = inventory /\ b = money' /\ c = exchange /\ d = floorItems
    OBVIOUS
  <2>3. MadeOf(v, a, b, c, d)
    BY <2>1, <2>2
  <2>. QED  BY <2>2, <2>3, WorldMade
<1>8. World' \in Worlds /\ ItemsKept'
  <2>1. WorldIs(v)
    BY <1>2, <1>7 DEF WorldIs
  <2>2. Excused => Excused'
    BY <1>2 DEF Excused
  <2>3. \A id \in Items : Stock(v, id) = Stock(World, id)
    BY <1>1, <1>7 DEF Stock
  <2>. QED  BY <1>7, <2>1, <2>2, <2>3, GoodsMove
<1>9. ExchangeTyped' /\ WindowsAre' /\ Tidy' /\ NoGift'
  <2>1. floorGold' \in 0..MoneyWrap - 1 /\ crossed' \in BOOLEAN /\ overdrawn' \in BOOLEAN
    BY <1>1, <1>2, ExchangeAssumption
  <2>. QED  BY <1>2, <1>8, <2>1, ClientsStay
<1>10. PursesHold'
  <2>1. SUFFICES ASSUME Gold0 < MoneyWrap, ~overdrawn'
                 PROVE  /\ floorGold' + Sum(money)' = Gold0
                        /\ \A r \in Players : exchange'[r].done => exchange'[r].gold <= money'[r]
    BY DEF PursesHold, Gold0
  <2>2. /\ floorGold + Sum(money) = Gold0
        /\ \A r \in Players : exchange[r].done => exchange[r].gold <= money[r]
    BY <1>2, <2>1 DEF ExchangeInv, PursesHold
  <2>3. m <= Sum(money)
    <3>1. PICK old : old = money
      OBVIOUS
    <3>2. Amounts(old, Players) /\ Sum(old) = SumOf(old, Players)
      BY <1>1, <3>1, MoneyIs
    <3>3. /\ old[p] \in Nat /\ SumOf(old, Players \ {p}) \in Nat
          /\ SumOf(old, Players) = old[p] + SumOf(old, Players \ {p})
      BY <3>2, SumSplit, ExchangeAssumption
    <3>4. old[p] <= SumOf(old, Players)
      BY <3>3
    <3>. QED  BY <1>3, <3>1, <3>2, <3>4
  <2>4. k = m + f /\ floorGold' + Sum(money)' = Gold0
    <3>1. PICK s, t : s = Sum(money) /\ t = Sum(money)'
      OBVIOUS
    <3>2. /\ s \in Nat /\ t \in Nat /\ t + m = s + k /\ f \in Nat /\ m \in Nat
          /\ f + s = Gold0 /\ m <= s
      BY <1>3, <1>4, <1>5, <2>2, <2>3, <3>1, ExchangeAssumption
    <3>3. k = m + f
      <4>1. m + f < MoneyWrap
        BY <2>1, <3>2, ExchangeAssumption
      <4>. QED  BY <1>4, <4>1
    <3>4. 0 + t = Gold0
      BY <3>2, <3>3
    <3>. QED  BY <1>2, <3>1, <3>3, <3>4
  <2>5. money'[p] = k /\ \A r \in Players \ {p} : money'[r] = money[r]
    BY <1>1, <1>2, <1>3
  <2>6. money[p] <= k
    BY <1>3, <1>4, <2>4, ExchangeAssumption
  <2>7. \A r \in Players : exchange[r].gold \in Nat /\ money[r] \in Nat
    <3>1. ASSUME NEW r \in Players PROVE exchange[r].gold \in Nat /\ money[r] \in Nat
      <4>1. exchange[r] \in Exchanges
        BY <1>1
      <4>. QED  BY <1>1, <4>1, ExchangeAssumption DEF Exchanges
    <3>. QED  BY <3>1
  <2>8. k \in Nat
    BY <1>4, ExchangeAssumption
  <2>. QED  BY <1>2, <2>2, <2>4, <2>5, <2>6, <2>7, <2>8
<1>. QED  BY <1>8, <1>9, <1>10 DEF ExchangeInv


----------------------------------------------------------------------------
(* Closing exchanges.                                                      *)

\* The exchanges of S are closed, and nothing else is different.
Closed(w, v, S) ==
  /\ w \in Worlds /\ Kept(w, v) /\ v.money = w.money
  /\ \A r \in S : v.ex[r] = NoExchange
  /\ \A r \in Players \ S : v.ex[r] = w.ex[r]

\* One is closed, and then others.
LEMMA CloseCloses ==
  ASSUME NEW w \in Worlds, NEW p \in Players
  PROVE  Closed(w, w, {}) /\ Closed(w, clif_exchange_close(w, p), {p})
<1>1. PICK v : v = clif_exchange_close(w, p)
  OBVIOUS
<1>2. /\ Kept(w, v) /\ v.money = w.money /\ v.ex = [w.ex EXCEPT ![p] = NoExchange]
  BY <1>1, CloseKeeps
<1>3. w.ex \in [Players -> Exchanges]
  BY WorldFields
<1>4. v.ex[p] = NoExchange /\ \A r \in Players \ {p} : v.ex[r] = w.ex[r]
  BY <1>2, <1>3
<1>5. Closed(w, v, {p})
  BY <1>2, <1>4 DEF Closed
<1>6. Closed(w, w, {})
  BY DEF Closed, Kept
<1>. QED  BY <1>1, <1>5, <1>6

\* What follows closes more.
LEMMA ClosesOn ==
  ASSUME NEW w, NEW u, NEW v, NEW S \in SUBSET Players, NEW T \in SUBSET Players,
         Closed(w, u, S), Closed(u, v, T)
  PROVE  Closed(w, v, S \cup T)
<1>1. Kept(w, v) /\ w \in Worlds /\ v.money = w.money
  BY DEF Closed, Kept
<1>2. \A r \in S \cup T : v.ex[r] = NoExchange
  BY DEF Closed
<1>3. \A r \in Players \ (S \cup T) : v.ex[r] = w.ex[r]
  BY DEF Closed
<1>. QED  BY <1>1, <1>2, <1>3 DEF Closed

\* What is said of windows holds on when the exchanges of S are closed, no
\* window of S stands any more, and nobody else looks at S.  Others may be
\* done, once they confirmed.
LEMMA TidyOn ==
  ASSUME ExchangeInv, NEW S \in SUBSET Players, Excused => Excused',
         ~Excused' =>
           /\ \A r \in S : /\ ~Standing(r)' /\ exchange'[r].item = <<>>
                           /\ ~exchange'[r].done
           /\ \A r \in Players \ S :
                /\ window'[r] = window[r] /\ closing'[r] = closing[r]
                /\ exchange'[r].target = exchange[r].target
                /\ exchange'[r].item = exchange[r].item
                /\ exchange'[r].done => exchange[r].done \/ (Standing(r) /\ confirmed'[r])
                /\ confirmed[r] => confirmed'[r]
                /\ Standing(r) => window[r] \notin S
  PROVE  Tidy'
<1>1. SUFFICES ASSUME ~Excused', NEW r \in Players
               PROVE  /\ Standing(r)' =>
                           /\ window'[window'[r]] = r /\ ~closing'[window'[r]]
                           /\ exchange'[r].target = window'[r]
                      /\ exchange'[r].item # <<>> => Standing(r)'
                      /\ exchange'[r].done => Standing(r)' /\ confirmed'[r]
  BY DEF Tidy, Excused
<1>2. CASE r \in S
  BY <1>1, <1>2
<1>3. CASE r \notin S
  <2>1. /\ window'[r] = window[r] /\ closing'[r] = closing[r]
        /\ exchange'[r].target = exchange[r].target
        /\ exchange'[r].item = exchange[r].item
        /\ exchange'[r].done => exchange[r].done \/ (Standing(r) /\ confirmed'[r])
        /\ confirmed[r] => confirmed'[r]
        /\ Standing(r) => window[r] \notin S
    BY <1>1, <1>3
  <2>2. /\ Standing(r) => /\ window[window[r]] = r /\ ~closing[window[r]]
                          /\ exchange[r].target = window[r]
        /\ exchange[r].item # <<>> => Standing(r)
        /\ exchange[r].done => Standing(r) /\ confirmed[r]
    BY <1>1 DEF ExchangeInv, Tidy, Excused
  <2>3. Standing(r)' <=> Standing(r)
    BY <2>1 DEF Standing
  <2>4. ASSUME Standing(r) PROVE window'[window[r]] = r /\ ~closing'[window[r]]
    <3>1. window[r] \in Players \ S
      BY <2>1, <2>4 DEF ExchangeInv, ExchangeTyped, Standing
    <3>. QED  BY <1>1, <2>2, <2>4, <3>1
  <2>5. Standing(r)' => /\ window'[window'[r]] = r /\ ~closing'[window'[r]]
                        /\ exchange'[r].target = window'[r]
    BY <2>1, <2>2, <2>3, <2>4
  <2>6. exchange'[r].item # <<>> => Standing(r)'
    BY <2>1, <2>2, <2>3
  <2>7. exchange'[r].done => Standing(r)' /\ confirmed'[r]
    BY <2>1, <2>2, <2>3
  <2>. QED  BY <2>5, <2>6, <2>7
<1>. QED  BY <1>2, <1>3

\* Nobody else looks at two partners.
LEMMA PartnersAlone ==
  ASSUME ExchangeInv, ~Excused, NEW p \in Players, Standing(p)
  PROVE  /\ window[p] \in Players \ {p} /\ Online(window[p]) /\ Standing(window[p])
         /\ window[window[p]] = p /\ exchange[p].target = window[p]
         /\ \A r \in Players \ {p, window[p]} : Standing(r) => window[r] \notin {p, window[p]}
<1>1. \A r \in Players : Standing(r) => /\ window[window[r]] = r /\ ~closing[window[r]]
                                        /\ exchange[r].target = window[r]
  BY DEF ExchangeInv, Tidy, Excused
<1>2. window[p] \in Players /\ NoOne \notin Players /\ window[p] # p
  BY ExchangeAssumption DEF ExchangeInv, ExchangeTyped, WindowsAre, Standing
<1>3. Standing(window[p])
  BY <1>1, <1>2 DEF Standing
<1>4. Online(window[p])
  BY <1>2, <1>3 DEF ExchangeInv, WindowsAre, Standing
<1>. QED  BY <1>1, <1>2, <1>3, <1>4

\* Reading the notice, an option and a login move nothing.
LEMMA SeeCloseKeeps ==
  ASSUME ExchangeInv, NEW p \in Players, SeeClose(p)
  PROVE  ExchangeInv'
<1>1. /\ closing[p] /\ window' = [window EXCEPT ![p] = NoOne]
      /\ closing' = [closing EXCEPT ![p] = FALSE]
      /\ confirmed' = [confirmed EXCEPT ![p] = FALSE]
      /\ UNCHANGED <<goods, exchange>> /\ willing' = willing /\ online' = online
      /\ crossed' = crossed /\ cutIn' = cutIn /\ overdrawn' = overdrawn /\ gift' = gift
      /\ exchange' = exchange
  BY DEF SeeClose
<1>2. (Excused => Excused') /\ (Excused' => Excused)
  BY <1>1 DEF Excused
<1>3. World' \in Worlds /\ ItemsKept' /\ floorGold' \in 0..MoneyWrap - 1 /\ PursesHold'
  BY <1>1, <1>2, GoodsRest
<1>4. /\ window \in [Players -> Players \cup {NoOne}] /\ closing \in [Players -> BOOLEAN]
      /\ confirmed \in [Players -> BOOLEAN]
  BY DEF ExchangeInv, ExchangeTyped
<1>5. /\ window' \in [Players -> Players \cup {NoOne}] /\ closing' \in [Players -> BOOLEAN]
      /\ confirmed' \in [Players -> BOOLEAN]
  <2>1. ASSUME NEW f \in [Players -> BOOLEAN] PROVE [f EXCEPT ![p] = FALSE] \in [Players -> BOOLEAN]
    OBVIOUS
  <2>2. window' \in [Players -> Players \cup {NoOne}]
    BY <1>1, <1>4
  <2>. QED  BY <1>1, <1>4, <2>1, <2>2
<1>6. /\ window'[p] = NoOne
      /\ \A r \in Players \ {p} : /\ window'[r] = window[r] /\ closing'[r] = closing[r]
                                  /\ confirmed'[r] = confirmed[r]
  BY <1>1, <1>4
<1>7. ExchangeTyped'
  BY <1>1, <1>3, <1>5 DEF ExchangeInv, ExchangeTyped
<1>8. WindowsAre'
  <2>1. ASSUME NEW r \in Players, window'[r] # NoOne PROVE window'[r] # r /\ online'[r] # "off"
    BY <1>1, <1>6, <2>1 DEF ExchangeInv, WindowsAre, Online
  <2>. QED  BY <2>1 DEF WindowsAre, Online
<1>9. Tidy'
  <2>1. ASSUME ~Excused'
        PROVE  /\ \A r \in {p} : /\ ~Standing(r)' /\ exchange'[r].item = <<>>
                                 /\ ~exchange'[r].done
               /\ \A r \in Players \ {p} :
                    /\ window'[r] = window[r] /\ closing'[r] = closing[r]
                    /\ exchange'[r].target = exchange[r].target
                    /\ exchange'[r].item = exchange[r].item
                    /\ exchange'[r].done => exchange[r].done \/ (Standing(r) /\ confirmed'[r])
                    /\ confirmed[r] => confirmed'[r]
                    /\ Standing(r) => window[r] \notin {p}
    <3>1. \A r \in Players :
            /\ Standing(r) => ~closing[window[r]]
            /\ exchange[r].item # <<>> => Standing(r)
            /\ exchange[r].done => Standing(r)
      BY <1>2, <2>1 DEF ExchangeInv, Tidy, Excused
    <3>2. ~Standing(p) /\ ~Standing(p)'
      BY <1>1, <1>6 DEF Standing
    <3>3. \A r \in Players \ {p} : Standing(r) => window[r] \notin {p}
      BY <1>1, <3>1
    <3>4. exchange'[p].item = <<>> /\ ~exchange'[p].done
      BY <1>1, <3>1, <3>2
    <3>5. ASSUME NEW r \in Players \ {p}
          PROVE  /\ window'[r] = window[r] /\ closing'[r] = closing[r]
                 /\ exchange'[r] = exchange[r] /\ confirmed'[r] = confirmed[r]
      BY <1>1, <1>6
    <3>6. \A r \in {p} : ~Standing(r)' /\ exchange'[r].item = <<>> /\ ~exchange'[r].done
      BY <3>2, <3>4
    <3>7. ASSUME NEW r \in Players \ {p}
          PROVE  /\ window'[r] = window[r] /\ closing'[r] = closing[r]
                 /\ exchange'[r].target = exchange[r].target
                 /\ exchange'[r].item = exchange[r].item
                 /\ exchange'[r].done => exchange[r].done \/ (Standing(r) /\ confirmed'[r])
                 /\ confirmed[r] => confirmed'[r]
                 /\ Standing(r) => window[r] \notin {p}
      <4>1. window'[r] = window[r] /\ closing'[r] = closing[r] /\ exchange'[r] = exchange[r]
        BY <3>5
      <4>2. confirmed[r] => confirmed'[r]
        BY <3>5
      <4>3. exchange'[r].done => exchange[r].done
        BY <4>1
      <4>4. exchange'[r].target = exchange[r].target /\ exchange'[r].item = exchange[r].item
        BY <4>1
      <4>5. Standing(r) => window[r] \notin {p}
        BY <3>3
      <4>. QED  BY <4>1, <4>2, <4>3, <4>4, <4>5
    <3>. QED  BY <3>6, <3>7
  <2>. QED  BY <1>2, <2>1, TidyOn
<1>10. NoGift'
  BY <1>1 DEF ExchangeInv, NoGift
<1>. QED  BY <1>3, <1>7, <1>8, <1>9, <1>10 DEF ExchangeInv

\* The option and the login leave the windows alone too.
LEMMA ToggleKeeps ==
  ASSUME ExchangeInv, NEW p \in Players, ToggleExchange(p) \/ Login(p)
  PROVE  ExchangeInv'
<1>1. /\ UNCHANGED <<goods, exchange>> /\ window' = window /\ closing' = closing
      /\ confirmed' = confirmed /\ exchange' = exchange
      /\ crossed' = crossed /\ cutIn' = cutIn /\ overdrawn' = overdrawn /\ gift' = gift
  BY DEF ToggleExchange, Login, history
<1>2. World' \in Worlds /\ ItemsKept' /\ floorGold' \in 0..MoneyWrap - 1 /\ PursesHold'
  <2>1. Excused => Excused'
    BY <1>1 DEF Excused
  <2>. QED  BY <1>1, <2>1, GoodsRest
<1>3. /\ willing \in [Players -> BOOLEAN] /\ online \in [Players -> {"on", "eof", "off"}]
  BY DEF ExchangeInv, ExchangeTyped
<1>4. willing' \in [Players -> BOOLEAN]
  <2>1. (~willing[p]) \in BOOLEAN
    OBVIOUS
  <2>. QED  BY <1>3, <2>1 DEF ToggleExchange, Login
<1>5. /\ online' \in [Players -> {"on", "eof", "off"}]
      /\ \A r \in Players : online[r] # "off" => online'[r] # "off"
  BY <1>3 DEF ToggleExchange, Login
<1>6. ExchangeTyped'
  BY <1>1, <1>2, <1>4, <1>5 DEF ExchangeInv, ExchangeTyped
<1>7. WindowsAre'
  BY <1>1, <1>5 DEF ExchangeInv, WindowsAre, Online
<1>8. Tidy' /\ NoGift'
  BY <1>1 DEF ExchangeInv, Tidy, Standing, NoGift
<1>. QED  BY <1>2, <1>6, <1>7, <1>8 DEF ExchangeInv


\* A step that closes the exchanges of S.
ClosesOf(S) ==
  /\ World' \in Worlds /\ ItemsKept' /\ PursesHold'
  /\ floorGold' \in 0..MoneyWrap - 1
  /\ \A r \in S : exchange'[r].item = <<>> /\ ~exchange'[r].done
  /\ \A r \in Players \ S : exchange'[r] = exchange[r]

\* It keeps the goods.
LEMMA CloseStep ==
  ASSUME ExchangeInv, NEW v, NEW S \in SUBSET Players, Closed(World, v, S), WorldIs(v),
         Excused => Excused', floorGold' = floorGold, overdrawn' = overdrawn
  PROVE  ClosesOf(S)
<1>1. /\ World \in Worlds /\ World.money = money /\ World.ex = exchange
      /\ floorGold \in 0..MoneyWrap - 1
  BY ThisWorld DEF ExchangeInv, ExchangeTyped
<1>2. /\ v \in Worlds /\ v.money = money
      /\ \A id \in Items : Stock(v, id) = Stock(World, id)
      /\ \A r \in S : v.ex[r] = NoExchange
      /\ \A r \in Players \ S : v.ex[r] = exchange[r]
  BY <1>1 DEF Closed, Kept
<1>3. World' \in Worlds /\ ItemsKept'
  BY <1>2, GoodsMove
<1>4. exchange' = v.ex /\ money' = money
  BY <1>2 DEF WorldIs
<1>5. \A r \in S : exchange'[r].item = <<>> /\ exchange'[r].done = FALSE
  BY <1>2, <1>4 DEF NoExchange
<1>6. \A r \in Players \ S : exchange'[r] = exchange[r]
  BY <1>2, <1>4
<1>7. PursesHold'
  <2>1. \A r \in Players : exchange'[r].done =>
                              \/ exchange'[r].gold <= money'[r]
                              \/ /\ exchange[r].done /\ exchange'[r].gold = exchange[r].gold
                                 /\ money'[r] = money[r]
    BY <1>4, <1>5, <1>6
  <2>. QED  BY <1>4, <2>1, PursesStay
<1>. QED  BY <1>1, <1>3, <1>5, <1>6, <1>7 DEF ClosesOf

\* Notices are sent to those of S who show a window: none of these stands.
LEMMA NotifyCloses ==
  ASSUME closing \in [Players -> BOOLEAN], NEW S \in SUBSET Players, Notify(S)
  PROVE  /\ closing' \in [Players -> BOOLEAN]
         /\ \A r \in Players : r \notin S => closing'[r] = closing[r]
         /\ \A r \in S : window[r] # NoOne => closing'[r]
<1>1. closing' = [r \in Players |-> closing[r] \/ (r \in S /\ window[r] # NoOne)]
  BY DEF Notify
<1>2. closing' \in [Players -> BOOLEAN]
  <2>1. \A r \in Players : (closing[r] \/ (r \in S /\ window[r] # NoOne)) \in BOOLEAN
    OBVIOUS
  <2>. QED  BY <1>1, <2>1
<1>3. \A r \in Players : closing'[r] <=> closing[r] \/ (r \in S /\ window[r] # NoOne)
  BY <1>1
<1>4. \A r \in Players : r \notin S => closing'[r] = closing[r]
  BY <1>2, <1>3
<1>. QED  BY <1>2, <1>3, <1>4

\* Quitting closes both sides.
LEMMA QuitKeeps ==
  ASSUME ExchangeInv, NEW p \in Players, Quit(p)
  PROVE  ExchangeInv'
<1>1. World \in Worlds /\ ExchangeTyped
  BY DEF ExchangeInv, ExchangeTyped
<1>2. PICK q \in Players :
        /\ Trading(p, q)
        /\ LET w == clif_exchange_close(World, p)
           IN  WorldIs(IF Online(q) THEN clif_exchange_close(w, q) ELSE w)
        /\ Notify({p} \cup {r \in {q} : Online(r)})
        /\ crossed' = (crossed \/ closing[p])
        /\ UNCHANGED <<floorGold, willing, online, window,
                       confirmed, cutIn, overdrawn, gift>>
  BY DEF Quit
<1>3. PICK w, v : /\ w = clif_exchange_close(World, p)
                  /\ v = IF Online(q) THEN clif_exchange_close(w, q) ELSE w
  OBVIOUS
<1>4. PICK S : S = {p} \cup {r \in {q} : Online(r)}
  OBVIOUS
<1>5. Closed(World, v, S) /\ S \in SUBSET Players
  <2>1. Closed(World, w, {p})
    <3>1. PICK x : x = World
      OBVIOUS
    <3>2. Closed(x, clif_exchange_close(x, p), {p})
      BY <1>1, <3>1, CloseCloses
    <3>. QED  BY <1>3, <3>1, <3>2
  <2>2. w \in Worlds
    BY <2>1 DEF Closed, Kept
  <2>3. CASE Online(q)
    <3>1. S = {p} \cup {q}
      BY <1>4, <2>3
    <3>2. Closed(w, v, {q})
      BY <1>3, <2>2, <2>3, CloseCloses
    <3>3. Closed(World, v, {p} \cup {q})
      <4>1. PICK x : x = World
        OBVIOUS
      <4>2. Closed(x, w, {p})
        BY <2>1, <4>1
      <4>3. Closed(x, v, {p} \cup {q})
        BY <3>2, <4>2, ClosesOn
      <4>. QED  BY <4>1, <4>3
    <3>. QED  BY <3>1, <3>3
  <2>4. CASE ~Online(q)
    <3>1. S = {p} /\ v = w
      BY <1>3, <1>4, <2>4
    <3>. QED  BY <2>1, <3>1
  <2>. QED  BY <2>3, <2>4
<1>6. /\ window' = window /\ willing' = willing /\ online' = online
      /\ confirmed' = confirmed /\ cutIn' = cutIn /\ overdrawn' = overdrawn /\ gift' = gift
      /\ floorGold' = floorGold /\ window[p] = q /\ q # NoOne
  BY <1>2 DEF Trading
<1>7. Excused' <=> Excused \/ closing[p]
  <2>1. crossed' = (crossed \/ closing[p]) /\ cutIn' = cutIn
    BY <1>2, <1>6
  <2>. QED  BY <2>1, Zenon DEF Excused
<1>8. ClosesOf(S)
  <2>1. WorldIs(v)
    BY <1>2, <1>3
  <2>. QED  BY <1>5, <1>6, <1>7, <2>1, CloseStep
<1>9. /\ closing' \in [Players -> BOOLEAN]
      /\ \A r \in Players : r \notin S => closing'[r] = closing[r]
      /\ \A r \in S : window[r] # NoOne => closing'[r]
  <2>1. closing \in [Players -> BOOLEAN] /\ Notify(S)
    BY <1>1, <1>2, <1>4 DEF ExchangeTyped
  <2>. QED  BY <1>5, <2>1, NotifyCloses
<1>10. ExchangeTyped'
  <2>1. crossed' \in BOOLEAN
    <3>1. crossed \in BOOLEAN /\ closing[p] \in BOOLEAN
      BY <1>1 DEF ExchangeTyped
    <3>. QED  BY <1>2, <3>1
  <2>. QED  BY <1>1, <1>6, <1>8, <1>9, <2>1 DEF ExchangeTyped, ClosesOf
<1>11. WindowsAre'
  BY <1>6 DEF ExchangeInv, WindowsAre, Online
<1>12. Tidy'
  <2>1. ASSUME ~Excused'
        PROVE  /\ \A r \in S : /\ ~Standing(r)' /\ exchange'[r].item = <<>>
                               /\ ~exchange'[r].done
               /\ \A r \in Players \ S :
                    /\ window'[r] = window[r] /\ closing'[r] = closing[r]
                    /\ exchange'[r].target = exchange[r].target
                    /\ exchange'[r].item = exchange[r].item
                    /\ exchange'[r].done => exchange[r].done \/ (Standing(r) /\ confirmed'[r])
                    /\ confirmed[r] => confirmed'[r]
                    /\ Standing(r) => window[r] \notin S
    <3>1. ~Excused /\ Standing(p)
      BY <1>6, <1>7, <2>1 DEF Standing
    <3>2. /\ Online(q)
          /\ \A r \in Players \ {p, q} : Standing(r) => window[r] \notin {p, q}
      BY <1>6, <3>1, PartnersAlone
    <3>3. S = {p, q}
      BY <1>4, <3>2
    <3>4. \A r \in S : ~Standing(r)'
      BY <1>6, <1>9 DEF Standing
    <3>5. \A r \in S : exchange'[r].item = <<>> /\ ~exchange'[r].done
      BY <1>8 DEF ClosesOf
    <3>6. \A r \in Players \ S : exchange'[r] = exchange[r] /\ closing'[r] = closing[r]
      BY <1>8, <1>9 DEF ClosesOf
    <3>. QED  BY <1>6, <3>2, <3>3, <3>4, <3>5, <3>6
  <2>. QED  BY <1>5, <1>7, <2>1, TidyOn
<1>13. NoGift'
  BY <1>6, <1>7 DEF ExchangeInv, NoGift, Excused
<1>. QED  BY <1>8, <1>10, <1>11, <1>12, <1>13 DEF ExchangeInv, ClosesOf


\* Logging out closes the exchange, and the other side's when it meant this
\* player.
LEMMA LogoutKeeps ==
  ASSUME ExchangeInv, NEW p \in Players, Logout(p)
  PROVE  ExchangeInv'
<1>1. /\ ExchangeTyped /\ World \in Worlds /\ World.inv = inventory /\ World.money = money
      /\ World.ex = exchange /\ World.floor = floorItems
      /\ exchange \in [Players -> Exchanges] /\ exchange[p] \in Exchanges
  BY ThisWorld DEF ExchangeInv
<1>2. PICK q : q = exchange[p].target
  OBVIOUS
<1>3. PICK back \in BOOLEAN : back = (q # NoOne /\ Online(q) /\ exchange[q].target = p)
  OBVIOUS
<1>4. PICK w, v, u : /\ w = IF q = NoOne THEN World ELSE clif_exchange_close(World, p)
                     /\ v = IF back THEN clif_exchange_close(w, q) ELSE w
                     /\ u = [v EXCEPT !.ex[p] = NoExchange]
  OBVIOUS
<1>5. /\ WorldIs(u) /\ online' = [online EXCEPT ![p] = "off"]
      /\ closing' = [r \in Players |->
                       IF r = p THEN FALSE
                       ELSE closing[r] \/ (back /\ r = q /\ window[r] # NoOne)]
      /\ window' = [window EXCEPT ![p] = NoOne]
      /\ confirmed' = [confirmed EXCEPT ![p] = FALSE]
      /\ floorGold' = floorGold /\ willing' = willing /\ crossed' = crossed
      /\ cutIn' = cutIn /\ overdrawn' = overdrawn /\ gift' = gift
  BY <1>2, <1>3, <1>4 DEF Logout
<1>6. (Excused => Excused') /\ (Excused' => Excused)
  BY <1>5 DEF Excused
<1>7. q \in Players \cup {NoOne} /\ NoOne \notin Players /\ (back => q \in Players)
  BY <1>1, <1>2, <1>3, ExchangeAssumption DEF Exchanges
<1>8. PICK S, T : /\ T = IF back THEN {q} ELSE {}
                  /\ S = (IF q = NoOne THEN {} ELSE {p}) \cup T
  OBVIOUS
<1>9. S \in SUBSET Players /\ Closed(World, v, S)
  <2>1. PICK x, R : x = World /\ R = IF q = NoOne THEN {} ELSE {p}
    OBVIOUS
  <2>2. x \in Worlds /\ R \in SUBSET Players /\ T \in SUBSET Players /\ S = R \cup T
    BY <1>1, <1>7, <1>8, <2>1
  <2>3. Closed(x, w, R)
    <3>1. w = IF q = NoOne THEN x ELSE clif_exchange_close(x, p)
      BY <1>4, <2>1
    <3>2. Closed(x, x, {}) /\ Closed(x, clif_exchange_close(x, p), {p})
      BY <2>2, CloseCloses
    <3>. QED  BY <2>1, <3>1, <3>2
  <2>4. w \in Worlds
    BY <2>3 DEF Closed, Kept
  <2>5. Closed(w, v, T)
    <3>1. Closed(w, w, {})
      BY <2>4, CloseCloses
    <3>2. back => Closed(w, clif_exchange_close(w, q), {q})
      BY <1>7, <2>4, CloseCloses
    <3>. QED  BY <1>3, <1>4, <1>8, <3>1, <3>2
  <2>6. Closed(x, v, S)
    BY <2>2, <2>3, <2>5, ClosesOn
  <2>. QED  BY <2>1, <2>2, <2>6
<1>10. /\ v \in Worlds /\ v.money = money
       /\ \A id \in Items : Stock(v, id) = Stock(World, id)
       /\ \A r \in S : v.ex[r] = NoExchange
       /\ \A r \in Players \ S : v.ex[r] = exchange[r]
  BY <1>1, <1>9 DEF Closed, Kept
<1>11. /\ u \in Worlds /\ u.money = money /\ u.ex = [v.ex EXCEPT ![p] = NoExchange]
       /\ \A id \in Items :
            /\ Stock(u, id) \in Nat /\ Stock(v, id) \in Nat
            /\ Amount(v.ex[p].item, id) \in Nat
            /\ Stock(u, id) + Amount(v.ex[p].item, id) = Stock(v, id)
  <2>1. NoExchange \in Exchanges /\ NoExchange.item = <<>>
    BY BlankIs DEF NoExchange
  <2>2. Replaced(v, u, p, NoExchange)
    BY <1>4 DEF Replaced
  <2>3. PICK none : none = NoExchange
    OBVIOUS
  <2>4. v \in Worlds /\ none \in Exchanges /\ Replaced(v, u, p, none)
    BY <1>10, <2>1, <2>2, <2>3
  <2>5. /\ u \in Worlds /\ u.money = v.money /\ u.ex = [v.ex EXCEPT ![p] = none]
        /\ \A id \in Items :
             /\ Stock(u, id) \in Nat /\ Stock(v, id) \in Nat
             /\ Amount(v.ex[p].item, id) \in Nat
             /\ Stock(u, id) + Amount(v.ex[p].item, id) = Stock(v, id) + Amount(none.item, id)
    BY <2>4, ExReplaced
  <2>6. \A id \in Items : Amount(none.item, id) = 0
    BY <2>1, <2>3, AmountOfNone
  <2>7. ASSUME NEW id \in Items
        PROVE  Stock(u, id) + Amount(v.ex[p].item, id) = Stock(v, id)
    BY <2>5, <2>6
  <2>. QED  BY <1>10, <2>3, <2>5, <2>7
<1>12. ASSUME NEW id \in Items
       PROVE  \/ Stock(u, id) = Stock(World, id)
              \/ Stock(u, id) <= Stock(World, id) /\ Excused'
  <2>1. PICK a, b, c : a = Stock(u, id) /\ b = Stock(World, id) /\ c = Amount(v.ex[p].item, id)
    OBVIOUS
  <2>2. a \in Nat /\ c \in Nat /\ a + c = b
    BY <1>10, <1>11, <2>1
  <2>3. CASE v.ex[p].item = <<>>
    <3>1. c = 0
      BY <2>1, <2>3, AmountOfNone
    <3>2. a = b
      BY <2>2, <3>1
    <3>. QED  BY <2>1, <3>2
  <2>4. CASE v.ex[p].item # <<>>
    <3>1. p \notin S
      BY <1>10, <2>4 DEF NoExchange
    <3>2. q = NoOne /\ exchange[p].item # <<>>
      BY <1>8, <1>10, <2>4, <3>1
    <3>3. Excused
      <4>1. SUFFICES ASSUME ~Excused PROVE FALSE
        OBVIOUS
      <4>2. exchange[p].target = window[p] /\ window[p] # NoOne
        BY <3>2, <4>1 DEF ExchangeInv, Tidy, Excused, Standing
      <4>. QED  BY <1>2, <3>2, <4>2
    <3>4. a <= b
      BY <2>2
    <3>. QED  BY <1>6, <2>1, <3>3, <3>4
  <2>. QED  BY <2>3, <2>4
<1>13. World' \in Worlds /\ ItemsKept'
  BY <1>5, <1>6, <1>11, <1>12, GoodsMove
<1>14. PICK U : U = S \cup {p}
  OBVIOUS
<1>15. /\ exchange' = u.ex /\ money' = money
       /\ U \in SUBSET Players
       /\ \A r \in U : exchange'[r] = NoExchange
       /\ \A r \in Players \ U : exchange'[r] = exchange[r]
  <2>1. exchange' = u.ex /\ money' = money /\ U \in SUBSET Players
    BY <1>5, <1>9, <1>11, <1>14 DEF WorldIs
  <2>2. v.ex \in [Players -> Exchanges]
    BY <1>10, WorldFields
  <2>3. u.ex[p] = NoExchange /\ \A r \in Players \ {p} : u.ex[r] = v.ex[r]
    BY <1>11, <2>2
  <2>. QED  BY <1>9, <1>10, <1>14, <2>1, <2>3
<1>16. \A r \in U : exchange'[r].item = <<>> /\ exchange'[r].done = FALSE
  BY <1>15 DEF NoExchange
<1>17. PursesHold'
  <2>1. \A r \in Players : exchange'[r].done =>
                              \/ exchange'[r].gold <= money'[r]
                              \/ /\ exchange[r].done /\ exchange'[r].gold = exchange[r].gold
                                 /\ money'[r] = money[r]
    BY <1>15, <1>16
  <2>. QED  BY <1>5, <1>15, <2>1, PursesStay
<1>18. /\ window \in [Players -> Players \cup {NoOne}] /\ closing \in [Players -> BOOLEAN]
       /\ confirmed \in [Players -> BOOLEAN] /\ online \in [Players -> {"on", "eof", "off"}]
  BY <1>1 DEF ExchangeTyped
<1>19. /\ window'[p] = NoOne /\ \A r \in Players \ {p} : window'[r] = window[r]
       /\ \A r \in Players \ {p} : online'[r] = online[r]
       /\ \A r \in Players \ {p} : confirmed'[r] = confirmed[r]
  BY <1>5, <1>18
<1>20. /\ closing' \in [Players -> BOOLEAN]
       /\ \A r \in Players \ U : closing'[r] = closing[r]
       /\ \A r \in U \ {p} : window[r] # NoOne => closing'[r]
  <2>1. \A r \in Players : closing'[r] = IF r = p THEN FALSE
                              ELSE closing[r] \/ (back /\ r = q /\ window[r] # NoOne)
    BY <1>5
  <2>2. \A r \in Players : (IF r = p THEN FALSE
                            ELSE closing[r] \/ (back /\ r = q /\ window[r] # NoOne)) \in BOOLEAN
    OBVIOUS
  <2>3. closing' \in [Players -> BOOLEAN]
    BY <1>5, <2>2
  <2>4. ASSUME NEW r \in Players \ U PROVE closing'[r] = closing[r]
    <3>1. r # p /\ ~(back /\ r = q)
      BY <1>8, <1>14
    <3>2. closing'[r] <=> closing[r]
      BY <2>1, <3>1
    <3>. QED  BY <1>18, <2>3, <3>2
  <2>5. ASSUME NEW r \in U \ {p}, window[r] # NoOne PROVE closing'[r]
    <3>1. r \in Players /\ back /\ r = q
      BY <1>8, <1>14, <1>15
    <3>. QED  BY <2>1, <2>5, <3>1
  <2>. QED  BY <2>3, <2>4, <2>5
<1>21. ExchangeTyped'
  <2>1. window' \in [Players -> Players \cup {NoOne}]
    BY <1>5, <1>18
  <2>2. confirmed' \in [Players -> BOOLEAN]
    BY <1>5, <1>18
  <2>3. online' \in [Players -> {"on", "eof", "off"}]
    BY <1>5, <1>18
  <2>. QED  BY <1>1, <1>5, <1>13, <1>20, <2>1, <2>2, <2>3 DEF ExchangeTyped
<1>22. WindowsAre'
  <2>1. ASSUME NEW r \in Players, window'[r] # NoOne PROVE window'[r] # r /\ online'[r] # "off"
    BY <1>19, <2>1 DEF ExchangeInv, WindowsAre, Online
  <2>. QED  BY <2>1 DEF WindowsAre, Online
<1>23. Tidy'
  <2>1. ASSUME ~Excused'
        PROVE  /\ \A r \in U : /\ ~Standing(r)' /\ exchange'[r].item = <<>>
                               /\ ~exchange'[r].done
               /\ \A r \in Players \ U :
                    /\ window'[r] = window[r] /\ closing'[r] = closing[r]
                    /\ exchange'[r].target = exchange[r].target
                    /\ exchange'[r].item = exchange[r].item
                    /\ exchange'[r].done => exchange[r].done \/ (Standing(r) /\ confirmed'[r])
                    /\ confirmed[r] => confirmed'[r]
                    /\ Standing(r) => window[r] \notin U
    <3>1. ASSUME NEW r \in U PROVE ~Standing(r)'
      <4>1. CASE r = p
        BY <1>19, <4>1 DEF Standing
      <4>2. CASE r # p
        BY <1>15, <1>19, <1>20, <4>2 DEF Standing
      <4>. QED  BY <4>1, <4>2
    <3>2. ASSUME NEW r \in Players \ U, Standing(r) PROVE window[r] \notin U
      <4>1. SUFFICES ASSUME window[r] \in U PROVE FALSE
        OBVIOUS
      <4>2. /\ window[r] \in Players /\ Standing(window[r]) /\ window[window[r]] = r
            /\ exchange[r].target = window[r] /\ Online(r)
            /\ exchange[window[r]].target = r
        <5>1. ~Excused
          BY <1>6, <2>1
        <5>2. /\ window[r] \in Players \ {r} /\ Standing(window[r])
              /\ window[window[r]] = r /\ exchange[r].target = window[r]
          BY <3>2, <5>1, PartnersAlone
        <5>3. exchange[window[r]].target = r
          BY <5>1, <5>2, PartnersAlone
        <5>4. Online(r)
          BY <3>2 DEF ExchangeInv, WindowsAre, Standing
        <5>. QED  BY <5>2, <5>3, <5>4
      <4>3. CASE window[r] = p
        <5>1. q = r
          BY <1>2, <4>2, <4>3
        <5>2. back
          BY <1>3, <1>7, <4>2, <4>3, <5>1
        <5>. QED  BY <1>8, <1>14, <3>2, <5>1, <5>2
      <4>4. CASE window[r] # p
        <5>1. back /\ window[r] = q
          BY <1>8, <1>14, <4>1, <4>4
        <5>2. exchange[q].target = p
          BY <1>3, <5>1
        <5>3. r = p
          BY <4>2, <5>1, <5>2
        <5>. QED  BY <1>14, <3>2, <5>3
      <4>. QED  BY <4>3, <4>4
    <3>3. \A r \in U : exchange'[r].item = <<>> /\ ~exchange'[r].done
      BY <1>16
    <3>4. \A r \in Players \ U :
            /\ exchange'[r] = exchange[r] /\ closing'[r] = closing[r]
            /\ window'[r] = window[r]
            /\ confirmed[r] => confirmed'[r]
      BY <1>14, <1>15, <1>19, <1>20
    <3>. QED  BY <3>1, <3>2, <3>3, <3>4
  <2>. QED  BY <1>6, <1>15, <2>1, TidyOn
<1>24. NoGift'
  BY <1>5 DEF ExchangeInv, NoGift
<1>. QED  BY <1>13, <1>17, <1>21, <1>22, <1>23, <1>24 DEF ExchangeInv


----------------------------------------------------------------------------
(* Finishing.                                                              *)

\* What all branches of a finish do: the wrong partner closes this side.
Finishing(p, q, wrong, w) ==
  /\ Trading(p, q) /\ wrong = (exchange[p].target # q)
  /\ w = IF wrong THEN clif_exchange_close(World, p) ELSE World
  /\ confirmed' = [confirmed EXCEPT ![p] = TRUE]
  /\ crossed' = (crossed \/ closing[p])
  /\ floorGold' = floorGold /\ willing' = willing /\ window' = window
  /\ cutIn' = cutIn /\ overdrawn' = overdrawn

\* The two are partners, unless a packet crossed a notice or somebody cut in.
Partners(p, q, wrong, w) ==
  /\ p # q /\ w \in Worlds /\ Closed(World, w, IF wrong THEN {p} ELSE {})
  /\ Excused => Excused'
  /\ ~Excused' => /\ ~Excused /\ Standing(p) /\ Online(q) /\ ~wrong /\ w = World
                  /\ \A r \in Players \ {p, q} : Standing(r) => window[r] \notin {p, q}
  /\ crossed' \in BOOLEAN /\ confirmed' \in [Players -> BOOLEAN] /\ confirmed'[p]
  /\ \A r \in Players : confirmed[r] => confirmed'[r]

\* That is so.
LEMMA FinishingIs ==
  ASSUME ExchangeInv, NEW p \in Players, NEW q \in Players, NEW wrong \in BOOLEAN, NEW w,
         Finishing(p, q, wrong, w)
  PROVE  Partners(p, q, wrong, w)
<1>1. World \in Worlds /\ ExchangeTyped
  BY DEF ExchangeInv, ExchangeTyped
<1>2. window[p] = q /\ q # NoOne /\ p # q
  BY DEF Finishing, Trading, ExchangeInv, WindowsAre
<1>3. Closed(World, w, IF wrong THEN {p} ELSE {}) /\ w \in Worlds
  <2>1. PICK x : x = World
    OBVIOUS
  <2>2. Closed(x, x, {}) /\ Closed(x, clif_exchange_close(x, p), {p})
    BY <1>1, <2>1, CloseCloses
  <2>3. Closed(x, w, IF wrong THEN {p} ELSE {})
    BY <2>1, <2>2 DEF Finishing
  <2>4. w \in Worlds
    BY <2>3 DEF Closed, Kept
  <2>. QED  BY <2>1, <2>3, <2>4
<1>4. Excused' <=> Excused \/ closing[p]
  <2>1. crossed' = (crossed \/ closing[p]) /\ cutIn' = cutIn
    BY DEF Finishing
  <2>. QED  BY <2>1, Zenon DEF Excused
<1>5. ASSUME ~Excused'
      PROVE  /\ ~Excused /\ Standing(p) /\ Online(q) /\ ~wrong /\ w = World
             /\ \A r \in Players \ {p, q} : Standing(r) => window[r] \notin {p, q}
  <2>1. ~Excused /\ Standing(p)
    BY <1>2, <1>4, <1>5 DEF Standing
  <2>2. /\ Online(q) /\ exchange[p].target = q
        /\ \A r \in Players \ {p, q} : Standing(r) => window[r] \notin {p, q}
    BY <1>2, <2>1, PartnersAlone
  <2>3. ~wrong /\ w = World
    BY <2>2 DEF Finishing
  <2>. QED  BY <2>1, <2>2, <2>3
<1>6. confirmed \in [Players -> BOOLEAN] /\ crossed \in BOOLEAN /\ closing[p] \in BOOLEAN
  BY <1>1 DEF ExchangeTyped
<1>7. crossed' \in BOOLEAN
  BY <1>6 DEF Finishing
<1>8. /\ confirmed' \in [Players -> BOOLEAN] /\ confirmed'[p]
      /\ \A r \in Players : confirmed[r] => confirmed'[r]
  <2>1. PICK c, d : c = confirmed /\ d = confirmed'
    OBVIOUS
  <2>2. c \in [Players -> BOOLEAN] /\ d = [c EXCEPT ![p] = TRUE]
    BY <1>6, <2>1 DEF Finishing
  <2>3. d \in [Players -> BOOLEAN] /\ d[p] /\ \A r \in Players : c[r] => d[r]
    BY <2>2
  <2>. QED  BY <2>1, <2>3
<1>. QED  BY <1>2, <1>3, <1>4, <1>5, <1>7, <1>8 DEF Partners

\* A finish that closes, or settles, the exchange of both.
LEMMA FinishCloses ==
  ASSUME ExchangeInv, NEW p \in Players, NEW q \in Players, NEW wrong \in BOOLEAN, NEW w,
         Finishing(p, q, wrong, w), Partners(p, q, wrong, w),
         NEW S \in SUBSET Players, NEW N \in SUBSET Players, ClosesOf(S), Notify(N),
         ~Excused' => S = {p, q} /\ N = {p, q},
         online' \in [Players -> {"on", "eof", "off"}],
         \A r \in Players : online[r] # "off" => online'[r] # "off",
         gift' \in BOOLEAN, NoGift'
  PROVE  ExchangeInv'
<1>1. /\ World' \in Worlds /\ ItemsKept' /\ PursesHold' /\ floorGold' \in 0..MoneyWrap - 1
      /\ \A r \in S : exchange'[r].item = <<>> /\ ~exchange'[r].done
      /\ \A r \in Players \ S : exchange'[r] = exchange[r]
  BY DEF ClosesOf
<1>2. /\ willing' = willing /\ window' = window /\ cutIn' = cutIn /\ overdrawn' = overdrawn
      /\ window[p] = q /\ q # NoOne
  BY DEF Finishing, Trading
<1>3. /\ Excused => Excused'
      /\ ~Excused' => /\ ~Excused /\ Standing(p)
                      /\ \A r \in Players \ {p, q} : Standing(r) => window[r] \notin {p, q}
      /\ crossed' \in BOOLEAN /\ confirmed' \in [Players -> BOOLEAN]
      /\ \A r \in Players : confirmed[r] => confirmed'[r]
  BY DEF Partners
<1>4. /\ closing' \in [Players -> BOOLEAN]
      /\ \A r \in Players : r \notin N => closing'[r] = closing[r]
      /\ \A r \in N : window[r] # NoOne => closing'[r]
  <2>1. closing \in [Players -> BOOLEAN]
    BY DEF ExchangeInv, ExchangeTyped
  <2>. QED  BY <2>1, NotifyCloses
<1>5. ExchangeTyped'
  BY <1>1, <1>2, <1>3, <1>4 DEF ExchangeInv, ExchangeTyped
<1>6. WindowsAre'
  BY <1>2 DEF ExchangeInv, WindowsAre, Online
<1>7. Tidy'
  <2>1. ASSUME ~Excused'
        PROVE  /\ \A r \in S : /\ ~Standing(r)' /\ exchange'[r].item = <<>>
                               /\ ~exchange'[r].done
               /\ \A r \in Players \ S :
                    /\ window'[r] = window[r] /\ closing'[r] = closing[r]
                    /\ exchange'[r].target = exchange[r].target
                    /\ exchange'[r].item = exchange[r].item
                    /\ exchange'[r].done => exchange[r].done \/ (Standing(r) /\ confirmed'[r])
                    /\ confirmed[r] => confirmed'[r]
                    /\ Standing(r) => window[r] \notin S
    <3>1. S = {p, q} /\ N = {p, q}
      BY <2>1
    <3>2. \A r \in S : ~Standing(r)'
      BY <1>2, <1>4, <3>1 DEF Standing
    <3>3. \A r \in Players \ S : exchange'[r] = exchange[r] /\ closing'[r] = closing[r]
      BY <1>1, <1>4, <3>1
    <3>. QED  BY <1>1, <1>2, <1>3, <2>1, <3>1, <3>2, <3>3
  <2>. QED  BY <1>3, <2>1, TidyOn
<1>. QED  BY <1>1, <1>5, <1>6, <1>7 DEF ExchangeInv

\* What a finish pays is there, when nobody was overdrawn.
LEMMA FinishPays ==
  ASSUME ExchangeInv, NEW p \in Players, NEW q \in Players, NEW wrong \in BOOLEAN, NEW w,
         Finishing(p, q, wrong, w), Partners(p, q, wrong, w), HasGold(w, p),
         exchange[q].done, Gold0 < MoneyWrap, ~overdrawn
  PROVE  CanPay(w, p) /\ CanPay(w, q) /\ Scarce(w)
<1>1. World.money = money /\ World.ex = exchange /\ money \in [Players -> 0..MoneyWrap - 1]
      /\ floorGold \in 0..MoneyWrap - 1
  BY ThisWorld DEF ExchangeInv, ExchangeTyped
<1>2. w.money = money /\ w.ex[q] = exchange[q]
  BY <1>1 DEF Partners, Closed
<1>3. /\ floorGold + Sum(money) = Gold0
      /\ exchange[q].gold <= money[q]
  BY DEF ExchangeInv, PursesHold
<1>4. Sum(money) \in Nat
  <2>1. PICK m : m = money
    OBVIOUS
  <2>2. Sum(m) \in Nat
    BY <1>1, <2>1, MoneyIs
  <2>. QED  BY <2>1, <2>2
<1>5. Scarce(w)
  <2>1. Sum(money) < MoneyWrap
    BY <1>1, <1>3, <1>4, ExchangeAssumption
  <2>. QED  BY <1>2, <2>1 DEF Scarce
<1>. QED  BY <1>2, <1>3, <1>5 DEF HasGold, CanPay


\* The other one is done: both lists and all gold change hands.
LEMMA FinishSettles ==
  ASSUME ExchangeInv, NEW p \in Players, NEW q \in Players, NEW wrong \in BOOLEAN, NEW w,
         Finishing(p, q, wrong, w), Partners(p, q, wrong, w), HasGold(w, p),
         exchange[q].done, WorldIs(Settled(w, p, q))
  PROVE  ClosesOf({p, q})
<1>1. /\ World \in Worlds /\ World.money = money /\ World.ex = exchange
      /\ money \in [Players -> 0..MoneyWrap - 1]
      /\ exchange \in [Players -> Exchanges] /\ floorGold \in 0..MoneyWrap - 1
  BY ThisWorld DEF ExchangeInv, ExchangeTyped
<1>2. /\ p # q /\ w \in Worlds /\ w.money = money /\ (Excused => Excused')
      /\ \A id \in Items : Stock(w, id) = Stock(World, id)
      /\ \A r \in Players \ {p, q} : w.ex[r] = exchange[r]
  BY <1>1 DEF Partners, Closed, Kept
<1>3. floorGold' = floorGold /\ overdrawn' = overdrawn
  BY DEF Finishing
<1>4. PICK v : v = Settled(w, p, q)
  OBVIOUS
<1>5. /\ Kept(w, v)
      /\ v.ex = [w.ex EXCEPT ![p] = Blank(w.ex[p]), ![q] = Blank(w.ex[q])]
      /\ CanPay(w, p) /\ CanPay(w, q) /\ Scarce(w) => Settles(w, v, p, q)
  BY <1>2, <1>4, SettledKeeps
<1>6. /\ v \in Worlds /\ WorldIs(v)
      /\ \A id \in Items : Stock(v, id) = Stock(World, id)
  BY <1>2, <1>4, <1>5 DEF Kept
<1>7. World' \in Worlds /\ ItemsKept'
  BY <1>2, <1>6, GoodsMove
<1>8. exchange' = v.ex /\ money' = v.money /\ w.ex \in [Players -> Exchanges]
  BY <1>2, <1>6, WorldFields DEF WorldIs
<1>9. \A r \in {p, q} : exchange'[r].item = <<>> /\ exchange'[r].done = FALSE
  <2>1. ASSUME NEW r \in {p, q} PROVE exchange'[r].item = <<>> /\ exchange'[r].done = FALSE
    <3>1. exchange'[r] = Blank(w.ex[r])
      BY <1>2, <1>5, <1>8
    <3>2. w.ex[r] \in Exchanges
      BY <1>8
    <3>. QED  BY <3>1, <3>2, BlankIs
  <2>. QED  BY <2>1
<1>10. \A r \in Players \ {p, q} : exchange'[r] = exchange[r]
  BY <1>2, <1>5, <1>8
<1>11. PursesHold'
  <2>1. SUFFICES ASSUME Gold0 < MoneyWrap, ~overdrawn'
                 PROVE  /\ floorGold' + Sum(money)' = Gold0
                        /\ \A r \in Players : exchange'[r].done => exchange'[r].gold <= money'[r]
    BY DEF PursesHold, Gold0
  <2>2. CanPay(w, p) /\ CanPay(w, q) /\ Scarce(w)
    BY <1>3, <2>1, FinishPays
  <2>3. Sum(v.money) = Sum(w.money) /\ \A r \in Players \ {p, q} : v.money[r] = w.money[r]
    BY <1>5, <2>2 DEF Settles
  <2>4. Sum(money)' = Sum(money)
    BY <1>2, <1>8, <2>3
  <2>5. \A r \in Players \ {p, q} : money'[r] = money[r]
    BY <1>2, <1>8, <2>3
  <2>6. /\ floorGold + Sum(money) = Gold0
        /\ \A r \in Players : exchange[r].done => exchange[r].gold <= money[r]
    BY <1>3, <2>1 DEF ExchangeInv, PursesHold
  <2>. QED  BY <1>3, <1>9, <1>10, <2>4, <2>5, <2>6
<1>. QED  BY <1>1, <1>3, <1>7, <1>9, <1>10, <1>11 DEF ClosesOf

\* The exchange of somebody who is done.
DoneWith(e) == [e EXCEPT !.done = TRUE]

\* It is an exchange that differs in being done only.
LEMMA DoneWithIs ==
  ASSUME NEW e \in Exchanges
  PROVE  /\ DoneWith(e) \in Exchanges /\ DoneWith(e).item = e.item
         /\ DoneWith(e).target = e.target /\ DoneWith(e).gold = e.gold
<1>1. PICK t : t = TRUE
  OBVIOUS
<1>2. t \in BOOLEAN
  BY <1>1
<1>3. PICK x : x = [e EXCEPT !.done = t]
  OBVIOUS
<1>4. x \in Exchanges /\ x.item = e.item /\ x.target = e.target /\ x.gold = e.gold
  BY <1>2, <1>3 DEF Exchanges
<1>. QED  BY <1>1, <1>3, <1>4 DEF DoneWith

\* The other one is not done: this one is, and has what it offers.
LEMMA FinishWaits ==
  ASSUME ExchangeInv, NEW p \in Players, NEW q \in Players, NEW wrong \in BOOLEAN, NEW w,
         Finishing(p, q, wrong, w), Partners(p, q, wrong, w), HasGold(w, p),
         WorldIs([w EXCEPT !.ex[p].done = TRUE]),
         Notify(IF wrong THEN {p} ELSE {}), online' = online, gift' = gift
  PROVE  ExchangeInv'
<1>1. /\ World \in Worlds /\ World.money = money /\ World.ex = exchange
      /\ exchange \in [Players -> Exchanges] /\ floorGold \in 0..MoneyWrap - 1
  BY ThisWorld DEF ExchangeInv, ExchangeTyped
<1>2. /\ p # q /\ w \in Worlds /\ w.money = money
      /\ Excused => Excused'
      /\ \A id \in Items : Stock(w, id) = Stock(World, id)
      /\ \A r \in Players \ {p} : w.ex[r] = exchange[r]
      /\ ~Excused' => ~Excused /\ Standing(p) /\ ~wrong /\ w = World
      /\ crossed' \in BOOLEAN /\ confirmed' \in [Players -> BOOLEAN] /\ confirmed'[p]
      /\ \A r \in Players : confirmed[r] => confirmed'[r]
  <2>1. Excused => Excused'
    BY DEF Partners
  <2>2. ~Excused' => ~Excused /\ Standing(p) /\ ~wrong /\ w = World
    BY DEF Partners
  <2>3. /\ p # q /\ w \in Worlds /\ w.money = money
        /\ \A id \in Items : Stock(w, id) = Stock(World, id)
        /\ \A r \in Players \ {p} : w.ex[r] = exchange[r]
    BY <1>1 DEF Partners, Closed, Kept
  <2>4. /\ crossed' \in BOOLEAN /\ confirmed' \in [Players -> BOOLEAN] /\ confirmed'[p]
        /\ \A r \in Players : confirmed[r] => confirmed'[r]
    BY DEF Partners
  <2>. QED  BY <2>1, <2>2, <2>3, <2>4
<1>3. /\ floorGold' = floorGold /\ willing' = willing /\ window' = window /\ cutIn' = cutIn
      /\ overdrawn' = overdrawn
  BY DEF Finishing
<1>4. PICK e, v : e = DoneWith(w.ex[p]) /\ v = [w EXCEPT !.ex[p] = e]
  OBVIOUS
<1>5. /\ w.ex[p] \in Exchanges /\ e \in Exchanges /\ e.item = w.ex[p].item
      /\ e.target = w.ex[p].target /\ e.gold = w.ex[p].gold
  BY <1>2, <1>4, WorldFields, DoneWithIs
<1>6. /\ v \in Worlds /\ v.money = w.money /\ v.ex = [w.ex EXCEPT ![p] = e]
      /\ \A id \in Items : Stock(v, id) = Stock(w, id)
  <2>1. Replaced(w, v, p, e)
    BY <1>4 DEF Replaced
  <2>2. /\ v \in Worlds /\ v.money = w.money /\ v.ex = [w.ex EXCEPT ![p] = e]
        /\ \A id \in Items :
             /\ Stock(v, id) \in Nat /\ Stock(w, id) \in Nat
             /\ Amount(w.ex[p].item, id) \in Nat
             /\ Stock(v, id) + Amount(w.ex[p].item, id) = Stock(w, id) + Amount(e.item, id)
    BY <1>2, <1>5, <2>1, ExReplaced
  <2>3. ASSUME NEW id \in Items PROVE Stock(v, id) = Stock(w, id)
    <3>1. PICK a, b, c : a = Stock(v, id) /\ b = Stock(w, id) /\ c = Amount(e.item, id)
      OBVIOUS
    <3>2. a \in Nat /\ b \in Nat /\ c \in Nat /\ a + c = b + c
      BY <1>5, <2>2, <3>1
    <3>3. a = b
      BY <3>2
    <3>. QED  BY <3>1, <3>3
  <2>. QED  BY <2>2, <2>3
<1>7. WorldIs(v)
  <2>1. w.ex \in [Players -> Exchanges]
    BY <1>2, WorldFields
  <2>2. v = [w EXCEPT !.ex[p].done = TRUE]
    BY <1>4 DEF DoneWith
  <2>. QED  BY <2>2
<1>8. World' \in Worlds /\ ItemsKept'
  <2>1. \A id \in Items : Stock(v, id) = Stock(World, id)
    BY <1>2, <1>6
  <2>. QED  BY <1>2, <1>6, <1>7, <2>1, GoodsMove
<1>9. /\ exchange' = v.ex /\ money' = money /\ exchange'[p] = e
      /\ \A r \in Players \ {p} : exchange'[r] = exchange[r]
  <2>1. exchange' = v.ex /\ money' = money
    BY <1>2, <1>6, <1>7 DEF WorldIs
  <2>2. w.ex \in [Players -> Exchanges]
    BY <1>2, WorldFields
  <2>3. v.ex[p] = e /\ \A r \in Players \ {p} : v.ex[r] = w.ex[r]
    BY <1>6, <2>2
  <2>. QED  BY <1>2, <2>1, <2>3
<1>10. PursesHold'
  <2>1. e.gold <= money[p]
    BY <1>2, <1>5 DEF HasGold
  <2>2. \A r \in Players : exchange'[r].done =>
                              \/ exchange'[r].gold <= money'[r]
                              \/ /\ exchange[r].done /\ exchange'[r].gold = exchange[r].gold
                                 /\ money'[r] = money[r]
    BY <1>9, <2>1
  <2>. QED  BY <1>3, <1>9, <2>2, PursesStay
<1>11. PICK N : N = IF wrong THEN {p} ELSE {}
  OBVIOUS
<1>12. /\ closing' \in [Players -> BOOLEAN]
       /\ \A r \in Players : r \notin N => closing'[r] = closing[r]
  <2>1. closing \in [Players -> BOOLEAN] /\ N \in SUBSET Players /\ Notify(N)
    BY <1>11 DEF ExchangeInv, ExchangeTyped
  <2>. QED  BY <2>1, NotifyCloses
<1>13. ExchangeTyped'
  BY <1>1, <1>2, <1>3, <1>8, <1>12 DEF ExchangeInv, ExchangeTyped
<1>14. WindowsAre'
  BY <1>3 DEF ExchangeInv, WindowsAre, Online
<1>15. Tidy'
  <2>1. PICK S : S = {}
    OBVIOUS
  <2>2. ASSUME ~Excused'
        PROVE  /\ \A r \in S : /\ ~Standing(r)' /\ exchange'[r].item = <<>>
                               /\ ~exchange'[r].done
               /\ \A r \in Players \ S :
                    /\ window'[r] = window[r] /\ closing'[r] = closing[r]
                    /\ exchange'[r].target = exchange[r].target
                    /\ exchange'[r].item = exchange[r].item
                    /\ exchange'[r].done => exchange[r].done \/ (Standing(r) /\ confirmed'[r])
                    /\ confirmed[r] => confirmed'[r]
                    /\ Standing(r) => window[r] \notin S
    <3>1. Standing(p) /\ ~wrong /\ w = World
      BY <1>2, <2>2
    <3>2. N = {} /\ w.ex[p] = exchange[p]
      BY <1>1, <1>11, <3>1
    <3>3. exchange'[p].target = exchange[p].target /\ exchange'[p].item = exchange[p].item
      BY <1>5, <1>9, <3>2
    <3>4. ASSUME NEW r \in Players
          PROVE  /\ exchange'[r].target = exchange[r].target
                 /\ exchange'[r].item = exchange[r].item
                 /\ exchange'[r].done => exchange[r].done \/ (Standing(r) /\ confirmed'[r])
      <4>1. CASE r = p
        BY <1>2, <3>1, <3>3, <4>1
      <4>2. CASE r # p
        BY <1>9, <4>2
      <4>. QED  BY <4>1, <4>2
    <3>5. \A r \in Players : closing'[r] = closing[r] /\ window'[r] = window[r]
      BY <1>3, <1>12, <3>2
    <3>6. \A r \in Players : (confirmed[r] => confirmed'[r]) /\ window[r] \notin S
      BY <1>2, <2>1
    <3>. QED  BY <2>1, <3>4, <3>5, <3>6
  <2>3. S \in SUBSET Players /\ (Excused => Excused')
    BY <1>2, <2>1
  <2>. QED  BY <2>2, <2>3, TidyOn
<1>16. NoGift'
  BY <1>2 DEF ExchangeInv, NoGift, Excused
<1>. QED  BY <1>8, <1>10, <1>13, <1>14, <1>15, <1>16 DEF ExchangeInv

\* A finish keeps the invariant, whatever it does.
LEMMA FinishKeeps ==
  ASSUME ExchangeInv, NEW p \in Players, Finish(p)
  PROVE  ExchangeInv'
<1>1. PICK q \in Players :
        /\ Trading(p, q)
        /\ LET wrong == exchange[p].target # q
               w == IF wrong THEN clif_exchange_close(World, p) ELSE World
               both == {p} \cup {r \in {q} : Online(r)}
               closeBoth == IF Online(q)
                            THEN clif_exchange_close(clif_exchange_close(w, p), q)
                            ELSE clif_exchange_close(w, p)
           IN  \/ /\ wrong /\ Online(q) /\ exchange[q].target = p
                  /\ WorldIs(closeBoth)
                  /\ Notify(both)
                  /\ online' = [online EXCEPT ![p] = "eof"]
                  /\ UNCHANGED gift
               \/ /\ ~(wrong /\ Online(q) /\ exchange[q].target = p)
                  /\ ~HasGold(w, p)
                  /\ WorldIs(closeBoth)
                  /\ Notify(both)
                  /\ UNCHANGED <<online, gift>>
               \/ /\ ~(wrong /\ Online(q) /\ exchange[q].target = p)
                  /\ HasGold(w, p)
                  /\ Online(q)
                  /\ WorldIs(clif_exchange_sendok(w, p, q))
                  /\ Notify(IF exchange[q].done THEN both
                            ELSE IF wrong THEN {p} ELSE {})
                  /\ gift' = (gift \/ (exchange[q].done
                                         /\ (wrong \/ ~confirmed[q])))
                  /\ UNCHANGED online
               \/ /\ HasGold(w, p)
                  /\ ~Online(q)
                  /\ WorldIs(clif_exchange_close(w, p))
                  /\ Notify(IF wrong THEN {p} ELSE {})
                  /\ UNCHANGED <<online, gift>>
        /\ confirmed' = [confirmed EXCEPT ![p] = TRUE]
        /\ crossed' = (crossed \/ closing[p])
        /\ UNCHANGED <<floorGold, willing, window, cutIn, overdrawn>>
  BY DEF Finish
<1>2. PICK wrong \in BOOLEAN : wrong = (exchange[p].target # q)
  OBVIOUS
<1>3. PICK w : w = IF wrong THEN clif_exchange_close(World, p) ELSE World
  OBVIOUS
<1>4. PICK both, cb : /\ both = {p} \cup {r \in {q} : Online(r)}
                      /\ cb = IF Online(q)
                              THEN clif_exchange_close(clif_exchange_close(w, p), q)
                              ELSE clif_exchange_close(w, p)
  OBVIOUS
<1>5. Finishing(p, q, wrong, w) /\ Partners(p, q, wrong, w)
  <2>1. Finishing(p, q, wrong, w)
    BY <1>1, <1>2, <1>3 DEF Finishing
  <2>. QED  BY <2>1, FinishingIs
<1>6. /\ p # q /\ w \in Worlds /\ Closed(World, w, IF wrong THEN {p} ELSE {})
      /\ Excused => Excused'
      /\ ~Excused' => ~Excused /\ Online(q) /\ ~wrong
  BY <1>5 DEF Partners
<1>7. /\ World \in Worlds /\ World.ex = exchange /\ World.money = money
      /\ online \in [Players -> {"on", "eof", "off"}]
      /\ gift \in BOOLEAN /\ floorGold' = floorGold /\ overdrawn' = overdrawn
  BY <1>1, ThisWorld DEF ExchangeInv, ExchangeTyped
<1>8. both \in SUBSET Players /\ (~Excused' => both = {p, q})
  BY <1>4, <1>6
<1>9. Closed(World, clif_exchange_close(w, p), {p}) /\ Closed(World, cb, both)
  <2>1. PICK x, R, u : /\ x = World /\ R = (IF wrong THEN {p} ELSE {})
                       /\ u = clif_exchange_close(w, p)
    OBVIOUS
  <2>2. Closed(x, w, R) /\ R \in SUBSET Players /\ R \cup {p} = {p}
    BY <1>6, <2>1
  <2>3. Closed(w, u, {p})
    BY <1>6, <2>1, CloseCloses
  <2>4. Closed(x, u, R \cup {p})
    BY <2>2, <2>3, ClosesOn
  <2>5. Closed(x, u, {p})
    BY <2>2, <2>4
  <2>6. u \in Worlds
    BY <2>3 DEF Closed, Kept
  <2>7. CASE Online(q)
    <3>1. both = {p} \cup {q} /\ cb = clif_exchange_close(u, q)
      BY <1>4, <2>1, <2>7
    <3>2. Closed(u, cb, {q})
      BY <2>6, <3>1, CloseCloses
    <3>3. Closed(x, cb, {p} \cup {q})
      BY <2>5, <3>2, ClosesOn
    <3>. QED  BY <2>1, <2>5, <3>1, <3>3
  <2>8. CASE ~Online(q)
    <3>1. both = {p} /\ cb = u
      BY <1>4, <2>1, <2>8
    <3>. QED  BY <2>1, <2>5, <3>1
  <2>. QED  BY <2>7, <2>8
<1>10. ASSUME UNCHANGED <<online, gift>>
       PROVE  /\ online' \in [Players -> {"on", "eof", "off"}]
              /\ \A r \in Players : online[r] # "off" => online'[r] # "off"
              /\ gift' \in BOOLEAN /\ NoGift'
  BY <1>6, <1>7, <1>10 DEF ExchangeInv, NoGift, Excused
<1>11. CASE /\ wrong /\ WorldIs(cb) /\ Notify(both)
            /\ online' = [online EXCEPT ![p] = "eof"] /\ gift' = gift
  <2>1. ClosesOf(both)
    BY <1>6, <1>7, <1>8, <1>9, <1>11, CloseStep
  <2>2. Excused'
    BY <1>6, <1>11
  <2>3. /\ online' \in [Players -> {"on", "eof", "off"}]
        /\ \A r \in Players : online[r] # "off" => online'[r] # "off"
    BY <1>7, <1>11
  <2>4. gift' \in BOOLEAN /\ NoGift'
    BY <1>6, <1>7, <1>11, <2>2 DEF ExchangeInv, NoGift, Excused
  <2>. QED  BY <1>5, <1>8, <1>11, <2>1, <2>2, <2>3, <2>4, FinishCloses
<1>12. CASE WorldIs(cb) /\ Notify(both) /\ UNCHANGED <<online, gift>>
  <2>1. ClosesOf(both)
    BY <1>6, <1>7, <1>8, <1>9, <1>12, CloseStep
  <2>. QED  BY <1>5, <1>8, <1>10, <1>12, <2>1, FinishCloses
<1>13. CASE /\ HasGold(w, p) /\ Online(q) /\ WorldIs(clif_exchange_sendok(w, p, q))
            /\ Notify(IF exchange[q].done THEN both ELSE IF wrong THEN {p} ELSE {})
            /\ gift' = (gift \/ (exchange[q].done /\ (wrong \/ ~confirmed[q])))
            /\ UNCHANGED online
  <2>1. w.ex[q] = exchange[q]
    BY <1>6, <1>7 DEF Closed
  <2>2. CASE exchange[q].done
    <3>1. WorldIs(Settled(w, p, q))
      BY <1>13, <2>1, <2>2 DEF clif_exchange_sendok, Settled
    <3>2. ClosesOf({p, q})
      BY <1>5, <1>13, <2>2, <3>1, FinishSettles
    <3>3. Notify(both)
      BY <1>13, <2>2
    <3>4. gift' \in BOOLEAN
      <4>1. (gift \/ (exchange[q].done /\ (wrong \/ ~confirmed[q]))) \in BOOLEAN
        OBVIOUS
      <4>. QED  BY <1>13, <4>1
    <3>5. NoGift'
      <4>1. SUFFICES ASSUME ~Excused' PROVE ~gift'
        BY DEF NoGift, Excused
      <4>2. ~gift /\ ~wrong
        BY <1>6, <4>1 DEF ExchangeInv, NoGift, Excused
      <4>3. confirmed[q]
        BY <1>6, <2>2, <4>1 DEF ExchangeInv, Tidy, Excused
      <4>4. gift' = (gift \/ (exchange[q].done /\ (wrong \/ ~confirmed[q])))
        BY <1>13
      <4>. QED  BY <4>2, <4>3, <4>4, Zenon
    <3>6. {p, q} \in SUBSET Players /\ \A r \in Players : online[r] # "off" => online'[r] # "off"
      BY <1>13
    <3>7. online' \in [Players -> {"on", "eof", "off"}]
      BY <1>7, <1>13
    <3>. QED  BY <1>5, <1>8, <3>2, <3>3, <3>4, <3>5, <3>6, <3>7, FinishCloses
  <2>3. CASE ~exchange[q].done
    <3>1. WorldIs([w EXCEPT !.ex[p].done = TRUE])
      BY <1>13, <2>1, <2>3 DEF clif_exchange_sendok
    <3>2. Notify(IF wrong THEN {p} ELSE {})
      BY <1>13, <2>3
    <3>3. gift' = gift
      <4>1. gift' = (gift \/ (exchange[q].done /\ (wrong \/ ~confirmed[q])))
        BY <1>13
      <4>2. (gift \/ (exchange[q].done /\ (wrong \/ ~confirmed[q]))) <=> gift
        BY <2>3
      <4>. QED  BY <1>7, <4>1, <4>2
    <3>4. online' = online
      BY <1>13
    <3>. QED  BY <1>5, <1>13, <3>1, <3>2, <3>3, <3>4, FinishWaits
  <2>. QED  BY <2>2, <2>3
<1>14. CASE /\ ~Online(q) /\ WorldIs(clif_exchange_close(w, p))
            /\ Notify(IF wrong THEN {p} ELSE {}) /\ UNCHANGED <<online, gift>>
  <2>1. PICK v, N : v = clif_exchange_close(w, p) /\ N = IF wrong THEN {p} ELSE {}
    OBVIOUS
  <2>2. Closed(World, v, {p}) /\ WorldIs(v) /\ Notify(N) /\ N \in SUBSET Players
    BY <1>9, <1>14, <2>1
  <2>3. ClosesOf({p})
    BY <1>6, <1>7, <2>2, CloseStep
  <2>4. Excused'
    BY <1>6, <1>14
  <2>5. {p} \in SUBSET Players
    OBVIOUS
  <2>. QED  BY <1>5, <1>10, <1>14, <2>2, <2>3, <2>4, <2>5, FinishCloses
<1>15. \/ /\ wrong /\ WorldIs(cb) /\ Notify(both)
          /\ online' = [online EXCEPT ![p] = "eof"] /\ gift' = gift
       \/ WorldIs(cb) /\ Notify(both) /\ UNCHANGED <<online, gift>>
       \/ /\ HasGold(w, p) /\ Online(q) /\ WorldIs(clif_exchange_sendok(w, p, q))
          /\ Notify(IF exchange[q].done THEN both ELSE IF wrong THEN {p} ELSE {})
          /\ gift' = (gift \/ (exchange[q].done /\ (wrong \/ ~confirmed[q])))
          /\ UNCHANGED online
       \/ /\ ~Online(q) /\ WorldIs(clif_exchange_close(w, p))
          /\ Notify(IF wrong THEN {p} ELSE {}) /\ UNCHANGED <<online, gift>>
  BY <1>1, <1>2, <1>3, <1>4
<1>. QED  BY <1>11, <1>12, <1>13, <1>14, <1>15


----------------------------------------------------------------------------
(* All of it.                                                              *)

\* Every step keeps the invariant.
LEMMA ExchangeStepHolds ==
  ExchangeInv /\ [ExchangeNext]_exchangeVars => ExchangeInv'
<1>. SUFFICES ASSUME ExchangeInv, [ExchangeNext]_exchangeVars PROVE ExchangeInv'
  OBVIOUS
<1>1. CASE ExchangeNext
  <2>1. CASE \E p \in Players : SeeClose(p)
    BY <2>1, SeeCloseKeeps
  <2>2. CASE Request
    <3>1. PICK p \in Players :
            \/ \E q \in Players : Ask(p, q)
            \/ \E s \in DOMAIN inventory[p], n \in 1..MaxStack : Offer(p, s, n)
            \/ \E g \in 0..MoneyWrap - 1 : OfferGold(p, g)
            \/ Quit(p) \/ Finish(p)
            \/ ToggleExchange(p) \/ Logout(p) \/ Login(p)
            \/ \E s \in DOMAIN inventory[p], all \in BOOLEAN : DropItem(p, s, all)
            \/ \E id \in Items, all \in BOOLEAN : PickUp(p, id, all)
            \/ \E g \in 1..MoneyWrap - 1 : clif_dropgold(p, g)
            \/ TakeGold(p)
      BY <2>2 DEF Request
    <3>2. CASE \E q \in Players : Ask(p, q)
      BY <3>2, AskKeeps
    <3>3. CASE \E s \in DOMAIN inventory[p], n \in 1..MaxStack : Offer(p, s, n)
      BY <3>3, OfferKeeps
    <3>4. CASE \E g \in 0..MoneyWrap - 1 : OfferGold(p, g)
      BY <3>4, OfferGoldKeeps
    <3>5. CASE Quit(p)
      BY <3>5, QuitKeeps
    <3>6. CASE Finish(p)
      BY <3>6, FinishKeeps
    <3>7. CASE ToggleExchange(p) \/ Login(p)
      BY <3>7, ToggleKeeps
    <3>8. CASE Logout(p)
      BY <3>8, LogoutKeeps
    <3>9. CASE \E s \in DOMAIN inventory[p], all \in BOOLEAN : DropItem(p, s, all)
      BY <3>9, DropItemKeeps
    <3>10. CASE \E id \in Items, all \in BOOLEAN : PickUp(p, id, all)
      BY <3>10, PickUpKeeps
    <3>11. CASE \E g \in 1..MoneyWrap - 1 : clif_dropgold(p, g)
      BY <3>11, DropGoldKeeps
    <3>12. CASE TakeGold(p)
      BY <3>12, TakeGoldKeeps
    <3>. QED  BY <3>1, <3>2, <3>3, <3>4, <3>5, <3>6, <3>7, <3>8, <3>9, <3>10, <3>11, <3>12
  <2>. QED  BY <1>1, <2>1, <2>2 DEF ExchangeNext
<1>2. CASE UNCHANGED exchangeVars
  <2>1. /\ UNCHANGED <<goods, exchange>> /\ willing' = willing /\ online' = online
        /\ window' = window /\ closing' = closing /\ confirmed' = confirmed
        /\ exchange' = exchange /\ crossed' = crossed /\ cutIn' = cutIn
        /\ overdrawn' = overdrawn /\ gift' = gift
    BY <1>2 DEF exchangeVars, clients, history
  <2>2. World' \in Worlds /\ ItemsKept' /\ floorGold' \in 0..MoneyWrap - 1 /\ PursesHold'
    <3>1. Excused => Excused'
      BY <2>1 DEF Excused
    <3>. QED  BY <2>1, <3>1, GoodsRest
  <2>3. ExchangeTyped' /\ WindowsAre' /\ Tidy' /\ NoGift'
    BY <2>1, <2>2 DEF ExchangeInv, ExchangeTyped, WindowsAre, Tidy, Standing, NoGift, Online
  <2>. QED  BY <2>2, <2>3 DEF ExchangeInv
<1>. QED  BY <1>1, <1>2

\* What a reader should know of it: the types, the goods and the gifts.
LEMMA ExchangeInvTells == ExchangeInv => ExchangeTypeOK /\ ExchangeSound
<1>. SUFFICES ASSUME ExchangeInv PROVE ExchangeTypeOK /\ ExchangeSound
  OBVIOUS
<1>1. ExchangeTypeOK
  <2>1. /\ \A p \in Players : Slots(inventory[p])
        /\ money \in [Players -> 0..MoneyWrap - 1] /\ floorItems \in [Items -> Nat]
        /\ exchange \in [Players -> Exchanges]
    BY ThisWorld DEF ExchangeInv
  <2>2. ASSUME NEW p \in Players
        PROVE  /\ exchange[p].target \in Players \cup {NoOne}
               /\ exchange[p].item \in Seq([id : Items, amount : 1..MaxStack])
               /\ exchange[p].gold \in 0..MoneyWrap - 1
               /\ exchange[p].done \in BOOLEAN
    <3>1. PICK e : e = exchange[p]
      OBVIOUS
    <3>2. e \in Exchanges
      BY <2>1, <3>1
    <3>. QED  BY <3>1, <3>2 DEF Exchanges, Offers
  <2>. QED  BY <2>1, <2>2 DEF ExchangeTypeOK, ExchangeInv, ExchangeTyped
<1>2. GoldKept
  <2>1. overdrawn \in BOOLEAN
    BY DEF ExchangeInv, ExchangeTyped
  <2>. QED  BY <2>1 DEF ExchangeInv, PursesHold, GoldKept
<1>3. ItemsKept /\ NoGift
  BY DEF ExchangeInv
<1>. QED  BY <1>1, <1>2, <1>3 DEF ExchangeSound, GoodsKept

\* Of an exchange between any players, with any belongings: every unit of an
\* item and all gold is in one place, whatever closes the exchange, and what it
\* moves was confirmed at both windows (clif_parse_exchange, pc_additem,
\* pc_delitem), but for the exceptions ItemsKept, GoldKept and NoGift name.
THEOREM SpecExchangeSound == ExchangeSpec => [](ExchangeTypeOK /\ ExchangeSound)
<1>1. ExchangeInit => ExchangeInv
  BY ExchangeInitHolds
<1>2. ExchangeInv /\ [ExchangeNext]_exchangeVars => ExchangeInv'
  BY ExchangeStepHolds
<1>3. ExchangeInv => ExchangeTypeOK /\ ExchangeSound
  BY ExchangeInvTells
<1>. QED  BY <1>1, <1>2, <1>3, PTL DEF ExchangeSpec

=============================================================================
