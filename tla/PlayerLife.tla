----------------------------- MODULE PlayerLife -----------------------------
(***************************************************************************)
(* The vita of one player, its fall and its death.  Losing the last vita   *)
(* does not kill: onDeathPlayer sets deathflag, and the timer of the next  *)
(* half second (pc_scripttimer) kills whoever has the flag and no vita.    *)
(* Scripts run inside clif_send_pc_healthscript, which goes on with what   *)
(* it read before, and the killer is whoever attacker names at the time.   *)
(*                                                                         *)
(* Scripts may hit, heal, raise or kill the player again from inside a     *)
(* call; damage is whole points, gear only adds to max_hp, and a mob that  *)
(* attacks is nobody: no death is put down to it.  The scripts that        *)
(* pc_calcstat runs are left out, and so are the threat tables (Hunt), the *)
(* spells that end with the player (Durations) and PK status, which goes   *)
(* to whom the death is put down to.                                       *)
(***************************************************************************)
EXTENDS Integers, Sequences, FiniteSetsExt

CONSTANTS
  Foes,       \* other players
  Nobody,     \* id 0, or a mob
  Self,       \* the player's own id, which wearing and spells put there
  BaseHp,     \* max_hp without gear; with gear it is one more
  ResHp,      \* vita after pcl_resurrect, in the code 100
  MaxCalls    \* bound: calls of clif_send_pc_healthscript in another

ASSUME PlayerLifeAssumption ==
  /\ {Nobody, Self} \cap Foes = {} /\ Nobody # Self
  /\ BaseHp \in Nat \ {0} /\ ResHp \in Nat \ {0} /\ MaxCalls \in Nat

VARIABLES
  pl,        \* state, hp, max_hp, deathflag, attacker
  calls,     \* calls under way, each running scripts at its stage
  blamed,    \* history: whom the last call that left no vita named
  irregular,       \* history: what the code lets happen to a fallen player
  misblamed      \* history: a death was put down to somebody else

playerVars == <<pl, calls, blamed, irregular, misblamed>>

Ids == Foes \cup {Nobody, Self}

PlayerInit ==
  /\ pl = [state |-> "alive", hp |-> BaseHp, max_hp |-> BaseHp,
           deathflag |-> FALSE, attacker |-> Nobody]
  /\ calls = <<>> /\ blamed = Nobody /\ irregular = {} /\ misblamed = FALSE

----------------------------------------------------------------------------

Latest == calls[Len(calls)]
Returned == SubSeq(calls, 1, Len(calls) - 1)
AtStage(s) == calls # <<>> /\ Latest.stage = s
Stage(s) == [calls EXCEPT ![Len(calls)].stage = s]

Fallen(p) == p.state = "alive" /\ p.hp = 0

\* What becomes of the player, the calls and, with them, the history.
PlayerIs(p, c, marks) ==
  /\ pl' = p /\ calls' = c
  /\ IF p.state = "alive" /\ p.hp \in 1..p.max_hp /\ c = <<>>
     THEN irregular' = {} ELSE irregular' = irregular \cup marks

\* Somebody is put down as attacker, not by a blow.
Strays == IF calls # <<>> \/ pl.hp = 0 THEN {"renamed"} ELSE {}

----------------------------------------------------------------------------
(* clif_send_pc_healthscript.                                              *)

\* damage < 0 heals.
HpAfter(damage) ==
  IF pl.hp < damage THEN 0 ELSE Min({pl.hp - damage, pl.max_hp})

InACall == IF calls # <<>> THEN {"nested"} ELSE {}
CallMarks == InACall \cup
             (IF pl.state = "dead" THEN {"touched"} ELSE {})

\* A blow runs scripts before it writes the vita, a heal runs none.
clif_send_pc_healthscript(p, damage) ==
  /\ Len(calls) <= MaxCalls
  /\ LET call(s) == Append(calls, [stage |-> s, killer |-> p.attacker,
                                   hp |-> HpAfter(damage)])
     IN  IF damage > 0 THEN PlayerIs(p, call("taking"), CallMarks)
         ELSE PlayerIs([p EXCEPT !.hp = HpAfter(damage)],
                       IF HpAfter(damage) = 0 THEN call("before") ELSE calls,
                       CallMarks)
  /\ UNCHANGED <<blamed, misblamed>>

\* passive_on_takingdamage has run: what was computed before is written.
VitaWritten ==
  /\ AtStage("taking")
  /\ PlayerIs([pl EXCEPT !.hp = Latest.hp],
              Stage(IF Latest.hp = 0 THEN "before" ELSE "take"), {})
  /\ UNCHANGED <<blamed, misblamed>>

\* on_takedamage of spells and gear has run, then before_death.
Survives(next) ==
  /\ PlayerIs(pl, IF pl.hp = 0 THEN Stage(next) ELSE Returned, {})
  /\ UNCHANGED <<blamed, misblamed>>
DamageTaken == AtStage("take") /\ Survives("before")
BeforeDying == AtStage("before") /\ Survives("death")

\* on_death of all items has run; onDeathPlayer, which may spare the player,
\* and onKill of who was the attacker when the call began.
OnDeath ==
  /\ AtStage("death")
  /\ \E spared \in BOOLEAN :
       PlayerIs([pl EXCEPT !.deathflag = @ \/ ~spared], Returned,
                IF spared THEN {"stays"} ELSE {})
  /\ blamed' = Latest.killer
  /\ UNCHANGED misblamed

----------------------------------------------------------------------------
(* Death.                                                                  *)

pc_calcstat(p, max) == [p EXCEPT !.max_hp = max, !.hp = Min({@, max})]

\* The death is put down to the attacker, in killedby and with PK status.
diescript(p, marks) ==
  /\ Len(calls) <= MaxCalls
  /\ PlayerIs([p EXCEPT !.state = "dead", !.hp = 0, !.deathflag = FALSE],
              Append(calls, [stage |-> "died", killer |-> p.attacker,
                             hp |-> 0]), marks)
  /\ misblamed' = (\/ misblamed
                   \/ /\ p.attacker \notin {Nobody, blamed}
                      /\ {"renamed", "nested"} \cap
                           (irregular \cup marks) = {})
  /\ UNCHANGED blamed

\* uncast and passive_after_death have run.
Died ==
  /\ AtStage("died")
  /\ PlayerIs(pc_calcstat(pl, pl.max_hp), Returned, {})
  /\ UNCHANGED <<blamed, misblamed>>

\* Every half second: dead, or not to die.
pc_scripttimer_ClearsFlag ==
  /\ calls = <<>>
  /\ PlayerIs([pl EXCEPT !.deathflag = FALSE], <<>>, {})
  /\ UNCHANGED <<blamed, misblamed>>
pc_scripttimer ==
  /\ calls = <<>>
  /\ IF pl.hp = 0 /\ pl.deathflag THEN diescript(pl, {})
     ELSE /\ PlayerIs([pl EXCEPT !.deathflag = FALSE], <<>>, {})
          /\ UNCHANGED <<blamed, misblamed>>

----------------------------------------------------------------------------
(* What scripts do, inside a call or in the main loop.                     *)

\* removeHealth names the attacker also of a dead player, which it spares.
pcl_removehealth(by) == [pl EXCEPT !.attacker = IF by = Nobody THEN @ ELSE by]

hit(by, damage) ==
  LET p == pcl_removehealth(by)
  IN  IF pl.state # "dead" THEN clif_send_pc_healthscript(p, damage)
      ELSE PlayerIs(p, calls, Strays) /\ UNCHANGED <<blamed, misblamed>>

\* sendHealth spares nobody; the script has named the attacker.
pcl_sendhealth(by, damage) ==
  clif_send_pc_healthscript([pl EXCEPT !.attacker = by], damage)
pcl_addhealth == clif_send_pc_healthscript(pl, -1)

\* A script raises the player, with the vita it has; or kills.
raises ==
  /\ pl.state = "dead"
  /\ PlayerIs([pl EXCEPT !.state = "alive"], calls,
              IF pl.hp = 0 THEN {"stays"} ELSE {})
  /\ UNCHANGED <<blamed, misblamed>>
pcl_resurrect ==
  /\ PlayerIs([pl EXCEPT !.state = "alive", !.hp = ResHp], calls, {"res"})
  /\ UNCHANGED <<blamed, misblamed>>
pcl_die == diescript(pl, {"renamed"} \cup InACall)

\* The target of a spell, or nobody, is the next attacker; gear that is put on
\* or off makes it the player itself, as do its own spells.
clif_parsemagic(target) ==
  /\ calls = <<>>
  /\ PlayerIs([pl EXCEPT !.attacker = target], calls, Strays)
  /\ UNCHANGED <<blamed, misblamed>>
pc_equipscript ==
  /\ \E max \in {BaseHp, BaseHp + 1} :
       PlayerIs(pc_calcstat([pl EXCEPT !.attacker = Self], max), calls, Strays)
  /\ UNCHANGED <<blamed, misblamed>>

\* Curses may make the rate negative.
pc_regen(rate) ==
  /\ calls = <<>> /\ pl.state = "alive" /\ pl.hp > 0
  /\ LET hp == Min({pl.hp + rate, pl.max_hp})
     IN  PlayerIs([pl EXCEPT !.hp = hp], calls,
                  IF hp = 0 THEN {"stays", "renamed"} ELSE {})
  /\ UNCHANGED <<blamed, misblamed>>

\* Leaving and coming back: hp and state are saved, the flag is not.
relogs ==
  /\ calls = <<>>
  /\ \E max \in {BaseHp, BaseHp + 1}, by \in Foes \cup {Self, Nobody} :
       PlayerIs(pc_calcstat([pl EXCEPT !.deathflag = FALSE, !.attacker = by],
                            max), calls, {"stays"})
  /\ UNCHANGED <<blamed, misblamed>>

PlayerNext ==
  \/ VitaWritten \/ DamageTaken \/ BeforeDying \/ OnDeath \/ Died
  \/ pc_scripttimer \/ pcl_addhealth \/ raises \/ pcl_resurrect \/ pcl_die
  \/ pc_equipscript \/ relogs
  \/ \E rate \in {-1, 1} : pc_regen(rate)
  \/ \E by \in Ids : \E damage \in {1, BaseHp} : hit(by, damage)
  \/ \E by \in Ids : \E damage \in {-1, 0, 1} :
       pcl_sendhealth(by, damage)
  \/ \E target \in Foes \cup {Nobody} : clif_parsemagic(target)

PlayerSpec == PlayerInit /\ [][PlayerNext]_playerVars

----------------------------------------------------------------------------

PlayerTypeOK ==
  /\ pl \in [state : {"alive", "dead"}, hp : 0..Max({BaseHp + 1, ResHp}),
             max_hp : {BaseHp, BaseHp + 1}, deathflag : BOOLEAN,
             attacker : Ids]
  /\ calls \in Seq([stage : {"taking", "take", "before", "death", "died"},
                     killer : Ids, hp : 0..Max({BaseHp + 1, ResHp})])
  /\ blamed \in Ids /\ misblamed \in BOOLEAN
  /\ irregular \subseteq {"stays", "touched", "nested", "res", "renamed"}

\* Nobody stays on with no vita: a fallen player is about to die, but for
\* those whom onDeathPlayer spared, who left and came back in between, whom a
\* curse drained, or whom a script raised with nothing.
FallenWillDie ==
  calls = <<>> /\ Fallen(pl) /\ ~pl.deathflag => "stays" \in irregular

\* The dead have no vita, but for what a script or a call that was under way
\* gives them; and nobody has more than there is room for, but after pc_res,
\* whose 100 may be more, or when a call writes what it computed before.
VitaInBounds ==
  calls = <<>> =>
    /\ pl.state = "dead" /\ pl.hp > 0 =>
         irregular \cap {"touched", "nested"} # {}
    /\ pl.hp > pl.max_hp => irregular \cap {"res", "nested"} # {}

\* A death is put down to the player who struck the last blow, unless
\* something named another attacker before the timer came: a spell of the
\* fallen at somebody, gear, a call in a call, an order to die.
DeathIsOfTheBlow == ~misblamed

PlayerLifeSound == FallenWillDie /\ VitaInBounds /\ DeathIsOfTheBlow
=============================================================================
