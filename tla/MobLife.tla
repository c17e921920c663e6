------------------------------ MODULE MobLife ------------------------------
(***************************************************************************)
(* The life of one mob: it is hit, dies, pays whoever killed it, and is    *)
(* respawned by the timer, or freed when it was spawned once.  Death runs  *)
(* scripts of the mob, its spells, the killer and the killer's spells, and *)
(* any of them may hit or heal the mob again from inside                   *)
(* clif_send_mob_healthscript, which goes on with what it read before.     *)
(* The mob's turn is a script too: it moves the mob, onto traps that hit   *)
(* it or next to players who hit back, and then writes the mob's state     *)
(* without a look at what it is by then.                                   *)
(*                                                                         *)
(* The mob has one slot for a spell, damage is whole points, and only      *)
(* whether an entry of a damage table exists is kept, so any of them may   *)
(* be the largest.  The killer may be a summoned mob's owner.  Places are  *)
(* left out, and so is the script that frees the mob while others use it   *)
(* (BlockGrid has it); summon is 0.  A script that sets health to 0 hits   *)
(* the mob in its next line, which is a hit of MaxVita.                    *)
(***************************************************************************)
EXTENDS Integers, Sequences, FiniteSetsExt

CONSTANTS
  Users,            \* players
  NoUser,           \* id 0
  GroupIds,         \* group slots; 0 is no group
  MaxVita,          \* vita of the mob
  MAX_THREATCOUNT,  \* slots of the tables
  MaxWrites,        \* bound: writes to tables, groups and a dead mob's state
  MaxNested         \* bound: calls of clif_send_mob_healthscript in another

ASSUME MobAssumption ==
  /\ NoUser \notin Users /\ GroupIds \subseteq Nat \ {0}
  /\ MaxVita \in Nat \ {0} /\ MAX_THREATCOUNT \in Nat /\ MaxNested \in Nat
  /\ MaxWrites \in Nat

Slots == 1..MAX_THREATCOUNT

VARIABLES
  mob,       \* onetime, exists, state, vita, spell
  threat,    \* threat[].user
  dmggrp,    \* dmggrptable[][0], or -1 where [1] is 0 too
  dmgind,    \* dmgindtable[][0]
  groupid,   \* of each player
  frames,    \* calls under way, each running scripts at its stage
  turn,      \* the script of a mob's turn is running, with the calls in it
  writes,    \* counts to MaxWrites
  paid,      \* history: rewards in this life
  revived,   \* history: times a turn wrote a state over the mob's death
  nested,    \* history: stages of a call that this life was hit or healed in
  late,      \* history: a script wrote the damage tables of the dead mob
  gap,       \* history: threat was cleared, or added by addThreatGeneral
  owner      \* history: who the last drop was for: its killer or another

mobVars == <<mob, threat, dmggrp, dmgind, groupid, frames, turn, writes,
             paid, revived, nested, late, gap, owner>>

NoEntry(e) == [i \in Slots |-> e]

MobInit ==
  /\ mob \in [onetime : BOOLEAN, exists : {TRUE}, state : {"alive"},
              vita : {MaxVita}, spell : {FALSE}]
  /\ threat = NoEntry(NoUser)
  /\ dmggrp = NoEntry(-1) /\ dmgind = NoEntry(NoUser)
  /\ groupid = [p \in Users |-> 0]
  /\ frames = <<>> /\ turn = FALSE
  /\ writes = 0 /\ paid = 0 /\ revived = 0 /\ nested = {}
  /\ late = FALSE /\ gap = FALSE /\ owner = "none"

----------------------------------------------------------------------------
(* The tables.                                                             *)

\* The slot a loop over a table stops at: that of who, or a free one.
Stop(table, who, none) ==
  {i \in Slots : /\ table[i] \in {who, none}
                 /\ \A j \in 1..i - 1 : table[j] \notin {who, none}}
Entered(table, who, none) ==
  [i \in Slots |-> IF i \in Stop(table, who, none) THEN who ELSE table[i]]

\* addThreat, setThreat and the swing of a weapon.
threatened(p) == Entered(threat, p, NoUser)

\* addThreatGeneral has no break: it takes every free slot.
threatenedGeneral(p) ==
  [i \in Slots |-> IF threat[i] = NoUser THEN p ELSE threat[i]]

\* An entry of group 0 is free for the next group, with the damage in it.
grpEntered(g) ==
  LET at == {i \in Slots : /\ dmggrp[i] \in {g, 0, -1}
                           /\ \A j \in 1..i - 1 : dmggrp[j] \notin {g, 0, -1}}
  IN  [i \in Slots |-> IF i \in at THEN g ELSE dmggrp[i]]

\* What clif_mob_kill does to the mob and its tables.
clif_mob_kill(m) ==
  /\ mob' = [m EXCEPT !.state = "dead"]
  /\ threat' = NoEntry(NoUser)
  /\ dmggrp' = NoEntry(-1) /\ dmgind' = NoEntry(NoUser)

----------------------------------------------------------------------------
(* Calls of clif_send_mob_healthscript.                                    *)

Top == frames[Len(frames)]
Popped == SubSeq(frames, 1, Len(frames) - 1)
At(s) == frames # <<>> /\ Top.stage = s
Go(s) == frames' = [frames EXCEPT ![Len(frames)].stage = s]

\* The mob, called for from the loop or from a script.
Here == mob.exists

\* What is left of the vita: damage < 0 heals.
VitaAfter_AboveMax(damage) ==
  IF mob.vita < damage THEN 0 ELSE mob.vita - damage
VitaAfter(damage) ==
  IF mob.vita < damage THEN 0 ELSE Min({mob.vita - damage, MaxVita})

\* No script runs while a call is about to write what it computed.
ScriptRuns == frames # <<>> => Top.stage \notin {"write", "noflush"}

\* The call of a hit by p, a player or nobody.  A spell's script is told of
\* damage that leaves some vita.
Call(p, damage) ==
  [killer |-> p, vita |-> VitaAfter(damage),
   stage |-> IF damage > 0 /\ VitaAfter(damage) > 0 /\ mob.spell
             THEN "take" ELSE "write"]
clif_send_mob_healthscript(p, damage) ==
  /\ Here /\ mob.state # "dead"
  /\ ScriptRuns /\ Len(frames) <= MaxNested
  /\ nested' = IF frames = <<>> THEN nested ELSE nested \cup {Top.stage}
  /\ frames' = Append(frames, Call(p, damage))
  /\ UNCHANGED <<mob, threat, dmggrp, dmgind, groupid, writes, paid, late,
                 gap, owner, turn, revived>>

\* The scripts of the spells have run: the vita computed before is written.
Taken ==
  /\ At("take") \/ At("write")
  /\ mob' = [mob EXCEPT !.vita = Top.vita]
  /\ IF Top.vita = 0 THEN Go("before") ELSE frames' = Popped
  /\ UNCHANGED <<threat, dmggrp, dmgind, groupid, writes, paid, nested,
                 late, gap, owner, turn, revived>>

\* before_death has run; it may have healed the mob.
BeforeDeath ==
  /\ At("before")
  /\ IF mob.vita = 0
     THEN /\ mob' = [mob EXCEPT !.spell = FALSE]
          /\ Go(IF mob.spell THEN "flush" ELSE "noflush")
     ELSE frames' = Popped /\ UNCHANGED mob
  /\ UNCHANGED <<threat, dmggrp, dmgind, groupid, writes, paid, nested,
                 late, gap, owner, turn, revived>>

\* mob_flushmagic has uncast the spells.
Flushed ==
  /\ At("flush") \/ At("noflush")
  /\ clif_mob_kill(mob)
  /\ late' = FALSE /\ owner' = "none"
  /\ Go("killed")
  /\ UNCHANGED <<groupid, writes, paid, nested, gap, turn, revived>>

\* Whose the drop is: the largest entry's player, or group's leader; without
\* one who is online, the killer.
DropOwner(o, killer) ==
  LET found == {dmgind[i] : i \in Slots} \ {NoUser}
      first == {p \in Users : \E i \in Slots : dmggrp[i] > 0
                                             /\ groupid[p] = dmggrp[i]}
  IN  o \in found \cup first \cup {killer}

\* onDeathMob and the scripts of the killer have run: drops, experience.
Reward ==
  /\ At("killed")
  /\ IF Top.killer = NoUser THEN UNCHANGED <<paid, owner>>
     ELSE /\ paid' = paid + 1
          /\ \E o \in Users :
               /\ DropOwner(o, Top.killer)
               /\ owner' = IF o = Top.killer THEN "killer" ELSE "other"
  /\ Go("after")
  /\ UNCHANGED <<mob, threat, dmggrp, dmgind, groupid, writes, nested,
                 late, gap, turn, revived>>

\* onKill and after_death have run.
AfterDeath ==
  /\ At("after")
  /\ frames' = Popped
  /\ UNCHANGED <<mob, threat, dmggrp, dmgind, groupid, writes, paid,
                 nested, late, gap, owner, turn, revived>>

----------------------------------------------------------------------------
(* What scripts do, in a call or outside; the swing of a player is one.    *)

mobl_removehealth(p, damage) == clif_send_mob_healthscript(p, damage)
mobl_addhealth(p) == clif_send_mob_healthscript(p, -1)

SpellIs(on) ==
  /\ Here /\ ScriptRuns
  /\ mob.spell # on
  /\ mob' = [mob EXCEPT !.spell = on]
  /\ UNCHANGED <<threat, dmggrp, dmgind, groupid, frames, writes, paid,
                 nested, late, gap, owner, turn, revived>>
mobl_setduration == SpellIs(TRUE)
mob_duratimer == SpellIs(FALSE)

Written == writes < MaxWrites /\ writes' = writes + 1

addthreat(p) ==
  /\ Here /\ ScriptRuns
  /\ threat' = threatened(p)
  /\ Written
  /\ UNCHANGED <<mob, dmggrp, dmgind, groupid, frames, paid,
                 nested, late, gap, owner, turn, revived>>

addthreatgeneral(p) ==
  /\ Here /\ ScriptRuns
  /\ threat' = threatenedGeneral(p)
  /\ gap' = TRUE
  /\ Written
  /\ UNCHANGED <<mob, dmggrp, dmgind, groupid, frames, paid,
                 nested, late, owner, turn, revived>>

setgrpdmg(p) ==
  /\ Here /\ ScriptRuns
  /\ dmggrp' = grpEntered(groupid[p])
  /\ late' = (late \/ mob.state = "dead")
  /\ Written
  /\ UNCHANGED <<mob, threat, dmgind, groupid, frames, paid,
                 nested, gap, owner, turn, revived>>

setinddmg(p) ==
  /\ Here /\ ScriptRuns
  /\ dmgind' = Entered(dmgind, p, NoUser)
  /\ late' = (late \/ mob.state = "dead")
  /\ Written
  /\ UNCHANGED <<mob, threat, dmggrp, groupid, frames, paid,
                 nested, gap, owner, turn, revived>>

\* pc_diescript: a player's death empties its slots and leaves a gap.
pc_diescript(p) ==
  /\ Here /\ ScriptRuns
  /\ \E i \in Slots : threat[i] = p
  /\ threat' = [i \in Slots |-> IF threat[i] = p THEN NoUser ELSE threat[i]]
  /\ gap' = TRUE
  /\ Written
  /\ UNCHANGED <<mob, dmggrp, dmgind, groupid, frames, paid,
                 nested, late, owner, turn, revived>>

----------------------------------------------------------------------------
(* The main loop.                                                          *)

\* No script is under way.
AtRest == frames = <<>> /\ ~turn

\* Players join and leave groups, whose slots are used again.
Regroup(p) ==
  /\ AtRest
  /\ \E g \in GroupIds \cup {0} : groupid' = [groupid EXCEPT ![p] = g]
  /\ Written
  /\ UNCHANGED <<mob, threat, dmggrp, dmgind, frames, paid, nested,
                 late, gap, owner, turn, revived>>

\* mob_handle_sub: a dead mob whose time has come is back in its place, with
\* users or without; the tables are as the death left them.
mob_respawn ==
  /\ AtRest /\ Here
  /\ mob.state = "dead" /\ ~mob.onetime
  /\ mob' = [mob EXCEPT !.state = "alive", !.vita = MaxVita]
  /\ paid' = 0 /\ nested' = {} /\ revived' = 0
  /\ UNCHANGED <<threat, dmggrp, dmgind, groupid, frames, writes, late, gap,
                 owner, turn>>

\* A mob that was spawned once is freed when it is dead; on a map without
\* users it is killed for that.
free_onetime ==
  /\ AtRest /\ Here
  /\ mob.onetime
  /\ clif_mob_kill([mob EXCEPT !.exists = FALSE, !.spell = FALSE])
  /\ UNCHANGED <<groupid, frames, writes, paid, nested, late, gap, owner,
                 turn, revived>>

\* The turn of a living mob, or of one that has it as its target: a mob whose
\* own target is gone, dead or elsewhere only stops hitting; else the script
\* move or attack of its AI begins.
mob_handle_sub ==
  /\ AtRest /\ Here
  /\ mob.state # "dead"
  /\ \/ /\ mob.state = "hit"
        /\ mob' = [mob EXCEPT !.state = "alive"]
        /\ UNCHANGED turn
     \/ turn' = TRUE /\ UNCHANGED mob
  /\ UNCHANGED <<threat, dmggrp, dmgind, groupid, frames, writes, paid,
                 nested, late, gap, owner, revived>>

\* That script has moved the mob, through the scripts of traps, or let it
\* attack; whether it lives or not, it now hits, or has lost its target.
mobl_setattr(state) ==
  /\ turn /\ frames = <<>>
  /\ mob' = [mob EXCEPT !.state = state]
  /\ IF mob.state = "dead" THEN Written /\ revived' = revived + 1
                           ELSE UNCHANGED <<writes, revived>>
  /\ UNCHANGED <<threat, dmggrp, dmgind, groupid, frames, turn, paid,
                 nested, late, gap, owner>>

TurnEnds ==
  /\ turn /\ frames = <<>>
  /\ turn' = FALSE
  /\ UNCHANGED <<mob, threat, dmggrp, dmgind, groupid, frames, writes, paid,
                 revived, nested, late, gap, owner>>

\* mobspawn_onetime: another one takes its place.
mobspawn_onetime ==
  /\ AtRest /\ ~mob.exists
  /\ mob' = [mob EXCEPT !.exists = TRUE, !.state = "alive", !.vita = MaxVita]
  /\ threat' = NoEntry(NoUser)
  /\ dmggrp' = NoEntry(-1) /\ dmgind' = NoEntry(NoUser)
  /\ paid' = 0 /\ nested' = {} /\ revived' = 0
  /\ late' = FALSE /\ gap' = FALSE /\ owner' = "none"
  /\ UNCHANGED <<groupid, frames, writes, turn>>

MobNext ==
  \/ Taken \/ BeforeDeath \/ Flushed \/ Reward \/ AfterDeath
  \/ mobl_setduration \/ mob_duratimer
  \/ \E p \in Users \cup {NoUser} :
       \/ \E damage \in {1, MaxVita} : mobl_removehealth(p, damage)
       \/ mobl_addhealth(p)
  \/ \E p \in Users :
       \/ addthreat(p) \/ addthreatgeneral(p) \/ setgrpdmg(p) \/ setinddmg(p)
       \/ pc_diescript(p) \/ Regroup(p)
  \/ mob_respawn \/ free_onetime \/ mobspawn_onetime
  \/ mob_handle_sub \/ TurnEnds
  \/ \E state \in {"alive", "hit"} : mobl_setattr(state)

MobSpec == MobInit /\ [][MobNext]_mobVars

----------------------------------------------------------------------------
Stages == {"take", "write", "before", "flush", "noflush", "killed", "after"}

MobTypeOK ==
  /\ mob \in [onetime : BOOLEAN, exists : BOOLEAN,
              state : {"alive", "hit", "dead"}, vita : 0..MaxVita,
              spell : BOOLEAN]
  /\ threat \in [Slots -> Users \cup {NoUser}]
  /\ dmggrp \in [Slots -> GroupIds \cup {0, -1}]
  /\ dmgind \in [Slots -> Users \cup {NoUser}]
  /\ groupid \in [Users -> GroupIds \cup {0}]
  /\ frames \in Seq([killer : Users \cup {NoUser}, vita : 0..MaxVita,
                      stage : Stages])
  /\ writes \in 0..MaxWrites /\ paid \in Nat /\ nested \subseteq Stages
  /\ turn \in BOOLEAN /\ revived \in Nat
  /\ late \in BOOLEAN /\ gap \in BOOLEAN
  /\ owner \in {"none", "killer", "other"}

\* One death, one reward: a mob pays once in a life, and a dead one has no
\* vita; but for calls in a call, and for turns that outlive the mob.  A hit
\* from a script of the mob's own death (before_death, uncast) makes the outer
\* call kill and pay again.  After a deadly hit from on_takedamage the outer
\* call writes the vita it computed before, and what uncast heals does not save
\* the mob any more.  A mob that is killed in its turn lives again, without
\* vita, when the turn goes on to write its state; the next hit kills and pays
\* once more, so each such write is worth one reward.
PaidOnce ==
  /\ paid > 1 + revived => nested \cap {"before", "flush"} # {}
  /\ mob.exists /\ mob.state = "dead" /\ frames = <<>> /\ mob.vita > 0 =>
       nested \cap {"take", "before", "flush"} # {}

\* A player has one slot of threat, so that all threat counts; but after a
\* slot in the middle was emptied, or addThreatGeneral took every free one.
ThreatOnce ==
  gap \/ \A i, j \in Slots :
           threat[i] = threat[j] /\ threat[i] # NoUser => i = j

\* The drop is the killer's, whatever the tables of damage said, as the kill
\* empties them before they are read: neither an earlier group that had the
\* same slot nor an earlier life of the mob decides.  Only a script that runs
\* between the kill and the drop can name another.
DropsToKiller == owner = "other" => late

\* However calls and scripts interleave, a mob's death is paid once, its threat
\* counts once and its drop goes to the killer.
MobSound == PaidOnce /\ ThreatOnce /\ DropsToKiller
=============================================================================
