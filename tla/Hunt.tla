-------------------------------- MODULE Hunt --------------------------------
(***************************************************************************)
(* Whom a mob hunts.  It keeps the id of its target from turn to turn and  *)
(* looks the player up again in each; in between the player may die, hide, *)
(* warp away or leave, and the mob stands still while its map is empty.    *)
(* The AI is a script (mob_ai_basic), which may turn to another player: to *)
(* one in the threat table, or at random when the way is blocked.          *)
(*                                                                         *)
(* Places are the map of the mob, all of it in its area, and elsewhere.    *)
(* Whether the mob gets next to somebody is open, and so are the times of  *)
(* its turns and which of those in the threat table comes first.  Damage   *)
(* and death of the mob are in MobLife; game masters and summoned mobs are *)
(* left out.                                                               *)
(***************************************************************************)
EXTENDS Naturals

CONSTANTS Preys, NoPrey

ASSUME HuntAssumption == NoPrey \notin Preys

VARIABLES
  hunter,    \* type (0, 1: aggressive, 2: does nothing), onetime, exists,
             \* state, target
  threats,   \* players in its threat table
  prey,      \* at (here, elsewhere, off), dead and stealth of each player
  lingers,   \* history: players put into the table after their death
  wrong      \* history: somebody was struck who should not be

huntVars == <<hunter, threats, prey, lingers, wrong>>

HuntInit ==
  /\ hunter \in [type : 0..2, onetime : BOOLEAN, exists : {TRUE},
                 state : {"alive"}, target : {NoPrey}]
  /\ threats = {} /\ lingers = {} /\ wrong = FALSE
  /\ prey = [p \in Preys |-> [at |-> "off", dead |-> FALSE,
                              stealth |-> FALSE]]

InArea == {p \in Preys : prey[p].at = "here"}

----------------------------------------------------------------------------
(* Players.                                                                *)

Prey(p, new) == prey' = [prey EXCEPT ![p] = new]

goes(p, where) ==
  /\ prey[p].at # where
  /\ Prey(p, [prey[p] EXCEPT !.at = where,
                             !.stealth = @ /\ where # "off"])
  /\ UNCHANGED <<hunter, threats, lingers, wrong>>

hides(p) ==
  /\ prey[p].at # "off" /\ Prey(p, [prey[p] EXCEPT !.stealth = ~@])
  /\ UNCHANGED <<hunter, threats, lingers, wrong>>

\* Whoever dies is taken out of the threat tables of all mobs.
ThreatsAfter(p) == threats \ {p}

dies(p) ==
  /\ prey[p].at # "off" /\ ~prey[p].dead
  /\ Prey(p, [prey[p] EXCEPT !.dead = TRUE])
  /\ threats' = ThreatsAfter(p)
  /\ UNCHANGED <<hunter, lingers, wrong>>

raised(p) ==
  /\ prey[p].at # "off" /\ prey[p].dead
  /\ Prey(p, [prey[p] EXCEPT !.dead = FALSE])
  /\ lingers' = lingers \ {p}
  /\ UNCHANGED <<hunter, threats, wrong>>

\* A swing, or a spell or trap that may outlive who laid it.
provokes(p) ==
  /\ prey[p].at # "off" /\ hunter.exists /\ hunter.state # "dead"
  /\ threats' = threats \cup {p}
  /\ lingers' = IF prey[p].dead THEN lingers \cup {p} ELSE lingers
  /\ UNCHANGED <<hunter, prey, wrong>>

----------------------------------------------------------------------------
(* A turn of the mob.                                                      *)

Hunter(new) == hunter' = new
HasTurn == hunter.exists /\ hunter.type < 2 /\ InArea # {}

\* The end of a life: by a hit, or on an empty map for one that was spawned
\* for once; that one is freed in the same turn.
kill_mob ==
  /\ hunter.exists /\ hunter.state # "dead" /\ InArea # {}
  /\ Hunter([hunter EXCEPT !.state = "dead"])
  /\ threats' = {} /\ UNCHANGED <<prey, lingers, wrong>>
onetime_freed ==
  /\ hunter.exists /\ hunter.onetime /\ hunter.type < 2
  /\ hunter.state = "dead" \/ InArea = {}
  /\ Hunter([hunter EXCEPT !.exists = FALSE, !.target = NoPrey])
  /\ threats' = {} /\ UNCHANGED <<prey, lingers, wrong>>
onetime_spawned ==
  /\ ~hunter.exists /\ InArea # {}
  /\ Hunter([hunter EXCEPT !.exists = TRUE, !.state = "alive"])
  /\ UNCHANGED <<threats, prey, lingers, wrong>>

\* The others rise in time, also those that do nothing else.
mob_respawn_getstats(h) == [h EXCEPT !.state = "alive", !.target = NoPrey]
mob_rises ==
  /\ hunter.exists /\ ~hunter.onetime /\ hunter.state = "dead"
  /\ Hunter(mob_respawn_getstats(hunter))
  /\ UNCHANGED <<threats, prey, lingers, wrong>>

\* A walking mob loses a target that has gone or died, one that strikes also
\* a target on another map.
Astray(t) == t = NoPrey \/ prey[t].at = "off" \/ prey[t].dead
AstrayInFight(t) == Astray(t) \/ prey[t].at # "here"

\* An aggressive one takes somebody who is near, living and not spared.
mob_find_target(t) ==
  LET found == {p \in InArea : ~prey[p].dead}
  IN  IF hunter.type = 1 /\ t = NoPrey
      THEN found \cup (IF found = {} THEN {NoPrey} ELSE {}) ELSE {t}

\* Those that scripts see in the area.
bll_getobjects == {p \in InArea : ~prey[p].stealth}

\* calcHighestThreat: the first of the table who is near, or who it was.
calcHighestThreat(t) ==
  LET near == threats \cap bll_getobjects
  IN  IF near = {} THEN {t} ELSE near

\* FindCoords: the way is blocked and the script turns to anybody.
Wherever(t) == {t} \cup bll_getobjects

mob_moves ==
  /\ HasTurn /\ hunter.state = "alive"
  /\ \E found \in mob_find_target(hunter.target) :
       LET t == IF Astray(found) THEN NoPrey ELSE found
       IN  \E c \in calcHighestThreat(t) :
             \/ c = NoPrey /\ Hunter([hunter EXCEPT !.target = c])
             \/ /\ c # NoPrey
                /\ \E n \in Wherever(c), s \in {"alive", "hit"} :
                     Hunter([hunter EXCEPT !.target = n, !.state = s])
  /\ UNCHANGED <<threats, prey, lingers, wrong>>

\* mob_attack spares those who are hidden, and gives up.
mob_attack(p) ==
  IF prey[p].stealth
  THEN Hunter([hunter EXCEPT !.target = NoPrey]) /\ UNCHANGED wrong
  ELSE /\ Hunter([hunter EXCEPT !.target = p])
       /\ wrong' = (wrong \/ prey[p].at # "here"
                          \/ (prey[p].dead /\ p \notin lingers))

GivesUp == [hunter EXCEPT !.state = "alive", !.target = NoPrey]
mob_strikes ==
  /\ HasTurn /\ hunter.state = "hit"
  /\ IF AstrayInFight(hunter.target) THEN Hunter(GivesUp) /\ UNCHANGED wrong
     ELSE \E p \in calcHighestThreat(hunter.target) :
            \/ mob_attack(p)
            \/ /\ \E n \in Wherever(p) :
                    Hunter([hunter EXCEPT !.target = n, !.state = "alive"])
               /\ UNCHANGED wrong
  /\ UNCHANGED <<threats, prey, lingers>>

HuntNext ==
  \/ \E p \in Preys :
       \/ hides(p) \/ dies(p) \/ raised(p) \/ provokes(p)
       \/ \E where \in {"here", "elsewhere", "off"} : goes(p, where)
  \/ kill_mob \/ onetime_freed \/ onetime_spawned \/ mob_rises
  \/ mob_moves \/ mob_strikes

HuntSpec == HuntInit /\ [][HuntNext]_huntVars

----------------------------------------------------------------------------

HuntTypeOK ==
  /\ hunter \in [type : 0..2, onetime : BOOLEAN, exists : BOOLEAN,
                 state : {"alive", "hit", "dead"},
                 target : Preys \cup {NoPrey}]
  /\ threats \subseteq Preys /\ lingers \subseteq Preys
  /\ prey \in [Preys -> [at : {"here", "elsewhere", "off"},
                         dead : BOOLEAN, stealth : BOOLEAN]]
  /\ wrong \in BOOLEAN

\* A mob strikes only those who are on its map and alive, however long ago it
\* chose them and whatever table its script looks into.  The dead are struck
\* only for a spell of theirs that lives on.
StrikesTheLiving == ~wrong

\* The dead are in no threat table but for such a spell.
ThreatsLive == \A p \in threats : prey[p].dead => p \in lingers
=============================================================================
