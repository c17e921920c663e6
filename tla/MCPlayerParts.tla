---------------------------- MODULE MCPlayerParts ----------------------------
(***************************************************************************)
(* Groups of players, the turns of a player, the mob that hunts them and   *)
(* the registries of scripts: parts of the map server that share no state, *)
(* checked side by side.  A behaviour belongs to one of them, chosen at    *)
(* the start, and the others stay as they were.                            *)
(***************************************************************************)
EXTENDS Groups, Turns, Hunt, Registry, TLC

VARIABLE part

playerPartsVars == <<part, vars, turnsVars, huntVars, registryVars>>

\* The players of groups are interchangeable.
Symmetry == Permutations(Players)

\* Where several copies write, two inserts are enough, and so is one mishap.
ShortHistory ==
  part = "registry" /\ Shared => mishaps = {} /\ issued < MaxInserts

PlayerPartsInit ==
  /\ part \in {"groups", "turns", "hunt", "registry"}
  /\ Init /\ TurnsInit /\ HuntInit /\ RegistryInit
  /\ part # "turns" => ~sd.gm
  /\ part # "hunt" => hunter.type = 0 /\ ~hunter.onetime
  /\ part # "registry" => owned_by = "record"

GroupsStep ==
  /\ part = "groups" /\ Next
  /\ UNCHANGED <<part, turnsVars, huntVars, registryVars>>
TurnsStep ==
  /\ part = "turns" /\ TurnsNext
  /\ UNCHANGED <<part, vars, huntVars, registryVars>>
HuntStep ==
  /\ part = "hunt" /\ HuntNext
  /\ UNCHANGED <<part, vars, turnsVars, registryVars>>
RegistryStep ==
  /\ part = "registry" /\ RegistryNext
  /\ UNCHANGED <<part, vars, turnsVars, huntVars>>

PlayerPartsNext == GroupsStep \/ TurnsStep \/ HuntStep \/ RegistryStep

PlayerPartsSpec == PlayerPartsInit /\ [][PlayerPartsNext]_playerPartsVars

\* What befalls a player is what was meant to: it acts at the pace that the
\* timers allow, mobs strike it only where it is and while it lives, and what
\* scripts note of it is what they read later.
PlayersSound ==
  /\ part = "turns" => TurnsTypeOK /\ TurnsSound
  /\ part = "hunt" => HuntTypeOK /\ StrikesTheLiving /\ ThreatsLive
  /\ part = "registry" => RegistryTypeOK /\ RegistrySound
=============================================================================
