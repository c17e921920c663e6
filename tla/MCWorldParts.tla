---------------------------- MODULE MCWorldParts ----------------------------
(***************************************************************************)
(* More parts of the map server that share no state, checked side by side: *)
(* a behaviour belongs to one of them, chosen at the start, and the others *)
(* stay as they were.                                                      *)
(***************************************************************************)
EXTENDS MobLife, Dialogs, Sight, Figures, Looks, PlayerLife, TLC

VARIABLE part

worldPartsVars ==
  <<part, mobVars, dialogVars, sightVars, figuresVars, looksVars,
    playerVars>>

UserSymmetry == Permutations(Users)

\* A screen of three cells by one, on a map of six by three.
Screen == [a \in Axes |-> IF a = "x" THEN 1 ELSE 0]
Ground == [a \in Axes |-> IF a = "x" THEN 6 ELSE 3]
Place(x, y) == [a \in Axes |-> IF a = "x" THEN x ELSE y]
Corners == {Place(0, 0), Place(3, 1), Place(5, 2)}

WorldPartsInit ==
  /\ MobInit /\ DialogInit /\ SightInit /\ FiguresInit /\ LooksInit
  /\ PlayerInit
  /\ part \in {"mob", "dialog", "sight", "figures", "looks",
              "life"}
  /\ part # "mob" => mob.onetime
  /\ part # "sight" => here = Place(0, 0) /\ beast = Place(3, 1)
  /\ part # "figures" => figure.npc /\ figure.character
  /\ Cardinality({p \in Persons : who[p].gm}) =
       IF part = "looks" THEN 1 ELSE 0
  /\ part # "looks" => ~grouped

MobStep ==
  /\ part = "mob" /\ MobNext
  /\ UNCHANGED <<part, dialogVars, sightVars, figuresVars, looksVars,
                 playerVars>>
DialogStep ==
  /\ part = "dialog" /\ DialogNext
  /\ UNCHANGED <<part, mobVars, sightVars, figuresVars, looksVars,
                 playerVars>>
SightStep ==
  /\ part = "sight" /\ SightNext
  /\ UNCHANGED <<part, mobVars, dialogVars, figuresVars, looksVars,
                 playerVars>>
FiguresStep ==
  /\ part = "figures" /\ FiguresNext
  /\ UNCHANGED <<part, mobVars, dialogVars, sightVars, looksVars,
                 playerVars>>
LooksStep ==
  /\ part = "looks" /\ LooksNext
  /\ UNCHANGED <<part, mobVars, dialogVars, sightVars, figuresVars,
                 playerVars>>

LifeStep ==
  /\ part = "life" /\ PlayerNext
  /\ UNCHANGED <<part, mobVars, dialogVars, sightVars, figuresVars,
                 looksVars>>

WorldPartsNext ==
  MobStep \/ DialogStep \/ SightStep \/ FiguresStep \/ LooksStep \/ LifeStep

WorldPartsSpec == WorldPartsInit /\ [][WorldPartsNext]_worldPartsVars

\* The part that moves keeps to its types.
WorldPartsTypeOK ==
  CASE part = "mob" -> MobTypeOK
    [] part = "dialog" -> DialogTypeOK
    [] part = "sight" -> SightTypeOK
    [] part = "figures" -> FiguresTypeOK
    [] part = "looks" -> LooksTypeOK
    [] part = "life" -> PlayerTypeOK

\* A mob is paid for once and drops to its killer; a player without vita
\* dies, once, by the right hand.
LivesSound == MobSound /\ PlayerLifeSound

\* What a client is shown is what the server means: an answer reaches the
\* script that asked, no mob walks about unseen near the screen, and mobs and
\* npcs are drawn where and as they are.
ClientSound == DialogSound /\ SeenIsKnown /\ DrawingIsTrue
=============================================================================
