------------------------------ MODULE Figures ------------------------------
(***************************************************************************)
(* How mobs and npcs are drawn by the clients, for one of them: as an      *)
(* object, or as a character that looks like a player.  Which of the two   *)
(* it is is tested again at every place that draws it, and a dead mob is   *)
(* not drawn.  Looks has the same for players, and Sight what a walk       *)
(* brings into view; here all who are on one map see the whole of it.      *)
(***************************************************************************)
EXTENDS Naturals

CONSTANTS
  Watchers,
  Grounds, Away,   \* maps; Away: not logged in
  Den,             \* startm
  Unseen           \* nothing on the screen

ASSUME FiguresAssumption == Away \notin Grounds /\ Den \in Grounds

VARIABLES
  at,        \* where the players are
  figure,    \* npc, character (mobtype or npctype is 1), ai (subtype is 1),
             \* once (onetime), m, state and look
  drawing,   \* the look that each client has, or Unseen
  unknown,   \* clients that asked what it is that moves
  failed     \* history: clients not told, or told wrong

figuresVars == <<at, figure, drawing, unknown, failed>>

Present(f) == {p \in Watchers : at[p] = f.m}

\* What a packet shows of a character: its gear or its gfx, in code of its own
\* for a mob and for an npc; of an object: its graphic.
clif_cmoblook_gear(f) == f.look
clif_cnpclook_gear(f) == f.look
Appearance(f) ==
  IF ~f.character THEN f.look
  ELSE IF f.npc THEN clif_cnpclook_gear(f) ELSE clif_cmoblook_gear(f)

\* What a client has to show.
Real(f, where) ==
  IF where = f.m /\ f.state = "alive" THEN f.look ELSE Unseen

----------------------------------------------------------------------------
(* The three ways to draw, each with its own tests.                        *)

clif_cmoblook_sub(f) == ~f.npc /\ f.character /\ f.state = "alive"
clif_cnpclook_sub(f) == f.npc /\ f.character
clif_object_look_sub2(f) == ~f.character /\ f.state = "alive"

Drawn(f, asCharacter) ==
  IF asCharacter THEN clif_cmoblook_sub(f) \/ clif_cnpclook_sub(f)
  ELSE clif_object_look_sub2(f)

Shown(f, scr, asCharacter) ==
  [p \in Watchers |->
     IF p \in Present(f) /\ Drawn(f, asCharacter) THEN Appearance(f)
     ELSE scr[p]]
Gone(f, scr) ==
  [p \in Watchers |-> IF p \in Present(f) THEN Unseen ELSE scr[p]]

\* The figure and the screens become f and scr; new failures count until the
\* screen is right again.
Becomes(f, scr, new) ==
  /\ figure' = f /\ drawing' = scr
  /\ failed' = {p \in failed \cup new : scr[p] # Real(f, at[p])}
  /\ UNCHANGED <<at, unknown>>

FiguresInit ==
  /\ at = [p \in Watchers |-> Away]
  /\ figure \in {f \in [npc : BOOLEAN, character : BOOLEAN, ai : BOOLEAN,
                        once : BOOLEAN, m : {Den}, look : {0},
                        state : {"alive", "dead"}] :
                   /\ f.npc => f.ai = f.character /\ ~f.once
                   /\ f.state = "alive" <=> f.npc \/ f.once}
  /\ drawing = [p \in Watchers |-> Unseen]
  /\ unknown = {} /\ failed = {}

----------------------------------------------------------------------------
(* Players.                                                                *)

\* A login or a warp ends in clif_parserefresh, which draws all objects and
\* then all characters of the area.
clif_getchararea(p, m) ==
  /\ at' = [at EXCEPT ![p] = m]
  /\ drawing' = [drawing EXCEPT ![p] =
                   IF m = figure.m /\ (Drawn(figure, TRUE)
                                       \/ Drawn(figure, FALSE))
                   THEN Appearance(figure) ELSE Unseen]
  /\ failed' = failed \ {p}
  /\ UNCHANGED <<figure, unknown>>

leaves(p) ==
  /\ at[p] # Away
  /\ at' = [at EXCEPT ![p] = Away]
  /\ drawing' = [drawing EXCEPT ![p] = Unseen]
  /\ unknown' = unknown \ {p} /\ failed' = failed \ {p}
  /\ UNCHANGED figure

\* The question of a client (0x0C): only objects are answered, wherever the
\* player is by now.
clif_object_look_specific(p) ==
  /\ p \in unknown
  /\ unknown' = unknown \ {p}
  /\ LET f == figure
         scr == IF clif_object_look_sub2(f)
                THEN [drawing EXCEPT ![p] = f.look] ELSE drawing
     IN  /\ drawing' = scr
         /\ failed' = {q \in failed \cup {p} : scr[q] # Real(f, at[q])}
  /\ UNCHANGED <<at, figure>>

----------------------------------------------------------------------------
(* The figure.                                                             *)

\* It walks: a client that does not have it asks.
clif_mob_move ==
  /\ figure.state = "alive"
  /\ unknown' = unknown \cup {p \in Present(figure) : drawing[p] = Unseen}
  /\ unknown' # unknown
  /\ UNCHANGED <<at, figure, drawing, failed>>

figure_killed ==
  /\ ~figure.npc /\ figure.state = "alive"
  /\ Becomes([figure EXCEPT !.state = "dead"], Gone(figure, drawing), {})

\* mob_warp and npc_warp: gone from where it was, drawn where it is now.
Warped(f, scr, m) ==
  LET to == [f EXCEPT !.m = m]
  IN  Shown(to, Gone(f, scr), f.character)

mob_warp(m) ==
  /\ figure.state # "freed" /\ ~figure.npc
  /\ Becomes([figure EXCEPT !.m = m], Warped(figure, drawing, m), {})
npc_warp(m) ==
  /\ figure.npc
  /\ Becomes([figure EXCEPT !.m = m], Warped(figure, drawing, m), {})

\* The end of mob_respawn and of mob_respawn_nousers: a body that lies on
\* another map is taken home while it is dead, so that does not draw it.
Risen == [figure EXCEPT !.m = Den, !.state = "alive", !.look = 0]
Home == IF figure.m = Den THEN drawing ELSE Warped(figure, drawing, Den)
figure_rises ==
  Becomes(Risen, Shown(Risen, Home, figure.character), {})
\* Nobody is told: there is nobody where the body lay.  Whoever is at home
\* is not told either.
figure_rises_unseen ==
  Becomes(Risen, Home, IF figure.m # Den THEN Watchers ELSE {})

\* mob_handle_sub, every 50 ms: the dead rise in their time; a mob that was
\* spawned once is killed when its map is empty, and freed when dead.
figure_timer ==
  /\ ~figure.npc
  /\ IF figure.once
     THEN \/ /\ figure.state = "dead" \/ Present(figure) = {}
             /\ figure.state # "freed"
             /\ Becomes([figure EXCEPT !.state = "freed"],
                        Gone(figure, drawing), {})
     ELSE /\ figure.state = "dead"
          /\ IF Present(figure) # {} THEN figure_rises
             ELSE figure_rises_unseen

\* A script changes the look and calls updateState, which draws a mob as a
\* character by its subtype and not by its mobtype.
bll_updatefigure ==
  LET f == [figure EXCEPT !.look = 1 - @]
      told == IF figure.npc THEN f.character ELSE f.ai
  IN  /\ figure.state # "freed"
      /\ Becomes(f, Shown(f, drawing, told),
                 IF told # f.character THEN Watchers ELSE {})

FiguresNext ==
  \/ \E p \in Watchers :
       \/ leaves(p) \/ clif_object_look_specific(p)
       \/ \E m \in Grounds : clif_getchararea(p, m)
  \/ clif_mob_move \/ figure_killed \/ figure_timer \/ bll_updatefigure
  \/ \E m \in Grounds : mob_warp(m) \/ npc_warp(m)

FiguresSpec == FiguresInit /\ [][FiguresNext]_figuresVars

----------------------------------------------------------------------------

FiguresTypeOK ==
  /\ at \in [Watchers -> Grounds \cup {Away}]
  /\ figure \in [npc : BOOLEAN, character : BOOLEAN, ai : BOOLEAN,
                 once : BOOLEAN, m : Grounds,
                 state : {"alive", "dead", "freed"}, look : {0, 1}]
  /\ drawing \in [Watchers -> {Unseen, 0, 1}]
  /\ unknown \subseteq Watchers /\ failed \subseteq Watchers

\* A client draws the figure if it is on the player's map and alive, and as
\* it looks now; no body and no copy of it stays behind on a screen when it
\* dies, is freed, is warped or rises elsewhere.  The three cases in which
\* the code leaves a client wrong are named where they happen.
DrawingIsTrue ==
  \A p \in Watchers \ failed : drawing[p] = Real(figure, at[p])
=============================================================================
