------------------------------- MODULE Looks -------------------------------
(***************************************************************************)
(* Who sees whom.  A client keeps the look of everyone it was told of; the *)
(* server keeps no record of that, and tells of a change in many places,   *)
(* each with its own test of who may see whom: stealth hides a player from *)
(* all but game masters, and on some maps the dead are seen only by the    *)
(* dead.  Figures has the same for mobs and npcs.                          *)
(*                                                                         *)
(* All who are at one place are in each other's area.  A look is the byte  *)
(* for the state and what is worn; name, colours and the arenas that show  *)
(* invisible players of one colour to each other are left out, and the     *)
(* states 3 and 4 (mounted, disguised) are as 0 here.  A client that gets  *)
(* a packet about somebody unknown asks who that is (0x0C).                *)
(***************************************************************************)
EXTENDS Naturals, FiniteSets

CONSTANTS
  Persons,
  Realms, Off,   \* Off: not logged in
  GhostMaps,   \* maps with show_ghosts
  None           \* nothing on the screen

ASSUME LooksAssumption ==
  Off \notin Realms /\ GhostMaps \subseteq Realms

VARIABLES
  who,       \* at, gm, state, stealth, ghosts and dress of each player
  grouped,   \* the players are in one group, or not; it stays as it was
             \* (the code sends no look when a group changes)
  screen,    \* the look that a client has of each other
  asked,     \* questions of a client that are under way
  excused    \* history: a look went wrong in a way the code does not mend

looksVars == <<who, grouped, screen, asked, excused>>

ALIVE == 0
PC_DIE == 1
INVISIBLE == 2
SHADOW == 5    \* how an invisible player is drawn for who may see him

Others(w, p) == {o \in Persons \ {p} : w[o].at = w[p].at /\ w[p].at # Off}

----------------------------------------------------------------------------
(* What is sent of a player.                                               *)

\* The two tests, as clif_send_sub makes them for every packet about p.
unseen(w, o, p) ==
  w[p].at \in GhostMaps /\ w[p].state = PC_DIE
  /\ w[o].state # PC_DIE /\ ~w[o].ghosts
clif_send_sub(w, o, p) ==
  /\ w[p].stealth => w[o].gm
  /\ ~unseen(w, o, p)

\* The byte for the state.
statebyte(w, o, p) ==
  IF (w[p].state = INVISIBLE \/ w[p].stealth) /\ (w[o].gm \/ grouped)
  THEN SHADOW
  ELSE IF w[p].stealth /\ w[p].state = ALIVE /\ ~w[o].gm THEN INVISIBLE
  ELSE w[p].state
worn(w, p) == w[p].dress
Look(w, o, p) == <<statebyte(w, o, p), worn(w, p)>>

\* The packets 0x33 of a question and 0x1D of a change fill in the same by
\* code of their own.
clif_charspecific_look(w, o, p) == <<statebyte(w, o, p), worn(w, p)>>
clif_updatestate_look(w, o, p) == <<statebyte(w, o, p), worn(w, p)>>

\* Whoever may see p and is near is shown p (LOOK_SEND).
clif_sendchararea(w, scr, p) ==
  [o \in Persons |->
     [scr[o] EXCEPT ![p] =
        IF o \in Others(w, p) /\ clif_send_sub(w, o, p) THEN Look(w, o, p)
        ELSE @]]

\* The looks of p and o after a question of either, wherever they are.
clif_charspecific(w, scr, sender, o) ==
  IF sender # o /\ clif_send_sub(w, o, sender)
  THEN [scr EXCEPT ![o][sender] = clif_charspecific_look(w, o, sender)]
  ELSE scr

\* p disappears from the screens it is on.
clif_lookgone(w, scr, p) ==
  [o \in Persons |->
     [scr[o] EXCEPT ![p] =
        IF o \in Others(w, p) /\ clif_send_sub(w, o, p) THEN None ELSE @]]

\* A change of state or dress; it mends the look that a client has.  On maps
\* that hide the dead it takes p off the screens of the living, and shows
\* the other dead to p.
clif_updatestate(w, scr, p) ==
  [o \in Persons |->
     IF o = p
     THEN [x \in Persons |->
             IF /\ x \in Others(w, p) /\ w[p].at \in GhostMaps
                /\ w[p].state = PC_DIE /\ ~unseen(w, x, p)
             THEN clif_charspecific(w, scr, x, p)[p][x]
             ELSE scr[p][x]]
     ELSE [scr[o] EXCEPT ![p] =
             IF o \notin Others(w, p) THEN @
             ELSE IF unseen(w, o, p) THEN None
             ELSE IF @ # None THEN clif_updatestate_look(w, o, p) ELSE @]]

\* Packets about p make these clients ask who p is.
Asking(w, scr, hearers, p) ==
  [o \in Persons |-> IF o \in hearers /\ scr[o][p] = None
                     THEN asked[o] \cup {p} ELSE asked[o]]

----------------------------------------------------------------------------

\* What the screen of o has to show of x.
Truth(w, o, x) ==
  IF x \in Others(w, o) /\ clif_send_sub(w, o, x) THEN Look(w, o, x)
  ELSE None

Right(w, scr, o, x) == o = x \/ scr[o][x] = Truth(w, o, x)

\* A look that is right again needs no excuse.
Excuses(w, scr, new) ==
  excused' = {e \in excused \cup new : ~Right(w, scr, e[1], e[2])}

\* clif_parserefresh_shown: the client forgets all it has and is told anew.
Refreshed(w, scr, p) ==
  LET own == [x \in Persons |-> IF x = p THEN None ELSE Truth(w, p, x)]
  IN  clif_sendchararea(w, [scr EXCEPT ![p] = own], p)

\* A player changes, the screens become scr, and the rest stays.
Become(w, scr, new) ==
  /\ who' = w /\ screen' = scr
  /\ Excuses(w, scr, new)
  /\ UNCHANGED grouped

LooksInit ==
  /\ who \in [Persons -> [at : {Off}, gm : BOOLEAN, state : {ALIVE},
                          stealth : {FALSE}, ghosts : {FALSE}, dress : {0}]]
  /\ grouped \in BOOLEAN
  /\ screen = [p \in Persons |-> [x \in Persons |-> None]]
  /\ asked = [p \in Persons |-> {}]
  /\ excused = {}

----------------------------------------------------------------------------
(* Persons come, go and move.                                              *)

clif_spawn(p, m) ==
  LET w == [who EXCEPT ![p].at = m]
      scr == Refreshed(w, clif_sendchararea(w, screen, p), p)
  IN  /\ who[p].at = Off
      /\ Become(w, clif_updatestate(w, scr, p), {})
      /\ asked' = Asking(w, scr, Others(w, p), p)

clif_quit(p) ==
  LET w == [who EXCEPT ![p].at = Off, ![p].stealth = FALSE,
                       ![p].ghosts = FALSE]
      scr == clif_lookgone(who, screen, p)
      own == [x \in Persons |-> None]
  IN  /\ who[p].at # Off
      /\ Become(w, [scr EXCEPT ![p] = own], {})
      /\ asked' = [asked EXCEPT ![p] = {}]

\* The place changes only after p has gone from the screens at the old one.
TakenTo(w, scr, p, m) ==
  LET to == [w EXCEPT ![p].at = m]
  IN  Refreshed(to, clif_sendchararea(to, clif_lookgone(w, scr, p), p), p)

pc_warp_shown(p, m) ==
  /\ who[p].at # Off
  /\ Become([who EXCEPT ![p].at = m], TakenTo(who, screen, p, m), {})
  /\ UNCHANGED asked

\* A step: whoever is near hears of it, and those in the strip that comes
\* into view are shown to p and shown p.
clif_parsewalk_shown(p) ==
  /\ who[p].at # Off
  /\ \E strip \in SUBSET Others(who, p) :
       LET got == [screen EXCEPT ![p] = [x \in Persons |->
                     IF x \in strip /\ clif_send_sub(who, p, x)
                     THEN Look(who, p, x) ELSE @[x]]]
           scr == [o \in Persons |->
                     IF o \in strip THEN clif_sendchararea(who, got, p)[o]
                     ELSE got[o]]
       IN  /\ Become(who, scr, {})
           /\ asked' = Asking(who, screen, {o \in Others(who, p) :
                                clif_send_sub(who, o, p)}, p)

clif_parserefresh_shown(p) ==
  /\ who[p].at # Off
  /\ Become(who, Refreshed(who, screen, p), {})
  /\ UNCHANGED asked

\* The answer to a question.  It does not ask whether the two are at one
\* place, so it may show somebody who has left.
clif_handle_missingobject(o, x) ==
  LET once == clif_charspecific(who, screen, o, x)
      scr == clif_charspecific(who, once, x, o)
      apart == x \notin Others(who, o)
  IN  /\ x \in asked[o]
      /\ asked' = [asked EXCEPT ![o] = @ \ {x}]
      /\ IF who[x].at = Off
         THEN UNCHANGED <<who, grouped, screen, excused>>
         ELSE Become(who, scr, IF apart THEN {<<o, x>>, <<x, o>>} ELSE {})

----------------------------------------------------------------------------
(* Persons change.                                                         *)

\* p changes as a whole and the change is sent.
Updates(p, new, w) ==
  /\ Become(w, clif_updatestate(w, screen, p), new)
  /\ asked' = Asking(w, screen, Others(w, p), p)

\* Putting on and taking off.
pc_equipscript_shown(p) ==
  /\ who[p].at # Off
  /\ Updates(p, {}, [who EXCEPT ![p].dress = 1 - @])

pc_diescript_shown(p) ==
  /\ who[p].at # Off /\ who[p].state # PC_DIE
  /\ Updates(p, {}, [who EXCEPT ![p].state = PC_DIE])

\* Back to life: p goes from the screens as a living player and is shown
\* anew, and the screen of p is made anew.
Raised(p) == [who EXCEPT ![p].state = ALIVE]
pc_res(p) ==
  /\ who[p].at # Off /\ who[p].state = PC_DIE
  /\ Become(Raised(p), TakenTo(Raised(p), screen, p, who[p].at), {})
  /\ UNCHANGED asked

\* A script sets the state and then calls updateState.  One that raises the
\* dead leaves the other dead on the screen of the raised.
bll_updatestate(p, s) ==
  /\ who[p].at # Off /\ s # who[p].state
  /\ Updates(p, {e \in {p} \X Persons : who[p].state = PC_DIE},
             [who EXCEPT ![p].state = s])

\* The command knows that, and raises the dead by pc_res.
command_state(p, s) ==
  /\ who[p].at # Off /\ who[p].gm
  /\ IF who[p].state = PC_DIE /\ s # PC_DIE THEN pc_res(p)
     ELSE Updates(p, {}, [who EXCEPT ![p].state = s])

\* Stealth is taken on after p has gone from the screens: afterwards the
\* packet would be kept from those who have to get it.
command_stealth_TooLate(p) ==
  LET w == [who EXCEPT ![p].stealth = ~@]
      scr == IF w[p].stealth THEN clif_lookgone(w, screen, p) ELSE screen
  IN  /\ who[p].at # Off /\ who[p].gm
      /\ Become(w, Refreshed(w, scr, p), {})
      /\ UNCHANGED asked
command_stealth(p) ==
  LET w == [who EXCEPT ![p].stealth = ~@]
      scr == IF w[p].stealth THEN clif_lookgone(who, screen, p) ELSE screen
  IN  /\ who[p].at # Off /\ who[p].gm
      /\ Become(w, Refreshed(w, scr, p), {})
      /\ UNCHANGED asked

command_ghosts(p) ==
  LET w == [who EXCEPT ![p].ghosts = ~@]
  IN  /\ who[p].at # Off /\ who[p].gm
      /\ Become(w, Refreshed(w, screen, p), {})
      /\ UNCHANGED asked

LooksNext ==
  \/ \E p \in Persons :
       \/ clif_quit(p) \/ clif_parsewalk_shown(p)
       \/ clif_parserefresh_shown(p) \/ pc_equipscript_shown(p)
       \/ pc_diescript_shown(p) \/ pc_res(p)
       \/ command_stealth(p) \/ command_ghosts(p)
       \/ \E m \in Realms : clif_spawn(p, m) \/ pc_warp_shown(p, m)
       \/ \E s \in {ALIVE, PC_DIE, INVISIBLE} :
            bll_updatestate(p, s) \/ command_state(p, s)
       \/ \E x \in Persons : clif_handle_missingobject(p, x)

LooksSpec == LooksInit /\ [][LooksNext]_looksVars

----------------------------------------------------------------------------

LooksTypeOK ==
  /\ who \in [Persons -> [at : Realms \cup {Off}, gm : BOOLEAN,
                          state : {ALIVE, PC_DIE, INVISIBLE},
                          stealth : BOOLEAN, ghosts : BOOLEAN,
                          dress : {0, 1}]]
  /\ grouped \in BOOLEAN
  /\ screen \in [Persons -> [Persons ->
                  {None} \cup ({ALIVE, PC_DIE, INVISIBLE, SHADOW} \X {0, 1})]]
  /\ asked \in [Persons -> SUBSET Persons]
  /\ excused \subseteq Persons \X Persons

\* A client shows exactly those players that its player may see,
\* as they are now: nobody hidden by stealth or death stays on a screen, and
\* nobody who came out of hiding is missing from one, whatever the order of
\* dying, rising, hiding, warping and dressing.  A question under way may
\* still bring somebody; the changes that the code does not send are named
\* where they happen.
ScreenIsTrue ==
  \A o \in Persons, x \in Persons :
    Right(who, screen, o, x) \/ <<o, x>> \in excused
      \/ (screen[o][x] = None /\ x \in asked[o])
=============================================================================
