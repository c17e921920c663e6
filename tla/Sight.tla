------------------------------- MODULE Sight -------------------------------
(***************************************************************************)
(* What the client of one player knows about one mob while both walk.  The *)
(* screen has 2 * Half + 1 cells each way and stops at the borders of the  *)
(* map; the client keeps what is on it or one cell beside it.  The server  *)
(* tells of a mob only when it comes into that: it sends the strip that a  *)
(* step brings in, and must get the strips at the borders right.  Both     *)
(* axes are alike (8 across and 7 down), so a place is a function of the   *)
(* axis.  The client asks for the strips of its own walks (0x06); it does  *)
(* not walk by itself (FLAG_FASTMOVE), and the map is not smaller than its *)
(* screen.                                                                 *)
(***************************************************************************)
EXTENDS Integers

CONSTANTS
  Half,      \* half a screen: 8 across, 7 down
  MapSize,   \* xs, ys
  Closed,    \* cells that cannot be entered
  Marks      \* cells where players and mobs begin, are warped and spawn

Axes == {"x", "y"}
Other(a) == CHOOSE b \in Axes : b # a

Cells == {p \in [Axes -> 0..MapSize["x"] + MapSize["y"]] :
            \A a \in Axes : p[a] < MapSize[a]}

ASSUME SightAssumption ==
  /\ Half \in [Axes -> Nat] /\ MapSize \in [Axes -> Nat]
  /\ \A a \in Axes : MapSize[a] >= 2 * Half[a] + 1
  /\ Marks \subseteq Cells

VARIABLES
  here,      \* the player's place
  view,      \* viewx, viewy: where on the screen the server thinks it is
  cview,     \* where the client was told it is
  beast,     \* the mob's place
  known,     \* the client has the mob
  lost       \* history: a screen that was not where the strips assume it is,
             \* or a strip that was not sent, since the last refresh
sightVars == <<here, view, cview, beast, known, lost>>

Within(p, w) == \A a \in Axes : w[a][1] <= p[a] /\ p[a] <= w[a][2]

\* What the client keeps: its screen and one cell more on each side.
Kept(p, v) ==
  [a \in Axes |-> <<p[a] - v[a] - 1, p[a] - v[a] + 2 * Half[a] + 1>>]

\* clif_sendxy: the place on the screen that the client is told.
standard(p) ==
  [a \in Axes |-> IF p[a] < Half[a] THEN p[a]
                  ELSE IF p[a] >= MapSize[a] - Half[a]
                  THEN p[a] - MapSize[a] + 2 * Half[a] + 1
                  ELSE Half[a]]

\* SAMEAREA: one cell more than the screen on each side, moved into the map.
Around(p) ==
  [a \in Axes |->
     LET w == 2 * Half[a] + 2
         low == IF p[a] < Half[a] + 1 THEN 0
                ELSE IF p[a] + Half[a] + 1 >= MapSize[a]
                THEN MapSize[a] - w - 1
                ELSE p[a] - Half[a] - 1
     IN  <<low, low + w>>]

\* The client drops the mob when it is no longer near the screen.
Told(p, v, b, how) == known' = (Within(b, Kept(p, v)) /\ (known \/ how))

SightInit ==
  /\ here \in Marks /\ beast \in Marks \ {here}
  /\ view = Half /\ cview = standard(here)
  /\ known = Within(beast, Around(here))
  /\ lost = FALSE

----------------------------------------------------------------------------
(* Mobs and npcs walk.                                                     *)

To(p, a, by) == [p EXCEPT ![a] = @ + by]

\* The strip that comes into view, over the whole width of all screens that
\* may have it; nothing where all screens stop at the border.
AtBorder_Early(at, a, by) ==
  IF by < 0 THEN at < Half[a] + 1 ELSE at > MapSize[a] - Half[a] - 2
AtBorder(at, a, by) ==
  IF by < 0 THEN at < Half[a] ELSE at > MapSize[a] - Half[a] - 1

Strip(p, a, by) ==
  LET at == p[a] + by * (Half[a] + 2)
      ahead == IF by < 0 /\ at = Half[a] THEN <<0, Half[a]>>
               ELSE IF by > 0 /\ at = MapSize[a] - Half[a] - 1
               THEN <<at, at + Half[a] + 1>> ELSE <<at, at>>
      b == Other(a)
      low == IF p[b] < Half[b] + 1 THEN 0 ELSE p[b] - Half[b] - 1
      high == IF low + 3 * Half[b] + 4 >= MapSize[b] THEN MapSize[b] - 1
              ELSE low + 2 * Half[b] + 2
  IN  [c \in Axes |-> IF c = a THEN ahead
                      ELSE <<IF low <= Half[b] THEN 0 ELSE low, high>>]

move_mob(a, by) ==
  LET next == To(beast, a, by)
      at == beast[a] + by * (Half[a] + 2)
  IN  /\ next \in Cells \ (Closed \cup {here})
      /\ beast' = next
      /\ Told(here, cview, next, /\ ~AtBorder(at, a, by)
                                 /\ Within(here, Strip(beast, a, by)))
  /\ UNCHANGED <<here, view, cview, lost>>

\* mob_respawn: a mob that spawns is shown to all around it.
mob_appears(p) ==
  /\ p # here
  /\ beast' = p /\ Told(here, cview, p, TRUE)
  /\ UNCHANGED <<here, view, cview, lost>>

----------------------------------------------------------------------------
(* The player walks.                                                       *)

\* The place on the screen changes where the screen stops at a border.
scrolled(v, d, a, by) ==
  LET moves == IF by < 0
               THEN d <= v \/ (MapSize[a] - 1 - d < Half[a] /\ v > Half[a])
               ELSE \/ d < Half[a] /\ v < Half[a]
                    \/ 2 * Half[a] - (MapSize[a] - 1 - d) <= v
      to == IF moves THEN v + by ELSE v
  IN  IF to < 0 THEN 0 ELSE IF to > 2 * Half[a] THEN 2 * Half[a] ELSE to

Lost(p, v) == lost \/ v # standard(p)

\* The client asks for the strip that its step brings in.  At a border it
\* does not move, but its place on the screen may.
clif_parsewalk(a, by) ==
  LET d == IF here[a] + by \in 0..MapSize[a] - 1 THEN here[a] + by
           ELSE here[a]
      next == [here EXCEPT ![a] = d]
      v == [view EXCEPT ![a] = scrolled(@, d, a, by)]
  IN  /\ next \notin Closed \cup {beast}
      /\ here' = next /\ view' = v /\ cview' = v
      /\ Told(next, v, beast, d # here[a] /\ ~Within(beast, Kept(here, cview)))
      /\ lost' = Lost(next, v)
      /\ UNCHANGED beast

\* A step that a script makes: the server finds the strip by itself, and does
\* not send one that is not wholly in the map.
clif_noparsewalk(a, by) ==
  LET next == To(here, a, by)
      v == [view EXCEPT ![a] = scrolled(@, next[a], a, by)]
      at == next[a] - view[a] + (IF by < 0 THEN -1 ELSE 2 * Half[a] + 1)
      b == Other(a)
      low == here[b] - view[b] - 1
      w == [c \in Axes |-> IF c = a THEN <<at, at>>
                           ELSE <<low, low + 2 * Half[b] + 2>>]
      sent == \A c \in Axes : w[c][1] >= 0 /\ w[c][2] < MapSize[c]
  IN  /\ next \in Cells \ (Closed \cup {beast})
      /\ here' = next /\ view' = v /\ cview' = v
      /\ Told(next, v, beast, sent /\ Within(beast, w))
      /\ lost' = (Lost(next, v) \/ Lost(here, view) \/ ~sent)
      /\ UNCHANGED beast

\* A walk from a wrong place, or into something, is answered by clif_sendxy.
clif_sendxy ==
  /\ cview' = standard(here)
  /\ Told(here, cview', beast, FALSE)
  /\ lost' = Lost(here, cview)
  /\ UNCHANGED <<here, view, beast>>

\* The client shows its map moved by one.
clif_parseviewchange(a, by) ==
  LET c == cview[a] - by
      v == [cview EXCEPT ![a] = IF here[a] - c < 0 THEN c - 1
                                ELSE IF here[a] + 2 * Half[a] - c >= MapSize[a]
                                THEN c + 1 ELSE c]
  IN  /\ view' = v /\ cview' = v
      /\ Told(here, v, beast, ~Within(beast, Kept(here, cview)))
      /\ lost' = Lost(here, v)
      /\ UNCHANGED <<here, beast>>

\* All that is around is sent anew; the server's view stays as it was.
clif_parserefresh(p) ==
  /\ here' = p /\ cview' = standard(p)
  /\ known' = (Within(beast, Around(p)) /\ Within(beast, Kept(p, cview')))
  /\ lost' = FALSE
  /\ UNCHANGED <<view, beast>>
pc_warp(p) == p # beast /\ clif_parserefresh(p)

SightNext ==
  \/ \E a \in Axes, by \in {-1, 1} :
       \/ move_mob(a, by) \/ clif_parsewalk(a, by) \/ clif_noparsewalk(a, by)
       \/ clif_parseviewchange(a, by)
  \/ clif_sendxy \/ clif_parserefresh(here)
  \/ \E p \in Marks : mob_appears(p) \/ pc_warp(p)

SightSpec == SightInit /\ [][SightNext]_sightVars

SightTypeOK ==
  /\ here \in Cells /\ beast \in Cells
  /\ view \in [Axes -> Int] /\ cview \in [Axes -> Int]
  /\ known \in BOOLEAN /\ lost \in BOOLEAN

----------------------------------------------------------------------------
\* A client knows the mob when it is near its screen; but after a step that a
\* script made along a border, and with a screen that stands off.
SeenIsKnown == ~lost /\ Within(beast, Kept(here, cview)) => known
=============================================================================
