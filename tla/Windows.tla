------------------------------ MODULE Windows ------------------------------
(***************************************************************************)
(* The part of a row that map_foreachinarea looks at around a place x of a *)
(* map with xs cells, as map_foreachinblockva clips it.                    *)
(***************************************************************************)
EXTENDS Integers

CONSTANTS
  HalfView,    \* 9 across and 8 down: half of what a client shows
  AreaSize     \* AREAX_SIZE, AREAY_SIZE

ASSUME WindowAssumption == HalfView \in Nat /\ AreaSize \in Nat

Areas == {"AREA", "SAMEAREA", "SAMEMAP"}

AtLeast(a, low) == IF a < low THEN low ELSE a
AtMost(a, high) == IF a > high THEN high ELSE a

\* SAMEAREA: what the client shows, which is moved, not cut, at a border.
ShiftRight(w, xs) ==
  IF w.x0 < 0 THEN [x0 |-> 0, x1 |-> AtMost(w.x1 - w.x0, xs - 1)] ELSE w

ShiftLeft(w, xs) ==
  IF w.x1 >= xs THEN [x0 |-> AtLeast(w.x0 - (w.x1 - xs + 1), 0),
                      x1 |-> xs - 1]
  ELSE w

Shown(x, xs) ==
  ShiftLeft(ShiftRight([x0 |-> x - HalfView, x1 |-> x + HalfView], xs), xs)

Window(area, x, xs) ==
  CASE area = "AREA"     -> [x0 |-> AtLeast(x - (AreaSize + 1), 0),
                             x1 |-> AtMost(x + (AreaSize + 1), xs - 1)]
    [] area = "SAMEAREA" -> Shown(x, xs)
    [] area = "SAMEMAP"  -> [x0 |-> 0, x1 |-> xs - 1]
=============================================================================
