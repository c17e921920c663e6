---------------------------- MODULE MCTimerHeap ----------------------------
(* Instances of TimerHeap for TLC. *)
EXTENDS TimerHeap, TLC

CONSTANTS o1, o2

\* A short and a long interval; the long one times the lag passes LateMax.
TwoIntervals   == (o1 :> 1) @@ (o2 :> 3)
=============================================================================
