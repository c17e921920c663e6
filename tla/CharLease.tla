----------------------------- MODULE CharLease -----------------------------
(***************************************************************************)
(* What logging in to one character promises, without servers, messages    *)
(* or sessions: the char server permits a login only while the character   *)
(* is marked offline, a permission lets at most one player in, and the     *)
(* mark goes when a player leaves or when all marks are swept.  Nothing    *)
(* here says that one player plays at a time: permissions that are pending *)
(* together let several in, and CharSession, which implements this module, *)
(* shows when.                                                             *)
(***************************************************************************)
EXTENDS Naturals

CONSTANT Seats   \* where a player can sit

VARIABLES
  flag,      \* the character is marked online
  players,   \* the seats of those who play it
  pending,   \* permissions that were given and can still be used
  issued     \* the number of permissions given

vars == <<flag, players, pending, issued>>

Init ==
  /\ flag = FALSE
  /\ players = {}
  /\ pending = {}
  /\ issued = 0

\* A permission is given; it may be lost on its way.
Permit ==
  /\ ~flag
  /\ issued' = issued + 1
  /\ pending' \in {pending, pending \cup {issued'}}
  /\ UNCHANGED <<flag, players>>

\* A permission is used.
Enter ==
  /\ \E g \in pending : pending' = pending \ {g}
  /\ \E s \in Seats \ players : players' = players \cup {s}
  /\ flag' = TRUE
  /\ UNCHANGED issued

\* Permissions expire, are refused, or are lost.
Lapse ==
  /\ pending' \subseteq pending
  /\ UNCHANGED <<flag, players, issued>>

Leave ==
  /\ \E s \in players : players' = players \ {s}
  /\ flag' = FALSE
  /\ UNCHANGED <<pending, issued>>

\* Every character is marked offline.
Sweep ==
  /\ flag' = FALSE
  /\ pending' \subseteq pending
  /\ UNCHANGED <<players, issued>>

\* The players are gone at once, and nobody has changed the mark.
Crash ==
  /\ players' = {}
  /\ pending' \subseteq pending
  /\ UNCHANGED <<flag, issued>>

Next == Permit \/ Enter \/ Lapse \/ Leave \/ Sweep \/ Crash

Spec == Init /\ [][Next]_vars
=============================================================================
