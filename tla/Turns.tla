------------------------------- MODULE Turns -------------------------------
(***************************************************************************)
(* What one client may do, and when: clif_parse takes its packets one at a *)
(* time, counters that pc_timer clears every second and a flag that an     *)
(* attack timer clears hold the client back.  The attack timer finds its   *)
(* player by the number of the character, and nobody removes it when the   *)
(* session ends.                                                           *)
(*                                                                         *)
(* Time goes in ticks.  A packet is the kind of handler that it reaches;   *)
(* what the handler does is other modules' matter.  The end of the session *)
(* (clif_handle_disconnect) and the reset of the server are here, which    *)
(* lets one more packet be handled.                                        *)
(***************************************************************************)
EXTENDS Naturals

CONSTANTS
  Second,    \* ticks from one pc_timer to the next
  Swing      \* ticks from an attack to pc_atkspeed

ASSUME TurnsAssumption == {Second, Swing} \subseteq Nat \ {0}

VARIABLES
  link,       \* closed, new (no character yet), in
  eof,        \* session[fd]->eof
  packet,     \* the packet that waits in the buffer, or "none"
  sd,         \* the player's counters and flags, those that clif_parse tests
  clock,      \* ticks until pc_timer
  atk_timers, \* ticks until each pc_atkspeed for this character
  strays,     \* those of them that an earlier session left
  server_shutdown,
  seen        \* history: acts and said since pc_timer, ticks since the last
              \* swing, freed (a stray has come in), early (a
              \* swing too soon, not freed), left (how often the player
              \* has left), late (a packet after that)

turnsVars == <<link, eof, packet, sd, clock, atk_timers, strays,
               server_shutdown, seen>>

Paced == {"getitem", "emotion", "magic"}
Packets == Paced \cup {"attack", "use", "say", "other", "enter", "broken"}
MaxTime == 4    \* what time and chat_timer count; more makes no difference
UpTo(n, m) == IF n < m THEN n ELSE m

NewSd(gm) == [gm |-> gm, time |-> 0, chat_timer |-> 0, attacked |-> FALSE]
NewSeen == [acts |-> 0, said |-> 0, since |-> Swing, freed |-> FALSE,
            early |-> FALSE, left |-> 0, late |-> FALSE]

TurnsInit ==
  /\ link = "closed" /\ eof = FALSE /\ packet = "none"
  /\ \E gm \in BOOLEAN : sd = NewSd(gm)
  /\ clock = Second /\ atk_timers = {} /\ strays = {}
  /\ server_shutdown = FALSE /\ seen = NewSeen

----------------------------------------------------------------------------
(* The session.                                                            *)

accept ==
  /\ link = "closed"
  /\ link' = "new" /\ eof' = FALSE /\ packet' = "none"
  /\ UNCHANGED <<sd, clock, atk_timers, strays, server_shutdown, seen>>

sends(k) ==
  /\ link # "closed" /\ packet = "none" /\ packet' = k
  /\ UNCHANGED <<link, eof, sd, clock, atk_timers, strays, server_shutdown,
                 seen>>

hangs_up ==
  /\ link # "closed" /\ ~eof /\ eof' = TRUE
  /\ UNCHANGED <<link, packet, sd, clock, atk_timers, strays,
                 server_shutdown, seen>>

\* The character is loaded and enters with fresh counters; pc_starttimer.
\* Attack timers still under way are of an earlier session.
pc_starttimer ==
  /\ sd' = NewSd(sd.gm) /\ seen' = NewSeen /\ clock' = Second
  /\ strays' = atk_timers
clif_accept2 ==
  /\ link = "new" /\ ~eof /\ packet = "enter" /\ packet' = "none"
  /\ IF server_shutdown
     THEN eof' = TRUE /\ UNCHANGED <<link, sd, clock, strays, seen>>
     ELSE link' = "in" /\ pc_starttimer /\ UNCHANGED eof
  /\ UNCHANGED <<atk_timers, server_shutdown>>

\* A session without a character takes nothing else.
clif_parse_new ==
  /\ link = "new" /\ ~eof /\ packet \notin {"none", "enter"}
  /\ packet' = "none" /\ eof' = (packet = "broken")
  /\ UNCHANGED <<link, sd, clock, atk_timers, strays, server_shutdown, seen>>

\* clif_handle_disconnect: logout script, save, off the map and the timers
\* but the attack timer removed (pc_stoptimer).
LeftOnceMore(s) == [s EXCEPT !.left = UpTo(@ + 1, 2)]

clif_parse_eof ==
  /\ link # "closed" /\ eof
  /\ link' = "closed" /\ eof' = FALSE /\ packet' = "none"
  /\ seen' = IF link = "in" THEN LeftOnceMore(seen) ELSE seen
  /\ UNCHANGED <<sd, clock, atk_timers, strays, server_shutdown>>

----------------------------------------------------------------------------
(* One packet of a player.                                                 *)

Counted(d) == [d EXCEPT !.time = UpTo(@ + 1, MaxTime)]
Spoke(d) == IF d.gm THEN d ELSE [d EXCEPT !.chat_timer = UpTo(@ + 1, 2)]

\* What the packet does to the counters; able: not paralyzed, asleep, drunk
\* or confused, as scripts have it.
Counting_MagicFree(k, d) ==
  CASE k \in {"getitem", "emotion", "attack"} -> Counted(d)
    [] k = "say" -> Spoke(d)
    [] OTHER -> d
Counting(k, d) ==
  CASE k \in {"getitem", "emotion", "attack"} -> Counted(d)
    [] k = "magic" /\ d.time < 3 -> Counted(d)
    [] k = "say" -> Spoke(d)
    [] OTHER -> d

\* Whether the handler behind the packet is called.
Allowed(k, d, able) ==
  CASE k \in {"getitem", "emotion"} -> Counted(d).time < 4
    [] k \in {"magic", "use"} -> d.time < 3 /\ able
    [] k = "attack" -> ~d.attacked
    [] k = "say" -> d.gm \/ Spoke(d).chat_timer < 2
    [] OTHER -> TRUE

\* Counters, flag, timer and history after the packet.
Handled(k, able, s) ==
  LET done == Allowed(k, sd, able)
      counted == IF k = "magic" /\ ~able THEN sd ELSE Counting(k, sd)
      swings == k = "attack" /\ done
  IN  /\ sd' = IF swings THEN [counted EXCEPT !.attacked = TRUE] ELSE counted
      /\ atk_timers' = IF swings THEN atk_timers \cup {Swing} ELSE atk_timers
      /\ strays' = IF swings THEN strays \ {Swing} ELSE strays
      /\ seen' = [s EXCEPT
                    !.acts = IF done /\ k \in Paced THEN UpTo(@ + 1, 4)
                             ELSE @,
                    !.said = IF done /\ k = "say" THEN UpTo(@ + 1, 2)
                             ELSE @,
                    !.since = IF swings THEN 0 ELSE @,
                    !.freed = @ /\ (swings => atk_timers # {}),
                    !.early = @ \/ (swings /\ s.since < Swing /\ ~s.freed),
                    !.late = @ \/ s.left > 0]

clif_parse ==
  /\ link = "in" /\ ~eof /\ packet # "none"
  /\ packet' = "none"
  /\ IF packet = "broken"
     THEN eof' = TRUE /\ UNCHANGED <<sd, atk_timers, strays, seen>>
     ELSE \E able \in BOOLEAN : Handled(packet, able, seen) /\ UNCHANGED eof
  /\ UNCHANGED <<link, clock, server_shutdown>>

\* The last step of a reset: the player leaves, then the packet that waits is
\* handled for it, and the session ends later, as if it had hung up.
map_reset_timer ==
  /\ link = "in" /\ ~eof /\ ~server_shutdown
  /\ server_shutdown' = TRUE /\ eof' = TRUE /\ packet' = "none"
  /\ IF packet \in {"none", "broken"}
     THEN seen' = LeftOnceMore(seen) /\ UNCHANGED <<sd, atk_timers, strays>>
     ELSE \E able \in BOOLEAN : Handled(packet, able, LeftOnceMore(seen))
  /\ UNCHANGED <<link, clock>>

----------------------------------------------------------------------------
(* Timers.                                                                 *)

pc_timer_clears(d) == [d EXCEPT !.time = 0, !.chat_timer = 0]

\* pc_atkspeed finds whoever is the character now.
pc_atkspeed(d) == [d EXCEPT !.attacked = FALSE]

Aged(T) == {n - 1 : n \in T} \ {0}

tick ==
  LET in == link = "in" /\ seen.left = 0
      due == clock = 1
      freed == IF in /\ 1 \in atk_timers THEN pc_atkspeed(sd) ELSE sd
  IN  /\ clock' = IF due THEN Second ELSE clock - 1
      /\ atk_timers' = Aged(atk_timers) /\ strays' = Aged(strays)
      /\ sd' = IF in /\ due THEN pc_timer_clears(freed) ELSE freed
      /\ seen' = [seen EXCEPT
                    !.acts = IF in /\ due THEN 0 ELSE @,
                    !.said = IF in /\ due THEN 0 ELSE @,
                    !.since = UpTo(@ + 1, Swing),
                    !.freed = @ \/ 1 \in strays]
      /\ UNCHANGED <<link, eof, packet, server_shutdown>>

TurnsNext ==
  \/ accept \/ hangs_up \/ clif_accept2 \/ clif_parse_new \/ clif_parse_eof
  \/ clif_parse \/ map_reset_timer \/ tick
  \/ \E k \in Packets : sends(k)

TurnsSpec == TurnsInit /\ [][TurnsNext]_turnsVars

----------------------------------------------------------------------------

TurnsTypeOK ==
  /\ link \in {"closed", "new", "in"} /\ eof \in BOOLEAN
  /\ packet \in Packets \cup {"none"}
  /\ sd.time \in 0..MaxTime /\ sd.chat_timer \in 0..2
  /\ sd.gm \in BOOLEAN /\ sd.attacked \in BOOLEAN
  /\ clock \in 1..Second
  /\ atk_timers \subseteq 1..Swing /\ strays \subseteq atk_timers
  /\ server_shutdown \in BOOLEAN

Playing == link = "in" /\ seen.left = 0

\* Between two runs of pc_timer a player picks up, gestures and casts at most
\* three times in all, and one who is no game master says one thing.
PacedBySecond ==
  Playing => seen.acts <= 3 /\ (sd.gm \/ seen.said <= 1)

\* Two swings of a session are Swing ticks apart, unless a timer that an
\* earlier session left has come in, and as long as the player then swings on
\* without a pause; and whoever has swung will be let swing again.
SwingsApart == ~seen.early /\ (Playing /\ sd.attacked => atk_timers # {})

\* A player leaves once, and no packet is handled for one who has left, but
\* in a reset of the server.
LeavesOnce == seen.left > 1 \/ seen.late => server_shutdown

TurnsSound == PacedBySecond /\ SwingsApart /\ LeavesOnce
=============================================================================
