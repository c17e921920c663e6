------------------------- MODULE PlayerPartsProofs -------------------------
(***************************************************************************)
(* Groups, the pace of a player, the prey of a mob and the registries of   *)
(* scripts, for any players, any sizes of the tables and any lengths of    *)
(* time.                                                                   *)
(*                                                                         *)
(* Turns: what was let through in a second is at most what the counters    *)
(* counted, and while no stray timer has come in, the one timer that       *)
(* belongs to the last swing runs out when a swing is due.                 *)
(* Hunt: its three properties are inductive together.                      *)
(* Registries: a copy that nobody has written past agrees with the rows    *)
(* (TablesAgree), what the first query found stands until somebody else    *)
(* writes (FoundStands, IdStands), and the row of a map has the place of   *)
(* its name until the map is loaded again (PlacesStand).                   *)
(* Groups: the inductive invariant is the agreement of members about their *)
(* group (ListedAreMembers), with what ties free slots and ungrouped       *)
(* players down (SlotInUse, Idle).                                         *)
(***************************************************************************)
EXTENDS MCPlayerParts, TLAPS, WellFoundedInduction, FiniteSetTheorems

SdRecords == [gm : BOOLEAN, time : 0..MaxTime, chat_timer : 0..2,
              attacked : BOOLEAN]
SeenRecords == [acts : 0..4, said : 0..2, since : 0..Swing, freed : BOOLEAN,
                early : BOOLEAN, left : 0..2, late : BOOLEAN]
Records == sd \in SdRecords /\ seen \in SeenRecords

\* The counters count what is let through.
Counts ==
  Playing => /\ seen.acts <= sd.time /\ seen.acts <= 3
             /\ sd.gm \/ (seen.said <= sd.chat_timer /\ seen.said <= 1)

\* While no stray has come in, a timer that is none runs out Swing ticks after
\* the last swing, and one who may swing has waited that long.
TimedSwing ==
  Playing /\ ~seen.freed =>
    /\ \A n \in atk_timers \ strays : seen.since = Swing - n
    /\ ~sd.attacked => seen.since = Swing

\* One who has left in a reset only waits for the end of the session.
GoneWaits == link = "in" /\ seen.left > 0 => eof /\ server_shutdown

TurnsInv ==
  /\ TurnsTypeOK /\ Records
  /\ Counts /\ TimedSwing /\ SwingsApart
  /\ GoneWaits /\ LeavesOnce


----------------------------------------------------------------------------
(* One packet.                                                             *)

\* What counts, and by how much.
LEMMA CountedIs ==
  ASSUME NEW d \in SdRecords
  PROVE  /\ Counted(d) \in SdRecords
         /\ Counted(d).time = UpTo(d.time + 1, MaxTime)
         /\ Counted(d).chat_timer = d.chat_timer
         /\ Counted(d).gm = d.gm /\ Counted(d).attacked = d.attacked
         /\ Spoke(d) \in SdRecords
         /\ Spoke(d).chat_timer = IF d.gm THEN d.chat_timer
                                  ELSE UpTo(d.chat_timer + 1, 2)
         /\ Spoke(d).time = d.time
         /\ Spoke(d).gm = d.gm /\ Spoke(d).attacked = d.attacked
<1>1. UpTo(d.time + 1, MaxTime) \in 0..MaxTime /\ UpTo(d.chat_timer + 1, 2) \in 0..2
  BY DEF SdRecords, UpTo, MaxTime
<1>. QED  BY <1>1 DEF Counted, Spoke, SdRecords

\* Counting changes the counters only, and never down.
LEMMA CountingIs ==
  ASSUME NEW d \in SdRecords, NEW k \in Packets
  PROVE  /\ Counting(k, d) \in SdRecords
         /\ Counting(k, d).gm = d.gm /\ Counting(k, d).attacked = d.attacked
         /\ Counting(k, d).time \in {d.time, UpTo(d.time + 1, MaxTime)}
         /\ k \in {"getitem", "emotion"} =>
              Counting(k, d).time = UpTo(d.time + 1, MaxTime)
         /\ k = "magic" /\ d.time < 3 =>
              Counting(k, d).time = UpTo(d.time + 1, MaxTime)
         /\ Counting(k, d).chat_timer \in {d.chat_timer, UpTo(d.chat_timer + 1, 2)}
         /\ k = "say" /\ ~d.gm =>
              Counting(k, d).chat_timer = UpTo(d.chat_timer + 1, 2)
<1>1. Counting(k, d) \in {d, Counted(d), Spoke(d)}
  BY DEF Counting
<1>2. /\ k \in {"getitem", "emotion"} => Counting(k, d) = Counted(d)
      /\ k = "magic" /\ d.time < 3 => Counting(k, d) = Counted(d)
      /\ k = "say" => Counting(k, d) = Spoke(d)
  BY DEF Counting
<1>. HIDE DEF Counting
<1>. QED  BY <1>1, <1>2, CountedIs

\* A swing.
Swings(k) == k = "attack" /\ ~sd.attacked

\* The counters after a packet, by its kind.
LEMMA HandledIs ==
  ASSUME Records, NEW k \in Packets, NEW able \in BOOLEAN,
         NEW s \in SeenRecords, Handled(k, able, s)
  PROVE  /\ sd' \in SdRecords /\ seen' \in SeenRecords
         /\ sd'.gm = sd.gm
         /\ sd'.attacked = (sd.attacked \/ Swings(k))
         /\ sd.time <= sd'.time /\ sd.chat_timer <= sd'.chat_timer
         /\ seen'.acts # s.acts =>
              sd.time < 3 /\ sd'.time = sd.time + 1 /\ seen'.acts = s.acts + 1
         /\ seen'.said # s.said =>
              sd.gm \/ (sd.chat_timer = 0 /\ sd'.chat_timer = 1
                        /\ seen'.said = s.said + 1)
         /\ seen'.since = IF Swings(k) THEN 0 ELSE s.since
         /\ seen'.freed = (s.freed /\ (Swings(k) => atk_timers # {}))
         /\ seen'.early = (s.early \/ (Swings(k) /\ s.since < Swing /\ ~s.freed))
         /\ seen'.left = s.left
         /\ seen'.late = (s.late \/ s.left > 0)
         /\ atk_timers' = IF Swings(k) THEN atk_timers \cup {Swing} ELSE atk_timers
         /\ strays' = IF Swings(k) THEN strays \ {Swing} ELSE strays
<1>. DEFINE counted == IF k = "magic" /\ ~able THEN sd ELSE Counting(k, sd)
            done == Allowed(k, sd, able)
<1>1. (k = "attack" /\ done) = Swings(k)
  BY DEF Allowed, Swings
<1>2. /\ counted \in SdRecords /\ counted.gm = sd.gm
      /\ counted.attacked = sd.attacked
      /\ counted.time \in {sd.time, UpTo(sd.time + 1, MaxTime)}
      /\ counted.chat_timer \in {sd.chat_timer, UpTo(sd.chat_timer + 1, 2)}
  BY CountingIs DEF Records
<1>3. done /\ k \in Paced =>
        sd.time < 3 /\ counted.time = UpTo(sd.time + 1, MaxTime)
  <2>1. CASE k \in {"getitem", "emotion"}
    <3>1. done => UpTo(sd.time + 1, MaxTime) < 4
      BY <2>1, CountedIs DEF Allowed, Records
    <3>2. done => sd.time < 3
      BY <3>1 DEF UpTo, MaxTime, Records, SdRecords
    <3>. QED  BY <2>1, <3>2, CountingIs DEF Records
  <2>2. CASE k = "magic"
    <3>1. done => sd.time < 3 /\ able
      BY <2>2 DEF Allowed
    <3>. QED  BY <2>2, <3>1, CountingIs DEF Records
  <2>. QED  BY <2>1, <2>2 DEF Paced
<1>4. done /\ k = "say" /\ ~sd.gm =>
        sd.chat_timer = 0 /\ counted.chat_timer = UpTo(sd.chat_timer + 1, 2)
  <2>1. done /\ k = "say" /\ ~sd.gm => UpTo(sd.chat_timer + 1, 2) < 2
    BY CountedIs DEF Allowed, Records
  <2>2. done /\ k = "say" /\ ~sd.gm => sd.chat_timer = 0
    BY <2>1 DEF UpTo, Records, SdRecords
  <2>. QED  BY <2>2, CountingIs DEF Records
<1>5. /\ sd' = IF Swings(k) THEN [counted EXCEPT !.attacked = TRUE] ELSE counted
      /\ atk_timers' = IF Swings(k) THEN atk_timers \cup {Swing} ELSE atk_timers
      /\ strays' = IF Swings(k) THEN strays \ {Swing} ELSE strays
      /\ seen' = [s EXCEPT
                    !.acts = IF done /\ k \in Paced THEN UpTo(@ + 1, 4) ELSE @,
                    !.said = IF done /\ k = "say" THEN UpTo(@ + 1, 2) ELSE @,
                    !.since = IF Swings(k) THEN 0 ELSE @,
                    !.freed = @ /\ (Swings(k) => atk_timers # {}),
                    !.early = @ \/ (Swings(k) /\ s.since < Swing /\ ~s.freed),
                    !.late = @ \/ s.left > 0]
  BY <1>1 DEF Handled
<1>6. /\ UpTo(s.acts + 1, 4) \in {s.acts, s.acts + 1} /\ UpTo(s.acts + 1, 4) \in 0..4
      /\ UpTo(s.said + 1, 2) \in {s.said, s.said + 1} /\ UpTo(s.said + 1, 2) \in 0..2
      /\ 0 \in 0..Swing
  BY TurnsAssumption DEF UpTo, SeenRecords
<1>7. /\ UpTo(sd.time + 1, MaxTime) \in {sd.time, sd.time + 1}
      /\ sd.time < 3 => UpTo(sd.time + 1, MaxTime) = sd.time + 1
      /\ UpTo(sd.chat_timer + 1, 2) \in {sd.chat_timer, sd.chat_timer + 1}
      /\ sd.chat_timer = 0 => UpTo(sd.chat_timer + 1, 2) = 1
      /\ sd.time \in Nat /\ sd.chat_timer \in Nat
  BY DEF UpTo, MaxTime, Records, SdRecords
<1>. HIDE DEF counted, done
<1>8. /\ sd' \in SdRecords /\ sd'.gm = counted.gm
      /\ sd'.time = counted.time /\ sd'.chat_timer = counted.chat_timer
      /\ sd'.attacked = (counted.attacked \/ Swings(k))
  <2>1. CASE Swings(k)
    BY <1>2, <1>5, <2>1 DEF SdRecords
  <2>2. CASE ~Swings(k)
    BY <1>2, <1>5, <2>2 DEF SdRecords
  <2>. QED  BY <2>1, <2>2
<1>9. /\ seen'.acts = IF done /\ k \in Paced THEN UpTo(s.acts + 1, 4) ELSE s.acts
      /\ seen'.said = IF done /\ k = "say" THEN UpTo(s.said + 1, 2) ELSE s.said
      /\ seen'.since = IF Swings(k) THEN 0 ELSE s.since
      /\ seen'.freed = (s.freed /\ (Swings(k) => atk_timers # {}))
      /\ seen'.early = (s.early \/ (Swings(k) /\ s.since < Swing /\ ~s.freed))
      /\ seen'.left = s.left
      /\ seen'.late = (s.late \/ s.left > 0)
  BY <1>5 DEF SeenRecords
<1>10. seen' \in SeenRecords
  <2>. DEFINE a == IF done /\ k \in Paced THEN UpTo(s.acts + 1, 4) ELSE s.acts
              b == IF done /\ k = "say" THEN UpTo(s.said + 1, 2) ELSE s.said
              c == IF Swings(k) THEN 0 ELSE s.since
              f == s.freed /\ (Swings(k) => atk_timers # {})
              e == s.early \/ (Swings(k) /\ s.since < Swing /\ ~s.freed)
              l == s.late \/ s.left > 0
  <2>1. a \in 0..4 /\ b \in 0..2 /\ c \in 0..Swing
    BY <1>6 DEF SeenRecords
  <2>2. f \in BOOLEAN /\ e \in BOOLEAN /\ l \in BOOLEAN
    BY Zenon DEF SeenRecords
  <2>3. seen' = [s EXCEPT !.acts = a, !.said = b, !.since = c, !.freed = f,
                          !.early = e, !.late = l]
    BY <1>5
  <2>. HIDE DEF a, b, c, f, e, l
  <2>. QED  BY <2>1, <2>2, <2>3 DEF SeenRecords
<1>11. /\ sd.time <= sd'.time /\ sd.chat_timer <= sd'.chat_timer
       /\ seen'.acts # s.acts =>
            sd.time < 3 /\ sd'.time = sd.time + 1 /\ seen'.acts = s.acts + 1
  BY <1>2, <1>3, <1>6, <1>7, <1>8, <1>9
<1>12. seen'.said # s.said =>
         sd.gm \/ (sd.chat_timer = 0 /\ sd'.chat_timer = 1
                   /\ seen'.said = s.said + 1)
  BY <1>4, <1>6, <1>7, <1>8, <1>9
<1>13. sd'.gm = sd.gm /\ sd'.attacked = (sd.attacked \/ Swings(k))
  BY <1>2, <1>8
<1>. QED  BY <1>5, <1>8, <1>9, <1>10, <1>11, <1>12, <1>13


\* A packet of one who plays keeps what is counted, and no swing is too soon.
LEMMA PacketKeeps ==
  ASSUME TurnsInv, Playing, NEW k \in Packets, NEW able \in BOOLEAN,
         NEW s \in SeenRecords,
         s.acts = seen.acts, s.said = seen.said, s.since = seen.since,
         s.freed = seen.freed, s.early = seen.early,
         Handled(k, able, s)
  PROVE  /\ atk_timers' \subseteq 1..Swing /\ strays' \subseteq atk_timers'
         /\ seen'.acts <= sd'.time /\ seen'.acts <= 3
         /\ sd'.gm \/ (seen'.said <= sd'.chat_timer /\ seen'.said <= 1)
         /\ ~seen'.freed =>
              /\ \A n \in atk_timers' \ strays' : seen'.since = Swing - n
              /\ ~sd'.attacked => seen'.since = Swing
         /\ ~seen'.early
         /\ sd'.attacked => atk_timers' # {}
<1>1. Records
  BY DEF TurnsInv
<1>2. /\ sd' \in SdRecords /\ seen' \in SeenRecords
      /\ sd'.gm = sd.gm
      /\ sd'.attacked = (sd.attacked \/ Swings(k))
      /\ sd.time <= sd'.time /\ sd.chat_timer <= sd'.chat_timer
      /\ seen'.acts # s.acts =>
           sd.time < 3 /\ sd'.time = sd.time + 1 /\ seen'.acts = s.acts + 1
      /\ seen'.said # s.said =>
           sd.gm \/ (sd.chat_timer = 0 /\ sd'.chat_timer = 1
                     /\ seen'.said = s.said + 1)
      /\ seen'.since = IF Swings(k) THEN 0 ELSE s.since
      /\ seen'.freed = (s.freed /\ (Swings(k) => atk_timers # {}))
      /\ seen'.early = (s.early \/ (Swings(k) /\ s.since < Swing /\ ~s.freed))
      /\ atk_timers' = IF Swings(k) THEN atk_timers \cup {Swing} ELSE atk_timers
      /\ strays' = IF Swings(k) THEN strays \ {Swing} ELSE strays
  BY <1>1, HandledIs
<1>3. /\ sd.time \in Nat /\ sd.chat_timer \in Nat /\ seen.acts \in Nat
      /\ seen.said \in Nat /\ seen.since \in Nat
      /\ sd.attacked \in BOOLEAN /\ seen.freed \in BOOLEAN
      /\ seen.early \in BOOLEAN /\ sd.gm \in BOOLEAN
      /\ sd'.time \in Nat /\ sd'.chat_timer \in Nat
  BY <1>1, <1>2 DEF Records, SdRecords, SeenRecords
<1>4. atk_timers \subseteq 1..Swing /\ strays \subseteq atk_timers
  BY DEF TurnsInv, TurnsTypeOK
<1>5. Swing \in Nat \ {0}
  BY TurnsAssumption
<1>6. /\ seen.acts <= sd.time /\ seen.acts <= 3
      /\ sd.gm \/ (seen.said <= sd.chat_timer /\ seen.said <= 1)
  BY DEF TurnsInv, Counts
<1>7. ~seen.freed =>
        /\ \A n \in atk_timers \ strays : seen.since = Swing - n
        /\ ~sd.attacked => seen.since = Swing
  BY DEF TurnsInv, TimedSwing
<1>8. ~seen.early /\ (sd.attacked => atk_timers # {})
  BY DEF TurnsInv, SwingsApart
<1>9. seen'.acts <= sd'.time /\ seen'.acts <= 3
  BY <1>2, <1>3, <1>6
<1>10. sd'.gm \/ (seen'.said <= sd'.chat_timer /\ seen'.said <= 1)
  BY <1>2, <1>3, <1>6
<1>11. CASE Swings(k)
  <2>1. ~sd.attacked
    BY <1>11 DEF Swings
  <2>2. atk_timers' = atk_timers \cup {Swing} /\ strays' = strays \ {Swing}
    BY <1>2, <1>11
  <2>3. seen'.since = 0 /\ (seen'.freed <=> seen.freed /\ atk_timers # {})
    BY <1>2, <1>11
  <2>4. ~seen.freed => atk_timers \ strays = {}
    BY <1>3, <1>4, <1>5, <1>7, <2>1
  <2>5. ~seen'.freed => atk_timers \subseteq strays
    BY <2>3, <2>4
  <2>6. ~seen'.freed => \A n \in atk_timers' \ strays' : n = Swing
    BY <2>2, <2>5
  <2>7. ~seen'.early
    BY <1>2, <1>3, <1>5, <1>7, <1>8, <2>1
  <2>8. sd'.attacked = TRUE
    BY <1>2, <1>11
  <2>9. atk_timers' \subseteq 1..Swing /\ strays' \subseteq atk_timers'
        /\ atk_timers' # {}
    BY <1>4, <1>5, <2>2
  <2>. QED  BY <1>5, <1>9, <1>10, <2>3, <2>6, <2>7, <2>8, <2>9
<1>12. CASE ~Swings(k)
  <2>1. /\ atk_timers' = atk_timers /\ strays' = strays
        /\ seen'.since = seen.since
    BY <1>2, <1>12
  <2>2. /\ seen'.freed <=> seen.freed
        /\ sd'.attacked <=> sd.attacked
        /\ seen'.early <=> seen.early
    BY <1>2, <1>12
  <2>. QED  BY <1>4, <1>7, <1>8, <1>9, <1>10, <2>1, <2>2
<1>. QED  BY <1>11, <1>12

\* clif_parse: whoever gets a packet in has not left.
LEMMA ParseKeeps ==
  ASSUME TurnsInv, clif_parse
  PROVE  TurnsInv'
<1>1. Playing
  BY DEF TurnsInv, GoneWaits, clif_parse, Playing, Records, SeenRecords
<1>2. /\ link' = link /\ clock' = clock /\ server_shutdown' = server_shutdown
      /\ packet' = "none" /\ eof' \in BOOLEAN
  BY DEF clif_parse, TurnsInv, TurnsTypeOK
<1>3. CASE packet = "broken"
  <2>1. eof' = TRUE /\ UNCHANGED <<sd, atk_timers, strays, seen>>
    BY <1>3 DEF clif_parse
  <2>2. Playing' /\ Playing
    BY <1>1, <1>2, <2>1 DEF Playing
  <2>3. TurnsTypeOK' /\ Records'
    BY <1>2, <2>1 DEF TurnsInv, TurnsTypeOK, Records
  <2>4. Counts' /\ TimedSwing' /\ SwingsApart' /\ LeavesOnce'
    BY <1>2, <2>1, <2>2
    DEF TurnsInv, Counts, TimedSwing, SwingsApart, LeavesOnce
  <2>5. GoneWaits'
    BY <2>2 DEF GoneWaits, Playing
  <2>. QED  BY <2>3, <2>4, <2>5 DEF TurnsInv
<1>4. CASE packet # "broken"
  <2>1. PICK able \in BOOLEAN : Handled(packet, able, seen) /\ eof' = eof
    BY <1>4 DEF clif_parse
  <2>2. packet \in Packets /\ seen \in SeenRecords
    BY DEF clif_parse, TurnsInv, TurnsTypeOK, Records
  <2>3. /\ atk_timers' \subseteq 1..Swing /\ strays' \subseteq atk_timers'
        /\ seen'.acts <= sd'.time /\ seen'.acts <= 3
        /\ sd'.gm \/ (seen'.said <= sd'.chat_timer /\ seen'.said <= 1)
        /\ ~seen'.freed =>
             /\ \A n \in atk_timers' \ strays' : seen'.since = Swing - n
             /\ ~sd'.attacked => seen'.since = Swing
        /\ ~seen'.early
        /\ sd'.attacked => atk_timers' # {}
    BY <1>1, <2>1, <2>2, PacketKeeps
  <2>4. /\ sd' \in SdRecords /\ seen' \in SeenRecords /\ seen'.left = seen.left
        /\ seen'.late = (seen.late \/ seen.left > 0)
    BY <2>1, <2>2, HandledIs DEF TurnsInv
  <2>5. seen'.left = 0 /\ (seen'.late <=> seen.late)
    BY <1>1, <2>4 DEF Playing, TurnsInv, Records, SeenRecords
  <2>6. TurnsTypeOK' /\ Records'
    BY <1>2, <2>3, <2>4 DEF TurnsInv, TurnsTypeOK, Records, SdRecords
  <2>7. Counts' /\ TimedSwing' /\ SwingsApart'
    BY <2>3 DEF Counts, TimedSwing, SwingsApart
  <2>8. GoneWaits' /\ LeavesOnce'
    BY <1>2, <2>5 DEF TurnsInv, GoneWaits, LeavesOnce
  <2>. QED  BY <2>6, <2>7, <2>8 DEF TurnsInv
<1>. QED  BY <1>3, <1>4

\* The reset: who plays leaves, and no more than the packet that waits is
\* handled.
LEMMA ResetKeeps ==
  ASSUME TurnsInv, map_reset_timer
  PROVE  TurnsInv'
<1>1. Playing
  BY DEF TurnsInv, GoneWaits, map_reset_timer, Playing, Records, SeenRecords
<1>2. /\ link' = link /\ clock' = clock /\ server_shutdown' = TRUE
      /\ packet' = "none" /\ eof' = TRUE
  BY DEF map_reset_timer
<1>. DEFINE s == LeftOnceMore(seen)
<1>3. /\ s \in SeenRecords /\ s.left = 1
      /\ s.acts = seen.acts /\ s.said = seen.said /\ s.since = seen.since
      /\ s.freed = seen.freed /\ s.early = seen.early
  <2>1. UpTo(seen.left + 1, 2) = 1
    BY <1>1 DEF Playing, UpTo
  <2>. QED  BY <2>1 DEF LeftOnceMore, TurnsInv, Records, SeenRecords
<1>4. /\ sd' \in SdRecords /\ seen' \in SeenRecords /\ seen'.left = 1
      /\ ~seen'.early
      /\ atk_timers' \subseteq 1..Swing /\ strays' \subseteq atk_timers'
  <2>1. CASE packet \in {"none", "broken"}
    <3>1. seen' = s /\ UNCHANGED <<sd, atk_timers, strays>>
      BY <2>1 DEF map_reset_timer
    <3>. QED  BY <1>3, <3>1 DEF TurnsInv, SwingsApart, TurnsTypeOK, Records
  <2>2. CASE packet \notin {"none", "broken"}
    <3>1. PICK able \in BOOLEAN : Handled(packet, able, s)
      BY <2>2 DEF map_reset_timer
    <3>2. packet \in Packets /\ Records
      BY <2>2 DEF TurnsInv, TurnsTypeOK
    <3>. HIDE DEF s
    <3>. QED  BY <1>1, <1>3, <3>1, <3>2, PacketKeeps, HandledIs
  <2>. QED  BY <2>1, <2>2
<1>5. ~Playing'
  BY <1>4 DEF Playing
<1>6. TurnsTypeOK' /\ Records'
  BY <1>2, <1>4 DEF TurnsInv, TurnsTypeOK, Records, SdRecords
<1>7. Counts' /\ TimedSwing' /\ SwingsApart'
  BY <1>4, <1>5 DEF Counts, TimedSwing, SwingsApart
<1>8. GoneWaits' /\ LeavesOnce'
  BY <1>2 DEF GoneWaits, LeavesOnce
<1>. QED  BY <1>6, <1>7, <1>8 DEF TurnsInv


\* A tick takes the timers one nearer.
LEMMA AgedIs ==
  ASSUME NEW T, NEW S, T \subseteq 1..Swing, S \subseteq T
  PROVE  /\ Aged(T) \subseteq 1..Swing /\ Aged(S) \subseteq Aged(T)
         /\ \A n \in Aged(T) \ Aged(S) : n + 1 \in T \ S
         /\ T # {} /\ 1 \notin T => Aged(T) # {}
         /\ T = {} => Aged(T) = {}
<1>1. Swing \in Nat
  BY TurnsAssumption
<1>2. \A n \in T : n \in Nat /\ 1 <= n /\ n <= Swing
  BY <1>1
<1>3. \A n : n \in Aged(T) <=> n # 0 /\ \E m \in T : n = m - 1
  BY DEF Aged
<1>4. \A n : n \in Aged(S) <=> n # 0 /\ \E m \in S : n = m - 1
  BY DEF Aged
<1>5. \A n \in Aged(T) : n + 1 \in T /\ n \in 1..Swing
  BY <1>1, <1>2, <1>3
<1>6. \A n \in T : n # 1 => n - 1 \in Aged(T)
  BY <1>2, <1>3
<1>7. \A n \in Aged(T) : n + 1 \in S => n \in Aged(S)
  <2>. SUFFICES ASSUME NEW n \in Aged(T), n + 1 \in S
                PROVE  n \in Aged(S)
    OBVIOUS
  <2>1. n \in Nat /\ n # 0 /\ n = (n + 1) - 1
    BY <1>1, <1>5
  <2>. QED  BY <1>4, <2>1
<1>. QED  BY <1>3, <1>4, <1>5, <1>6, <1>7

\* What pc_timer clears.
LEMMA ClearsIs ==
  ASSUME NEW d \in SdRecords
  PROVE  /\ pc_timer_clears(d) \in SdRecords
         /\ pc_timer_clears(d).gm = d.gm
         /\ pc_timer_clears(d).attacked = d.attacked
         /\ pc_timer_clears(d).time = 0
         /\ pc_timer_clears(d).chat_timer = 0
<1>1. 0 \in 0..MaxTime
  BY DEF MaxTime
<1>2. /\ [d EXCEPT !.time = 0] \in SdRecords
      /\ [d EXCEPT !.time = 0].gm = d.gm
      /\ [d EXCEPT !.time = 0].attacked = d.attacked
      /\ [d EXCEPT !.time = 0].time = 0
  BY <1>1 DEF SdRecords
<1>3. ASSUME NEW e \in SdRecords
      PROVE  /\ [e EXCEPT !.chat_timer = 0] \in SdRecords
             /\ [e EXCEPT !.chat_timer = 0].gm = e.gm
             /\ [e EXCEPT !.chat_timer = 0].attacked = e.attacked
             /\ [e EXCEPT !.chat_timer = 0].time = e.time
             /\ [e EXCEPT !.chat_timer = 0].chat_timer = 0
  BY DEF SdRecords
<1>4. pc_timer_clears(d) = [[d EXCEPT !.time = 0] EXCEPT !.chat_timer = 0]
  BY DEF pc_timer_clears, SdRecords
<1>. QED  BY <1>2, <1>3, <1>4

\* A tick, with pc_timer and pc_atkspeed.
LEMMA TickKeeps ==
  ASSUME TurnsInv, tick
  PROVE  TurnsInv'
<1>. DEFINE due == clock = 1
            freed == IF Playing /\ 1 \in atk_timers THEN pc_atkspeed(sd) ELSE sd
<1>1. /\ clock' = IF due THEN Second ELSE clock - 1
      /\ atk_timers' = Aged(atk_timers) /\ strays' = Aged(strays)
      /\ sd' = IF Playing /\ due THEN pc_timer_clears(freed) ELSE freed
      /\ seen' = [seen EXCEPT
                    !.acts = IF Playing /\ due THEN 0 ELSE @,
                    !.said = IF Playing /\ due THEN 0 ELSE @,
                    !.since = UpTo(@ + 1, Swing),
                    !.freed = @ \/ 1 \in strays]
      /\ UNCHANGED <<link, eof, packet, server_shutdown>>
  BY DEF tick, Playing
<1>2. /\ sd \in SdRecords /\ seen \in SeenRecords
      /\ atk_timers \subseteq 1..Swing /\ strays \subseteq atk_timers
      /\ clock \in 1..Second
  BY DEF TurnsInv, TurnsTypeOK, Records
<1>3. /\ Swing \in Nat \ {0} /\ Second \in Nat \ {0}
  BY TurnsAssumption
<1>4. /\ freed \in SdRecords /\ freed.time = sd.time
      /\ freed.chat_timer = sd.chat_timer /\ freed.gm = sd.gm
      /\ freed.attacked = IF Playing /\ 1 \in atk_timers THEN FALSE ELSE sd.attacked
  BY <1>2 DEF pc_atkspeed, SdRecords
<1>. HIDE DEF freed
<1>5. /\ sd' \in SdRecords /\ sd'.gm = sd.gm
      /\ sd'.attacked = freed.attacked
      /\ sd'.time = IF Playing /\ due THEN 0 ELSE sd.time
      /\ sd'.chat_timer = IF Playing /\ due THEN 0 ELSE sd.chat_timer
  <2>1. /\ pc_timer_clears(freed) \in SdRecords
        /\ pc_timer_clears(freed).gm = freed.gm
        /\ pc_timer_clears(freed).attacked = freed.attacked
        /\ pc_timer_clears(freed).time = 0
        /\ pc_timer_clears(freed).chat_timer = 0
    BY <1>4, ClearsIs
  <2>2. CASE Playing /\ due
    BY <1>1, <1>4, <2>1, <2>2
  <2>3. CASE ~(Playing /\ due)
    BY <1>1, <1>4, <2>3
  <2>. QED  BY <2>2, <2>3
<1>6. UpTo(seen.since + 1, Swing) \in 0..Swing
  BY <1>2, <1>3 DEF UpTo, SeenRecords
<1>7. /\ seen'.acts = IF Playing /\ due THEN 0 ELSE seen.acts
      /\ seen'.said = IF Playing /\ due THEN 0 ELSE seen.said
      /\ seen'.since = UpTo(seen.since + 1, Swing)
      /\ seen'.freed = (seen.freed \/ 1 \in strays)
      /\ seen'.early = seen.early /\ seen'.left = seen.left
      /\ seen'.late = seen.late
  BY <1>1, <1>2 DEF SeenRecords
<1>8. seen' \in SeenRecords
  <2>. DEFINE a == IF Playing /\ due THEN 0 ELSE seen.acts
              b == IF Playing /\ due THEN 0 ELSE seen.said
              c == UpTo(seen.since + 1, Swing)
              f == seen.freed \/ 1 \in strays
  <2>1. a \in 0..4 /\ b \in 0..2 /\ c \in 0..Swing
    BY <1>2, <1>6 DEF SeenRecords
  <2>2. f \in BOOLEAN
    OBVIOUS
  <2>3. seen' = [seen EXCEPT !.acts = a, !.said = b, !.since = c, !.freed = f]
    BY <1>1
  <2>. HIDE DEF a, b, c, f
  <2>. QED  BY <1>2, <2>1, <2>2, <2>3 DEF SeenRecords
<1>9. /\ Aged(atk_timers) \subseteq 1..Swing /\ Aged(strays) \subseteq Aged(atk_timers)
      /\ \A n \in Aged(atk_timers) \ Aged(strays) : n + 1 \in atk_timers \ strays
      /\ atk_timers # {} /\ 1 \notin atk_timers => Aged(atk_timers) # {}
  BY <1>2, AgedIs
<1>10. clock' \in 1..Second
  BY <1>1, <1>2, <1>3
<1>11. TurnsTypeOK' /\ Records'
  BY <1>1, <1>5, <1>8, <1>9, <1>10
  DEF TurnsInv, TurnsTypeOK, Records, SdRecords
<1>12. Playing' = Playing
  BY <1>1, <1>7 DEF Playing
<1>13. Counts'
  BY <1>2, <1>5, <1>7, <1>12 DEF TurnsInv, Counts, SdRecords, SeenRecords
<1>14. TimedSwing'
  <2>. SUFFICES ASSUME Playing, ~seen'.freed
                PROVE  /\ \A n \in atk_timers' \ strays' : seen'.since = Swing - n
                       /\ ~sd'.attacked => seen'.since = Swing
    BY <1>12 DEF TimedSwing
  <2>1. ~seen.freed /\ 1 \notin strays
    BY <1>2, <1>7 DEF SeenRecords
  <2>2. /\ \A n \in atk_timers \ strays : seen.since = Swing - n
        /\ ~sd.attacked => seen.since = Swing
    BY <2>1 DEF TurnsInv, TimedSwing
  <2>3. ASSUME NEW n \in atk_timers' \ strays'
        PROVE  seen'.since = Swing - n
    <3>1. n \in 1..Swing /\ n + 1 \in atk_timers \ strays
      BY <1>1, <1>9, <2>3
    <3>2. seen.since = Swing - (n + 1)
      BY <2>2, <3>1
    <3>. QED  BY <1>3, <1>7, <3>1, <3>2 DEF UpTo
  <2>4. ASSUME ~sd'.attacked
        PROVE  seen'.since = Swing
    <3>1. seen.since = Swing \/ seen.since = Swing - 1
      <4>1. CASE 1 \in atk_timers
        BY <2>1, <2>2, <4>1
      <4>2. CASE 1 \notin atk_timers
        BY <1>4, <1>5, <2>2, <2>4, <4>2
      <4>. QED  BY <4>1, <4>2
    <3>. QED  BY <1>3, <1>7, <3>1 DEF UpTo
  <2>. QED  BY <2>3, <2>4
<1>15. SwingsApart'
  <2>1. ~seen'.early
    BY <1>7 DEF TurnsInv, SwingsApart
  <2>2. ASSUME Playing, sd'.attacked
        PROVE  atk_timers' # {}
    <3>1. 1 \notin atk_timers /\ sd.attacked
      BY <1>4, <1>5, <2>2
    <3>. QED  BY <1>1, <1>9, <2>2, <3>1 DEF TurnsInv, SwingsApart
  <2>. QED  BY <1>12, <2>1, <2>2 DEF SwingsApart
<1>16. GoneWaits' /\ LeavesOnce'
  BY <1>1, <1>7 DEF TurnsInv, GoneWaits, LeavesOnce
<1>. QED  BY <1>11, <1>13, <1>14, <1>15, <1>16 DEF TurnsInv

\* The beginning and the end of a session.
LEMMA SessionKeeps ==
  ASSUME TurnsInv,
         \/ accept \/ hangs_up \/ clif_accept2 \/ clif_parse_new
         \/ clif_parse_eof \/ \E k \in Packets : sends(k)
  PROVE  TurnsInv'
<1>1. /\ sd \in SdRecords /\ seen \in SeenRecords
      /\ atk_timers \subseteq 1..Swing /\ strays \subseteq atk_timers
  BY DEF TurnsInv, TurnsTypeOK, Records
<1>2. CASE \/ accept \/ hangs_up \/ clif_parse_new \/ \E k \in Packets : sends(k)
  <2>1. UNCHANGED <<sd, clock, atk_timers, strays, server_shutdown, seen>>
    BY <1>2 DEF accept, hangs_up, clif_parse_new, sends
  <2>2. /\ link' \in {"closed", "new", "in"} /\ eof' \in BOOLEAN
        /\ packet' \in Packets \cup {"none"}
        /\ link' = "in" => link = "in" /\ (eof => eof')
    BY <1>2 DEF accept, hangs_up, clif_parse_new, sends, TurnsInv, TurnsTypeOK
  <2>3. TurnsTypeOK' /\ Records'
    BY <2>1, <2>2 DEF TurnsInv, TurnsTypeOK, Records
  <2>4. Playing' => Playing
    BY <2>1, <2>2 DEF Playing
  <2>5. Counts' /\ TimedSwing' /\ SwingsApart' /\ LeavesOnce'
    BY <2>1, <2>4 DEF TurnsInv, Counts, TimedSwing, SwingsApart, LeavesOnce
  <2>6. GoneWaits'
    BY <2>1, <2>2 DEF TurnsInv, GoneWaits
  <2>. QED  BY <2>3, <2>5, <2>6 DEF TurnsInv
<1>3. CASE clif_accept2
  <2>1. CASE server_shutdown
    <3>1. /\ UNCHANGED <<link, sd, clock, atk_timers, strays, server_shutdown, seen>>
          /\ eof' = TRUE /\ packet' = "none"
      BY <1>3, <2>1 DEF clif_accept2
    <3>2. TurnsTypeOK' /\ Records'
      BY <3>1 DEF TurnsInv, TurnsTypeOK, Records
    <3>. QED  BY <3>1, <3>2 DEF TurnsInv, Counts, TimedSwing, SwingsApart,
                LeavesOnce, GoneWaits, Playing
  <2>2. CASE ~server_shutdown
    <3>1. /\ link' = "in" /\ eof' = eof /\ packet' = "none"
          /\ sd' = NewSd(sd.gm) /\ seen' = NewSeen /\ clock' = Second
          /\ strays' = atk_timers
          /\ UNCHANGED <<atk_timers, server_shutdown>>
      BY <1>3, <2>2 DEF clif_accept2, pc_starttimer
    <3>2. sd' \in SdRecords /\ ~sd'.attacked /\ sd'.time = 0 /\ sd'.chat_timer = 0
      BY <1>1, <3>1 DEF NewSd, SdRecords, MaxTime
    <3>3. /\ seen' \in SeenRecords /\ seen'.acts = 0 /\ seen'.said = 0
          /\ seen'.since = Swing /\ ~seen'.early /\ seen'.left = 0 /\ ~seen'.late
      BY <3>1, TurnsAssumption DEF NewSeen, SeenRecords
    <3>4. Second \in 1..Second
      BY TurnsAssumption
    <3>5. TurnsTypeOK' /\ Records'
      BY <1>1, <3>1, <3>2, <3>3, <3>4
      DEF TurnsInv, TurnsTypeOK, Records, SdRecords
    <3>6. strays' = atk_timers'
      BY <3>1
    <3>7. Counts' /\ TimedSwing' /\ SwingsApart' /\ LeavesOnce' /\ GoneWaits'
      BY <3>2, <3>3, <3>6
      DEF Counts, TimedSwing, SwingsApart, LeavesOnce, GoneWaits
    <3>. QED  BY <3>5, <3>7 DEF TurnsInv
  <2>. QED  BY <2>1, <2>2
<1>4. CASE clif_parse_eof
  <2>1. /\ link' = "closed" /\ eof' = FALSE /\ packet' = "none"
        /\ UNCHANGED <<sd, clock, atk_timers, strays, server_shutdown>>
        /\ seen' = IF link = "in" THEN LeftOnceMore(seen) ELSE seen
    BY <1>4 DEF clif_parse_eof
  <2>2. /\ seen' \in SeenRecords /\ seen'.early = seen.early
        /\ seen'.late = seen.late
        /\ seen'.left \in {seen.left, UpTo(seen.left + 1, 2)}
        /\ seen'.left # seen.left => link = "in"
    <3>1. UpTo(seen.left + 1, 2) \in 0..2
      BY <1>1 DEF UpTo, SeenRecords
    <3>2. LeftOnceMore(seen) \in SeenRecords
      BY <1>1, <3>1 DEF LeftOnceMore, SeenRecords
    <3>3. /\ LeftOnceMore(seen).early = seen.early
          /\ LeftOnceMore(seen).late = seen.late
          /\ LeftOnceMore(seen).left = UpTo(seen.left + 1, 2)
      BY <1>1 DEF LeftOnceMore, SeenRecords
    <3>. QED  BY <1>1, <2>1, <3>2, <3>3
  <2>3. TurnsTypeOK' /\ Records'
    BY <1>1, <2>1, <2>2 DEF TurnsInv, TurnsTypeOK, Records
  <2>4. seen'.left > 1 => server_shutdown
    <3>1. CASE seen'.left = seen.left
      BY <3>1 DEF TurnsInv, LeavesOnce
    <3>2. CASE seen'.left # seen.left
      <4>1. seen.left > 0 => server_shutdown
        BY <2>2, <3>2 DEF TurnsInv, GoneWaits
      <4>2. seen.left = 0 => UpTo(seen.left + 1, 2) = 1
        BY DEF UpTo
      <4>. QED  BY <1>1, <2>2, <3>2, <4>1, <4>2 DEF SeenRecords
    <3>. QED  BY <3>1, <3>2
  <2>5. ~Playing' /\ link' # "in"
    BY <2>1 DEF Playing
  <2>6. LeavesOnce' /\ GoneWaits'
    BY <2>1, <2>2, <2>4, <2>5 DEF TurnsInv, LeavesOnce, GoneWaits
  <2>7. Counts' /\ TimedSwing' /\ SwingsApart'
    BY <2>2, <2>5 DEF TurnsInv, Counts, TimedSwing, SwingsApart
  <2>. QED  BY <2>3, <2>6, <2>7 DEF TurnsInv
<1>. QED  BY <1>2, <1>3, <1>4


\* Nobody plays at first.
LEMMA TurnsInitHolds == TurnsInit => TurnsInv
<1>. SUFFICES ASSUME TurnsInit PROVE TurnsInv
  OBVIOUS
<1>1. Second \in 1..Second /\ 0 \in 0..Swing /\ Swing \in 0..Swing
  BY TurnsAssumption
<1>2. /\ sd \in SdRecords /\ ~sd.attacked /\ sd.time = 0 /\ sd.chat_timer = 0
      /\ sd.gm \in BOOLEAN
  BY DEF TurnsInit, NewSd, SdRecords, MaxTime
<1>3. /\ seen \in SeenRecords /\ ~seen.early /\ seen.left = 0 /\ ~seen.late
  BY <1>1 DEF TurnsInit, NewSeen, SeenRecords
<1>4. ~Playing /\ link = "closed" /\ strays = {} /\ atk_timers = {}
  BY DEF TurnsInit, Playing
<1>5. TurnsTypeOK /\ Records
  <2>1. /\ sd.time \in 0..MaxTime /\ sd.chat_timer \in 0..2
        /\ sd.gm \in BOOLEAN /\ sd.attacked \in BOOLEAN
    BY <1>2 DEF SdRecords
  <2>2. /\ link = "closed" /\ eof = FALSE /\ packet = "none" /\ clock = Second
        /\ server_shutdown = FALSE
    BY DEF TurnsInit
  <2>. QED  BY <1>1, <1>2, <1>3, <1>4, <2>1, <2>2 DEF TurnsTypeOK, Records
<1>. QED  BY <1>3, <1>4, <1>5
     DEF TurnsInv, Counts, TimedSwing, SwingsApart, GoneWaits, LeavesOnce

\* Every step of a player's turns keeps the invariant.
LEMMA TurnsStepHolds == TurnsInv /\ [TurnsNext]_turnsVars => TurnsInv'
<1>. SUFFICES ASSUME TurnsInv, [TurnsNext]_turnsVars PROVE TurnsInv'
  OBVIOUS
<1>1. CASE UNCHANGED turnsVars
  BY <1>1 DEF turnsVars, TurnsInv, TurnsTypeOK, Records, Counts, TimedSwing,
     SwingsApart, GoneWaits, LeavesOnce, Playing
<1>2. CASE TurnsNext
  BY <1>2, SessionKeeps, ParseKeeps, ResetKeeps, TickKeeps DEF TurnsNext
<1>. QED  BY <1>1, <1>2

\* A player acts at most three times and says one thing between two runs of
\* pc_timer, swings a second time only when the timer of the first has run out,
\* and leaves once: for any length of a second and of a swing.
THEOREM SpecTurnsSound == TurnsSpec => []TurnsSound
<1>1. TurnsInv => TurnsSound
  <2>. SUFFICES ASSUME TurnsInv PROVE TurnsSound
    OBVIOUS
  <2>1. PacedBySecond
    BY DEF TurnsInv, Counts, PacedBySecond
  <2>. QED  BY <2>1 DEF TurnsInv, TurnsSound
<1>. QED  BY <1>1, TurnsInitHolds, TurnsStepHolds, PTL DEF TurnsSpec

----------------------------------------------------------------------------
(* The mob that hunts.                                                     *)

HuntInv == HuntTypeOK /\ StrikesTheLiving /\ ThreatsLive

Hunters == [type : 0..2, onetime : BOOLEAN, exists : BOOLEAN,
            state : {"alive", "hit", "dead"}, target : Preys \cup {NoPrey}]
PreyRecords == [at : {"here", "elsewhere", "off"},
                dead : BOOLEAN, stealth : BOOLEAN]

\* Whom the scripts turn to is a player, or nobody if it was nobody.
LEMMA Turned ==
  ASSUME HuntInv, NEW t \in Preys \cup {NoPrey}
  PROVE  /\ mob_find_target(t) \subseteq Preys \cup {NoPrey}
         /\ calcHighestThreat(t) \subseteq Preys \cup {t}
         /\ Wherever(t) \subseteq Preys \cup {t}
         /\ \A p \in calcHighestThreat(t) :
              p = t \/ (prey[p].at = "here" /\ (prey[p].dead => p \in lingers))
BY DEF HuntInv, HuntTypeOK, mob_find_target, calcHighestThreat, Wherever,
       bll_getobjects, InArea, ThreatsLive

\* A player with something changed.
LEMMA PreyIs ==
  ASSUME NEW q \in PreyRecords, NEW b \in BOOLEAN
  PROVE  /\ [q EXCEPT !.stealth = b] \in PreyRecords
         /\ [q EXCEPT !.stealth = b].dead = q.dead
         /\ [q EXCEPT !.dead = b] \in PreyRecords
         /\ [q EXCEPT !.dead = b].dead = b
BY DEF PreyRecords

\* Players come, go, hide, die, rise and provoke.
LEMMA PreyKeeps ==
  ASSUME HuntInv, NEW p \in Preys,
         \/ hides(p) \/ dies(p) \/ raised(p) \/ provokes(p)
         \/ \E where \in {"here", "elsewhere", "off"} : goes(p, where)
  PROVE  HuntInv'
<1>1. prey \in [Preys -> PreyRecords] /\ prey[p] \in PreyRecords
  BY DEF HuntInv, HuntTypeOK, PreyRecords
<1>2. CASE hides(p) \/ \E where \in {"here", "elsewhere", "off"} : goes(p, where)
  <2>1. PICK new \in PreyRecords : Prey(p, new) /\ new.dead = prey[p].dead
    <3>1. CASE hides(p)
      <4>. DEFINE s == ~prey[p].stealth
      <4>1. s \in BOOLEAN
        OBVIOUS
      <4>2. Prey(p, [prey[p] EXCEPT !.stealth = s])
        BY <3>1 DEF hides
      <4>. HIDE DEF s
      <4>. QED  BY <1>1, <4>1, <4>2, PreyIs
    <3>2. ASSUME NEW where \in {"here", "elsewhere", "off"}, goes(p, where)
          PROVE  \E new \in PreyRecords : Prey(p, new) /\ new.dead = prey[p].dead
      <4>. DEFINE s == prey[p].stealth /\ where # "off"
      <4>1. s \in BOOLEAN
        OBVIOUS
      <4>2. Prey(p, [prey[p] EXCEPT !.at = where, !.stealth = s])
        BY <3>2 DEF goes
      <4>. HIDE DEF s
      <4>3. prey[p] \in PreyRecords
        BY <1>1
      <4>4. /\ [prey[p] EXCEPT !.at = where, !.stealth = s] \in PreyRecords
            /\ [prey[p] EXCEPT !.at = where, !.stealth = s].dead = prey[p].dead
        BY <3>2, <4>1, <4>3 DEF PreyRecords
      <4>. QED  BY <4>2, <4>4
    <3>. QED  BY <1>2, <3>1, <3>2
  <2>2. UNCHANGED <<hunter, threats, lingers, wrong>>
    BY <1>2 DEF hides, goes
  <2>3. /\ prey' \in [Preys -> PreyRecords]
        /\ \A q \in Preys : prey'[q].dead = prey[q].dead
    BY <1>1, <2>1 DEF Prey
  <2>. QED  BY <2>2, <2>3 DEF HuntInv, HuntTypeOK, StrikesTheLiving,
            ThreatsLive, PreyRecords
<1>3. CASE dies(p) \/ raised(p)
  <2>1. PICK new \in PreyRecords : Prey(p, new) /\ (new.dead => dies(p))
    <3>1. CASE dies(p)
      <4>1. Prey(p, [prey[p] EXCEPT !.dead = TRUE])
        BY <3>1 DEF dies
      <4>. QED  BY <1>1, <3>1, <4>1, PreyIs
    <3>2. CASE raised(p)
      <4>1. Prey(p, [prey[p] EXCEPT !.dead = FALSE])
        BY <3>2 DEF raised
      <4>. QED  BY <1>1, <4>1, PreyIs
    <3>. QED  BY <1>3, <3>1, <3>2
  <2>2. /\ prey' \in [Preys -> PreyRecords]
        /\ \A q \in Preys \ {p} : prey'[q] = prey[q]
        /\ prey'[p] = new
    BY <1>1, <2>1 DEF Prey
  <2>3. /\ UNCHANGED <<hunter, wrong>>
        /\ threats' \subseteq threats
        /\ lingers' \subseteq lingers /\ lingers \ {p} \subseteq lingers'
        /\ dies(p) => p \notin threats'
    BY <1>3 DEF dies, raised, ThreatsAfter
  <2>4. ThreatsLive'
    BY <2>1, <2>2, <2>3 DEF HuntInv, HuntTypeOK, ThreatsLive
  <2>. QED  BY <2>2, <2>3, <2>4 DEF HuntInv, HuntTypeOK, StrikesTheLiving,
            PreyRecords
<1>4. CASE provokes(p)
  BY <1>4 DEF provokes, HuntInv, HuntTypeOK, StrikesTheLiving, ThreatsLive
<1>. QED  BY <1>2, <1>3, <1>4

\* What is left of the mob between its turns.
LEMMA MobKeeps ==
  ASSUME HuntInv, \/ kill_mob \/ onetime_freed \/ onetime_spawned \/ mob_rises
  PROVE  HuntInv'
<1>1. hunter \in Hunters
  BY DEF HuntInv, HuntTypeOK, Hunters
<1>2. hunter' \in Hunters
  BY <1>1 DEF kill_mob, onetime_freed, onetime_spawned, mob_rises, Hunter,
     mob_respawn_getstats, Hunters
<1>3. UNCHANGED <<prey, lingers, wrong>> /\ threats' \subseteq threats
  BY DEF kill_mob, onetime_freed, onetime_spawned, mob_rises
<1>. QED  BY <1>2, <1>3 DEF HuntInv, HuntTypeOK, Hunters, StrikesTheLiving,
          ThreatsLive

\* A turn of the mob.
LEMMA TurnKeeps ==
  ASSUME HuntInv, mob_moves \/ mob_strikes
  PROVE  HuntInv'
<1>1. hunter \in Hunters
  BY DEF HuntInv, HuntTypeOK, Hunters
<1>2. UNCHANGED <<threats, prey, lingers>>
  BY DEF mob_moves, mob_strikes
<1>3. \A h : h \in Hunters => [h EXCEPT !.target = NoPrey] \in Hunters
  BY DEF Hunters
<1>4. \A n \in Preys, s \in {"alive", "hit"} :
        [hunter EXCEPT !.target = n, !.state = s] \in Hunters
  BY <1>1 DEF Hunters
<1>5. CASE mob_moves
  <2>1. PICK found \in mob_find_target(hunter.target) :
          \E c \in calcHighestThreat(IF Astray(found) THEN NoPrey ELSE found) :
             \/ c = NoPrey /\ Hunter([hunter EXCEPT !.target = c])
             \/ /\ c # NoPrey
                /\ \E n \in Wherever(c), s \in {"alive", "hit"} :
                     Hunter([hunter EXCEPT !.target = n, !.state = s])
    BY <1>5 DEF mob_moves
  <2>0. PICK c \in calcHighestThreat(IF Astray(found) THEN NoPrey ELSE found) :
          \/ c = NoPrey /\ Hunter([hunter EXCEPT !.target = c])
          \/ /\ c # NoPrey
             /\ \E n \in Wherever(c), s \in {"alive", "hit"} :
                  Hunter([hunter EXCEPT !.target = n, !.state = s])
    BY <2>1
  <2>2. found \in Preys \cup {NoPrey}
    BY <1>1, Turned DEF Hunters
  <2>3. c \in Preys \cup {NoPrey}
    BY <2>2, Turned
  <2>4. hunter' \in Hunters
    <3>1. CASE c = NoPrey /\ Hunter([hunter EXCEPT !.target = c])
      BY <1>1, <1>3, <3>1 DEF Hunter
    <3>2. CASE c # NoPrey /\ \E n \in Wherever(c), s \in {"alive", "hit"} :
                 Hunter([hunter EXCEPT !.target = n, !.state = s])
      <4>1. Wherever(c) \subseteq Preys
        BY <2>3, <3>2, Turned
      <4>2. PICK n \in Wherever(c), s \in {"alive", "hit"} :
              Hunter([hunter EXCEPT !.target = n, !.state = s])
        BY <3>2
      <4>3. [hunter EXCEPT !.target = n, !.state = s] \in Hunters
        BY <1>4, <4>1
      <4>. QED  BY <4>2, <4>3 DEF Hunter
    <3>. QED  BY <2>0, <3>1, <3>2
  <2>5. wrong' = wrong
    BY <1>5 DEF mob_moves
  <2>. QED  BY <1>2, <2>4, <2>5 DEF HuntInv, HuntTypeOK, Hunters,
            StrikesTheLiving, ThreatsLive
<1>6. CASE mob_strikes
  <2>1. hunter' \in Hunters /\ wrong' = FALSE
    <3>1. CASE AstrayInFight(hunter.target)
      BY <1>1, <1>6, <3>1 DEF mob_strikes, Hunter, GivesUp, Hunters, HuntInv,
         StrikesTheLiving, HuntTypeOK
    <3>2. CASE ~AstrayInFight(hunter.target)
      <4>1. /\ hunter.target \in Preys /\ prey[hunter.target].at = "here"
            /\ ~prey[hunter.target].dead
        BY <1>1, <3>2 DEF AstrayInFight, Astray, Hunters
      <4>2. PICK p \in calcHighestThreat(hunter.target) :
              \/ mob_attack(p)
              \/ /\ \E n \in Wherever(p) :
                      Hunter([hunter EXCEPT !.target = n, !.state = "alive"])
                 /\ UNCHANGED wrong
        BY <1>6, <3>2 DEF mob_strikes
      <4>3. /\ p \in Preys /\ prey[p].at = "here"
            /\ prey[p].dead => p \in lingers
        BY <4>1, Turned
      <4>4. wrong = FALSE
        BY DEF HuntInv, HuntTypeOK, StrikesTheLiving
      <4>5. CASE mob_attack(p)
        <5>1. [hunter EXCEPT !.target = p] \in Hunters
          BY <1>1, <4>3 DEF Hunters
        <5>2. prey[p].stealth \in BOOLEAN
          BY <4>3 DEF HuntInv, HuntTypeOK
        <5>3. CASE prey[p].stealth
          BY <1>1, <1>3, <4>4, <4>5, <5>3 DEF mob_attack, Hunter
        <5>4. CASE ~prey[p].stealth
          BY <4>3, <4>4, <4>5, <5>1, <5>4 DEF mob_attack, Hunter
        <5>. QED  BY <5>3, <5>4
      <4>6. CASE /\ \E n \in Wherever(p) :
                      Hunter([hunter EXCEPT !.target = n, !.state = "alive"])
                 /\ UNCHANGED wrong
        <5>1. Wherever(p) \subseteq Preys
          BY <4>3, Turned
        <5>. QED  BY <1>4, <4>4, <4>6, <5>1 DEF Hunter
      <4>. QED  BY <4>2, <4>5, <4>6
    <3>. QED  BY <3>1, <3>2
  <2>. QED  BY <1>2, <2>1 DEF HuntInv, HuntTypeOK, Hunters,
            StrikesTheLiving, ThreatsLive
<1>. QED  BY <1>5, <1>6

\* The mob hunts nobody at first.
LEMMA HuntInitHolds == HuntInit => HuntInv
<1>. SUFFICES ASSUME HuntInit PROVE HuntInv
  OBVIOUS
<1>1. hunter \in Hunters
  BY DEF HuntInit, Hunters
<1>2. prey \in [Preys -> PreyRecords]
  BY DEF HuntInit, PreyRecords
<1>3. threats = {} /\ lingers = {} /\ wrong = FALSE
  BY DEF HuntInit
<1>. QED  BY <1>1, <1>2, <1>3 DEF HuntInv, HuntTypeOK, StrikesTheLiving,
          ThreatsLive, Hunters, PreyRecords

\* Every step of the hunt keeps the invariant.
LEMMA HuntStepHolds == HuntInv /\ [HuntNext]_huntVars => HuntInv'
<1>. SUFFICES ASSUME HuntInv, [HuntNext]_huntVars PROVE HuntInv'
  OBVIOUS
<1>1. CASE UNCHANGED huntVars
  BY <1>1 DEF huntVars, HuntInv, HuntTypeOK, StrikesTheLiving, ThreatsLive
<1>2. CASE HuntNext
  BY <1>2, PreyKeeps, MobKeeps, TurnKeeps DEF HuntNext
<1>. QED  BY <1>1, <1>2

\* A mob strikes only those who are on its map and alive, but for who struck it
\* by a spell after death: for any number of players.
THEOREM SpecStrikesTheLiving == HuntSpec => [](StrikesTheLiving /\ ThreatsLive)
<1>1. HuntInv => StrikesTheLiving /\ ThreatsLive
  BY DEF HuntInv
<1>. QED  BY <1>1, HuntInitHolds, HuntStepHolds, PTL DEF HuntSpec

----------------------------------------------------------------------------

(* Registries.                                                             *)

\* Of numbers there is a least one.
LEMMA LeastIsThere ==
  ASSUME NEW S, S \subseteq Nat, S # {}
  PROVE  \E x \in S : \A y \in S : x <= y
<1>1. PICK x \in S : \A y \in S : ~(<<y, x>> \in OpToRel(<, Nat))
  BY NatLessThanWellFounded, WFMin
<1>2. ASSUME NEW y \in S PROVE x <= y
  <2>1. x \in Nat /\ y \in Nat
    OBVIOUS
  <2>2. ~(y < x)
    BY <1>1, <2>1 DEF OpToRel
  <2>. QED  BY <2>1, <2>2
<1>. QED  BY <1>2

\* No name has two slots.
Distinct(t) ==
  \A i, j \in DOMAIN t : t[i].str = t[j].str /\ t[i].str # NoName => i = j

\* The first slot of a name is one of its slots, with none before it.
LEMMA FirstSlotIs ==
  ASSUME NEW t \in Seq(Slot), NEW n, Has(t, n)
  PROVE  /\ FirstSlot(t, n) \in 1..Len(t)
         /\ t[FirstSlot(t, n)].str = n
<1>1. DOMAIN t = 1..Len(t)
  OBVIOUS
<1>. DEFINE S == {i \in DOMAIN t : t[i].str = n}
<1>2. S \subseteq Nat /\ S # {}
  BY <1>1 DEF Has
<1>3. PICK i \in S : \A j \in S : i <= j
  BY <1>2, LeastIsThere
<1>4. i \in DOMAIN t /\ t[i].str = n /\ \A j \in 1..i - 1 : t[j].str # n
  <2>1. i \in 1..Len(t) /\ t[i].str = n /\ Len(t) \in Nat
    BY <1>1, <1>3
  <2>2. ASSUME NEW j \in 1..i - 1, t[j].str = n PROVE FALSE
    <3>1. j \in 1..Len(t) /\ ~(i <= j)
      BY <2>1
    <3>2. j \in S
      BY <1>1, <2>2, <3>1
    <3>. QED  BY <1>3, <3>1, <3>2
  <2>. QED  BY <1>1, <2>1, <2>2
<1>5. \E k \in DOMAIN t : t[k].str = n /\ \A j \in 1..k - 1 : t[j].str # n
  BY <1>4
<1>. HIDE DEF S
<1>. QED  BY <1>1, <1>5 DEF FirstSlot

\* In a table without doubles that is the slot.
LEMMA OnlySlot ==
  ASSUME NEW t \in Seq(Slot), Distinct(t), NEW i \in DOMAIN t,
         t[i].str # NoName
  PROVE  readglobalreg(t, t[i].str) = t[i].val
<1>1. Has(t, t[i].str)
  BY DEF Has
<1>2. FirstSlot(t, t[i].str) = i
  BY <1>1, FirstSlotIs DEF Distinct
<1>. QED  BY <1>1, <1>2 DEF readglobalreg

\* What setting a name does to the table.
LEMMA SlotSetIs ==
  ASSUME NEW t \in Seq(Slot), NEW n \in Names, NEW v \in Values \cup {0}
  PROVE  LET i == SlotFor(t, n)
             u == SlotSet(t, n, v)
             s == IF v = 0 /\ Has(t, n) THEN Unset
                  ELSE [str |-> n, val |-> v]
         IN  /\ i \in 1..Len(t) + 1
             /\ i \in 1..Len(t) => t[i].str \in {n, NoName}
             /\ Has(t, n) => i \in 1..Len(t) /\ t[i].str = n
             /\ u \in Seq(Slot)
             /\ Len(u) = IF i = Len(t) + 1 THEN Len(t) + 1 ELSE Len(t)
             /\ u[i] = s
             /\ \A j \in 1..Len(t) : j # i => u[j] = t[j]
             /\ Has(t, NoName) => i \in 1..Len(t)
<1>. DEFINE i == SlotFor(t, n)
            u == SlotSet(t, n, v)
            s == IF v = 0 /\ Has(t, n) THEN Unset ELSE [str |-> n, val |-> v]
<1>1. s \in Slot /\ Len(t) \in Nat /\ DOMAIN t = 1..Len(t)
  BY DEF Slot, Unset
<1>2. /\ i \in 1..Len(t) + 1
      /\ i \in 1..Len(t) => t[i].str \in {n, NoName}
      /\ Has(t, n) => i \in 1..Len(t) /\ t[i].str = n
      /\ Has(t, NoName) => i \in 1..Len(t)
  <2>1. CASE Has(t, n)
    BY <1>1, <2>1, FirstSlotIs DEF SlotFor
  <2>2. CASE ~Has(t, n) /\ Has(t, NoName)
    BY <1>1, <2>2, FirstSlotIs DEF SlotFor
  <2>3. CASE ~Has(t, n) /\ ~Has(t, NoName)
    BY <1>1, <2>3 DEF SlotFor
  <2>. QED  BY <2>1, <2>2, <2>3
<1>3. u = IF i \in DOMAIN t THEN [t EXCEPT ![i] = s] ELSE Append(t, s)
  BY DEF SlotSet
<1>4. /\ u \in Seq(Slot)
      /\ Len(u) = IF i = Len(t) + 1 THEN Len(t) + 1 ELSE Len(t)
      /\ u[i] = s
      /\ \A j \in 1..Len(t) : j # i => u[j] = t[j]
  <2>. HIDE DEF i, u, s
  <2>1. CASE i \in DOMAIN t
    <3>1. u = [t EXCEPT ![i] = s] /\ i \in 1..Len(t) /\ i # Len(t) + 1
      BY <1>1, <1>3, <2>1
    <3>2. u \in [1..Len(t) -> Slot]
      BY <1>1, <3>1
    <3>3. u \in Seq(Slot) /\ Len(u) = Len(t)
      BY <1>1, <3>2
    <3>. QED  BY <1>1, <3>1, <3>3
  <2>2. CASE i \notin DOMAIN t
    <3>1. i = Len(t) + 1
      BY <1>1, <1>2, <2>2
    <3>2. u = Append(t, s)
      BY <1>3, <2>2
    <3>. QED  BY <1>1, <3>1, <3>2
  <2>. QED  BY <2>1, <2>2
<1>. QED  BY <1>2, <1>4

\* A set name reads as it was set, the others as before, and no name gets a
\* second slot.
LEMMA SetReads ==
  ASSUME NEW t \in Seq(Slot), NEW n \in Names, NEW v \in Values \cup {0},
         Distinct(t)
  PROVE  /\ Distinct(SlotSet(t, n, v))
         /\ readglobalreg(SlotSet(t, n, v), n) = v
         /\ \A m \in Names \ {n} :
              readglobalreg(SlotSet(t, n, v), m) = readglobalreg(t, m)
<1>. DEFINE i == SlotFor(t, n)
            u == SlotSet(t, n, v)
            s == IF v = 0 /\ Has(t, n) THEN Unset ELSE [str |-> n, val |-> v]
<1>1. /\ i \in 1..Len(t) + 1 /\ Len(t) \in Nat
      /\ i \in 1..Len(t) => t[i].str \in {n, NoName}
      /\ Has(t, n) => i \in 1..Len(t) /\ t[i].str = n
      /\ u \in Seq(Slot)
      /\ Len(u) = IF i = Len(t) + 1 THEN Len(t) + 1 ELSE Len(t)
      /\ u[i] = s
      /\ \A j \in 1..Len(t) : j # i => u[j] = t[j]
  BY SlotSetIs
<1>2. /\ DOMAIN t = 1..Len(t) /\ DOMAIN u = 1..Len(u)
      /\ i \in DOMAIN u
      /\ \A j \in DOMAIN u : j # i => j \in DOMAIN t
      /\ \A j \in DOMAIN t : j \in DOMAIN u
      /\ n # NoName
  <2>. HIDE DEF i, u, s
  <2>. QED  BY <1>1, RegistryAssumption
<1>3. s.str \in {n, NoName} /\ (s.str = n => s.val = v)
      /\ (s.str = NoName => v = 0 /\ Has(t, n))
  BY <1>2 DEF Unset
<1>. HIDE DEF i, u, s
<1>4. \A j \in DOMAIN t : t[j].str = n => j = i
  BY <1>1, <1>2 DEF Has, Distinct
<1>5. Distinct(u)
  <2>1. ASSUME NEW j \in DOMAIN u, NEW k \in DOMAIN u, u[j].str = u[k].str,
               u[j].str # NoName
        PROVE  j = k
    <3>1. CASE j # i /\ k # i
      BY <1>1, <1>2, <2>1, <3>1 DEF Distinct
    <3>2. CASE j = i /\ k # i
      BY <1>1, <1>2, <1>3, <1>4, <2>1, <3>2
    <3>3. CASE j # i /\ k = i
      BY <1>1, <1>2, <1>3, <1>4, <2>1, <3>3
    <3>. QED  BY <3>1, <3>2, <3>3
  <2>. QED  BY <2>1 DEF Distinct
<1>6. readglobalreg(u, n) = v
  <2>1. CASE s.str = n
    BY <1>1, <1>2, <1>3, <1>5, <2>1, OnlySlot
  <2>2. CASE s.str = NoName
    <3>1. ASSUME NEW j \in DOMAIN u, u[j].str = n PROVE FALSE
      BY <1>1, <1>2, <1>4, <2>2, <3>1
    <3>. QED  BY <1>3, <2>2, <3>1 DEF readglobalreg, Has
  <2>. QED  BY <1>3, <2>1, <2>2
<1>7. ASSUME NEW m \in Names \ {n}
      PROVE  readglobalreg(u, m) = readglobalreg(t, m)
  <2>1. m # NoName /\ m # n
    BY RegistryAssumption
  <2>2. ASSUME NEW j \in DOMAIN t, t[j].str = m
        PROVE  readglobalreg(u, m) = readglobalreg(t, m)
    <3>1. j # i
      BY <1>1, <1>2, <2>1, <2>2
    <3>2. u[j] = t[j] /\ j \in DOMAIN u
      BY <1>1, <1>2, <3>1
    <3>. QED  BY <1>1, <1>5, <2>1, <2>2, <3>2, OnlySlot
  <2>3. CASE ~Has(t, m)
    <3>1. ASSUME NEW j \in DOMAIN u, u[j].str = m PROVE FALSE
      BY <1>1, <1>2, <1>3, <2>1, <2>3, <3>1 DEF Has
    <3>. QED  BY <2>3, <3>1 DEF readglobalreg, Has
  <2>. QED  BY <2>2, <2>3 DEF Has
<1>. QED  BY <1>5, <1>6, <1>7 DEF u

----------------------------------------------------------------------------
(* What a write between its two queries relies on.                         *)

\* Ids are given in turn, one to a row.
IdsApart ==
  /\ IsFiniteSet(rows)
  /\ \A r \in rows : r.id <= issued
  /\ \A r, q \in rows : r.id = q.id => r = q

RowNamesApart ==
  mishaps = {} => \A r, q \in rows : r.str = q.str => r = q

\* The registry of a record has no rows, that of a map has one holder, and its
\* rows have a place.
ByKind ==
  /\ owned_by = "record" => rows = {} /\ \A c \in Copies : saving[c] = NoSave
  /\ owned_by = "map" =>
       /\ stale = {}
       /\ \A r \in rows : r.pos > 0
       /\ \A c \in Copies : saving[c] # NoSave => saving[c].slot > 0

\* What the first query has found is still so when nobody has written since.
FoundStands ==
  \A c \in Holders \ stale :
    saving[c] # NoSave => saving[c].save_id \in FoundIds(saving[c].str)

\* A copy that nobody has written past agrees with the rows, but for the name
\* that is being written.
TablesAgree ==
  mishaps = {} /\ owned_by # "record" =>
    \A c \in Holders \ stale :
      /\ \A n \in Names :
           saving[c] = NoSave \/ saving[c].str # n =>
             StoredValues(n) = {readglobalreg(registry[c], n)}
      /\ saving[c] # NoSave =>
           readglobalreg(registry[c], saving[c].str) = saving[c].val

\* Until a reload the row of a map has the place of its name, unless the name
\* was freed and the row is about to be deleted.
PlacesStand ==
  owned_by = "map" /\ ~reloaded =>
    \A r \in rows :
      \/ /\ r.pos \in DOMAIN registry[Owner]
         /\ registry[Owner][r.pos].str = r.str
      \/ /\ saving[Owner] # NoSave
         /\ saving[Owner].str = r.str /\ saving[Owner].val = 0

SlotStands ==
  owned_by = "map" /\ saving[Owner] # NoSave /\ saving[Owner].val # 0 =>
    /\ saving[Owner].slot \in DOMAIN registry[Owner]
    /\ registry[Owner][saving[Owner].slot].str = saving[Owner].str

\* The row of the game that was found has the name still, if it is there.
IdStands ==
  owned_by = "game" =>
    \A c \in Copies :
      saving[c] # NoSave /\ saving[c].save_id # 0 =>
        /\ saving[c].save_id <= issued
        /\ \A r \in rows : r.id = saving[c].save_id => r.str = saving[c].str

RegInv ==
  /\ RegistryTypeOK
  /\ IdsApart /\ RowNamesApart /\ ByKind
  /\ FoundStands /\ TablesAgree /\ PlacesStand /\ SlotStands /\ IdStands
  /\ NamesApart /\ AstrayByKind

\* A write between its queries has a name.
LEMMA PendingIs ==
  ASSUME RegistryTypeOK, NEW c \in Copies, saving[c] # NoSave
  PROVE  /\ saving[c].str \in Names /\ saving[c].val \in Values \cup {0}
         /\ saving[c].slot \in 0..TableSize /\ saving[c].save_id \in Nat
BY DEF RegistryTypeOK, Saves

\* Whoever has loaded the registry is one of the copies.
LEMMA HoldersAreCopies == Holders \subseteq Copies
BY RegistryAssumption DEF Holders

\* The invariant holds at the start.
LEMMA RegInitHolds == RegistryInit => RegInv
<1>. SUFFICES ASSUME RegistryInit PROVE RegInv
  OBVIOUS
<1>1. /\ owned_by \in {"account", "game", "map", "record"}
      /\ rows = {} /\ issued = 0 /\ stale = {} /\ reloaded = FALSE /\ mishaps = {}
      /\ \A c \in Copies : saving[c] = NoSave /\ registry[c] = FreshTable
  BY DEF RegistryInit
<1>2. /\ FreshTable \in Seq(Slot) /\ Len(FreshTable) <= TableSize
      /\ Fixed => Len(FreshTable) = TableSize
      /\ \A i \in DOMAIN FreshTable : FreshTable[i] = Unset
  <2>1. Unset \in Slot
    BY DEF Unset, Slot
  <2>2. CASE Fixed
    <3>1. FreshTable = [i \in 1..TableSize |-> Unset] /\ TableSize \in Nat
      BY <2>2, RegistryAssumption DEF FreshTable
    <3>2. FreshTable \in Seq(Slot) /\ Len(FreshTable) = TableSize
      BY <2>1, <3>1
    <3>. QED  BY <3>1, <3>2, RegistryAssumption
  <2>3. CASE ~Fixed
    BY <2>3, RegistryAssumption DEF FreshTable
  <2>. QED  BY <2>2, <2>3
<1>3. RegistryTypeOK
  <2>1. registry \in [Copies -> Seq(Slot)] /\ saving \in [Copies -> Saves]
    BY <1>2 DEF RegistryInit, Saves
  <2>2. issued \in 0..MaxInserts
    BY <1>1, RegistryAssumption
  <2>3. reloaded \in BOOLEAN
    BY <1>1
  <2>4. \A c \in Copies :
          Len(registry[c]) <= TableSize /\ (Fixed => Len(registry[c]) = TableSize)
    BY <1>1, <1>2
  <2>5. rows \subseteq Row /\ stale \subseteq Copies
        /\ mishaps \subseteq {"clobbered", "missed", "doubled"}
    BY <1>1
  <2>. QED  BY <1>1, <2>1, <2>2, <2>3, <2>4, <2>5 DEF RegistryTypeOK
<1>4. IdsApart /\ RowNamesApart /\ ByKind /\ SlotStands /\ IdStands
  BY <1>1, FS_EmptySet, RegistryAssumption
     DEF IdsApart, RowNamesApart, ByKind, SlotStands, IdStands
<1>5. FoundStands /\ PlacesStand /\ AstrayByKind
  BY <1>1, HoldersAreCopies DEF FoundStands, PlacesStand, AstrayByKind
<1>6. \A n \in Names : ~Has(FreshTable, n)
  BY <1>2, RegistryAssumption DEF Has, Unset
<1>7. TablesAgree
  BY <1>1, <1>6, HoldersAreCopies
     DEF TablesAgree, StoredValues, RowsOf, readglobalreg
<1>8. NamesApart
  BY <1>1, <1>2 DEF NamesApart, Unset
<1>. QED  BY <1>3, <1>4, <1>5, <1>7, <1>8 DEF RegInv

\* A set keeps the tables within their size.
LEMMA SetTypes ==
  ASSUME RegInv, NEW c \in Copies, NEW n \in Names, NEW v \in Values \cup {0},
         setglobalreg(c, n, v)
  PROVE  RegistryTypeOK'
<1>. DEFINE t == registry[c]
            u == SlotSet(t, n, v)
            i == SlotFor(t, n)
<1>1. /\ t \in Seq(Slot) /\ Len(t) <= TableSize
      /\ Fixed => Len(t) = TableSize
      /\ Len(t) \in Nat /\ TableSize \in Nat
  BY RegistryAssumption DEF RegInv, RegistryTypeOK
<1>2. /\ i \in 1..Len(t) + 1 /\ i <= TableSize
      /\ u \in Seq(Slot)
      /\ Len(u) = IF i = Len(t) + 1 THEN Len(t) + 1 ELSE Len(t)
      /\ registry' = [registry EXCEPT ![c] = u]
  <2>1. i <= TableSize /\ registry' = [registry EXCEPT ![c] = u]
    BY DEF setglobalreg
  <2>2. t \in Seq(Slot)
    BY <1>1
  <2>. HIDE DEF t
  <2>. QED  BY <2>1, <2>2, SlotSetIs
<1>3. u \in Seq(Slot) /\ Len(u) <= TableSize /\ (Fixed => Len(u) = TableSize)
  <2>. HIDE DEF t, u, i
  <2>. QED  BY <1>1, <1>2
<1>4. Fixed' = Fixed /\ owned_by' = owned_by
  BY DEF setglobalreg, Fixed
<1>5. registry' \in [Copies -> Seq(Slot)]
      /\ \A d \in Copies : registry'[d] = IF d = c THEN u ELSE registry[d]
  <2>. HIDE DEF u
  <2>. QED  BY <1>2, <1>3 DEF RegInv, RegistryTypeOK
<1>6. \A d \in Copies :
        Len(registry'[d]) <= TableSize /\ (Fixed' => Len(registry'[d]) = TableSize)
  <2>. HIDE DEF u
  <2>. QED  BY <1>3, <1>4, <1>5 DEF RegInv, RegistryTypeOK
<1>7. saving' \in [Copies -> Saves]
  <2>1. \A id \in FoundIds(n) : id \in Nat
    BY RegistryAssumption DEF FoundIds, RowsOf, KeyOf, RegInv, RegistryTypeOK, Row
  <2>2. Position(i) \in 0..TableSize
    BY <1>1, <1>2 DEF Position
  <2>3. CASE owned_by = "record"
    BY <2>3 DEF setglobalreg, RegInv, RegistryTypeOK
  <2>4. CASE owned_by # "record"
    <3>1. PICK id \in FoundIds(n) :
            saving' = [saving EXCEPT ![c] = [str |-> n, val |-> v,
                         slot |-> Position(i), save_id |-> id]]
      BY <2>4 DEF setglobalreg
    <3>2. [str |-> n, val |-> v, slot |-> Position(i), save_id |-> id] \in Saves
      BY <2>1, <2>2, <3>1 DEF Saves
    <3>. QED  BY <3>1, <3>2 DEF RegInv, RegistryTypeOK
  <2>. QED  BY <2>3, <2>4
<1>8. UNCHANGED <<owned_by, rows, issued, stale, reloaded, mishaps>>
  BY DEF setglobalreg
<1>. QED  BY <1>5, <1>6, <1>7, <1>8 DEF RegInv, RegistryTypeOK

\* A script sets a name: its slot is written, and the first query asked.
LEMMA SetKeeps ==
  ASSUME RegInv, NEW c \in Holders, NEW n \in Names, NEW v \in Values \cup {0},
         setglobalreg(c, n, v)
  PROVE  RegInv'
<1>. DEFINE t == registry[c]
            u == SlotSet(t, n, v)
            i == SlotFor(t, n)
<1>1. c \in Copies /\ Holders \subseteq Copies
  BY HoldersAreCopies
<1>2. /\ UNCHANGED <<owned_by, rows, issued, stale, reloaded, mishaps>>
      /\ saving[c] = NoSave /\ i <= TableSize
      /\ registry' = [registry EXCEPT ![c] = u]
  BY DEF setglobalreg
<1>3. RegistryTypeOK'
  BY <1>1, SetTypes
<1>4. /\ t \in Seq(Slot) /\ Len(t) \in Nat
      /\ \A d \in Copies : registry'[d] = IF d = c THEN u ELSE registry[d]
  <2>. HIDE DEF u
  <2>. QED  BY <1>1, <1>2 DEF RegInv, RegistryTypeOK
<1>5. \A d \in Copies \ {c} : saving'[d] = saving[d]
  BY <1>1 DEF setglobalreg, RegInv, RegistryTypeOK
<1>6. CASE owned_by = "record"
  <2>1. UNCHANGED saving
    BY <1>6 DEF setglobalreg
  <2>2. rows = {} /\ (\A d \in Copies : saving[d] = NoSave) /\ mishaps = {}
    BY <1>6 DEF RegInv, ByKind, AstrayByKind
  <2>3. (IdsApart /\ RowNamesApart /\ ByKind /\ AstrayByKind)'
    BY <1>2, <2>1 DEF RegInv, IdsApart, RowNamesApart, ByKind, AstrayByKind
  <2>4. (FoundStands /\ TablesAgree /\ PlacesStand /\ SlotStands /\ IdStands)'
    BY <1>1, <1>2, <1>6, <2>1, <2>2
       DEF FoundStands, TablesAgree, PlacesStand, SlotStands, IdStands, Holders,
           Shared
  <2>5. NamesApart'
    <3>1. \A d \in Copies : Distinct(registry[d])
      BY <2>2 DEF RegInv, NamesApart, Distinct
    <3>2. Distinct(u)
      BY <1>1, <1>4, <3>1, SetReads
    <3>. QED  BY <1>4, <3>1, <3>2 DEF NamesApart, Distinct
  <2>. QED  BY <1>3, <2>3, <2>4, <2>5 DEF RegInv
<1>7. CASE owned_by # "record"
  <2>1. PICK id \in FoundIds(n) :
          saving' = [saving EXCEPT ![c] = [str |-> n, val |-> v,
                       slot |-> Position(i), save_id |-> id]]
    BY <1>7 DEF setglobalreg
  <2>2. /\ saving'[c] # NoSave
        /\ saving'[c].str = n /\ saving'[c].val = v
        /\ saving'[c].slot = Position(i) /\ saving'[c].save_id = id
    BY <1>1, <2>1, RegistryAssumption DEF NoSave, RegInv, RegistryTypeOK
  <2>10. t \in Seq(Slot)
    BY <1>4
  <2>. HIDE DEF t
  <2>3. /\ i \in 1..Len(t) + 1
        /\ i \in 1..Len(t) => t[i].str \in {n, NoName}
        /\ Has(t, n) => i \in 1..Len(t) /\ t[i].str = n
        /\ u \in Seq(Slot)
        /\ Len(u) = IF i = Len(t) + 1 THEN Len(t) + 1 ELSE Len(t)
        /\ u[i] = IF v = 0 /\ Has(t, n) THEN Unset ELSE [str |-> n, val |-> v]
        /\ \A j \in 1..Len(t) : j # i => u[j] = t[j]
    BY <2>10, SlotSetIs
  <2>. HIDE DEF u, i
  <2>4. (IdsApart /\ RowNamesApart /\ AstrayByKind)'
    BY <1>2 DEF RegInv, IdsApart, RowNamesApart, AstrayByKind
  <2>5. ByKind'
    BY <1>1, <1>2, <1>5, <1>7, <2>2, <2>3, <1>4 DEF RegInv, ByKind, Position
  <2>6. FoundStands'
    <3>1. \A m : FoundIds(m)' = FoundIds(m)
      BY <1>2 DEF FoundIds, RowsOf, KeyOf
    <3>2. Holders' = Holders
      BY <1>2 DEF Holders, Shared
    <3>. QED  BY <1>1, <1>2, <1>5, <2>1, <2>2, <3>1, <3>2 DEF RegInv, FoundStands
  <2>7. (TablesAgree /\ NamesApart)'
    <3>1. SUFFICES ASSUME mishaps = {} PROVE (TablesAgree /\ NamesApart)'
      BY <1>2 DEF TablesAgree, NamesApart
    <3>2. \A d \in Copies : Distinct(registry[d])
      BY <3>1 DEF RegInv, NamesApart, Distinct
    <3>3. /\ Distinct(u) /\ readglobalreg(u, n) = v
          /\ \A m \in Names \ {n} : readglobalreg(u, m) = readglobalreg(t, m)
      BY <1>1, <1>4, <3>2, SetReads DEF u, t
    <3>4. NamesApart'
      BY <1>4, <3>2, <3>3 DEF NamesApart, Distinct
    <3>5. Holders' = Holders /\ (\A m : StoredValues(m)' = StoredValues(m))
      BY <1>2 DEF Holders, Shared, StoredValues, RowsOf
    <3>6. ASSUME NEW d \in Holders \ stale
          PROVE  /\ \A m \in Names :
                      saving'[d] = NoSave \/ saving'[d].str # m =>
                        StoredValues(m) = {readglobalreg(registry'[d], m)}
                 /\ saving'[d] # NoSave =>
                      readglobalreg(registry'[d], saving'[d].str) = saving'[d].val
      <4>1. CASE d = c
        <5>1. \A m \in Names : StoredValues(m) = {readglobalreg(t, m)}
          BY <1>2, <1>7, <3>1, <3>6, <4>1 DEF RegInv, TablesAgree, t
        <5>. QED  BY <1>1, <1>4, <2>2, <3>3, <4>1, <5>1
      <4>2. CASE d # c
        BY <1>1, <1>4, <1>5, <1>7, <3>1, <3>6, <4>2 DEF RegInv, TablesAgree
      <4>. QED  BY <4>1, <4>2
    <3>7. TablesAgree'
      BY <1>2, <3>5, <3>6 DEF TablesAgree
    <3>. QED  BY <3>4, <3>7
  <2>8. (PlacesStand /\ SlotStands)'
    <3>1. SUFFICES ASSUME owned_by = "map" PROVE (PlacesStand /\ SlotStands)'
      BY <1>2 DEF PlacesStand, SlotStands
    <3>2. c = Owner /\ Position(i) = i
      BY <3>1 DEF Holders, Shared, Position
    <3>3. /\ registry'[Owner] = u /\ DOMAIN u = 1..Len(u) /\ DOMAIN t = 1..Len(t)
          /\ i \in DOMAIN u /\ \A j \in DOMAIN t : j \in DOMAIN u
      BY <1>1, <1>4, <2>3, <3>2
    <3>4. SlotStands'
      <4>1. v # 0 => u[i].str = n
        BY <2>3
      <4>. QED  BY <2>2, <3>2, <3>3, <4>1 DEF SlotStands
    <3>5. PlacesStand'
      <4>1. SUFFICES ASSUME ~reloaded, NEW r \in rows
            PROVE  \/ r.pos \in DOMAIN u /\ u[r.pos].str = r.str
                   \/ r.str = n /\ v = 0
        BY <1>2, <2>2, <3>2, <3>3 DEF PlacesStand
      <4>2. r.pos \in DOMAIN t /\ t[r.pos].str = r.str
        BY <1>2, <3>1, <3>2, <4>1 DEF RegInv, PlacesStand, t
      <4>3. r.str # NoName
        BY <4>1, RegistryAssumption DEF RegInv, RegistryTypeOK, Row
      <4>4. CASE r.pos # i
        BY <2>3, <3>3, <4>2, <4>4
      <4>5. CASE r.pos = i
        <5>1. r.str = n
          BY <2>3, <3>3, <4>2, <4>3, <4>5
        <5>2. v # 0 => u[i].str = n
          BY <2>3
        <5>. QED  BY <3>3, <4>5, <5>1, <5>2
      <4>. QED  BY <4>4, <4>5
    <3>. QED  BY <3>4, <3>5
  <2>9. IdStands'
    <3>1. SUFFICES ASSUME owned_by = "game" PROVE IdStands'
      BY <1>2 DEF IdStands
    <3>2. id # 0 => id <= issued /\ \A r \in rows : r.id = id => r.str = n
      <4>1. id # 0 => \E r \in RowsOf(n) : id = r.id
        BY <3>1, <2>1 DEF FoundIds, KeyOf
      <4>. QED  BY <4>1 DEF RegInv, IdsApart, RowsOf
    <3>. QED  BY <1>1, <1>2, <1>5, <2>2, <3>1, <3>2 DEF RegInv, IdStands
  <2>. QED  BY <1>3, <2>4, <2>5, <2>6, <2>7, <2>8, <2>9 DEF RegInv
<1>. QED  BY <1>6, <1>7

----------------------------------------------------------------------------
(* The second query.                                                       *)

\* Whoever writes is the only holder that is not written past.
LEMMA OthersStale ==
  ASSUME RegInv, NEW c \in Holders, WrittenPast(c), UNCHANGED owned_by
  PROVE  /\ stale' \subseteq Copies
         /\ Holders' = Holders
         /\ \A d \in Holders' \ stale' : d = c /\ c \notin stale
         /\ owned_by = "map" => stale' = {}
BY HoldersAreCopies DEF WrittenPast, Holders, Shared, RegInv, RegistryTypeOK, ByKind

\* The facts that concern the table only of a copy that has finished its write.
LEMMA WriteEnds ==
  ASSUME RegInv, NEW c \in Holders, WrittenPast(c),
         UNCHANGED <<owned_by, registry, reloaded>>,
         saving' = [saving EXCEPT ![c] = NoSave],
         mishaps \subseteq mishaps'
  PROVE  /\ saving' \in [Copies -> Saves]
         /\ \A d \in Copies : saving'[d] = IF d = c THEN NoSave ELSE saving[d]
         /\ FoundStands' /\ SlotStands' /\ NamesApart'
<1>1. Holders' = Holders /\ (\A d \in Holders' \ stale' : d = c)
      /\ c \in Copies
  BY OthersStale, HoldersAreCopies
<1>2. /\ saving' \in [Copies -> Saves]
      /\ \A d \in Copies : saving'[d] = IF d = c THEN NoSave ELSE saving[d]
  BY <1>1 DEF RegInv, RegistryTypeOK, Saves
<1>3. FoundStands'
  BY <1>1, <1>2 DEF FoundStands
<1>4. SlotStands'
  BY <1>2, RegistryAssumption DEF RegInv, SlotStands
<1>5. NamesApart'
  BY DEF RegInv, NamesApart
<1>. QED  BY <1>2, <1>3, <1>4, <1>5

\* The row of a freed name is deleted.
LEMMA DeleteKeeps ==
  ASSUME RegInv, NEW c \in Holders, DeleteRow(c)
  PROVE  RegInv'
<1>. DEFINE n == saving[c].str
<1>1. c \in Copies /\ saving[c] # NoSave /\ saving[c].val = 0
  BY HoldersAreCopies DEF DeleteRow
<1>2. n \in Names
  BY <1>1, PendingIs DEF RegInv
<1>3. /\ UNCHANGED <<owned_by, registry, issued, reloaded, mishaps>>
      /\ WrittenPast(c) /\ saving' = [saving EXCEPT ![c] = NoSave]
      /\ rows' = IF saving[c].save_id = 0 THEN rows ELSE rows \ RowsOf(n)
  BY DEF DeleteRow
<1>4. /\ saving' \in [Copies -> Saves]
      /\ \A d \in Copies : saving'[d] = IF d = c THEN NoSave ELSE saving[d]
      /\ FoundStands' /\ SlotStands' /\ NamesApart'
  BY <1>3, WriteEnds
<1>5. /\ stale' \subseteq Copies /\ Holders' = Holders
      /\ \A d \in Holders' \ stale' : d = c /\ c \notin stale
      /\ owned_by = "map" => stale' = {}
  BY <1>3, OthersStale
<1>6. rows' \subseteq rows
  BY <1>3
<1>7. RegistryTypeOK'
  BY <1>3, <1>4, <1>5, <1>6 DEF RegInv, RegistryTypeOK, Fixed
<1>8. (IdsApart /\ RowNamesApart /\ ByKind /\ IdStands /\ AstrayByKind)'
  <2>1. IsFiniteSet(rows')
    BY <1>6, FS_Subset DEF RegInv, IdsApart
  <2>2. (IdsApart /\ RowNamesApart /\ AstrayByKind)'
    BY <1>3, <1>6, <2>1 DEF RegInv, IdsApart, RowNamesApart, AstrayByKind
  <2>3. ByKind'
    BY <1>3, <1>4, <1>5, <1>6 DEF RegInv, ByKind
  <2>4. IdStands'
    BY <1>3, <1>4, <1>6 DEF RegInv, IdStands
  <2>. QED  BY <2>2, <2>3, <2>4
<1>9. ASSUME c \notin stale, owned_by # "record" PROVE rows' = rows \ RowsOf(n)
  <2>1. saving[c].save_id \in FoundIds(n)
    BY <1>1, <1>9 DEF RegInv, FoundStands
  <2>2. ASSUME NEW r \in RowsOf(n), saving[c].save_id = 0 PROVE FALSE
    <3>1. PICK q \in RowsOf(n) : KeyOf(q) = 0
      BY <2>1, <2>2 DEF FoundIds
    <3>2. q \in Row /\ (owned_by = "map" => q.pos > 0)
      BY <3>1 DEF RegInv, RegistryTypeOK, ByKind, RowsOf
    <3>. QED  BY <3>1, <3>2 DEF KeyOf, Row
  <2>. QED  BY <1>3, <2>2
<1>10. PlacesStand'
  <2>1. SUFFICES ASSUME owned_by = "map", ~reloaded, NEW r \in rows'
        PROVE  r.pos \in DOMAIN registry[Owner] /\ registry[Owner][r.pos].str = r.str
    BY <1>3 DEF PlacesStand
  <2>2. c = Owner /\ c \notin stale
    BY <2>1 DEF Holders, Shared, RegInv, ByKind
  <2>3. r \in rows /\ r.str # n
    BY <1>9, <2>1, <2>2 DEF RowsOf
  <2>. QED  BY <2>1, <2>2, <2>3 DEF RegInv, PlacesStand
<1>11. TablesAgree'
  <2>1. SUFFICES ASSUME mishaps = {}, owned_by # "record", NEW d \in Holders' \ stale',
                        NEW m \in Names
        PROVE  StoredValues(m)' = {readglobalreg(registry[d], m)}
    <3>1. \A d \in Holders' \ stale' : saving'[d] = NoSave
      BY <1>1, <1>4, <1>5
    <3>. QED  BY <1>3, <2>1, <3>1 DEF TablesAgree
  <2>2. d = c /\ c \notin stale /\ rows' = rows \ RowsOf(n)
    BY <1>5, <1>9, <2>1
  <2>3. CASE m = n
    <3>1. RowsOf(m)' = {}
      BY <2>2, <2>3 DEF RowsOf
    <3>2. readglobalreg(registry[c], m) = 0
      BY <1>1, <2>1, <2>2, <2>3 DEF RegInv, TablesAgree
    <3>. QED  BY <2>2, <3>1, <3>2 DEF StoredValues
  <2>4. CASE m # n
    <3>1. RowsOf(m)' = RowsOf(m)
      BY <2>2, <2>4 DEF RowsOf
    <3>2. StoredValues(m)' = StoredValues(m)
      BY <3>1 DEF StoredValues
    <3>. QED  BY <2>1, <2>2, <2>4, <3>2 DEF RegInv, TablesAgree
  <2>. QED  BY <2>3, <2>4
<1>. QED  BY <1>4, <1>7, <1>8, <1>10, <1>11 DEF RegInv

\* A row is inserted.
LEMMA InsertKeeps ==
  ASSUME RegInv, NEW c \in Holders, InsertRow(c)
  PROVE  RegInv'
<1>. DEFINE n == saving[c].str
            v == saving[c].val
            new == [id |-> issued + 1, str |-> n, val |-> v, pos |-> saving[c].slot]
<1>1. c \in Copies /\ saving[c] # NoSave /\ v # 0 /\ saving[c].save_id = 0
  BY HoldersAreCopies DEF InsertRow
<1>2. n \in Names /\ v \in Values /\ saving[c].slot \in 0..TableSize
  BY <1>1, PendingIs DEF RegInv
<1>3. /\ UNCHANGED <<owned_by, registry, reloaded>>
      /\ WrittenPast(c) /\ saving' = [saving EXCEPT ![c] = NoSave]
      /\ rows' = rows \cup {new} /\ issued' = issued + 1 /\ issued < MaxInserts
      /\ mishaps' = mishaps \cup {"doubled" : r \in RowsOf(n)}
  BY DEF InsertRow
<1>4. /\ saving' \in [Copies -> Saves]
      /\ \A d \in Copies : saving'[d] = IF d = c THEN NoSave ELSE saving[d]
      /\ FoundStands' /\ SlotStands' /\ NamesApart'
  BY <1>3, WriteEnds
<1>5. /\ stale' \subseteq Copies /\ Holders' = Holders
      /\ \A d \in Holders' \ stale' : d = c /\ c \notin stale
      /\ owned_by = "map" => stale' = {}
  BY <1>3, OthersStale
<1>6. /\ issued \in Nat /\ issued' \in 0..MaxInserts /\ new \in Row
      /\ new.id = issued + 1 /\ new.str = n /\ new.val = v
      /\ new.pos = saving[c].slot
  BY <1>2, <1>3, RegistryAssumption DEF RegInv, RegistryTypeOK, Row
<1>. HIDE DEF new
<1>7. RegistryTypeOK'
  BY <1>3, <1>4, <1>5, <1>6 DEF RegInv, RegistryTypeOK, Fixed
<1>8. owned_by # "record"
  BY <1>1 DEF RegInv, ByKind
<1>9. ASSUME c \notin stale PROVE RowsOf(n) = {}
  <2>1. saving[c].save_id \in FoundIds(n)
    BY <1>1, <1>9 DEF RegInv, FoundStands
  <2>2. ASSUME NEW r \in RowsOf(n) PROVE FALSE
    <3>1. PICK q \in RowsOf(n) : KeyOf(q) = 0
      BY <1>1, <2>1, <2>2 DEF FoundIds
    <3>2. q \in Row /\ (owned_by = "map" => q.pos > 0)
      BY <3>1 DEF RegInv, RegistryTypeOK, ByKind, RowsOf
    <3>. QED  BY <3>1, <3>2 DEF KeyOf, Row
  <2>. QED  BY <2>2
<1>10. (IdsApart /\ RowNamesApart /\ ByKind /\ IdStands /\ AstrayByKind)'
  <2>1. IdsApart'
    <3>1. IsFiniteSet(rows')
      BY <1>3, FS_AddElement DEF RegInv, IdsApart
    <3>2. \A r \in rows : r.id \in Nat
      BY DEF RegInv, RegistryTypeOK, Row
    <3>. QED  BY <1>3, <1>6, <3>1, <3>2 DEF RegInv, IdsApart
  <2>2. RowNamesApart'
    BY <1>3, <1>6 DEF RegInv, RowNamesApart, RowsOf
  <2>3. ByKind'
    BY <1>1, <1>3, <1>4, <1>5, <1>6, <1>8 DEF RegInv, ByKind
  <2>4. IdStands'
    <3>1. \A d \in Copies : saving[d] # NoSave => saving[d].save_id \in Nat
      BY PendingIs DEF RegInv
    <3>. QED  BY <1>3, <1>4, <1>6, <3>1 DEF RegInv, IdStands
  <2>5. AstrayByKind'
    <3>1. owned_by = "map" => mishaps' = mishaps
      BY <1>3, <1>9 DEF RegInv, ByKind
    <3>. QED  BY <1>3, <1>8, <3>1 DEF RegInv, AstrayByKind
  <2>. QED  BY <2>1, <2>2, <2>3, <2>4, <2>5
<1>11. PlacesStand'
  <2>1. SUFFICES ASSUME owned_by = "map", ~reloaded, NEW r \in rows'
        PROVE  r.pos \in DOMAIN registry[Owner] /\ registry[Owner][r.pos].str = r.str
    BY <1>3 DEF PlacesStand
  <2>2. c = Owner
    BY <2>1 DEF Holders, Shared
  <2>. QED  BY <1>1, <1>3, <1>6, <2>1, <2>2 DEF RegInv, PlacesStand, SlotStands
<1>12. TablesAgree'
  <2>1. SUFFICES ASSUME mishaps' = {}, NEW d \in Holders' \ stale', NEW m \in Names
        PROVE  StoredValues(m)' = {readglobalreg(registry[d], m)}
    <3>1. \A d \in Holders' \ stale' : saving'[d] = NoSave
      BY <1>1, <1>4, <1>5
    <3>. QED  BY <1>3, <2>1, <3>1 DEF TablesAgree
  <2>2. d = c /\ c \notin stale /\ RowsOf(n) = {} /\ mishaps = {}
    BY <1>3, <1>5, <1>9, <2>1
  <2>3. CASE m = n
    <3>1. \A r : r \in RowsOf(m)' <=> r = new
      BY <1>3, <1>6, <2>2, <2>3 DEF RowsOf
    <3>2. readglobalreg(registry[c], m) = v
      BY <1>1, <1>8, <2>2, <2>3 DEF RegInv, TablesAgree
    <3>3. StoredValues(m)' = {v}
      BY <1>6, <3>1 DEF StoredValues
    <3>. QED  BY <2>2, <3>2, <3>3
  <2>4. CASE m # n
    <3>1. RowsOf(m)' = RowsOf(m)
      BY <1>3, <1>6, <2>4 DEF RowsOf
    <3>2. StoredValues(m)' = StoredValues(m)
      BY <3>1 DEF StoredValues
    <3>. QED  BY <1>8, <2>2, <2>4, <3>2 DEF RegInv, TablesAgree
  <2>. QED  BY <2>3, <2>4
<1>. QED  BY <1>4, <1>7, <1>10, <1>11, <1>12 DEF RegInv

\* A row that is updated keeps its id and its position.
Rewritten(r, n, v) == [r EXCEPT !.str = n, !.val = v]

\* It gets the name and the value.
LEMMA RewrittenIs ==
  ASSUME NEW r \in Row, NEW n \in Names, NEW v \in Values
  PROVE  /\ Rewritten(r, n, v) \in Row
         /\ Rewritten(r, n, v).id = r.id /\ Rewritten(r, n, v).pos = r.pos
         /\ Rewritten(r, n, v).str = n /\ Rewritten(r, n, v).val = v
BY DEF Rewritten, Row

\* The row that has the key is updated, whosever it is by now.
LEMMA UpdateKeeps ==
  ASSUME RegInv, NEW c \in Holders, UpdateRow(c)
  PROVE  RegInv'
<1>1. c \in Copies /\ saving[c] # NoSave /\ saving[c].val # 0
      /\ saving[c].save_id # 0 /\ owned_by # "record"
  BY HoldersAreCopies DEF UpdateRow, RegInv, ByKind
<1>2. PICK n \in Names, v \in Values, k \in Nat :
        n = saving[c].str /\ v = saving[c].val /\ k = saving[c].save_id
  BY <1>1, PendingIs DEF RegInv
<1>3. PICK hit \in SUBSET rows :
        /\ \A r \in rows : r \in hit <=> KeyOf(r) = k
        /\ rows' = (rows \ hit) \cup {Rewritten(r, n, v) : r \in hit}
        /\ mishaps' = mishaps
             \cup {"clobbered" : r \in {q \in hit : q.str # n}}
             \cup {"missed" : x \in {y \in {c} : hit = {}}}
  <2>. DEFINE h == {r \in rows : KeyOf(r) = saving[c].save_id}
  <2>1. /\ rows' = (rows \ h)
                     \cup {Rewritten(r, saving[c].str, saving[c].val) : r \in h}
        /\ mishaps' = mishaps
             \cup {"clobbered" : r \in {q \in h : q.str # saving[c].str}}
             \cup {"missed" : x \in {y \in {c} : h = {}}}
    BY DEF UpdateRow, Rewritten
  <2>2. h \in SUBSET rows /\ \A r \in rows : r \in h <=> KeyOf(r) = k
    BY <1>2
  <2>. HIDE DEF h
  <2>. QED  BY <1>2, <2>1, <2>2
<1>4. /\ UNCHANGED <<owned_by, registry, issued, reloaded>>
      /\ WrittenPast(c) /\ saving' = [saving EXCEPT ![c] = NoSave]
  BY DEF UpdateRow
<1>5. /\ saving' \in [Copies -> Saves]
      /\ \A d \in Copies : saving'[d] = IF d = c THEN NoSave ELSE saving[d]
      /\ FoundStands' /\ SlotStands' /\ NamesApart'
  BY <1>3, <1>4, WriteEnds
<1>6. /\ stale' \subseteq Copies /\ Holders' = Holders
      /\ \A d \in Holders' \ stale' : d = c /\ c \notin stale
      /\ owned_by = "map" => stale' = {}
  BY <1>4, OthersStale
<1>7. /\ rows \subseteq Row
      /\ \A r \in hit : /\ Rewritten(r, n, v) \in Row
                        /\ Rewritten(r, n, v).id = r.id
                        /\ Rewritten(r, n, v).pos = r.pos
                        /\ Rewritten(r, n, v).str = n
                        /\ Rewritten(r, n, v).val = v
  BY <1>3, RewrittenIs DEF RegInv, RegistryTypeOK
<1>8. \A x \in rows' : \E r \in rows :
        /\ x.id = r.id /\ x.pos = r.pos /\ x \in Row
        /\ \/ r \notin hit /\ x = r
           \/ r \in hit /\ x = Rewritten(r, n, v)
  BY <1>3, <1>7
<1>9. RegistryTypeOK'
  <2>1. rows' \subseteq Row
    BY <1>8
  <2>2. mishaps' \subseteq {"clobbered", "missed", "doubled"}
    BY <1>3 DEF RegInv, RegistryTypeOK
  <2>. QED  BY <1>4, <1>5, <1>6, <2>1, <2>2 DEF RegInv, RegistryTypeOK, Fixed
<1>10. /\ "clobbered" \notin mishaps' => \A r \in hit : r.str = n
       /\ "missed" \notin mishaps' => hit # {}
       /\ mishaps' = {} => mishaps = {}
  <2>1. mishaps' = {} => mishaps = {}
    BY <1>3
  <2>2. ASSUME NEW r \in hit, r.str # n PROVE "clobbered" \in mishaps'
    BY <1>3, <2>2
  <2>3. ASSUME hit = {} PROVE "missed" \in mishaps'
    BY <1>3, <2>3
  <2>. QED  BY <2>1, <2>2, <2>3
\* Where and how a write may go astray.
<1>11. owned_by = "map" => hit # {}
  <2>1. SUFFICES ASSUME owned_by = "map" PROVE hit # {}
    OBVIOUS
  <2>2. k \in FoundIds(n) /\ k # 0
    BY <1>1, <1>2, <2>1 DEF RegInv, FoundStands, ByKind
  <2>. QED  BY <1>3, <2>1, <2>2 DEF FoundIds, RowsOf
<1>12. owned_by = "map" /\ ~reloaded =>
         \A r \in hit : r.str = n /\ r.pos \in DOMAIN registry[Owner]
                        /\ registry[Owner][r.pos].str = n
  <2>1. SUFFICES ASSUME owned_by = "map", ~reloaded, NEW r \in hit
        PROVE  r.str = n /\ r.pos \in DOMAIN registry[Owner]
               /\ registry[Owner][r.pos].str = n
    OBVIOUS
  <2>2. c = Owner /\ k \in FoundIds(n) /\ k # 0
    BY <1>1, <1>2, <2>1 DEF RegInv, FoundStands, ByKind, Holders, Shared
  <2>3. PICK q \in rows : q.str = n /\ KeyOf(q) = k
    <3>1. \E q \in RowsOf(n) : KeyOf(q) = k
      BY <2>1, <2>2 DEF FoundIds
    <3>. QED  BY <3>1 DEF RowsOf
  <2>4. q.pos = k /\ r.pos = k /\ r \in rows
    BY <1>3, <2>1, <2>3 DEF KeyOf
  <2>5. \A p \in rows : p.pos \in DOMAIN registry[Owner]
                        /\ registry[Owner][p.pos].str = p.str
    BY <1>1, <2>1, <2>2 DEF RegInv, PlacesStand
  <2>. QED  BY <2>3, <2>4, <2>5
<1>13. owned_by = "game" => \A r \in hit : r.str = n /\ r.id = k
  BY <1>1, <1>2, <1>3 DEF RegInv, IdStands, KeyOf
<1>14. AstrayByKind'
  <2>1. CASE owned_by = "map"
    <3>1. "missed" \notin mishaps' /\ mishaps' \subseteq {"clobbered"}
      BY <1>3, <1>11, <2>1 DEF RegInv, AstrayByKind
    <3>2. ~reloaded => mishaps' = {}
      BY <1>3, <1>11, <1>12, <2>1 DEF RegInv, AstrayByKind
    <3>. QED  BY <1>4, <2>1, <3>1, <3>2 DEF AstrayByKind
  <2>2. CASE owned_by = "game"
    BY <1>3, <1>4, <1>13, <2>2 DEF RegInv, AstrayByKind
  <2>. QED  BY <1>1, <1>4, <2>1, <2>2 DEF AstrayByKind
<1>15. IdsApart'
  <2>1. IsFiniteSet(rows')
    <3>1. IsFiniteSet(hit) /\ IsFiniteSet(rows \ hit)
      BY FS_Subset DEF RegInv, IdsApart
    <3>2. IsFiniteSet({Rewritten(r, n, v) : r \in hit})
      <4>. DEFINE T == {Rewritten(r, n, v) : r \in hit}
                  f == [r \in hit |-> Rewritten(r, n, v)]
      <4>1. f \in Surjection(hit, T)
        BY DEF Surjection
      <4>. QED  BY <3>1, <4>1, FS_Surjection
    <3>. QED  BY <1>3, <3>1, <3>2, FS_Union
  <2>2. \A r \in rows' : r.id <= issued'
    BY <1>4, <1>8 DEF RegInv, IdsApart
  <2>3. \A x, y \in rows' : x.id = y.id => x = y
    BY <1>8 DEF RegInv, IdsApart
  <2>. QED  BY <2>1, <2>2, <2>3 DEF IdsApart
<1>16. RowNamesApart'
  <2>1. SUFFICES ASSUME mishaps' = {}, NEW x \in rows', NEW y \in rows',
                        x.str = y.str
        PROVE  x = y
    BY DEF RowNamesApart
  <2>2. mishaps = {} /\ \A r \in hit : r.str = n
    BY <1>10, <2>1
  <2>. QED  BY <1>7, <1>8, <2>1, <2>2 DEF RegInv, RowNamesApart
<1>17. ByKind'
  <2>1. owned_by = "map" => \A r \in rows' : r.pos > 0
    BY <1>8 DEF RegInv, ByKind
  <2>2. owned_by = "map" => \A d \in Copies : saving'[d] # NoSave => saving'[d].slot > 0
    BY <1>5 DEF RegInv, ByKind
  <2>. QED  BY <1>1, <1>4, <1>6, <2>1, <2>2 DEF ByKind
<1>18. IdStands'
  <2>1. SUFFICES ASSUME owned_by = "game", NEW d \in Copies, d # c,
                        saving[d] # NoSave, saving[d].save_id # 0
        PROVE  /\ saving[d].save_id <= issued
               /\ \A x \in rows' : x.id = saving[d].save_id => x.str = saving[d].str
    BY <1>4, <1>5 DEF IdStands
  <2>2. /\ saving[d].save_id <= issued
        /\ \A r \in rows : r.id = saving[d].save_id => r.str = saving[d].str
    BY <2>1 DEF RegInv, IdStands
  <2>. QED  BY <1>7, <1>8, <1>13, <2>1, <2>2
<1>19. PlacesStand'
  <2>1. SUFFICES ASSUME owned_by = "map", ~reloaded, NEW x \in rows'
        PROVE  x.pos \in DOMAIN registry[Owner] /\ registry[Owner][x.pos].str = x.str
    BY <1>4 DEF PlacesStand
  <2>2. c = Owner
    BY <2>1 DEF Holders, Shared
  <2>3. PICK r \in rows : /\ x.pos = r.pos
                          /\ \/ r \notin hit /\ x = r
                             \/ r \in hit /\ x = Rewritten(r, n, v)
    BY <1>8
  <2>4. CASE r \notin hit /\ x = r
    BY <1>1, <2>1, <2>2, <2>4 DEF RegInv, PlacesStand
  <2>5. CASE r \in hit /\ x = Rewritten(r, n, v)
    BY <1>7, <1>12, <2>1, <2>3, <2>5
  <2>. QED  BY <2>3, <2>4, <2>5
<1>20. TablesAgree'
  <2>1. SUFFICES ASSUME mishaps' = {}, NEW d \in Holders' \ stale', NEW m \in Names
        PROVE  StoredValues(m)' = {readglobalreg(registry[d], m)}
    <3>1. \A d \in Holders' \ stale' : saving'[d] = NoSave
      BY <1>1, <1>5, <1>6
    <3>. QED  BY <1>4, <2>1, <3>1 DEF TablesAgree
  <2>2. d = c /\ c \notin stale /\ mishaps = {} /\ hit # {}
        /\ \A r \in hit : r.str = n
    BY <1>6, <1>10, <2>1
  <2>3. PICK r0 \in hit : \A r \in rows : r.str = n <=> r = r0
    BY <2>2 DEF RegInv, RowNamesApart
  <2>4. rows' = (rows \ {r0}) \cup {Rewritten(r0, n, v)}
    <3>1. hit = {r0}
      BY <2>2, <2>3
    <3>. QED  BY <1>3, <3>1
  <2>5. CASE m = n
    <3>1. \A x : x \in RowsOf(m)' <=> x = Rewritten(r0, n, v)
      BY <1>7, <2>3, <2>4, <2>5 DEF RowsOf
    <3>2. readglobalreg(registry[c], m) = v
      BY <1>1, <1>2, <2>2, <2>5 DEF RegInv, TablesAgree
    <3>3. StoredValues(m)' = {v}
      BY <1>7, <3>1 DEF StoredValues
    <3>. QED  BY <2>2, <3>2, <3>3
  <2>6. CASE m # n
    <3>1. RowsOf(m)' = RowsOf(m)
      BY <1>7, <2>2, <2>4, <2>6 DEF RowsOf
    <3>2. StoredValues(m)' = StoredValues(m)
      BY <3>1 DEF StoredValues
    <3>. QED  BY <1>1, <1>2, <2>2, <2>6, <3>2 DEF RegInv, TablesAgree
  <2>. QED  BY <2>5, <2>6
<1>. QED  BY <1>5, <1>9, <1>14, <1>15, <1>16, <1>17, <1>18, <1>19, <1>20 DEF RegInv

----------------------------------------------------------------------------
(* The rows are read.                                                      *)

\* The table that the rows become: as many slots of it as there are rows are
\* theirs, those of a table of a fixed size that are left over are free.
LEMMA SlotsOfIs ==
  ASSUME NEW k \in 0..TableSize, NEW s \in [1..k -> Row]
  PROVE  /\ SlotsOf(s) \in Seq(Slot)
         /\ Len(SlotsOf(s)) = IF Fixed THEN TableSize ELSE k
         /\ \A i \in 1..k : /\ i \in DOMAIN SlotsOf(s)
                           /\ SlotsOf(s)[i].str = s[i].str
                           /\ SlotsOf(s)[i].val = s[i].val
         /\ \A i \in DOMAIN SlotsOf(s) : i \in 1..k \/ SlotsOf(s)[i] = Unset
<1>. DEFINE t == [i \in DOMAIN s |-> [str |-> s[i].str, val |-> s[i].val]]
            f == [i \in 1..TableSize |-> IF i \in DOMAIN t THEN t[i] ELSE Unset]
<1>1. TableSize \in Nat /\ k \in Nat /\ k <= TableSize
  BY RegistryAssumption
<1>2. DOMAIN s = 1..k /\ Unset \in Slot
  BY DEF Unset, Slot
<1>3. \A i \in 1..k : t[i] \in Slot /\ t[i].str = s[i].str /\ t[i].val = s[i].val
  BY <1>2 DEF Row, Slot
<1>4. SlotsOf(s) = IF Fixed THEN f ELSE t
  BY DEF SlotsOf
<1>5. t \in [1..k -> Slot]
  BY <1>2, <1>3
<1>6. DOMAIN t = 1..k
  BY <1>2
<1>. HIDE DEF t
<1>7. CASE Fixed
  <2>1. f \in [1..TableSize -> Slot]
    BY <1>2, <1>5, <1>6
  <2>2. \A i \in 1..k : i \in 1..TableSize /\ f[i] = t[i]
    BY <1>1, <1>6
  <2>3. \A i \in 1..TableSize : i \in 1..k \/ f[i] = Unset
    BY <1>6
  <2>. HIDE DEF f
  <2>4. f \in Seq(Slot) /\ Len(f) = TableSize /\ DOMAIN f = 1..TableSize
    BY <1>1, <2>1
  <2>. QED  BY <1>3, <1>4, <1>7, <2>2, <2>3, <2>4
<1>8. CASE ~Fixed
  <2>1. t \in Seq(Slot) /\ Len(t) = k
    BY <1>1, <1>5
  <2>. QED  BY <1>3, <1>4, <1>6, <1>8, <2>1
<1>. QED  BY <1>7, <1>8

\* Of all rows each is somewhere in the order in which they are given.
LEMMA AllAreLoaded ==
  ASSUME NEW R, IsFiniteSet(R), NEW s \in [1..Cardinality(R) -> R],
         \A i, j \in 1..Cardinality(R) : s[i] = s[j] => i = j
  PROVE  \A r \in R : \E i \in 1..Cardinality(R) : s[i] = r
<1>1. Cardinality(R) \in Nat
  BY FS_CardinalityType
<1>. DEFINE D == 1..Cardinality(R)
<1>2. IsFiniteSet(D) /\ Cardinality(D) = Cardinality(R)
  BY <1>1, FS_Interval
<1>3. s \in Injection(D, R)
  BY DEF Injection, IsInjective
<1>. HIDE DEF D
<1>4. s \in Surjection(D, R)
  BY <1>2, <1>3, FS_Injection
<1>. QED  BY <1>4 DEF Surjection, D

\* A copy is loaded anew.
LEMMA LoadKeeps ==
  ASSUME RegInv, NEW c \in Holders, loadregistry(c)
  PROVE  RegInv'
<1>1. c \in Copies /\ saving[c] = NoSave /\ owned_by # "record"
  BY HoldersAreCopies DEF loadregistry
<1>2. PICK n \in Nat : n = Cardinality(rows)
  BY FS_CardinalityType DEF RegInv, IdsApart
<1>. DEFINE k == IF n <= TableSize THEN n ELSE TableSize
<1>3. k \in 0..TableSize
  BY RegistryAssumption
<1>18. PICK s \in Loaded(k) : registry' = [registry EXCEPT ![c] = SlotsOf(s)]
  BY <1>2 DEF loadregistry
<1>. HIDE DEF k
<1>4. /\ s \in [1..k -> rows]
      /\ \A i, j \in 1..k : s[i] = s[j] => i = j
  BY DEF Loaded
<1>5. rows \subseteq Row
  BY DEF RegInv, RegistryTypeOK
<1>6. PICK t : /\ t = SlotsOf(s) /\ t \in Seq(Slot)
               /\ Len(t) = IF Fixed THEN TableSize ELSE k
               /\ \A i \in 1..k : /\ i \in DOMAIN t /\ t[i].str = s[i].str
                                 /\ t[i].val = s[i].val
               /\ \A i \in DOMAIN t : i \in 1..k \/ t[i] = Unset
  <2>. DEFINE u == SlotsOf(s)
  <2>1. /\ u \in Seq(Slot)
        /\ Len(u) = IF Fixed THEN TableSize ELSE k
        /\ \A i \in 1..k : /\ i \in DOMAIN u
                          /\ u[i].str = s[i].str /\ u[i].val = s[i].val
        /\ \A i \in DOMAIN u : i \in 1..k \/ u[i] = Unset
    <3>1. s \in [1..k -> Row]
      BY <1>4, <1>5
    <3>. QED  BY <1>3, <3>1, SlotsOfIs
  <2>2. u = SlotsOf(s)
    OBVIOUS
  <2>. HIDE DEF u
  <2>. QED  BY <2>1, <2>2
<1>7. \A d \in Copies : registry'[d] = IF d = c THEN t ELSE registry[d]
  BY <1>1, <1>18, <1>6 DEF RegInv, RegistryTypeOK
<1>8. /\ UNCHANGED <<owned_by, rows, issued, saving, mishaps>>
      /\ stale' = IF n <= TableSize THEN stale \ {c} ELSE stale \cup {c}
      /\ reloaded' = (reloaded \/ owned_by = "map")
      /\ n <= TableSize \/ owned_by = "account"
  BY <1>2 DEF loadregistry
<1>9. Holders' = Holders /\ Holders \subseteq Copies
  BY <1>8, HoldersAreCopies DEF Holders, Shared
<1>10. RegistryTypeOK'
  <2>1. registry' \in [Copies -> Seq(Slot)]
    BY <1>1, <1>18, <1>6 DEF RegInv, RegistryTypeOK
  <2>2. Len(t) <= TableSize /\ (Fixed => Len(t) = TableSize)
    BY <1>3, <1>6, RegistryAssumption
  <2>3. \A d \in Copies : /\ Len(registry'[d]) <= TableSize
                          /\ Fixed' => Len(registry'[d]) = TableSize
    BY <1>7, <1>8, <2>2 DEF RegInv, RegistryTypeOK, Fixed
  <2>4. stale' \subseteq Copies
    BY <1>1, <1>8 DEF RegInv, RegistryTypeOK
  <2>5. reloaded' \in BOOLEAN
    BY <1>8 DEF RegInv, RegistryTypeOK
  <2>. QED  BY <1>8, <2>1, <2>3, <2>4, <2>5 DEF RegInv, RegistryTypeOK
<1>11. (IdsApart /\ RowNamesApart /\ FoundStands /\ IdStands)'
  <2>1. (IdsApart /\ RowNamesApart /\ IdStands)'
    BY <1>8 DEF RegInv, IdsApart, RowNamesApart, IdStands
  <2>2. \A m : FoundIds(m)' = FoundIds(m)
    BY <1>8 DEF FoundIds, RowsOf, KeyOf
  <2>3. FoundStands'
    BY <1>1, <1>8, <1>9, <2>2 DEF RegInv, FoundStands
  <2>. QED  BY <2>1, <2>3
<1>12. (ByKind /\ AstrayByKind)'
  BY <1>1, <1>8 DEF RegInv, ByKind, AstrayByKind
<1>13. (PlacesStand /\ SlotStands)'
  <2>1. owned_by = "map" => c = Owner /\ reloaded'
    BY <1>8 DEF Holders, Shared
  <2>. QED  BY <1>1, <1>8, <2>1 DEF PlacesStand, SlotStands
<1>14. mishaps = {} => Distinct(t)
  <2>1. SUFFICES ASSUME mishaps = {}, NEW i \in DOMAIN t, NEW j \in DOMAIN t,
                        t[i].str = t[j].str, t[i].str # NoName
        PROVE  i = j
    BY DEF Distinct
  <2>2. i \in 1..k /\ j \in 1..k
    BY <1>6, <2>1 DEF Unset
  <2>3. s[i].str = s[j].str /\ s[i] \in rows /\ s[j] \in rows
    BY <1>4, <1>6, <2>1, <2>2
  <2>4. s[i] = s[j]
    BY <2>1, <2>3 DEF RegInv, RowNamesApart
  <2>. QED  BY <1>4, <2>2, <2>4
<1>15. NamesApart'
  BY <1>7, <1>8, <1>14 DEF RegInv, NamesApart, Distinct
<1>16. ASSUME mishaps = {}, n <= TableSize, NEW m \in Names
       PROVE  StoredValues(m) = {readglobalreg(t, m)}
  <2>1. \A r \in rows : \E i \in 1..k : s[i] = r
    <3>1. IsFiniteSet(rows) /\ k = Cardinality(rows)
      BY <1>2, <1>16 DEF RegInv, IdsApart, k
    <3>2. /\ s \in [1..Cardinality(rows) -> rows]
          /\ \A i, j \in 1..Cardinality(rows) : s[i] = s[j] => i = j
      BY <1>4, <3>1
    <3>3. \A r \in rows : \E i \in 1..Cardinality(rows) : s[i] = r
      BY <3>1, <3>2, AllAreLoaded
    <3>. QED  BY <3>1, <3>3
  <2>2. m # NoName
    BY RegistryAssumption
  <2>3. CASE RowsOf(m) = {}
    <3>1. ASSUME NEW i \in DOMAIN t, t[i].str = m PROVE FALSE
      <4>1. i \in 1..k
        BY <1>6, <2>2, <3>1 DEF Unset
      <4>2. s[i] \in RowsOf(m)
        BY <1>4, <1>6, <3>1, <4>1 DEF RowsOf
      <4>. QED  BY <2>3, <4>2
    <3>. QED  BY <2>3, <3>1 DEF StoredValues, readglobalreg, Has
  <2>4. ASSUME NEW r \in RowsOf(m)
        PROVE  StoredValues(m) = {readglobalreg(t, m)}
    <3>1. r \in rows /\ r.str = m /\ \A q \in RowsOf(m) : q = r
      BY <1>16, <2>4 DEF RegInv, RowNamesApart, RowsOf
    <3>2. PICK i \in 1..k : s[i] = r
      BY <2>1, <3>1
    <3>3. i \in DOMAIN t /\ t[i].str = m /\ t[i].val = r.val
      BY <1>6, <3>1, <3>2
    <3>4. readglobalreg(t, m) = r.val
      BY <1>6, <1>14, <1>16, <2>2, <3>3, OnlySlot
    <3>. QED  BY <2>4, <3>1, <3>4 DEF StoredValues
  <2>. QED  BY <2>3, <2>4
<1>17. TablesAgree'
  <2>1. SUFFICES ASSUME mishaps = {}, NEW d \in Holders \ stale'
        PROVE  /\ \A m \in Names :
                    saving[d] = NoSave \/ saving[d].str # m =>
                      StoredValues(m) = {readglobalreg(registry'[d], m)}
               /\ saving[d] # NoSave =>
                    readglobalreg(registry'[d], saving[d].str) = saving[d].val
    <3>1. \A m : StoredValues(m)' = StoredValues(m)
      BY <1>8 DEF StoredValues, RowsOf
    <3>. QED  BY <1>8, <1>9, <2>1, <3>1 DEF TablesAgree
  <2>2. CASE d = c
    <3>1. n <= TableSize
      BY <1>8, <2>1, <2>2
    <3>. QED  BY <1>1, <1>7, <1>16, <2>1, <2>2, <3>1
  <2>3. CASE d # c
    <3>1. registry'[d] = registry[d] /\ d \in Holders \ stale
      BY <1>7, <1>8, <1>9, <2>1, <2>3
    <3>. QED  BY <1>1, <2>1, <3>1 DEF RegInv, TablesAgree
  <2>. QED  BY <2>2, <2>3
<1>. QED  BY <1>10, <1>11, <1>12, <1>13, <1>15, <1>17 DEF RegInv

\* Every step of the registries keeps the invariant.
LEMMA RegStepHolds == RegInv /\ [RegistryNext]_registryVars => RegInv'
<1>. SUFFICES ASSUME RegInv, [RegistryNext]_registryVars PROVE RegInv'
  OBVIOUS
<1>1. CASE UNCHANGED registryVars
  <2>1. (RegistryTypeOK /\ IdsApart /\ RowNamesApart /\ ByKind)'
    BY <1>1 DEF registryVars, RegInv, RegistryTypeOK, IdsApart, RowNamesApart,
                ByKind, Fixed
  <2>2. (FoundStands /\ TablesAgree)'
    <3>1. /\ Holders' = Holders
          /\ \A n : FoundIds(n)' = FoundIds(n) /\ StoredValues(n)' = StoredValues(n)
      BY <1>1 DEF registryVars, FoundIds, RowsOf, KeyOf, StoredValues, Holders, Shared
    <3>. QED  BY <1>1, <3>1 DEF registryVars, RegInv, FoundStands, TablesAgree
  <2>3. (PlacesStand /\ SlotStands /\ IdStands /\ NamesApart /\ AstrayByKind)'
    BY <1>1 DEF registryVars, RegInv, PlacesStand, SlotStands, IdStands,
                NamesApart, AstrayByKind
  <2>. QED  BY <2>1, <2>2, <2>3 DEF RegInv
<1>2. CASE RegistryNext
  BY <1>2, SetKeeps, DeleteKeeps, UpdateKeeps, InsertKeeps, LoadKeeps
     DEF RegistryNext
<1>. QED  BY <1>1, <1>2

\* A name has one value, a reload brings back what scripts last set, and a write
\* goes astray only in the way that its key allows: for any number of copies,
\* names, slots and rows.
THEOREM SpecRegistrySound ==
  RegistrySpec => [](RegistryTypeOK /\ RegistrySound)
<1>1. RegInv => ReloadReadsTheSame
  BY DEF RegInv, TablesAgree, ReloadReadsTheSame
<1>2. RegInv => RegistryTypeOK /\ RegistrySound
  BY <1>1 DEF RegInv, RegistrySound
<1>. QED  BY <1>2, RegInitHolds, RegStepHolds, PTL DEF RegistrySpec

----------------------------------------------------------------------------

\* What the run player_parts checks of the three, side by side.
THEOREM SpecPlayersSound == PlayerPartsSpec => []PlayersSound
<1>1. TurnsInv => TurnsTypeOK /\ TurnsSound
  BY DEF TurnsInv, TurnsSound, Counts, PacedBySecond
<1>2. RegInv => RegistryTypeOK /\ RegistrySound
  <2>1. RegInv => ReloadReadsTheSame
    BY DEF RegInv, TablesAgree, ReloadReadsTheSame
  <2>. QED  BY <2>1 DEF RegInv, RegistrySound
<1>3. TurnsInv /\ HuntInv /\ RegInv => PlayersSound
  BY <1>1, <1>2 DEF HuntInv, PlayersSound
<1>4. PlayerPartsInit => TurnsInv /\ HuntInv /\ RegInv
  BY TurnsInitHolds, HuntInitHolds, RegInitHolds DEF PlayerPartsInit
<1>5. [PlayerPartsNext]_playerPartsVars =>
        [TurnsNext]_turnsVars /\ [HuntNext]_huntVars /\ [RegistryNext]_registryVars
  BY DEF PlayerPartsNext, playerPartsVars, GroupsStep, TurnsStep, HuntStep,
         RegistryStep
<1>6. TurnsInv /\ HuntInv /\ RegInv /\ [PlayerPartsNext]_playerPartsVars =>
        TurnsInv' /\ HuntInv' /\ RegInv'
  BY <1>5, TurnsStepHolds, HuntStepHolds, RegStepHolds
<1>. QED  BY <1>3, <1>4, <1>6, PTL DEF PlayerPartsSpec

----------------------------------------------------------------------------
(* Groups.                                                                 *)


\* A player that is offline, or has no group, has the fields of a new USER.
Idle ==
  \A p \in Players :
    /\ p \notin online => group_count[p] = 0
    /\ group_count[p] = 0 => groupid[p] = 0

IInv == TypeOK /\ Idle /\ ListedAreMembers /\ SlotInUse

----------------------------------------------------------------------------
(* Rows.                                                                   *)

\* What the loop of clif_leavegroup leaves at the places that still count.
LEMMA RemovedRow ==
  ASSUME NEW row \in [Places -> Players \cup {NoId}],
         NEW m \in 1..MaxMembers, NEW id \in Players,
         NEW k \in 0..(m - 1), row[k] = id,
         \A x \in 0..(m - 1) : row[x] = id => x = k
  PROVE  /\ Removed(row, m, id) \in [Places -> Players \cup {NoId}]
         /\ \A x \in 0..(m - 2) :
              Removed(row, m, id)[x] = IF x < k THEN row[x] ELSE row[x + 1]
<1>. USE GroupsAssumption DEF Places
<1>1. \A x \in Places : x < m => (Listed(row, x + 1, id) <=> k <= x)
  BY DEF Listed
<1>2. \A x \in Places : x + 1 < m => x + 1 \in Places
  OBVIOUS
<1>3. Removed(row, m, id) \in [Places -> Players \cup {NoId}]
  BY <1>2 DEF Removed
<1>4. ASSUME NEW x \in 0..(m - 2)
      PROVE  Removed(row, m, id)[x] = IF x < k THEN row[x] ELSE row[x + 1]
  <2>1. x \in Places /\ x < m /\ x + 1 < m
    OBVIOUS
  <2>. QED  BY <1>1, <2>1 DEF Removed
<1>. QED  BY <1>3, <1>4

----------------------------------------------------------------------------
(* What agreement gives.                                                   *)

\* Two grouped players with the same slot are in the same group.
LEMMA SameSlot ==
  ASSUME TypeOK, ListedAreMembers,
         NEW p \in Players, NEW q \in Players,
         Grouped(p), Grouped(q), groupid[p] = groupid[q]
  PROVE  /\ group_count[p] = group_count[q]
         /\ group_leader[p] = group_leader[q]
         /\ \E x \in 0..(group_count[p] - 1) : groups[groupid[p]][x] = q
<1>1. 0 \in 0..(group_count[p] - 1) /\ 0 \in 0..(group_count[q] - 1)
  BY DEF TypeOK, ListedAreMembers, Agrees
<1>2. group_count[groups[groupid[p]][0]] = group_count[p]
  BY <1>1 DEF ListedAreMembers, Agrees
<1>3. group_count[groups[groupid[q]][0]] = group_count[q]
  BY <1>1 DEF ListedAreMembers, Agrees
<1>4. group_count[p] = group_count[q]
  BY <1>2, <1>3
<1>5. q \in ListedBy(q)
  BY DEF ListedAreMembers, Agrees
<1>. QED  BY <1>4, <1>5 DEF ListedAreMembers, Agrees, ListedBy

\* The first place of a grouped player's slot is taken.
LEMMA GroupedSlotTaken ==
  ASSUME TypeOK, ListedAreMembers, NEW p \in Players, Grouped(p)
  PROVE  groups[groupid[p]][0] \in Players
<1>1. 0 \in 0..(group_count[p] - 1)
  BY DEF TypeOK, ListedAreMembers, Agrees
<1>. QED  BY <1>1 DEF TypeOK, ListedAreMembers, Agrees

\* The test by which clif_addgroup sends a member away is passed only by the
\* leader of that member's group, though group_leader is never cleared.
THEOREM ExpelFollows == TypeOK /\ ListedAreMembers => ExpelWithinGroup
<1>. SUFFICES ASSUME TypeOK, ListedAreMembers,
                     NEW who \in online, NEW tsd \in online \ {who}, MayExpel(who, tsd)
              PROVE  Grouped(who) /\ groupid[who] = groupid[tsd]
  BY DEF ExpelWithinGroup
<1>1. Grouped(tsd) /\ tsd \in Players
  BY DEF Grouped, MayExpel, TypeOK
<1>2. 0 \in 0..(group_count[tsd] - 1)
  BY <1>1 DEF TypeOK, ListedAreMembers, Agrees
<1>3. groups[groupid[tsd]][0] = who
  BY <1>1 DEF ListedAreMembers, Agrees, MayExpel
<1>4. groupid[who] = groupid[tsd] /\ group_count[who] = group_count[tsd]
  BY <1>1, <1>2, <1>3 DEF ListedAreMembers, Agrees
<1>. QED  BY <1>1, <1>4 DEF Grouped

----------------------------------------------------------------------------
(* One row changes.                                                        *)

\* The other rows and their groups stay.
OthersStay(g) ==
  /\ \A h \in Slots \ {g} : groups'[h] = groups[h]
  /\ \A p \in Players : Grouped(p) /\ groupid[p] # g =>
       /\ p \in online'
       /\ group_count'[p] = group_count[p]
       /\ group_leader'[p] = group_leader[p]
       /\ groupid'[p] = groupid[p]

\* The first n places of row g list the players of S, who know it.
BecomesGroup(g, n, S) ==
  /\ \A p \in S :
       /\ p \in online'
       /\ group_count'[p] = n
       /\ groupid'[p] = g
       /\ group_leader'[p] = groups'[g][0]
       /\ \E x \in 0..(n - 1) : groups'[g][x] = p
  /\ \A x \in 0..(n - 1) :
       /\ groups'[g][x] \in S
       /\ \A y \in 0..(n - 1) : groups'[g][y] = groups'[g][x] => x = y

\* Only slot g changes; S is its group afterwards, with n members in the row
\* (or nobody).  Then everyone agrees and free slots are free.
LEMMA Regroup ==
  ASSUME TypeOK, TypeOK', ListedAreMembers, SlotInUse,
         NEW g \in Slots, g # 0, NEW S \in SUBSET Players, NEW n \in Int,
         OthersStay(g), BecomesGroup(g, n, S),
         \A p \in Players : Grouped(p)' => p \in S \/ (Grouped(p) /\ groupid[p] # g),
         S = {} => groups'[g][0] = NoId /\ n = 0,
         S # {} => n > 1
  PROVE  ListedAreMembers' /\ SlotInUse'
<1>. USE DEF OthersStay, BecomesGroup
<1>1. ASSUME NEW p \in S PROVE Agrees(p)'
  BY DEF Agrees, ListedBy
<1>2. ASSUME NEW p \in Players, Grouped(p), groupid[p] # g PROVE Agrees(p)'
  <2>1. Agrees(p) /\ groupid[p] \in Slots
    BY <1>2 DEF ListedAreMembers, TypeOK
  <2>2. groups'[groupid[p]] = groups[groupid[p]] /\ group_count[p] \in Int
    BY <1>2, <2>1 DEF TypeOK
  <2>3. \A x \in 0..(group_count[p] - 1) :
          LET q == groups[groupid[p]][x] IN
            q \in Players /\ Grouped(q) /\ groupid[q] # g
    BY <1>2, <2>1, <2>2 DEF Agrees, Grouped, TypeOK
  <2>4. ListedBy(p)' = ListedBy(p)
    BY <1>2, <2>2 DEF ListedBy
  <2>. QED  BY <1>2, <2>1, <2>2, <2>3, <2>4 DEF Agrees
<1>3. ListedAreMembers'
  BY <1>1, <1>2 DEF ListedAreMembers
<1>4. ASSUME NEW h \in Slots \ {g}
      PROVE  (groups[h][0] # NoId <=> \E p \in Players : Grouped(p) /\ groupid[p] = h)'
  <2>1. groups[h][0] # NoId <=> \E p \in Players : Grouped(p) /\ groupid[p] = h
    BY DEF SlotInUse
  <2>2. \A p \in Players : Grouped(p) /\ groupid[p] = h => (Grouped(p) /\ groupid[p] = h)'
    BY DEF Grouped
  <2>3. \A p \in Players : (Grouped(p) /\ groupid[p] = h)' => Grouped(p) /\ groupid[p] = h
    OBVIOUS
  <2>. QED  BY <2>1, <2>2, <2>3
<1>5. (groups[g][0] # NoId <=> \E p \in Players : Grouped(p) /\ groupid[p] = g)'
  <2>1. CASE S = {}
    BY <2>1
  <2>2. CASE S # {}
    <3>1. 0 \in 0..(n - 1) /\ groups'[g][0] \in Players
      BY <2>2
    <3>2. groups'[g][0] # NoId
      BY <3>1, GroupsAssumption
    <3>3. PICK p \in S : TRUE
      BY <2>2
    <3>. QED  BY <2>2, <3>2, <3>3 DEF Grouped
  <2>. QED  BY <2>1, <2>2
<1>. QED  BY <1>3, <1>4, <1>5 DEF SlotInUse

\* The group of slot g.
Group(g) == {p \in Players : Grouped(p) /\ groupid[p] = g}

\* A row lists exactly the group of its slot, each member once.
LEMMA RowIsGroup ==
  ASSUME TypeOK, ListedAreMembers, NEW who \in Players, Grouped(who)
  PROVE  LET g == groupid[who]
             m == group_count[who]
         IN /\ g \in Slots /\ g # 0
            /\ m \in 2..MaxMembers
            /\ groups[g] \in [Places -> Players \cup {NoId}]
            /\ group_leader[who] = groups[g][0]
            /\ \A p \in Players : Listed(groups[g], m, p) <=> p \in Group(g)
            /\ \A x \in 0..(m - 1) :
                 /\ groups[g][x] \in Group(g)
                 /\ \A y \in 0..(m - 1) : groups[g][y] = groups[g][x] => x = y
<1>. DEFINE g == groupid[who]
            m == group_count[who]
<1>1. Agrees(who)
  BY DEF ListedAreMembers
<1>2. g \in Slots /\ g # 0 /\ m \in 2..MaxMembers
  BY <1>1, GroupsAssumption DEF Agrees, TypeOK
<1>3. groups[g] \in [Places -> Players \cup {NoId}]
  BY <1>2 DEF TypeOK
<1>4. \A x \in 0..(m - 1) :
        /\ groups[g][x] \in Group(g)
        /\ \A y \in 0..(m - 1) : groups[g][y] = groups[g][x] => x = y
  BY <1>1, <1>2 DEF Agrees, TypeOK, Group, Grouped
<1>5. ASSUME NEW p \in Players
      PROVE  Listed(groups[g], m, p) <=> p \in Group(g)
  <2>1. Listed(groups[g], m, p) => p \in Group(g)
    BY <1>4 DEF Listed
  <2>2. p \in Group(g) => Listed(groups[g], m, p)
    BY SameSlot DEF Group, Listed
  <2>. QED  BY <2>1, <2>2
<1>6. group_leader[who] = groups[g][0]
  BY <1>1 DEF Agrees
<1>. QED  BY <1>2, <1>3, <1>4, <1>5, <1>6

----------------------------------------------------------------------------
(* Leaving.                                                                *)

\* A player without a group leaves nothing.
LEMMA LeavesNothing ==
  ASSUME IInv, NEW who \in online, NEW freed \in BOOLEAN, Leaves(who, freed),
         group_count[who] = 0
  PROVE  /\ groups' = groups
         /\ group_count' = group_count
         /\ groupid' = groupid
         /\ group_leader' \in [Players -> Players \cup {NoId}]
         /\ \A p \in Players \ {who} : group_leader'[p] = group_leader[p]
<1>. USE GroupsAssumption DEF IInv
<1>. DEFINE g == groupid[who]
            row == Removed(groups[g], 0, who)
<1>1. who \in Players /\ g \in Slots /\ g = 0 /\ 0 \in Places
  BY DEF TypeOK, Idle, Places
<1>2. groups[g] \in [Places -> Players \cup {NoId}]
  BY <1>1 DEF TypeOK
<1>3. row = groups[g]
  <2>1. \A x \in Places : x >= 0
    BY DEF Places
  <2>. QED  BY <1>2, <2>1 DEF Removed
<1>4. Told(row, 0 - 1) = {} /\ Alone(row, 0 - 1) = {}
  BY DEF Told, Alone, Listed
<1>5. Freed(row, 0 - 1) = row
  BY <1>4 DEF Freed
<1>6. groups' = groups
  BY <1>2, <1>3, <1>5 DEF Leaves, TypeOK
<1>7. group_count' = group_count
  BY <1>4 DEF Leaves, CountsLeft, TypeOK
<1>8. groupid' = groupid
  BY <1>1, <1>4 DEF Leaves, TypeOK
<1>9. NewLeader(groups[g], 0, row, who) \in Players \cup {NoId}
  BY <1>1, <1>2, <1>3 DEF NewLeader, TypeOK
<1>10. group_leader' = [p \in Players |->
            IF p = who THEN IF freed THEN NoId ELSE NewLeader(groups[g], 0, row, who)
            ELSE group_leader[p]]
  BY <1>4 DEF Leaves
<1>11. \A p \in Players : group_leader[p] \in Players \cup {NoId}
  BY DEF TypeOK
<1>. QED  BY <1>6, <1>7, <1>8, <1>9, <1>10, <1>11

\* What is left of the row of who's group once who is out of it.
LEMMA RowLeft ==
  ASSUME IInv, NEW who \in online, group_count[who] # 0
  PROVE  LET g   == groupid[who]
             m   == group_count[who]
             row == Removed(groups[g], m, who)
         IN /\ row \in [Places -> Players \cup {NoId}]
            /\ \A x \in 0..(m - 2) :
                 /\ row[x] \in Group(g) \ {who}
                 /\ \A y \in 0..(m - 2) : row[y] = row[x] => x = y
            /\ \A p \in Group(g) \ {who} : \E x \in 0..(m - 2) : row[x] = p
            /\ Told(row, m - 1) = Group(g) \ {who}
            /\ NewLeader(groups[g], m, row, who) = row[0]
<1>. USE DEF IInv
<1>. DEFINE g == groupid[who]
            m == group_count[who]
            row == Removed(groups[g], m, who)
<1>1. who \in Players /\ Grouped(who) /\ who \in Group(g)
  BY DEF TypeOK, Grouped, Group
<1>2. /\ m \in 2..MaxMembers
      /\ groups[g] \in [Places -> Players \cup {NoId}]
      /\ group_leader[who] = groups[g][0]
      /\ \A p \in Players : Listed(groups[g], m, p) <=> p \in Group(g)
      /\ \A x \in 0..(m - 1) :
           /\ groups[g][x] \in Group(g)
           /\ \A y \in 0..(m - 1) : groups[g][y] = groups[g][x] => x = y
  BY <1>1, RowIsGroup
<1>3. PICK k \in 0..(m - 1) : groups[g][k] = who
  BY <1>1, <1>2 DEF Listed
<1>4. /\ m \in 1..MaxMembers
      /\ \A x \in 0..(m - 1) : groups[g][x] = who => x = k
  BY <1>2, <1>3
<1>. HIDE DEF g, m
<1>5. /\ row \in [Places -> Players \cup {NoId}]
      /\ \A x \in 0..(m - 2) :
           row[x] = IF x < k THEN groups[g][x] ELSE groups[g][x + 1]
  BY <1>1, <1>2, <1>3, <1>4, RemovedRow
<1>. HIDE DEF row
<1>6. ASSUME NEW x \in 0..(m - 2)
      PROVE  /\ row[x] \in Group(g) \ {who}
             /\ \A y \in 0..(m - 2) : row[y] = row[x] => x = y
  <2>1. x \in 0..(m - 1) /\ x + 1 \in 0..(m - 1)
    BY <1>2
  <2>2. row[x] \in Group(g) \ {who}
    BY <1>2, <1>4, <1>5, <2>1
  <2>3. ASSUME NEW y \in 0..(m - 2), row[y] = row[x] PROVE x = y
    <3>1. y \in 0..(m - 1) /\ y + 1 \in 0..(m - 1)
      BY <1>2
    <3>. QED  BY <1>2, <1>5, <2>1, <2>3, <3>1
  <2>. QED  BY <2>2, <2>3
<1>7. ASSUME NEW p \in Group(g) \ {who}
      PROVE  \E x \in 0..(m - 2) : row[x] = p
  <2>1. PICK y \in 0..(m - 1) : groups[g][y] = p
    BY <1>2 DEF Listed, Group
  <2>2. y # k
    BY <1>3, <2>1
  <2>3. CASE y < k
    <3>1. y \in 0..(m - 2)
      BY <1>2, <2>3
    <3>. QED  BY <1>5, <2>1, <2>3, <3>1
  <2>4. CASE y > k
    <3>1. y - 1 \in 0..(m - 2) /\ ~(y - 1 < k) /\ (y - 1) + 1 = y
      BY <1>2, <2>4
    <3>. QED  BY <1>5, <2>1, <3>1
  <2>. QED  BY <1>2, <2>2, <2>3, <2>4
<1>8. Told(row, m - 1) = Group(g) \ {who}
  <2>1. (m - 1) - 1 = m - 2
    BY <1>2
  <2>2. Group(g) \subseteq online
    BY DEF Group, Grouped
  <2>3. Told(row, m - 1) = {p \in online : \E x \in 0..(m - 2) : row[x] = p}
    BY <2>1 DEF Told, Listed
  <2>. QED  BY <1>6, <1>7, <2>2, <2>3
<1>9. NewLeader(groups[g], m, row, who) = row[0]
  <2>1. group_leader[who] # NoId /\ Listed(groups[g], m, who)
    <3>1. 0 \in 0..(m - 1)
      BY <1>2
    <3>2. groups[g][0] \in Players
      BY <1>2, <3>1 DEF Group
    <3>. QED  BY <1>1, <1>2, <3>2, GroupsAssumption
  <2>2. CASE group_leader[who] = who
    BY <2>1, <2>2 DEF NewLeader
  <2>3. CASE group_leader[who] # who
    <3>1. k > 0 /\ 0 \in 0..(m - 2)
      BY <1>2, <1>3, <2>3
    <3>2. row[0] = groups[g][0]
      BY <1>5, <3>1
    <3>. QED  BY <1>2, <2>1, <2>3, <3>2 DEF NewLeader
  <2>. QED  BY <2>2, <2>3
<1>. QED  BY <1>5, <1>6, <1>7, <1>8, <1>9 DEF g, m, row

\* The three handlers that make a player leave keep the invariant.
LEMMA LeavesKeeps ==
  ASSUME IInv, NEW who \in online, NEW freed \in BOOLEAN, Leaves(who, freed),
         online' \in {online, online \ {who}},
         flagGroup' \in [Players -> BOOLEAN]
  PROVE  IInv'
<1>. DEFINE g == groupid[who]
            m == group_count[who]
            n == m - 1
            row == Removed(groups[g], m, who)
<1>1. who \in Players /\ m \in 0..MaxMembers
  BY DEF IInv, TypeOK
<1>2. CASE m = 0
  <2>1. /\ groups' = groups
        /\ group_count' = group_count
        /\ groupid' = groupid
        /\ group_leader' \in [Players -> Players \cup {NoId}]
        /\ \A p \in Players \ {who} : group_leader'[p] = group_leader[p]
    BY <1>2, LeavesNothing
  <2>2. TypeOK' /\ Idle'
    BY <1>2, <2>1 DEF IInv, TypeOK, Idle
  <2>3. \A p \in Players : Grouped(p)' <=> Grouped(p)
    BY <1>2, <2>1 DEF Grouped
  <2>4. ASSUME NEW p \in Players, Grouped(p) PROVE Agrees(p)'
    <3>1. Agrees(p) /\ p # who /\ group_count[p] > 0
      BY <1>2, <2>4 DEF IInv, ListedAreMembers, Grouped
    <3>2. \A x \in 0..(group_count[p] - 1) :
            LET q == groups[groupid[p]][x] IN
              q \in Players \ {who} /\ q \in online'
      BY <1>2, <3>1 DEF Agrees, IInv, TypeOK
    <3>3. ListedBy(p)' = ListedBy(p)
      BY <2>1 DEF ListedBy
    <3>. QED  BY <2>1, <3>1, <3>2, <3>3 DEF Agrees
  <2>5. ListedAreMembers'
    BY <2>3, <2>4 DEF ListedAreMembers
  <2>6. SlotInUse'
    BY <2>1, <2>3 DEF IInv, SlotInUse
  <2>. QED  BY <2>2, <2>5, <2>6 DEF IInv
<1>3. CASE m # 0
  <2>1. Grouped(who) /\ who \in Group(g)
    BY <1>1, <1>3 DEF IInv, Grouped, Group
  <2>2. /\ g \in Slots /\ g # 0 /\ m \in 2..MaxMembers
        /\ \A p \in Group(g) : group_count[p] = m
    <3>1. g \in Slots /\ g # 0 /\ m \in 2..MaxMembers
      BY <1>1, <2>1, RowIsGroup DEF IInv
    <3>2. \A p \in Group(g) : group_count[p] = m
      BY <1>1, <2>1, SameSlot DEF IInv, Group
    <3>. QED  BY <3>1, <3>2
  <2>3. /\ row \in [Places -> Players \cup {NoId}]
        /\ \A x \in 0..(m - 2) :
             /\ row[x] \in Group(g) \ {who}
             /\ \A y \in 0..(m - 2) : row[y] = row[x] => x = y
        /\ \A p \in Group(g) \ {who} : \E x \in 0..(m - 2) : row[x] = p
        /\ Told(row, n) = Group(g) \ {who}
        /\ NewLeader(groups[g], m, row, who) = row[0]
    BY <1>3, RowLeft
  <2>4. /\ groups' = [groups EXCEPT ![g] = Freed(row, n)]
        /\ group_count' = CountsLeft(who, row, n)
        /\ group_leader' = [p \in Players |->
              IF p = who THEN IF freed THEN NoId ELSE row[0]
              ELSE IF p \in Told(row, n) THEN row[0] ELSE group_leader[p]]
        /\ groupid' = [p \in Players |->
              IF p = who \/ p \in Alone(row, n) THEN 0 ELSE groupid[p]]
    BY <2>3 DEF Leaves
  <2>. HIDE DEF row
  <2>5. 0 \in 0..(m - 2) /\ 0 \in Slots /\ 0 \in Places
    BY <2>2, GroupsAssumption DEF Slots, Places
  <2>. DEFINE S == Group(g) \ ({who} \cup Alone(row, n))
  <2>6. Alone(row, n) \subseteq Group(g) /\ (n # 1 => Alone(row, n) = {})
    BY <2>3 DEF Alone
  <2>7. n = 1 => Alone(row, n) = Group(g) \ {who} /\ Alone(row, n) # {}
    BY <2>3, <2>5 DEF Alone
  <2>8. groups'[g] = IF n = 1 THEN [row EXCEPT ![0] = NoId] ELSE row
    BY <2>2, <2>4, <2>6, <2>7 DEF Freed, IInv, TypeOK
  <2>9. \A p \in Players :
          group_count'[p] = IF p = who \/ p \in Alone(row, n) THEN 0
                            ELSE IF p \in Group(g) THEN n ELSE group_count[p]
    BY <2>3, <2>4 DEF CountsLeft
  <2>10. TypeOK'
    <3>1. groups' \in [Slots -> [Places -> Players \cup {NoId}]]
      <4>1. groups'[g] \in [Places -> Players \cup {NoId}]
        BY <2>3, <2>8
      <4>. QED  BY <2>4, <4>1 DEF IInv, TypeOK
    <3>2. group_count' \in [Players -> 0..MaxMembers]
      <4>1. n \in 0..MaxMembers /\ 0 \in 0..MaxMembers
        BY <2>2, GroupsAssumption
      <4>2. group_count' = [p \in Players |-> group_count'[p]]
        BY <2>4 DEF CountsLeft
      <4>. QED  BY <2>9, <4>1, <4>2 DEF IInv, TypeOK
    <3>3. group_leader' \in [Players -> Players \cup {NoId}]
      BY <2>3, <2>4, <2>5 DEF IInv, TypeOK
    <3>4. groupid' \in [Players -> Slots]
      BY <2>4, <2>5 DEF IInv, TypeOK
    <3>. QED  BY <3>1, <3>2, <3>3, <3>4 DEF IInv, TypeOK
  <2>11. \A p \in Players : p \notin Group(g) =>
            /\ group_count'[p] = group_count[p]
            /\ group_leader'[p] = group_leader[p]
            /\ groupid'[p] = groupid[p]
    BY <2>1, <2>3, <2>4, <2>6, <2>9
  <2>12. \A p \in S : group_count'[p] = n /\ group_leader'[p] = row[0] /\ groupid'[p] = g
    BY <2>3, <2>4, <2>9 DEF Group
  <2>13. \A p \in Group(g) \ S : group_count'[p] = 0 /\ groupid'[p] = 0
    BY <2>4, <2>6, <2>9 DEF Group
  <2>14. Idle'
    <3>1. ASSUME NEW p \in Players
          PROVE  /\ p \notin online' => group_count'[p] = 0
                 /\ group_count'[p] = 0 => groupid'[p] = 0
      <4>1. CASE p \notin Group(g)
        BY <2>1, <2>11, <4>1 DEF IInv, Idle
      <4>2. CASE p \in S
        BY <2>2, <2>12, <4>2 DEF Group, Grouped
      <4>3. CASE p \in Group(g) \ S
        BY <2>13, <4>3
      <4>. QED  BY <4>1, <4>2, <4>3
    <3>. QED  BY <3>1 DEF Idle
  <2>15. ListedAreMembers' /\ SlotInUse'
    <3>1. \A h \in Slots \ {g} : groups'[h] = groups[h]
      BY <2>4 DEF IInv, TypeOK
    <3>2. \A p \in Players : Grouped(p) /\ groupid[p] # g =>
            /\ p \in online'
            /\ group_count'[p] = group_count[p]
            /\ group_leader'[p] = group_leader[p]
            /\ groupid'[p] = groupid[p]
      BY <2>11 DEF Group, Grouped
    <3>3. \A p \in Players : Grouped(p)' => p \in S \/ (Grouped(p) /\ groupid[p] # g)
      <4>1. ASSUME NEW p \in Players, Grouped(p)', p \notin S
            PROVE  Grouped(p) /\ groupid[p] # g
        <5>1. p \notin Group(g)
          BY <2>13, <4>1 DEF Grouped
        <5>. QED  BY <2>11, <4>1, <5>1 DEF Group, Grouped
      <4>. QED  BY <4>1
    <3>4. CASE n = 1
      <4>1. S = {} /\ groups'[g][0] = NoId
        BY <2>3, <2>5, <2>7, <2>8, <3>4
      <4>2. \A p \in Players : Grouped(p)' => p \in {} \/ (Grouped(p) /\ groupid[p] # g)
        BY <3>3, <4>1
      <4>3. \A x \in 0..(0 - 1) :
              /\ groups'[g][x] \in {}
              /\ \A y \in 0..(0 - 1) : groups'[g][y] = groups'[g][x] => x = y
        OBVIOUS
      <4>4. {} \in SUBSET Players /\ 0 \in Int
        OBVIOUS
      <4>. HIDE DEF S
      <4>5. OthersStay(g) /\ BecomesGroup(g, 0, {})
        BY <3>1, <3>2, <4>3 DEF OthersStay, BecomesGroup
      <4>. QED  BY <2>2, <2>10, <4>1, <4>2, <4>4, <4>5, Regroup DEF IInv
    <3>5. CASE n # 1
      <4>1. S = Group(g) \ {who} /\ groups'[g] = row /\ n > 1 /\ n \in Int /\ n - 1 = m - 2
        BY <2>2, <2>6, <2>8, <3>5
      <4>2. \A p \in S :
              /\ p \in online'
              /\ group_count'[p] = n
              /\ groupid'[p] = g
              /\ group_leader'[p] = groups'[g][0]
              /\ \E x \in 0..(n - 1) : groups'[g][x] = p
        BY <2>3, <2>12, <4>1 DEF Group, Grouped
      <4>3. \A x \in 0..(n - 1) :
              /\ groups'[g][x] \in S
              /\ \A y \in 0..(n - 1) : groups'[g][y] = groups'[g][x] => x = y
        BY <2>3, <4>1
      <4>4. S # {} /\ S \in SUBSET Players
        BY <2>3, <2>5, <4>1 DEF Group
      <4>5. TypeOK /\ ListedAreMembers /\ SlotInUse
        BY DEF IInv
      <4>. HIDE DEF S
      <4>6. S # {} /\ n > 1 /\ n \in Int
        BY <4>1, <4>4
      <4>7. OthersStay(g) /\ BecomesGroup(g, n, S)
        BY <3>1, <3>2, <4>2, <4>3 DEF OthersStay, BecomesGroup
      <4>. QED  BY <2>2, <2>10, <3>3, <4>4, <4>5, <4>6, <4>7, Regroup
    <3>. QED  BY <3>4, <3>5
  <2>. QED  BY <2>10, <2>14, <2>15 DEF IInv
<1>. QED  BY <1>2, <1>3

----------------------------------------------------------------------------
(* Entering.                                                               *)

\* who and tsd enter slot g, whose row then lists the n members of S.
LEMMA EnterKeeps ==
  ASSUME IInv, NEW who \in online, NEW tsd \in online,
         NEW g \in Slots, g # 0, NEW n \in 2..MaxMembers,
         NEW row \in [Places -> Players \cup {NoId}],
         NEW S \in SUBSET online, who \in S, tsd \in S, Group(g) \subseteq S,
         \A p \in S \ {who, tsd} : groupid[p] = g,
         \A p \in S : Grouped(p) => groupid[p] = g,
         \A x \in 0..(n - 1) :
            row[x] \in S /\ \A y \in 0..(n - 1) : row[y] = row[x] => x = y,
         \A p \in S : \E x \in 0..(n - 1) : row[x] = p,
         Enter(who, tsd, g, row, row[0], n),
         online' = online, flagGroup' = flagGroup
  PROVE  IInv'
<1>1. /\ who \in Players /\ tsd \in Players /\ S \subseteq Players
      /\ n \in Int /\ n > 1 /\ n \in 0..MaxMembers
      /\ 0 \in 0..(n - 1)
  BY GroupsAssumption DEF IInv, TypeOK
<1>2. Told(row, n) = S
  BY DEF Told, Listed
<1>3. groups'[g] = row /\ \A h \in Slots \ {g} : groups'[h] = groups[h]
  BY DEF Enter, IInv, TypeOK
<1>4. \A p \in S :
        /\ p \in online'
        /\ group_count'[p] = n
        /\ groupid'[p] = g
        /\ group_leader'[p] = groups'[g][0]
        /\ \E x \in 0..(n - 1) : groups'[g][x] = p
  BY <1>1, <1>2, <1>3 DEF Enter
<1>5. \A p \in Players \ S :
        /\ group_count'[p] = group_count[p]
        /\ group_leader'[p] = group_leader[p]
        /\ groupid'[p] = groupid[p]
  BY <1>2 DEF Enter
<1>6. TypeOK'
  <2>1. groups' \in [Slots -> [Places -> Players \cup {NoId}]]
    BY DEF Enter, IInv, TypeOK
  <2>2. group_count' \in [Players -> 0..MaxMembers]
    BY <1>1 DEF Enter, IInv, TypeOK
  <2>3. group_leader' \in [Players -> Players \cup {NoId}]
    BY <1>1 DEF Enter, IInv, TypeOK
  <2>4. groupid' \in [Players -> Slots]
    BY DEF Enter, IInv, TypeOK
  <2>. QED  BY <2>1, <2>2, <2>3, <2>4 DEF IInv, TypeOK
<1>7. Idle'
  BY <1>1, <1>4, <1>5 DEF IInv, Idle
<1>8. ListedAreMembers' /\ SlotInUse'
  <2>1. \A p \in Players : Grouped(p) /\ groupid[p] # g =>
          /\ p \in online'
          /\ group_count'[p] = group_count[p]
          /\ group_leader'[p] = group_leader[p]
          /\ groupid'[p] = groupid[p]
    BY <1>5 DEF Grouped
  <2>2. \A p \in Players : Grouped(p)' => p \in S \/ (Grouped(p) /\ groupid[p] # g)
    BY <1>5 DEF Grouped, Group
  <2>3. \A x \in 0..(n - 1) :
          /\ groups'[g][x] \in S
          /\ \A y \in 0..(n - 1) : groups'[g][y] = groups'[g][x] => x = y
    BY <1>3
  <2>4. /\ TypeOK /\ ListedAreMembers /\ SlotInUse /\ S # {}
        /\ S \in SUBSET Players /\ n \in Int /\ n > 1
    BY <1>1 DEF IInv
  <2>5. OthersStay(g) /\ BecomesGroup(g, n, S)
    BY <1>3, <1>4, <2>1, <2>3 DEF OthersStay, BecomesGroup
  <2>. QED  BY <1>6, <2>2, <2>4, <2>5, Regroup
<1>. QED  BY <1>6, <1>7, <1>8 DEF IInv

\* A group is founded.
LEMMA FoundsKeeps ==
  ASSUME IInv, NEW who \in Players, NEW tsd \in Players,
         clif_addgroup_Founds(who, tsd)
  PROVE  IInv'
<1>1. /\ who \in online /\ tsd \in online /\ who # tsd
      /\ group_count[who] = 0 /\ group_count[tsd] = 0
      /\ online' = online /\ flagGroup' = flagGroup
  BY DEF clif_addgroup_Founds, MayTakeIn
<1>2. PICK g \in Slots :
        /\ FreeSlot(g)
        /\ Enter(who, tsd, g, [groups[g] EXCEPT ![0] = who, ![1] = tsd], who, 2)
  BY DEF clif_addgroup_Founds
<1>. DEFINE row == [groups[g] EXCEPT ![0] = who, ![1] = tsd]
            S == {who, tsd}
<1>3. g # 0 /\ groups[g][0] = NoId /\ 2 \in 2..MaxMembers
  BY <1>2, GroupsAssumption DEF FreeSlot
<1>4. Group(g) = {}
  BY <1>3, GroupedSlotTaken, GroupsAssumption DEF Group, IInv
<1>5. /\ 0 \in Places /\ 1 \in Places
      /\ row \in [Places -> Players \cup {NoId}]
      /\ row[0] = who /\ row[1] = tsd
  <2>1. 0 \in Places /\ 1 \in Places
    BY GroupsAssumption DEF Places
  <2>2. groups[g] \in [Places -> Players \cup {NoId}]
    BY DEF IInv, TypeOK
  <2>. QED  BY <2>1, <2>2
<1>. HIDE DEF row
<1>6. \A x \in 0..(2 - 1) :
        /\ row[x] \in S
        /\ \A y \in 0..(2 - 1) : row[y] = row[x] => x = y
  BY <1>1, <1>5
<1>7. \A p \in S : \E x \in 0..(2 - 1) : row[x] = p
  BY <1>5
<1>8. \A p \in S : Grouped(p) => groupid[p] = g
  BY <1>1 DEF Grouped
<1>9. Enter(who, tsd, g, row, row[0], 2)
  BY <1>2, <1>5 DEF row
<1>10. /\ S \in SUBSET online /\ who \in S /\ tsd \in S
       /\ \A p \in S \ {who, tsd} : groupid[p] = g
  BY <1>1
<1>11. Group(g) \subseteq S
  BY <1>4
<1>. HIDE DEF S
<1>. QED
  BY <1>1, <1>3, <1>4, <1>5, <1>6, <1>7, <1>8, <1>9, <1>10, <1>11, EnterKeeps

\* Somebody joins a group.
LEMMA JoinsKeeps ==
  ASSUME IInv, NEW who \in Players, NEW tsd \in Players,
         clif_addgroup_Joins(who, tsd)
  PROVE  IInv'
<1>. DEFINE g == groupid[who]
            m == group_count[who]
            row == [groups[g] EXCEPT ![m] = tsd]
            S == Group(g) \cup {tsd}
            n == m + 1
<1>1. /\ who \in online /\ tsd \in online /\ who # tsd
      /\ m # 0 /\ m < MaxMembers /\ group_count[tsd] = 0
      /\ online' = online /\ flagGroup' = flagGroup
      /\ Enter(who, tsd, g, row, group_leader[who], n)
  BY DEF clif_addgroup_Joins, MayTakeIn
<1>2. Grouped(who) /\ who \in Group(g) /\ tsd \notin Group(g)
  BY <1>1 DEF Grouped, Group, IInv, TypeOK
<1>3. /\ g \in Slots /\ g # 0
      /\ m \in 2..MaxMembers
      /\ groups[g] \in [Places -> Players \cup {NoId}]
      /\ group_leader[who] = groups[g][0]
      /\ \A p \in Players : Listed(groups[g], m, p) <=> p \in Group(g)
      /\ \A x \in 0..(m - 1) :
           /\ groups[g][x] \in Group(g)
           /\ \A y \in 0..(m - 1) : groups[g][y] = groups[g][x] => x = y
  BY <1>2, RowIsGroup DEF IInv
<1>4. /\ m \in Places /\ row \in [Places -> Players \cup {NoId}]
      /\ row[m] = tsd
      /\ \A x \in 0..(m - 1) : row[x] = groups[g][x]
      /\ row[0] = group_leader[who]
  BY <1>1, <1>3, GroupsAssumption DEF Places
<1>. HIDE DEF row
<1>5. /\ n \in 2..MaxMembers
      /\ \A x \in 0..(n - 1) : x = m \/ x \in 0..(m - 1)
      /\ m \in 0..(n - 1) /\ 0..(m - 1) \subseteq 0..(n - 1)
  BY <1>1, <1>3, GroupsAssumption
<1>6. \A x \in 0..(n - 1) :
        /\ row[x] \in S
        /\ \A y \in 0..(n - 1) : row[y] = row[x] => x = y
  BY <1>2, <1>3, <1>4, <1>5
<1>7. \A p \in S : \E x \in 0..(n - 1) : row[x] = p
  <2>1. ASSUME NEW p \in Group(g) PROVE \E x \in 0..(m - 1) : row[x] = p
    BY <1>3, <1>4 DEF Listed, Group
  <2>. QED  BY <1>4, <1>5, <2>1
<1>8. /\ S \in SUBSET online /\ who \in S /\ tsd \in S /\ Group(g) \subseteq S
      /\ \A p \in S \ {who, tsd} : groupid[p] = g
      /\ \A p \in S : Grouped(p) => groupid[p] = g
  BY <1>1, <1>2 DEF Group, Grouped
<1>9. Enter(who, tsd, g, row, row[0], n)
  BY <1>1, <1>4
<1>10. /\ who \in online /\ tsd \in online
       /\ online' = online /\ flagGroup' = flagGroup
       /\ g \in Slots /\ g # 0 /\ n \in 2..MaxMembers
       /\ row \in [Places -> Players \cup {NoId}]
  BY <1>1, <1>3, <1>4, <1>5
<1>. HIDE DEF S, g, m, n
<1>. QED  BY <1>6, <1>7, <1>8, <1>9, <1>10, EnterKeeps

----------------------------------------------------------------------------
(* The specification.                                                      *)

\* A player logs in.
LEMMA LoginKeeps ==
  ASSUME IInv, NEW p \in Players, intif_mmo_tosd(p)
  PROVE  IInv'
<1>1. /\ p \notin online /\ online' = online \cup {p} /\ group_count[p] = 0
      /\ groups' = groups /\ group_count' = group_count
      /\ group_leader' = group_leader /\ groupid' = groupid
  BY DEF intif_mmo_tosd, IInv, Idle
<1>2. flagGroup' \in [Players -> BOOLEAN]
  BY DEF intif_mmo_tosd, IInv, TypeOK
<1>3. TypeOK' /\ Idle'
  BY <1>1, <1>2 DEF IInv, TypeOK, Idle
<1>4. \A q \in Players : Grouped(q)' <=> Grouped(q)
  BY <1>1 DEF Grouped
<1>5. ASSUME NEW q \in Players, Agrees(q) PROVE Agrees(q)'
  BY <1>1, <1>5 DEF Agrees, ListedBy
<1>6. ListedAreMembers' /\ SlotInUse'
  BY <1>1, <1>4, <1>5 DEF IInv, ListedAreMembers, SlotInUse
<1>. QED  BY <1>3, <1>6 DEF IInv

\* The setting alone is no part of the invariant but for its type.
LEMMA SettingKeeps ==
  ASSUME IInv, flagGroup' \in [Players -> BOOLEAN],
         UNCHANGED <<groups, online, group_count, group_leader, groupid>>
  PROVE  IInv'
BY DEF IInv, TypeOK, Idle, ListedAreMembers, Agrees, ListedBy, SlotInUse, Grouped

\* What Init and every action of Next preserve: the reason why the members of a
\* group, who each keep their own copy of it, never disagree.
THEOREM SpecIInv == Spec => []IInv
<1>1. Init => IInv
  BY GroupsAssumption DEF Init, IInv, TypeOK, Idle, ListedAreMembers, SlotInUse,
     Grouped, Slots, Places
<1>2. IInv /\ [Next]_vars => IInv'
  <2>. SUFFICES ASSUME IInv, [Next]_vars PROVE IInv'
    OBVIOUS
  <2>1. ASSUME NEW p \in Players, intif_mmo_tosd(p) PROVE IInv'
    BY <2>1, LoginKeeps
  <2>2. ASSUME NEW p \in Players, clif_handle_disconnect(p) PROVE IInv'
    <3>1. p \in online /\ Leaves(p, TRUE) /\ online' \in {online, online \ {p}}
      BY <2>2 DEF clif_handle_disconnect
    <3>2. flagGroup' \in [Players -> BOOLEAN]
      BY <2>2 DEF clif_handle_disconnect, IInv, TypeOK
    <3>. QED  BY <3>1, <3>2, LeavesKeeps
  <2>3. ASSUME NEW who \in Players, NEW tsd \in Players, clif_addgroup_Expels(who, tsd)
        PROVE  IInv'
    <3>1. tsd \in online /\ Leaves(tsd, FALSE) /\ online' \in {online, online \ {tsd}}
      BY <2>3 DEF clif_addgroup_Expels, clif_leavegroup
    <3>2. flagGroup' \in [Players -> BOOLEAN]
      BY <2>3 DEF clif_addgroup_Expels, IInv, TypeOK
    <3>. QED  BY <3>1, <3>2, LeavesKeeps
  <2>4. ASSUME NEW who \in Players, NEW tsd \in Players, clif_addgroup_Founds(who, tsd)
        PROVE  IInv'
    BY <2>4, FoundsKeeps
  <2>5. ASSUME NEW who \in Players, NEW tsd \in Players, clif_addgroup_Joins(who, tsd)
        PROVE  IInv'
    BY <2>5, JoinsKeeps
  <2>6. ASSUME NEW who \in Players, clif_changestatus_group(who) PROVE IInv'
    <3>1. who \in online /\ online' = online /\ flagGroup' \in [Players -> BOOLEAN]
      BY <2>6 DEF clif_changestatus_group, IInv, TypeOK
    <3>2. CASE flagGroup[who] /\ group_count[who] > 0
      <4>1. Leaves(who, FALSE)
        BY <2>6, <3>2 DEF clif_changestatus_group, clif_leavegroup
      <4>. QED  BY <3>1, <4>1, LeavesKeeps
    <3>3. CASE ~(flagGroup[who] /\ group_count[who] > 0)
      <4>1. UNCHANGED <<groups, online, group_count, group_leader, groupid>>
        BY <2>6, <3>3 DEF clif_changestatus_group
      <4>. QED  BY <3>1, <4>1, SettingKeeps
    <3>. QED  BY <3>2, <3>3
  <2>7. CASE UNCHANGED vars
    <3>1. /\ flagGroup' \in [Players -> BOOLEAN]
          /\ UNCHANGED <<groups, online, group_count, group_leader, groupid>>
      BY <2>7 DEF vars, IInv, TypeOK
    <3>. QED  BY <3>1, SettingKeeps
  <2>. QED  BY <2>1, <2>2, <2>3, <2>4, <2>5, <2>6, <2>7 DEF Next
<1>. QED  BY <1>1, <1>2, PTL DEF Spec

\* Counts stay between 0 and MAX_GROUP_MEMBERS and slots inside the table,
\* so that no handler writes past groups[][].
THEOREM SpecTypeOK == Spec => []TypeOK
<1>1. IInv => TypeOK
  BY DEF IInv
<1>. QED  BY <1>1, SpecIInv, PTL

\* Members agree about slot, number, leader and each other, all of them online.
THEOREM SpecListedAreMembers == Spec => []ListedAreMembers
<1>1. IInv => ListedAreMembers
  BY DEF IInv
<1>. QED  BY <1>1, SpecIInv, PTL

\* No slot of the table is lost or given away twice.
THEOREM SpecSlotInUse == Spec => []SlotInUse
<1>1. IInv => SlotInUse
  BY DEF IInv
<1>. QED  BY <1>1, SpecIInv, PTL

\* Nobody is sent away by the leader of another group.
THEOREM SpecExpelWithinGroup == Spec => []ExpelWithinGroup
<1>1. IInv => ExpelWithinGroup
  BY ExpelFollows DEF IInv
<1>. QED  BY <1>1, SpecIInv, PTL

----------------------------------------------------------------------------
(* Seniority.                                                              *)

\* p keeps its slot, and whoever it finds before and after a step moves up one
\* place if it was behind place k, and otherwise stays.
KeepsSlot(p) == groupid'[p] = groupid[p]
MovesUp(p) ==
  \E k \in Int :
    \A x \in 0..(group_count'[p] - 1) : \A y \in 0..(group_count[p] - 1) :
      groups'[groupid'[p]][x] = groups[groupid[p]][y]
        => y = IF x < k THEN x ELSE x + 1

\* The place of a member is what Rank chooses.
LEMMA RankIs ==
  IInv => \A p \in Players : Grouped(p) => \A t :
            \A x \in 0..(group_count[p] - 1) :
              groups[groupid[p]][x] = t => Rank(p, t) = x
<1>. SUFFICES ASSUME IInv, NEW p \in Players, Grouped(p), NEW t,
                     NEW x \in 0..(group_count[p] - 1),
                     groups[groupid[p]][x] = t
              PROVE  Rank(p, t) = x
  OBVIOUS
<1>1. \A y \in 0..(group_count[p] - 1) : groups[groupid[p]][y] = t => x = y
  BY DEF IInv, ListedAreMembers, Agrees
<1>. QED  BY <1>1 DEF Rank

\* The same after a step.
LEMMA RankIsNext ==
  IInv' => \A p \in Players : Grouped(p)' => \A t :
             \A x \in 0..(group_count'[p] - 1) :
               groups'[groupid'[p]][x] = t => Rank(p, t)' = x
<1>1. (IInv => \A p \in Players : Grouped(p) => \A t :
            \A x \in 0..(group_count[p] - 1) :
              groups[groupid[p]][x] = t => Rank(p, t) = x)'
  BY RankIs, PTL
<1>. QED  BY <1>1

\* Moving up by one place behind a gap keeps the order.
LEMMA MovesUpKeepsOrder ==
  ASSUME IInv, IInv', NEW p \in Players, Grouped(p), Grouped(p)', MovesUp(p),
         NEW q \in ListedBy(p) \cap ListedBy(p)',
         NEW r \in ListedBy(p) \cap ListedBy(p)'
  PROVE  Rank(p, q) < Rank(p, r) <=> Rank(p, q)' < Rank(p, r)'
<1>1. PICK k \in Int :
        \A x \in 0..(group_count'[p] - 1) : \A y \in 0..(group_count[p] - 1) :
          groups'[groupid'[p]][x] = groups[groupid[p]][y]
            => y = IF x < k THEN x ELSE x + 1
  BY DEF MovesUp
<1>2. ASSUME NEW t \in ListedBy(p) \cap ListedBy(p)'
      PROVE  /\ Rank(p, t)' \in Int
             /\ Rank(p, t) = IF Rank(p, t)' < k THEN Rank(p, t)' ELSE Rank(p, t)' + 1
  <2>1. PICK y \in 0..(group_count[p] - 1) : groups[groupid[p]][y] = t
    BY DEF ListedBy
  <2>2. PICK x \in 0..(group_count'[p] - 1) : groups'[groupid'[p]][x] = t
    BY DEF ListedBy
  <2>3. Rank(p, t) = y
    BY <2>1, RankIs
  <2>4. Rank(p, t)' = x
    BY <2>2, RankIsNext
  <2>. QED  BY <1>1, <2>1, <2>2, <2>3, <2>4
<1>. QED  BY <1>2

\* A player whose group is not touched, or only gains a member, stays.
LEMMA SameRow ==
  ASSUME IInv, NEW p \in Players, Grouped(p), KeepsSlot(p),
         group_count'[p] \in Int, NEW T, T \cap ListedBy(p) = {},
         \A x \in 0..(group_count'[p] - 1) :
           \/ groups'[groupid[p]][x] \in T
           \/ /\ x \in 0..(group_count[p] - 1)
              /\ groups'[groupid[p]][x] = groups[groupid[p]][x]
  PROVE  MovesUp(p)
<1>1. \A x, y \in 0..(group_count[p] - 1) :
        groups[groupid[p]][x] = groups[groupid[p]][y] => x = y
  BY DEF IInv, ListedAreMembers, Agrees
<1>2. \A y \in 0..(group_count[p] - 1) : groups[groupid[p]][y] \notin T
  BY DEF ListedBy
<1>3. ASSUME NEW x \in 0..(group_count'[p] - 1),
             NEW y \in 0..(group_count[p] - 1),
             groups'[groupid'[p]][x] = groups[groupid[p]][y]
      PROVE  y = IF x < group_count'[p] THEN x ELSE x + 1
  <2>1. groups'[groupid[p]][x] = groups[groupid[p]][y]
    BY <1>3 DEF KeepsSlot
  <2>2. x \in 0..(group_count[p] - 1) /\ groups[groupid[p]][x] = groups[groupid[p]][y]
    BY <1>2, <2>1
  <2>3. y = x /\ x < group_count'[p]
    BY <1>1, <2>2
  <2>. QED  BY <2>3
<1>. QED  BY <1>3 DEF MovesUp

\* Those behind the player that leaves move up.
LEMMA LeavesOrder ==
  ASSUME IInv, IInv', NEW who \in online, NEW freed \in BOOLEAN, Leaves(who, freed),
         NEW p \in Players, Grouped(p), Grouped(p)'
  PROVE  KeepsSlot(p) /\ MovesUp(p)
<1>. DEFINE g == groupid[who]
            m == group_count[who]
            n == m - 1
            row == Removed(groups[g], m, who)
<1>1. /\ who \in Players /\ m \in 0..MaxMembers
      /\ group_count[p] \in Int /\ group_count'[p] \in Int /\ group_count'[p] # 0
  BY DEF IInv, TypeOK, Grouped
<1>2. CASE m = 0
  <2>1. groups' = groups /\ group_count' = group_count /\ groupid' = groupid
    BY <1>2, LeavesNothing
  <2>2. {} \cap ListedBy(p) = {}
    OBVIOUS
  <2>3. KeepsSlot(p)
    BY <2>1 DEF KeepsSlot
  <2>. QED  BY <1>1, <2>1, <2>2, <2>3, SameRow
<1>3. CASE m # 0
  <2>1. Grouped(who) /\ who \in Group(g)
    BY <1>1, <1>3 DEF IInv, Grouped, Group
  <2>2. /\ g \in Slots /\ m \in 2..MaxMembers
        /\ groups[g] \in [Places -> Players \cup {NoId}]
        /\ \A q \in Players : Listed(groups[g], m, q) <=> q \in Group(g)
        /\ \A x \in 0..(m - 1) :
             \A y \in 0..(m - 1) : groups[g][y] = groups[g][x] => x = y
    BY <1>1, <2>1, RowIsGroup DEF IInv
  <2>3. Told(row, n) = Group(g) \ {who}
    BY <1>3, RowLeft
  <2>4. /\ groups' = [groups EXCEPT ![g] = Freed(row, n)]
        /\ group_count' = CountsLeft(who, row, n)
        /\ groupid' = [q \in Players |->
              IF q = who \/ q \in Alone(row, n) THEN 0 ELSE groupid[q]]
    BY DEF Leaves
  <2>5. p # who /\ p \notin Alone(row, n)
    BY <1>1, <2>4 DEF CountsLeft
  <2>6. KeepsSlot(p)
    BY <2>4, <2>5 DEF KeepsSlot
  <2>7. group_count'[p] = IF p \in Group(g) THEN n ELSE group_count[p]
    BY <2>3, <2>4, <2>5 DEF CountsLeft
  <2>8. CASE p \notin Group(g)
    <3>1. groupid[p] # g /\ groupid[p] \in Slots
      BY <2>8 DEF Group, IInv, TypeOK
    <3>2. groups'[groupid[p]] = groups[groupid[p]]
      BY <2>4, <3>1 DEF IInv, TypeOK
    <3>3. {} \cap ListedBy(p) = {}
      OBVIOUS
    <3>4. group_count'[p] = group_count[p]
      BY <2>7, <2>8
    <3>. QED  BY <1>1, <2>6, <3>2, <3>3, <3>4, SameRow
  <2>9. CASE p \in Group(g)
    <3>1. groupid[p] = g /\ group_count[p] = m /\ groupid'[p] = g
      BY <1>1, <2>1, <2>6, <2>9, SameSlot DEF IInv, Group, KeepsSlot
    <3>2. groups'[g] = row /\ group_count'[p] = n
      <4>1. Alone(row, n) = {}
        BY <2>3, <2>5, <2>9 DEF Alone
      <4>. QED  BY <2>2, <2>4, <2>7, <2>9, <4>1 DEF Freed, IInv, TypeOK
    <3>3. PICK k \in 0..(m - 1) : groups[g][k] = who
      BY <1>1, <2>1, <2>2 DEF Listed
    <3>4. /\ m \in 1..MaxMembers
          /\ \A x \in 0..(m - 1) : groups[g][x] = who => x = k
      BY <2>2, <3>3
    <3>. HIDE DEF g, m
    <3>5. \A x \in 0..(m - 2) :
            row[x] = IF x < k THEN groups[g][x] ELSE groups[g][x + 1]
      BY <1>1, <2>2, <3>3, <3>4, RemovedRow
    <3>. HIDE DEF row
    <3>6. ASSUME NEW x \in 0..(n - 1), NEW y \in 0..(m - 1), row[x] = groups[g][y]
          PROVE  y = IF x < k THEN x ELSE x + 1
      <4>1. x \in 0..(m - 2) /\ x \in 0..(m - 1) /\ x + 1 \in 0..(m - 1)
        BY <2>2
      <4>. QED  BY <2>2, <3>5, <3>6, <4>1
    <3>7. ASSUME NEW x \in 0..(group_count'[p] - 1), NEW y \in 0..(group_count[p] - 1),
                 groups'[groupid'[p]][x] = groups[groupid[p]][y]
          PROVE  y = IF x < k THEN x ELSE x + 1
      <4>1. x \in 0..(n - 1) /\ y \in 0..(m - 1) /\ row[x] = groups[g][y]
        BY <3>1, <3>2, <3>7
      <4>. QED  BY <3>6, <4>1
    <3>8. MovesUp(p)
      <4>1. k \in Int
        OBVIOUS
      <4>2. \A x \in 0..(group_count'[p] - 1) : \A y \in 0..(group_count[p] - 1) :
              groups'[groupid'[p]][x] = groups[groupid[p]][y]
                => y = IF x < k THEN x ELSE x + 1
        BY <3>7
      <4>. QED  BY <4>1, <4>2, Zenon DEF MovesUp
    <3>. QED  BY <2>6, <3>8
  <2>. QED  BY <2>8, <2>9
<1>. QED  BY <1>2, <1>3

\* A member that is taken in is last, and founders had no group.
LEMMA EnterOrder ==
  ASSUME IInv, IInv', NEW who \in Players, NEW tsd \in Players,
         clif_addgroup_Founds(who, tsd) \/ clif_addgroup_Joins(who, tsd),
         NEW p \in Players, Grouped(p), Grouped(p)'
  PROVE  KeepsSlot(p) /\ MovesUp(p)
<1>1. group_count[p] \in Int /\ group_count'[p] \in Int /\ groupid[p] \in Slots
  BY DEF IInv, TypeOK
<1>2. {} \cap ListedBy(p) = {}
  OBVIOUS
<1>3. CASE clif_addgroup_Founds(who, tsd)
  <2>1. PICK g \in Slots :
          /\ FreeSlot(g)
          /\ Enter(who, tsd, g, [groups[g] EXCEPT ![0] = who, ![1] = tsd], who, 2)
    BY <1>3 DEF clif_addgroup_Founds
  <2>2. group_count[who] = 0 /\ group_count[tsd] = 0
    BY <1>3 DEF clif_addgroup_Founds, MayTakeIn
  <2>3. p # who /\ p # tsd
    BY <2>2 DEF Grouped
  <2>4. groupid[p] # g
    BY <2>1, GroupedSlotTaken, GroupsAssumption DEF FreeSlot, IInv
  <2>5. groups'[groupid[p]] = groups[groupid[p]] /\ groupid'[p] = groupid[p]
    BY <1>1, <2>1, <2>3, <2>4 DEF Enter, IInv, TypeOK
  <2>6. p \notin Told([groups[g] EXCEPT ![0] = who, ![1] = tsd], 2)
    <3>1. groups[g] \in [Places -> Players \cup {NoId}] /\ 0 \in Places /\ 1 \in Places
      BY GroupsAssumption DEF IInv, TypeOK, Places
    <3>2. /\ [groups[g] EXCEPT ![0] = who, ![1] = tsd][0] = who
          /\ [groups[g] EXCEPT ![0] = who, ![1] = tsd][1] = tsd
      BY <3>1
    <3>3. \A x \in 0..(2 - 1) : x = 0 \/ x = 1
      OBVIOUS
    <3>. QED  BY <2>3, <3>2, <3>3 DEF Told, Listed
  <2>7. group_count'[p] = group_count[p]
    BY <2>1, <2>3, <2>6 DEF Enter
  <2>. QED  BY <1>1, <1>2, <2>5, <2>7, SameRow DEF KeepsSlot
<1>4. CASE clif_addgroup_Joins(who, tsd)
  <2>. DEFINE g == groupid[who]
              m == group_count[who]
              row == [groups[g] EXCEPT ![m] = tsd]
  <2>1. /\ who \in online /\ m # 0 /\ m < MaxMembers /\ group_count[tsd] = 0
        /\ Enter(who, tsd, g, row, group_leader[who], m + 1)
    BY <1>4 DEF clif_addgroup_Joins, MayTakeIn
  <2>2. Grouped(who) /\ who \in Group(g) /\ p # tsd
    BY <2>1 DEF Grouped, Group, IInv, TypeOK
  <2>3. /\ g \in Slots /\ m \in 2..MaxMembers
        /\ groups[g] \in [Places -> Players \cup {NoId}]
        /\ \A q \in Players : Listed(groups[g], m, q) <=> q \in Group(g)
        /\ \A x \in 0..(m - 1) : groups[g][x] \in Group(g)
    BY <2>2, RowIsGroup DEF IInv
  <2>4. /\ row[m] = tsd
        /\ \A x \in 0..(m - 1) : row[x] = groups[g][x]
    BY <2>1, <2>3, GroupsAssumption DEF Places
  <2>5. \A x \in 0..m : x = m \/ x \in 0..(m - 1)
    BY <2>3
  <2>6. KeepsSlot(p)
    BY <2>1, <2>2 DEF Enter, KeepsSlot
  <2>7. (m + 1) - 1 = m
    BY <2>3
  <2>8. Told(row, m + 1) \subseteq Group(g) \cup {tsd}
    <3>. HIDE DEF row
    <3>. QED  BY <2>3, <2>4, <2>5, <2>7 DEF Told, Listed
  <2>9. CASE p \notin Group(g)
    <3>1. groupid[p] # g
      BY <2>9 DEF Group
    <3>2. groups'[groupid[p]] = groups[groupid[p]]
      BY <1>1, <2>1, <3>1 DEF Enter, IInv, TypeOK
    <3>3. group_count'[p] = group_count[p]
      BY <2>1, <2>2, <2>8, <2>9 DEF Enter
    <3>. QED  BY <1>1, <1>2, <2>6, <3>2, <3>3, SameRow
  <2>10. CASE p \in Group(g)
    <3>1. groupid[p] = g /\ group_count[p] = m
      BY <2>2, <2>10, SameSlot DEF IInv, Group
    <3>2. groups'[g] = row
      BY <2>1, <2>3 DEF Enter, IInv, TypeOK
    <3>3. group_count'[p] \in {m, m + 1}
      BY <2>1, <3>1 DEF Enter
    <3>4. {tsd} \cap ListedBy(p) = {}
      <4>1. tsd \notin Group(g)
        BY <2>1 DEF Group, Grouped
      <4>. QED  BY <2>3, <3>1, <4>1 DEF ListedBy
    <3>5. \A x \in 0..(group_count'[p] - 1) :
            groups'[g][x] \in {tsd} \/ (x \in 0..(m - 1) /\ groups'[g][x] = groups[g][x])
      <4>. HIDE DEF row
      <4>1. 0..(group_count'[p] - 1) \subseteq 0..m
        BY <2>3, <3>3
      <4>. QED  BY <2>4, <2>5, <3>2, <4>1
    <3>. QED  BY <1>1, <2>6, <3>1, <3>4, <3>5, SameRow
  <2>. QED  BY <2>9, <2>10
<1>. QED  BY <1>3, <1>4

\* A step that leaves the table and the numbers alone.
LEMMA QuietOrder ==
  ASSUME IInv, UNCHANGED <<groups, group_count, groupid>>,
         NEW p \in Players, Grouped(p)
  PROVE  KeepsSlot(p) /\ MovesUp(p)
<1>1. group_count[p] \in Int /\ {} \cap ListedBy(p) = {}
  BY DEF IInv, TypeOK
<1>2. KeepsSlot(p)
  BY DEF KeepsSlot
<1>. QED  BY <1>1, <1>2, SameRow

\* Members keep their slot and their order, whoever comes and goes, so that
\* the next leader is always the eldest member that stays.
THEOREM SpecSeniorityKept == Spec => SeniorityKept
<1>1. ASSUME IInv, IInv', Next, NEW p \in Players, Grouped(p), Grouped(p)'
      PROVE  KeepsSlot(p) /\ MovesUp(p)
  <2>1. ASSUME NEW q \in Players, intif_mmo_tosd(q)
        PROVE  KeepsSlot(p) /\ MovesUp(p)
    BY <1>1, <2>1, QuietOrder DEF intif_mmo_tosd
  <2>2. ASSUME NEW q \in Players, clif_handle_disconnect(q)
        PROVE  KeepsSlot(p) /\ MovesUp(p)
    BY <1>1, <2>2, LeavesOrder DEF clif_handle_disconnect
  <2>3. ASSUME NEW who \in Players, NEW tsd \in Players,
               clif_addgroup_Expels(who, tsd)
        PROVE  KeepsSlot(p) /\ MovesUp(p)
    BY <1>1, <2>3, LeavesOrder DEF clif_addgroup_Expels, clif_leavegroup
  <2>4. ASSUME NEW who \in Players, NEW tsd \in Players,
               clif_addgroup_Founds(who, tsd) \/ clif_addgroup_Joins(who, tsd)
        PROVE  KeepsSlot(p) /\ MovesUp(p)
    BY <1>1, <2>4, EnterOrder
  <2>5. ASSUME NEW who \in Players, clif_changestatus_group(who)
        PROVE  KeepsSlot(p) /\ MovesUp(p)
    <3>1. CASE flagGroup[who] /\ group_count[who] > 0
      BY <1>1, <2>5, <3>1, LeavesOrder DEF clif_changestatus_group, clif_leavegroup
    <3>2. CASE ~(flagGroup[who] /\ group_count[who] > 0)
      BY <1>1, <2>5, <3>2, QuietOrder DEF clif_changestatus_group
    <3>. QED  BY <3>1, <3>2
  <2>. QED  BY <1>1, <2>1, <2>2, <2>3, <2>4, <2>5 DEF Next
<1>2. IInv /\ IInv' /\ [Next]_vars =>
        [\A p \in Players :
           Grouped(p) /\ Grouped(p)' =>
             /\ groupid'[p] = groupid[p]
             /\ \A q, r \in ListedBy(p) \cap ListedBy(p)' :
                  Rank(p, q) < Rank(p, r) <=> Rank(p, q)' < Rank(p, r)']_vars
  BY <1>1, MovesUpKeepsOrder DEF KeepsSlot
<1>. QED  BY <1>2, SpecIInv, PTL DEF Spec, SeniorityKept
=============================================================================
