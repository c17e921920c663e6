-------------------------- MODULE WorldPartsProofs --------------------------
(***************************************************************************)
(* What the run world_parts checks, for any values of the constants: the   *)
(* life of a mob, the life of a player, and in four parts that what a      *)
(* client is shown is what the server means.                               *)
(*                                                                         *)
(* Dialogs: until something is crossed there is one question at most       *)
(* between the server and the client, and it is that of the player's       *)
(* coroutine while that waits (Orderly).                                   *)
(* Sight: the screen stands where the strips assume it (Standing); the     *)
(* rest is the geometry of the strips, axis by axis.                       *)
(* Figures: npcs do not die.                                               *)
(* Looks: ScreenIsTrue is inductive beside the types.  A step changes one  *)
(* player p, so what the others show of each other stays as it was         *)
(* (PairsKeep); what is left of each handler is what p shows of the        *)
(* others, and what they show of p.  Each of the three functions that draw *)
(* (sendchararea, lookgone, updatestate) is described once, pair by pair.  *)
(*                                                                         *)
(* MobLife: scripts call each other to any depth, so the invariant         *)
(* describes every call under way (CallsAre): the calls below the last     *)
(* wait at the stages where a script may call again, and what those stages *)
(* leave undone is blamed on the calls that came between.  TablesAre says  *)
(* what the tables of threat and damage hold meanwhile.  A reward is owed  *)
(* (Owed) for each state that a turn wrote over a death.                   *)
(* PlayerLife: LifeIs says the same of a player: what each call on the way *)
(* still owes, and which irregularity explains what it finds changed.      *)
(***************************************************************************)
EXTENDS MCWorldParts, TLAPS, SequenceTheorems, WellFoundedInduction

(* Dialogs.                                                                *)

Packets == [event : {"act", "answer"},
            answer : Questions \cup {NoWindow}, choice : Replies]

OnlyIs(s, e) == Len(s) = 1 /\ s[1] = e

\* What is between server and client: nothing, an act of the player, or one
\* question or its answer.
Silence == up = <<>> /\ down = <<>> /\ window = NoWindow
JustActed ==
  Len(up) = 1 /\ up[1].event = "act" /\ down = <<>> /\ window = NoWindow
Asked(q) ==
  \/ up = <<>> /\ OnlyIs(down, q) /\ window = NoWindow
  \/ up = <<>> /\ down = <<>> /\ window = q
  \/ /\ Len(up) = 1 /\ up[1].event = "answer" /\ up[1].answer = q
     /\ down = <<>> /\ window = NoWindow

\* The player's coroutine runs, from the main loop or from an event.
CoRuns ==
  /\ coref # 0
  /\ OnlyIs(running, coref)
     \/ (Len(running) = 2 /\ running[1] = 0 /\ running[2] = coref)
Waiting == [co |-> coref, kind |-> asks]

Orderly ==
  /\ ~misfit
  /\ asks = "none" <=> coref = 0 \/ CoRuns
  /\ \/ /\ running = <<>> /\ odd = "none"
        /\ IF coref = 0 THEN Silence \/ JustActed ELSE Asked(Waiting)
     \/ /\ running = <<>> /\ odd = "left"
        /\ Silence \/ JustActed \/ (coref = 0 /\ \E q \in Questions : Asked(q))
     \/ /\ OnlyIs(running, 0) /\ odd = "none"
        /\ IF coref = 0 THEN Silence ELSE Asked(Waiting)
     \/ CoRuns /\ odd = "none" /\ Silence

DialogInv == DialogTypeOK /\ (odd # "crossed" => Orderly)

----------------------------------------------------------------------------
(* Sequences of at most two.                                               *)

\* One more at the end.
LEMMA AppendedIs ==
  ASSUME NEW S, NEW q \in Seq(S), NEW e \in S
  PROVE  /\ Append(q, e) \in Seq(S) /\ Append(q, e) # <<>>
         /\ Len(Append(q, e)) = Len(q) + 1 /\ Len(q) \in Nat
         /\ Append(q, e)[Len(q) + 1] = e
         /\ \A i \in 1..Len(q) : Append(q, e)[i] = q[i]
         /\ q = <<>> <=> Len(q) = 0
OBVIOUS

\* All but the first.
LEMMA TailIs ==
  ASSUME NEW S, NEW q \in Seq(S), q # <<>>
  PROVE  /\ Tail(q) \in Seq(S) /\ Head(q) = q[1] /\ q[1] \in S
         /\ Tail(q) = <<>> <=> Len(q) = 1
         /\ Len(Tail(q)) = Len(q) - 1 /\ Len(q) \in Nat \ {0}
<1>1. Tail(q) \in Seq(S) /\ Len(Tail(q)) = Len(q) - 1 /\ Head(q) \in S
  BY HeadTailProperties
<1>2. Head(q) = q[1] /\ Len(q) \in Nat \ {0}
  BY EmptySeq
<1>3. Tail(q) = <<>> <=> Len(Tail(q)) = 0
  BY <1>1, EmptySeq
<1>. QED  BY <1>1, <1>2, <1>3

\* The first calls, up to one of them.
LEMMA FirstIs ==
  ASSUME NEW S, NEW q \in Seq(S), NEW n \in Nat, n <= Len(q)
  PROVE  /\ SubSeq(q, 1, n) \in Seq(S) /\ Len(SubSeq(q, 1, n)) = n
         /\ SubSeq(q, 1, n) = <<>> <=> n = 0
         /\ \A i \in 1..n : SubSeq(q, 1, n)[i] = q[i]
<1>. DEFINE c == SubSeq(q, 1, n)
<1>1. 1 \in Int /\ n \in Int /\ \A i \in 1..n : q[i] \in S
  OBVIOUS
<1>2. /\ c \in Seq(S) /\ Len(c) = IF 1 <= n THEN n - 1 + 1 ELSE 0
      /\ \A i \in 1..n - 1 + 1 : c[i] = q[1 + i - 1]
  BY <1>1, SubSeqProperties
<1>. HIDE DEF c
<1>3. Len(c) = n /\ n - 1 + 1 = n /\ \A i \in 1..n : 1 + i - 1 = i
  BY <1>2
<1>4. \A i \in 1..n : c[i] = q[i]
  BY <1>2, <1>3
<1>5. c = <<>> <=> n = 0
  BY <1>2, <1>3
<1>. QED  BY <1>2, <1>3, <1>4, <1>5 DEF c

\* All calls but the last.
LEMMA ButLastIs ==
  ASSUME NEW S, NEW q \in Seq(S), q # <<>>
  PROVE  /\ SubSeq(q, 1, Len(q) - 1) \in Seq(S)
         /\ Len(SubSeq(q, 1, Len(q) - 1)) = Len(q) - 1 /\ Len(q) \in Nat \ {0}
         /\ \A i \in 1..Len(q) - 1 : SubSeq(q, 1, Len(q) - 1)[i] = q[i]
         /\ SubSeq(q, 1, Len(q) - 1) = <<>> <=> Len(q) = 1
         /\ q[Len(q)] \in S
<1>. DEFINE n == Len(q) - 1
<1>1. /\ n \in Nat /\ n <= Len(q) /\ Len(q) \in Nat \ {0} /\ (n = 0 <=> Len(q) = 1)
      /\ q[Len(q)] \in S
  OBVIOUS
<1>. HIDE DEF n
<1>2. /\ SubSeq(q, 1, n) \in Seq(S) /\ Len(SubSeq(q, 1, n)) = n
      /\ SubSeq(q, 1, n) = <<>> <=> n = 0
      /\ \A i \in 1..n : SubSeq(q, 1, n)[i] = q[i]
  BY <1>1, FirstIs
<1>. QED  BY <1>1, <1>2 DEF n

\* The lowest of some numbers, and the highest of some up to a bound.
LEMMA LeastIsOne ==
  ASSUME NEW S, S \subseteq Nat, S # {}
  PROVE  \E x \in S : \A y \in S : x <= y
<1>1. PICK x \in S : \A y \in S : ~(<<y, x>> \in OpToRel(<, Nat))
  BY NatLessThanWellFounded, WFMin
<1>2. \A y \in S : ~(y < x)
  BY <1>1 DEF OpToRel
<1>. QED  BY <1>2

\* Some numbers up to a bound have a highest.
LEMMA GreatestIsOne ==
  ASSUME NEW n \in Nat, NEW S, S \subseteq 1..n, S # {}
  PROVE  \E x \in S : \A y \in S : y <= x
<1>. DEFINE T == {n - y : y \in S}
<1>1. T \subseteq Nat /\ T # {}
  <2>1. ASSUME NEW y \in S PROVE n - y \in Nat
    <3>1. y \in 1..n
      OBVIOUS
    <3>. QED  BY <3>1
  <2>. QED  BY <2>1
<1>2. PICK t \in T : \A u \in T : t <= u
  BY <1>1, LeastIsOne
<1>3. PICK x \in S : t = n - x
  OBVIOUS
<1>4. ASSUME NEW y \in S PROVE y <= x
  <2>1. n - y \in T /\ x \in Int /\ y \in Int
    OBVIOUS
  <2>2. n - x <= n - y
    BY <1>2, <1>3, <2>1
  <2>. QED  BY <2>1, <2>2
<1>. QED  BY <1>4

----------------------------------------------------------------------------
(* A script that runs.                                                     *)

\* What the types say.
LEMMA DialogTypes ==
  ASSUME DialogInv
  PROVE  /\ coref \in 0..MaxCo /\ coref \in Int /\ asks \in Kinds \cup {"none"}
         /\ running \in Seq(0..MaxCo) /\ Len(running) \in Nat
         /\ up \in Seq(Packets) /\ down \in Seq(Questions)
         /\ window \in Questions \cup {NoWindow} /\ NoWindow \notin Questions
         /\ "none" \notin Kinds /\ MaxCo \in Nat \ {0}
         /\ Waiting.co = coref /\ Waiting.kind = asks
         /\ coref # 0 /\ asks # "none" => Waiting \in Questions
         /\ 0 \in 0..MaxCo /\ 0 \in 0..1 /\ 1 \in 0..1
         /\ <<>> \in Seq(0..MaxCo) /\ <<0>> \in Seq(0..MaxCo)
         /\ \A c \in 0..MaxCo : <<c>> \in Seq(0..MaxCo)
<1>1. "none" \notin Kinds /\ MaxCo \in Nat \ {0}
  BY DialogAssumption DEF AllKinds
<1>2. NoWindow \notin Questions
  BY DEF NoWindow, Questions, CoIds
<1>3. /\ 0 \in 0..MaxCo /\ 0 \in 0..1 /\ 1 \in 0..1
      /\ <<>> \in Seq(0..MaxCo) /\ <<0>> \in Seq(0..MaxCo)
      /\ \A c \in 0..MaxCo : <<c>> \in Seq(0..MaxCo)
  BY <1>1
<1>. QED  BY <1>1, <1>2, <1>3
          DEF DialogInv, DialogTypeOK, Packets, Waiting, Questions, CoIds

\* A coroutine that is dropped and crossed with something else.
LEMMA CrossedKeeps ==
  ASSUME DialogInv, coref' = 0, asks' = "none", odd' = "crossed",
         running' \in Seq(0..MaxCo), crowd' \in 0..1,
         UNCHANGED <<co_timer, up, down, window, misfit>>
  PROVE  DialogInv'
<1>1. coref' \in 0..MaxCo
  BY DialogTypes
<1>. QED  BY <1>1 DEF DialogInv, DialogTypeOK

\* The innermost script ends with the player's coroutine dropped.
LEMMA OuterIs ==
  ASSUME DialogInv, running # <<>>
  PROVE  /\ Outer \in Seq(0..MaxCo) /\ Len(Outer) = Len(running) - 1
         /\ Outer = <<>> <=> Len(running) = 1
         /\ Len(running) >= 2 => Outer[1] = running[1]
         /\ Innermost \in 0..MaxCo
<1>1. running \in Seq(0..MaxCo)
  BY DialogTypes
<1>2. /\ Outer \in Seq(0..MaxCo) /\ Len(Outer) = Len(running) - 1
      /\ Len(running) \in Nat \ {0}
      /\ Outer = <<>> <=> Len(running) = 1
      /\ \A i \in 1..Len(running) - 1 : Outer[i] = running[i]
      /\ Innermost \in 0..MaxCo
  BY <1>1, ButLastIs DEF Outer, Innermost
<1>3. Len(running) >= 2 => 1 \in 1..Len(running) - 1
  BY <1>2
<1>. QED  BY <1>2, <1>3

\* An event starts a coroutine: the player has none, and nothing is under way.
LEMMA AsyncKeeps ==
  ASSUME DialogInv, sl_async
  PROVE  DialogInv'
<1>. DEFINE c == CHOOSE f \in Fresh : \A g \in Fresh : f <= g
<1>1. /\ running # <<>> /\ coref = 0 /\ Fresh # {} /\ coref' = c
      /\ running' = Append(running, c)
      /\ UNCHANGED <<asks, co_timer, crowd, up, down, window, odd, misfit>>
  BY DEF sl_async
<1>2. c \in CoIds
  <2>1. Fresh \subseteq Nat /\ Fresh \subseteq CoIds
    BY DialogAssumption DEF Fresh, CoIds
  <2>2. \E f \in Fresh : \A g \in Fresh : f <= g
    BY <1>1, <2>1, LeastIsOne
  <2>. QED  BY <2>1, <2>2
<1>. HIDE DEF c
<1>3. /\ running \in Seq(0..MaxCo) /\ Len(running) \in Nat
      /\ c \in 0..MaxCo /\ c # 0
  BY <1>2, DialogTypes DEF CoIds
<1>4. /\ running' \in Seq(0..MaxCo) /\ Len(running') = Len(running) + 1
      /\ running'[Len(running) + 1] = c
      /\ \A i \in 1..Len(running) : running'[i] = running[i]
  BY <1>1, <1>3, AppendedIs
<1>5. ASSUME odd # "crossed" PROVE Orderly'
  <2>1. ~misfit /\ asks = "none" /\ OnlyIs(running, 0) /\ odd = "none" /\ Silence
    BY <1>1, <1>5 DEF DialogInv, Orderly, CoRuns
  <2>2. CoRuns'
    BY <1>1, <1>3, <1>4, <2>1 DEF CoRuns, OnlyIs
  <2>. QED  BY <1>1, <2>1, <2>2 DEF Orderly, Silence
<1>. QED  BY <1>1, <1>3, <1>4, <1>5 DEF DialogInv, DialogTypeOK

\* A coroutine asks, and is the player's: its window is the only one.
LEMMA YieldKeeps ==
  ASSUME DialogInv, NEW kind, Yields(kind), Sends(kind)
  PROVE  DialogInv'
<1>. DEFINE q == [co |-> Innermost, kind |-> kind]
<1>1. /\ running # <<>> /\ Innermost # 0 /\ kind \in Kinds
      /\ asks' = IF Innermost = coref THEN kind ELSE asks
      /\ running' = Outer /\ down' = Append(down, q)
      /\ UNCHANGED <<coref, co_timer, crowd, up, window, odd, misfit>>
  BY DEF Yields, Sends, InCo
<1>2. q \in Questions
  BY <1>1, OuterIs, DialogTypes DEF Questions, CoIds
<1>3. q.co = Innermost /\ q.kind = kind /\ q = [co |-> Innermost, kind |-> kind]
  OBVIOUS
<1>. HIDE DEF q
<1>4. /\ down' \in Seq(Questions)
      /\ down = <<>> => OnlyIs(down', q)
  BY <1>1, <1>2, AppendedIs, DialogTypes DEF OnlyIs
<1>5. /\ running' \in Seq(0..MaxCo) /\ Len(running') = Len(running) - 1
      /\ running' = <<>> <=> Len(running) = 1
      /\ Len(running) >= 2 => running'[1] = running[1]
  BY <1>1, OuterIs
<1>6. asks' \in Kinds \cup {"none"}
  BY <1>1, DialogTypes
<1>7. ASSUME odd # "crossed" PROVE Orderly'
  <2>1. ~misfit /\ CoRuns /\ odd = "none" /\ Silence
    BY <1>1, <1>7 DEF DialogInv, Orderly, OnlyIs, Innermost
  <2>2. Innermost = coref /\ coref # 0
    BY <2>1 DEF CoRuns, OnlyIs, Innermost
  <2>3. q = Waiting'
    BY <1>1, <1>3, <2>2 DEF Waiting
  <2>4. Asked(Waiting)'
    BY <1>1, <1>4, <2>1, <2>3 DEF Asked, Silence
  <2>5. running' = <<>> \/ OnlyIs(running', 0)
    BY <1>5, <2>1 DEF CoRuns, OnlyIs
  <2>6. asks' # "none" /\ ~CoRuns'
    <3>1. Len(running') # 2 /\ ~OnlyIs(running', coref)
      <4>1. Len(running) = 1 \/ (Len(running) = 2 /\ running[1] = 0)
        BY <2>1 DEF CoRuns, OnlyIs
      <4>2. Len(running') = 0 \/ (Len(running') = 1 /\ running'[1] = 0)
        BY <1>5, <4>1
      <4>. QED  BY <2>2, <4>2 DEF OnlyIs
    <3>2. asks' = kind /\ kind # "none"
      BY <1>1, <2>2, DialogTypes
    <3>. QED  BY <1>1, <3>1, <3>2 DEF CoRuns, OnlyIs
  <2>. QED  BY <1>1, <2>1, <2>2, <2>4, <2>5, <2>6 DEF Orderly
<1>. QED  BY <1>1, <1>4, <1>5, <1>6, <1>7 DEF DialogInv, DialogTypeOK

\* A coroutine ends, and every script up to some event with it.
LEMMA EndKeeps ==
  ASSUME DialogInv, InCo, sl_async_freeco, running' \in Seq(0..MaxCo),
         CoRuns => running' = <<>> \/ OnlyIs(running', 0),
         UNCHANGED <<co_timer, crowd, up, down, window, odd, misfit>>
  PROVE  DialogInv'
<1>1. ASSUME odd # "crossed" PROVE Orderly'
  <2>1. ~misfit /\ CoRuns /\ odd = "none" /\ Silence
    BY <1>1 DEF DialogInv, Orderly, OnlyIs, InCo, Innermost
  <2>2. ~CoRuns'
    BY DEF CoRuns, sl_async_freeco
  <2>. QED  BY <2>1, <2>2 DEF Orderly, Silence, sl_async_freeco
<1>2. 0 \in 0..MaxCo
  BY DialogTypes
<1>. QED  BY <1>1, <1>2 DEF DialogInv, DialogTypeOK, sl_async_freeco

\* A coroutine ends by itself or by an error.
LEMMA DoneKeeps ==
  ASSUME DialogInv, sl_async_done \/ sl_async_resume_error
  PROVE  DialogInv'
<1>1. /\ InCo /\ sl_async_freeco /\ running # <<>>
      /\ UNCHANGED <<co_timer, crowd, up, down, window, odd, misfit>>
  BY DEF sl_async_done, sl_async_resume_error, InCo
<1>2. CASE sl_async_done
  <2>1. running' = Outer
    BY <1>2 DEF sl_async_done
  <2>2. CoRuns => running' = <<>> \/ OnlyIs(running', 0)
    <3>1. /\ Len(Outer) = Len(running) - 1 /\ (Outer = <<>> <=> Len(running) = 1)
          /\ Len(running) >= 2 => Outer[1] = running[1]
      BY <1>1, OuterIs
    <3>. QED  BY <2>1, <3>1 DEF CoRuns, OnlyIs
  <2>. QED  BY <1>1, <2>1, <2>2, OuterIs, EndKeeps
<1>3. CASE sl_async_resume_error
  <2>. DEFINE events == {i \in DOMAIN running : running[i] = 0}
              last == CHOOSE i \in events : \A j \in events : j <= i
  <2>1. running' = IF events = {} THEN <<>> ELSE SubSeq(running, 1, last - 1)
    BY <1>3 DEF sl_async_resume_error
  <2>2. /\ running \in Seq(0..MaxCo) /\ Len(running) \in Nat
        /\ DOMAIN running = 1..Len(running)
    BY DialogTypes
  <2>3. CASE events = {}
    BY <1>1, <2>1, <2>3, EndKeeps
  <2>4. CASE events # {}
    <3>1. events \subseteq 1..Len(running)
      BY <2>2
    <3>2. last \in events
      BY <2>2, <2>4, <3>1, GreatestIsOne
    <3>3. last \in 1..Len(running) /\ running[last] = 0
      BY <2>2, <3>2
    <3>. HIDE DEF last
    <3>. DEFINE n == last - 1
    <3>4. n \in Nat /\ n <= Len(running) /\ running' = SubSeq(running, 1, n)
      BY <2>1, <2>4, <3>3
    <3>5. CoRuns => n = 0
      BY <3>3 DEF CoRuns, OnlyIs
    <3>. HIDE DEF n
    <3>6. running' \in Seq(0..MaxCo) /\ (CoRuns => running' = <<>>)
      BY <2>2, <3>4, <3>5, FirstIs
    <3>. QED  BY <1>1, <3>6, EndKeeps
  <2>. QED  BY <2>3, <2>4
<1>. QED  BY <1>2, <1>3

\* The script of an event has run.
LEMMA EventEndsKeeps ==
  ASSUME DialogInv, sl_doscript_stackargs
  PROVE  DialogInv'
<1>1. /\ running # <<>> /\ Innermost = 0 /\ running' = Outer
      /\ UNCHANGED <<coref, asks, co_timer, crowd, up, down, window, odd, misfit>>
  BY DEF sl_doscript_stackargs
<1>2. running' \in Seq(0..MaxCo) /\ (Len(running) = 1 => running' = <<>>)
  BY <1>1, OuterIs
<1>3. ASSUME odd # "crossed" PROVE Orderly'
  <2>1. ~CoRuns
    BY <1>1 DEF CoRuns, OnlyIs, Innermost
  <2>2. /\ ~misfit /\ (asks = "none" <=> coref = 0)
        /\ OnlyIs(running, 0) /\ odd = "none"
        /\ IF coref = 0 THEN Silence ELSE Asked(Waiting)
    BY <1>1, <1>3, <2>1 DEF DialogInv, Orderly
  <2>3. running' = <<>> /\ ~CoRuns'
    BY <1>2, <2>2 DEF OnlyIs, CoRuns
  <2>. QED  BY <1>1, <2>2, <2>3 DEF Orderly, Silence, Asked, Waiting
<1>. QED  BY <1>1, <1>2, <1>3 DEF DialogInv, DialogTypeOK

\* A script drops a coroutine or causes an event, or a crowd hears.
LEMMA CrossKeeps ==
  ASSUME DialogInv, pcl_freeasync \/ Nested \/ clif_sendnpcsay
  PROVE  DialogInv'
<1>1. /\ coref' = 0 /\ asks' = "none" /\ odd' = "crossed"
      /\ UNCHANGED <<co_timer, up, down, window, misfit>>
  BY DEF pcl_freeasync, Nested, clif_sendnpcsay, sl_async_freeco, Crosses
<1>2. running \in Seq(0..MaxCo) /\ 0 \in 0..MaxCo /\ crowd \in 0..1
  BY DialogTypes DEF DialogInv, DialogTypeOK
<1>3. running' \in {running, Append(running, 0), <<0>>} /\ crowd' \in {crowd, crowd - 1}
  BY DEF pcl_freeasync, Nested, clif_sendnpcsay
<1>4. crowd' \in 0..1
  BY <1>2, <1>3 DEF clif_sendnpcsay, pcl_freeasync, Nested
<1>5. running' \in Seq(0..MaxCo)
  <2>1. Append(running, 0) \in Seq(0..MaxCo)
    BY <1>2, AppendedIs
  <2>. QED  BY <1>2, <1>3, <2>1, DialogTypes
<1>. QED  BY <1>1, <1>4, <1>5, CrossedKeeps

----------------------------------------------------------------------------
(* The handlers and the client.                                            *)

\* A click, a step or a word: what was crossed starts over when nothing else is
\* under way.
LEMMA EventKeeps ==
  ASSUME DialogInv, NEW others \in 0..1, Event(others)
  PROVE  DialogInv'
<1>1. /\ running = <<>> /\ up # <<>> /\ Head(up).event = "act" /\ up' = Tail(up)
      /\ coref' = 0 /\ asks' = "none" /\ running' = <<0>> /\ crowd' = others
      /\ StartsOver /\ UNCHANGED <<co_timer, down, window>>
  BY DEF Event, From, Idle, sl_async_freeco
<1>2. /\ up' \in Seq(Packets) /\ (up' = <<>> <=> Len(up) = 1)
      /\ Head(up) = up[1]
  BY <1>1, DialogTypes, TailIs
<1>3. running' \in Seq(0..MaxCo) /\ OnlyIs(running', 0)
  BY <1>1, DialogTypes DEF OnlyIs
<1>4. DialogTypeOK'
  <2>1. odd' \in {"none", "left", "crossed"} /\ misfit' \in BOOLEAN /\ coref' \in 0..MaxCo
    BY <1>1, DialogTypes DEF DialogInv, DialogTypeOK, StartsOver
  <2>. QED  BY <1>1, <1>2, <1>3, <2>1 DEF DialogInv, DialogTypeOK, Packets
<1>5. ASSUME odd' # "crossed" PROVE Orderly'
  <2>1. Len(up) = 1 /\ down = <<>> /\ window = NoWindow
    <3>1. CASE odd = "crossed"
      BY <1>1, <1>5, <3>1 DEF StartsOver
    <3>2. CASE odd # "crossed"
      BY <1>1, <1>2, <3>2
         DEF DialogInv, Orderly, Silence, JustActed, Asked, CoRuns, OnlyIs
    <3>. QED  BY <3>1, <3>2
  <2>2. odd' = "none" /\ misfit' = FALSE
    BY <1>1, <2>1 DEF StartsOver
  <2>3. Silence' /\ ~CoRuns'
    BY <1>1, <1>2, <2>1 DEF Silence, CoRuns
  <2>. QED  BY <1>1, <1>3, <2>2, <2>3 DEF Orderly
<1>. QED  BY <1>4, <1>5 DEF DialogInv

\* An answer quits, gets lost, or resumes the player's coroutine: which is the
\* one that asked, as its question was the only one.
LEMMA AnswerKeeps ==
  ASSUME DialogInv, NEW kinds, NEW lossy \in BOOLEAN, Answered(kinds), Resumes(lossy)
  PROVE  DialogInv'
<1>. DEFINE choice == Head(up).choice
<1>1. /\ running = <<>> /\ up # <<>> /\ Head(up).event = "answer" /\ up' = Tail(up)
      /\ UNCHANGED <<co_timer, crowd, down, window>>
  BY DEF Answered, From, Idle
<1>2. /\ up' \in Seq(Packets) /\ (up' = <<>> <=> Len(up) = 1)
      /\ Head(up) = up[1]
  BY <1>1, DialogTypes, TailIs
<1>3. /\ coref \in 0..MaxCo /\ coref \in Int /\ asks \in Kinds \cup {"none"}
      /\ running \in Seq(0..MaxCo) /\ Len(running) = 0
  BY <1>1, DialogTypes
<1>4. \/ /\ coref' = coref /\ running' = running /\ asks' = asks /\ misfit' = misfit
         /\ (coref = 0 /\ odd' = odd) \/ (coref # 0 /\ Leaves)
      \/ /\ coref' = 0 /\ asks' = "none" /\ UNCHANGED <<running, odd, misfit>>
      \/ /\ coref # 0 /\ running' = <<coref>> /\ asks' = "none" /\ coref' = coref
         /\ odd' = odd /\ misfit' = (misfit \/ Head(up).answer # Waiting)
  BY DEF Resumes, Ignored, sl_async_freeco, sl_async_resume, Waiting
<1>5. DialogTypeOK'
  <2>1. running' \in Seq(0..MaxCo) /\ coref' \in 0..MaxCo /\ asks' \in Kinds \cup {"none"}
    BY <1>3, <1>4, DialogTypes
  <2>2. odd' \in {"none", "left", "crossed"} /\ misfit' \in BOOLEAN
    BY <1>4 DEF DialogInv, DialogTypeOK, Leaves
  <2>. QED  BY <1>1, <1>2, <2>1, <2>2 DEF DialogInv, DialogTypeOK, Packets
<1>6. ASSUME odd' # "crossed" PROVE Orderly'
  <2>1. odd # "crossed" /\ Orderly
    BY <1>4, <1>6 DEF Leaves, DialogInv
  <2>2. ~CoRuns /\ ~OnlyIs(running, 0) /\ ~Silence /\ ~JustActed
    BY <1>1, <1>2, <1>3 DEF CoRuns, OnlyIs, Silence, JustActed
  <2>3. /\ ~misfit /\ (asks = "none" <=> coref = 0)
        /\ \/ odd = "none" /\ coref # 0 /\ Asked(Waiting)
           \/ odd = "left" /\ coref = 0 /\ \E q \in Questions : Asked(q)
    BY <2>1, <2>2 DEF Orderly
  <2>4. /\ Len(up) = 1 /\ down = <<>> /\ window = NoWindow
        /\ odd = "none" => Head(up).answer = Waiting
    BY <1>1, <1>2, <2>3 DEF Asked
  <2>5. Silence'
    BY <1>1, <1>2, <2>4 DEF Silence
  <2>6. CASE UNCHANGED <<coref, running, asks, misfit>>
    <3>1. ~CoRuns' /\ running' = <<>> /\ odd' = "left"
      BY <1>1, <1>3, <1>4, <2>2, <2>3, <2>6 DEF CoRuns, OnlyIs, Leaves
    <3>. QED  BY <2>3, <2>5, <2>6, <3>1 DEF Orderly
  <2>7. CASE coref' = 0 /\ asks' = "none" /\ UNCHANGED <<running, odd, misfit>>
    <3>1. ~CoRuns' /\ running' = <<>>
      BY <1>1, <2>7 DEF CoRuns
    <3>. QED  BY <2>3, <2>5, <2>7, <3>1 DEF Orderly
  <2>8. CASE /\ coref # 0 /\ running' = <<coref>> /\ asks' = "none" /\ coref' = coref
             /\ odd' = odd /\ misfit' = (misfit \/ Head(up).answer # Waiting)
    <3>1. CoRuns'
      BY <2>8 DEF CoRuns, OnlyIs
    <3>. QED  BY <2>3, <2>4, <2>5, <2>8, <3>1 DEF Orderly
  <2>. QED  BY <1>4, <2>6, <2>7, <2>8
<1>. QED  BY <1>5, <1>6 DEF DialogInv

\* The timer drops the coroutine, or the player leaves.
LEMMA TimerKeeps ==
  ASSUME DialogInv, pc_timer \/ clif_handle_disconnect
  PROVE  DialogInv'
<1>1. running = <<>> /\ UNCHANGED <<running, crowd>>
  BY DEF pc_timer, clif_handle_disconnect, Idle
<1>2. co_timer \in 0..CoLimit /\ CoLimit \in Nat
  BY DialogAssumption DEF DialogInv, DialogTypeOK
<1>3. CASE pc_timer
  <2>1. /\ coref # 0 /\ UNCHANGED <<up, down, window, misfit>>
        /\ co_timer' \in 0..CoLimit
    BY <1>2, <1>3 DEF pc_timer
  <2>2. \/ coref' = 0 /\ asks' = "none" /\ odd' = IF odd = "none" THEN "left" ELSE odd
        \/ UNCHANGED <<coref, asks, odd>>
    BY <1>3 DEF pc_timer, sl_async_freeco, Leaves
  <2>3. DialogTypeOK'
    <3>1. 0 \in 0..MaxCo
      BY DialogTypes
    <3>. QED  BY <1>1, <2>1, <2>2, <3>1 DEF DialogInv, DialogTypeOK
  <2>4. CASE UNCHANGED <<coref, asks, odd>>
    <3>1. Orderly => Orderly'
      BY <1>1, <2>1, <2>4
         DEF Orderly, CoRuns, Silence, JustActed, Asked, Waiting, OnlyIs
    <3>. QED  BY <2>3, <2>4, <3>1 DEF DialogInv
  <2>5. CASE coref' = 0 /\ asks' = "none" /\ odd' = IF odd = "none" THEN "left" ELSE odd
    <3>1. ASSUME odd' # "crossed" PROVE Orderly'
      <4>1. odd # "crossed" /\ Orderly /\ ~CoRuns /\ ~OnlyIs(running, 0)
        BY <1>1, <2>5, <3>1 DEF DialogInv, CoRuns, OnlyIs
      <4>2. ~misfit /\ Waiting \in Questions
        BY <2>1, <4>1, DialogTypes DEF Orderly
      <4>3. Silence \/ JustActed \/ \E q \in Questions : Asked(q)
        BY <2>1, <4>1, <4>2 DEF Orderly
      <4>4. Silence' \/ JustActed' \/ \E q \in Questions : Asked(q)'
        BY <2>1, <4>3 DEF Silence, JustActed, Asked
      <4>5. odd' = "left" /\ ~CoRuns'
        BY <2>5, <4>1 DEF DialogInv, DialogTypeOK, CoRuns
      <4>. QED  BY <1>1, <2>1, <2>5, <4>2, <4>4, <4>5 DEF Orderly
    <3>. QED  BY <2>3, <3>1 DEF DialogInv
  <2>. QED  BY <2>2, <2>4, <2>5
<1>4. CASE clif_handle_disconnect
  <2>1. /\ coref' = 0 /\ asks' = "none" /\ co_timer' = 0 /\ up' = <<>> /\ down' = <<>>
        /\ window' = NoWindow /\ odd' = "none" /\ misfit' = FALSE
    BY <1>4 DEF clif_handle_disconnect, sl_async_freeco
  <2>2. up' \in Seq(Packets) /\ down' \in Seq(Questions)
    BY <2>1
  <2>3. DialogTypeOK'
    <3>1. coref' \in 0..MaxCo /\ co_timer' \in 0..CoLimit
      BY <1>2, <2>1, DialogTypes
    <3>. QED  BY <1>1, <2>1, <2>2, <3>1 DEF DialogInv, DialogTypeOK, Packets
  <2>4. Orderly'
    BY <1>1, <2>1 DEF Orderly, CoRuns, Silence
  <2>. QED  BY <2>3, <2>4 DEF DialogInv
<1>. QED  BY <1>3, <1>4

\* The client shows a window, answers it, or acts.
LEMMA ClientKeeps ==
  ASSUME DialogInv, Shows \/ Answers \/ Acts
  PROVE  DialogInv'
<1>1. UNCHANGED <<coref, asks, co_timer, running, crowd, misfit>>
  BY DEF Shows, Answers, Acts
<1>2. /\ up \in Seq(Packets) /\ down \in Seq(Questions)
      /\ window \in Questions \cup {NoWindow} /\ NoWindow \notin Questions
  BY DialogTypes
<1>3. CoRuns' = CoRuns /\ Waiting' = Waiting /\ \A e : OnlyIs(running', e) = OnlyIs(running, e)
  BY <1>1 DEF CoRuns, Waiting, OnlyIs
<1>4. CASE Shows
  <2>1. /\ down # <<>> /\ window' = Head(down) /\ down' = Tail(down)
        /\ up' = up /\ odd' = odd
    BY <1>4 DEF Shows
  <2>2. /\ down' \in Seq(Questions) /\ (down' = <<>> <=> Len(down) = 1)
        /\ window' = down[1] /\ window' \in Questions
    BY <1>2, <2>1, TailIs
  <2>3. DialogTypeOK'
    BY <1>1, <2>1, <2>2 DEF DialogInv, DialogTypeOK
  <2>4. ~Silence /\ ~JustActed /\ \A q : Asked(q) => Asked(q)'
    BY <2>1, <2>2 DEF Silence, JustActed, Asked, OnlyIs
  <2>5. Orderly => Orderly'
    BY <1>1, <1>3, <2>1, <2>4 DEF Orderly
  <2>. QED  BY <2>1, <2>3, <2>5 DEF DialogInv
<1>5. CASE Answers
  <2>1. PICK choice \in Replies :
          /\ window # NoWindow /\ window' = NoWindow /\ down' = down /\ odd' = odd
          /\ up' = Append(up, [event |-> "answer", answer |-> window, choice |-> choice])
    BY <1>5 DEF Answers, Packet, Replies
  <2>. DEFINE r == [event |-> "answer", answer |-> window, choice |-> choice]
  <2>2. r \in Packets /\ r.event = "answer" /\ r.answer = window
    BY <1>2 DEF Packets
  <2>. HIDE DEF r
  <2>3. up' \in Seq(Packets) /\ (up = <<>> => OnlyIs(up', r))
    BY <1>2, <2>1, <2>2, AppendedIs DEF OnlyIs, r
  <2>4. DialogTypeOK'
    BY <1>1, <1>2, <2>1, <2>3 DEF DialogInv, DialogTypeOK, Packets
  <2>5. ~Silence /\ ~JustActed /\ \A q : Asked(q) => Asked(q)'
    BY <2>1, <2>2, <2>3 DEF Silence, JustActed, Asked, OnlyIs
  <2>6. Orderly => Orderly'
    BY <1>1, <1>3, <2>1, <2>5 DEF Orderly
  <2>. QED  BY <2>1, <2>4, <2>6 DEF DialogInv
<1>6. CASE Acts
  <2>. DEFINE r == [event |-> "act", answer |-> NoWindow, choice |-> "go"]
  <2>1. /\ up' = Append(up, r) /\ UNCHANGED <<down, window>>
        /\ IF window = NoWindow /\ down = <<>> /\ up = <<>> /\ Idle
           THEN odd' = odd ELSE odd' = "crossed"
    BY <1>6 DEF Acts, Packet, Crosses
  <2>2. r \in Packets /\ r.event = "act"
    BY DEF Packets, Replies
  <2>. HIDE DEF r
  <2>3. up' \in Seq(Packets) /\ (up = <<>> => OnlyIs(up', r))
    BY <1>2, <2>1, <2>2, AppendedIs DEF OnlyIs
  <2>4. DialogTypeOK'
    BY <1>1, <1>2, <2>1, <2>3 DEF DialogInv, DialogTypeOK, Packets
  <2>5. ASSUME odd' # "crossed" PROVE Orderly'
    <3>1. Silence /\ running = <<>> /\ odd' = odd /\ Orderly
      BY <2>1, <2>5 DEF Silence, Idle, DialogInv
    <3>2. JustActed'
      BY <2>1, <2>2, <2>3, <3>1 DEF JustActed, Silence, OnlyIs
    <3>3. ~CoRuns /\ ~OnlyIs(running, 0) /\ \A q \in Questions : ~Asked(q)
      BY <1>2, <3>1 DEF CoRuns, OnlyIs, Asked, Silence
    <3>4. coref # 0 => odd # "none"
      BY <3>1, <3>3, DialogTypes DEF Orderly
    <3>. QED  BY <1>1, <1>3, <3>1, <3>2, <3>3, <3>4 DEF Orderly
  <2>. QED  BY <2>4, <2>5 DEF DialogInv
<1>. QED  BY <1>4, <1>5, <1>6

\* There are no scripts and no windows at first.
LEMMA DialogInitHolds == DialogInit => DialogInv
<1>. SUFFICES ASSUME DialogInit PROVE DialogInv
  OBVIOUS
<1>1. DialogTypeOK
  <2>1. 0 \in 0..MaxCo /\ 0 \in 0..CoLimit /\ 0 \in 0..1
    BY DialogAssumption
  <2>2. /\ <<>> \in Seq(0..MaxCo) /\ <<>> \in Seq(Questions) /\ <<>> \in Seq(Packets)
    OBVIOUS
  <2>. QED  BY <2>1, <2>2 DEF DialogInit, DialogTypeOK, Packets
<1>2. Orderly
  BY DEF DialogInit, Orderly, CoRuns, Silence
<1>. QED  BY <1>1, <1>2 DEF DialogInv

\* Every step keeps the invariant.
LEMMA DialogStepHolds == DialogInv /\ [DialogNext]_dialogVars => DialogInv'
<1>. SUFFICES ASSUME DialogInv, [DialogNext]_dialogVars PROVE DialogInv'
  OBVIOUS
<1>1. CASE UNCHANGED dialogVars
  BY <1>1 DEF dialogVars, DialogInv, DialogTypeOK, Orderly, CoRuns, Silence, JustActed,
     Asked, Waiting, OnlyIs
<1>2. ASSUME NEW kind, Yields(kind), Sends(kind) PROVE DialogInv'
  BY <1>2, YieldKeeps
<1>3. CASE pcl_dialog \/ pcl_menuseq \/ pcl_menu \/ pcl_buy \/ pcl_sell \/ pcl_input
  BY <1>2, <1>3 DEF pcl_dialog, pcl_menuseq, pcl_menu, pcl_buy, pcl_sell, pcl_input,
     clif_scriptmes, clif_scriptmenuseq, clif_scriptmenu, clif_buydialog, clif_selldialog,
     clif_input
<1>4. CASE clif_handle_clickgetinfo \/ pc_runfloor_sub \/ clif_sendscriptsay
  <2>1. \E others \in 0..1 : Event(others)
    BY <1>4 DEF clif_handle_clickgetinfo, pc_runfloor_sub, clif_sendscriptsay
  <2>. QED  BY <2>1, EventKeeps
<1>5. CASE \/ clif_parsenpcdialog_dialog \/ clif_parsenpcdialog_menuseq
           \/ clif_parsemenu \/ clif_parsebuy \/ clif_parsesell \/ clif_parseinput
  <2>1. \E kinds, lossy : lossy \in BOOLEAN /\ Answered(kinds) /\ Resumes(lossy)
    BY <1>5 DEF clif_parsenpcdialog_dialog, clif_parsenpcdialog_menuseq, clif_parsemenu,
       clif_parsebuy, clif_parsesell, clif_parseinput
  <2>. QED  BY <2>1, AnswerKeeps
<1>. QED  BY <1>1, <1>3, <1>4, <1>5, AsyncKeeps, DoneKeeps, EventEndsKeeps, CrossKeeps,
          TimerKeeps, ClientKeeps DEF DialogNext

\* The invariant implies what the run checks.
LEMMA DialogInvIsSound == DialogInv => DialogTypeOK /\ DialogSound
<1>. SUFFICES ASSUME DialogInv PROVE DialogTypeOK /\ DialogSound
  OBVIOUS
<1>1. AnswerToAsker
  BY DEF DialogInv, Orderly, AnswerToAsker
<1>2. WindowIsAsked
  <2>. SUFFICES ASSUME Idle, up = <<>>, down = <<>>, odd = "none"
                PROVE  window = IF coref = 0 THEN NoWindow ELSE Waiting
    BY DEF WindowIsAsked, Waiting
  <2>1. running = <<>> /\ Orderly
    BY DEF Idle, DialogInv
  <2>2. ~CoRuns /\ ~OnlyIs(running, 0) /\ ~JustActed /\ ~OnlyIs(down, Waiting)
    BY <2>1 DEF CoRuns, OnlyIs, JustActed
  <2>. QED  BY <2>1, <2>2 DEF Orderly, Silence, Asked
<1>. QED  BY <1>1, <1>2 DEF DialogInv, DialogSound

\* An answer reaches the coroutine that asked and no window is left without it,
\* but after what is crossed, lost or late: for any number of coroutines and
\* packets under way.
THEOREM SpecDialogSound == DialogSpec => []DialogSound
  BY DialogInitHolds, DialogStepHolds, DialogInvIsSound, PTL DEF DialogSpec

----------------------------------------------------------------------------
(* Sight.                                                                  *)

\* The screen is where the strips assume it is.
Standing == ~lost => cview = standard(here)

SightInv == SightTypeOK /\ Standing /\ SeenIsKnown

----------------------------------------------------------------------------

Place1(p, h, n) == IF p < h THEN p ELSE IF p >= n - h THEN p - n + 2 * h + 1 ELSE h

\* One axis of a cell of the map.
LEMMA CellIs ==
  ASSUME NEW p \in Cells, NEW a \in Axes
  PROVE  /\ p[a] \in Int /\ 0 <= p[a] /\ p[a] < MapSize[a]
         /\ Half[a] \in Nat /\ MapSize[a] \in Nat
         /\ MapSize[a] >= 2 * Half[a] + 1
<1>1. MapSize["x"] \in Nat /\ MapSize["y"] \in Nat
  BY SightAssumption DEF Axes
<1>. QED  BY <1>1, SightAssumption DEF Cells

\* A cell of the map, axis by axis.
LEMMA CellsAre ==
  ASSUME NEW p \in [Axes -> Int], \A a \in Axes : 0 <= p[a] /\ p[a] < MapSize[a]
  PROVE  p \in Cells
<1>1. MapSize["x"] \in Nat /\ MapSize["y"] \in Nat /\ "x" \in Axes /\ "y" \in Axes
  BY SightAssumption DEF Axes
<1>2. \A a \in Axes : p[a] \in 0..MapSize["x"] + MapSize["y"]
  BY <1>1 DEF Axes
<1>. QED  BY <1>2 DEF Cells

\* Where a place is on its screen.
LEMMA StandardIs ==
  ASSUME NEW p \in Cells
  PROVE  /\ standard(p) \in [Axes -> Int]
         /\ \A a \in Axes :
              /\ standard(p)[a] = Place1(p[a], Half[a], MapSize[a])
              /\ 0 <= standard(p)[a] /\ standard(p)[a] <= 2 * Half[a]
<1>1. \A a \in Axes : standard(p)[a] = Place1(p[a], Half[a], MapSize[a])
  BY DEF standard, Place1
<1>2. ASSUME NEW a \in Axes
      PROVE  /\ Place1(p[a], Half[a], MapSize[a]) \in Int
             /\ 0 <= Place1(p[a], Half[a], MapSize[a])
             /\ Place1(p[a], Half[a], MapSize[a]) <= 2 * Half[a]
  BY CellIs DEF Place1
<1>3. standard(p) = [a \in Axes |-> standard(p)[a]]
  BY DEF standard
<1>. QED  BY <1>1, <1>2, <1>3

\* What a client keeps, axis by axis.
LEMMA KeptIs ==
  ASSUME NEW q, NEW p, NEW v
  PROVE  Within(q, Kept(p, v)) <=>
           \A a \in Axes : /\ p[a] - v[a] - 1 <= q[a]
                           /\ q[a] <= p[a] - v[a] + 2 * Half[a] + 1
BY DEF Within, Kept

\* What a refresh sends covers the screen and the cells beside it.
LEMMA AroundCovers ==
  ASSUME NEW p \in Cells, NEW q \in Cells, Within(q, Kept(p, standard(p)))
  PROVE  Within(q, Around(p))
<1>1. ASSUME NEW a \in Axes
      PROVE  Around(p)[a][1] <= q[a] /\ q[a] <= Around(p)[a][2]
  <2>. DEFINE x == p[a]
              y == q[a]
              h == Half[a]
              n == MapSize[a]
              w == 2 * h + 2
              low == IF x < h + 1 THEN 0 ELSE IF x + h + 1 >= n THEN n - w - 1
                     ELSE x - h - 1
  <2>1. /\ x \in Int /\ 0 <= x /\ x < n /\ h \in Nat /\ n \in Nat /\ n >= 2 * h + 1
        /\ y \in Int /\ 0 <= y /\ y < n
    BY CellIs
  <2>2. /\ x - Place1(x, h, n) - 1 <= y /\ y <= x - Place1(x, h, n) + 2 * h + 1
    BY KeptIs, StandardIs
  <2>3. Around(p)[a] = <<low, low + w>>
    BY DEF Around
  <2>. HIDE DEF x, y, h, n
  <2>4. low <= y /\ y <= low + w
    BY <2>1, <2>2 DEF Place1
  <2>. HIDE DEF low, w
  <2>. QED  BY <2>3, <2>4 DEF y
<1>. QED  BY <1>1 DEF Within

\* There are two axes.
LEMMA OtherIs ==
  ASSUME NEW a \in Axes
  PROVE  Other(a) \in Axes /\ Other(a) # a /\ \A c \in Axes : c = a \/ c = Other(a)
<1>1. \E b \in Axes : b # a
  BY DEF Axes
<1>2. Other(a) \in Axes /\ Other(a) # a
  BY <1>1 DEF Other
<1>. QED  BY <1>2 DEF Axes

\* A mob that walks into what the client keeps finds the player in its strip:
\* along its way, and across it.
LEMMA StripAhead ==
  ASSUME NEW p \in Int, NEW q \in Int, NEW h \in Nat, NEW n \in Nat, n >= 2 * h + 1,
         0 <= p, p < n, 0 <= q, q < n, NEW by \in {-1, 1}, 0 <= q + by, q + by < n,
         ~(p - Place1(p, h, n) - 1 <= q /\ q <= p - Place1(p, h, n) + 2 * h + 1),
         p - Place1(p, h, n) - 1 <= q + by, q + by <= p - Place1(p, h, n) + 2 * h + 1,
         NEW row \in Int, row = IF by = 1 THEN q + h + 2 ELSE q - h - 2
  PROVE  /\ ~(IF by < 0 THEN row < h ELSE row > n - h - 1)
         /\ IF by < 0 /\ row = h THEN 0 <= p /\ p <= h
            ELSE IF by > 0 /\ row = n - h - 1 THEN row <= p /\ p <= row + h + 1
            ELSE row <= p /\ p <= row
<1>1. CASE by = 1
  BY <1>1 DEF Place1
<1>2. CASE by = -1
  BY <1>2 DEF Place1
<1>. QED  BY <1>1, <1>2

\* Mobs walk.
LEMMA MobKeeps ==
  ASSUME SightInv, NEW a \in Axes, NEW by \in {-1, 1}, move_mob(a, by)
  PROVE  SightInv'
<1>. DEFINE next == To(beast, a, by)
            row == beast[a] + by * (Half[a] + 2)
            b == Other(a)
            how == ~AtBorder(row, a, by) /\ Within(here, Strip(beast, a, by))
<1>1. /\ here \in Cells /\ beast \in Cells /\ next \in Cells
      /\ next \notin Closed \cup {here}
      /\ cview \in [Axes -> Int] /\ known \in BOOLEAN /\ lost \in BOOLEAN
      /\ b \in Axes /\ b # a /\ \A c \in Axes : c = a \/ c = b
  BY OtherIs DEF SightInv, SightTypeOK, move_mob
<1>2. /\ beast' = next /\ UNCHANGED <<here, view, cview, lost>>
      /\ known' = (Within(next, Kept(here, cview)) /\ (known \/ how))
  BY DEF move_mob, Told
<1>3. beast \in [Axes -> Int] /\ next[a] = beast[a] + by /\ next[b] = beast[b]
  BY <1>1, SightAssumption DEF To, Cells
<1>. HIDE DEF next, b
<1>4. ASSUME ~lost, Within(next, Kept(here, cview)), ~known PROVE how
  <2>1. cview = standard(here) /\ ~Within(beast, Kept(here, cview))
    BY <1>4 DEF SightInv, Standing, SeenIsKnown
  <2>. DEFINE x(c) == here[c]
              h(c) == Half[c]
              n(c) == MapSize[c]
              lo(c) == x(c) - Place1(x(c), h(c), n(c)) - 1
              hi(c) == x(c) - Place1(x(c), h(c), n(c)) + 2 * h(c) + 1
  <2>2. \A c \in Axes : lo(c) <= next[c] /\ next[c] <= hi(c)
    BY <1>1, <1>4, <2>1, KeptIs, StandardIs
  <2>3. ~(\A c \in Axes : lo(c) <= beast[c] /\ beast[c] <= hi(c))
    BY <1>1, <2>1, KeptIs, StandardIs
  <2>4. lo(b) <= beast[b] /\ beast[b] <= hi(b)
    BY <1>1, <1>3, <2>2
  <2>5. ~(lo(a) <= beast[a] /\ beast[a] <= hi(a))
    BY <1>1, <2>3, <2>4
  <2>6. lo(a) <= beast[a] + by /\ beast[a] + by <= hi(a)
    BY <1>3, <2>2
  <2>7. \A c \in Axes :
          /\ here[c] \in Int /\ 0 <= here[c] /\ here[c] < MapSize[c]
          /\ beast[c] \in Int /\ 0 <= beast[c] /\ beast[c] < MapSize[c]
          /\ next[c] \in Int /\ 0 <= next[c] /\ next[c] < MapSize[c]
          /\ Half[c] \in Nat /\ MapSize[c] \in Nat /\ MapSize[c] >= 2 * Half[c] + 1
    BY <1>1, CellIs
  <2>. DEFINE ahead == IF by < 0 /\ row = Half[a] THEN <<0, Half[a]>>
                       ELSE IF by > 0 /\ row = MapSize[a] - Half[a] - 1
                       THEN <<row, row + Half[a] + 1>> ELSE <<row, row>>
              low == IF beast[b] < Half[b] + 1 THEN 0 ELSE beast[b] - Half[b] - 1
              high == IF low + 3 * Half[b] + 4 >= MapSize[b] THEN MapSize[b] - 1
                      ELSE low + 2 * Half[b] + 2
  <2>8. /\ ~AtBorder(row, a, by)
        /\ IF by < 0 /\ row = Half[a] THEN 0 <= here[a] /\ here[a] <= Half[a]
           ELSE IF by > 0 /\ row = MapSize[a] - Half[a] - 1
           THEN row <= here[a] /\ here[a] <= row + Half[a] + 1
           ELSE row <= here[a] /\ here[a] <= row
    <3>. DEFINE p == here[a]
                q == beast[a]
                k == Half[a]
                m == MapSize[a]
    <3>1. 0 <= q + by /\ q + by < m
      BY <1>3, <2>7
    <3>2. /\ p \in Int /\ q \in Int /\ k \in Nat /\ m \in Nat /\ m >= 2 * k + 1
          /\ 0 <= p /\ p < m /\ 0 <= q /\ q < m
      BY <2>7
    <3>3. /\ ~(p - Place1(p, k, m) - 1 <= q /\ q <= p - Place1(p, k, m) + 2 * k + 1)
          /\ p - Place1(p, k, m) - 1 <= q + by
          /\ q + by <= p - Place1(p, k, m) + 2 * k + 1
      BY <2>5, <2>6
    <3>4. row \in Int /\ row = IF by = 1 THEN q + k + 2 ELSE q - k - 2
      <4>1. CASE by = 1
        BY <3>2, <4>1
      <4>2. CASE by = -1
        BY <3>2, <4>2
      <4>. QED  BY <4>1, <4>2
    <3>. HIDE DEF p, q, k, m, row
    <3>5. /\ ~(IF by < 0 THEN row < k ELSE row > m - k - 1)
          /\ IF by < 0 /\ row = k THEN 0 <= p /\ p <= k
             ELSE IF by > 0 /\ row = m - k - 1 THEN row <= p /\ p <= row + k + 1
             ELSE row <= p /\ p <= row
      BY <3>1, <3>2, <3>3, <3>4, StripAhead
    <3>. QED  BY <3>5 DEF AtBorder, p, k, m
  <2>9. ahead[1] <= here[a] /\ here[a] <= ahead[2]
    BY <2>8
  <2>10. (IF low <= Half[b] THEN 0 ELSE low) <= here[b] /\ here[b] <= high
    <3>. DEFINE p == here[b]
                r == beast[b]
                k == Half[b]
                m == MapSize[b]
    <3>1. /\ p \in Int /\ r \in Int /\ k \in Nat /\ m \in Nat /\ m >= 2 * k + 1
          /\ 0 <= p /\ p < m /\ 0 <= r /\ r < m
      BY <1>1, <2>7
    <3>2. /\ p - Place1(p, k, m) - 1 <= r /\ r <= p - Place1(p, k, m) + 2 * k + 1
      BY <2>4
    <3>3. /\ low = IF r < k + 1 THEN 0 ELSE r - k - 1
          /\ high = IF low + 3 * k + 4 >= m THEN m - 1 ELSE low + 2 * k + 2
          /\ low \in Int /\ high \in Int
      BY <3>1
    <3>. HIDE DEF p, r, k, m, low, high
    <3>4. (IF low <= k THEN 0 ELSE low) <= p /\ p <= high
      BY <3>1, <3>2, <3>3 DEF Place1
    <3>. QED  BY <3>4 DEF p, k
  <2>11. Strip(beast, a, by) =
          [c \in Axes |-> IF c = a THEN ahead
                          ELSE <<IF low <= Half[b] THEN 0 ELSE low, high>>]
    BY DEF Strip, b
  <2>. HIDE DEF ahead, low, high, row
  <2>12. Within(here, Strip(beast, a, by))
    BY <1>1, <2>9, <2>10, <2>11 DEF Within
  <2>. QED  BY <2>8, <2>12
<1>. HIDE DEF how
<1>5. SightTypeOK'
  BY <1>1, <1>2 DEF SightInv, SightTypeOK
<1>6. Standing'
  BY <1>2 DEF SightInv, Standing, standard
<1>7. SeenIsKnown'
  BY <1>2, <1>4 DEF SeenIsKnown, Within, Kept
<1>. QED  BY <1>5, <1>6, <1>7 DEF SightInv

\* A step of the player along one axis, and where the screen stands after it.
LEMMA ScrolledIs ==
  ASSUME NEW v \in Int, NEW d \in Int, NEW a \in Axes, NEW by \in {-1, 1},
         0 <= v, v <= 2 * Half[a]
  PROVE  scrolled(v, d, a, by) \in {v, v + by}
<1>1. Half[a] \in Nat /\ MapSize[a] \in Nat
  BY SightAssumption
<1>. QED  BY <1>1 DEF scrolled

\* The server's view is a number, wherever it stands.
LEMMA ScrolledInt ==
  ASSUME NEW v \in Int, NEW d \in Int, NEW a \in Axes, NEW by \in {-1, 1}
  PROVE  scrolled(v, d, a, by) \in Int
<1>1. Half[a] \in Nat /\ MapSize[a] \in Nat
  BY SightAssumption
<1>. QED  BY <1>1 DEF scrolled

\* The player walks.
LEMMA WalkKeeps ==
  ASSUME SightInv, NEW a \in Axes, NEW by \in {-1, 1}, clif_parsewalk(a, by)
  PROVE  SightInv'
<1>. DEFINE d == IF here[a] + by \in 0..MapSize[a] - 1 THEN here[a] + by ELSE here[a]
            next == [here EXCEPT ![a] = d]
            s == scrolled(view[a], d, a, by)
            v == [view EXCEPT ![a] = s]
            how == d # here[a] /\ ~Within(beast, Kept(here, cview))
<1>1. /\ here \in Cells /\ here \in [Axes -> Int] /\ beast \in Cells
      /\ view \in [Axes -> Int] /\ cview \in [Axes -> Int]
      /\ known \in BOOLEAN /\ lost \in BOOLEAN
      /\ \A c \in Axes : 0 <= here[c] /\ here[c] < MapSize[c] /\ MapSize[c] \in Nat
  BY CellIs DEF SightInv, SightTypeOK, Cells
<1>2. /\ here' = next /\ view' = v /\ cview' = v /\ beast' = beast
      /\ known' = (Within(beast, Kept(next, v)) /\ (known \/ how))
      /\ lost' = (lost \/ v # standard(next))
  BY DEF clif_parsewalk, Told, Lost
<1>3. /\ d \in Int /\ 0 <= d /\ d < MapSize[a]
  BY <1>1
<1>4. d = here[a] => next = here
  BY <1>1
<1>. HIDE DEF d
<1>5. s \in Int
  BY <1>1, <1>3, ScrolledInt
<1>. HIDE DEF s
<1>6. v \in [Axes -> Int]
  BY <1>1, <1>5
<1>7. next \in Cells
  <2>1. next \in [Axes -> Int] /\ \A c \in Axes : 0 <= next[c] /\ next[c] < MapSize[c]
    BY <1>1, <1>3
  <2>. QED  BY <2>1, CellsAre
<1>. HIDE DEF next, v
<1>8. SightTypeOK'
  BY <1>1, <1>2, <1>6, <1>7 DEF SightTypeOK
<1>9. Standing'
  BY <1>2 DEF Standing, standard
<1>10. ASSUME ~lost', Within(beast, Kept(next, v)), ~known PROVE how
  <2>1. /\ v = standard(next) /\ cview = standard(here)
        /\ ~Within(beast, Kept(here, cview))
    BY <1>2, <1>10 DEF SightInv, Standing, SeenIsKnown
  <2>2. d # here[a]
    BY <1>4, <1>10, <2>1
  <2>. QED  BY <2>1, <2>2
<1>. HIDE DEF how
<1>11. SeenIsKnown'
  BY <1>2, <1>10 DEF SeenIsKnown, Within, Kept
<1>. QED  BY <1>8, <1>9, <1>11 DEF SightInv

\* A script walks the player.
LEMMA ScriptWalkKeeps ==
  ASSUME SightInv, NEW a \in Axes, NEW by \in {-1, 1}, clif_noparsewalk(a, by)
  PROVE  SightInv'
<1>. DEFINE next == To(here, a, by)
            s == scrolled(view[a], next[a], a, by)
            v == [view EXCEPT ![a] = s]
            row == next[a] - view[a] + (IF by < 0 THEN -1 ELSE 2 * Half[a] + 1)
            b == Other(a)
            low == here[b] - view[b] - 1
            w == [c \in Axes |-> IF c = a THEN <<row, row>>
                                 ELSE <<low, low + 2 * Half[b] + 2>>]
            sent == \A c \in Axes : w[c][1] >= 0 /\ w[c][2] < MapSize[c]
<1>1. /\ here \in Cells /\ here \in [Axes -> Int] /\ beast \in Cells
      /\ beast \in [Axes -> Int] /\ next \in Cells
      /\ view \in [Axes -> Int] /\ cview \in [Axes -> Int]
      /\ known \in BOOLEAN /\ lost \in BOOLEAN
      /\ b \in Axes /\ b # a /\ \A c \in Axes : c = a \/ c = b
  BY CellIs, OtherIs DEF SightInv, SightTypeOK, Cells, clif_noparsewalk
<1>2. /\ here' = next /\ view' = v /\ cview' = v /\ beast' = beast
      /\ known' = (Within(beast, Kept(next, v)) /\ (known \/ (sent /\ Within(beast, w))))
      /\ lost' = (lost \/ v # standard(next) \/ view # standard(here) \/ ~sent)
  BY DEF clif_noparsewalk, Told, Lost
<1>3. /\ next[a] = here[a] + by /\ next[b] = here[b] /\ next[a] \in Int
  BY <1>1 DEF To
<1>. HIDE DEF next, b
<1>4. s \in Int
  BY <1>1, <1>3, ScrolledInt
<1>5. view = standard(here) => s \in {view[a], view[a] + by}
  BY <1>1, <1>3, StandardIs, ScrolledIs
<1>. HIDE DEF s
<1>6. v \in [Axes -> Int] /\ v[a] = s /\ v[b] = view[b]
  BY <1>1, <1>4
<1>7. SightTypeOK'
  BY <1>1, <1>2, <1>6 DEF SightTypeOK
<1>. HIDE DEF v, sent
<1>8. Standing'
  BY <1>2 DEF Standing, standard
<1>9. ASSUME ~lost', Within(beast, Kept(next, v)), ~known
      PROVE  sent /\ Within(beast, w)
  <2>1. /\ sent /\ cview = standard(here) /\ view = standard(here) /\ ~lost
        /\ ~Within(beast, Kept(here, view))
    BY <1>2, <1>9 DEF SightInv, Standing, SeenIsKnown
  <2>2. \A c \in Axes : /\ next[c] - v[c] - 1 <= beast[c]
                        /\ beast[c] <= next[c] - v[c] + 2 * Half[c] + 1
    BY <1>9, KeptIs
  <2>3. ~(\A c \in Axes : /\ here[c] - view[c] - 1 <= beast[c]
                           /\ beast[c] <= here[c] - view[c] + 2 * Half[c] + 1)
    BY <2>1, KeptIs
  <2>4. /\ here[b] - view[b] - 1 <= beast[b]
        /\ beast[b] <= here[b] - view[b] + 2 * Half[b] + 1
    BY <1>1, <1>3, <1>6, <2>2
  <2>5. ~(/\ here[a] - view[a] - 1 <= beast[a]
          /\ beast[a] <= here[a] - view[a] + 2 * Half[a] + 1)
    BY <1>1, <2>3, <2>4
  <2>6. /\ here[a] \in Int /\ view[a] \in Int /\ beast[a] \in Int /\ Half[a] \in Nat
        /\ here[b] \in Int /\ view[b] \in Int /\ beast[b] \in Int /\ Half[b] \in Nat
    BY <1>1, SightAssumption
  <2>7. row <= beast[a] /\ beast[a] <= row
    <3>1. /\ next[a] - s - 1 <= beast[a]
          /\ beast[a] <= next[a] - s + 2 * Half[a] + 1
      BY <1>6, <2>2
    <3>2. CASE by = 1
      BY <1>3, <1>5, <2>1, <2>5, <2>6, <3>1, <3>2
    <3>3. CASE by = -1
      BY <1>3, <1>5, <2>1, <2>5, <2>6, <3>1, <3>3
    <3>. QED  BY <3>2, <3>3
  <2>8. low <= beast[b] /\ beast[b] <= low + 2 * Half[b] + 2
    BY <2>4, <2>6
  <2>. HIDE DEF row, low
  <2>9. Within(beast, w)
    BY <1>1, <2>7, <2>8 DEF Within
  <2>. QED  BY <2>1, <2>9
<1>. HIDE DEF w
<1>10. SeenIsKnown'
  BY <1>2, <1>9 DEF SeenIsKnown, Within, Kept
<1>. QED  BY <1>7, <1>8, <1>10 DEF SightInv

\* The other steps.
LEMMA ViewKeeps ==
  ASSUME SightInv,
         \/ clif_sendxy \/ clif_parserefresh(here)
         \/ \E a \in Axes, by \in {-1, 1} : clif_parseviewchange(a, by)
         \/ \E p \in Marks : mob_appears(p) \/ pc_warp(p)
  PROVE  SightInv'
<1>1. /\ here \in Cells /\ beast \in Cells
      /\ view \in [Axes -> Int] /\ cview \in [Axes -> Int]
      /\ known \in BOOLEAN /\ lost \in BOOLEAN
      /\ Marks \subseteq Cells
  BY SightAssumption DEF SightInv, SightTypeOK
<1>2. CASE clif_sendxy
  <2>1. /\ cview' = standard(here) /\ UNCHANGED <<here, view, beast>>
        /\ known' = (Within(beast, Kept(here, standard(here))) /\ known)
        /\ lost' = (lost \/ cview # standard(here))
    BY <1>1, <1>2 DEF clif_sendxy, Told, Lost
  <2>2. SightTypeOK'
    BY <1>1, <2>1, StandardIs DEF SightTypeOK
  <2>3. Standing'
    BY <2>1 DEF Standing, standard
  <2>4. SeenIsKnown'
    BY <2>1 DEF SightInv, SeenIsKnown, Within, Kept
  <2>. QED  BY <2>2, <2>3, <2>4 DEF SightInv
<1>3. ASSUME NEW p \in Cells, clif_parserefresh(p) PROVE SightInv'
  <2>1. /\ here' = p /\ cview' = standard(p) /\ lost' = FALSE
        /\ UNCHANGED <<view, beast>>
        /\ known' = (Within(beast, Around(p)) /\ Within(beast, Kept(p, standard(p))))
    BY <1>3 DEF clif_parserefresh
  <2>2. Within(beast, Kept(p, standard(p))) => known'
    BY <1>1, <2>1, AroundCovers
  <2>3. SightTypeOK'
    BY <1>1, <2>1, StandardIs DEF SightTypeOK
  <2>4. Standing'
    BY <2>1 DEF Standing, standard
  <2>5. SeenIsKnown'
    BY <2>1, <2>2 DEF SeenIsKnown, Within, Kept
  <2>. QED  BY <2>3, <2>4, <2>5 DEF SightInv
<1>4. ASSUME NEW a \in Axes, NEW by \in {-1, 1}, clif_parseviewchange(a, by)
      PROVE  SightInv'
  <2>. DEFINE c == cview[a] - by
              s == IF here[a] - c < 0 THEN c - 1
                   ELSE IF here[a] + 2 * Half[a] - c >= MapSize[a] THEN c + 1 ELSE c
              v == [cview EXCEPT ![a] = s]
  <2>1. /\ view' = v /\ cview' = v /\ UNCHANGED <<here, beast>>
        /\ known' = (/\ Within(beast, Kept(here, v))
                     /\ known \/ ~Within(beast, Kept(here, cview)))
        /\ lost' = (lost \/ v # standard(here))
    BY <1>4 DEF clif_parseviewchange, Told, Lost
  <2>2. s \in Int
    BY <1>1
  <2>. HIDE DEF s
  <2>3. v \in [Axes -> Int]
    BY <1>1, <2>2
  <2>. HIDE DEF v
  <2>4. SightTypeOK'
    BY <1>1, <2>1, <2>3 DEF SightTypeOK
  <2>5. Standing'
    BY <2>1 DEF Standing, standard
  <2>6. SeenIsKnown'
    BY <2>1 DEF SightInv, SeenIsKnown, Within, Kept
  <2>. QED  BY <2>4, <2>5, <2>6 DEF SightInv
<1>5. ASSUME NEW p \in Marks, mob_appears(p) PROVE SightInv'
  <2>1. /\ beast' = p /\ UNCHANGED <<here, view, cview, lost>>
        /\ known' = (Within(p, Kept(here, cview)) /\ (known \/ TRUE))
    BY <1>5 DEF mob_appears, Told
  <2>2. SightTypeOK'
    BY <1>1, <2>1 DEF SightTypeOK
  <2>3. Standing'
    BY <2>1 DEF SightInv, Standing, standard
  <2>4. SeenIsKnown'
    BY <2>1 DEF SeenIsKnown, Within, Kept
  <2>. QED  BY <2>2, <2>3, <2>4 DEF SightInv
<1>. QED  BY <1>1, <1>2, <1>3, <1>4, <1>5 DEF pc_warp

\* The player has been sent all that is around.
LEMMA SightInitHolds == SightInit => SightInv
<1>. SUFFICES ASSUME SightInit PROVE SightInv
  OBVIOUS
<1>1. /\ here \in Cells /\ beast \in Cells /\ view = Half /\ cview = standard(here)
      /\ known = Within(beast, Around(here)) /\ lost = FALSE
      /\ Half \in [Axes -> Int]
  BY SightAssumption DEF SightInit
<1>2. SightTypeOK
  BY <1>1, StandardIs DEF SightTypeOK, Within
<1>3. SeenIsKnown
  BY <1>1, AroundCovers DEF SeenIsKnown
<1>. QED  BY <1>1, <1>2, <1>3 DEF SightInv, Standing

\* Every step keeps the invariant.
LEMMA SightStepHolds == SightInv /\ [SightNext]_sightVars => SightInv'
<1>. SUFFICES ASSUME SightInv, [SightNext]_sightVars PROVE SightInv'
  OBVIOUS
<1>1. CASE UNCHANGED sightVars
  BY <1>1 DEF sightVars, SightInv, SightTypeOK, Standing, SeenIsKnown, Within, Kept, standard
<1>. QED  BY <1>1, MobKeeps, WalkKeeps, ScriptWalkKeeps, ViewKeeps DEF SightNext

\* A client knows the mob near its screen, for any size of the screen and of a
\* map that is not smaller, and any cells that are closed.
THEOREM SpecSeenIsKnown == SightSpec => []SeenIsKnown
<1>1. SightInv => SeenIsKnown
  BY DEF SightInv
<1>. QED  BY <1>1, SightInitHolds, SightStepHolds, PTL DEF SightSpec

----------------------------------------------------------------------------
(* Figures.                                                                *)

FigureRecords ==
  [npc : BOOLEAN, character : BOOLEAN, ai : BOOLEAN, once : BOOLEAN, m : Grounds,
   state : {"alive", "dead", "freed"}, look : {0, 1}]
Shapes == {Unseen, 0, 1}
Places == [Watchers -> Grounds \cup {Away}]
Drawings == [Watchers -> Shapes]

NpcLives(f) == f.npc => f.state = "alive"

\* Screen s of a client at place w shows f.
True(f, w, s) == s = Real(f, w)

FiguresInv == FiguresTypeOK /\ NpcLives(figure) /\ DrawingIsTrue

----------------------------------------------------------------------------

\* What a client has after f was drawn, and after it was taken away.
LEMMA ShownIs ==
  ASSUME NEW f \in FigureRecords, NEW scr \in Drawings, NEW c \in BOOLEAN,
         at \in Places
  PROVE  /\ Shown(f, scr, c) \in Drawings
         /\ \A p \in Watchers :
              Shown(f, scr, c)[p] =
                IF at[p] = f.m /\ Drawn(f, c) THEN f.look ELSE scr[p]
         /\ Gone(f, scr) \in Drawings
         /\ \A p \in Watchers :
              Gone(f, scr)[p] = IF at[p] = f.m THEN Unseen ELSE scr[p]
<1>1. Appearance(f) = f.look /\ f.look \in Shapes /\ Unseen \in Shapes
  BY DEF Appearance, clif_cnpclook_gear, clif_cmoblook_gear, FigureRecords, Shapes
<1>. QED  BY <1>1 DEF Shown, Gone, Present, Drawings

\* A character is drawn as one, an object as an object, if it is alive.
LEMMA DrawnIs ==
  ASSUME NEW f \in FigureRecords, NpcLives(f)
  PROVE  /\ Drawn(f, f.character) <=> f.state = "alive"
         /\ Drawn(f, TRUE) \/ Drawn(f, FALSE) <=> f.state = "alive"
         /\ \A c \in BOOLEAN : Drawn(f, c) => f.state = "alive"
         /\ \A c \in BOOLEAN : Drawn(f, c) \in BOOLEAN
BY DEF Drawn, clif_cmoblook_sub, clif_cnpclook_sub, clif_object_look_sub2, NpcLives,
       FigureRecords

\* A step that is told to all but new leaves the others right.
LEMMA BecomesKeeps ==
  ASSUME FiguresInv, NEW f \in FigureRecords, NpcLives(f), NEW scr \in Drawings,
         NEW new, new \subseteq Watchers, Becomes(f, scr, new),
         \A p \in Watchers \ new :
           drawing[p] = Real(figure, at[p]) => scr[p] = Real(f, at[p])
  PROVE  FiguresInv'
<1>1. /\ figure' = f /\ drawing' = scr /\ at' = at /\ unknown' = unknown
      /\ failed' = {p \in failed \cup new : scr[p] # Real(f, at[p])}
  BY DEF Becomes
<1>2. FiguresTypeOK'
  BY <1>1 DEF FiguresInv, FiguresTypeOK, FigureRecords, Drawings, Shapes
<1>3. DrawingIsTrue'
  <2>1. ASSUME NEW p \in Watchers \ failed' PROVE scr[p] = Real(f, at[p])
    <3>1. CASE p \in failed \cup new
      BY <1>1, <2>1, <3>1
    <3>2. CASE p \notin failed \cup new
      BY <3>2 DEF FiguresInv, DrawingIsTrue
    <3>. QED  BY <3>1, <3>2
  <2>2. \A p \in Watchers \ failed' : drawing'[p] = Real(figure', at'[p])
    BY <1>1, <2>1
  <2>. QED  BY <2>2 DEF DrawingIsTrue, Real
<1>. QED  BY <1>1, <1>2, <1>3 DEF FiguresInv, NpcLives

\* The players.
LEMMA PlayersKeep ==
  ASSUME FiguresInv, NEW p \in Watchers,
         \/ leaves(p) \/ clif_object_look_specific(p)
         \/ \E m \in Grounds : clif_getchararea(p, m)
  PROVE  FiguresInv'
<1>1. /\ figure \in FigureRecords /\ NpcLives(figure) /\ at \in Places
      /\ drawing \in Drawings /\ unknown \subseteq Watchers /\ failed \subseteq Watchers
      /\ \A q \in Watchers \ failed : drawing[q] = Real(figure, at[q])
  BY DEF FiguresInv, FiguresTypeOK, FigureRecords, Places, Drawings, Shapes, DrawingIsTrue
<1>2. figure' = figure
  BY DEF leaves, clif_object_look_specific, clif_getchararea
<1>3. ASSUME NEW w \in Grounds \cup {Away}, NEW s \in Shapes,
             at' = [at EXCEPT ![p] = w], drawing' = [drawing EXCEPT ![p] = s],
             failed' = failed \ {p}, unknown' \in SUBSET unknown, s = Real(figure, w)
      PROVE  FiguresInv'
  <2>1. /\ at' \in Places /\ drawing' \in Drawings
        /\ \A q \in Watchers : /\ at'[q] = IF q = p THEN w ELSE at[q]
                               /\ drawing'[q] = IF q = p THEN s ELSE drawing[q]
    BY <1>1, <1>3 DEF Places, Drawings
  <2>2. \A q \in Watchers \ failed' : drawing'[q] = Real(figure, at'[q])
    BY <1>1, <1>3, <2>1
  <2>3. DrawingIsTrue'
    BY <1>2, <2>2 DEF DrawingIsTrue, Real
  <2>. QED  BY <1>1, <1>2, <1>3, <2>1, <2>3
            DEF FiguresInv, FiguresTypeOK, FigureRecords, Places, Drawings, Shapes, NpcLives
<1>4. CASE leaves(p)
  <2>1. Unseen = Real(figure, Away) /\ Unseen \in Shapes
    BY <1>1, FiguresAssumption DEF Real, FigureRecords, Shapes
  <2>. QED  BY <1>3, <1>4, <2>1 DEF leaves
<1>5. ASSUME NEW m \in Grounds, clif_getchararea(p, m) PROVE FiguresInv'
  <2>. DEFINE s == IF m = figure.m /\ (Drawn(figure, TRUE) \/ Drawn(figure, FALSE))
                   THEN Appearance(figure) ELSE Unseen
  <2>1. Appearance(figure) = figure.look /\ figure.look \in Shapes /\ Unseen \in Shapes
    BY <1>1 DEF Appearance, clif_cnpclook_gear, clif_cmoblook_gear, FigureRecords, Shapes
  <2>2. s = Real(figure, m) /\ s \in Shapes
    BY <1>1, <2>1, DrawnIs DEF Real
  <2>3. /\ at' = [at EXCEPT ![p] = m] /\ drawing' = [drawing EXCEPT ![p] = s]
        /\ failed' = failed \ {p} /\ unknown' = unknown
    BY <1>5 DEF clif_getchararea
  <2>. HIDE DEF s
  <2>. QED  BY <1>3, <2>2, <2>3
<1>6. CASE clif_object_look_specific(p)
  <2>. DEFINE scr == IF clif_object_look_sub2(figure)
                     THEN [drawing EXCEPT ![p] = figure.look] ELSE drawing
  <2>1. /\ drawing' = scr /\ at' = at /\ unknown' \subseteq unknown
        /\ failed' = {q \in failed \cup {p} : scr[q] # Real(figure, at[q])}
    BY <1>6 DEF clif_object_look_specific
  <2>2. figure.look \in Shapes
    BY <1>1 DEF FigureRecords, Shapes
  <2>3. scr \in Drawings /\ \A q \in Watchers \ {p} : scr[q] = drawing[q]
    BY <1>1, <2>2 DEF Drawings
  <2>. HIDE DEF scr
  <2>4. \A q \in Watchers \ failed' : scr[q] = Real(figure, at[q])
    BY <1>1, <2>1, <2>3
  <2>5. DrawingIsTrue'
    BY <1>2, <2>1, <2>4 DEF DrawingIsTrue, Real
  <2>. QED  BY <1>1, <1>2, <2>1, <2>3, <2>5
            DEF FiguresInv, FiguresTypeOK, FigureRecords, Places, Drawings, Shapes, NpcLives
<1>. QED  BY <1>4, <1>5, <1>6

\* Gone from where it was, drawn where it is.
LEMMA WarpedIs ==
  ASSUME FiguresInv, NEW m \in Grounds
  PROVE  /\ Warped(figure, drawing, m) \in Drawings
         /\ [figure EXCEPT !.m = m] \in FigureRecords
         /\ NpcLives([figure EXCEPT !.m = m])
         /\ \A p \in Watchers :
              drawing[p] = Real(figure, at[p]) =>
                Warped(figure, drawing, m)[p] = Real([figure EXCEPT !.m = m], at[p])
<1>1. /\ figure \in FigureRecords /\ NpcLives(figure) /\ at \in Places
      /\ drawing \in Drawings /\ figure.character \in BOOLEAN
  BY DEF FiguresInv, FiguresTypeOK, FigureRecords, Places, Drawings, Shapes
<1>. DEFINE to == [figure EXCEPT !.m = m]
            left == Gone(figure, drawing)
            scr == Shown(to, left, figure.character)
<1>2. /\ to \in FigureRecords /\ to.m = m /\ to.state = figure.state
      /\ to.npc = figure.npc /\ to.character = figure.character
      /\ to.look = figure.look
  BY <1>1 DEF FigureRecords
<1>3. NpcLives(to)
  BY <1>1, <1>2 DEF NpcLives
<1>4. Warped(figure, drawing, m) = scr
  BY DEF Warped
<1>5. /\ left \in Drawings
      /\ \A p \in Watchers : left[p] = IF at[p] = figure.m THEN Unseen ELSE drawing[p]
  BY <1>1, ShownIs
<1>. HIDE DEF to, left
<1>6. /\ scr \in Drawings
      /\ \A p \in Watchers :
           scr[p] = IF at[p] = m /\ Drawn(to, figure.character) THEN figure.look ELSE left[p]
  <2>. DEFINE c == figure.character
  <2>1. c \in BOOLEAN
    BY <1>1
  <2>. HIDE DEF c
  <2>2. /\ Shown(to, left, c) \in Drawings
        /\ \A p \in Watchers :
             Shown(to, left, c)[p] =
               IF at[p] = to.m /\ Drawn(to, c) THEN to.look ELSE left[p]
    BY <1>1, <1>2, <1>5, <2>1, ShownIs
  <2>. QED  BY <1>2, <2>2 DEF c
<1>7. Drawn(to, figure.character) <=> figure.state = "alive"
  BY <1>2, <1>3, DrawnIs
<1>. HIDE DEF scr
<1>8. \A p \in Watchers :
        drawing[p] = Real(figure, at[p]) => scr[p] = Real(to, at[p])
  BY <1>2, <1>5, <1>6, <1>7 DEF Real
<1>. QED  BY <1>2, <1>3, <1>4, <1>6, <1>8 DEF to

\* The figure.
LEMMA FigureKeeps ==
  ASSUME FiguresInv,
         \/ clif_mob_move \/ figure_killed \/ figure_timer \/ bll_updatefigure
         \/ \E m \in Grounds : mob_warp(m) \/ npc_warp(m)
  PROVE  FiguresInv'
<1>1. /\ figure \in FigureRecords /\ NpcLives(figure) /\ at \in Places
      /\ drawing \in Drawings /\ unknown \subseteq Watchers /\ Den \in Grounds
  BY FiguresAssumption
     DEF FiguresInv, FiguresTypeOK, FigureRecords, Places, Drawings, Shapes
<1>2. CASE clif_mob_move
  <2>1. UNCHANGED <<at, figure, drawing, failed>> /\ unknown' \subseteq Watchers
    BY <1>1, <1>2 DEF clif_mob_move, Present
  <2>. QED  BY <2>1 DEF FiguresInv, FiguresTypeOK, NpcLives, DrawingIsTrue, Real
<1>3. ASSUME NEW m \in Grounds, mob_warp(m) \/ npc_warp(m) PROVE FiguresInv'
  <2>1. Becomes([figure EXCEPT !.m = m], Warped(figure, drawing, m), {})
    BY <1>3 DEF mob_warp, npc_warp
  <2>. QED  BY <2>1, WarpedIs, BecomesKeeps
<1>4. ASSUME NEW s \in {"dead", "freed"}, ~figure.npc,
             Becomes([figure EXCEPT !.state = s], Gone(figure, drawing), {})
      PROVE  FiguresInv'
  <2>. DEFINE f == [figure EXCEPT !.state = s]
              scr == Gone(figure, drawing)
  <2>1. /\ f \in FigureRecords /\ f.state = s /\ f.m = figure.m /\ f.npc = figure.npc
    BY <1>1 DEF FigureRecords
  <2>2. /\ scr \in Drawings
        /\ \A p \in Watchers : scr[p] = IF at[p] = figure.m THEN Unseen ELSE drawing[p]
    BY <1>1, ShownIs
  <2>. HIDE DEF f, scr
  <2>3. NpcLives(f)
    BY <1>4, <2>1 DEF NpcLives
  <2>4. \A p \in Watchers \ {} :
          drawing[p] = Real(figure, at[p]) => scr[p] = Real(f, at[p])
    BY <2>1, <2>2 DEF Real
  <2>. QED  BY <1>4, <2>1, <2>2, <2>3, <2>4, BecomesKeeps DEF f, scr
<1>5. CASE figure_killed
  BY <1>4, <1>5 DEF figure_killed
<1>6. ASSUME ~figure.npc, figure.state = "dead", 
             \/ figure_rises
             \/ figure_rises_unseen /\ Present(figure) = {}
      PROVE  FiguresInv'
  <2>. DEFINE moved == [figure EXCEPT !.m = Den]
              risen == [moved EXCEPT !.state = "alive"]
              f == [risen EXCEPT !.look = 0]
  <2>1. /\ moved \in FigureRecords /\ moved.m = Den /\ moved.state = "dead"
        /\ moved.character = figure.character /\ moved.npc = figure.npc
    BY <1>1, <1>6 DEF FigureRecords
  <2>. HIDE DEF moved
  <2>2. /\ risen \in FigureRecords /\ risen.m = Den /\ risen.state = "alive"
        /\ risen.character = figure.character /\ risen.npc = figure.npc
    BY <2>1 DEF FigureRecords
  <2>. HIDE DEF risen
  <2>3. /\ f \in FigureRecords /\ f.m = Den /\ f.state = "alive" /\ f.look = 0
        /\ f.character = figure.character /\ f.npc = figure.npc
    BY <2>2 DEF FigureRecords
  <2>4. f = Risen
    BY <1>1 DEF Risen, risen, moved, FigureRecords
  <2>5. NpcLives(f)
    BY <2>3 DEF NpcLives
  <2>6. /\ Home \in Drawings
        /\ \A p \in Watchers :
             drawing[p] = Real(figure, at[p]) => Home[p] = Unseen
    <3>1. CASE figure.m = Den
      BY <1>1, <1>6, <3>1 DEF Home, Real
    <3>2. CASE figure.m # Den
      BY <1>1, <2>1, <3>2, WarpedIs DEF Home, Real, moved
    <3>. QED  BY <3>1, <3>2
  <2>. HIDE DEF f
  <2>7. CASE figure_rises
    <3>. DEFINE scr == Shown(f, Home, figure.character)
    <3>1. Becomes(f, scr, {})
      BY <2>4, <2>7 DEF figure_rises
    <3>2. Drawn(f, figure.character) /\ figure.character \in BOOLEAN
      BY <1>1, <2>3, <2>5, DrawnIs DEF FigureRecords
    <3>3. /\ scr \in Drawings
          /\ \A p \in Watchers : scr[p] = IF at[p] = Den THEN 0 ELSE Home[p]
      BY <1>1, <2>3, <2>6, <3>2, ShownIs
    <3>. HIDE DEF scr
    <3>4. \A p \in Watchers \ {} :
            drawing[p] = Real(figure, at[p]) => scr[p] = Real(f, at[p])
      BY <2>3, <2>6, <3>3 DEF Real
    <3>. QED  BY <2>3, <2>5, <3>1, <3>3, <3>4, BecomesKeeps
  <2>8. CASE figure_rises_unseen /\ Present(figure) = {}
    <3>. DEFINE new == IF figure.m # Den THEN Watchers ELSE {}
    <3>1. Becomes(f, Home, new) /\ new \subseteq Watchers
      BY <2>4, <2>8 DEF figure_rises_unseen
    <3>2. \A p \in Watchers \ new :
            drawing[p] = Real(figure, at[p]) => Home[p] = Real(f, at[p])
      BY <2>3, <2>6, <2>8 DEF Real, Present
    <3>. HIDE DEF new
    <3>. QED  BY <2>3, <2>5, <2>6, <3>1, <3>2, BecomesKeeps
  <2>. QED  BY <1>6, <2>7, <2>8
<1>7. CASE figure_timer
  <2>1. ~figure.npc
    BY <1>7 DEF figure_timer
  <2>2. CASE figure.once
    BY <1>4, <1>7, <2>1, <2>2 DEF figure_timer
  <2>3. CASE ~figure.once
    <3>1. figure.state = "dead"
      BY <1>7, <2>3 DEF figure_timer
    <3>2. figure_rises \/ (figure_rises_unseen /\ Present(figure) = {})
      BY <1>7, <2>3 DEF figure_timer
    <3>. QED  BY <1>6, <2>1, <3>1, <3>2
  <2>. QED  BY <2>2, <2>3
<1>8. CASE bll_updatefigure
  <2>. DEFINE other == 1 - figure.look
              f == [figure EXCEPT !.look = other]
              told == IF figure.npc THEN f.character ELSE f.ai
              scr == Shown(f, drawing, told)
              new == IF told # f.character THEN Watchers ELSE {}
  <2>1. other \in {0, 1}
    BY <1>1 DEF FigureRecords
  <2>2. figure.state # "freed" /\ Becomes(f, scr, new) /\ new \subseteq Watchers
    BY <1>1, <1>8 DEF bll_updatefigure, FigureRecords
  <2>. HIDE DEF other
  <2>3. /\ f \in FigureRecords /\ f.m = figure.m /\ f.state = figure.state
        /\ f.npc = figure.npc /\ f.look = other
        /\ told \in BOOLEAN
    BY <1>1, <2>1 DEF FigureRecords
  <2>4. NpcLives(f)
    BY <1>1, <2>3 DEF NpcLives
  <2>. HIDE DEF f, told
  <2>5. /\ scr \in Drawings
        /\ \A p \in Watchers :
             scr[p] = IF at[p] = f.m /\ Drawn(f, told) THEN f.look ELSE drawing[p]
    BY <1>1, <2>3, ShownIs
  <2>6. told = f.character => (Drawn(f, told) <=> f.state = "alive")
    BY <2>3, <2>4, DrawnIs
  <2>7. \A p \in Watchers \ new :
          drawing[p] = Real(figure, at[p]) => scr[p] = Real(f, at[p])
    BY <2>3, <2>5, <2>6 DEF Real
  <2>. HIDE DEF scr, new
  <2>. QED  BY <2>2, <2>3, <2>4, <2>5, <2>7, BecomesKeeps
<1>. QED  BY <1>2, <1>3, <1>5, <1>7, <1>8

\* Nobody is logged in.
LEMMA FiguresInitHolds == FiguresInit => FiguresInv
<1>. SUFFICES ASSUME FiguresInit PROVE FiguresInv
  OBVIOUS
<1>1. figure \in {f \in [npc : BOOLEAN, character : BOOLEAN, ai : BOOLEAN,
                        once : BOOLEAN, m : {Den}, look : {0},
                        state : {"alive", "dead"}] :
                   /\ f.npc => f.ai = f.character /\ ~f.once
                   /\ f.state = "alive" <=> f.npc \/ f.once}
  BY DEF FiguresInit
<1>2. figure \in FigureRecords /\ NpcLives(figure)
  BY <1>1, FiguresAssumption DEF FigureRecords, NpcLives
<1>3. /\ at = [p \in Watchers |-> Away] /\ drawing = [p \in Watchers |-> Unseen]
      /\ unknown = {} /\ failed = {}
  BY DEF FiguresInit
<1>4. DrawingIsTrue
  BY <1>2, <1>3, FiguresAssumption DEF DrawingIsTrue, Real, FigureRecords
<1>. QED  BY <1>2, <1>3, <1>4 DEF FiguresInv, FiguresTypeOK, FigureRecords

\* Every step keeps the drawings as they have to be.
LEMMA FiguresStepHolds == FiguresInv /\ [FiguresNext]_figuresVars => FiguresInv'
<1>. SUFFICES ASSUME FiguresInv, [FiguresNext]_figuresVars PROVE FiguresInv'
  OBVIOUS
<1>1. CASE UNCHANGED figuresVars
  BY <1>1 DEF figuresVars, FiguresInv, FiguresTypeOK, NpcLives, DrawingIsTrue, Real
<1>. QED  BY <1>1, PlayersKeep, FigureKeeps DEF FiguresNext

\* No body and no copy of a mob stays behind on a screen when it dies, is freed,
\* is warped or rises elsewhere, but in the three cases named where they happen:
\* for any number of clients and maps.
THEOREM SpecDrawingIsTrue == FiguresSpec => []DrawingIsTrue
<1>1. FiguresInv => DrawingIsTrue
  BY DEF FiguresInv
<1>. QED  BY <1>1, FiguresInitHolds, FiguresStepHolds, PTL DEF FiguresSpec

----------------------------------------------------------------------------
(* Looks.                                                                  *)

People == [Persons -> [at : Realms \cup {Off}, gm : BOOLEAN,
                       state : {ALIVE, PC_DIE, INVISIBLE},
                       stealth : BOOLEAN, ghosts : BOOLEAN, dress : {0, 1}]]
Drawables == {None} \cup ({ALIVE, PC_DIE, INVISIBLE, SHADOW} \X {0, 1})
Screens == [Persons -> [Persons -> Drawables]]

LooksInv == LooksTypeOK /\ ScreenIsTrue

Sees(w, o, x) == o \in Others(w, x) /\ clif_send_sub(w, o, x)

----------------------------------------------------------------------------
(* What is drawn.                                                          *)

\* Looks are of their type.
LEMMA LookIsDrawn ==
  ASSUME NEW w \in People, NEW o \in Persons, NEW p \in Persons
  PROVE  /\ Look(w, o, p) \in Drawables /\ None \in Drawables
         /\ clif_updatestate_look(w, o, p) = Look(w, o, p)
         /\ clif_charspecific_look(w, o, p) = Look(w, o, p)
<1>1. statebyte(w, o, p) \in {ALIVE, PC_DIE, INVISIBLE, SHADOW}
  BY DEF statebyte, People, ALIVE, PC_DIE, INVISIBLE, SHADOW
<1>2. worn(w, p) \in {0, 1}
  BY DEF worn, People
<1>. QED  BY <1>1, <1>2 DEF Look, Drawables, clif_updatestate_look, clif_charspecific_look

\* What a screen has to show, by who sees whom.
LEMMA TruthIs ==
  ASSUME NEW w \in People, NEW o \in Persons, NEW x \in Persons
  PROVE  /\ Truth(w, o, x) = IF Sees(w, o, x) THEN Look(w, o, x) ELSE None
         /\ Truth(w, o, x) \in Drawables
<1>1. x \in Others(w, o) <=> o \in Others(w, x)
  BY DEF Others
<1>. QED  BY <1>1, LookIsDrawn DEF Truth, Sees

\* clif_sendchararea, pair by pair.
LEMMA SendIs ==
  ASSUME NEW w \in People, NEW scr \in Screens, NEW p \in Persons
  PROVE  /\ clif_sendchararea(w, scr, p) \in Screens
         /\ \A o, x \in Persons :
              clif_sendchararea(w, scr, p)[o][x] =
                IF x = p /\ Sees(w, o, p) THEN Look(w, o, p) ELSE scr[o][x]
<1>. DEFINE new(o) == IF Sees(w, o, p) THEN Look(w, o, p) ELSE scr[o][p]
<1>1. \A o \in Persons : new(o) \in Drawables
  BY LookIsDrawn DEF Screens
<1>2. clif_sendchararea(w, scr, p) = [o \in Persons |-> [scr[o] EXCEPT ![p] = new(o)]]
  BY DEF clif_sendchararea, Screens, Sees
<1>. HIDE DEF new
<1>3. \A o \in Persons :
        /\ [scr[o] EXCEPT ![p] = new(o)] \in [Persons -> Drawables]
        /\ \A x \in Persons :
             [scr[o] EXCEPT ![p] = new(o)][x] = IF x = p THEN new(o) ELSE scr[o][x]
  BY <1>1 DEF Screens
<1>4. \A o, x \in Persons :
        clif_sendchararea(w, scr, p)[o][x] = IF x = p THEN new(o) ELSE scr[o][x]
  BY <1>2, <1>3
<1>. QED  BY <1>2, <1>3, <1>4 DEF Screens, new

\* clif_lookgone, pair by pair.
LEMMA GoneIs ==
  ASSUME NEW w \in People, NEW scr \in Screens, NEW p \in Persons
  PROVE  /\ clif_lookgone(w, scr, p) \in Screens
         /\ \A o, x \in Persons :
              clif_lookgone(w, scr, p)[o][x] =
                IF x = p /\ Sees(w, o, p) THEN None ELSE scr[o][x]
<1>. DEFINE new(o) == IF Sees(w, o, p) THEN None ELSE scr[o][p]
<1>1. \A o \in Persons : new(o) \in Drawables
  BY LookIsDrawn DEF Screens
<1>2. clif_lookgone(w, scr, p) = [o \in Persons |-> [scr[o] EXCEPT ![p] = new(o)]]
  BY DEF clif_lookgone, Screens, Sees
<1>. HIDE DEF new
<1>3. \A o \in Persons :
        /\ [scr[o] EXCEPT ![p] = new(o)] \in [Persons -> Drawables]
        /\ \A x \in Persons :
             [scr[o] EXCEPT ![p] = new(o)][x] = IF x = p THEN new(o) ELSE scr[o][x]
  BY <1>1 DEF Screens
<1>4. \A o, x \in Persons :
        clif_lookgone(w, scr, p)[o][x] = IF x = p THEN new(o) ELSE scr[o][x]
  BY <1>2, <1>3
<1>. QED  BY <1>2, <1>3, <1>4 DEF Screens, new

\* The client of p is told all anew, and whoever sees p is shown p.
LEMMA RefreshedIs ==
  ASSUME NEW w \in People, NEW scr \in Screens, NEW p \in Persons
  PROVE  /\ Refreshed(w, scr, p) \in Screens
         /\ \A o, x \in Persons : o # x =>
              Refreshed(w, scr, p)[o][x] =
                IF o = p THEN Truth(w, p, x)
                ELSE IF x = p /\ Sees(w, o, p) THEN Look(w, o, p) ELSE scr[o][x]
<1>. DEFINE own == [x \in Persons |-> IF x = p THEN None ELSE Truth(w, p, x)]
            told == [scr EXCEPT ![p] = own]
<1>1. own \in [Persons -> Drawables]
  BY TruthIs, LookIsDrawn
<1>2. /\ told \in Screens
      /\ \A o, x \in Persons :
           told[o][x] = IF o = p THEN own[x] ELSE scr[o][x]
  <2>. HIDE DEF own
  <2>. QED  BY <1>1 DEF Screens
<1>3. \A x \in Persons : x # p => own[x] = Truth(w, p, x)
  OBVIOUS
<1>. HIDE DEF own
<1>4. Refreshed(w, scr, p) = clif_sendchararea(w, told, p)
  BY DEF Refreshed, own
<1>. HIDE DEF told
<1>5. /\ clif_sendchararea(w, told, p) \in Screens
      /\ \A o, x \in Persons :
           clif_sendchararea(w, told, p)[o][x] =
             IF x = p /\ Sees(w, o, p) THEN Look(w, o, p) ELSE told[o][x]
  BY <1>2, SendIs
<1>. QED  BY <1>2, <1>3, <1>4, <1>5

\* What p shows of the others after clif_updatestate: on maps that hide the
\* dead, a dead p is shown whoever sees it.
ShownTo(w, scr, p, x) ==
  IF /\ x \in Others(w, p) /\ w[p].at \in GhostMaps
     /\ w[p].state = PC_DIE /\ ~unseen(w, x, p) /\ clif_send_sub(w, p, x)
  THEN Look(w, p, x) ELSE scr[p][x]
\* What o shows of p.
ChangedFor(w, scr, p, o) ==
  IF o \notin Others(w, p) THEN scr[o][p]
  ELSE IF unseen(w, o, p) \/ scr[o][p] = None THEN None
  ELSE Look(w, o, p)

\* clif_updatestate, pair by pair.
LEMMA UpdateIs ==
  ASSUME NEW w \in People, NEW scr \in Screens, NEW p \in Persons
  PROVE  /\ clif_updatestate(w, scr, p) \in Screens
         /\ \A o, x \in Persons : o # x =>
              clif_updatestate(w, scr, p)[o][x] =
                IF o = p THEN ShownTo(w, scr, p, x)
                ELSE IF x = p THEN ChangedFor(w, scr, p, o) ELSE scr[o][x]
<1>. DEFINE own == [x \in Persons |->
              IF /\ x \in Others(w, p) /\ w[p].at \in GhostMaps
                 /\ w[p].state = PC_DIE /\ ~unseen(w, x, p)
              THEN clif_charspecific(w, scr, x, p)[p][x]
              ELSE scr[p][x]]
            new(o) == IF o \notin Others(w, p) THEN scr[o][p]
                      ELSE IF unseen(w, o, p) THEN None
                      ELSE IF scr[o][p] # None THEN clif_updatestate_look(w, o, p)
                      ELSE scr[o][p]
<1>1. \A x \in Persons : own[x] = ShownTo(w, scr, p, x) /\ own[x] \in Drawables
  <2>1. ASSUME NEW x \in Persons, x \in Others(w, p)
        PROVE  clif_charspecific(w, scr, x, p)[p][x] =
                 IF clif_send_sub(w, p, x) THEN Look(w, p, x) ELSE scr[p][x]
    <3>1. x # p /\ scr[p] \in [Persons -> Drawables] /\ scr \in [Persons -> [Persons -> Drawables]]
      BY <2>1 DEF Others, Screens
    <3>2. clif_charspecific_look(w, p, x) = Look(w, p, x)
      BY LookIsDrawn
    <3>. QED  BY <3>1, <3>2 DEF clif_charspecific
  <2>2. \A x \in Persons : scr[p][x] \in Drawables /\ Look(w, p, x) \in Drawables
    BY LookIsDrawn DEF Screens
  <2>. QED  BY <2>1, <2>2 DEF ShownTo
<1>2. \A o \in Persons : new(o) = ChangedFor(w, scr, p, o) /\ new(o) \in Drawables
  BY LookIsDrawn DEF ChangedFor, Screens
<1>3. clif_updatestate(w, scr, p) =
        [o \in Persons |-> IF o = p THEN own ELSE [scr[o] EXCEPT ![p] = new(o)]]
  BY DEF clif_updatestate, Screens
<1>4. own \in [Persons -> Drawables]
  BY <1>1
<1>. HIDE DEF own, new
<1>5. \A o \in Persons :
        /\ [scr[o] EXCEPT ![p] = new(o)] \in [Persons -> Drawables]
        /\ \A x \in Persons :
             [scr[o] EXCEPT ![p] = new(o)][x] = IF x = p THEN new(o) ELSE scr[o][x]
  BY <1>2 DEF Screens
<1>6. \A o, x \in Persons :
        clif_updatestate(w, scr, p)[o][x] =
          IF o = p THEN own[x] ELSE IF x = p THEN new(o) ELSE scr[o][x]
  BY <1>3, <1>5
<1>7. clif_updatestate(w, scr, p) \in Screens
  BY <1>3, <1>4, <1>5 DEF Screens
<1>. QED  BY <1>1, <1>2, <1>6, <1>7

----------------------------------------------------------------------------
(* One player changes.                                                     *)

\* w is the players after a step that changes p.
Changed(w, p) == w \in People /\ \A q \in Persons \ {p} : w[q] = who[q]

\* What the others have to show of each other stays.
LEMMA TruthOfOthers ==
  ASSUME NEW w, NEW p \in Persons, Changed(w, p),
         NEW o \in Persons \ {p}, NEW x \in Persons \ {p}
  PROVE  Truth(w, o, x) = Truth(who, o, x)
<1>1. w[o] = who[o] /\ w[x] = who[x]
  BY DEF Changed
<1>. QED  BY <1>1 DEF Truth, Others, clif_send_sub, unseen, Look, statebyte, worn

\* A pair that was right, or was wrong in a way that is excused or asked
\* about, is still so.
LEMMA PairsKeep ==
  ASSUME LooksInv, LooksTypeOK', NEW w, NEW scr, NEW new, Become(w, scr, new),
         \A o, x \in Persons :
           o # x /\ <<o, x>> \notin excused =>
             \/ scr[o][x] = Truth(w, o, x)
             \/ /\ scr[o][x] = screen[o][x]
                /\ Truth(w, o, x) = Truth(who, o, x)
                /\ x \in asked[o] => x \in asked'[o]
             \/ <<o, x>> \in new
             \/ scr[o][x] = None /\ x \in asked'[o]
  PROVE  LooksInv'
<1>1. /\ who' = w /\ screen' = scr /\ grouped' = grouped
      /\ excused' = {e \in excused \cup new : ~Right(w, scr, e[1], e[2])}
  BY DEF Become, Excuses
<1>2. ASSUME NEW o \in Persons, NEW x \in Persons
      PROVE  \/ o = x \/ scr[o][x] = Truth(w, o, x) \/ <<o, x>> \in excused'
             \/ (scr[o][x] = None /\ x \in asked'[o])
  <2>1. <<o, x>> \in excused \cup new /\ ~Right(w, scr, o, x) => <<o, x>> \in excused'
    BY <1>1
  <2>2. Right(w, scr, o, x) <=> o = x \/ scr[o][x] = Truth(w, o, x)
    BY DEF Right
  <2>3. \/ o = x \/ screen[o][x] = Truth(who, o, x) \/ <<o, x>> \in excused
        \/ (screen[o][x] = None /\ x \in asked[o])
    BY DEF LooksInv, ScreenIsTrue, Right
  <2>. QED  BY <2>1, <2>2, <2>3
<1>3. \A o, x \in Persons : Truth(who, o, x)' = Truth(w, o, x)
  BY <1>1 DEF Truth, Others, clif_send_sub, unseen, Look, statebyte, worn
<1>4. ScreenIsTrue'
  BY <1>1, <1>2, <1>3 DEF ScreenIsTrue, Right
<1>. QED  BY <1>4 DEF LooksInv

\* The types of what Become sets.
LEMMA BecomeType ==
  ASSUME LooksTypeOK, NEW w \in People, NEW scr \in Screens,
         NEW new \in SUBSET (Persons \X Persons), Become(w, scr, new),
         asked' \in [Persons -> SUBSET Persons]
  PROVE  LooksTypeOK'
<1>1. /\ who' = w /\ screen' = scr /\ grouped' = grouped
      /\ excused' \subseteq Persons \X Persons
  BY DEF Become, Excuses, LooksTypeOK
<1>. QED  BY <1>1 DEF LooksTypeOK, People, Screens, Drawables

\* Questions that packets about p bring.
LEMMA AskingIs ==
  ASSUME LooksTypeOK, NEW w, NEW scr, NEW hearers, NEW p \in Persons,
         asked' = Asking(w, scr, hearers, p)
  PROVE  /\ asked' \in [Persons -> SUBSET Persons]
         /\ \A o \in Persons : asked[o] \subseteq asked'[o]
         /\ \A o \in Persons : o \in hearers /\ scr[o][p] = None => p \in asked'[o]
  BY DEF Asking, LooksTypeOK

----------------------------------------------------------------------------
(* The handlers.                                                           *)

\* A handler that takes p off the screens first, at the place and in the state
\* of v, and then shows p anew as in w.
LEMMA TakenKeeps ==
  ASSUME LooksInv, NEW p \in Persons, NEW v, NEW w, NEW gone, NEW shown, NEW scr,
         v \in People, Changed(w, p), gone \in Screens, shown \in Screens,
         \A o, x \in Persons :
           gone[o][x] = IF x = p /\ Sees(v, o, p) THEN None ELSE screen[o][x],
         \A o, x \in Persons :
           shown[o][x] = gone[o][x]
             \/ (x = p /\ Sees(w, o, p) /\ shown[o][x] = Look(w, o, p)),
         \A o \in Persons : Sees(who, o, p) => Sees(v, o, p),
         scr = Refreshed(w, shown, p), Become(w, scr, {}), asked' = asked
  PROVE  LooksInv'
<1>1. /\ scr \in Screens
      /\ \A o, x \in Persons : o # x =>
           scr[o][x] = IF o = p THEN Truth(w, p, x)
                       ELSE IF x = p /\ Sees(w, o, p) THEN Look(w, o, p)
                       ELSE shown[o][x]
  <2>1. w \in People
    BY DEF Changed
  <2>2. /\ Refreshed(w, shown, p) \in Screens
        /\ \A o, x \in Persons : o # x =>
             Refreshed(w, shown, p)[o][x] =
               IF o = p THEN Truth(w, p, x)
               ELSE IF x = p /\ Sees(w, o, p) THEN Look(w, o, p) ELSE shown[o][x]
    BY <2>1, RefreshedIs
  <2>3. scr = Refreshed(w, shown, p)
    OBVIOUS
  <2>. QED  BY <2>2, <2>3
<1>2. LooksTypeOK'
  BY <1>1, BecomeType DEF LooksInv, Changed, LooksTypeOK
<1>3. ASSUME NEW o \in Persons, NEW x \in Persons, o # x, <<o, x>> \notin excused
      PROVE  \/ scr[o][x] = Truth(w, o, x)
             \/ /\ scr[o][x] = screen[o][x]
                /\ Truth(w, o, x) = Truth(who, o, x)
                /\ x \in asked[o] => x \in asked'[o]
             \/ <<o, x>> \in {}
             \/ scr[o][x] = None /\ x \in asked'[o]
  <2>1. CASE o = p
    BY <1>1, <1>3, <2>1
  <2>2. CASE o # p /\ x # p
    <3>1. scr[o][x] = screen[o][x]
      BY <1>1, <1>3, <2>2
    <3>2. Truth(w, o, x) = Truth(who, o, x)
      BY <2>2, TruthOfOthers
    <3>. QED  BY <3>1, <3>2
  <2>3. CASE x = p
    <3>1. Truth(w, o, p) = IF Sees(w, o, p) THEN Look(w, o, p) ELSE None
      BY TruthIs DEF Changed
    <3>2. Truth(who, o, p) = IF Sees(who, o, p) THEN Look(who, o, p) ELSE None
      BY TruthIs DEF LooksInv, LooksTypeOK, People
    <3>3. CASE Sees(w, o, p)
      BY <1>1, <1>3, <2>3, <3>1, <3>3
    <3>4. CASE ~Sees(w, o, p) /\ Sees(v, o, p)
      <4>1. scr[o][p] = None
        BY <1>1, <1>3, <2>3, <3>4
      <4>. QED  BY <2>3, <3>1, <3>4, <4>1
    <3>5. CASE ~Sees(w, o, p) /\ ~Sees(v, o, p)
      <4>1. scr[o][p] = screen[o][p] /\ ~Sees(who, o, p)
        BY <1>1, <1>3, <2>3, <3>5
      <4>. QED  BY <2>3, <3>1, <3>2, <3>5, <4>1
    <3>. QED  BY <3>3, <3>4, <3>5
  <2>. QED  BY <2>1, <2>2, <2>3
<1>. QED  BY <1>2, <1>3, PairsKeep

\* p takes something on or off that does not hide it, or turns on its sight of
\* the dead, or just asks for all anew.
LEMMA RefreshKeeps ==
  ASSUME LooksInv, NEW p \in Persons, NEW w, Changed(w, p),
         \A o \in Persons : o # p /\ Sees(who, o, p) => Sees(w, o, p),
         Become(w, Refreshed(w, screen, p), {}), asked' = asked
  PROVE  LooksInv'
<1>. DEFINE scr == Refreshed(w, screen, p)
<1>1. /\ scr \in Screens
      /\ \A o, x \in Persons : o # x =>
           scr[o][x] = IF o = p THEN Truth(w, p, x)
                       ELSE IF x = p /\ Sees(w, o, p) THEN Look(w, o, p)
                       ELSE screen[o][x]
  BY RefreshedIs DEF Changed, LooksInv, LooksTypeOK, Screens, Drawables
<1>. HIDE DEF scr
<1>2. LooksTypeOK'
  BY <1>1, BecomeType DEF LooksInv, Changed, LooksTypeOK, scr
<1>3. ASSUME NEW o \in Persons, NEW x \in Persons, o # x, <<o, x>> \notin excused
      PROVE  \/ scr[o][x] = Truth(w, o, x)
             \/ /\ scr[o][x] = screen[o][x]
                /\ Truth(w, o, x) = Truth(who, o, x)
                /\ x \in asked[o] => x \in asked'[o]
             \/ <<o, x>> \in {}
             \/ scr[o][x] = None /\ x \in asked'[o]
  <2>1. CASE o = p
    BY <1>1, <1>3, <2>1
  <2>2. CASE o # p /\ x # p
    <3>1. scr[o][x] = screen[o][x]
      BY <1>1, <1>3, <2>2
    <3>2. Truth(w, o, x) = Truth(who, o, x)
      BY <2>2, TruthOfOthers
    <3>. QED  BY <3>1, <3>2
  <2>3. CASE x = p
    <3>1. Truth(w, o, p) = IF Sees(w, o, p) THEN Look(w, o, p) ELSE None
      BY TruthIs DEF Changed
    <3>2. Truth(who, o, p) = IF Sees(who, o, p) THEN Look(who, o, p) ELSE None
      BY TruthIs DEF LooksInv, LooksTypeOK, People
    <3>. QED  BY <1>1, <1>3, <2>3, <3>1, <3>2
  <2>. QED  BY <2>1, <2>2, <2>3
<1>. QED  BY <1>2, <1>3, PairsKeep DEF scr

\* p changes where it is, and clif_updatestate and the questions it brings mend
\* what the others show of it; what p shows of the others is right, or
\* excused by a script that raises the dead.
LEMMA UpdatesKeeps ==
  ASSUME LooksInv, NEW p \in Persons, NEW w, Changed(w, p),
         w[p].at = who[p].at, w[p].stealth = who[p].stealth,
         w[p].gm = who[p].gm, w[p].ghosts = who[p].ghosts,
         NEW new \in SUBSET (Persons \X Persons), Updates(p, new, w),
         who[p].state = PC_DIE => w[p].state = PC_DIE \/ {p} \X Persons \subseteq new
  PROVE  LooksInv'
<1>. DEFINE scr == clif_updatestate(w, screen, p)
<1>1. /\ scr \in Screens
      /\ \A o, x \in Persons : o # x =>
           scr[o][x] = IF o = p THEN ShownTo(w, screen, p, x)
                       ELSE IF x = p THEN ChangedFor(w, screen, p, o)
                       ELSE screen[o][x]
  BY UpdateIs DEF Changed, LooksInv, LooksTypeOK, Screens, Drawables
<1>. HIDE DEF scr
<1>2. /\ asked' \in [Persons -> SUBSET Persons]
      /\ \A o \in Persons : asked[o] \subseteq asked'[o]
      /\ \A o \in Persons : o \in Others(w, p) /\ screen[o][p] = None => p \in asked'[o]
  BY AskingIs DEF LooksInv, Updates
<1>3. Become(w, scr, new)
  BY DEF Updates, scr
<1>4. LooksTypeOK'
  BY <1>1, <1>2, <1>3, BecomeType DEF LooksInv, Changed
<1>5. ASSUME NEW o \in Persons, NEW x \in Persons, o # x, <<o, x>> \notin excused
      PROVE  \/ scr[o][x] = Truth(w, o, x)
             \/ /\ scr[o][x] = screen[o][x]
                /\ Truth(w, o, x) = Truth(who, o, x)
                /\ x \in asked[o] => x \in asked'[o]
             \/ <<o, x>> \in new
             \/ scr[o][x] = None /\ x \in asked'[o]
  <2>1. CASE o = p
    <3>1. /\ Truth(w, p, x) = IF Sees(w, p, x) THEN Look(w, p, x) ELSE None
          /\ Truth(who, p, x) = IF Sees(who, p, x) THEN Look(who, p, x) ELSE None
      BY TruthIs DEF Changed, LooksInv, LooksTypeOK, People
    <3>2. w[x] = who[x]
      BY <1>5, <2>1 DEF Changed
    <3>3. Look(w, p, x) = Look(who, p, x)
      BY <3>2 DEF Look, statebyte, worn
    <3>4. scr[p][x] = ShownTo(w, screen, p, x)
      BY <1>1, <1>5, <2>1
    <3>5. CASE who[p].state = PC_DIE /\ w[p].state # PC_DIE
      BY <2>1, <3>5
    <3>6. CASE scr[p][x] = Look(w, p, x) /\ Sees(w, p, x)
      BY <2>1, <3>1, <3>6
    <3>7. CASE scr[p][x] = screen[p][x] /\ (Sees(w, p, x) <=> Sees(who, p, x))
      BY <1>2, <2>1, <3>1, <3>3, <3>7
    <3>8. CASE who[p].state # PC_DIE \/ w[p].state = PC_DIE
      <4>1. x \in Others(w, p) <=> x \in Others(who, p)
        BY <3>2 DEF Others
      <4>2. p \in Others(w, x) <=> x \in Others(w, p)
        BY DEF Others
      <4>3. p \in Others(who, x) <=> x \in Others(who, p)
        BY DEF Others
      <4>4. CASE x \notin Others(w, p)
        BY <3>4, <3>7, <4>1, <4>2, <4>3, <4>4 DEF ShownTo, Sees
      <4>5. CASE x \in Others(w, p) /\ (unseen(w, p, x) <=> unseen(who, p, x))
        <5>1. clif_send_sub(w, p, x) <=> clif_send_sub(who, p, x)
          BY <3>2, <4>5 DEF clif_send_sub
        <5>2. Sees(w, p, x) <=> Sees(who, p, x)
          BY <4>1, <4>2, <4>3, <5>1 DEF Sees
        <5>3. CASE scr[p][x] = screen[p][x]
          BY <3>7, <5>2, <5>3
        <5>4. CASE scr[p][x] # screen[p][x]
          <6>1. scr[p][x] = Look(w, p, x) /\ clif_send_sub(w, p, x)
            BY <3>4, <5>4 DEF ShownTo
          <6>. QED  BY <3>6, <4>2, <4>5, <6>1 DEF Sees
        <5>. QED  BY <5>3, <5>4
      <4>6. CASE x \in Others(w, p) /\ ~(unseen(w, p, x) <=> unseen(who, p, x))
        <5>1. /\ who[p].state # PC_DIE /\ w[p].state = PC_DIE
              /\ w[x].at \in GhostMaps /\ w[x].state = PC_DIE
              /\ ~unseen(w, p, x)
          BY <3>2, <3>8, <4>6 DEF unseen
        <5>2. w[p].at \in GhostMaps /\ ~unseen(w, x, p)
          BY <4>6, <5>1 DEF Others, unseen
        <5>3. CASE clif_send_sub(w, p, x)
          <6>1. scr[p][x] = Look(w, p, x)
            BY <3>4, <4>6, <5>1, <5>2, <5>3 DEF ShownTo
          <6>. QED  BY <3>6, <4>2, <4>6, <5>3, <6>1 DEF Sees
        <5>4. CASE ~clif_send_sub(w, p, x)
          <6>1. scr[p][x] = screen[p][x]
            BY <3>4, <5>4 DEF ShownTo
          <6>2. ~clif_send_sub(who, p, x)
            BY <3>2, <5>1, <5>4 DEF clif_send_sub
          <6>. QED  BY <3>7, <5>4, <6>1, <6>2 DEF Sees
        <5>. QED  BY <5>3, <5>4
      <4>. QED  BY <4>4, <4>5, <4>6
    <3>. QED  BY <3>5, <3>8
  <2>2. CASE o # p /\ x # p
    <3>1. scr[o][x] = screen[o][x]
      BY <1>1, <1>5, <2>2
    <3>2. Truth(w, o, x) = Truth(who, o, x)
      BY <2>2, TruthOfOthers
    <3>. QED  BY <1>2, <3>1, <3>2
  <2>3. CASE x = p
    <3>1. /\ Truth(w, o, p) = IF Sees(w, o, p) THEN Look(w, o, p) ELSE None
          /\ Truth(who, o, p) = IF Sees(who, o, p) THEN Look(who, o, p) ELSE None
      BY TruthIs DEF Changed, LooksInv, LooksTypeOK, People
    <3>2. scr[o][p] = ChangedFor(w, screen, p, o)
      BY <1>1, <1>5, <2>3
    <3>3. w[o] = who[o]
      BY <1>5, <2>3 DEF Changed
    <3>4. CASE o \notin Others(w, p)
      <4>1. ~Sees(w, o, p) /\ ~Sees(who, o, p) /\ scr[o][p] = screen[o][p]
        BY <3>2, <3>3, <3>4 DEF ChangedFor, Sees, Others
      <4>. QED  BY <1>2, <2>3, <3>1, <4>1
    <3>5. CASE o \in Others(w, p) /\ screen[o][p] = None
      <4>1. scr[o][p] = None /\ p \in asked'[o]
        BY <1>2, <3>2, <3>5 DEF ChangedFor
      <4>. QED  BY <2>3, <4>1
    <3>6. CASE o \in Others(w, p) /\ screen[o][p] # None /\ unseen(w, o, p)
      <4>1. scr[o][p] = None /\ ~Sees(w, o, p)
        BY <3>2, <3>6 DEF ChangedFor, Sees, clif_send_sub
      <4>. QED  BY <2>3, <3>1, <4>1
    <3>7. CASE o \in Others(w, p) /\ screen[o][p] # None /\ ~unseen(w, o, p)
      <4>1. scr[o][p] = Look(w, o, p)
        BY <3>2, <3>7 DEF ChangedFor
      <4>2. screen[o][p] = Truth(who, o, p)
        BY <1>5, <2>3, <3>7 DEF LooksInv, ScreenIsTrue, Right
      <4>3. Sees(who, o, p)
        BY <3>1, <3>7, <4>2
      <4>4. Sees(w, o, p)
        BY <3>3, <3>7, <4>3 DEF Sees, clif_send_sub
      <4>. QED  BY <2>3, <3>1, <4>1, <4>4
    <3>. QED  BY <3>4, <3>5, <3>6, <3>7
  <2>. QED  BY <2>1, <2>2, <2>3
<1>. QED  BY <1>3, <1>4, <1>5, PairsKeep


\* clif_lookgone at v, sendchararea and a refresh at w, with what is done to
\* the screens put together.
LEMMA TakenIs ==
  ASSUME LooksInv, NEW p \in Persons, NEW v \in People, NEW w, Changed(w, p),
         \A o \in Persons : Sees(who, o, p) => Sees(v, o, p),
         NEW shown \in Screens,
         LET gone == clif_lookgone(v, screen, p)
         IN  shown \in {gone, clif_sendchararea(w, gone, p)},
         Become(w, Refreshed(w, shown, p), {}), asked' = asked
  PROVE  LooksInv'
<1>1. w \in People /\ screen \in Screens
  BY DEF Changed, LooksInv, LooksTypeOK, Screens, Drawables
<1>2. PICK gone : gone = clif_lookgone(v, screen, p)
  OBVIOUS
<1>3. /\ gone \in Screens
      /\ \A o, x \in Persons :
           gone[o][x] = IF x = p /\ Sees(v, o, p) THEN None ELSE screen[o][x]
  <2>1. /\ clif_lookgone(v, screen, p) \in Screens
        /\ \A o, x \in Persons :
             clif_lookgone(v, screen, p)[o][x] =
               IF x = p /\ Sees(v, o, p) THEN None ELSE screen[o][x]
    BY <1>1, GoneIs
  <2>. QED  BY <1>2, <2>1
<1>4. \A o, x \in Persons :
        shown[o][x] = gone[o][x]
          \/ (x = p /\ Sees(w, o, p) /\ shown[o][x] = Look(w, o, p))
  <2>1. CASE shown = gone
    BY <2>1
  <2>2. CASE shown = clif_sendchararea(w, gone, p)
    <3>1. \A o, x \in Persons :
            clif_sendchararea(w, gone, p)[o][x] =
              IF x = p /\ Sees(w, o, p) THEN Look(w, o, p) ELSE gone[o][x]
      BY <1>1, <1>3, SendIs
    <3>. QED  BY <2>2, <3>1
  <2>. QED  BY <1>2, <2>1, <2>2
<1>5. PICK scr : scr = Refreshed(w, shown, p)
  OBVIOUS
<1>. QED  BY <1>3, <1>4, <1>5, TakenKeeps

\* Warping takes p from one place to another.
LEMMA WarpKeeps ==
  ASSUME LooksInv, NEW p \in Persons, NEW m \in Realms, pc_warp_shown(p, m)
  PROVE  LooksInv'
<1>. DEFINE to == [who EXCEPT ![p].at = m]
            gone == clif_lookgone(who, screen, p)
            shown == clif_sendchararea(to, gone, p)
<1>1. who \in People /\ screen \in Screens
  BY DEF LooksInv, LooksTypeOK, People, Screens, Drawables
<1>2. to \in People /\ Changed(to, p)
  BY <1>1 DEF Changed, People
<1>3. gone \in Screens
  BY <1>1, GoneIs
<1>4. shown \in Screens
  <2>. HIDE DEF to, gone
  <2>. QED  BY <1>2, <1>3, SendIs
<1>5. Become(to, Refreshed(to, shown, p), {}) /\ asked' = asked
  BY DEF pc_warp_shown, TakenTo
<1>. HIDE DEF to
<1>. QED  BY <1>1, <1>2, <1>4, <1>5, TakenIs

\* pc_res: p has risen already when it is taken off the screens.
LEMMA ResKeeps ==
  ASSUME LooksInv, NEW p \in Persons, pc_res(p)
  PROVE  LooksInv'
<1>. DEFINE to == Raised(p)
            gone == clif_lookgone(to, screen, p)
            shown == clif_sendchararea(to, gone, p)
<1>1. who \in People /\ screen \in Screens
  BY DEF LooksInv, LooksTypeOK, People, Screens, Drawables
<1>2. to \in People /\ Changed(to, p)
  BY <1>1 DEF Changed, People, Raised
<1>3. [to EXCEPT ![p].at = who[p].at] = to
  BY <1>1 DEF People, Raised
<1>4. ASSUME NEW o \in Persons, Sees(who, o, p)
      PROVE  Sees(to, o, p)
  <2>1. /\ to[p].at = who[p].at /\ to[p].stealth = who[p].stealth
        /\ to[p].state = ALIVE /\ (o # p => to[o] = who[o])
    BY <1>1 DEF People, Raised
  <2>. QED  BY <1>4, <2>1 DEF Sees, Others, clif_send_sub, unseen, ALIVE, PC_DIE
<1>. HIDE DEF to
<1>5. gone \in Screens
  BY <1>1, <1>2, GoneIs
<1>6. shown \in Screens
  <2>. HIDE DEF gone
  <2>. QED  BY <1>2, <1>5, SendIs
<1>7. Become(to, Refreshed(to, shown, p), {}) /\ asked' = asked
  <2>1. Become(to, TakenTo(to, screen, p, who[p].at), {}) /\ asked' = asked
    BY DEF pc_res, to
  <2>. QED  BY <1>3, <2>1 DEF TakenTo
<1>. QED  BY <1>2, <1>4, <1>6, <1>7, TakenIs

\* Going into stealth and out of it.
LEMMA StealthKeeps ==
  ASSUME LooksInv, NEW p \in Persons, command_stealth(p)
  PROVE  LooksInv'
<1>. DEFINE w == [who EXCEPT ![p].stealth = ~@]
            gone == clif_lookgone(who, screen, p)
<1>1. who \in People /\ screen \in Screens
  BY DEF LooksInv, LooksTypeOK, People, Screens, Drawables
<1>2. /\ w \in People /\ Changed(w, p)
      /\ w[p].at = who[p].at /\ w[p].state = who[p].state
  BY <1>1 DEF Changed, People
<1>3. asked' = asked
  BY DEF command_stealth
<1>4. CASE w[p].stealth
  <2>1. Become(w, Refreshed(w, gone, p), {})
    BY <1>4 DEF command_stealth
  <2>2. gone \in Screens
    BY <1>1, GoneIs
  <2>. HIDE DEF w
  <2>. QED  BY <1>1, <1>2, <1>3, <2>1, <2>2, TakenIs
<1>5. CASE ~w[p].stealth
  <2>1. Become(w, Refreshed(w, screen, p), {})
    BY <1>5 DEF command_stealth
  <2>. HIDE DEF w
  <2>2. ASSUME NEW o \in Persons, o # p, Sees(who, o, p)
        PROVE  Sees(w, o, p)
    <3>1. w[o] = who[o]
      BY <1>2, <2>2 DEF Changed
    <3>. QED  BY <1>2, <1>5, <2>2, <3>1 DEF Sees, Others, clif_send_sub, unseen
  <2>. QED  BY <1>2, <1>3, <2>1, <2>2, RefreshKeeps
<1>. QED  BY <1>4, <1>5

\* The sight of the dead.
LEMMA GhostsKeep ==
  ASSUME LooksInv, NEW p \in Persons, command_ghosts(p)
  PROVE  LooksInv'
<1>. DEFINE w == [who EXCEPT ![p].ghosts = ~@]
<1>1. who \in People
  BY DEF LooksInv, LooksTypeOK, People
<1>2. /\ w \in People /\ Changed(w, p)
      /\ w[p].at = who[p].at /\ w[p].state = who[p].state
      /\ w[p].stealth = who[p].stealth
  BY <1>1 DEF Changed, People
<1>3. asked' = asked /\ Become(w, Refreshed(w, screen, p), {})
  BY DEF command_ghosts
<1>. HIDE DEF w
<1>4. ASSUME NEW o \in Persons, o # p, Sees(who, o, p)
      PROVE  Sees(w, o, p)
  <2>1. w[o] = who[o]
    BY <1>2, <1>4 DEF Changed
  <2>. QED  BY <1>2, <1>4, <2>1 DEF Sees, Others, clif_send_sub, unseen
<1>. QED  BY <1>2, <1>3, <1>4, RefreshKeeps

\* The client asks for all anew.
LEMMA RefreshingKeeps ==
  ASSUME LooksInv, NEW p \in Persons, clif_parserefresh_shown(p)
  PROVE  LooksInv'
<1>1. Changed(who, p)
  BY DEF LooksInv, LooksTypeOK, Changed, People
<1>. QED  BY <1>1, RefreshKeeps DEF clif_parserefresh_shown

\* Dressing.
LEMMA EquipKeeps ==
  ASSUME LooksInv, NEW p \in Persons, pc_equipscript_shown(p)
  PROVE  LooksInv'
<1>. DEFINE w == [who EXCEPT ![p].dress = 1 - @]
<1>1. who \in People
  BY DEF LooksInv, LooksTypeOK, People
<1>2. \A d \in {0, 1} : 1 - d \in {0, 1}
  OBVIOUS
<1>3. /\ Changed(w, p) /\ w[p].at = who[p].at /\ w[p].stealth = who[p].stealth
      /\ w[p].gm = who[p].gm /\ w[p].ghosts = who[p].ghosts
      /\ w[p].state = who[p].state
  BY <1>1, <1>2 DEF Changed, People
<1>4. Updates(p, {}, w)
  BY DEF pc_equipscript_shown
<1>. HIDE DEF w
<1>. QED  BY <1>3, <1>4, UpdatesKeeps

\* A state that is set and sent, by whatever sets it.
LEMMA StateKeeps ==
  ASSUME LooksInv, NEW p \in Persons, NEW s \in {ALIVE, PC_DIE, INVISIBLE},
         NEW new \in SUBSET (Persons \X Persons),
         Updates(p, new, [who EXCEPT ![p].state = s]),
         who[p].state = PC_DIE => s = PC_DIE \/ {p} \X Persons \subseteq new
  PROVE  LooksInv'
<1>. DEFINE w == [who EXCEPT ![p].state = s]
<1>1. who \in People
  BY DEF LooksInv, LooksTypeOK, People
<1>2. /\ Changed(w, p) /\ w[p].at = who[p].at /\ w[p].stealth = who[p].stealth
      /\ w[p].gm = who[p].gm /\ w[p].ghosts = who[p].ghosts
      /\ w[p].state = s
  BY <1>1 DEF Changed, People
<1>3. Updates(p, new, w)
  OBVIOUS
<1>. HIDE DEF w
<1>. QED  BY <1>2, <1>3, UpdatesKeeps


\* A step shows p to whoever comes into view, and those to p.
LEMMA ShownWalkKeeps ==
  ASSUME LooksInv, NEW p \in Persons, clif_parsewalk_shown(p)
  PROVE  LooksInv'
<1>1. who \in People /\ screen \in Screens
  BY DEF LooksInv, LooksTypeOK, People, Screens, Drawables
<1>. DEFINE got(strip) == [screen EXCEPT ![p] = [x \in Persons |->
                     IF x \in strip /\ clif_send_sub(who, p, x)
                     THEN Look(who, p, x) ELSE @[x]]]
            seen(strip) == [o \in Persons |->
                     IF o \in strip THEN clif_sendchararea(who, got(strip), p)[o]
                     ELSE got(strip)[o]]
            hearers == {o \in Others(who, p) : clif_send_sub(who, o, p)}
<1>2. PICK strip \in SUBSET Others(who, p) :
        /\ Become(who, seen(strip), {})
        /\ asked' = Asking(who, screen, hearers, p)
  BY DEF clif_parsewalk_shown
<1>3. strip \in SUBSET (Persons \ {p})
  BY DEF Others
<1>4. /\ got(strip) \in Screens
      /\ \A o, x \in Persons :
           got(strip)[o][x] =
             IF o = p /\ x \in strip /\ clif_send_sub(who, p, x)
             THEN Look(who, p, x) ELSE screen[o][x]
  <2>. DEFINE own == [x \in Persons |->
                     IF x \in strip /\ clif_send_sub(who, p, x)
                     THEN Look(who, p, x) ELSE screen[p][x]]
  <2>1. own \in [Persons -> Drawables]
    BY <1>1, LookIsDrawn DEF Screens
  <2>2. \A x \in Persons : own[x] =
          IF x \in strip /\ clif_send_sub(who, p, x)
          THEN Look(who, p, x) ELSE screen[p][x]
    OBVIOUS
  <2>3. got(strip) = [screen EXCEPT ![p] = own]
    OBVIOUS
  <2>. HIDE DEF own, got
  <2>. QED  BY <1>1, <2>1, <2>2, <2>3 DEF Screens
<1>. HIDE DEF got
<1>5. /\ clif_sendchararea(who, got(strip), p) \in Screens
      /\ \A o, x \in Persons :
           clif_sendchararea(who, got(strip), p)[o][x] =
             IF x = p /\ Sees(who, o, p) THEN Look(who, o, p)
             ELSE got(strip)[o][x]
  BY <1>1, <1>4, SendIs
<1>6. /\ seen(strip) \in Screens
      /\ \A o \in Persons : seen(strip)[o] =
           IF o \in strip THEN clif_sendchararea(who, got(strip), p)[o]
           ELSE got(strip)[o]
  BY <1>4, <1>5 DEF Screens
<1>. HIDE DEF seen
<1>7. /\ asked' \in [Persons -> SUBSET Persons]
      /\ \A o \in Persons : asked[o] \subseteq asked'[o]
  BY <1>2, AskingIs DEF LooksInv
<1>8. LooksTypeOK'
  BY <1>1, <1>2, <1>6, <1>7, BecomeType DEF LooksInv
<1>9. ASSUME NEW o \in Persons, NEW x \in Persons, o # x, <<o, x>> \notin excused
      PROVE  \/ seen(strip)[o][x] = Truth(who, o, x)
             \/ /\ seen(strip)[o][x] = screen[o][x]
                /\ x \in asked[o] => x \in asked'[o]
  <2>1. CASE o = p /\ x \in strip /\ clif_send_sub(who, p, x)
    <3>1. seen(strip)[p][x] = Look(who, p, x)
      BY <1>3, <1>4, <1>6, <2>1
    <3>2. Truth(who, p, x) = Look(who, p, x)
      BY <2>1 DEF Truth
    <3>. QED  BY <2>1, <3>1, <3>2
  <2>2. CASE x = p /\ o \in strip /\ Sees(who, o, p)
    <3>1. seen(strip)[o][p] = Look(who, o, p)
      BY <1>5, <1>6, <2>2
    <3>2. Truth(who, o, p) = Look(who, o, p)
      BY <1>1, <2>2, TruthIs
    <3>. QED  BY <2>2, <3>1, <3>2
  <2>3. CASE /\ ~(o = p /\ x \in strip /\ clif_send_sub(who, p, x))
             /\ ~(x = p /\ o \in strip /\ Sees(who, o, p))
    <3>1. got(strip)[o][x] = screen[o][x]
      BY <1>4, <2>3
    <3>2. seen(strip)[o][x] = got(strip)[o][x]
      BY <1>5, <1>6, <2>3
    <3>. QED  BY <1>7, <3>1, <3>2
  <2>. QED  BY <2>1, <2>2, <2>3
<1>. QED  BY <1>2, <1>8, <1>9, PairsKeep

\* One who logs out is on no screen, and shows nobody.
LEMMA QuitKeeps ==
  ASSUME LooksInv, NEW p \in Persons, clif_quit(p)
  PROVE  LooksInv'
<1>. DEFINE w == [who EXCEPT ![p].at = Off, ![p].stealth = FALSE,
                             ![p].ghosts = FALSE]
            gone == clif_lookgone(who, screen, p)
            own == [x \in Persons |-> None]
            scr == [gone EXCEPT ![p] = own]
<1>1. who \in People /\ screen \in Screens
  BY DEF LooksInv, LooksTypeOK, People, Screens, Drawables
<1>2. Changed(w, p) /\ w[p].at = Off
  <2>1. who[p] \in [at : Realms \cup {Off}, gm : BOOLEAN,
                    state : {ALIVE, PC_DIE, INVISIBLE},
                    stealth : BOOLEAN, ghosts : BOOLEAN, dress : {0, 1}]
    BY <1>1 DEF People
  <2>. DEFINE out == [who[p] EXCEPT !.at = Off, !.stealth = FALSE, !.ghosts = FALSE]
  <2>2. /\ out \in [at : Realms \cup {Off}, gm : BOOLEAN,
                    state : {ALIVE, PC_DIE, INVISIBLE},
                    stealth : BOOLEAN, ghosts : BOOLEAN, dress : {0, 1}]
        /\ out.at = Off
    BY <2>1
  <2>3. w = [who EXCEPT ![p] = out]
    BY <1>1 DEF People
  <2>. HIDE DEF out, w
  <2>. QED  BY <1>1, <2>2, <2>3 DEF Changed, People
<1>3. Become(w, scr, {}) /\ asked' = [asked EXCEPT ![p] = {}]
  BY DEF clif_quit
<1>4. /\ gone \in Screens
      /\ \A o, x \in Persons :
           gone[o][x] = IF x = p /\ Sees(who, o, p) THEN None ELSE screen[o][x]
  BY <1>1, GoneIs
<1>. HIDE DEF w, gone
<1>5. /\ scr \in Screens
      /\ \A o, x \in Persons :
           scr[o][x] = IF o = p THEN None ELSE gone[o][x]
  <2>1. own \in [Persons -> Drawables] /\ \A x \in Persons : own[x] = None
    BY LookIsDrawn DEF Drawables
  <2>. HIDE DEF own
  <2>. QED  BY <1>4, <2>1 DEF Screens
<1>. HIDE DEF scr
<1>6. /\ asked' \in [Persons -> SUBSET Persons]
      /\ \A o \in Persons \ {p} : asked'[o] = asked[o]
  BY <1>3 DEF LooksInv, LooksTypeOK
<1>7. LooksTypeOK'
  BY <1>2, <1>3, <1>5, <1>6, BecomeType DEF LooksInv, Changed
<1>8. ASSUME NEW o \in Persons, NEW x \in Persons, o # x
      PROVE  \/ scr[o][x] = Truth(w, o, x)
             \/ /\ scr[o][x] = screen[o][x]
                /\ Truth(w, o, x) = Truth(who, o, x)
                /\ x \in asked[o] => x \in asked'[o]
  <2>1. CASE o = p
    <3>1. Truth(w, p, x) = None
      BY <1>2 DEF Truth, Others
    <3>. QED  BY <1>5, <2>1, <3>1
  <2>2. CASE o # p /\ x # p
    <3>1. scr[o][x] = screen[o][x]
      BY <1>4, <1>5, <2>2
    <3>2. Truth(w, o, x) = Truth(who, o, x)
      BY <1>2, <2>2, TruthOfOthers
    <3>. QED  BY <1>6, <2>2, <3>1, <3>2
  <2>3. CASE x = p
    <3>1. Truth(w, o, p) = None
      BY <1>2 DEF Truth, Others
    <3>2. CASE Sees(who, o, p)
      BY <1>4, <1>5, <1>8, <2>3, <3>1, <3>2
    <3>3. CASE ~Sees(who, o, p)
      <4>1. Truth(who, o, p) = None
        BY <1>1, <3>3, TruthIs
      <4>2. scr[o][p] = screen[o][p]
        BY <1>4, <1>5, <1>8, <2>3, <3>3
      <4>. QED  BY <1>6, <1>8, <2>3, <3>1, <4>1, <4>2
    <3>. QED  BY <3>2, <3>3
  <2>. QED  BY <2>1, <2>2, <2>3
<1>. QED  BY <1>3, <1>7, <1>8, PairsKeep

\* The answer to a question, which shows each of two the other.
LEMMA MissingKeeps ==
  ASSUME LooksInv, NEW o \in Persons, NEW x \in Persons,
         clif_handle_missingobject(o, x)
  PROVE  LooksInv'
<1>1. who \in People /\ screen \in Screens
  BY DEF LooksInv, LooksTypeOK, People, Screens, Drawables
<1>2. asked' = [asked EXCEPT ![o] = @ \ {x}]
  BY DEF clif_handle_missingobject
<1>3. /\ asked' \in [Persons -> SUBSET Persons]
      /\ \A y, z \in Persons :
           z \in asked[y] => z \in asked'[y] \/ (y = o /\ z = x)
  BY <1>2 DEF LooksInv, LooksTypeOK
<1>4. CASE who[x].at = Off
  <2>1. UNCHANGED <<who, grouped, screen, excused>>
    BY <1>4 DEF clif_handle_missingobject
  <2>2. Truth(who, o, x) = None
    BY <1>4 DEF Truth, Others
  <2>3. LooksTypeOK'
    BY <1>3, <2>1 DEF LooksInv, LooksTypeOK
  <2>4. \A y, z \in Persons : Right(who, screen, y, z)' = Right(who, screen, y, z)
    BY <2>1 DEF Right, Truth, Others, clif_send_sub, unseen, Look, statebyte, worn
  <2>5. ScreenIsTrue'
    <3>1. ASSUME NEW y \in Persons, NEW z \in Persons
          PROVE  \/ Right(who, screen, y, z) \/ <<y, z>> \in excused
                 \/ (screen[y][z] = None /\ z \in asked'[y])
      <4>1. \/ Right(who, screen, y, z) \/ <<y, z>> \in excused
            \/ (screen[y][z] = None /\ z \in asked[y])
        BY DEF LooksInv, ScreenIsTrue
      <4>2. screen[o][x] = None => Right(who, screen, o, x)
        BY <2>2 DEF Right
      <4>. QED  BY <1>3, <4>1, <4>2
    <3>. QED  BY <2>1, <2>4, <3>1 DEF ScreenIsTrue
  <2>. QED  BY <2>3, <2>5 DEF LooksInv
<1>5. CASE who[x].at # Off
  <2>. DEFINE once == clif_charspecific(who, screen, o, x)
              scr == clif_charspecific(who, once, x, o)
              new == IF x \notin Others(who, o) THEN {<<o, x>>, <<x, o>>} ELSE {}
  <2>1. Become(who, scr, new)
    BY <1>5 DEF clif_handle_missingobject
  <2>2. /\ once \in Screens
        /\ \A y, z \in Persons : y # z =>
             once[y][z] = IF y = x /\ z = o /\ clif_send_sub(who, x, o)
                          THEN Look(who, x, o) ELSE screen[y][z]
    BY <1>1, LookIsDrawn DEF clif_charspecific, Screens
  <2>. HIDE DEF once
  <2>3. /\ scr \in Screens
        /\ \A y, z \in Persons : y # z =>
             scr[y][z] = IF y = o /\ z = x /\ clif_send_sub(who, o, x)
                         THEN Look(who, o, x) ELSE once[y][z]
    BY <1>1, <2>2, LookIsDrawn DEF clif_charspecific, Screens
  <2>. HIDE DEF scr
  <2>4. LooksTypeOK'
    BY <1>1, <1>3, <2>1, <2>3, BecomeType DEF LooksInv
  <2>5. ASSUME NEW y \in Persons, NEW z \in Persons, y # z,
               <<y, z>> \notin excused
        PROVE  \/ scr[y][z] = Truth(who, y, z)
               \/ /\ scr[y][z] = screen[y][z]
                  /\ z \in asked[y] => z \in asked'[y]
               \/ <<y, z>> \in new
    <3>1. CASE x \in Others(who, o)
      <4>1. o \in Others(who, x)
        BY <3>1 DEF Others
      <4>2. CASE y = o /\ z = x
        <5>1. CASE clif_send_sub(who, o, x)
          BY <2>3, <2>5, <3>1, <4>2, <5>1 DEF Truth
        <5>2. CASE ~clif_send_sub(who, o, x)
          <6>1. scr[o][x] = screen[o][x]
            BY <2>2, <2>3, <2>5, <4>2, <5>2
          <6>2. Truth(who, o, x) = None
            BY <5>2 DEF Truth
          <6>3. screen[o][x] = Truth(who, o, x)
            BY <2>5, <4>2, <6>2 DEF LooksInv, ScreenIsTrue, Right
          <6>. QED  BY <4>2, <6>1, <6>3
        <5>. QED  BY <5>1, <5>2
      <4>3. CASE y = x /\ z = o
        <5>1. Truth(who, x, o) = IF clif_send_sub(who, x, o)
                                 THEN Look(who, x, o) ELSE None
          BY <4>1 DEF Truth
        <5>. QED  BY <1>3, <2>2, <2>3, <2>5, <4>3, <5>1
      <4>4. CASE ~(y = o /\ z = x) /\ ~(y = x /\ z = o)
        BY <1>3, <2>2, <2>3, <2>5, <4>4
      <4>. QED  BY <4>2, <4>3, <4>4
    <3>2. CASE x \notin Others(who, o)
      BY <1>3, <2>2, <2>3, <2>5, <3>2
    <3>. QED  BY <3>1, <3>2
  <2>. QED  BY <2>1, <2>4, <2>5, PairsKeep
<1>. QED  BY <1>4, <1>5


\* Logging in, p is shown to all who may see it and is told of all it may see.
LEMMA SpawnKeeps ==
  ASSUME LooksInv, NEW p \in Persons, NEW m \in Realms, clif_spawn(p, m)
  PROVE  LooksInv'
<1>. DEFINE w == [who EXCEPT ![p].at = m]
            sent == clif_sendchararea(w, screen, p)
            told == Refreshed(w, sent, p)
            scr == clif_updatestate(w, told, p)
<1>1. who \in People /\ screen \in Screens /\ who[p].at = Off
  BY DEF LooksInv, LooksTypeOK, People, Screens, Drawables, clif_spawn
<1>2. w \in People /\ Changed(w, p) /\ w[p].at # Off
  BY <1>1, LooksAssumption DEF Changed, People
<1>3. Become(w, scr, {}) /\ asked' = Asking(w, told, Others(w, p), p)
  BY DEF clif_spawn
<1>. HIDE DEF w
<1>4. /\ sent \in Screens
      /\ \A o, x \in Persons :
           sent[o][x] = IF x = p /\ Sees(w, o, p) THEN Look(w, o, p)
                        ELSE screen[o][x]
  BY <1>1, <1>2, SendIs
<1>. HIDE DEF sent
<1>5. /\ told \in Screens
      /\ \A o, x \in Persons : o # x =>
           told[o][x] = IF o = p THEN Truth(w, p, x)
                        ELSE IF x = p /\ Sees(w, o, p) THEN Look(w, o, p)
                        ELSE sent[o][x]
  BY <1>2, <1>4, RefreshedIs
<1>. HIDE DEF told
<1>6. /\ scr \in Screens
      /\ \A o, x \in Persons : o # x =>
           scr[o][x] = IF o = p THEN ShownTo(w, told, p, x)
                       ELSE IF x = p THEN ChangedFor(w, told, p, o)
                       ELSE told[o][x]
  BY <1>2, <1>5, UpdateIs
<1>. HIDE DEF scr
<1>7. /\ asked' \in [Persons -> SUBSET Persons]
      /\ \A o \in Persons : asked[o] \subseteq asked'[o]
  BY <1>3, AskingIs DEF LooksInv
<1>8. LooksTypeOK'
  BY <1>2, <1>3, <1>6, <1>7, BecomeType DEF LooksInv
<1>9. ASSUME NEW o \in Persons, NEW x \in Persons, o # x, <<o, x>> \notin excused
      PROVE  \/ scr[o][x] = Truth(w, o, x)
             \/ /\ scr[o][x] = screen[o][x]
                /\ Truth(w, o, x) = Truth(who, o, x)
                /\ x \in asked[o] => x \in asked'[o]
  <2>1. CASE o = p
    <3>1. told[p][x] = Truth(w, p, x)
      BY <1>5, <1>9, <2>1
    <3>2. Truth(w, p, x) = IF x \in Others(w, p) /\ clif_send_sub(w, p, x)
                           THEN Look(w, p, x) ELSE None
      BY DEF Truth
    <3>3. scr[p][x] = ShownTo(w, told, p, x)
      BY <1>6, <1>9, <2>1
    <3>. QED  BY <2>1, <3>1, <3>2, <3>3 DEF ShownTo
  <2>2. CASE o # p /\ x # p
    <3>1. scr[o][x] = screen[o][x]
      BY <1>4, <1>5, <1>6, <1>9, <2>2
    <3>2. Truth(w, o, x) = Truth(who, o, x)
      BY <1>2, <2>2, TruthOfOthers
    <3>. QED  BY <1>7, <3>1, <3>2
  <2>3. CASE x = p
    <3>1. Truth(w, o, p) = IF Sees(w, o, p) THEN Look(w, o, p) ELSE None
      BY <1>2, TruthIs
    <3>2. Truth(who, o, p) = None
      BY <1>1 DEF Truth, Others
    <3>3. scr[o][p] = ChangedFor(w, told, p, o)
      BY <1>6, <1>9, <2>3
    <3>4. told[o][p] = IF Sees(w, o, p) THEN Look(w, o, p) ELSE screen[o][p]
      BY <1>4, <1>5, <1>9, <2>3
    <3>5. screen[o][p] = None
      BY <1>9, <2>3, <3>2 DEF LooksInv, ScreenIsTrue, Right
    <3>6. CASE Sees(w, o, p)
      BY <2>3, <3>1, <3>3, <3>4, <3>6 DEF ChangedFor, Sees, clif_send_sub
    <3>7. CASE o \notin Others(w, p)
      <4>1. ~Sees(w, o, p)
        BY <3>7 DEF Sees
      <4>2. scr[o][p] = screen[o][p]
        BY <3>3, <3>4, <3>7, <4>1 DEF ChangedFor
      <4>. QED  BY <1>7, <2>3, <3>1, <3>2, <4>1, <4>2
    <3>8. CASE o \in Others(w, p) /\ ~Sees(w, o, p)
      BY <2>3, <3>1, <3>3, <3>4, <3>5, <3>8 DEF ChangedFor
    <3>. QED  BY <3>6, <3>7, <3>8
  <2>. QED  BY <2>1, <2>2, <2>3
<1>. QED  BY <1>3, <1>8, <1>9, PairsKeep


\* States set and sent by dying, by a script and by a command.
LEMMA DoingKeeps ==
  ASSUME LooksInv, NEW p \in Persons,
         \/ pc_diescript_shown(p)
         \/ \E s \in {ALIVE, PC_DIE, INVISIBLE} :
              bll_updatestate(p, s) \/ command_state(p, s)
  PROVE  LooksInv'
<1>0. {} \in SUBSET (Persons \X Persons) /\ PC_DIE \in {ALIVE, PC_DIE, INVISIBLE}
  OBVIOUS
<1>1. CASE pc_diescript_shown(p)
  <2>1. Updates(p, {}, [who EXCEPT ![p].state = PC_DIE])
    BY <1>1 DEF pc_diescript_shown
  <2>. QED  BY <1>0, <2>1, StateKeeps
<1>2. ASSUME NEW s \in {ALIVE, PC_DIE, INVISIBLE}, bll_updatestate(p, s)
      PROVE  LooksInv'
  <2>. DEFINE new == {e \in {p} \X Persons : who[p].state = PC_DIE}
  <2>1. Updates(p, new, [who EXCEPT ![p].state = s])
    BY <1>2 DEF bll_updatestate
  <2>2. /\ new \in SUBSET (Persons \X Persons)
        /\ who[p].state = PC_DIE => {p} \X Persons \subseteq new
    OBVIOUS
  <2>. HIDE DEF new
  <2>. QED  BY <2>1, <2>2, StateKeeps
<1>3. ASSUME NEW s \in {ALIVE, PC_DIE, INVISIBLE}, command_state(p, s)
      PROVE  LooksInv'
  <2>1. CASE who[p].state = PC_DIE /\ s # PC_DIE
    <3>1. pc_res(p)
      BY <1>3, <2>1 DEF command_state
    <3>. QED  BY <3>1, ResKeeps
  <2>2. CASE ~(who[p].state = PC_DIE /\ s # PC_DIE)
    <3>1. Updates(p, {}, [who EXCEPT ![p].state = s])
      BY <1>3, <2>2 DEF command_state
    <3>. QED  BY <1>0, <1>3, <2>2, <3>1, StateKeeps
  <2>. QED  BY <2>1, <2>2
<1>. QED  BY <1>1, <1>2, <1>3

\* Nobody is logged in, and nothing is on a screen.
LEMMA LooksInitHolds == LooksInit => LooksInv
<1>. SUFFICES ASSUME LooksInit PROVE LooksInv
  OBVIOUS
<1>1. LooksTypeOK
  BY DEF LooksInit, LooksTypeOK, ALIVE, PC_DIE, INVISIBLE
<1>2. ASSUME NEW o \in Persons, NEW x \in Persons
      PROVE  Right(who, screen, o, x)
  <2>1. who[o].at = Off /\ who[x].at = Off /\ screen[o][x] = None
    BY DEF LooksInit
  <2>. QED  BY <2>1 DEF Right, Truth, Others
<1>. QED  BY <1>1, <1>2 DEF LooksInv, ScreenIsTrue

\* A step that changes nothing.
LEMMA LooksStutterKeeps ==
  ASSUME LooksInv, UNCHANGED looksVars
  PROVE  LooksInv'
<1>1. \A o, x \in Persons :
        Right(who, screen, o, x)' = Right(who, screen, o, x)
  BY DEF looksVars, Right, Truth, Others, clif_send_sub, unseen, Look,
         statebyte, worn
<1>2. ScreenIsTrue'
  BY <1>1 DEF LooksInv, ScreenIsTrue, looksVars
<1>. QED  BY <1>2 DEF LooksInv, LooksTypeOK, looksVars

\* Every step keeps the screens as they have to be.
LEMMA LooksStepHolds == LooksInv /\ [LooksNext]_looksVars => LooksInv'
<1>. SUFFICES ASSUME LooksInv, [LooksNext]_looksVars PROVE LooksInv'
  OBVIOUS
<1>1. ASSUME NEW p \in Persons,
             \/ clif_quit(p) \/ clif_parsewalk_shown(p)
             \/ clif_parserefresh_shown(p) \/ pc_equipscript_shown(p)
      PROVE  LooksInv'
  BY <1>1, QuitKeeps, ShownWalkKeeps, RefreshingKeeps, EquipKeeps
<1>2. ASSUME NEW p \in Persons,
             pc_res(p) \/ command_stealth(p) \/ command_ghosts(p)
      PROVE  LooksInv'
  BY <1>2, ResKeeps, StealthKeeps, GhostsKeep
<1>3. ASSUME NEW p \in Persons, NEW m \in Realms,
             clif_spawn(p, m) \/ pc_warp_shown(p, m)
      PROVE  LooksInv'
  BY <1>3, SpawnKeeps, WarpKeeps
<1>4. ASSUME NEW p \in Persons, NEW x \in Persons,
             clif_handle_missingobject(p, x)
      PROVE  LooksInv'
  BY <1>4, MissingKeeps
<1>5. CASE UNCHANGED looksVars
  BY <1>5, LooksStutterKeeps
<1>. QED  BY <1>1, <1>2, <1>3, <1>4, <1>5, DoingKeeps DEF LooksNext

\* Nobody hidden by stealth or death stays on a screen, and nobody who came
\* out of hiding is missing from one, whatever the order of dying, rising,
\* hiding, warping, dressing and asking, and however many players there are.
THEOREM SpecScreenIsTrue == LooksSpec => []ScreenIsTrue
<1>1. LooksInv => ScreenIsTrue
  BY DEF LooksInv
<1>. QED  BY <1>1, LooksInitHolds, LooksStepHolds, PTL DEF LooksSpec

----------------------------------------------------------------------------
(* The life of a mob.                                                      *)

Mobs == [onetime : BOOLEAN, exists : BOOLEAN, state : {"alive", "hit", "dead"},
         vita : 0..MaxVita, spell : BOOLEAN]
FrameRecords == [killer : Users \cup {NoUser}, vita : 0..MaxVita, stage : Stages]

\* Stages at which scripts may call again, and n has one of them.
Reentered == {"take", "before", "flush"}
WasReentered(n) == "take" \in n \/ "before" \in n \/ "flush" \in n
DiedInside(n) == "before" \in n \/ "flush" \in n

\* The next reward is owed: each earlier one had its state written over, or a
\* call inside the death made it.
Owed(n, k, r) == DiedInside(n) \/ k <= r

TopIn(f, S) == f # <<>> /\ f[Len(f)].stage \in S

Interrupted(f, n) ==
  \A i \in 1..Len(f) - 1 : f[i].stage \in Reentered /\ f[i].stage \in n
KilledIsDead(m, f) == TopIn(f, {"killed", "after"}) => m.state = "dead"
PaidInside(f, n, k, r) ==
  TopIn(f, {"write", "before", "flush", "noflush", "killed"}) => Owed(n, k, r)
TakeLeavesVita(f) ==
  \A i \in 1..Len(f) : f[i].stage = "take" => f[i].vita > 0
DeadInside(m, f, n) ==
  m.state = "dead" /\ TopIn(f, {"take", "write", "before", "flush", "noflush"}) =>
    WasReentered(n)
DyingHasNone(m, f, n) ==
  m.exists /\ (m.state = "dead" \/ TopIn(f, {"flush", "noflush"})) =>
    m.vita = 0 \/ WasReentered(n)
PaidIsDead(m, n, k, r) ==
  Owed(n, k, r) \/ (m.state = "dead" /\ k <= r + 1)

CallsAre(m, f, n, k, r) ==
  /\ m \in Mobs /\ f \in Seq(FrameRecords) /\ n \subseteq Stages
  /\ k \in Nat /\ r \in Nat
  /\ Interrupted(f, n) /\ KilledIsDead(m, f) /\ PaidInside(f, n, k, r)
  /\ TakeLeavesVita(f) /\ DeadInside(m, f, n) /\ DyingHasNone(m, f, n)
  /\ PaidIsDead(m, n, k, r)

\* The slots of threat are taken in order, one for each player.
InOrder(t) ==
  \A i, j \in Slots :
    /\ t[i] = t[j] /\ t[i] # NoUser => i = j
    /\ i < j /\ t[j] # NoUser => t[i] # NoUser

TableTypes ==
  /\ threat \in [Slots -> Users \cup {NoUser}]
  /\ dmggrp \in [Slots -> GroupIds \cup {0, -1}]
  /\ dmgind \in [Slots -> Users \cup {NoUser}]
  /\ groupid \in [Users -> GroupIds \cup {0}]
  /\ writes \in 0..MaxWrites /\ turn \in BOOLEAN
  /\ late \in BOOLEAN /\ gap \in BOOLEAN
  /\ owner \in {"none", "killer", "other"}
DeadHasNoTable ==
  mob.state = "dead" /\ ~late =>
    \A i \in Slots : dmggrp[i] = -1 /\ dmgind[i] = NoUser
TablesAre ==
  TableTypes /\ (gap \/ InOrder(threat)) /\ DeadHasNoTable /\ DropsToKiller

MobInv == CallsAre(mob, frames, nested, paid, revived) /\ TablesAre

----------------------------------------------------------------------------
(* Calls.                                                                  *)

\* The last call changed.
LEMMA LastChangedIs ==
  ASSUME NEW S, NEW q \in Seq(S), q # <<>>, NEW r \in S
  PROVE  /\ [q EXCEPT ![Len(q)] = r] \in Seq(S)
         /\ Len([q EXCEPT ![Len(q)] = r]) = Len(q) /\ Len(q) \in Nat \ {0}
         /\ [q EXCEPT ![Len(q)] = r] # <<>>
         /\ [q EXCEPT ![Len(q)] = r][Len(q)] = r
         /\ \A i \in 1..Len(q) - 1 : [q EXCEPT ![Len(q)] = r][i] = q[i]
<1>1. Len(q) \in Nat \ {0}
  OBVIOUS
<1>. QED  BY <1>1

\* The lower and the higher of two numbers.
LEMMA OfTwo ==
  ASSUME NEW a \in Int, NEW b \in Int
  PROVE  /\ Min({a, b}) = IF a <= b THEN a ELSE b
         /\ Max({a, b}) = IF a >= b THEN a ELSE b
<1>1. CASE a <= b
  <2>1. \A x : (x \in {a, b} /\ \A y \in {a, b} : x <= y) <=> x = a
    BY <1>1
  <2>2. \A x : (x \in {a, b} /\ \A y \in {a, b} : x >= y) <=> x = b
    BY <1>1
  <2>3. Min({a, b}) = a
    BY <2>1 DEF Min
  <2>4. Max({a, b}) = b
    BY <2>2 DEF Max
  <2>. QED  BY <1>1, <2>3, <2>4
<1>2. CASE b < a
  <2>1. \A x : (x \in {a, b} /\ \A y \in {a, b} : x <= y) <=> x = b
    BY <1>2
  <2>2. \A x : (x \in {a, b} /\ \A y \in {a, b} : x >= y) <=> x = a
    BY <1>2
  <2>3. Min({a, b}) = b
    BY <2>1 DEF Min
  <2>4. Max({a, b}) = a
    BY <2>2 DEF Max
  <2>. QED  BY <1>2, <2>3, <2>4
<1>. QED  BY <1>1, <1>2

\* The last call goes on at stage s.
LEMMA GoKeeps ==
  ASSUME CallsAre(mob, frames, nested, paid, revived), frames # <<>>,
         NEW m \in Mobs, NEW s \in Stages \ {"take"}, NEW k \in Nat,
         s \in {"killed", "after"} => m.state = "dead",
         PaidIsDead(m, nested, k, revived),
         s # "after" => Owed(nested, k, revived),
         m.state = "dead" /\ s \notin {"killed", "after"} => WasReentered(nested),
         m.exists /\ (m.state = "dead" \/ s \in {"flush", "noflush"}) =>
           m.vita = 0 \/ WasReentered(nested),
         Go(s)
  PROVE  CallsAre(m, frames', nested, k, revived)
<1>1. frames \in Seq(FrameRecords) /\ frames[Len(frames)] \in FrameRecords
  BY ButLastIs DEF CallsAre
<1>. DEFINE r == [frames[Len(frames)] EXCEPT !.stage = s]
<1>2. r \in FrameRecords /\ r.stage = s
  BY <1>1 DEF FrameRecords
<1>3. frames' = [frames EXCEPT ![Len(frames)] = r]
  BY DEF Go
<1>. HIDE DEF r
<1>4. /\ frames' \in Seq(FrameRecords) /\ Len(frames') = Len(frames)
      /\ Len(frames) \in Nat \ {0} /\ frames' # <<>> /\ frames'[Len(frames)] = r
      /\ \A i \in 1..Len(frames) - 1 : frames'[i] = frames[i]
  BY <1>1, <1>2, <1>3, LastChangedIs
<1>5. /\ \A S : TopIn(frames', S) <=> s \in S
      /\ \A i \in 1..Len(frames') : i \in 1..Len(frames) - 1 \/ i = Len(frames)
  BY <1>2, <1>4 DEF TopIn
<1>6. Interrupted(frames', nested)
  BY <1>4 DEF CallsAre, Interrupted
<1>7. TakeLeavesVita(frames')
  BY <1>2, <1>4, <1>5 DEF CallsAre, TakeLeavesVita
<1>8. /\ KilledIsDead(m, frames') /\ PaidInside(frames', nested, k, revived)
      /\ DeadInside(m, frames', nested) /\ DyingHasNone(m, frames', nested)
      /\ PaidIsDead(m, nested, k, revived)
  BY <1>5 DEF KilledIsDead, PaidInside, DeadInside, DyingHasNone
<1>. QED  BY <1>4, <1>6, <1>7, <1>8 DEF CallsAre

\* The last call returns, to one that it interrupted.
LEMMA PopKeeps ==
  ASSUME CallsAre(mob, frames, nested, paid, revived), frames # <<>>,
         NEW m \in Mobs, PaidIsDead(m, nested, paid, revived),
         m.exists /\ m.state = "dead" => m.vita = 0 \/ WasReentered(nested),
         frames' = Popped
  PROVE  CallsAre(m, frames', nested, paid, revived)
<1>1. /\ frames' \in Seq(FrameRecords) /\ Len(frames') = Len(frames) - 1
      /\ Len(frames) \in Nat \ {0}
      /\ \A i \in 1..Len(frames) - 1 : frames'[i] = frames[i]
      /\ frames' = <<>> <=> Len(frames) = 1
  BY ButLastIs DEF CallsAre, Popped
<1>2. \A S : TopIn(frames', S) =>
        \E s \in S : s \in Reentered /\ s \in nested
  <2>1. frames' # <<>> => Len(frames') \in 1..Len(frames) - 1
    BY <1>1
  <2>. QED  BY <1>1, <2>1 DEF CallsAre, Interrupted, TopIn
<1>3. Interrupted(frames', nested) /\ TakeLeavesVita(frames')
  <2>1. ASSUME NEW i \in 1..Len(frames')
        PROVE  i \in 1..Len(frames) - 1 /\ i \in 1..Len(frames)
    BY <1>1
  <2>2. \A i \in 1..Len(frames') - 1 : i \in 1..Len(frames')
    BY <1>1
  <2>3. Interrupted(frames', nested)
    BY <1>1, <2>1, <2>2 DEF CallsAre, Interrupted
  <2>4. TakeLeavesVita(frames')
    BY <1>1, <2>1 DEF CallsAre, TakeLeavesVita
  <2>. QED  BY <2>3, <2>4
<1>4. KilledIsDead(m, frames')
  BY <1>2 DEF KilledIsDead, Reentered
<1>5. PaidInside(frames', nested, paid, revived)
  BY <1>2 DEF PaidInside, Owed, DiedInside, Reentered
<1>6. DeadInside(m, frames', nested)
  BY <1>2 DEF DeadInside, WasReentered, Reentered
<1>7. DyingHasNone(m, frames', nested)
  BY <1>2 DEF DyingHasNone, WasReentered, Reentered
<1>. QED  BY <1>1, <1>3, <1>4, <1>5, <1>6, <1>7 DEF CallsAre

\* Between the calls.
LEMMA NoCallKeeps ==
  ASSUME NEW m \in Mobs, NEW n, n \subseteq Stages,
         NEW k \in Nat, NEW r \in Nat, PaidIsDead(m, n, k, r),
         m.exists /\ m.state = "dead" => m.vita = 0 \/ WasReentered(n)
  PROVE  CallsAre(m, <<>>, n, k, r)
<1>1. Len(<<>>) = 0 /\ <<>> \in Seq(FrameRecords)
  OBVIOUS
<1>. QED  BY <1>1 DEF CallsAre, Interrupted, KilledIsDead, PaidInside,
          TakeLeavesVita, DeadInside, DyingHasNone, TopIn

\* The spell of the mob does not matter to its calls.
LEMMA SpellKeeps ==
  ASSUME CallsAre(mob, frames, nested, paid, revived), NEW m \in Mobs,
         m.state = mob.state, m.vita = mob.vita, m.exists = mob.exists
  PROVE  CallsAre(m, frames, nested, paid, revived)
BY DEF CallsAre, KilledIsDead, DeadInside, DyingHasNone, PaidIsDead

\* A hit or a heal calls.
LEMMA HealthscriptKeeps ==
  ASSUME MobInv, NEW p \in Users \cup {NoUser}, NEW damage \in Int, damage >= -1,
         clif_send_mob_healthscript(p, damage)
  PROVE  CallsAre(mob, frames', nested', paid, revived)
<1>. DEFINE v == VitaAfter(damage)
            r == Call(p, damage)
<1>1. /\ CallsAre(mob, frames, nested, paid, revived) /\ frames \in Seq(FrameRecords)
      /\ mob \in Mobs /\ nested \subseteq Stages /\ paid \in Nat /\ revived \in Nat
  BY DEF MobInv, CallsAre
<1>2. mob.vita \in Nat /\ mob.vita <= MaxVita /\ MaxVita \in Nat
  BY <1>1, MobAssumption DEF Mobs
<1>3. v \in 0..MaxVita
  <2>1. mob.vita - damage \in Int /\ MaxVita \in Int
    BY <1>2
  <2>2. Min({mob.vita - damage, MaxVita}) =
          IF mob.vita - damage <= MaxVita THEN mob.vita - damage ELSE MaxVita
    BY <2>1, OfTwo
  <2>. QED  BY <1>2, <2>2 DEF VitaAfter
<1>4. /\ r \in FrameRecords /\ r.stage \in {"take", "write"}
      /\ r.stage = "take" => r.vita > 0
  <2>1. r.vita = v /\ r = [killer |-> p, vita |-> v, stage |-> r.stage]
        /\ (r.stage = "write" \/ (r.stage = "take" /\ v > 0))
    BY DEF Call
  <2>. HIDE DEF r, v
  <2>. QED  BY <1>3, <2>1 DEF FrameRecords, Stages
<1>. HIDE DEF r, v
<1>5. /\ mob.state # "dead" /\ ScriptRuns
      /\ frames' = Append(frames, r)
      /\ nested' = IF frames = <<>> THEN nested ELSE nested \cup {Top.stage}
  BY DEF clif_send_mob_healthscript, r
<1>6. /\ frames' \in Seq(FrameRecords) /\ frames' # <<>>
      /\ Len(frames') = Len(frames) + 1 /\ Len(frames) \in Nat
      /\ frames'[Len(frames')] = r
      /\ \A i \in 1..Len(frames) : frames'[i] = frames[i]
      /\ frames = <<>> <=> Len(frames) = 0
  BY <1>1, <1>4, <1>5, AppendedIs
<1>7. frames # <<>> => /\ Top.stage \in Stages /\ Top = frames[Len(frames)]
                       /\ Top.stage \in Reentered
  <2>1. frames # <<>> => Top \in FrameRecords
    BY <1>1, <1>6 DEF Top
  <2>2. frames # <<>> => Top.stage \notin {"write", "noflush", "killed", "after"}
    BY <1>1, <1>5 DEF ScriptRuns, CallsAre, KilledIsDead, TopIn, Top
  <2>. QED  BY <2>1, <2>2 DEF FrameRecords, Stages, Reentered, Top
<1>8. nested' \subseteq Stages /\ nested \subseteq nested'
  BY <1>1, <1>5, <1>7
<1>9. Interrupted(frames', nested')
  <2>1. \A i \in 1..Len(frames') - 1 : i \in 1..Len(frames) - 1 \/ i = Len(frames)
    BY <1>6
  <2>2. \A i \in 1..Len(frames) - 1 : frames'[i].stage \in Reentered /\ frames'[i].stage \in nested'
    BY <1>1, <1>6, <1>8 DEF CallsAre, Interrupted
  <2>3. Len(frames) \in 1..Len(frames') - 1 =>
          frames'[Len(frames)].stage \in Reentered /\ frames'[Len(frames)].stage \in nested'
    BY <1>5, <1>6, <1>7
  <2>. QED  BY <2>1, <2>2, <2>3 DEF Interrupted
<1>10. TakeLeavesVita(frames')
  <2>1. \A i \in 1..Len(frames') : i \in 1..Len(frames) \/ i = Len(frames')
    BY <1>6
  <2>. QED  BY <1>1, <1>4, <1>6, <2>1 DEF CallsAre, TakeLeavesVita
<1>11. \A S : TopIn(frames', S) => "take" \in S \/ "write" \in S
  BY <1>4, <1>6 DEF TopIn
<1>12. Owed(nested', paid, revived)
  <2>1. Owed(nested, paid, revived)
    BY <1>1, <1>5 DEF CallsAre, PaidIsDead
  <2>. QED  BY <1>8, <2>1 DEF Owed, DiedInside
<1>. QED  BY <1>1, <1>5, <1>6, <1>8, <1>9, <1>10, <1>11, <1>12
          DEF CallsAre, KilledIsDead, PaidInside, DeadInside, DyingHasNone, PaidIsDead

\* The stages of a call.
LEMMA StagesKeep ==
  ASSUME MobInv, Taken \/ BeforeDeath \/ Flushed \/ Reward \/ AfterDeath
  PROVE  CallsAre(mob', frames', nested', paid', revived')
<1>1. /\ CallsAre(mob, frames, nested, paid, revived) /\ frames \in Seq(FrameRecords)
      /\ mob \in Mobs /\ nested \subseteq Stages /\ paid \in Nat /\ revived \in Nat
  BY DEF MobInv, CallsAre
<1>2. frames # <<>> => /\ Top \in FrameRecords /\ Top = frames[Len(frames)]
                       /\ Len(frames) \in 1..Len(frames)
  BY <1>1, ButLastIs DEF Top
<1>3. CASE Taken
  <2>1. /\ frames # <<>> /\ Top.stage \in {"take", "write"}
        /\ mob' = [mob EXCEPT !.vita = Top.vita]
        /\ nested' = nested /\ paid' = paid /\ revived' = revived
        /\ IF Top.vita = 0 THEN Go("before") ELSE frames' = Popped
    BY <1>3 DEF Taken, At
  <2>2. Top.vita \in 0..MaxVita
    BY <1>2, <2>1 DEF FrameRecords
  <2>3. /\ mob' \in Mobs /\ mob'.vita = Top.vita /\ mob'.state = mob.state
        /\ mob'.exists = mob.exists
    BY <1>1, <2>1, <2>2 DEF Mobs
  <2>4. TopIn(frames, {"take", "write", "before", "flush", "noflush"})
    BY <1>2, <2>1 DEF TopIn
  <2>5. mob.state = "dead" => WasReentered(nested)
    BY <1>1, <2>4 DEF CallsAre, DeadInside
  <2>6. CASE Top.vita = 0
    <3>1. Top.stage = "write"
      BY <1>1, <1>2, <2>1, <2>6 DEF CallsAre, TakeLeavesVita
    <3>2. TopIn(frames, {"write", "before", "flush", "noflush", "killed"})
      BY <1>2, <2>1, <3>1 DEF TopIn
    <3>3. /\ Owed(nested, paid, revived) /\ PaidIsDead(mob', nested, paid, revived)
          /\ "before" \in Stages \ {"take"}
      BY <1>1, <3>2 DEF CallsAre, PaidInside, PaidIsDead, Stages
    <3>4. CallsAre(mob', frames', nested, paid, revived)
      BY <1>1, <2>1, <2>3, <2>5, <2>6, <3>3, GoKeeps
    <3>. QED  BY <2>1, <3>4
  <2>7. CASE Top.vita # 0
    <3>1. PaidIsDead(mob', nested, paid, revived)
      BY <1>1, <2>3 DEF CallsAre, PaidIsDead
    <3>2. CallsAre(mob', frames', nested, paid, revived)
      BY <1>1, <2>1, <2>3, <2>5, <2>7, <3>1, PopKeeps
    <3>. QED  BY <2>1, <3>2
  <2>. QED  BY <2>6, <2>7
<1>4. CASE BeforeDeath
  <2>1. /\ frames # <<>> /\ Top.stage = "before" /\ UNCHANGED <<nested, paid, revived>>
        /\ IF mob.vita = 0
           THEN /\ mob' = [mob EXCEPT !.spell = FALSE]
                /\ Go(IF mob.spell THEN "flush" ELSE "noflush")
           ELSE frames' = Popped /\ mob' = mob
    BY <1>4 DEF BeforeDeath, At
  <2>2. /\ TopIn(frames, {"take", "write", "before", "flush", "noflush"})
        /\ TopIn(frames, {"write", "before", "flush", "noflush", "killed"})
    BY <1>2, <2>1 DEF TopIn
  <2>3. /\ mob.state = "dead" => WasReentered(nested)
        /\ Owed(nested, paid, revived)
    BY <1>1, <2>2 DEF CallsAre, DeadInside, PaidInside
  <2>4. CASE mob.vita = 0
    <3>. DEFINE s == IF mob.spell THEN "flush" ELSE "noflush"
    <3>1. /\ mob' \in Mobs /\ mob'.vita = 0 /\ mob'.state = mob.state
          /\ mob'.exists = mob.exists
      BY <1>1, <2>1, <2>4 DEF Mobs
    <3>2. s \in Stages \ {"take"} /\ Go(s) /\ s \notin {"killed", "after"} /\ s # "after"
      BY <2>1, <2>4 DEF Stages
    <3>. HIDE DEF s
    <3>3. PaidIsDead(mob', nested, paid, revived)
      BY <2>3 DEF PaidIsDead
    <3>4. CallsAre(mob', frames', nested, paid, revived)
      BY <1>1, <2>1, <2>3, <3>1, <3>2, <3>3, GoKeeps
    <3>. QED  BY <2>1, <3>4
  <2>5. CASE mob.vita # 0
    <3>1. PaidIsDead(mob, nested, paid, revived)
      BY <2>3 DEF PaidIsDead
    <3>2. CallsAre(mob, frames', nested, paid, revived)
      BY <1>1, <2>1, <2>3, <2>5, <3>1, PopKeeps
    <3>. QED  BY <2>1, <2>5, <3>2
  <2>. QED  BY <2>4, <2>5
<1>5. CASE Flushed
  <2>1. /\ frames # <<>> /\ Top.stage \in {"flush", "noflush"}
        /\ mob' = [mob EXCEPT !.state = "dead"] /\ Go("killed")
        /\ UNCHANGED <<nested, paid, revived>>
    BY <1>5 DEF Flushed, At, clif_mob_kill
  <2>2. /\ mob' \in Mobs /\ mob'.vita = mob.vita /\ mob'.state = "dead"
        /\ mob'.exists = mob.exists
    BY <1>1, <2>1 DEF Mobs
  <2>3. /\ TopIn(frames, {"flush", "noflush"})
        /\ TopIn(frames, {"write", "before", "flush", "noflush", "killed"})
    BY <1>2, <2>1 DEF TopIn
  <2>4. /\ mob.exists => mob.vita = 0 \/ WasReentered(nested)
        /\ Owed(nested, paid, revived) /\ PaidIsDead(mob', nested, paid, revived)
        /\ "killed" \in Stages \ {"take"}
    BY <1>1, <2>3 DEF CallsAre, DyingHasNone, PaidInside, PaidIsDead, Stages
  <2>5. CallsAre(mob', frames', nested, paid, revived)
    BY <1>1, <2>1, <2>2, <2>4, GoKeeps
  <2>. QED  BY <2>1, <2>5
<1>6. CASE Reward
  <2>1. /\ frames # <<>> /\ Top.stage = "killed"
        /\ mob' = mob /\ Go("after") /\ nested' = nested /\ revived' = revived
        /\ paid' \in {paid, paid + 1}
    BY <1>6 DEF Reward, At
  <2>2. /\ TopIn(frames, {"killed", "after"})
        /\ TopIn(frames, {"write", "before", "flush", "noflush", "killed"})
    BY <1>2, <2>1 DEF TopIn
  <2>3. /\ mob.state = "dead" /\ paid' \in Nat
        /\ Owed(nested, paid, revived)
        /\ mob.exists => mob.vita = 0 \/ WasReentered(nested)
        /\ "after" \in Stages \ {"take"}
    BY <1>1, <2>1, <2>2 DEF CallsAre, KilledIsDead, PaidInside, DyingHasNone, Stages
  <2>. DEFINE k == paid'
  <2>4. k \in Nat /\ (DiedInside(nested) \/ k <= revived + 1)
    BY <1>1, <2>1, <2>3 DEF Owed
  <2>. HIDE DEF k
  <2>5. PaidIsDead(mob, nested, k, revived)
    BY <2>3, <2>4 DEF PaidIsDead, Owed
  <2>6. CallsAre(mob, frames', nested, k, revived)
    BY <1>1, <2>1, <2>3, <2>4, <2>5, GoKeeps
  <2>. QED  BY <2>1, <2>6 DEF k
<1>7. CASE AfterDeath
  <2>1. /\ frames # <<>> /\ Top.stage = "after" /\ frames' = Popped
        /\ UNCHANGED <<mob, nested, paid, revived>>
    BY <1>7 DEF AfterDeath, At
  <2>2. /\ PaidIsDead(mob, nested, paid, revived)
        /\ mob.exists /\ mob.state = "dead" => mob.vita = 0 \/ WasReentered(nested)
    BY <1>1 DEF CallsAre, DyingHasNone
  <2>3. CallsAre(mob, frames', nested, paid, revived)
    BY <1>1, <2>1, <2>2, PopKeeps
  <2>. QED  BY <2>1, <2>3
<1>. QED  BY <1>3, <1>4, <1>5, <1>6, <1>7

----------------------------------------------------------------------------
(* Tables.                                                                 *)

\* An entry is that of striker, where the loop stopped, or what it was.
LEMMA EntryIs ==
  ASSUME NEW S, NEW table \in [Slots -> S], NEW striker \in S, NEW none
  PROVE  /\ Entered(table, striker, none) \in [Slots -> S]
         /\ \A i \in Slots : \/ Entered(table, striker, none)[i] = table[i]
                                /\ i \notin Stop(table, striker, none)
                             \/ Entered(table, striker, none)[i] = striker
                                /\ i \in Stop(table, striker, none)
BY DEF Entered

\* addThreat keeps the order: it takes the player's slot or the first free one.
LEMMA ThreatenedInOrder ==
  ASSUME TableTypes, InOrder(threat), NEW p \in Users
  PROVE  InOrder(threatened(p))
<1>. DEFINE t == threatened(p)
            S == Stop(threat, p, NoUser)
<1>1. \A i \in Slots : \/ t[i] = threat[i] /\ i \notin S
                       \/ t[i] = p /\ i \in S
  BY DEF threatened, Entered
<1>2. \A i \in S : /\ i \in Slots /\ threat[i] \in {p, NoUser}
                   /\ \A j \in Slots : j < i => threat[j] \notin {p, NoUser}
  BY MobAssumption DEF Stop, Slots
<1>3. p # NoUser /\ Slots \subseteq Nat
  BY MobAssumption DEF Slots
<1>. HIDE DEF t, S
<1>4. ASSUME NEW i \in Slots, NEW j \in Slots, i < j
      PROVE  /\ t[j] # NoUser => t[i] # NoUser
             /\ t[i] = t[j] => t[i] = NoUser
  <2>1. /\ threat[j] # NoUser => threat[i] # NoUser
        /\ threat[i] = threat[j] /\ threat[i] # NoUser => i = j
        /\ i # j
    BY <1>3, <1>4 DEF InOrder
  <2>. QED  BY <1>1, <1>2, <1>3, <1>4, <2>1
<1>5. \A i, j \in Slots : i = j \/ i < j \/ j < i
  BY <1>3
<1>. QED  BY <1>4, <1>5 DEF InOrder, t

\* The drop is the killer's when the tables are empty.
LEMMA EmptyTablesNameKiller ==
  ASSUME TablesAre, mob.state = "dead", ~late, NEW o \in Users, NEW killer,
         DropOwner(o, killer)
  PROVE  o = killer
<1>1. {dmgind[i] : i \in Slots} \ {NoUser} = {}
  BY DEF TablesAre, DeadHasNoTable
<1>2. {p \in Users : \E i \in Slots : dmggrp[i] > 0 /\ groupid[p] = dmggrp[i]} = {}
  BY DEF TablesAre, DeadHasNoTable
<1>. QED  BY <1>1, <1>2 DEF DropOwner

\* A kill empties the tables.
LEMMA KillEmpties ==
  ASSUME TableTypes, NEW m, clif_mob_kill(m),
         UNCHANGED <<groupid, writes, gap, turn>>, late' \in BOOLEAN,
         owner' \in {"none", "killer", "other"}, owner' = "other" => late'
  PROVE  TablesAre'
<1>1. /\ threat' = NoEntry(NoUser) /\ dmggrp' = NoEntry(-1) /\ dmgind' = NoEntry(NoUser)
      /\ groupid' = groupid /\ writes' = writes /\ gap' = gap
      /\ turn' = turn
  BY DEF clif_mob_kill
<1>2. TableTypes'
  BY <1>1 DEF TableTypes, NoEntry
<1>3. InOrder(threat')
  BY <1>1 DEF InOrder, NoEntry
<1>4. DeadHasNoTable'
  BY <1>1 DEF DeadHasNoTable, NoEntry
<1>. QED  BY <1>2, <1>3, <1>4 DEF TablesAre, DropsToKiller

\* A script writes to a table.
LEMMA WritesKeep ==
  ASSUME MobInv, NEW p \in Users,
         \/ addthreat(p) \/ addthreatgeneral(p) \/ setgrpdmg(p) \/ setinddmg(p)
         \/ pc_diescript(p) \/ Regroup(p)
  PROVE  MobInv'
<1>1. TablesAre /\ TableTypes /\ writes \in Nat /\ p # NoUser
  BY MobAssumption DEF MobInv, TablesAre, TableTypes
<1>2. UNCHANGED <<mob, frames, nested, paid, owner, turn, revived>>
  BY DEF addthreat, addthreatgeneral, setgrpdmg, setinddmg, pc_diescript, Regroup
<1>3. writes' \in 0..MaxWrites
  <2>1. Written
    BY DEF addthreat, addthreatgeneral, setgrpdmg, setinddmg, pc_diescript, Regroup
  <2>. QED  BY <1>1, <2>1, MobAssumption DEF Written
<1>4. CASE addthreat(p) \/ addthreatgeneral(p) \/ pc_diescript(p)
  <2>1. UNCHANGED <<dmggrp, dmgind, groupid, late>>
    BY <1>4 DEF addthreat, addthreatgeneral, pc_diescript
  <2>2. threat' \in [Slots -> Users \cup {NoUser}] /\ gap' \in BOOLEAN
    <3>1. CASE addthreat(p)
      BY <1>1, <3>1, EntryIs DEF addthreat, threatened, TableTypes
    <3>2. CASE addthreatgeneral(p)
      BY <1>1, <3>2 DEF addthreatgeneral, threatenedGeneral, TableTypes
    <3>3. CASE pc_diescript(p)
      BY <1>1, <3>3 DEF pc_diescript, TableTypes
    <3>. QED  BY <1>4, <3>1, <3>2, <3>3
  <2>3. gap' \/ InOrder(threat')
    <3>1. CASE addthreat(p)
      BY <1>1, <3>1, ThreatenedInOrder DEF addthreat, TablesAre
    <3>. QED  BY <1>4, <3>1 DEF addthreatgeneral, pc_diescript
  <2>4. TablesAre'
    BY <1>1, <1>2, <1>3, <2>1, <2>2, <2>3 DEF TablesAre, TableTypes, DeadHasNoTable, DropsToKiller
  <2>. QED  BY <1>2, <2>4 DEF MobInv
<1>5. CASE setgrpdmg(p) \/ setinddmg(p)
  <2>1. /\ UNCHANGED <<threat, groupid, gap>>
        /\ late' = (late \/ mob.state = "dead")
    BY <1>5 DEF setgrpdmg, setinddmg
  <2>2. /\ dmggrp' \in [Slots -> GroupIds \cup {0, -1}]
        /\ dmgind' \in [Slots -> Users \cup {NoUser}]
    <3>1. CASE setgrpdmg(p)
      <4>1. groupid[p] \in GroupIds \cup {0}
        BY <1>1 DEF TableTypes
      <4>. QED  BY <1>1, <3>1, <4>1 DEF setgrpdmg, grpEntered, TableTypes
    <3>2. CASE setinddmg(p)
      BY <1>1, <3>2, EntryIs DEF setinddmg, TableTypes
    <3>. QED  BY <1>5, <3>1, <3>2
  <2>3. late' \in BOOLEAN /\ (late => late') /\ (mob.state = "dead" => late')
    BY <1>1, <2>1 DEF TableTypes
  <2>4. TablesAre'
    BY <1>1, <1>2, <1>3, <2>1, <2>2, <2>3 DEF TablesAre, TableTypes, DeadHasNoTable, DropsToKiller
  <2>. QED  BY <1>2, <2>4 DEF MobInv
<1>6. CASE Regroup(p)
  <2>1. UNCHANGED <<threat, dmggrp, dmgind, late, gap>>
    BY <1>6 DEF Regroup
  <2>2. groupid' \in [Users -> GroupIds \cup {0}]
    BY <1>1, <1>6 DEF Regroup, TableTypes
  <2>3. TablesAre'
    BY <1>1, <1>2, <1>3, <2>1, <2>2 DEF TablesAre, TableTypes, DeadHasNoTable, DropsToKiller
  <2>. QED  BY <1>2, <2>3 DEF MobInv
<1>. QED  BY <1>4, <1>5, <1>6

\* The calls leave the tables alone, but for the kill and the reward.
LEMMA CallsKeepTables ==
  ASSUME MobInv, Taken \/ BeforeDeath \/ Flushed \/ Reward \/ AfterDeath
  PROVE  TablesAre'
<1>1. TablesAre /\ TableTypes /\ mob \in Mobs /\ CallsAre(mob, frames, nested, paid, revived)
  BY DEF MobInv, TablesAre, CallsAre
<1>2. CASE Flushed
  <2>1. /\ clif_mob_kill(mob) /\ UNCHANGED <<groupid, writes, gap, turn>>
        /\ late' = FALSE /\ owner' = "none"
    BY <1>2 DEF Flushed
  <2>. QED  BY <1>1, <2>1, KillEmpties
<1>3. CASE Taken \/ BeforeDeath \/ AfterDeath
  <2>1. /\ UNCHANGED <<threat, dmggrp, dmgind, groupid, writes, late, gap, owner, turn>>
        /\ mob' \in {mob, [mob EXCEPT !.vita = Top.vita], [mob EXCEPT !.spell = FALSE]}
    BY <1>3 DEF Taken, BeforeDeath, AfterDeath
  <2>2. mob'.state = mob.state
    BY <1>1, <2>1 DEF Mobs
  <2>. QED  BY <1>1, <2>1, <2>2 DEF TablesAre, TableTypes, DeadHasNoTable, DropsToKiller
<1>4. CASE Reward
  <2>1. UNCHANGED <<mob, threat, dmggrp, dmgind, groupid, writes, late, gap, turn>>
    BY <1>4 DEF Reward
  <2>2. mob.state = "dead"
    BY <1>1, <1>4 DEF Reward, At, Top, CallsAre, KilledIsDead, TopIn
  <2>3. owner' \in {"none", "killer", "other"} /\ (owner' = "other" => late)
    <3>1. CASE Top.killer = NoUser
      BY <1>1, <1>4, <3>1 DEF Reward, TablesAre, TableTypes, DropsToKiller
    <3>2. CASE Top.killer # NoUser
      <4>1. PICK o \in Users :
              /\ DropOwner(o, Top.killer)
              /\ owner' = IF o = Top.killer THEN "killer" ELSE "other"
        BY <1>4, <3>2 DEF Reward
      <4>2. ~late => o = Top.killer
        BY <1>1, <2>2, <4>1, EmptyTablesNameKiller
      <4>. QED  BY <4>1, <4>2
    <3>. QED  BY <3>1, <3>2
  <2>. QED  BY <1>1, <2>1, <2>3 DEF TablesAre, TableTypes, DeadHasNoTable, DropsToKiller
<1>. QED  BY <1>2, <1>3, <1>4

\* Hits, heals and spells.
LEMMA ScriptsKeep ==
  ASSUME MobInv,
         \/ mobl_setduration \/ mob_duratimer
         \/ \E p \in Users \cup {NoUser} :
              \/ \E damage \in {1, MaxVita} : mobl_removehealth(p, damage)
              \/ mobl_addhealth(p)
  PROVE  MobInv'
<1>1. TablesAre /\ TableTypes /\ mob \in Mobs /\ CallsAre(mob, frames, nested, paid, revived)
  BY DEF MobInv, TablesAre, CallsAre
<1>2. ASSUME NEW on \in BOOLEAN, SpellIs(on) PROVE MobInv'
  <2>1. /\ mob' = [mob EXCEPT !.spell = on]
        /\ UNCHANGED <<threat, dmggrp, dmgind, groupid, frames, writes, paid, nested,
                       late, gap, owner, turn, revived>>
    BY <1>2 DEF SpellIs
  <2>2. /\ mob' \in Mobs /\ mob'.state = mob.state /\ mob'.vita = mob.vita
        /\ mob'.exists = mob.exists
    BY <1>1, <2>1 DEF Mobs
  <2>3. CallsAre(mob', frames, nested, paid, revived)
    BY <1>1, <2>2, SpellKeeps
  <2>4. TablesAre'
    BY <1>1, <2>1, <2>2 DEF TablesAre, TableTypes, DeadHasNoTable, DropsToKiller
  <2>. QED  BY <2>1, <2>3, <2>4 DEF MobInv
<1>3. ASSUME NEW p \in Users \cup {NoUser}, NEW damage \in Int, damage >= -1,
             clif_send_mob_healthscript(p, damage)
      PROVE  MobInv'
  <2>1. UNCHANGED <<mob, threat, dmggrp, dmgind, groupid, writes, paid, late, gap, owner,
                    turn, revived>>
    BY <1>3 DEF clif_send_mob_healthscript
  <2>2. CallsAre(mob, frames', nested', paid, revived)
    BY <1>3, HealthscriptKeeps
  <2>3. TablesAre'
    BY <1>1, <2>1 DEF TablesAre, TableTypes, DeadHasNoTable, DropsToKiller
  <2>. QED  BY <2>1, <2>2, <2>3 DEF MobInv
<1>4. MaxVita \in Int /\ MaxVita >= -1 /\ 1 \in Int /\ -1 \in Int
  BY MobAssumption
<1>5. CASE mobl_setduration \/ mob_duratimer
  BY <1>2, <1>5 DEF mobl_setduration, mob_duratimer
<1>6. ASSUME NEW p \in Users \cup {NoUser}, mobl_addhealth(p) PROVE MobInv'
  BY <1>3, <1>6 DEF mobl_addhealth
<1>7. ASSUME NEW p \in Users \cup {NoUser}, NEW damage \in {1, MaxVita},
             mobl_removehealth(p, damage)
      PROVE  MobInv'
  <2>1. damage \in Int /\ damage >= -1
    BY <1>4
  <2>. QED  BY <1>3, <1>7, <2>1 DEF mobl_removehealth
<1>. QED  BY <1>5, <1>6, <1>7

\* The main loop.
LEMMA LoopKeeps ==
  ASSUME MobInv, \/ mob_respawn \/ free_onetime \/ mob_handle_sub \/ TurnEnds
                 \/ mobspawn_onetime
                 \/ \E state \in {"alive", "hit"} : mobl_setattr(state)
  PROVE  MobInv'
<1>1. /\ TablesAre /\ TableTypes /\ mob \in Mobs /\ CallsAre(mob, frames, nested, paid, revived)
      /\ nested \subseteq Stages /\ paid \in Nat /\ revived \in Nat
      /\ MaxVita \in 0..MaxVita
  BY MobAssumption DEF MobInv, TablesAre, CallsAre
<1>2. frames = <<>> /\ frames' = frames
  BY DEF mob_respawn, free_onetime, mob_handle_sub, TurnEnds, mobspawn_onetime,
         mobl_setattr, AtRest
<1>3. CASE mob_respawn
  <2>. DEFINE m == [mob EXCEPT !.state = "alive"]
  <2>1. /\ mob' = [m EXCEPT !.vita = MaxVita] /\ paid' = 0 /\ nested' = {}
        /\ revived' = 0
        /\ UNCHANGED <<threat, dmggrp, dmgind, groupid, writes, late, gap, owner, turn>>
    BY <1>1, <1>3 DEF mob_respawn, Mobs
  <2>2. m \in Mobs /\ m.state = "alive"
    BY <1>1 DEF Mobs
  <2>. HIDE DEF m
  <2>3. mob' \in Mobs /\ mob'.state = "alive"
    BY <1>1, <2>1, <2>2 DEF Mobs
  <2>4. PaidIsDead(mob', {}, 0, 0) /\ {} \subseteq Stages
    BY DEF PaidIsDead, Owed
  <2>5. CallsAre(mob', <<>>, {}, 0, 0)
    BY <2>3, <2>4, NoCallKeeps
  <2>6. TablesAre'
    BY <1>1, <2>1, <2>3 DEF TablesAre, TableTypes, DeadHasNoTable, DropsToKiller
  <2>. QED  BY <1>2, <2>1, <2>5, <2>6 DEF MobInv
<1>4. CASE free_onetime
  <2>. DEFINE o == [mob EXCEPT !.exists = FALSE]
              m == [o EXCEPT !.spell = FALSE]
  <2>1. /\ m = [mob EXCEPT !.exists = FALSE, !.spell = FALSE]
        /\ o \in Mobs /\ o.exists = FALSE
    BY <1>1 DEF Mobs
  <2>2. /\ clif_mob_kill(m)
        /\ UNCHANGED <<groupid, writes, paid, nested, late, gap, owner, turn, revived>>
    BY <1>4, <2>1 DEF free_onetime
  <2>. HIDE DEF o
  <2>3. m \in Mobs /\ m.exists = FALSE
    BY <2>1 DEF Mobs
  <2>. HIDE DEF m
  <2>4. mob' \in Mobs /\ mob'.exists = FALSE /\ mob'.state = "dead"
    BY <2>2, <2>3 DEF clif_mob_kill, Mobs
  <2>5. PaidIsDead(mob', nested, paid, revived)
    BY <1>1, <2>4 DEF CallsAre, PaidIsDead
  <2>6. CallsAre(mob', <<>>, nested, paid, revived)
    BY <1>1, <2>4, <2>5, NoCallKeeps
  <2>7. TablesAre'
    BY <1>1, <2>2, KillEmpties DEF TableTypes, TablesAre, DropsToKiller
  <2>. QED  BY <1>2, <2>2, <2>6, <2>7 DEF MobInv
<1>5. CASE mob_handle_sub \/ TurnEnds
  <2>1. /\ turn' \in BOOLEAN
        /\ UNCHANGED <<threat, dmggrp, dmgind, groupid, writes, paid, revived, nested, late,
                       gap, owner>>
    BY <1>1, <1>5 DEF mob_handle_sub, TurnEnds, TableTypes
  <2>2. /\ mob' \in Mobs /\ mob'.vita = mob.vita /\ mob'.exists = mob.exists
        /\ mob'.state = "dead" <=> mob.state = "dead"
    <3>1. CASE mob' = mob
      BY <1>1, <3>1
    <3>2. CASE mob.state = "hit" /\ mob' = [mob EXCEPT !.state = "alive"]
      BY <1>1, <3>2 DEF Mobs
    <3>. QED  BY <1>5, <3>1, <3>2 DEF mob_handle_sub, TurnEnds
  <2>3. /\ PaidIsDead(mob', nested, paid, revived)
        /\ mob'.exists /\ mob'.state = "dead" => mob'.vita = 0 \/ WasReentered(nested)
    BY <1>1, <2>2 DEF CallsAre, PaidIsDead, DyingHasNone
  <2>4. CallsAre(mob', <<>>, nested, paid, revived)
    BY <1>1, <2>2, <2>3, NoCallKeeps
  <2>5. TablesAre'
    BY <1>1, <2>1, <2>2 DEF TablesAre, TableTypes, DeadHasNoTable, DropsToKiller
  <2>. QED  BY <1>2, <2>1, <2>4, <2>5 DEF MobInv
<1>6. CASE mobspawn_onetime
  <2>. DEFINE o == [mob EXCEPT !.exists = TRUE]
              m == [o EXCEPT !.state = "alive"]
  <2>1. /\ mob' = [m EXCEPT !.vita = MaxVita]
        /\ o \in Mobs
    BY <1>1, <1>6 DEF mobspawn_onetime, Mobs
  <2>. HIDE DEF o
  <2>2. m \in Mobs /\ m.state = "alive"
    BY <2>1 DEF Mobs
  <2>. HIDE DEF m
  <2>3. mob' \in Mobs /\ mob'.state = "alive"
    BY <1>1, <2>1, <2>2 DEF Mobs
  <2>4. /\ paid' = 0 /\ revived' = 0 /\ nested' = {} /\ late' = FALSE /\ gap' = FALSE /\ owner' = "none"
        /\ threat' = NoEntry(NoUser) /\ dmggrp' = NoEntry(-1) /\ dmgind' = NoEntry(NoUser)
        /\ UNCHANGED <<groupid, writes, turn>>
    BY <1>6 DEF mobspawn_onetime
  <2>5. PaidIsDead(mob', {}, 0, 0) /\ {} \subseteq Stages
    BY DEF PaidIsDead, Owed
  <2>6. CallsAre(mob', <<>>, {}, 0, 0)
    BY <2>3, <2>5, NoCallKeeps
  <2>7. TablesAre'
    BY <1>1, <2>3, <2>4 DEF TablesAre, TableTypes, DeadHasNoTable, DropsToKiller, NoEntry, InOrder
  <2>. QED  BY <1>2, <2>4, <2>6, <2>7 DEF MobInv
<1>7. ASSUME NEW state \in {"alive", "hit"}, mobl_setattr(state) PROVE MobInv'
  <2>1. /\ mob' = [mob EXCEPT !.state = state]
        /\ IF mob.state = "dead" THEN Written /\ revived' = revived + 1
                                 ELSE UNCHANGED <<writes, revived>>
        /\ UNCHANGED <<threat, dmggrp, dmgind, groupid, turn, paid, nested, late, gap, owner>>
    BY <1>7 DEF mobl_setattr
  <2>2. mob' \in Mobs /\ mob'.state = state /\ state # "dead"
    BY <1>1, <2>1 DEF Mobs
  <2>3. writes' \in 0..MaxWrites
    BY <1>1, <2>1, MobAssumption DEF Written, TableTypes
  <2>4. revived' \in Nat /\ Owed(nested, paid, revived')
    <3>1. CASE mob.state = "dead"
      BY <1>1, <2>1, <3>1 DEF CallsAre, PaidIsDead, Owed
    <3>2. CASE mob.state # "dead"
      BY <1>1, <2>1, <3>2 DEF CallsAre, PaidIsDead
    <3>. QED  BY <3>1, <3>2
  <2>. DEFINE r == revived'
  <2>5. r \in Nat /\ PaidIsDead(mob', nested, paid, r)
    BY <2>4 DEF PaidIsDead
  <2>. HIDE DEF r
  <2>6. CallsAre(mob', <<>>, nested, paid, r)
    BY <1>1, <2>2, <2>5, NoCallKeeps
  <2>7. TablesAre'
    BY <1>1, <2>1, <2>2, <2>3 DEF TablesAre, TableTypes, DeadHasNoTable, DropsToKiller
  <2>. QED  BY <1>2, <2>1, <2>6, <2>7 DEF MobInv, r
<1>. QED  BY <1>3, <1>4, <1>5, <1>6, <1>7

\* The mob begins alive, with empty tables.
LEMMA MobInitHolds == MobInit => MobInv
<1>. SUFFICES ASSUME MobInit PROVE MobInv
  OBVIOUS
<1>1. /\ mob \in Mobs /\ mob.state = "alive" /\ frames = <<>> /\ nested = {} /\ paid = 0
      /\ revived = 0
  <2>1. mob \in [onetime : BOOLEAN, exists : {TRUE}, state : {"alive"},
                vita : {MaxVita}, spell : {FALSE}]
    BY DEF MobInit
  <2>2. MaxVita \in 0..MaxVita
    BY MobAssumption
  <2>3. mob \in Mobs /\ mob.state = "alive"
    BY <2>1, <2>2 DEF Mobs
  <2>. QED  BY <2>3 DEF MobInit
<1>2. PaidIsDead(mob, nested, paid, revived)
  BY <1>1 DEF PaidIsDead, Owed
<1>3. CallsAre(mob, <<>>, nested, paid, revived)
  BY <1>1, <1>2, NoCallKeeps
<1>4. /\ late = FALSE /\ gap = FALSE /\ owner = "none" /\ writes \in 0..MaxWrites
      /\ threat = NoEntry(NoUser) /\ dmggrp = NoEntry(-1) /\ dmgind = NoEntry(NoUser)
      /\ groupid = [p \in Users |-> 0] /\ turn = FALSE
  BY MobAssumption DEF MobInit
<1>5. TablesAre
  BY <1>1, <1>4 DEF TablesAre, TableTypes, DeadHasNoTable, DropsToKiller, NoEntry, InOrder
<1>. QED  BY <1>1, <1>3, <1>5 DEF MobInv

\* Every step keeps the invariant.
LEMMA MobStepHolds == MobInv /\ [MobNext]_mobVars => MobInv'
<1>. SUFFICES ASSUME MobInv, [MobNext]_mobVars PROVE MobInv'
  OBVIOUS
<1>1. CASE UNCHANGED mobVars
  BY <1>1 DEF mobVars, MobInv, TablesAre, TableTypes, DeadHasNoTable, DropsToKiller
<1>2. CASE Taken \/ BeforeDeath \/ Flushed \/ Reward \/ AfterDeath
  BY <1>2, StagesKeep, CallsKeepTables DEF MobInv
<1>. QED  BY <1>1, <1>2, WritesKeep, ScriptsKeep, LoopKeeps DEF MobNext

\* The invariant implies what the run checks.
LEMMA MobInvIsSound == MobInv => MobTypeOK /\ MobSound
<1>. SUFFICES ASSUME MobInv PROVE MobTypeOK /\ MobSound
  OBVIOUS
<1>1. MobTypeOK
  BY DEF MobInv, CallsAre, TablesAre, TableTypes, MobTypeOK, Mobs, FrameRecords
<1>2. PaidOnce
  BY DEF MobInv, CallsAre, PaidIsDead, Owed, DyingHasNone, DiedInside, WasReentered, PaidOnce
<1>3. ThreatOnce
  BY DEF MobInv, TablesAre, InOrder, ThreatOnce
<1>. QED  BY <1>1, <1>2, <1>3 DEF MobInv, TablesAre, MobSound

\* A mob is paid for once and drops to its killer, but for the scripts that hit it
\* again while it dies and the turns that outlive it: for any players, vita, number of slots and depth of calls.
THEOREM SpecMobSound == MobSpec => []MobSound
  BY MobInitHolds, MobStepHolds, MobInvIsSound, PTL DEF MobSpec

----------------------------------------------------------------------------
(* The life of a player.                                                   *)

StagesOfCalls == {"taking", "take", "before", "death", "died"}
Hps == 0..Max({BaseHp + 1, ResHp})
LifeRecords == [state : {"alive", "dead"}, hp : Hps, max_hp : {BaseHp, BaseHp + 1},
            deathflag : BOOLEAN, attacker : Ids]
CallRecords == [stage : StagesOfCalls, killer : Ids, hp : Hps]
LifeMarks == {"stays", "touched", "nested", "res", "renamed"}

TopOf(c) == c[Len(c)]
CallAt(c, S) == \E i \in 1..Len(c) : c[i].stage \in S

TwoAreNested(c, ir) == Len(c) > 1 => "nested" \in ir
FallIsSeen(p, c, ir) ==
  Fallen(p) /\ ~p.deathflag => "stays" \in ir \/ CallAt(c, {"before", "death"})
DeadIsTouched(p, c, ir) ==
  p.state = "dead" /\ (p.hp > 0 \/ CallAt(c, {"taking"})) =>
    "touched" \in ir \/ "nested" \in ir
RoomIsKept(p, ir) == p.hp > p.max_hp => "res" \in ir \/ "nested" \in ir
BlowsLeaveRoom(c, ir) ==
  \A i \in 1..Len(c) :
    c[i].stage = "taking" /\ c[i].hp > BaseHp => "res" \in ir \/ "nested" \in ir
KillerIsAttacker(p, c, ir) ==
  c # <<>> =>
    TopOf(c).killer = p.attacker \/ "renamed" \in ir \/ "nested" \in ir
FlaggedByBlow(p, c, ir, b) ==
  c = <<>> /\ p.hp = 0 /\ p.deathflag =>
    p.attacker \in {Nobody, b} \/ "renamed" \in ir \/ "nested" \in ir
DyingHasNoFlag(p, c, ir) ==
  c # <<>> /\ TopOf(c).stage = "died" => ~p.deathflag \/ "nested" \in ir

LifeIs(p, c, ir, b) ==
  /\ p \in LifeRecords /\ c \in Seq(CallRecords) /\ ir \subseteq LifeMarks /\ b \in Ids
  /\ TwoAreNested(c, ir) /\ FallIsSeen(p, c, ir) /\ DeadIsTouched(p, c, ir)
  /\ RoomIsKept(p, ir) /\ BlowsLeaveRoom(c, ir) /\ KillerIsAttacker(p, c, ir)
  /\ FlaggedByBlow(p, c, ir, b) /\ DyingHasNoFlag(p, c, ir)

LifeInv == LifeIs(pl, calls, irregular, blamed) /\ misblamed = FALSE

----------------------------------------------------------------------------

\* The numbers that vita can be.
LEMMA HpsAre ==
  /\ Hps \subseteq Nat /\ \A n \in Nat : n <= BaseHp + 1 \/ n <= ResHp => n \in Hps
  /\ 0 \in Hps /\ ResHp \in Hps /\ BaseHp \in Hps
<1>1. BaseHp + 1 \in Int /\ BaseHp \in Nat /\ ResHp \in Int /\ ResHp \in Nat
  BY PlayerLifeAssumption
<1>2. Max({BaseHp + 1, ResHp}) = IF BaseHp + 1 >= ResHp THEN BaseHp + 1 ELSE ResHp
  BY <1>1, OfTwo
<1>. QED  BY <1>1, <1>2 DEF Hps

\* One more call.
LEMMA PushIs ==
  ASSUME NEW c \in Seq(CallRecords), NEW r \in CallRecords
  PROVE  /\ Append(c, r) \in Seq(CallRecords) /\ Append(c, r) # <<>>
         /\ Len(Append(c, r)) = Len(c) + 1 /\ Len(c) \in Nat
         /\ TopOf(Append(c, r)) = r
         /\ \A i \in 1..Len(c) : Append(c, r)[i] = c[i]
         /\ c = <<>> <=> Len(c) = 0
BY AppendedIs DEF TopOf

\* The last call at another stage.
LEMMA StageIs ==
  ASSUME calls \in Seq(CallRecords), calls # <<>>, NEW s \in StagesOfCalls
  PROVE  /\ Stage(s) \in Seq(CallRecords) /\ Len(Stage(s)) = Len(calls)
         /\ Stage(s) # <<>> /\ Len(calls) \in Nat \ {0}
         /\ TopOf(Stage(s)).stage = s
         /\ TopOf(Stage(s)).killer = TopOf(calls).killer
         /\ TopOf(Stage(s)).hp = TopOf(calls).hp
         /\ \A i \in 1..Len(calls) - 1 : Stage(s)[i] = calls[i]
         /\ TopOf(calls) \in CallRecords
<1>1. Len(calls) \in Nat \ {0} /\ calls[Len(calls)] \in CallRecords
  OBVIOUS
<1>. DEFINE r == [calls[Len(calls)] EXCEPT !.stage = s]
<1>2. r \in CallRecords /\ r.stage = s /\ r.killer = calls[Len(calls)].killer
      /\ r.hp = calls[Len(calls)].hp
  BY <1>1 DEF CallRecords
<1>3. Stage(s) = [calls EXCEPT ![Len(calls)] = r]
  BY DEF Stage
<1>. HIDE DEF r
<1>. QED  BY <1>1, <1>2, <1>3 DEF TopOf

\* All calls but the last.
LEMMA ReturnIs ==
  ASSUME calls \in Seq(CallRecords), calls # <<>>
  PROVE  /\ Returned \in Seq(CallRecords) /\ Len(Returned) = Len(calls) - 1
         /\ Len(calls) \in Nat \ {0}
         /\ \A i \in 1..Len(calls) - 1 : Returned[i] = calls[i]
         /\ Returned = <<>> <=> Len(calls) = 1
         /\ TopOf(calls) \in CallRecords
BY ButLastIs DEF Returned, TopOf

\* The history is forgotten only when there is nothing to explain.
LEMMA HistoryKept ==
  ASSUME NEW p, NEW c, NEW marks, PlayerIs(p, c, marks), irregular \subseteq LifeMarks,
         LifeIs(p, c, irregular \cup marks, blamed')
  PROVE  LifeIs(pl', calls', irregular', blamed')
<1>1. CASE p.state = "alive" /\ p.hp \in 1..p.max_hp /\ c = <<>>
  <2>1. pl' = p /\ calls' = c /\ irregular' = {}
    BY <1>1 DEF PlayerIs
  <2>2. p \in LifeRecords /\ c \in Seq(CallRecords) /\ {} \subseteq LifeMarks /\ blamed' \in Ids
    BY DEF LifeIs
  <2>3. Len(c) = 0 /\ p.max_hp \in Nat /\ p.hp \in Nat
    BY <1>1, <2>2, HpsAre, PlayerLifeAssumption DEF LifeRecords
  <2>. QED  BY <1>1, <2>1, <2>2, <2>3
            DEF LifeIs, TwoAreNested, FallIsSeen, DeadIsTouched, RoomIsKept,
                BlowsLeaveRoom, KillerIsAttacker, FlaggedByBlow, DyingHasNoFlag,
                CallAt, Fallen
<1>2. CASE ~(p.state = "alive" /\ p.hp \in 1..p.max_hp /\ c = <<>>)
  BY <1>2 DEF PlayerIs
<1>. QED  BY <1>1, <1>2

\* The vita after a blow.
LEMMA VitaAfterIs ==
  ASSUME pl \in LifeRecords, NEW damage \in Int, damage >= -1
  PROVE  /\ HpAfter(damage) \in Hps /\ HpAfter(damage) \in Nat
         /\ HpAfter(damage) <= pl.max_hp
         /\ damage > 0 => HpAfter(damage) <= BaseHp \/ pl.hp > pl.max_hp
         /\ damage = -1 => HpAfter(damage) > 0
<1>1. pl.hp \in Nat /\ pl.max_hp \in {BaseHp, BaseHp + 1}
  BY HpsAre DEF LifeRecords
<1>2. BaseHp \in Nat \ {0} /\ pl.max_hp \in Nat \ {0} /\ pl.max_hp <= BaseHp + 1
  BY <1>1, PlayerLifeAssumption
<1>3. pl.hp - damage \in Int /\ pl.max_hp \in Int
  BY <1>1, <1>2
<1>4. Min({pl.hp - damage, pl.max_hp}) =
        IF pl.hp - damage <= pl.max_hp THEN pl.hp - damage ELSE pl.max_hp
  BY <1>3, OfTwo
<1>5. HpAfter(damage) =
        IF pl.hp < damage THEN 0
        ELSE IF pl.hp - damage <= pl.max_hp THEN pl.hp - damage ELSE pl.max_hp
  BY <1>4 DEF HpAfter
<1>6. /\ HpAfter(damage) \in Nat /\ HpAfter(damage) <= pl.max_hp
      /\ damage > 0 => HpAfter(damage) <= BaseHp \/ pl.hp > pl.max_hp
      /\ damage = -1 => HpAfter(damage) > 0
  BY <1>1, <1>2, <1>5
<1>7. HpAfter(damage) \in Hps
  BY <1>2, <1>6, HpsAre
<1>. QED  BY <1>6, <1>7

\* A call that begins.
LEMMA PushKeeps ==
  ASSUME LifeIs(pl, calls, irregular, blamed), NEW p \in LifeRecords, NEW r \in CallRecords,
         NEW marks, marks \subseteq LifeMarks, InACall \subseteq marks,
         r.killer = p.attacker,
         r.stage = "taking" /\ r.hp > BaseHp => pl.hp > pl.max_hp,
         p.hp > p.max_hp => pl.hp > pl.max_hp,
         \/ r.stage = "before"
         \/ p.hp = pl.hp /\ p.deathflag = pl.deathflag /\ p.state = pl.state
         \/ p.state = "dead",
         p.state = "dead" => "touched" \in marks \/ (p.hp = 0 /\ r.stage # "taking"),
         r.stage = "died" => ~p.deathflag
  PROVE  LifeIs(p, Append(calls, r), irregular \cup marks, blamed)
<1>. DEFINE c == Append(calls, r)
            ir == irregular \cup marks
<1>1. /\ c \in Seq(CallRecords) /\ c # <<>> /\ Len(c) = Len(calls) + 1 /\ Len(calls) \in Nat
      /\ TopOf(c) = r /\ (\A i \in 1..Len(calls) : c[i] = calls[i])
      /\ (calls = <<>> <=> Len(calls) = 0) /\ c[Len(c)] = r
  BY PushIs DEF LifeIs, TopOf
<1>. HIDE DEF c
<1>2. calls # <<>> => "nested" \in ir
  BY DEF InACall
<1>3. ir \subseteq LifeMarks /\ irregular \subseteq ir
  BY DEF LifeIs
<1>4. \A i \in 1..Len(c) : i \in 1..Len(calls) \/ i = Len(c)
  BY <1>1
<1>5. TwoAreNested(c, ir)
  BY <1>1, <1>2 DEF TwoAreNested
<1>6. FallIsSeen(p, c, ir)
  <2>1. SUFFICES ASSUME Fallen(p), ~p.deathflag
                 PROVE  "stays" \in ir \/ CallAt(c, {"before", "death"})
    BY DEF FallIsSeen
  <2>2. CASE r.stage = "before"
    BY <1>1, <2>2 DEF CallAt
  <2>3. CASE p.hp = pl.hp /\ p.deathflag = pl.deathflag /\ p.state = pl.state
    <3>1. "stays" \in irregular \/ CallAt(calls, {"before", "death"})
      BY <2>1, <2>3 DEF LifeIs, FallIsSeen, Fallen
    <3>2. CallAt(calls, {"before", "death"}) => CallAt(c, {"before", "death"})
      BY <1>1 DEF CallAt
    <3>. QED  BY <3>1, <3>2
  <2>. QED  BY <2>1, <2>2, <2>3 DEF Fallen
<1>7. DeadIsTouched(p, c, ir)
  <2>1. calls = <<>> /\ r.stage # "taking" => ~CallAt(c, {"taking"})
    BY <1>1 DEF CallAt
  <2>. QED  BY <1>2, <2>1 DEF DeadIsTouched
<1>8. RoomIsKept(p, ir)
  BY <1>3 DEF LifeIs, RoomIsKept
<1>9. BlowsLeaveRoom(c, ir)
  BY <1>1, <1>3, <1>4 DEF LifeIs, RoomIsKept, BlowsLeaveRoom
<1>10. KillerIsAttacker(p, c, ir) /\ FlaggedByBlow(p, c, ir, blamed) /\ DyingHasNoFlag(p, c, ir)
  BY <1>1 DEF KillerIsAttacker, FlaggedByBlow, DyingHasNoFlag
<1>. QED  BY <1>1, <1>3, <1>5, <1>6, <1>7, <1>8, <1>9, <1>10 DEF LifeIs, c

\* The calls stay; the vita is not lost.
LEMMA PlayerKeeps ==
  ASSUME LifeIs(pl, calls, irregular, blamed), NEW p \in LifeRecords,
         NEW marks, marks \subseteq LifeMarks, 
         Fallen(p) /\ ~p.deathflag =>
           "stays" \in marks \/ (Fallen(pl) /\ ~pl.deathflag),
         p.state = "dead" => pl.state = "dead" /\ (p.hp > 0 => pl.hp > 0 \/ "touched" \in marks),
         p.hp > p.max_hp => pl.hp > pl.max_hp \/ "res" \in marks,
         p.deathflag => pl.deathflag,
         \/ p.attacker = pl.attacker \/ "renamed" \in marks \/ "nested" \in marks
         \/ calls = <<>> /\ (p.hp > 0 \/ ~p.deathflag),
         p.hp = 0 => pl.hp = 0 \/ "renamed" \in marks \/ "nested" \in marks \/ ~p.deathflag
  PROVE  LifeIs(p, calls, irregular \cup marks, blamed)
<1>. DEFINE ir == irregular \cup marks
<1>1. irregular \subseteq ir /\ marks \subseteq ir /\ ir \subseteq LifeMarks
  BY DEF LifeIs
<1>. HIDE DEF ir
<1>2. p.hp \in Nat
  BY HpsAre DEF LifeRecords
<1>3. FallIsSeen(p, calls, ir)
  BY <1>1 DEF LifeIs, FallIsSeen
<1>4. DeadIsTouched(p, calls, ir)
  BY <1>1 DEF LifeIs, DeadIsTouched
<1>5. RoomIsKept(p, ir) /\ BlowsLeaveRoom(calls, ir) /\ TwoAreNested(calls, ir)
  BY <1>1 DEF LifeIs, RoomIsKept, BlowsLeaveRoom, TwoAreNested
<1>6. KillerIsAttacker(p, calls, ir)
  BY <1>1 DEF LifeIs, KillerIsAttacker
<1>7. FlaggedByBlow(p, calls, ir, blamed) /\ DyingHasNoFlag(p, calls, ir)
  BY <1>1, <1>2 DEF LifeIs, FlaggedByBlow, DyingHasNoFlag
<1>. QED  BY <1>1, <1>3, <1>4, <1>5, <1>6, <1>7 DEF LifeIs, ir

\* A blow or a heal.
LEMMA BlowKeeps ==
  ASSUME LifeInv, NEW by \in Ids, NEW damage \in Int, damage >= -1,
         clif_send_pc_healthscript([pl EXCEPT !.attacker = by], damage)
  PROVE  LifeInv'
<1>. DEFINE p == [pl EXCEPT !.attacker = by]
            q == [p EXCEPT !.hp = HpAfter(damage)]
            r(s) == [stage |-> s, killer |-> p.attacker, hp |-> HpAfter(damage)]
<1>1. /\ LifeIs(pl, calls, irregular, blamed) /\ misblamed = FALSE
      /\ pl \in LifeRecords /\ irregular \subseteq LifeMarks
  BY DEF LifeInv, LifeIs
<1>2. /\ HpAfter(damage) \in Hps /\ HpAfter(damage) \in Nat
      /\ HpAfter(damage) <= pl.max_hp
      /\ damage > 0 => HpAfter(damage) <= BaseHp \/ pl.hp > pl.max_hp
      /\ damage = -1 => HpAfter(damage) > 0
  BY <1>1, VitaAfterIs
<1>3. /\ p \in LifeRecords /\ p.attacker = by /\ p.hp = pl.hp /\ p.max_hp = pl.max_hp
      /\ p.state = pl.state /\ p.deathflag = pl.deathflag
  BY <1>1 DEF LifeRecords
<1>4. /\ q \in LifeRecords /\ q.attacker = by /\ q.hp = HpAfter(damage)
      /\ q.max_hp = pl.max_hp
      /\ q.state = pl.state /\ q.deathflag = pl.deathflag
  BY <1>2, <1>3 DEF LifeRecords
<1>5. \A s \in StagesOfCalls : /\ r(s) \in CallRecords /\ r(s).stage = s
                            /\ r(s).killer = by /\ r(s).hp = HpAfter(damage)
  BY <1>2, <1>3 DEF CallRecords
<1>6. /\ CallMarks \subseteq LifeMarks /\ InACall \subseteq CallMarks
      /\ pl.state = "dead" => "touched" \in CallMarks
      /\ calls # <<>> => "nested" \in CallMarks
  BY DEF CallMarks, InACall, LifeMarks
<1>7. /\ blamed' = blamed /\ misblamed' = misblamed
      /\ IF damage > 0 THEN PlayerIs(p, Append(calls, r("taking")), CallMarks)
         ELSE PlayerIs(q, IF HpAfter(damage) = 0 THEN Append(calls, r("before")) ELSE calls,
                       CallMarks)
  BY DEF clif_send_pc_healthscript
<1>. "taking" \in StagesOfCalls /\ "before" \in StagesOfCalls
  BY DEF StagesOfCalls
<1>8. BaseHp \in Nat /\ pl.max_hp \in Nat /\ pl.hp \in Nat
  BY <1>1, HpsAre, PlayerLifeAssumption DEF LifeRecords
<1>. HIDE DEF p, q, r
<1>9. CASE damage > 0
  <2>2. /\ r("taking") \in CallRecords /\ r("taking").stage = "taking"
        /\ r("taking").killer = p.attacker /\ r("taking").hp = HpAfter(damage)
    BY <1>3, <1>5
  <2>3. /\ r("taking").hp > BaseHp => pl.hp > pl.max_hp
        /\ p.hp > p.max_hp => pl.hp > pl.max_hp
    BY <1>2, <1>3, <1>8, <1>9, <2>2
  <2>1. LifeIs(p, Append(calls, r("taking")), irregular \cup CallMarks, blamed)
    BY <1>1, <1>3, <1>6, <2>2, <2>3, PushKeeps
  <2>. QED  BY <1>1, <1>7, <1>9, <2>1, HistoryKept DEF LifeInv
<1>10. CASE ~(damage > 0) /\ HpAfter(damage) = 0
  <2>2. /\ r("before") \in CallRecords /\ r("before").stage = "before"
        /\ r("before").killer = q.attacker
    BY <1>4, <1>5
  <2>3. ~(q.hp > q.max_hp)
    BY <1>2, <1>4, <1>8
  <2>1. LifeIs(q, Append(calls, r("before")), irregular \cup CallMarks, blamed)
    BY <1>1, <1>4, <1>6, <2>2, <2>3, PushKeeps
  <2>. QED  BY <1>1, <1>7, <1>10, <2>1, HistoryKept DEF LifeInv
<1>11. CASE ~(damage > 0) /\ HpAfter(damage) # 0
  <2>2. q.hp > 0 /\ q.hp # 0 /\ ~(q.hp > q.max_hp) /\ ~Fallen(q)
    BY <1>2, <1>4, <1>8, <1>11 DEF Fallen
  <2>1. LifeIs(q, calls, irregular \cup CallMarks, blamed)
    BY <1>1, <1>4, <1>6, <2>2, PlayerKeeps
  <2>. QED  BY <1>1, <1>7, <1>11, <2>1, HistoryKept DEF LifeInv
<1>. QED  BY <1>9, <1>10, <1>11

\* A call goes on at its next stage.
LEMMA StageKeeps ==
  ASSUME LifeIs(pl, calls, irregular, blamed), calls # <<>>,
         NEW hp \in Hps, NEW s \in {"take", "before", "death"},
         hp = 0 => s # "take", 
         TopOf(calls).stage # "died",
         s = "take" => TopOf(calls).stage \notin {"before", "death"},
         hp > pl.max_hp => "res" \in irregular \/ "nested" \in irregular,
         pl.state = "dead" /\ hp > 0 => "touched" \in irregular \/ "nested" \in irregular
  PROVE  LifeIs([pl EXCEPT !.hp = hp], Stage(s), irregular \cup {}, blamed)
<1>. DEFINE p == [pl EXCEPT !.hp = hp]
            c == Stage(s)
<1>1. pl \in LifeRecords /\ calls \in Seq(CallRecords) /\ irregular \subseteq LifeMarks
      /\ blamed \in Ids /\ s \in StagesOfCalls
  BY DEF LifeIs, StagesOfCalls
<1>2. /\ p \in LifeRecords /\ p.hp = hp /\ p.state = pl.state /\ p.max_hp = pl.max_hp
      /\ p.deathflag = pl.deathflag /\ p.attacker = pl.attacker
  BY <1>1 DEF LifeRecords
<1>3. /\ c \in Seq(CallRecords) /\ Len(c) = Len(calls) /\ c # <<>>
      /\ Len(calls) \in Nat \ {0}
      /\ TopOf(c).stage = s /\ TopOf(c).killer = TopOf(calls).killer
      /\ \A i \in 1..Len(calls) - 1 : c[i] = calls[i]
      /\ TopOf(c) = c[Len(c)] /\ c[Len(calls)].stage = s
  BY <1>1, StageIs DEF TopOf
<1>. HIDE DEF p, c
<1>4. \A i \in 1..Len(calls) : i \in 1..Len(calls) - 1 \/ i = Len(calls)
  BY <1>3
<1>5. TwoAreNested(c, irregular) /\ BlowsLeaveRoom(c, irregular)
  BY <1>3, <1>4 DEF LifeIs, TwoAreNested, BlowsLeaveRoom
<1>6. FallIsSeen(p, c, irregular)
  <2>1. hp = 0 => CallAt(c, {"before", "death"})
    BY <1>3 DEF CallAt
  <2>. QED  BY <1>2, <2>1 DEF FallIsSeen, Fallen
<1>7. DeadIsTouched(p, c, irregular)
  <2>1. CallAt(c, {"taking"}) => CallAt(calls, {"taking"})
    BY <1>3, <1>4 DEF CallAt
  <2>. QED  BY <1>2, <2>1 DEF LifeIs, DeadIsTouched
<1>8. RoomIsKept(p, irregular) /\ KillerIsAttacker(p, c, irregular)
  BY <1>2, <1>3 DEF LifeIs, RoomIsKept, KillerIsAttacker
<1>9. FlaggedByBlow(p, c, irregular, blamed) /\ DyingHasNoFlag(p, c, irregular)
  BY <1>3 DEF FlaggedByBlow, DyingHasNoFlag
<1>. QED  BY <1>1, <1>2, <1>3, <1>5, <1>6, <1>7, <1>8, <1>9 DEF LifeIs, p, c

\* A call returns.
LEMMA ReturnKeeps ==
  ASSUME LifeIs(pl, calls, irregular, blamed), calls # <<>>,
         NEW p \in LifeRecords, NEW marks, marks \subseteq LifeMarks, NEW b \in Ids,
         p.state = pl.state, p.attacker = pl.attacker, 
         p.hp > 0 => pl.hp > 0,
         p.hp > p.max_hp => pl.hp > pl.max_hp,
         Fallen(p) /\ ~p.deathflag =>
           \/ "stays" \in marks
           \/ Fallen(pl) /\ ~pl.deathflag /\ TopOf(calls).stage \notin {"before", "death"},
         p.hp = 0 /\ p.deathflag =>
           p.attacker \in {Nobody, b} \/ "renamed" \in irregular \/ "nested" \in irregular
  PROVE  LifeIs(p, Returned, irregular \cup marks, b)
<1>. DEFINE c == Returned
            ir == irregular \cup marks
<1>1. pl \in LifeRecords /\ calls \in Seq(CallRecords) /\ irregular \subseteq LifeMarks
  BY DEF LifeIs
<1>2. /\ c \in Seq(CallRecords) /\ Len(c) = Len(calls) - 1 /\ Len(calls) \in Nat \ {0}
      /\ \A i \in 1..Len(calls) - 1 : c[i] = calls[i]
      /\ (c = <<>> <=> Len(calls) = 1)
  BY <1>1, ReturnIs
<1>3. irregular \subseteq ir /\ marks \subseteq ir /\ ir \subseteq LifeMarks
  BY <1>1
<1>. HIDE DEF c, ir
<1>4. c # <<>> => "nested" \in ir
  BY <1>2, <1>3 DEF LifeIs, TwoAreNested
<1>5. TwoAreNested(c, ir) /\ BlowsLeaveRoom(c, ir)
  BY <1>2, <1>3 DEF LifeIs, TwoAreNested, BlowsLeaveRoom
<1>6. \A S : CallAt(calls, S) => CallAt(c, S) \/ TopOf(calls).stage \in S
  <2>1. \A i \in 1..Len(calls) : i \in 1..Len(c) \/ i = Len(calls)
    BY <1>2
  <2>. QED  BY <1>2, <2>1 DEF CallAt, TopOf
<1>7. FallIsSeen(p, c, ir)
  BY <1>3, <1>6 DEF LifeIs, FallIsSeen
<1>8. DeadIsTouched(p, c, ir)
  <2>1. CallAt(c, {"taking"}) => CallAt(calls, {"taking"})
    BY <1>2 DEF CallAt
  <2>. QED  BY <1>3, <2>1 DEF LifeIs, DeadIsTouched
<1>9. RoomIsKept(p, ir) /\ KillerIsAttacker(p, c, ir) /\ DyingHasNoFlag(p, c, ir)
  BY <1>3, <1>4 DEF LifeIs, RoomIsKept, KillerIsAttacker, DyingHasNoFlag
<1>10. FlaggedByBlow(p, c, ir, b)
  BY <1>3 DEF FlaggedByBlow
<1>. QED  BY <1>2, <1>3, <1>5, <1>7, <1>8, <1>9, <1>10 DEF LifeIs, c, ir

\* The vita fits into what there is room for.
LEMMA CalcstatIs ==
  ASSUME NEW p \in LifeRecords, NEW max \in {BaseHp, BaseHp + 1}
  PROVE  /\ pc_calcstat(p, max) \in LifeRecords
         /\ pc_calcstat(p, max).max_hp = max
         /\ pc_calcstat(p, max).state = p.state
         /\ pc_calcstat(p, max).attacker = p.attacker
         /\ pc_calcstat(p, max).deathflag = p.deathflag
         /\ pc_calcstat(p, max).hp = 0 <=> p.hp = 0
         /\ pc_calcstat(p, max).hp > 0 <=> p.hp > 0
         /\ ~(pc_calcstat(p, max).hp > max)
<1>1. BaseHp \in Nat \ {0} /\ p.hp \in Hps
  BY PlayerLifeAssumption DEF LifeRecords
<1>2. max \in Nat \ {0} /\ BaseHp \in Nat /\ max <= BaseHp + 1
  BY <1>1
<1>3. p.hp \in Nat
  BY <1>1, HpsAre
<1>. DEFINE hp == Min({p.hp, max})
<1>4. hp = IF p.hp <= max THEN p.hp ELSE max
  BY <1>2, <1>3, OfTwo
<1>5. /\ hp \in Nat /\ hp <= BaseHp + 1 /\ (hp = 0 <=> p.hp = 0)
      /\ (hp > 0 <=> p.hp > 0) /\ ~(hp > max)
  BY <1>2, <1>3, <1>4
<1>6. hp \in Hps
  BY <1>5, HpsAre
<1>. DEFINE q == [p EXCEPT !.max_hp = max]
<1>7. pc_calcstat(p, max) = [q EXCEPT !.hp = hp]
  BY DEF pc_calcstat, LifeRecords
<1>. HIDE DEF hp
<1>8. /\ q \in LifeRecords /\ q.max_hp = max /\ q.state = p.state
      /\ q.attacker = p.attacker /\ q.deathflag = p.deathflag
  BY DEF LifeRecords
<1>. HIDE DEF q
<1>. QED  BY <1>5, <1>6, <1>7, <1>8 DEF LifeRecords

----------------------------------------------------------------------------
(* The handlers.                                                           *)

\* A call goes on after its scripts, or ends.
LEMMA CallsKeep ==
  ASSUME LifeInv, VitaWritten \/ DamageTaken \/ BeforeDying \/ OnDeath \/ Died
  PROVE  LifeInv'
<1>1. /\ LifeIs(pl, calls, irregular, blamed) /\ misblamed = FALSE
      /\ pl \in LifeRecords /\ irregular \subseteq LifeMarks /\ calls \in Seq(CallRecords)
      /\ blamed \in Ids /\ irregular \cup {} = irregular
  BY DEF LifeInv, LifeIs
<1>2. /\ pl.hp \in Nat /\ pl.hp \in Hps /\ pl.max_hp \in Nat /\ 0 \in Hps
      /\ [pl EXCEPT !.hp = pl.hp] = pl
  BY <1>1, HpsAre, PlayerLifeAssumption DEF LifeRecords
<1>3. CASE VitaWritten
  <2>1. /\ calls # <<>> /\ TopOf(calls).stage = "taking" /\ TopOf(calls) \in CallRecords
        /\ Len(calls) \in Nat \ {0} /\ Latest = TopOf(calls)
    BY <1>1, <1>3, StageIs, ReturnIs DEF VitaWritten, AtStage, Latest, TopOf
  <2>. DEFINE hp == TopOf(calls).hp
              s == IF hp = 0 THEN "before" ELSE "take"
              p == [pl EXCEPT !.hp = hp]
  <2>2. hp \in Hps /\ hp \in Nat /\ BaseHp \in Nat /\ pl.max_hp >= BaseHp
    <3>1. BaseHp \in Nat \ {0} /\ pl.max_hp \in {BaseHp, BaseHp + 1}
      BY <1>1, PlayerLifeAssumption DEF LifeRecords
    <3>2. hp \in Hps
      BY <2>1 DEF CallRecords
    <3>3. BaseHp \in Nat /\ pl.max_hp >= BaseHp
      BY <3>1
    <3>. QED  BY <3>2, <3>3, HpsAre
  <2>3. /\ PlayerIs(p, Stage(s), {}) /\ blamed' = blamed /\ misblamed' = misblamed
    BY <1>3, <2>1 DEF VitaWritten
  <2>. HIDE DEF hp
  <2>4. hp > pl.max_hp => "res" \in irregular \/ "nested" \in irregular
    <3>1. hp > pl.max_hp => hp > BaseHp
      BY <1>2, <2>2
    <3>2. Len(calls) \in 1..Len(calls) /\ calls[Len(calls)] = TopOf(calls)
      BY <2>1 DEF TopOf
    <3>. QED  BY <1>1, <2>1, <3>1, <3>2 DEF LifeIs, BlowsLeaveRoom, hp
  <2>5. pl.state = "dead" => "touched" \in irregular \/ "nested" \in irregular
    BY <1>1, <2>1 DEF LifeIs, DeadIsTouched, CallAt, TopOf
  <2>6. LifeIs(p, Stage(s), irregular \cup {}, blamed)
    BY <1>1, <2>1, <2>2, <2>4, <2>5, StageKeeps
  <2>. QED  BY <1>1, <2>3, <2>6, HistoryKept DEF LifeInv
<1>4. ASSUME NEW from \in {"take", "before"}, NEW next \in {"before", "death"},
             AtStage(from), Survives(next)
      PROVE  LifeInv'
  <2>1. /\ calls # <<>> /\ TopOf(calls).stage = from
        /\ blamed' = blamed /\ misblamed' = misblamed
        /\ PlayerIs(pl, IF pl.hp = 0 THEN Stage(next) ELSE Returned, {})
    BY <1>4 DEF AtStage, Survives, Latest, TopOf
  <2>2. CASE pl.hp = 0
    <3>1. LifeIs([pl EXCEPT !.hp = 0], Stage(next), irregular \cup {}, blamed)
      BY <1>1, <1>2, <2>1, <2>2, StageKeeps
    <3>. QED  BY <1>1, <1>2, <2>1, <2>2, <3>1, HistoryKept DEF LifeInv
  <2>3. CASE pl.hp # 0
    <3>1. LifeIs(pl, Returned, irregular \cup {}, blamed)
      BY <1>1, <1>2, <2>1, <2>3, ReturnKeeps DEF Fallen
    <3>. QED  BY <1>1, <2>1, <2>3, <3>1, HistoryKept DEF LifeInv
  <2>. QED  BY <2>2, <2>3
<1>5. CASE DamageTaken \/ BeforeDying
  BY <1>4, <1>5 DEF DamageTaken, BeforeDying
<1>6. CASE OnDeath
  <2>1. /\ calls # <<>> /\ TopOf(calls).stage = "death" /\ TopOf(calls) \in CallRecords
        /\ Latest = TopOf(calls)
    BY <1>1, <1>6, ReturnIs DEF OnDeath, AtStage, Latest, TopOf
  <2>2. PICK spared \in BOOLEAN :
          PlayerIs([pl EXCEPT !.deathflag = @ \/ ~spared], Returned,
                   IF spared THEN {"stays"} ELSE {})
    BY <1>6 DEF OnDeath
  <2>. DEFINE flag == pl.deathflag \/ ~spared
              p == [pl EXCEPT !.deathflag = flag]
              marks == IF spared THEN {"stays"} ELSE {}
  <2>3. /\ blamed' = TopOf(calls).killer /\ blamed' \in Ids /\ misblamed' = misblamed
    BY <1>6, <2>1 DEF OnDeath, CallRecords
  <2>4. flag \in BOOLEAN /\ (~flag => spared)
    BY <1>1 DEF LifeRecords
  <2>5. PlayerIs(p, Returned, marks)
    BY <1>1, <2>2 DEF LifeRecords
  <2>. HIDE DEF flag
  <2>6. /\ p \in LifeRecords /\ p.deathflag = flag /\ p.hp = pl.hp /\ p.state = pl.state
        /\ p.max_hp = pl.max_hp /\ p.attacker = pl.attacker
    BY <1>1, <2>4 DEF LifeRecords
  <2>7. marks \subseteq LifeMarks /\ (~flag => "stays" \in marks)
    BY <2>4 DEF LifeMarks
  <2>. HIDE DEF p, marks
  <2>8. p.attacker \in {Nobody, blamed'} \/ "renamed" \in irregular \/ "nested" \in irregular
    BY <1>1, <2>1, <2>3, <2>6 DEF LifeIs, KillerIsAttacker
  <2>9. LifeIs(p, Returned, irregular \cup marks, blamed')
    BY <1>1, <1>2, <2>1, <2>3, <2>6, <2>7, <2>8, ReturnKeeps
  <2>. QED  BY <1>1, <2>3, <2>5, <2>9, HistoryKept DEF LifeInv
<1>7. CASE Died
  <2>1. /\ calls # <<>> /\ TopOf(calls).stage = "died"
        /\ blamed' = blamed /\ misblamed' = misblamed
        /\ PlayerIs(pc_calcstat(pl, pl.max_hp), Returned, {})
    BY <1>7 DEF Died, AtStage, Latest, TopOf
  <2>. DEFINE p == pc_calcstat(pl, pl.max_hp)
  <2>2. pl.max_hp \in {BaseHp, BaseHp + 1}
    BY <1>1 DEF LifeRecords
  <2>3. /\ p \in LifeRecords /\ p.max_hp = pl.max_hp /\ p.state = pl.state
        /\ p.attacker = pl.attacker /\ p.deathflag = pl.deathflag
        /\ p.hp = 0 <=> pl.hp = 0
        /\ p.hp > 0 <=> pl.hp > 0
        /\ ~(p.hp > p.max_hp)
    BY <1>1, <2>2, CalcstatIs
  <2>. HIDE DEF p
  <2>4. pl.deathflag => "nested" \in irregular
    BY <1>1, <2>1 DEF LifeIs, DyingHasNoFlag
  <2>5. LifeIs(p, Returned, irregular \cup {}, blamed)
    BY <1>1, <2>1, <2>3, <2>4, ReturnKeeps DEF Fallen
  <2>. QED  BY <1>1, <2>1, <2>5, HistoryKept DEF LifeInv, p
<1>. QED  BY <1>3, <1>5, <1>6, <1>7

\* A death, by the timer or by an order.
LEMMA DiescriptKeeps ==
  ASSUME LifeInv, NEW marks, diescript(pl, marks), marks \subseteq LifeMarks,
         InACall \subseteq marks,
         "renamed" \in marks \/ pl.attacker \in {Nobody, blamed}
           \/ "renamed" \in irregular \/ "nested" \in irregular
  PROVE  LifeInv'
<1>. DEFINE q == [pl EXCEPT !.state = "dead"]
            o == [q EXCEPT !.hp = 0]
            p == [o EXCEPT !.deathflag = FALSE]
            r == [stage |-> "died", killer |-> pl.attacker, hp |-> 0]
<1>1. /\ LifeIs(pl, calls, irregular, blamed) /\ misblamed = FALSE
      /\ pl \in LifeRecords /\ irregular \subseteq LifeMarks /\ 0 \in Hps
  BY HpsAre DEF LifeInv, LifeIs
<1>2. /\ p \in LifeRecords /\ p.state = "dead" /\ p.hp = 0 /\ p.deathflag = FALSE
      /\ p.attacker = pl.attacker /\ p.max_hp \in Nat
  <2>1. q \in LifeRecords /\ q.state = "dead" /\ q.attacker = pl.attacker
    BY <1>1 DEF LifeRecords
  <2>. HIDE DEF q
  <2>2. o \in LifeRecords /\ o.state = "dead" /\ o.attacker = pl.attacker /\ o.hp = 0
    BY <1>1, <2>1 DEF LifeRecords
  <2>. HIDE DEF o
  <2>3. /\ p \in LifeRecords /\ p.state = "dead" /\ p.hp = 0 /\ p.deathflag = FALSE
        /\ p.attacker = pl.attacker
    BY <2>2 DEF LifeRecords
  <2>. HIDE DEF p
  <2>4. p.max_hp \in {BaseHp, BaseHp + 1} /\ BaseHp \in Nat
    BY <2>3, PlayerLifeAssumption DEF LifeRecords
  <2>. QED  BY <2>3, <2>4
<1>3. r \in CallRecords /\ r.stage = "died" /\ r.killer = p.attacker /\ r.hp = 0
  BY <1>1, <1>2 DEF CallRecords, StagesOfCalls, LifeRecords
<1>4. PlayerIs(p, Append(calls, r), marks) /\ blamed' = blamed
  <2>1. p = [pl EXCEPT !.state = "dead", !.hp = 0, !.deathflag = FALSE]
    BY <1>1 DEF LifeRecords
  <2>. QED  BY <2>1 DEF diescript
<1>5. misblamed' = FALSE
  BY <1>1 DEF diescript
<1>. HIDE DEF p, q, r
<1>6. LifeIs(p, Append(calls, r), irregular \cup marks, blamed)
  BY <1>1, <1>2, <1>3, PushKeeps
<1>. QED  BY <1>1, <1>4, <1>5, <1>6, HistoryKept DEF LifeInv

\* What else changes the player, while the calls stay as they are.
LEMMA WithoutCalls ==
  ASSUME LifeInv, NEW p, NEW marks, PlayerIs(p, calls, marks),
         blamed' = blamed, misblamed' = misblamed,
         LifeIs(p, calls, irregular \cup marks, blamed)
  PROVE  LifeInv'
<1>1. irregular \subseteq LifeMarks
  BY DEF LifeInv, LifeIs
<1>. QED  BY <1>1, HistoryKept DEF LifeInv

\* Somebody is named as attacker, not by a blow.
LEMMA NamedKeeps ==
  ASSUME LifeInv, NEW by \in Ids, NEW p, p = [pl EXCEPT !.attacker = by]
  PROVE  LifeIs(p, calls, irregular \cup Strays, blamed)
<1>1. /\ LifeIs(pl, calls, irregular, blamed) /\ pl \in LifeRecords
  BY DEF LifeInv, LifeIs
<1>2. /\ p \in LifeRecords /\ p.attacker = by /\ p.hp = pl.hp /\ p.max_hp = pl.max_hp
      /\ p.state = pl.state /\ p.deathflag = pl.deathflag /\ pl.hp \in Nat
  BY <1>1, HpsAre DEF LifeRecords
<1>3. /\ Strays \subseteq LifeMarks
      /\ "renamed" \in Strays \/ (calls = <<>> /\ p.hp > 0)
  BY <1>2 DEF Strays, LifeMarks
<1>. QED  BY <1>1, <1>2, <1>3, PlayerKeeps DEF Fallen

\* The timer of half a second.
LEMMA LifeTimerKeeps ==
  ASSUME LifeInv, pc_scripttimer
  PROVE  LifeInv'
<1>1. /\ LifeIs(pl, calls, irregular, blamed) /\ pl \in LifeRecords /\ calls = <<>>
  BY DEF LifeInv, LifeIs, pc_scripttimer
<1>2. CASE pl.hp = 0 /\ pl.deathflag
  <2>1. /\ pl.attacker \in {Nobody, blamed} \/ "renamed" \in irregular \/ "nested" \in irregular
        /\ InACall = {} /\ {} \subseteq LifeMarks
    BY <1>1, <1>2 DEF LifeIs, FlaggedByBlow, InACall
  <2>2. diescript(pl, {})
    BY <1>2 DEF pc_scripttimer
  <2>3. InACall \subseteq {}
    BY <2>1
  <2>. QED  BY <2>1, <2>2, <2>3, DiescriptKeeps
<1>3. CASE ~(pl.hp = 0 /\ pl.deathflag)
  <2>. DEFINE p == [pl EXCEPT !.deathflag = FALSE]
  <2>1. /\ p \in LifeRecords /\ p.attacker = pl.attacker /\ p.hp = pl.hp
        /\ p.max_hp = pl.max_hp /\ p.state = pl.state /\ p.deathflag = FALSE
    BY <1>1 DEF LifeRecords
  <2>2. PlayerIs(p, calls, {}) /\ blamed' = blamed /\ misblamed' = misblamed
    BY <1>1, <1>3 DEF pc_scripttimer
  <2>. HIDE DEF p
  <2>3. LifeIs(p, calls, irregular \cup {}, blamed)
    BY <1>1, <1>3, <2>1, PlayerKeeps DEF Fallen
  <2>. QED  BY <2>2, <2>3, WithoutCalls
<1>. QED  BY <1>2, <1>3

\* What scripts do.
LEMMA LifeScriptsKeep ==
  ASSUME LifeInv,
         \/ pcl_addhealth \/ raises \/ pcl_resurrect \/ pcl_die
         \/ \E by \in Ids : \E damage \in {1, BaseHp} : hit(by, damage)
         \/ \E by \in Ids : \E damage \in {-1, 0, 1} : pcl_sendhealth(by, damage)
  PROVE  LifeInv'
<1>1. /\ LifeIs(pl, calls, irregular, blamed) /\ pl \in LifeRecords
      /\ pl.attacker \in Ids /\ BaseHp \in Nat \ {0} /\ ResHp \in Nat \ {0}
      /\ [pl EXCEPT !.attacker = pl.attacker] = pl
  BY PlayerLifeAssumption DEF LifeInv, LifeIs, LifeRecords
<1>2. pl.hp \in Nat /\ ResHp \in Hps
  BY <1>1, HpsAre DEF LifeRecords
<1>3. CASE pcl_addhealth
  <2>1. clif_send_pc_healthscript([pl EXCEPT !.attacker = pl.attacker], -1)
    BY <1>1, <1>3 DEF pcl_addhealth
  <2>. QED  BY <1>1, <2>1, BlowKeeps
<1>4. CASE raises
  <2>. DEFINE p == [pl EXCEPT !.state = "alive"]
              marks == IF pl.hp = 0 THEN {"stays"} ELSE {}
  <2>1. /\ p \in LifeRecords /\ p.attacker = pl.attacker /\ p.hp = pl.hp
        /\ p.max_hp = pl.max_hp /\ p.state = "alive" /\ p.deathflag = pl.deathflag
    BY <1>1 DEF LifeRecords
  <2>2. PlayerIs(p, calls, marks) /\ blamed' = blamed /\ misblamed' = misblamed
    BY <1>4 DEF raises
  <2>3. marks \subseteq LifeMarks /\ (p.hp = 0 => "stays" \in marks)
    BY <2>1 DEF LifeMarks
  <2>. HIDE DEF p, marks
  <2>4. LifeIs(p, calls, irregular \cup marks, blamed)
    BY <1>1, <2>1, <2>3, PlayerKeeps DEF Fallen
  <2>. QED  BY <2>2, <2>4, WithoutCalls
<1>5. CASE pcl_resurrect
  <2>. DEFINE q == [pl EXCEPT !.state = "alive"]
              p == [q EXCEPT !.hp = ResHp]
  <2>1. q \in LifeRecords /\ q.state = "alive" /\ q.attacker = pl.attacker
        /\ q.deathflag = pl.deathflag
    BY <1>1 DEF LifeRecords
  <2>2. p = [pl EXCEPT !.state = "alive", !.hp = ResHp]
    BY <1>1 DEF LifeRecords
  <2>. HIDE DEF q
  <2>3. /\ p \in LifeRecords /\ p.attacker = pl.attacker /\ p.hp > 0
        /\ p.state = "alive" /\ p.deathflag = pl.deathflag /\ p.hp # 0
    BY <1>1, <1>2, <2>1 DEF LifeRecords
  <2>4. PlayerIs(p, calls, {"res"}) /\ blamed' = blamed /\ misblamed' = misblamed
    BY <1>5, <2>2 DEF pcl_resurrect
  <2>5. {"res"} \subseteq LifeMarks /\ "res" \in {"res"}
    BY DEF LifeMarks
  <2>. HIDE DEF p
  <2>6. LifeIs(p, calls, irregular \cup {"res"}, blamed)
    BY <1>1, <2>3, <2>5, PlayerKeeps DEF Fallen
  <2>. QED  BY <2>4, <2>6, WithoutCalls
<1>6. CASE pcl_die
  <2>. DEFINE marks == {"renamed"} \cup InACall
  <2>1. marks \subseteq LifeMarks /\ InACall \subseteq marks /\ "renamed" \in marks
    BY DEF LifeMarks, InACall
  <2>2. diescript(pl, marks)
    BY <1>6 DEF pcl_die
  <2>. HIDE DEF marks
  <2>. QED  BY <2>1, <2>2, DiescriptKeeps
<1>7. ASSUME NEW by \in Ids, NEW damage \in {1, BaseHp}, hit(by, damage)
      PROVE  LifeInv'
  <2>. DEFINE name == IF by = Nobody THEN pl.attacker ELSE by
              p == [pl EXCEPT !.attacker = name]
  <2>1. name \in Ids /\ pcl_removehealth(by) = p
    BY <1>1 DEF pcl_removehealth, LifeRecords
  <2>. HIDE DEF name
  <2>2. CASE pl.state # "dead"
    <3>1. clif_send_pc_healthscript([pl EXCEPT !.attacker = name], damage)
      BY <1>7, <2>1, <2>2 DEF hit
    <3>2. damage \in Int /\ damage >= -1
      BY <1>1
    <3>. QED  BY <2>1, <3>1, <3>2, BlowKeeps
  <2>3. CASE pl.state = "dead"
    <3>1. PlayerIs(p, calls, Strays) /\ blamed' = blamed /\ misblamed' = misblamed
      BY <1>7, <2>1, <2>3 DEF hit
    <3>2. LifeIs(p, calls, irregular \cup Strays, blamed)
      BY <2>1, NamedKeeps
    <3>. QED  BY <3>1, <3>2, WithoutCalls
  <2>. QED  BY <2>2, <2>3
<1>8. ASSUME NEW by \in Ids, NEW damage \in {-1, 0, 1}, pcl_sendhealth(by, damage)
      PROVE  LifeInv'
  <2>1. damage \in Int /\ damage >= -1
    OBVIOUS
  <2>2. clif_send_pc_healthscript([pl EXCEPT !.attacker = by], damage)
    BY <1>8 DEF pcl_sendhealth
  <2>. QED  BY <2>1, <2>2, BlowKeeps
<1>. QED  BY <1>3, <1>4, <1>5, <1>6, <1>7, <1>8

\* What the player and the main loop do.
LEMMA PlayerActs ==
  ASSUME LifeInv,
         \/ \E target \in Foes \cup {Nobody} : clif_parsemagic(target)
         \/ pc_equipscript \/ relogs
         \/ \E rate \in {-1, 1} : pc_regen(rate)
  PROVE  LifeInv'
<1>1. /\ LifeIs(pl, calls, irregular, blamed) /\ pl \in LifeRecords /\ Self \in Ids
  BY DEF LifeInv, LifeIs, Ids
<1>2. pl.hp \in Nat
  BY <1>1, HpsAre DEF LifeRecords
<1>3. ASSUME NEW target \in Foes \cup {Nobody}, clif_parsemagic(target)
      PROVE  LifeInv'
  <2>1. target \in Ids
    BY DEF Ids
  <2>2. /\ PlayerIs([pl EXCEPT !.attacker = target], calls, Strays)
        /\ blamed' = blamed /\ misblamed' = misblamed
    BY <1>3 DEF clif_parsemagic
  <2>. QED  BY <2>1, <2>2, NamedKeeps, WithoutCalls
<1>4. CASE pc_equipscript
  <2>. DEFINE q == [pl EXCEPT !.attacker = Self]
  <2>1. PICK max \in {BaseHp, BaseHp + 1} : PlayerIs(pc_calcstat(q, max), calls, Strays)
    BY <1>4 DEF pc_equipscript
  <2>2. /\ q \in LifeRecords /\ q.attacker = Self /\ q.hp = pl.hp
        /\ q.state = pl.state /\ q.deathflag = pl.deathflag
    BY <1>1 DEF LifeRecords
  <2>. DEFINE p == pc_calcstat(q, max)
  <2>. HIDE DEF q
  <2>3. /\ p \in LifeRecords /\ p.max_hp = max /\ p.state = pl.state
        /\ p.deathflag = pl.deathflag /\ (p.hp = 0 <=> pl.hp = 0)
        /\ (p.hp > 0 <=> pl.hp > 0)
        /\ ~(p.hp > p.max_hp)
    BY <2>2, CalcstatIs
  <2>. HIDE DEF p
  <2>4. /\ Strays \subseteq LifeMarks
        /\ "renamed" \in Strays \/ (calls = <<>> /\ p.hp > 0)
    BY <1>2, <2>3 DEF Strays, LifeMarks
  <2>5. LifeIs(p, calls, irregular \cup Strays, blamed)
    BY <1>1, <2>3, <2>4, PlayerKeeps DEF Fallen
  <2>6. blamed' = blamed /\ misblamed' = misblamed
    BY <1>4 DEF pc_equipscript
  <2>. QED  BY <2>1, <2>5, <2>6, WithoutCalls DEF p
<1>5. CASE relogs
  <2>1. PICK max \in {BaseHp, BaseHp + 1}, by \in Foes \cup {Self, Nobody} :
          PlayerIs(pc_calcstat([pl EXCEPT !.deathflag = FALSE, !.attacker = by], max),
                   calls, {"stays"})
    BY <1>5 DEF relogs
  <2>. DEFINE o == [pl EXCEPT !.deathflag = FALSE]
              q == [o EXCEPT !.attacker = by]
              p == pc_calcstat(q, max)
  <2>2. /\ q = [pl EXCEPT !.deathflag = FALSE, !.attacker = by] /\ by \in Ids
    BY <1>1 DEF LifeRecords, Ids
  <2>3. /\ o \in LifeRecords /\ o.hp = pl.hp
        /\ o.state = pl.state /\ o.deathflag = FALSE
    BY <1>1 DEF LifeRecords
  <2>. HIDE DEF o
  <2>4. /\ q \in LifeRecords /\ q.hp = pl.hp
        /\ q.state = pl.state /\ q.deathflag = FALSE
    BY <2>2, <2>3 DEF LifeRecords
  <2>. HIDE DEF q
  <2>5. /\ p \in LifeRecords /\ p.state = pl.state /\ p.max_hp = max
        /\ p.deathflag = FALSE /\ (p.hp = 0 <=> pl.hp = 0)
        /\ (p.hp > 0 <=> pl.hp > 0)
        /\ ~(p.hp > p.max_hp)
    BY <2>4, CalcstatIs
  <2>6. /\ PlayerIs(p, calls, {"stays"}) /\ blamed' = blamed /\ misblamed' = misblamed
        /\ calls = <<>>
    BY <1>5, <2>1, <2>2 DEF relogs
  <2>7. {"stays"} \subseteq LifeMarks /\ "stays" \in {"stays"}
    BY DEF LifeMarks
  <2>. HIDE DEF p
  <2>8. LifeIs(p, calls, irregular \cup {"stays"}, blamed)
    BY <1>1, <2>5, <2>6, <2>7, PlayerKeeps
  <2>. QED  BY <2>6, <2>8, WithoutCalls
<1>6. ASSUME NEW rate \in {-1, 1}, pc_regen(rate)
      PROVE  LifeInv'
  <2>. DEFINE hp == Min({pl.hp + rate, pl.max_hp})
              p == [pl EXCEPT !.hp = hp]
              marks == IF hp = 0 THEN {"stays", "renamed"} ELSE {}
  <2>1. /\ pl.state = "alive" /\ pl.hp > 0 /\ PlayerIs(p, calls, marks)
        /\ blamed' = blamed /\ misblamed' = misblamed
    BY <1>6 DEF pc_regen
  <2>2. /\ BaseHp \in Nat \ {0} /\ pl.max_hp \in {BaseHp, BaseHp + 1}
    BY <1>1, PlayerLifeAssumption DEF LifeRecords
  <2>3. /\ pl.max_hp \in Nat /\ pl.max_hp <= BaseHp + 1 /\ BaseHp \in Nat
        /\ pl.hp + rate \in Int /\ pl.max_hp \in Int
    BY <1>2, <2>2
  <2>4. hp = IF pl.hp + rate <= pl.max_hp THEN pl.hp + rate ELSE pl.max_hp
    BY <2>3, OfTwo
  <2>5. hp \in Nat /\ hp <= pl.max_hp /\ hp <= BaseHp + 1
    BY <1>2, <2>1, <2>3, <2>4
  <2>6. hp \in Hps
    BY <2>5, HpsAre
  <2>7. /\ marks \subseteq LifeMarks
        /\ hp = 0 => "stays" \in marks /\ "renamed" \in marks
    BY DEF LifeMarks
  <2>. HIDE DEF hp, marks
  <2>8. /\ p \in LifeRecords /\ p.hp = hp /\ p.state = "alive" /\ p.max_hp = pl.max_hp
        /\ p.deathflag = pl.deathflag /\ p.attacker = pl.attacker
    BY <1>1, <2>1, <2>6 DEF LifeRecords
  <2>9. ~(p.hp > p.max_hp)
    BY <2>3, <2>5, <2>8
  <2>. HIDE DEF p
  <2>10. LifeIs(p, calls, irregular \cup marks, blamed)
    BY <1>1, <2>7, <2>8, <2>9, PlayerKeeps DEF Fallen
  <2>. QED  BY <2>1, <2>10, WithoutCalls
<1>. QED  BY <1>3, <1>4, <1>5, <1>6

----------------------------------------------------------------------------

\* A player begins alive, with its vita.
LEMMA PlayerInitHolds == PlayerInit => LifeInv
<1>. SUFFICES ASSUME PlayerInit PROVE LifeInv
  OBVIOUS
<1>1. BaseHp \in Nat \ {0} /\ BaseHp \in Hps /\ Nobody \in Ids
  BY HpsAre, PlayerLifeAssumption DEF Ids
<1>2. /\ pl \in LifeRecords /\ pl.hp = BaseHp /\ pl.max_hp = BaseHp
      /\ pl.state = "alive" /\ pl.deathflag = FALSE
  BY <1>1 DEF PlayerInit, LifeRecords
<1>3. calls = <<>> /\ irregular = {} /\ misblamed = FALSE /\ blamed = Nobody
  BY DEF PlayerInit
<1>4. calls \in Seq(CallRecords) /\ Len(calls) = 0
  BY <1>3
<1>. QED  BY <1>1, <1>2, <1>3, <1>4
          DEF LifeInv, LifeIs, TwoAreNested, FallIsSeen, DeadIsTouched, RoomIsKept,
              BlowsLeaveRoom, KillerIsAttacker, FlaggedByBlow, DyingHasNoFlag, Fallen

\* Every step keeps the invariant.
LEMMA PlayerStepHolds == LifeInv /\ [PlayerNext]_playerVars => LifeInv'
<1>. SUFFICES ASSUME LifeInv, [PlayerNext]_playerVars PROVE LifeInv'
  OBVIOUS
<1>1. CASE UNCHANGED playerVars
  BY <1>1 DEF playerVars, LifeInv
<1>2. CASE PlayerNext
  BY <1>2, CallsKeep, LifeTimerKeeps, LifeScriptsKeep, PlayerActs DEF PlayerNext
<1>. QED  BY <1>1, <1>2

\* The invariant implies what the run checks.
LEMMA LifeInvIsSound == LifeInv => PlayerTypeOK /\ PlayerLifeSound
<1>. SUFFICES ASSUME LifeInv PROVE PlayerTypeOK /\ PlayerLifeSound
  OBVIOUS
<1>1. PlayerTypeOK
  BY DEF LifeInv, LifeIs, PlayerTypeOK, LifeRecords, CallRecords, StagesOfCalls, LifeMarks, Hps
<1>2. calls = <<>> => ~CallAt(calls, {"before", "death"})
  BY DEF CallAt
<1>3. FallenWillDie /\ VitaInBounds /\ DeathIsOfTheBlow
  BY <1>2 DEF LifeInv, LifeIs, FallIsSeen, DeadIsTouched, RoomIsKept, FallenWillDie, VitaInBounds, DeathIsOfTheBlow
<1>. QED  BY <1>1, <1>3 DEF PlayerLifeSound

\* A player without vita dies, once and by the right hand, but for what the
\* property names: for any vita, foes and depth of calls.
THEOREM SpecPlayerLifeSound == PlayerSpec => []PlayerLifeSound
  BY PlayerInitHolds, PlayerStepHolds, LifeInvIsSound, PTL DEF PlayerSpec

----------------------------------------------------------------------------
(* The parts side by side.                                                 *)

\* The invariants of the parts; a part that is not chosen stays as it began.
WorldInv ==
  /\ MobInv /\ DialogInv /\ SightInv /\ FiguresInv /\ LooksInv /\ LifeInv
  /\ part \in {"mob", "dialog", "sight", "figures", "looks", "life"}

\* Every part begins well.
LEMMA WorldInitHolds == WorldPartsInit => WorldInv
<1>1. WorldPartsInit =>
        /\ MobInit /\ DialogInit /\ SightInit /\ FiguresInit /\ LooksInit /\ PlayerInit
        /\ part \in {"mob", "dialog", "sight", "figures", "looks", "life"}
  BY DEF WorldPartsInit
<1>. QED  BY <1>1, MobInitHolds, DialogInitHolds, SightInitHolds, FiguresInitHolds,
          LooksInitHolds, PlayerInitHolds DEF WorldInv

\* A step is one of the chosen part, and leaves the others as they are.
LEMMA WorldStepHolds == WorldInv /\ [WorldPartsNext]_worldPartsVars => WorldInv'
<1>. SUFFICES ASSUME WorldInv, [WorldPartsNext]_worldPartsVars PROVE WorldInv'
  OBVIOUS
<1>1. /\ [MobNext]_mobVars /\ [DialogNext]_dialogVars /\ [SightNext]_sightVars
      /\ [FiguresNext]_figuresVars /\ [LooksNext]_looksVars /\ [PlayerNext]_playerVars
      /\ part' = part
  BY DEF WorldPartsNext, worldPartsVars, MobStep, DialogStep, SightStep, FiguresStep,
         LooksStep, LifeStep
<1>. QED  BY <1>1, MobStepHolds, DialogStepHolds, SightStepHolds, FiguresStepHolds,
          LooksStepHolds, PlayerStepHolds DEF WorldInv

\* All that the run checks of the parts follows.
LEMMA WorldInvIsSound ==
  WorldInv => /\ WorldPartsTypeOK /\ LivesSound /\ ClientSound /\ ScreenIsTrue
<1>. SUFFICES ASSUME WorldInv
              PROVE  /\ WorldPartsTypeOK /\ LivesSound /\ ClientSound /\ ScreenIsTrue
  OBVIOUS
<1>1. /\ MobTypeOK /\ MobSound /\ DialogTypeOK /\ DialogSound
      /\ PlayerTypeOK /\ PlayerLifeSound
  BY MobInvIsSound, DialogInvIsSound, LifeInvIsSound DEF WorldInv
<1>2. /\ SightTypeOK /\ SeenIsKnown /\ FiguresTypeOK /\ DrawingIsTrue
      /\ LooksTypeOK /\ ScreenIsTrue
  BY DEF WorldInv, SightInv, FiguresInv, LooksInv
<1>3. WorldPartsTypeOK
  BY <1>1, <1>2 DEF WorldInv, WorldPartsTypeOK
<1>. QED  BY <1>1, <1>2, <1>3 DEF LivesSound, ClientSound

\* The parts keep to their types.
THEOREM SpecWorldPartsTypeOK == WorldPartsSpec => []WorldPartsTypeOK
  BY WorldInitHolds, WorldStepHolds, WorldInvIsSound, PTL DEF WorldPartsSpec

\* Mobs and players die once and by the right hand, however deep scripts call
\* each other, but for what the two properties name.
THEOREM SpecLivesSound == WorldPartsSpec => []LivesSound
  BY WorldInitHolds, WorldStepHolds, WorldInvIsSound, PTL DEF WorldPartsSpec

\* Answers reach who asked, mobs are known when they are near, and are drawn
\* where and as they are, but for what the three properties name.
THEOREM SpecClientSound == WorldPartsSpec => []ClientSound
  BY WorldInitHolds, WorldStepHolds, WorldInvIsSound, PTL DEF WorldPartsSpec
=============================================================================
