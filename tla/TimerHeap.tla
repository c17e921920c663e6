----------------------------- MODULE TimerHeap -----------------------------
(***************************************************************************)
(* common/timer.c: the timers of one server process.  Every server's main  *)
(* loop calls timer_do, then reads, writes and parses packets; timers are  *)
(* inserted and removed by packet handlers between two calls of timer_do   *)
(* and by the callbacks that timer_do runs.                                *)
(*                                                                         *)
(* timer_do is one step per turn of its loop, because a callback runs in   *)
(* the middle of it and may change every structure; the clock may move at  *)
(* any time, also inside a callback.  The clock and all ticks are unsigned *)
(* and wrap (% Wrap), and ticks are compared by a signed difference.       *)
(*                                                                         *)
(* An owner is the object of the program that has one timer: a player's    *)
(* regentimer, the sweep timer of an item on the floor.  It holds the id   *)
(* timer_insert returned until it removes the timer or its callback asks   *)
(* for that by returning nonzero.                                          *)
(***************************************************************************)
EXTENDS Integers, Sequences

CONSTANTS
  Owners,    \* those who have timers
  Interval,  \* the interval each of them asks for (and its first delay)
  Null,      \* no function, no id, no call of timer_do
  Half,      \* half of all ticks (2^31 in the code)
  LateMax,   \* 1000 ms: a timer later than this skips the turns it missed
  MaxLag,    \* bound: how late timer_do may be
  MaxIds     \* bound: ids in timer_data

Wrap == 2 * Half
Tick == 0 .. Wrap - 1
Ids  == 0 .. MaxIds - 1

ASSUME TimerHeapAssumption ==
  /\ Half \in Nat /\ LateMax \in Nat \ {0} /\ MaxLag \in Nat /\ MaxIds \in Nat
  /\ Interval \in [Owners -> Nat \ {0}]
  /\ MaxLag + LateMax < Half
  /\ \A o \in Owners : Interval[o] + MaxLag + LateMax <= Half
  /\ Null \notin Owners /\ Null \notin Ids /\ Null \notin Tick

VARIABLES
  now,      \* gettick()
  data,     \* timer_data[]
  num,      \* timer_data_num
  heap,     \* timer_heap[0 .. timer_heap_num - 1], the next to expire last
  free,     \* free_timer_list[0 .. free_timer_list_pos - 1]
  pass,     \* the tick timer_do was called with, or Null outside timer_do
  running,  \* the timer whose callback runs, or Null
  held      \* the id each owner holds, or Null

vars == <<now, data, num, heap, free, pass, running, held>>

\* marked is the bit TIMER_REMOVE_HEAP.  The rest of type is TIMER_INTERVAL
\* for a timer with a function and tells nothing more, and interval is that
\* of the owner.  The tick of an id that is not armed is never read; it is 0.
TimerData == [func: Owners \cup {Null}, marked: BOOLEAN, tick: Tick]

TypeOK ==
  /\ now \in Tick
  /\ data \in [Ids -> TimerData]
  /\ num \in 0 .. MaxIds
  /\ heap \in Seq(Ids)
  /\ free \in Seq(Ids)
  /\ pass \in Tick \cup {Null}
  /\ running \in Ids \cup {Null}
  /\ held \in [Owners -> Ids \cup {Null}]

Init ==
  /\ now \in Tick
  /\ data = [id \in Ids |-> [func |-> Null, marked |-> FALSE, tick |-> 0]]
  /\ num = 0
  /\ heap = <<>>
  /\ free = <<>>
  /\ pass = Null
  /\ running = Null
  /\ held = [o \in Owners |-> Null]

----------------------------------------------------------------------------
(* Ticks and the ordered array.                                            *)

\* Unsigned addition.
Add_NoWrap(a, b) == a + b
Add(a, b) == (a + b) % Wrap

\* DIFF_TICK: the difference as a signed number.
DIFF_TICK_Unsigned(a, b) == a - b
DIFF_TICK(a, b) ==
  LET d == (a - b) % Wrap IN IF d < Half THEN d ELSE d - Wrap

\* HEAP_SEARCH: the first place whose timer does not expire after target, in
\* an array d whose timers expire later the further to the front they are.
HEAP_SEARCH(target, d, from, to) ==
  LET search[r \in Nat \X Nat] ==
        LET pos == r[1]
            max == r[2]
            pivot == (pos + max) \div 2
        IN  IF pos >= max THEN pos
            ELSE IF DIFF_TICK(target, d[heap[pivot + 1]].tick) < 0
            THEN search[<<pivot + 1, max>>]
            ELSE search[<<pos, pivot>>]
  IN search[<<from, to>>]

\* The array after id, whose data are in d, was put in its place in h.
push_timer_heap_Last(id, d, h) == Append(h, id)
push_timer_heap(id, d, h) ==
  IF h = <<>> \/ DIFF_TICK(d[id].tick, d[h[Len(h)]].tick) < 0
  THEN Append(h, id)
  ELSE LET pos == HEAP_SEARCH(d[id].tick, d, 0, Len(h) - 1) IN
       SubSeq(h, 1, pos) \o <<id>> \o SubSeq(h, pos + 1, Len(h))

----------------------------------------------------------------------------
(* The interface.                                                          *)

\* A free id: the one freed last, or the next that was never used.
acquire_timer(id) ==
  IF free # <<>>
  THEN /\ id = free[Len(free)]
       /\ free' = SubSeq(free, 1, Len(free) - 1)
       /\ UNCHANGED num
  ELSE id = num /\ num' = num + 1 /\ UNCHANGED free

\* timer_remove: no function any more, and the mark of a running timer lost.
removed(id) == [data EXCEPT ![id].func = Null, ![id].marked = FALSE]

\* Packets are handled and callbacks run one at a time.
ProgramRuns == pass = Null \/ running # Null

timer_insert(o) ==
  /\ ProgramRuns
  /\ held[o] = Null
  /\ \E id \in Ids :
       /\ acquire_timer(id)
       /\ data' = [data EXCEPT ![id] =
                     [func |-> o, marked |-> FALSE, tick |-> Add(now, Interval[o])]]
       /\ heap' = push_timer_heap(id, data', heap)
       /\ held' = [held EXCEPT ![o] = id]
  /\ UNCHANGED <<now, pass, running>>

\* The entry stays in the heap until it expires.
timer_remove(o) ==
  /\ ProgramRuns
  /\ held[o] # Null
  /\ data' = removed(held[o])
  /\ held' = [held EXCEPT ![o] = Null]
  /\ UNCHANGED <<now, num, heap, free, pass, running>>

----------------------------------------------------------------------------
(* timer_do.                                                               *)

\* The timer that expires next, and whether it is due.
Next_id == heap[Len(heap)]
Due == heap # <<>> /\ DIFF_TICK(data[Next_id].tick, pass) <= 0

timer_do_begin ==
  /\ pass = Null
  /\ pass' = now
  /\ UNCHANGED <<now, data, num, heap, free, running, held>>

\* A due timer that has a function is marked and its function called.
timer_do_call ==
  /\ pass # Null /\ running = Null
  /\ Due
  /\ data[Next_id].func # Null
  /\ heap' = SubSeq(heap, 1, Len(heap) - 1)
  /\ data' = [data EXCEPT ![Next_id].marked = TRUE]
  /\ running' = Next_id
  /\ UNCHANGED <<now, num, free, pass, held>>

\* A due timer that was removed is freed.
timer_do_free ==
  /\ pass # Null /\ running = Null
  /\ Due
  /\ data[Next_id].func = Null
  /\ heap' = SubSeq(heap, 1, Len(heap) - 1)
  /\ data' = [data EXCEPT ![Next_id].tick = 0]
  /\ free' = Append(free, Next_id)
  /\ UNCHANGED <<now, num, pass, running, held>>

\* The next turn of an interval timer.
next_turn_Same(t) == t.tick
next_turn(t) ==
  IF DIFF_TICK(t.tick, pass) < -LateMax
  THEN Add(pass, Interval[t.func]) ELSE Add(t.tick, Interval[t.func])

\* The callback returned zero.  A timer that is still marked is armed again;
\* one that removed itself is not, and its id is not freed either.
timer_do_again ==
  /\ running # Null
  /\ running' = Null
  /\ IF data[running].marked
     THEN /\ data' = [data EXCEPT ![running].marked = FALSE,
                                  ![running].tick = next_turn(data[running])]
          /\ heap' = push_timer_heap(running, data', heap)
     ELSE data' = [data EXCEPT ![running].tick = 0] /\ UNCHANGED heap
  /\ UNCHANGED <<now, num, free, pass, held>>

\* The callback returned nonzero: timer_remove takes the mark away, so that
\* nothing more is done with the timer.
timer_do_drop ==
  /\ running # Null
  /\ running' = Null
  /\ data' = [removed(running) EXCEPT ![running].tick = 0]
  /\ held' = [o \in Owners |-> IF held[o] = running THEN Null ELSE held[o]]
  /\ UNCHANGED <<now, num, heap, free, pass>>

timer_do_end ==
  /\ pass # Null /\ running = Null
  /\ ~Due
  /\ pass' = Null
  /\ UNCHANGED <<now, data, num, heap, free, running, held>>

\* Time passes; timer_do is never more than MaxLag late.
gettick ==
  /\ now' = Add(now, 1)
  /\ \A i \in DOMAIN heap : DIFF_TICK(data[heap[i]].tick, now) > -MaxLag
  /\ pass # Null => DIFF_TICK(pass, now) > -MaxLag
  /\ UNCHANGED <<data, num, heap, free, pass, running, held>>

timer_do == \/ timer_do_begin \/ timer_do_call \/ timer_do_free
            \/ timer_do_again \/ timer_do_drop \/ timer_do_end

Next == \/ timer_do \/ gettick
        \/ \E o \in Owners : timer_insert(o) \/ timer_remove(o)

Spec == Init /\ [][Next]_vars

\* The main loop calls timer_do for ever, callbacks return, time passes.
FairSpec == Spec /\ WF_vars(timer_do) /\ WF_vars(gettick)

----------------------------------------------------------------------------
(* Properties.                                                             *)

\* a is not before b, on the circle of ticks.
NotBefore(a, b) == (a - b) % Wrap < Half

\* The array is in order of expiry, the earliest last: timer_do looks at the
\* last entry only, HEAP_SEARCH halves the array, and the clock wraps.
HeapSorted ==
  \A i, j \in DOMAIN heap :
    i < j => NotBefore(data[heap[i]].tick, data[heap[j]].tick)

\* An id is in one place at most: armed, on the free list, or running.  A
\* second copy would let two timers share one entry of timer_data.
IdsDisjoint ==
  LET all == heap \o free \o (IF running = Null THEN <<>> ELSE <<running>>)
  IN \A i, j \in DOMAIN all : all[i] = all[j] => i = j

\* An id that an owner still holds is that owner's timer and nobody else's,
\* so timer_remove never silences a stranger (as long as an owner forgets
\* its id when it removes the timer or its callback returns nonzero).
HandleIsOwn ==
  \A o \in Owners : held[o] # Null => data[held[o]].func = o

\* The array keeps its order and its ids are nobody else's, whatever is armed
\* and removed inside a callback, and an owner's id stays its own.
HeapSound == HeapSorted /\ IdsDisjoint /\ HandleIsOwn

\* A callback starts at its time or later, and nothing that stays in the
\* array was due before it.
CallbackOnTime ==
  [][running' # Null /\ running' # running =>
       /\ NotBefore(now, data[running'].tick)
       /\ \A i \in DOMAIN heap' : NotBefore(data[heap'[i]].tick, data[running'].tick)]_vars

\* When timer_do returns, every timer that was due when it was called has
\* been served.
NothingDueLeft ==
  [][pass # Null /\ pass' = Null =>
       \A i \in DOMAIN heap : ~NotBefore(pass, data[heap[i]].tick)]_vars

\* No timer runs early, none runs before one that was due earlier, and none
\* that was due is passed over, while callbacks change the array and the
\* clock wraps.
ServedOnTime == CallbackOnTime /\ NothingDueLeft

\* A timer that its owner keeps runs again and again, whatever other timers
\* come and go.
HeldTimerRuns ==
  \A o \in Owners :
    (held[o] # Null) ~> (held[o] = Null \/ running = held[o])

\* The comment of timer_remove: it marks a timer for immediate deletion once
\* it expires.  So a removed timer is in the heap, to expire, or it is free.
RemovedIsDeleted ==
  \A id \in Ids :
    id < num /\ data[id].func = Null /\ running # id =>
      \E i \in DOMAIN (heap \o free) : (heap \o free)[i] = id
=============================================================================
