----------------------------- MODULE Durations -----------------------------
(***************************************************************************)
(* The timed spells of one player, status.dura_aether[]: each slot holds a *)
(* spell that acts on the player (duration), a wait before it may be cast  *)
(* again (aether), or both.  A timer takes a second from every slot        *)
(* (bl_duratimer) and runs the scripts of the spell; scripts cast and end  *)
(* spells (setDuration, setAether, flush...), also from inside the timer,  *)
(* while it is between two tests of a slot.                                *)
(*                                                                         *)
(* Times are whole ticks (setDuration raises less than one to one).        *)
(* Animations, the icons at the client, and which of its two signatures a  *)
(* script is called with are left out.  A script that flush or death runs  *)
(* is taken to change no slot; the others may do anything.                 *)
(***************************************************************************)
EXTENDS Integers, FiniteSetsExt

CONSTANTS
  Spells, NoSpell,   \* ids, and 0
  Casters, NoCaster, \* caster ids a script may give, and 0
  MaxTicks,          \* bound: longest time
  MAX_MAGIC_TIMERS

ASSUME DurationsAssumption ==
  /\ NoSpell \notin Spells /\ NoCaster \notin Casters
  /\ MaxTicks \in Nat /\ MAX_MAGIC_TIMERS \in Nat \ {0}

Timers == 1..MAX_MAGIC_TIMERS

VARIABLES
  dura_aether,   \* the slots
  tick,          \* where bl_duratimer is: slot x, spell mid, and stage
  owed,          \* history: spell of the slot that began and is not uncast yet
  inWhile,       \* history: a script ended a spell inside its own while_cast
  extra          \* history: the last step ran an uncast that was not owed

durationsVars == <<dura_aether, tick, owed, inWhile, extra>>

NoTime == [id |-> NoSpell, duration |-> 0, aether |-> 0, caster |-> NoCaster]
Idle == [stage |-> "idle", x |-> 1, mid |-> NoSpell]

DurationsInit ==
  /\ dura_aether = [x \in Timers |-> NoTime]
  /\ tick = Idle
  /\ owed = [x \in Timers |-> NoSpell]
  /\ inWhile = FALSE /\ extra = FALSE

\* Scripts run between events, in while_cast and uncast of bl_duratimer, and
\* in while_cast_250, four times a second.
ScriptRuns == tick.stage \in {"idle", "while", "uncast"}

\* The uncast script of the spell in slot x.
Uncast(x) ==
  /\ owed' = [owed EXCEPT ![x] = NoSpell]
  /\ extra' = (owed[x] = NoSpell)

\* The end of a duration; the slot stays when there is aether left.
EndDuration_Frees(s) ==
  [s EXCEPT !.duration = 0, !.caster = NoCaster, !.id = NoSpell]
EndDuration(s) ==
  [s EXCEPT !.duration = 0, !.caster = NoCaster,
            !.id = IF s.aether = 0 THEN NoSpell ELSE @]

EndAether(s) ==
  [s EXCEPT !.aether = 0, !.id = IF s.duration = 0 THEN NoSpell ELSE @]

\* inWhile' for an action that ends or frees these slots.
Ended(S) ==
  inWhile' = (inWhile \/ (tick.stage = "while" /\ tick.x \in S))

----------------------------------------------------------------------------
(* bl_duratimer.                                                           *)

BeginTick ==
  /\ tick.stage = "idle"
  /\ tick' = [Idle EXCEPT !.stage = "slot"]
  /\ UNCHANGED <<dura_aether, owed, inWhile>> /\ extra' = FALSE

Advance ==
  tick' = IF tick.x = MAX_MAGIC_TIMERS THEN Idle
          ELSE [stage |-> "slot", x |-> tick.x + 1, mid |-> NoSpell]

AetherTick(s) ==
  IF s.aether = 0 THEN s
  ELSE IF s.aether = 1 THEN EndAether(s)
  ELSE [s EXCEPT !.aether = @ - 1]

\* A slot with no duration: only its aether runs.
OnlyAether ==
  /\ tick.stage = "slot"
  /\ dura_aether[tick.x].id = NoSpell \/ dura_aether[tick.x].duration <= 0
  /\ dura_aether' =
       IF dura_aether[tick.x].id = NoSpell THEN dura_aether
       ELSE [dura_aether EXCEPT ![tick.x] = AetherTick(@)]
  /\ Advance
  /\ UNCHANGED <<owed, inWhile>> /\ extra' = FALSE

\* A second off the duration, then the script while_cast.
WhileCast ==
  /\ tick.stage = "slot"
  /\ dura_aether[tick.x].id # NoSpell /\ dura_aether[tick.x].duration > 0
  /\ dura_aether' = [dura_aether EXCEPT ![tick.x].duration = @ - 1]
  /\ tick' = [tick EXCEPT !.stage = "while", !.mid = dura_aether[tick.x].id]
  /\ UNCHANGED <<owed, inWhile>> /\ extra' = FALSE

\* After while_cast the duration is read again.  At its end: the slot, then
\* the script uncast of the spell that was there before while_cast.
Expire ==
  /\ tick.stage = "while"
  /\ dura_aether[tick.x].duration <= 0
  /\ dura_aether' = [dura_aether EXCEPT ![tick.x] = EndDuration(@)]
  /\ Uncast(tick.x)
  /\ tick' = [tick EXCEPT !.stage = "uncast"]
  /\ UNCHANGED inWhile

\* The aether of the slot, whatever is in it by now.
ThenAether ==
  /\ \/ tick.stage = "uncast"
     \/ tick.stage = "while" /\ dura_aether[tick.x].duration > 0
  /\ dura_aether' = [dura_aether EXCEPT ![tick.x] = AetherTick(@)]
  /\ Advance
  /\ UNCHANGED <<owed, inWhile>> /\ extra' = FALSE

----------------------------------------------------------------------------
(* What scripts do.                                                        *)

\* pcl_setduration.  Each slot in turn is tried for four cases; the first slot
\* one of them fits decides, and there may be none.
pcl_setduration(id, time, caster, recast) ==
  LET s == dura_aether
      Mine(x) == s[x].id = id /\ s[x].caster = caster
      alreadycast == \E x \in Timers : Mine(x) /\ s[x].duration > 0
      Ends(x) == Mine(x) /\ time = 0 /\ alreadycast
      Resumes(x) == Mine(x) /\ s[x].aether > 0 /\ s[x].duration <= 0
      Renews(x) == Mine(x) /\ (s[x].duration > time \/ recast) /\ alreadycast
      Takes(x) == s[x].id = NoSpell /\ s[x].duration = 0 /\ time # 0
                    /\ ~alreadycast
      fits == {x \in Timers : Ends(x) \/ Resumes(x) \/ Renews(x) \/ Takes(x)}
      x == Min(fits)
  IN  /\ ScriptRuns
      /\ fits # {}
      /\ \/ /\ Ends(x)
            /\ dura_aether' = [s EXCEPT ![x] = EndDuration(@)]
            /\ Uncast(x)
            /\ Ended({x})
         \/ /\ ~Ends(x)
            /\ dura_aether' = [s EXCEPT ![x].id = id, ![x].duration = time,
                                        ![x].caster = caster]
            /\ owed' = IF time = 0 THEN owed ELSE [owed EXCEPT ![x] = id]
            /\ UNCHANGED inWhile /\ extra' = FALSE
      /\ UNCHANGED tick

\* pcl_setaether.  alreadycast starts out with whatever was on the stack.
pcl_setaether(id, time) ==
  \E garbage \in BOOLEAN :
    LET s == dura_aether
        alreadycast == garbage \/ \E x \in Timers : s[x].id = id
        Ends(x) == s[x].id = id /\ time = 0
        Changes(x) == s[x].id = id /\ (s[x].aether > time \/ s[x].duration > 0)
        Takes(x) == s[x].id = NoSpell /\ s[x].aether = 0 /\ time # 0
                      /\ ~alreadycast
        fits == {x \in Timers : Ends(x) \/ Changes(x) \/ Takes(x)}
        x == Min(fits)
    IN  /\ ScriptRuns
        /\ fits # {}
        /\ dura_aether' =
             [s EXCEPT ![x] = IF time = 0 THEN EndAether(@)
                              ELSE [@ EXCEPT !.id = id, !.aether = time]]
        /\ Ended(IF time = 0 THEN {x} ELSE {})
        /\ UNCHANGED <<tick, owed>> /\ extra' = FALSE

\* flushDuration, flushDurationNoUncast: end the spells of a range that are
\* weak enough.  The script uncast runs for every slot, acting or not.
Flush(ids) ==
  LET hit == {x \in Timers : dura_aether[x].id \in ids}
  IN  /\ ScriptRuns
      /\ dura_aether' = [x \in Timers |-> IF x \in hit
                                          THEN EndDuration(dura_aether[x])
                                          ELSE dura_aether[x]]
      /\ owed' = [x \in Timers |-> IF x \in hit THEN NoSpell ELSE owed[x]]
      /\ Ended(hit)
      /\ UNCHANGED tick /\ extra' = FALSE

\* clif_ondeath_uncast.
clif_ondeath_uncast == Flush(Spells)

\* flushAether.  The flag of one match is not reset for the slots after it.
pcl_flushaether(ids) ==
  LET hit == {x \in Timers : \E y \in 1..x : dura_aether[y].id \in ids}
  IN  /\ ScriptRuns
      /\ dura_aether' = [x \in Timers |-> IF x \in hit
                                          THEN EndAether(dura_aether[x])
                                          ELSE dura_aether[x]]
      /\ Ended(hit)
      /\ UNCHANGED <<tick, owed>> /\ extra' = FALSE

\* Saved at logout and loaded at login: the caster is not.
Relog ==
  /\ tick.stage = "idle"
  /\ dura_aether' = [x \in Timers |->
                       [dura_aether[x] EXCEPT !.caster = NoCaster]]
  /\ UNCHANGED <<tick, owed, inWhile>> /\ extra' = FALSE

DurationsNext ==
  \/ BeginTick \/ OnlyAether \/ WhileCast \/ Expire \/ ThenAether
  \/ \E id \in Spells, time \in 0..MaxTicks, recast \in BOOLEAN,
        caster \in Casters \cup {NoCaster} :
       pcl_setduration(id, time, caster, recast)
  \/ \E id \in Spells, time \in 0..MaxTicks : pcl_setaether(id, time)
  \/ \E ids \in (SUBSET Spells) \ {{}} : Flush(ids) \/ pcl_flushaether(ids)
  \/ clif_ondeath_uncast
  \/ Relog

DurationsSpec == DurationsInit /\ [][DurationsNext]_durationsVars

----------------------------------------------------------------------------
DurationsTypeOK ==
  /\ dura_aether \in [Timers -> [id : Spells \cup {NoSpell},
                                 duration : 0..MaxTicks,
                                 aether : 0..MaxTicks,
                                 caster : Casters \cup {NoCaster}]]
  /\ tick \in [stage : {"idle", "slot", "while", "uncast"}, x : Timers,
               mid : Spells \cup {NoSpell}]
  /\ owed \in [Timers -> Spells \cup {NoSpell}]
  /\ inWhile \in BOOLEAN /\ extra \in BOOLEAN

\* A slot is free exactly when it holds no time, so none is leaked and none is
\* taken early, and a free slot names no caster; but for the slot whose
\* while_cast is running, which the timer is about to read again.
FreeHoldsNoTime ==
  \A x \in Timers :
    LET s == dura_aether[x]
    IN  \/ tick.stage = "while" /\ tick.x = x
        \/ /\ s.id = NoSpell <=> (s.duration = 0 /\ s.aether = 0)
           /\ s.duration = 0 => s.caster = NoCaster

\* A spell that acts on the player is uncast once: it is owed its uncast as
\* long as it acts, whatever scripts do to it and to the slots around it, and
\* the timer and setDuration run none that is not owed.  There are two
\* exceptions.  When a script ends the spell inside its own while_cast, the
\* timer reads the slot again and uncasts a second time, or not at all.  When
\* the spell acts from one slot and waits in another, setDuration may take the
\* one that waits for the one that acts.
UncastOnce ==
  inWhile \/
    /\ extra => \E x, y \in Timers :
                  /\ x # y /\ dura_aether[x].id = dura_aether[y].id
                  /\ dura_aether[x].id # NoSpell
    /\ \A x \in Timers :
         LET s == dura_aether[x]
         IN  /\ s.duration > 0 => owed[x] = s.id
             /\ owed[x] # NoSpell => s.duration > 0
                                      \/ (tick.stage = "while" /\ tick.x = x)

\* Slots and the spells in them agree at every stage of the timer.
SlotsSound == FreeHoldsNoTime /\ UncastOnce
=============================================================================
