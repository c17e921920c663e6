----------------------------- MODULE BlockGrid -----------------------------
(***************************************************************************)
(* Where the objects of a map are: block_list elements chained per block   *)
(* of cells, mobs apart from the rest (map_addblock, map_delblock,         *)
(* map_moveblock), their ids (id_db), and the loops that call a function   *)
(* for every object of an area.  A loop first writes what it finds into    *)
(* one global array, bl_list, then calls; a call moves, adds and frees     *)
(* objects, and may start a loop of its own that writes the same array.    *)
(*                                                                         *)
(* The map is one row of cells: y is treated as x is, and CORNER, an area  *)
(* made of rectangles around AREA, is left out, as are traps.              *)
(***************************************************************************)
EXTENDS Integers, Sequences, FiniteSetsExt, SequencesExt, Windows

CONSTANTS
  Pcs, Mobs, Things,   \* objects: players, mobs, and npcs or floor items
  Null, bl_head,         \* no object, and &bl_head
  XS,                  \* cells of the map
  BlockSize,           \* BLOCK_SIZE
  MaxDepth,            \* bound: loops in one another
  MaxChanges           \* bound: what the calls of a loop and the loops in it
                       \* change

Objects == Pcs \cup Mobs \cup Things

ASSUME GridAssumption ==
  /\ XS \in Nat \ {0} /\ BlockSize \in Nat \ {0} /\ MaxDepth \in Nat
  /\ MaxChanges \in Nat
  /\ IsFiniteSet(Pcs) /\ Null \notin Objects /\ bl_head \notin Objects \cup {Null}

Cells == 0..XS - 1
Blocks == {x \div BlockSize : x \in Cells}
Chains == {"block", "block_mob"}
ChainOf(o) == IF o \in Mobs THEN "block_mob" ELSE "block"

VARIABLES
  bl,         \* cell and links of each object
  block,      \* map[].block and map[].block_mob: the first of each chain
  user,       \* map[].user
  freed,      \* memory given back; id_db finds the rest
  dead,       \* mobs in state MOB_DEAD, which stay on their chain
  bl_list,    \* the global array, as far as a loop under way may read it
  loops,      \* the loops under way, innermost last: entry, count, whether it
              \* is in a call, and (history) what it found, <<>> once spoiled
  stale,      \* history: a loop read an entry that had been freed
  changes     \* changes made by calls since the outermost loop began

gridVars == <<bl, block, user, freed, dead, bl_list, loops, stale, changes>>
chainVars == <<bl, block, user>>
loopVars == <<bl_list, loops, stale>>

OffMap == [x |-> 0, prev |-> Null, next |-> Null]

GridInit ==
  /\ bl = [o \in Objects |-> OffMap]
  /\ block = [c \in Chains |-> [pos \in Blocks |-> Null]]
  /\ user = 0
  /\ freed = Objects /\ dead = {}
  /\ bl_list = <<>> /\ loops = <<>>
  /\ stale = FALSE /\ changes = 0

----------------------------------------------------------------------------
(* The chains, as functions of [bl, block, user].                          *)

Grid == [bl |-> bl, block |-> block, user |-> user]
Becomes(g) == bl' = g.bl /\ block' = g.block /\ user' = g.user

PosOf(x) == x \div BlockSize
OnMap(g, o) == g.bl[o].prev # Null

\* Refused for an object already on a map, and outside the map.
map_addblock(g, o) ==
  LET pos == PosOf(g.bl[o].x)
      first == g.block[ChainOf(o)][pos]
  IN  IF OnMap(g, o) \/ g.bl[o].x \notin Cells THEN g
      ELSE [bl |-> [p \in Objects |->
                      IF p = o THEN [g.bl[o] EXCEPT !.next = first,
                                                    !.prev = bl_head]
                      ELSE IF p = first THEN [g.bl[p] EXCEPT !.prev = o]
                      ELSE g.bl[p]],
            block |-> [g.block EXCEPT ![ChainOf(o)][pos] = o],
            user |-> IF o \in Pcs THEN g.user + 1 ELSE g.user]

map_delblock(g, o) ==
  LET pos == PosOf(g.bl[o].x)
      link == g.bl[o]
  IN  IF ~OnMap(g, o) THEN g
      ELSE [bl |-> [p \in Objects |->
                      IF p = o THEN [link EXCEPT !.next = Null, !.prev = Null]
                      ELSE IF p = link.next
                           THEN [g.bl[p] EXCEPT !.prev = link.prev]
                      ELSE IF p = link.prev
                           THEN [g.bl[p] EXCEPT !.next = link.next]
                      ELSE g.bl[p]],
            block |-> IF link.prev = bl_head
                      THEN [g.block EXCEPT ![ChainOf(o)][pos] = link.next]
                      ELSE g.block,
            user |-> IF o \in Pcs THEN g.user - 1 ELSE g.user]

At(g, o, x) == [g EXCEPT !.bl[o].x = x]

map_moveblock_SetsFirst(g, o, x1) ==
  LET x == IF x1 >= XS THEN XS - 1 ELSE x1
  IN  IF OnMap(g, o) /\ PosOf(g.bl[o].x) # PosOf(x)
      THEN map_addblock(map_delblock(At(g, o, x), o), o)
      ELSE At(g, o, x)
map_moveblock(g, o, x1) ==
  LET x == IF x1 >= XS THEN XS - 1 ELSE x1
  IN  IF OnMap(g, o) /\ PosOf(g.bl[o].x) # PosOf(x)
      THEN map_addblock(At(map_delblock(g, o), o, x), o)
      ELSE At(g, o, x)

----------------------------------------------------------------------------
(* What events and the calls of a loop do.                                 *)

Running == loops # <<>> /\ ~Last(loops).call

\* Between the loops, or in a call of one.
Change ==
  /\ ~Running
  /\ changes' = IF loops = <<>> THEN 0 ELSE changes + 1
  /\ changes' <= MaxChanges
  /\ UNCHANGED loopVars

\* A player logs in, a mob is spawned dead, an item falls: memory is taken,
\* and the object gets a place and an id.
Enter(o, x) ==
  /\ Change /\ o \in freed
  /\ Becomes(map_addblock(At(Grid, o, x), o))
  /\ freed' = freed \ {o}
  /\ dead' = dead \cup ({o} \cap Mobs)

\* clif_handle_disconnect, map_delitem, bll_delete, a mob spawned once.
Leave(o) ==
  /\ Change /\ o \notin freed
  /\ Becomes(At(map_delblock(Grid, o), o, 0))
  /\ freed' = freed \cup {o}
  /\ dead' = dead \ {o}

\* A step, and any other move on the map.
Move(o, x) ==
  /\ Change /\ o \notin freed
  /\ Becomes(map_moveblock(Grid, o, x))
  /\ UNCHANGED <<freed, dead>>

\* pc_warp, mob_warp: pc_warp brings the place into the map, mob_warp does
\* not, and then the mob stays off it.
Warp(o, x) ==
  /\ Change /\ o \notin freed
  /\ o \in Mobs \/ x \in Cells
  /\ Becomes(map_addblock(At(map_delblock(Grid, o), o, x), o))
  /\ UNCHANGED <<freed, dead>>

Die(o) ==
  /\ Change /\ o \in Mobs \ (freed \cup dead)
  /\ dead' = dead \cup {o}
  /\ UNCHANGED <<chainVars, freed>>

\* mob_respawn: to its start, and then alive.
Respawn(o, x) ==
  /\ Change /\ o \in dead
  /\ Becomes(map_moveblock(Grid, o, x))
  /\ dead' = dead \ {o}
  /\ UNCHANGED freed

----------------------------------------------------------------------------
(* The loops.                                                              *)

\* One chain, from its first element.
ChainSeq(g, c, pos) ==
  LET from[o \in Objects \cup {Null}] ==
        IF o = Null THEN <<>> ELSE <<o>> \o from[g.bl[o].next]
  IN  from[g.block[c][pos]]

\* map_foreachinblockva, map_respawnmobs: what is in the blocks of x0..x1 and
\* between them, the mobs last.
Collected(x0, x1, types, withDead) ==
  LET range == SetToSortSeq(PosOf(x0)..PosOf(x1), <)
      chain(c) == FlattenSeq([i \in DOMAIN range |->
                                ChainSeq(Grid, c, range[i])])
      wanted(o) == /\ o \in types /\ bl[o].x \in x0..x1
                   /\ o \in Mobs => withDead \/ o \notin dead
  IN  SelectSeq(chain("block") \o chain("block_mob"), wanted)

\* The array keeps what it held beyond the entries a loop writes.
Overlay(new, old) == new \o SubSeq(old, Len(new) + 1, Len(old))

\* The loops around it have lost the entries they had not come to.
Spoil(n) ==
  [k \in DOMAIN loops |->
     IF n > loops[k].i THEN [loops[k] EXCEPT !.mine = <<>>] ELSE loops[k]]

BeginLoop(x0, x1, types, withDead) ==
  LET list == Collected(x0, x1, types, withDead)
  IN  /\ ~Running /\ Len(loops) < MaxDepth
      /\ list # <<>>
      /\ bl_list' = Overlay(list, bl_list)
      /\ loops' = Append(Spoil(Len(list)),
                         [count |-> Len(list), i |-> 1, call |-> FALSE,
                          mine |-> list])
      /\ UNCHANGED <<chainVars, freed, dead, stale, changes>>

\* map_foreachinarea for one type or for all, and the respawn of a whole map.
map_foreachinarea ==
  \E w \in {Window(area, x, XS) : area \in Areas, x \in Cells},
     types \in {Pcs, Mobs, Objects} : BeginLoop(w.x0, w.x1, types, FALSE)
map_respawnmobs == BeginLoop(0, XS - 1, Mobs, TRUE)

\* The entry is still on the map.  Memory that was freed says anything.
StillThere_Unchecked(o, seen) == TRUE
StillThere(o, seen) == IF o \in freed THEN seen ELSE OnMap(Grid, o)

\* The next entry is called when its prev is set.
NextEntry ==
  /\ Running
  /\ LET f == Last(loops)
         o == bl_list[f.i]
     IN  /\ f.i <= f.count
         /\ stale' = (stale \/ o \in freed)
         /\ \E seen \in BOOLEAN :
              loops' = Front(loops) \o
                         <<IF StillThere(o, seen) THEN [f EXCEPT !.call = TRUE]
                           ELSE [f EXCEPT !.i = @ + 1]>>
  /\ UNCHANGED <<chainVars, freed, dead, bl_list, changes>>

\* The call is over.
Return ==
  /\ loops # <<>> /\ Last(loops).call
  /\ loops' = Front(loops) \o
                <<[Last(loops) EXCEPT !.call = FALSE, !.i = @ + 1]>>
  /\ UNCHANGED <<chainVars, freed, dead, bl_list, stale, changes>>

\* The loop is over.  What the outermost leaves in the array is never read.
EndLoop ==
  /\ Running
  /\ Last(loops).i > Last(loops).count
  /\ loops' = Front(loops)
  /\ bl_list' = IF Len(loops) = 1 THEN <<>> ELSE bl_list
  /\ stale' = (stale /\ Len(loops) > 1)
  /\ changes' = IF Len(loops) = 1 THEN 0 ELSE changes
  /\ UNCHANGED <<chainVars, freed, dead>>

GridNext ==
  \/ \E o \in Objects : \/ \E x \in Cells : Enter(o, x) \/ Respawn(o, x)
                        \/ \E x \in 0..XS : Move(o, x) \/ Warp(o, x)
                        \/ Leave(o) \/ Die(o)
  \/ map_foreachinarea
  \/ map_respawnmobs
  \/ NextEntry \/ Return \/ EndLoop

GridSpec == GridInit /\ [][GridNext]_gridVars

----------------------------------------------------------------------------
GridTypeOK ==
  /\ bl \in [Objects -> [x : 0..XS, prev : Objects \cup {Null, bl_head},
                         next : Objects \cup {Null}]]
  /\ block \in [Chains -> [Blocks -> Objects \cup {Null}]]
  /\ user \in 0..Cardinality(Pcs)
  /\ freed \subseteq Objects /\ dead \subseteq Mobs
  /\ bl_list \in Seq(Objects) /\ Len(loops) <= MaxDepth
  /\ stale \in BOOLEAN /\ changes \in 0..MaxChanges

\* The chains are what the map looks like: following them from the head of
\* each block meets every object that is on the map once, in the chain of its
\* kind and its cell, with links that agree both ways; nothing freed is met,
\* and user counts the players met.  No order of moves, warps, deaths and
\* removals, in or out of a loop, tears them.
ChainsSound ==
  /\ \A c \in Chains, pos \in Blocks :
       LET here == {o \in Objects \ freed : /\ OnMap(Grid, o)
                                            /\ ChainOf(o) = c
                                            /\ PosOf(bl[o].x) = pos}
           Links(o) == /\ bl[o].prev \in here \cup {bl_head}
                       /\ bl[o].prev = bl_head <=> block[c][pos] = o
                       /\ bl[o].next # Null => bl[bl[o].next].prev = o
       IN  /\ block[c][pos] \in here \cup {Null}
           /\ here # {} => block[c][pos] # Null
           /\ \A o \in here : Links(o)
           /\ ToSet(ChainSeq(Grid, c, pos)) = here
  /\ user = Cardinality({o \in Pcs : OnMap(Grid, o)})

\* A loop calls for an object it found, still on the map, and once, whatever
\* the calls before did: unless a call freed an object of the list, whose
\* memory is then read, or began a loop that found more objects than this one
\* had come to, which writes over the rest of this one's.
Calls(k) == /\ k \in DOMAIN loops' /\ loops'[k].call
            /\ k \in DOMAIN loops /\ ~loops[k].call
CallsWhatItFound ==
  [][\A k \in 1..MaxDepth : Calls(k) =>
       \/ loops[k].mine = <<>> \/ stale'
       \/ LET o == bl_list[loops[k].i]
          IN  /\ o = loops[k].mine[loops[k].i] /\ OnMap(Grid, o)
              /\ \A j \in DOMAIN loops[k].mine :
                   loops[k].mine[j] = o => j = loops[k].i]_gridVars
=============================================================================
