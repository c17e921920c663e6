----------------------------- MODULE TableSave -----------------------------
(***************************************************************************)
(* How one array of a character (inventory, spell book, registry, ...) is  *)
(* written to its table, statement by statement: the positions that have a *)
(* row are read first, then every position is deleted, updated or          *)
(* inserted.  No transaction holds this together and no key makes a        *)
(* position unique, and two processes do it: the save server from time to  *)
(* time, the map server at logout.                                         *)
(*                                                                         *)
(* A behaviour looks at one of the ten tables.  What a position holds is a *)
(* thing or Empty: an item without id, a register of value 0, a legend     *)
(* without name.  CharSave has the order of whole saves; here it is only   *)
(* the flag ChaOnline that keeps them apart.                               *)
(***************************************************************************)
EXTENDS Naturals, FiniteSetsExt

CONSTANTS
  Values,     \* what a position may hold
  Blank,      \* nothing
  NoArray,
  Size        \* positions of the array

ASSUME TableAssumption ==
  /\ IsFiniteSet(Values) /\ Blank \notin Values /\ Size \in Nat \ {0}
  /\ NoArray \notin [0..Size - 1 -> Values \cup {Blank}]

Positions == 0..Size - 1
Array == [Positions -> Values \cup {Blank}]

Registries == {"Registry", "NPCRegistry", "QuestRegistry"}
ByPosition == {"Inventory", "Equipment", "SpellBook", "Aethers", "Kills",
               "Legends", "Banks"}
Writers == {"map", "save"}

VARIABLES
  table,      \* the table looked at
  rows,       \* rows[i][v]: how many rows have position i and value v
  online,     \* `ChaOnline`
  status,     \* the array at the map server, or NoArray
  saver,      \* each writer: its array or NoArray, save_id[], the loop's i
  \* history
  overlapped, \* both writers were at work at a time
  whole,      \* the save that began last had the table for itself so far
  saved       \* what the save that ended last wrote

tableVars == <<table, rows, online, status, saver, overlapped, whole,
               saved>>

Idle == [items |-> NoArray, save_id |-> {}, i |-> 0, selected |-> FALSE]
Working(p) == saver[p].items # NoArray
Nothing == [i \in Positions |-> Blank]
NoRows == [v \in Values |-> 0]

TableInit ==
  /\ table \in Registries \cup ByPosition
  /\ rows = [i \in Positions |-> NoRows]
  /\ online = FALSE /\ status = NoArray
  /\ saver = [p \in Writers |-> Idle]
  /\ overlapped = FALSE /\ whole = TRUE /\ saved = Nothing

Count(i) == MapThenSumSet(LAMBDA v : rows[i][v], Values)

----------------------------------------------------------------------------
(* Saving.                                                                 *)

\* Bound: a behaviour has no further save after two that overlapped.
Begin(p, items) ==
  /\ ~Working(p) /\ ~overlapped
  /\ saver' = [saver EXCEPT ![p] = [Idle EXCEPT !.items = items]]
  /\ overlapped' = \E q \in Writers : Working(q)
  /\ whole' = ~\E q \in Writers : Working(q)
  /\ UNCHANGED <<table, rows, online, saved>>

\* The SELECT ... ORDER BY position LIMIT n: the positions of the first rows.
save_id == {i \in Positions : /\ Count(i) > 0
                              /\ MapThenSumSet(Count, 0..i - 1) < Size}

SelectPositions(p) ==
  /\ Working(p) /\ ~saver[p].selected
  /\ saver' = [saver EXCEPT ![p].save_id = save_id, ![p].selected = TRUE]
  /\ UNCHANGED <<table, rows, online, status, overlapped, whole, saved>>

RowsDeleted(i) == [rows EXCEPT ![i] = NoRows]
RowsUpdated(i, v) == [rows EXCEPT ![i] = [NoRows EXCEPT ![v] = Count(i)]]
RowsInserted(i, v) == [rows EXCEPT ![i][v] = @ + 1]

RowsAfter_InsertsAlways(p) ==
  LET i == saver[p].i
      v == saver[p].items[i]
  IN  IF v = Blank THEN RowsDeleted(i) ELSE RowsInserted(i, v)

\* The statement for the loop's position.
RowsAfter(p) ==
  LET i == saver[p].i
      v == saver[p].items[i]
  IN  IF i \in saver[p].save_id
      THEN IF v = Blank THEN RowsDeleted(i) ELSE RowsUpdated(i, v)
      ELSE IF v # Blank THEN RowsInserted(i, v) ELSE rows

\* The end of the map server's save clears the flag, and the session is over.
Ended(p) ==
  /\ saver' = [saver EXCEPT ![p] = Idle]
  /\ online' = (online /\ p = "save")
  /\ status' = IF p = "map" THEN NoArray ELSE status

\* One turn of the loop; a statement that fails ends it.
Statement(p) ==
  /\ Working(p) /\ saver[p].selected
  /\ \/ /\ rows' = RowsAfter(p)
        /\ UNCHANGED whole
        /\ IF saver[p].i = Size - 1
           THEN Ended(p) /\ saved' = saver[p].items
           ELSE /\ saver' = [saver EXCEPT ![p].i = @ + 1]
                /\ UNCHANGED <<online, status, saved>>
     \/ /\ Ended(p)
        /\ whole' = FALSE
        /\ UNCHANGED <<rows, saved>>
  /\ UNCHANGED <<table, overlapped>>

\* The two processes have each their own copy of the ten functions.
membankdata_todb == table = "Banks" /\ Statement("map")
meminvdata_todb == table = "Inventory" /\ Statement("map")
memeqpdata_todb == table = "Equipment" /\ Statement("map")
memreg_todb == table = "Registry" /\ Statement("map")
memnpcreg_todb == table = "NPCRegistry" /\ Statement("map")
memquestreg_todb == table = "QuestRegistry" /\ Statement("map")
memspells_todb == table = "SpellBook" /\ Statement("map")
memaethers_todb == table = "Aethers" /\ Statement("map")
memkillcount_todb == table = "Kills" /\ Statement("map")
memlegend_todb == table = "Legends" /\ Statement("map")

save_membankdata_todb == table = "Banks" /\ Statement("save")
save_meminvdata_todb == table = "Inventory" /\ Statement("save")
save_memeqpdata_todb == table = "Equipment" /\ Statement("save")
save_memreg_todb == table = "Registry" /\ Statement("save")
save_memnpcreg_todb == table = "NPCRegistry" /\ Statement("save")
save_memquestreg_todb == table = "QuestRegistry" /\ Statement("save")
save_memspells_todb == table = "SpellBook" /\ Statement("save")
save_memaethers_todb == table = "Aethers" /\ Statement("save")
save_memkillcount_todb == table = "Kills" /\ Statement("save")
save_memlegend_todb == table = "Legends" /\ Statement("save")

\* The save server takes a record that was sent to it, which may be of any
\* age, if the character is online.
charif_parse_savechar ==
  /\ online
  /\ \E items \in Array : Begin("save", items)
  /\ UNCHANGED status

intif_savequit ==
  /\ status # NoArray /\ Begin("map", status)
  /\ UNCHANGED status

----------------------------------------------------------------------------
(* Loading, and play.                                                      *)

\* mmo_char_fromdb reads one row less than there are slots of equipment.
LoadLimit == IF table = "Equipment" THEN Size - 1 ELSE Size

\* The rows that a SELECT with LIMIT may return.
Returned ==
  LET total(r) ==
        MapThenSumSet(LAMBDA i : MapThenSumSet(LAMBDA v : r[i][v], Values),
                      Positions)
      fewer == {r \in [Positions -> [Values -> 0..2 * Size]] :
                  \A i \in Positions, v \in Values : r[i][v] <= rows[i][v]}
  IN  IF total(rows) <= LoadLimit THEN {rows}
      ELSE {r \in fewer : total(r) = LoadLimit}

\* Rows come in any order.  Of several for one position the last one stays.
LoadedAt(r) ==
  {a \in Array : \A i \in Positions :
     IF a[i] = Blank THEN \A v \in Values : r[i][v] = 0 ELSE r[i][a[i]] > 0}

\* A registry is filled from its start, whatever the positions were.
LoadedFromStart(r) ==
  {a \in Array :
     /\ \A i \in Positions : i > 0 /\ a[i] # Blank => a[i - 1] # Blank
     /\ \A v \in Values : Cardinality({i \in Positions : a[i] = v})
                            = MapThenSumSet(LAMBDA i : r[i][v], Positions)}

Loads ==
  UNION {IF table \in Registries THEN LoadedFromStart(r) ELSE LoadedAt(r)
           : r \in Returned}

mmo_char_fromdb ==
  /\ status = NoArray /\ ~online
  /\ status' \in Loads
  /\ online' = TRUE
  /\ UNCHANGED <<table, rows, saver, overlapped, whole, saved>>

Play ==
  /\ status # NoArray /\ ~Working("map")
  /\ \E i \in Positions, v \in Values \cup {Blank} :
       status' = [status EXCEPT ![i] = v]
  /\ UNCHANGED <<table, rows, online, saver, overlapped, whole, saved>>

\* A writer dies; the flag stays set until its loss is noticed.
Crash(p) ==
  /\ p = "map" => status # NoArray
  /\ p = "save" => Working("save")
  /\ saver' = [saver EXCEPT ![p] = Idle]
  /\ status' = IF p = "map" THEN NoArray ELSE status
  /\ whole' = (whole /\ ~Working(p))
  /\ UNCHANGED <<table, rows, online, overlapped, saved>>

mmo_setallonline ==
  /\ online /\ status = NoArray
  /\ online' = FALSE
  /\ UNCHANGED <<table, rows, status, saver, overlapped, whole, saved>>

intif_todb ==
  \/ membankdata_todb \/ meminvdata_todb \/ memeqpdata_todb
  \/ memreg_todb \/ memnpcreg_todb \/ memquestreg_todb
  \/ memspells_todb \/ memaethers_todb \/ memkillcount_todb
  \/ memlegend_todb

save_todb ==
  \/ save_membankdata_todb \/ save_meminvdata_todb \/ save_memeqpdata_todb
  \/ save_memreg_todb \/ save_memnpcreg_todb \/ save_memquestreg_todb
  \/ save_memspells_todb \/ save_memaethers_todb
  \/ save_memkillcount_todb \/ save_memlegend_todb

TableNext ==
  \/ \E p \in Writers : SelectPositions(p) \/ Crash(p)
  \/ intif_todb \/ save_todb
  \/ charif_parse_savechar \/ intif_savequit
  \/ mmo_char_fromdb \/ Play \/ mmo_setallonline

TableSpec == TableInit /\ [][TableNext]_tableVars

----------------------------------------------------------------------------
TableTypeOK ==
  /\ table \in Registries \cup ByPosition
  /\ rows \in [Positions -> [Values -> Nat]]
  /\ online \in BOOLEAN
  /\ status \in Array \cup {NoArray}
  /\ saver \in [Writers -> [items : Array \cup {NoArray},
                            save_id : SUBSET Positions, i : Positions,
                            selected : BOOLEAN]]
  /\ overlapped \in BOOLEAN /\ whole \in BOOLEAN /\ saved \in Array

Held(a, v) == {i \in Positions : a[i] = v}

\* The same things; in a registry their places do not matter.
Same(a, b) ==
  IF table \in Registries
  THEN \A v \in Values : Cardinality(Held(a, v)) = Cardinality(Held(b, v))
  ELSE a = b

\* As long as the two writers have never been at work at a time, a position
\* has one row at most, whatever crashes and errors cut saves short; and after
\* a save that ran to its end every login gets just what it wrote, from every
\* kind of table and in whatever order the rows come, but for equipment in all
\* slots, of which one is not read.
SaveIsExact ==
  ~overlapped =>
    /\ \A i \in Positions : Count(i) <= 1
    /\ whole /\ ~(\E p \in Writers : Working(p)) =>
         \/ Size - Cardinality(Held(saved, Blank)) > LoadLimit
         \/ \A a \in Loads : Same(a, saved)
=============================================================================
