------------------------------ MODULE Registry ------------------------------
(***************************************************************************)
(* Registries: the named numbers that scripts keep on a player, an npc, a  *)
(* mob, a map, an account or the whole game.  All are tables of slots that *)
(* are searched from the front; a name that is set to 0 frees its slot.    *)
(*                                                                         *)
(* Those of an account, of a map and of the game write a row to the        *)
(* database at every change.  The row is looked up by its name in one      *)
(* query and written by another, by a key the first one found: the id of   *)
(* the row, or for maps its position, which is the slot that the name had  *)
(* when the row was inserted.  Rows are read back when a map is loaded     *)
(* again, a character comes in or a map server starts.  The game registry  *)
(* is loaded by each map server, that of an account by each of its         *)
(* characters: such a copy does not hear of what the others write.         *)
(*                                                                         *)
(* The other tables are saved with the record they are part of             *)
(* (TableSave) or not at all.                                              *)
(***************************************************************************)
EXTENDS Naturals, Sequences, FiniteSets

CONSTANTS
  Names,       \* names that scripts use
  NoName,      \* the empty name, of a free slot
  Values,      \* what a name may be set to, besides 0
  Copies,      \* the map servers, or the characters of an account
  Owner,       \* the only copy of the registry of a map, a player, ...
  TableSize,   \* MAX_GLOBALREG, or the 10000 slots of a map and the game
  MaxInserts   \* bound: rows that are ever inserted

ASSUME RegistryAssumption ==
  /\ NoName \notin Names /\ Owner \in Copies
  /\ Values \subseteq Nat \ {0}
  /\ {TableSize, MaxInserts} \subseteq Nat /\ TableSize > 0

VARIABLES
  owned_by,   \* whose registry it is
  registry,   \* copy -> its slots
  rows,       \* the rows of the database that belong to it
  issued,     \* how many rows were inserted, ids are given in turn
  saving,     \* copy -> the write between its two queries
  stale,      \* history: copies that others have written past
  reloaded,   \* history: the map was loaded once more
  mishaps     \* history: clobbered (a write has hit the row of another
              \* name), missed (it hit none), doubled (inserted twice)

registryVars == <<owned_by, registry, rows, issued, saving, stale, reloaded,
                  mishaps>>

Slot == [str : Names \cup {NoName}, val : Values \cup {0}]
Unset == [str |-> NoName, val |-> 0]
Row == [id : 1..MaxInserts, str : Names, val : Values, pos : 0..TableSize]

NoSave == [str |-> NoName, val |-> 0, slot |-> 0, save_id |-> 0]
Saves == [str : Names, val : Values \cup {0}, slot : 0..TableSize,
          save_id : Nat] \cup {NoSave}

\* Tables of a fixed size are there in full from the start.
Fixed == owned_by \in {"account", "record"}
Shared == owned_by \in {"account", "game"}
Holders == IF Shared THEN Copies ELSE {Owner}
FreshTable == IF Fixed THEN [i \in 1..TableSize |-> Unset] ELSE <<>>

RegistryInit ==
  /\ owned_by \in {"account", "game", "map", "record"}
  /\ registry = [c \in Copies |-> FreshTable]
  /\ rows = {} /\ issued = 0
  /\ saving = [c \in Copies |-> NoSave]
  /\ stale = {} /\ reloaded = FALSE /\ mishaps = {}

----------------------------------------------------------------------------
(* The slots.                                                              *)

Has(t, n) == \E i \in DOMAIN t : t[i].str = n
FirstSlot(t, n) ==
  CHOOSE i \in DOMAIN t : t[i].str = n /\ \A j \in 1..i - 1 : t[j].str # n

\* The value that scripts read.
readglobalreg(t, n) == IF Has(t, n) THEN t[FirstSlot(t, n)].val ELSE 0

\* The slot that a set uses: that of the name, or a free one, or a new one.
SlotFor(t, n) ==
  IF Has(t, n) THEN FirstSlot(t, n)
  ELSE IF Has(t, NoName) THEN FirstSlot(t, NoName)
  ELSE Len(t) + 1

\* Setting a name that has a slot to 0 frees the slot.
SlotSet(t, n, v) ==
  LET s == IF v = 0 /\ Has(t, n) THEN Unset ELSE [str |-> n, val |-> v]
      i == SlotFor(t, n)
  IN  IF i \in DOMAIN t THEN [t EXCEPT ![i] = s] ELSE Append(t, s)

----------------------------------------------------------------------------
(* The rows.                                                               *)

RowsOf(n) == {r \in rows : r.str = n}
KeyOf(r) == IF owned_by = "map" THEN r.pos ELSE r.id

\* Only the rows of maps have a position.
Position(i) == IF owned_by = "map" THEN i ELSE 0

\* What the first query leaves in save_id: the key of a row of this name, or
\* none (0); pc_saveacctregistry does not set it when there is no row.
FoundIds(n) ==
  IF RowsOf(n) # {} THEN {KeyOf(r) : r \in RowsOf(n)}
  ELSE IF owned_by = "account" THEN 0..MaxInserts
  ELSE {0}

\* What a script that reads the rows anew finds for a name.
StoredValues(n) == IF RowsOf(n) = {} THEN {0} ELSE {r.val : r \in RowsOf(n)}

----------------------------------------------------------------------------
(* The operations.                                                         *)

\* A script sets a name; a full table ignores a new one.  The slot is written
\* and the row of the name is looked up.
setglobalreg(c, n, v) ==
  LET t == registry[c]  i == SlotFor(t, n) IN
  /\ saving[c] = NoSave
  /\ i <= TableSize
  /\ registry' = [registry EXCEPT ![c] = SlotSet(t, n, v)]
  /\ IF owned_by = "record"
     THEN UNCHANGED saving
     ELSE \E id \in FoundIds(n) :
            saving' = [saving EXCEPT ![c] =
                         [str |-> n, val |-> v, slot |-> Position(i),
                          save_id |-> id]]
  /\ UNCHANGED <<owned_by, rows, issued, stale, reloaded, mishaps>>

\* The other copies do not hear of it.
WrittenPast(c) == stale' = stale \cup (Holders \ {c})

\* DELETE by the name, when a row was found; nothing when there was none.
DeleteRow(c) ==
  LET p == saving[c] IN
  /\ p # NoSave /\ p.val = 0
  /\ rows' = IF p.save_id = 0 THEN rows ELSE rows \ RowsOf(p.str)
  /\ saving' = [saving EXCEPT ![c] = NoSave]
  /\ WrittenPast(c)
  /\ UNCHANGED <<owned_by, registry, issued, reloaded, mishaps>>

\* UPDATE of the name and the value, WHERE the key is the one that was found.
UpdateRow(c) ==
  LET p == saving[c]
      hit == {r \in rows : KeyOf(r) = p.save_id}
  IN
  /\ p # NoSave /\ p.val # 0 /\ p.save_id # 0
  /\ rows' = (rows \ hit)
               \cup {[r EXCEPT !.str = p.str, !.val = p.val] : r \in hit}
  /\ mishaps' = mishaps
       \cup {"clobbered" : r \in {q \in hit : q.str # p.str}}
       \cup {"missed" : x \in {y \in {c} : hit = {}}}
  /\ saving' = [saving EXCEPT ![c] = NoSave]
  /\ WrittenPast(c)
  /\ UNCHANGED <<owned_by, registry, issued, reloaded>>

\* INSERT with the slot as the position.
InsertRow(c) ==
  LET p == saving[c] IN
  /\ p # NoSave /\ p.val # 0 /\ p.save_id = 0
  /\ issued < MaxInserts
  /\ issued' = issued + 1
  /\ rows' = rows \cup {[id |-> issued + 1, str |-> p.str, val |-> p.val,
                         pos |-> p.slot]}
  /\ mishaps' = mishaps \cup {"doubled" : r \in RowsOf(p.str)}
  /\ saving' = [saving EXCEPT ![c] = NoSave]
  /\ WrittenPast(c)
  /\ UNCHANGED <<owned_by, registry, reloaded>>

\* The rows in the order in which the database gives them, no more than the
\* LIMIT for an account.
Loaded(k) ==
  {s \in [1..k -> rows] : \A i, j \in 1..k : s[i] = s[j] => i = j}
SlotsOf(s) ==
  LET t == [i \in DOMAIN s |-> [str |-> s[i].str, val |-> s[i].val]]
  IN  IF Fixed
      THEN [i \in 1..TableSize |-> IF i \in DOMAIN t THEN t[i] ELSE Unset]
      ELSE t

\* The map is loaded again, the character logs in or the server starts.  That
\* there are more rows than a table has slots is handled for accounts only;
\* that many are not modelled for maps and the game.
loadregistry(c) ==
  LET n == Cardinality(rows) IN
  /\ owned_by # "record" /\ saving[c] = NoSave
  /\ n <= TableSize \/ owned_by = "account"
  /\ \E s \in Loaded(IF n <= TableSize THEN n ELSE TableSize) :
       registry' = [registry EXCEPT ![c] = SlotsOf(s)]
  /\ stale' = IF n <= TableSize THEN stale \ {c} ELSE stale \cup {c}
  /\ reloaded' = (reloaded \/ owned_by = "map")
  /\ UNCHANGED <<owned_by, rows, issued, saving, mishaps>>

RegistryNext ==
  \E c \in Holders :
    \/ \E n \in Names, v \in Values \cup {0} : setglobalreg(c, n, v)
    \/ DeleteRow(c) \/ UpdateRow(c) \/ InsertRow(c)
    \/ loadregistry(c)

RegistrySpec == RegistryInit /\ [][RegistryNext]_registryVars

----------------------------------------------------------------------------
(* What holds.                                                             *)

RegistryTypeOK ==
  /\ owned_by \in {"account", "game", "map", "record"}
  /\ registry \in [Copies -> Seq(Slot)]
  /\ \A c \in Copies :
       Len(registry[c]) <= TableSize /\ (Fixed => Len(registry[c]) = TableSize)
  /\ rows \subseteq Row /\ issued \in 0..MaxInserts
  /\ saving \in [Copies -> Saves]
  /\ stale \subseteq Copies /\ reloaded \in BOOLEAN
  /\ mishaps \subseteq {"clobbered", "missed", "doubled"}

\* A name has one slot, unless a write went astray: the value that a script
\* reads is the one that was set last, never that of a second slot.
NamesApart ==
  mishaps = {} =>
    \A c \in Copies : \A i, j \in DOMAIN registry[c] :
      registry[c][i].str = registry[c][j].str /\ registry[c][i].str # NoName
        => i = j

\* What would be read after a reload, whatever the order of the rows, is what
\* is read now: by a copy that nobody has written past and that is between
\* two scripts, as long as no write went astray.
ReloadReadsTheSame ==
  mishaps = {} /\ owned_by # "record" =>
    \A c \in Holders \ stale : saving[c] = NoSave =>
      \A n \in Names : StoredValues(n) = {readglobalreg(registry[c], n)}

\* How a write may go astray depends on the key it is made by.  The position
\* of a row of a map is not that of its name any more after a reload, until
\* then the rows are safe; the id of a row of the game stays its own, but
\* another server may come between the two queries.
AstrayByKind ==
  /\ owned_by = "record" => mishaps = {}
  /\ owned_by = "map" => mishaps \subseteq {"clobbered"}
  /\ owned_by = "map" /\ ~reloaded => mishaps = {}
  /\ owned_by = "game" => mishaps \subseteq {"missed", "doubled"}

RegistrySound == NamesApart /\ ReloadReadsTheSame /\ AstrayByKind
=============================================================================
