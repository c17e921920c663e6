------------------------------ MODULE CharSave ------------------------------
(***************************************************************************)
(* How the record of one character travels between the map server that     *)
(* plays it and the database.  It is read by the char server at login      *)
(* (mmo_char_fromdb), and written in two ways:                             *)
(*   - every five minutes the map server sends it to the char server       *)
(*     (0x3004), which forwards it to the save server (0x4002), which      *)
(*     writes it unless the character is offline by then;                  *)
(*   - at logout the map server writes it itself, and then clears the      *)
(*     flag ChaOnline.                                                     *)
(* A write is an UPDATE of `Character` followed by the tables of items,    *)
(* spells, registries and so on, with no transaction around them: it is    *)
(* two steps here, the row and the tables, and so is a read.  The record   *)
(* is reduced to the version of each of the two parts.                     *)
(*                                                                         *)
(* Each process runs one handler at a time: the map server does nothing    *)
(* else while it writes at logout, but the other two go on.  The character *)
(* has one session at a time here; CharSession shows when it has two.      *)
(***************************************************************************)
EXTENDS Naturals, Sequences, SequencesExt

CONSTANTS
  None,
  FaultKinds,  \* which of AllFaults may happen
  MaxVersion,  \* bound: changes of the record
  MaxQueue,    \* bound: saves under way when one is added
  MaxFaults    \* bound: number of faults

AllFaults == {"sweep", "mapcrash", "savecrash", "charlink", "savelink"}

\* The two parts of a record, each with the version it has.
Record == [row: Nat, tables: Nat]

ASSUME CharSaveAssumption ==
  /\ None \notin Record
  /\ FaultKinds \subseteq AllFaults
  /\ MaxVersion \in Nat /\ MaxQueue \in Nat /\ MaxFaults \in Nat

VARIABLES
  db,        \* the record in the database
  online,    \* `ChaOnline` of the character
  \* the map server
  up,        \* the process runs
  mem,       \* the record of the session that plays, or None
  quit,      \* how far the save at logout is
  \* the char server
  linked,    \* connected to the map server
  saveFd,    \* connected to the save server
  load,      \* how far the read at login is
  loaded,    \* what it has read (char_dat; New when nothing is being read)
  \* links and the save server
  inChar,    \* saves on the way to the char server
  inSave,    \* saves on the way to the save server
  todb,      \* how far the save server's write is
  writing,   \* the record it writes, or None
  \* history, read by no guard but the bounds
  version,   \* the latest version of the record
  since,     \* its value when the last session began
  kept,      \* the record the last logout wrote
  disturbed, \* since the last logout began, another write overlapped with
             \* it, the flag was clear before it ended, or a crash ended a
             \* session or a write
  faults

vars == <<db, online, up, mem, quit, linked, saveFd, load, loaded, inChar,
          inSave, todb, writing, version, since, kept, disturbed, faults>>

mapVars  == <<up, mem, quit>>
charVars == <<linked, saveFd, load, loaded>>
saveVars == <<todb, writing>>
history  == <<version, since, kept, disturbed, faults>>

TypeOK ==
  /\ db \in Record
  /\ online \in BOOLEAN
  /\ up \in BOOLEAN
  /\ mem \in Record \cup {None}
  /\ quit \in {"no", "row", "tables", "flag"}
  /\ linked \in BOOLEAN
  /\ saveFd \in BOOLEAN
  /\ load \in {"no", "row", "tables", "sent"}
  /\ loaded \in Record
  /\ inChar \in Seq(Record)
  /\ inSave \in Seq(Record)
  /\ todb \in {"no", "row", "tables"}
  /\ writing \in Record \cup {None}
  /\ version \in Nat
  /\ since \in Nat
  /\ kept \in Record
  /\ disturbed \in BOOLEAN
  /\ faults \in Nat

New == [row |-> 0, tables |-> 0]

Init ==
  /\ db = New
  /\ online = FALSE
  /\ up = TRUE
  /\ mem = None
  /\ quit = "no"
  /\ linked = TRUE
  /\ saveFd = TRUE
  /\ load = "no"
  /\ loaded = New
  /\ inChar = <<>>
  /\ inSave = <<>>
  /\ todb = "no"
  /\ writing = None
  /\ version = 0
  /\ since = 0
  /\ kept = New
  /\ disturbed = FALSE
  /\ faults = 0

Fault(kind) ==
  /\ kind \in FaultKinds
  /\ faults < MaxFaults
  /\ faults' = faults + 1

----------------------------------------------------------------------------
(* Login: the char server reads the record, the map server gets it.        *)

\* A login is permitted while the flag is clear (logif_parse_login), and
\* the map server asks for the record (0x3003).  A login beside a session
\* that goes on is left out.
LoginPermitted ==
  /\ up /\ linked
  /\ ~online
  /\ mem = None \/ quit # "no"
  /\ load = "no"
  /\ load' = "row"
  /\ UNCHANGED <<db, online, mapVars, linked, saveFd, loaded, inChar, inSave,
                 saveVars, history>>

\* mmo_char_fromdb: the row first, then the tables.
mmo_char_fromdb ==
  /\ \/ load = "row"    /\ load' = "tables" /\ loaded' = [loaded EXCEPT !.row = db.row]
     \/ load = "tables" /\ load' = "sent"   /\ loaded' = [loaded EXCEPT !.tables = db.tables]
  /\ UNCHANGED <<db, online, mapVars, linked, saveFd, inChar, inSave, saveVars,
                 history>>

\* The map server takes it and marks the character online.
intif_mmo_tosd ==
  /\ up
  /\ load = "sent"
  /\ mem = None
  /\ load' = "no"
  /\ mem' = loaded
  /\ online' = TRUE
  /\ loaded' = New
  /\ since' = version
  /\ UNCHANGED <<db, up, quit, linked, saveFd, inChar, inSave, saveVars,
                 version, kept, disturbed, faults>>

\* The player does something that changes the row and the tables, such as
\* buying an item.
Play ==
  /\ mem # None
  /\ quit = "no"
  /\ version < MaxVersion
  /\ version' = version + 1
  /\ mem' = [row |-> version', tables |-> version']
  /\ UNCHANGED <<db, online, up, quit, charVars, inChar, inSave, saveVars,
                 since, kept, disturbed, faults>>

----------------------------------------------------------------------------
(* The periodic save.                                                      *)

\* map_savechars calls intif_save.  While the char server is away char_fd
\* is 0, and the packet ends in the buffer of session[0].
intif_save_NoNullCheck ==
  /\ quit = "no"
  /\ Len(inChar) + Len(inSave) < MaxQueue
  /\ inChar' = IF linked THEN Append(inChar, mem) ELSE inChar
  /\ UNCHANGED <<db, online, mapVars, charVars, inSave, saveVars, history>>
intif_save ==
  /\ mem # None
  /\ quit = "no"
  /\ Len(inChar) + Len(inSave) < MaxQueue
  /\ inChar' = IF linked THEN Append(inChar, mem) ELSE inChar
  /\ UNCHANGED <<db, online, mapVars, charVars, inSave, saveVars, history>>

\* The char server forwards it; save_fd is 0 while the save server is away.
mapif_parse_savechar_Newest ==
  /\ inChar # <<>>
  /\ inChar' = Front(inChar)
  /\ inSave' = IF saveFd THEN Append(inSave, Last(inChar)) ELSE inSave
  /\ UNCHANGED <<db, online, mapVars, charVars, saveVars, history>>
mapif_parse_savechar ==
  /\ inChar # <<>>
  /\ inChar' = Tail(inChar)
  /\ inSave' = IF saveFd THEN Append(inSave, Head(inChar)) ELSE inSave
  /\ UNCHANGED <<db, online, mapVars, charVars, saveVars, history>>

\* mmo_char_todb of the save server: SELECT ... WHERE `ChaOnline` = '0'.
\* Offline is a reason to drop the save; what happens afterwards is not.
offline_Inverted == online
offline_Unchecked == FALSE
offline == ~online

charif_parse_savechar ==
  /\ todb = "no"
  /\ inSave # <<>>
  /\ inSave' = Tail(inSave)
  /\ IF offline
     THEN UNCHANGED <<todb, writing, disturbed>>
     ELSE /\ todb' = "row"
          /\ writing' = Head(inSave)
          /\ disturbed' = (disturbed \/ quit # "no")
  /\ UNCHANGED <<db, online, mapVars, charVars, inChar, version, since, kept,
                 faults>>

\* ... then the UPDATE of `Character`, then the tables.
mmo_char_todb ==
  /\ \/ /\ todb = "row"
        /\ db' = [db EXCEPT !.row = writing.row]
        /\ todb' = "tables"
        /\ UNCHANGED writing
     \/ /\ todb = "tables"
        /\ db' = [db EXCEPT !.tables = writing.tables]
        /\ todb' = "no"
        /\ writing' = None
  /\ UNCHANGED <<online, mapVars, charVars, inChar, inSave, history>>

----------------------------------------------------------------------------
(* Logout: clif_handle_disconnect writes the record and clears the flag.   *)

quit_begin_FlagFirst ==
  /\ mem # None
  /\ quit = "no"
  /\ quit' = "row"
  /\ online' = FALSE /\ kept' = mem
  /\ disturbed' = (todb # "no" \/ ~online)
  /\ UNCHANGED <<db, up, mem, charVars, inChar, inSave, saveVars, version,
                 since, faults>>
\* The logout begins.
quit_begin ==
  /\ mem # None
  /\ quit = "no"
  /\ quit' = "row"
  /\ disturbed' = (todb # "no" \/ ~online)
  /\ UNCHANGED <<db, online, up, mem, charVars, inChar, inSave, saveVars,
                 version, since, kept, faults>>

\* intif_savequit: the row, then the tables.
intif_savequit ==
  /\ \/ quit = "row"    /\ quit' = "tables" /\ db' = [db EXCEPT !.row = mem.row]
     \/ quit = "tables" /\ quit' = "flag"   /\ db' = [db EXCEPT !.tables = mem.tables]
  /\ UNCHANGED <<online, up, mem, charVars, inChar, inSave, saveVars, history>>

\* UPDATE `Character` SET `ChaOnline` = '0', and the session ends.
quit_flag ==
  /\ quit = "flag"
  /\ quit' = "no"
  /\ online' = FALSE
  /\ mem' = None
  /\ kept' = mem
  /\ UNCHANGED <<db, up, charVars, inChar, inSave, saveVars, version,
                 since, disturbed, faults>>

----------------------------------------------------------------------------
(* Connections that are lost and made again, and starts.                   *)

\* The char server loses the map server: what it has not parsed is gone, and
\* every flag is cleared (mmo_setallonline).
MapServerLost ==
  /\ linked
  /\ linked' = FALSE
  /\ load' = "no" /\ loaded' = New
  /\ inChar' = <<>>
  /\ online' = FALSE
  /\ UNCHANGED <<db, mapVars, saveFd, inSave, saveVars, version, since,
                 kept, disturbed>>

mapif_parse_eof == ~up /\ MapServerLost /\ UNCHANGED faults

check_connect_char ==
  /\ up /\ quit = "no"
  /\ ~linked
  /\ linked' = TRUE
  /\ UNCHANGED <<db, online, mapVars, saveFd, load, loaded, inChar, inSave,
                 saveVars, history>>

check_connect_save ==
  /\ ~saveFd
  /\ saveFd' = TRUE
  /\ UNCHANGED <<db, online, mapVars, linked, load, loaded, inChar, inSave,
                 saveVars, history>>

\* The map server starts and clears the flags.
do_init ==
  /\ ~up /\ ~linked
  /\ up' = TRUE
  /\ online' = FALSE
  /\ UNCHANGED <<db, mem, quit, charVars, inChar, inSave, saveVars, history>>

----------------------------------------------------------------------------
(* Faults.                                                                 *)

\* Another map server is lost or starts.
Sweep ==
  /\ Fault("sweep")
  /\ online' = FALSE
  /\ disturbed' = (disturbed \/ quit # "no")
  /\ UNCHANGED <<db, mapVars, charVars, inChar, inSave, saveVars, version, since,
                 kept>>

CharLinkCut == Fault("charlink") /\ MapServerLost

\* The save server drops what it has not parsed.  When the char server is
\* back before it has seen the end of the old connection, it never will.
SaveLinkCut ==
  /\ Fault("savelink")
  /\ saveFd' = FALSE
  /\ inSave' = <<>>
  /\ UNCHANGED <<db, online, mapVars, linked, load, loaded, inChar, saveVars,
                 version, since, kept, disturbed>>

MapCrash ==
  /\ Fault("mapcrash")
  /\ up
  /\ up' = FALSE
  /\ mem' = None
  /\ quit' = "no"
  /\ load' = "no" /\ loaded' = New
  /\ disturbed' = (disturbed \/ mem # None)
  /\ UNCHANGED <<db, online, linked, saveFd, inChar, inSave, saveVars,
                 version, since, kept>>

\* The save server dies, perhaps between the row and the tables.
SaveCrash ==
  /\ Fault("savecrash")
  /\ saveFd' = FALSE
  /\ inSave' = <<>>
  /\ todb' = "no"
  /\ writing' = None
  /\ disturbed' = (disturbed \/ todb # "no")
  /\ UNCHANGED <<db, online, mapVars, linked, load, loaded, inChar, version,
                 since, kept>>

----------------------------------------------------------------------------
MapServer  == \/ intif_mmo_tosd \/ Play \/ intif_save
              \/ quit_begin \/ intif_savequit \/ quit_flag
              \/ check_connect_char \/ do_init
CharServer == \/ LoginPermitted \/ mmo_char_fromdb \/ mapif_parse_savechar
              \/ mapif_parse_eof \/ check_connect_save
SaveServer == charif_parse_savechar \/ mmo_char_todb
Faults     == \/ Sweep \/ CharLinkCut \/ SaveLinkCut \/ MapCrash \/ SaveCrash

Next == MapServer \/ CharServer \/ SaveServer \/ Faults

Spec == Init /\ [][Next]_vars

\* The servers read their sockets for ever and finish what they begin.
\* Players, periodic saves and faults promise nothing.
FairSpec ==
  /\ Spec
  /\ WF_vars(intif_savequit \/ quit_flag)
  /\ WF_vars(mapif_parse_savechar)
  /\ WF_vars(SaveServer)

----------------------------------------------------------------------------
(* Properties.                                                             *)

\* What a logout wrote, both parts of it, stays until the next session: the
\* saves that are still under way are dropped (offline).  Only a write that
\* the save server had begun, a flag that was swept too early, or a crash
\* can spoil it.
LogoutSaveStands ==
  mem = None /\ ~disturbed => db = kept

\* A session begins with exactly what the last logout wrote, although the
\* record is read in several steps (the flag is cleared after the write, and
\* only then is a login permitted).
LoginSeesLogout ==
  [][mem = None /\ mem' # None /\ ~disturbed => mem' = kept]_vars

\* While a session goes on, a periodic save never puts an older row over a
\* newer one of the same session: when it does put an older one over a newer
\* one, it is a save from before the session began, that was still under way
\* and found the character online again.  Nothing in the packet tells the
\* two apart (mapif_parse_savechar and mmo_char_todb keep the order).
SaveNeverUndoesSession ==
  [][mem # None /\ quit = "no" /\ todb = "row" /\ todb' = "tables"
       /\ writing.row < db.row => writing.row <= since]_vars

\* A periodic save is written, unless the character goes offline first.
SaveIsWritten ==
  \A v \in 1 .. MaxVersion :
    (\E i \in DOMAIN inChar : inChar[i].row = v) ~> (db.row >= v \/ ~online)
=============================================================================
