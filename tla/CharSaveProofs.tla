--------------------------- MODULE CharSaveProofs ---------------------------
(***************************************************************************)
(* Theorems about CharSave, for every bound and every choice of faults:    *)
(* what a logout writes stands, the next session begins with it, and a     *)
(* periodic save never undoes what its own session saved before.           *)
(***************************************************************************)
EXTENDS CharSave, TLAPS

\* A write and a logout have the record they write.
HasRecord ==
  /\ todb # "no" => writing # None
  /\ quit # "no" => mem # None
  /\ mem # None => up

\* While nothing disturbs the last logout: no other write is under way, the
\* parts it has written are those of the record, and nobody logs in before
\* it is done.
LogoutAlone ==
  ~disturbed /\ quit # "no" =>
    /\ todb = "no" /\ load = "no"
    /\ online \/ ~linked
    /\ quit \in {"tables", "flag"} => db.row = mem.row
    /\ quit = "flag" => db.tables = mem.tables

\* A login is under way only while nobody plays, or a logout is late.
NoLoginInSession == mem # None /\ quit = "no" => load = "no"

\* Between two sessions the record is the one the logout wrote, and so is
\* what a login has read of it.
BetweenSessions ==
  ~disturbed /\ mem = None =>
    /\ db = kept /\ ~online /\ todb = "no"
    /\ load \in {"tables", "sent"} => loaded.row = kept.row
    /\ load = "sent" => loaded.tables = kept.tables

LogoutInv == HasRecord /\ LogoutAlone /\ NoLoginInSession /\ BetweenSessions

\* No record is newer than the latest version, and the session has it unless
\* it has changed nothing.
Bounded ==
  /\ db.row <= version /\ since <= version
  /\ loaded.row <= version
  /\ mem # None => mem.row <= version /\ (mem.row = version \/ version = since)
  /\ writing # None => writing.row <= version
  /\ \A i \in DOMAIN inChar : inChar[i].row <= version
  /\ \A i \in DOMAIN inSave : inSave[i].row <= version

\* After a record of this session, which is newer than s, nothing older is on
\* the way: in a queue, within it, and from one queue to the next.
NotOlder(s, n, q) == n > s => \A i \in DOMAIN q : q[i].row >= n
Steady(s, q) ==
  \A i, j \in DOMAIN q : i < j /\ q[i].row > s => q[j].row >= q[i].row
Follows(s, p, q) == \A i \in DOMAIN p : NotOlder(s, p[i].row, q)

InOrder ==
  mem # None /\ quit = "no" =>
    /\ NotOlder(since, db.row, inSave) /\ NotOlder(since, db.row, inChar)
    /\ todb = "row" => /\ db.row > since => writing.row >= db.row
                       /\ NotOlder(since, writing.row, inSave)
                       /\ NotOlder(since, writing.row, inChar)
    /\ Steady(since, inSave) /\ Steady(since, inChar)
    /\ Follows(since, inSave, inChar)

IInv == TypeOK /\ LogoutInv /\ Bounded /\ InOrder

----------------------------------------------------------------------------
(* Queues of records.                                                      *)

\* A record that is added is the last one.
LEMMA AppendIs ==
  ASSUME NEW q \in Seq(Record), NEW r \in Record
  PROVE  /\ Append(q, r) \in Seq(Record)
         /\ \A i \in DOMAIN Append(q, r) :
              \/ i \in DOMAIN q /\ Append(q, r)[i] = q[i]
              \/ /\ Append(q, r)[i] = r
                 /\ i \in Nat /\ \A j \in DOMAIN q : j < i /\ ~(i < j)
OBVIOUS

\* A record that is taken was the first one.
LEMMA TailIs ==
  ASSUME NEW q \in Seq(Record), q # <<>>
  PROVE  /\ Tail(q) \in Seq(Record) /\ Head(q) \in Record
         /\ 1 \in DOMAIN q /\ Head(q) = q[1]
         /\ \A i \in DOMAIN Tail(q) :
              i \in Nat /\ 1 < i + 1 /\ i + 1 \in DOMAIN q /\ Tail(q)[i] = q[i + 1]
OBVIOUS

\* Every record of a queue has its parts.
LEMMA RowIsNat ==
  /\ \A r \in Record : r.row \in Nat /\ r.tables \in Nat
  /\ \A q \in Seq(Record) : \A i \in DOMAIN q : q[i] \in Record /\ q[i].row \in Nat
<1>1. \A r \in Record : r.row \in Nat /\ r.tables \in Nat
  BY DEF Record
<1>2. ASSUME NEW q \in Seq(Record), NEW i \in DOMAIN q PROVE q[i] \in Record
  OBVIOUS
<1> QED BY <1>1, <1>2

\* A record that is added to a queue keeps the order when it is not older
\* than what must come before it.
LEMMA AppendInOrder ==
  ASSUME NEW s \in Nat, NEW q \in Seq(Record), NEW r \in Record
  PROVE  /\ \A n \in Nat : NotOlder(s, n, q) /\ (n > s => r.row >= n)
                            => NotOlder(s, n, Append(q, r))
         /\ Steady(s, q) /\ (\A i \in DOMAIN q : q[i].row > s => r.row >= q[i].row)
              => Steady(s, Append(q, r))
<1> DEFINE p == Append(q, r)
<1>1. \A i \in DOMAIN p :
        \/ i \in DOMAIN q /\ p[i] = q[i]
        \/ p[i] = r /\ i \in Nat /\ \A j \in DOMAIN q : j < i /\ ~(i < j)
  BY AppendIs
<1>2. r.row \in Nat /\ \A i \in DOMAIN q : q[i].row \in Nat
  BY RowIsNat
<1> HIDE DEF p
<1>3. \A n \in Nat : NotOlder(s, n, q) /\ (n > s => r.row >= n) => NotOlder(s, n, p)
  BY <1>1 DEF NotOlder
<1>4. ASSUME Steady(s, q), \A i \in DOMAIN q : q[i].row > s => r.row >= q[i].row
      PROVE  Steady(s, p)
  <2> SUFFICES ASSUME NEW i \in DOMAIN p, NEW j \in DOMAIN p, i < j, p[i].row > s
               PROVE  p[j].row >= p[i].row
    BY DEF Steady
  <2>1. CASE j \in DOMAIN q /\ p[j] = q[j]
    <3>1. i \in DOMAIN q /\ p[i] = q[i] BY <1>1, <2>1
    <3> QED BY <1>4, <2>1, <3>1 DEF Steady
  <2>2. CASE p[j] = r
    <3>1. p[i] = r \/ (i \in DOMAIN q /\ p[i] = q[i]) BY <1>1
    <3> QED BY <1>2, <1>4, <2>2, <3>1
  <2> QED BY <1>1, <2>1, <2>2
<1> QED BY <1>3, <1>4 DEF p

\* What is behind the first record of a queue is not older.
LEMMA TailInOrder ==
  ASSUME NEW s \in Nat, NEW q \in Seq(Record), q # <<>>
  PROVE  /\ \A n \in Nat : NotOlder(s, n, q) =>
               NotOlder(s, n, Tail(q)) /\ (n > s => Head(q).row >= n)
         /\ Steady(s, q) => /\ Steady(s, Tail(q))
                            /\ NotOlder(s, Head(q).row, Tail(q))
<1> DEFINE p == Tail(q)
<1>1. /\ 1 \in DOMAIN q /\ Head(q) = q[1]
      /\ \A i \in DOMAIN p :
           i \in Nat /\ 1 < i + 1 /\ i + 1 \in DOMAIN q /\ p[i] = q[i + 1]
  BY TailIs
<1> HIDE DEF p
<1>2. \A n \in Nat : NotOlder(s, n, q) =>
        NotOlder(s, n, p) /\ (n > s => Head(q).row >= n)
  BY <1>1 DEF NotOlder
<1>3. ASSUME Steady(s, q) PROVE Steady(s, p) /\ NotOlder(s, Head(q).row, p)
  <2>1. NotOlder(s, Head(q).row, p)
    BY <1>1, <1>3 DEF NotOlder, Steady
  <2>2. ASSUME NEW i \in DOMAIN p, NEW j \in DOMAIN p, i < j, p[i].row > s
        PROVE  p[j].row >= p[i].row
    <3>1. i + 1 < j + 1 BY <1>1, <2>2
    <3> QED BY <1>1, <1>3, <2>2, <3>1 DEF Steady
  <2> QED BY <2>1, <2>2 DEF Steady
<1> QED BY <1>2, <1>3 DEF p

----------------------------------------------------------------------------
(* Types.                                                                  *)

\* A new character, whose record is at its first version.
LEMMA InitIInv == Init => IInv
<1> SUFFICES ASSUME Init PROVE IInv
  OBVIOUS
<1>1. inChar \in Seq(Record) /\ inSave \in Seq(Record) /\ New \in Record
  BY DEF Init, New, Record
<1>2. TypeOK BY <1>1 DEF Init, TypeOK
<1>3. LogoutInv
  BY DEF Init, LogoutInv, HasRecord, LogoutAlone, NoLoginInSession, BetweenSessions
<1>4. Bounded BY DEF Init, Bounded, New
<1>5. InOrder BY DEF Init, InOrder
<1> QED BY <1>2, <1>3, <1>4, <1>5 DEF IInv

\* Every step keeps the types; the two writes do because there is a record.
LEMMA NextKeepsType == IInv /\ [Next]_vars => TypeOK'
<1> SUFFICES ASSUME TypeOK, HasRecord, [Next]_vars PROVE TypeOK'
  BY DEF IInv, LogoutInv
<1> USE DEF mapVars, charVars, saveVars, history
<1>0. /\ db \in Record /\ loaded \in Record /\ New \in Record
      /\ inChar \in Seq(Record) /\ inSave \in Seq(Record)
      /\ <<>> \in Seq(Record)
      /\ quit # "no" => mem \in Record
      /\ todb # "no" => writing \in Record
  BY DEF TypeOK, HasRecord, New, Record
<1>1. \A r \in Record, n \in Nat :
        /\ [r EXCEPT !.row = n] \in Record
        /\ [r EXCEPT !.tables = n] \in Record
  BY DEF Record
<1>2. CASE LoginPermitted \/ quit_begin \/ check_connect_char
             \/ check_connect_save \/ do_init
  <2>1. CASE LoginPermitted BY <2>1 DEF TypeOK, LoginPermitted
  <2>2. CASE quit_begin
    <3>1. /\ disturbed' \in BOOLEAN /\ quit' = "row"
          /\ UNCHANGED <<db, online, up, mem, charVars, inChar, inSave, saveVars,
                         version, since, kept, faults>>
      BY <2>2 DEF quit_begin
    <3> QED BY <3>1 DEF TypeOK
  <2>3. CASE check_connect_char BY <2>3 DEF TypeOK, check_connect_char
  <2>4. CASE check_connect_save BY <2>4 DEF TypeOK, check_connect_save
  <2>5. CASE do_init BY <2>5 DEF TypeOK, do_init
  <2> QED BY <1>2, <2>1, <2>2, <2>3, <2>4, <2>5
<1>3. CASE mmo_char_fromdb
  <2>1. loaded' \in Record
    BY <1>0, <1>1, <1>3, RowIsNat DEF mmo_char_fromdb
  <2> QED BY <1>3, <2>1 DEF TypeOK, mmo_char_fromdb
<1>4. CASE intif_mmo_tosd
  BY <1>0, <1>4 DEF TypeOK, intif_mmo_tosd
<1>5. CASE Play
  <2>1. version' \in Nat /\ mem' \in Record BY <1>5 DEF TypeOK, Play, Record
  <2> QED BY <1>5, <2>1 DEF TypeOK, Play
<1>6. CASE intif_save
  <2>1. mem \in Record BY <1>6 DEF TypeOK, intif_save
  <2>2. inChar' \in Seq(Record)
    BY <1>0, <1>6, <2>1, AppendIs DEF intif_save
  <2> QED BY <1>6, <2>2 DEF TypeOK, intif_save
<1>7. CASE mapif_parse_savechar
  <2>1. inChar' \in Seq(Record) /\ inSave' \in Seq(Record)
    BY <1>0, <1>7, AppendIs, TailIs DEF mapif_parse_savechar
  <2> QED BY <1>7, <2>1 DEF TypeOK, mapif_parse_savechar
<1>8. CASE charif_parse_savechar
  <2>1. inSave' \in Seq(Record) /\ Head(inSave) \in Record
    BY <1>0, <1>8, TailIs DEF charif_parse_savechar
  <2>2. CASE offline
    BY <1>8, <2>1, <2>2 DEF TypeOK, charif_parse_savechar
  <2>3. CASE ~offline
    <3>1. todb' = "row" /\ writing' \in Record /\ disturbed' \in BOOLEAN
      BY <1>8, <2>1, <2>3 DEF charif_parse_savechar
    <3>2. UNCHANGED <<db, online, mapVars, charVars, inChar, version, since, kept,
                      faults>>
      BY <1>8 DEF charif_parse_savechar
    <3> QED BY <2>1, <3>1, <3>2 DEF TypeOK
  <2> QED BY <2>2, <2>3
<1>9. CASE mmo_char_todb
  <2>1. db' \in Record
    BY <1>0, <1>1, <1>9, RowIsNat DEF mmo_char_todb
  <2> QED BY <1>9, <2>1 DEF TypeOK, mmo_char_todb
<1>10. CASE intif_savequit
  <2>1. db' \in Record
    BY <1>0, <1>1, <1>10, RowIsNat DEF intif_savequit
  <2> QED BY <1>10, <2>1 DEF TypeOK, intif_savequit
<1>11. CASE quit_flag
  BY <1>0, <1>11 DEF TypeOK, quit_flag
<1>12. ASSUME NEW kind, Fault(kind) PROVE faults' \in Nat
  BY <1>12 DEF TypeOK, Fault
<1>13. CASE mapif_parse_eof \/ CharLinkCut
  <2>1. faults' \in Nat
    BY <1>12, <1>13 DEF TypeOK, mapif_parse_eof, CharLinkCut
  <2>2. CASE mapif_parse_eof
    BY <1>0, <2>1, <2>2 DEF TypeOK, mapif_parse_eof, MapServerLost
  <2>3. CASE CharLinkCut
    BY <1>0, <2>1, <2>3 DEF TypeOK, CharLinkCut, MapServerLost
  <2> QED BY <1>13, <2>2, <2>3
<1>14. CASE Sweep
  <2>1. faults' \in Nat BY <1>12, <1>14 DEF Sweep
  <2>2. /\ disturbed' \in BOOLEAN /\ online' = FALSE
        /\ UNCHANGED <<db, up, mem, quit, linked, saveFd, load, loaded>>
        /\ UNCHANGED <<inChar, inSave, todb, writing, version, since, kept>>
    BY <1>14 DEF Sweep
  <2>3. (/\ inChar \in Seq(Record) /\ inSave \in Seq(Record)
         /\ todb \in {"no", "row", "tables"} /\ writing \in Record \cup {None}
         /\ version \in Nat /\ since \in Nat /\ kept \in Record)'
    BY <2>2 DEF TypeOK
  <2> QED BY <2>1, <2>2, <2>3 DEF TypeOK
<1>15. CASE SaveLinkCut \/ SaveCrash
  <2>1. faults' \in Nat BY <1>12, <1>15 DEF SaveLinkCut, SaveCrash
  <2>2. CASE SaveLinkCut
    <3>1. /\ saveFd' = FALSE /\ inSave' = <<>>
          /\ UNCHANGED <<db, online, up, mem, quit, linked, load, loaded, inChar>>
          /\ UNCHANGED <<todb, writing, version, since, kept, disturbed>>
      BY <2>2 DEF SaveLinkCut
    <3>2. (/\ inChar \in Seq(Record) /\ inSave \in Seq(Record)
           /\ todb \in {"no", "row", "tables"} /\ writing \in Record \cup {None}
           /\ version \in Nat /\ since \in Nat /\ kept \in Record)'
      BY <1>0, <3>1 DEF TypeOK
    <3> QED BY <2>1, <3>1, <3>2 DEF TypeOK
  <2>3. CASE SaveCrash
    <3>1. /\ disturbed' \in BOOLEAN /\ saveFd' = FALSE /\ inSave' = <<>>
          /\ todb' = "no" /\ writing' = None
          /\ UNCHANGED <<db, online, mapVars, linked, load, loaded, inChar,
                         version, since, kept>>
      BY <2>3 DEF SaveCrash
    <3> QED BY <1>0, <2>1, <3>1 DEF TypeOK
  <2> QED BY <1>15, <2>2, <2>3
<1>16. CASE MapCrash
  <2>1. faults' \in Nat BY <1>12, <1>16 DEF MapCrash
  <2>2. /\ disturbed' \in BOOLEAN /\ up' = FALSE /\ mem' = None /\ quit' = "no"
        /\ load' = "no" /\ loaded' = New
        /\ UNCHANGED <<db, online, linked, saveFd, inChar, inSave, saveVars,
                       version, since, kept>>
    BY <1>16 DEF MapCrash
  <2> QED BY <1>0, <2>1, <2>2 DEF TypeOK
<1>17. CASE UNCHANGED vars
  BY <1>17 DEF vars, TypeOK
<1>18. CASE MapServer
  BY <1>2, <1>4, <1>5, <1>6, <1>10, <1>11, <1>18 DEF MapServer
<1>19. CASE CharServer
  BY <1>2, <1>3, <1>7, <1>13, <1>19 DEF CharServer
<1>20. CASE SaveServer
  BY <1>8, <1>9, <1>20 DEF SaveServer
<1>21. CASE Faults
  BY <1>13, <1>14, <1>15, <1>16, <1>21 DEF Faults
<1> QED BY <1>17, <1>18, <1>19, <1>20, <1>21 DEF Next

----------------------------------------------------------------------------
(* The logout.                                                             *)

\* Writes and logouts keep their records.
LEMMA NextKeepsRecord == IInv /\ [Next]_vars => HasRecord'
<1> SUFFICES ASSUME TypeOK, HasRecord, [Next]_vars PROVE HasRecord'
  BY DEF IInv, LogoutInv
<1> USE CharSaveAssumption DEF mapVars, charVars, saveVars, history, HasRecord
<1>0. /\ loaded # None
      /\ inSave # <<>> => Head(inSave) # None
      /\ \A v \in Nat : [row |-> v, tables |-> v] # None
  <2>1. inSave # <<>> => Head(inSave) \in Record BY TailIs DEF TypeOK
  <2>2. \A v \in Nat : [row |-> v, tables |-> v] \in Record BY DEF Record
  <2> QED BY <2>1, <2>2 DEF TypeOK
<1>1. CASE MapServer
  <2>1. CASE Play
    <3>1. version' \in Nat BY <2>1 DEF Play, TypeOK
    <3> QED BY <1>0, <2>1, <3>1 DEF Play
  <2> QED BY <1>0, <1>1, <2>1
          DEF MapServer, intif_mmo_tosd, intif_save, quit_begin, intif_savequit,
              quit_flag, check_connect_char, do_init
<1>2. CASE CharServer
  BY <1>2 DEF CharServer, LoginPermitted, mmo_char_fromdb, mapif_parse_savechar,
              mapif_parse_eof, MapServerLost, check_connect_save
<1>3. CASE SaveServer
  BY <1>0, <1>3 DEF SaveServer, charif_parse_savechar, mmo_char_todb
<1>4. CASE Faults
  BY <1>4 DEF Faults, Sweep, CharLinkCut, MapServerLost, SaveLinkCut, MapCrash,
              SaveCrash
<1>5. CASE UNCHANGED vars
  BY <1>5 DEF vars
<1> QED BY <1>1, <1>2, <1>3, <1>4, <1>5 DEF Next

\* A login begins only while nobody plays, or during a logout whose flag is
\* clear already.
LEMMA NextKeepsNoLogin == IInv /\ [Next]_vars => NoLoginInSession'
<1> SUFFICES ASSUME TypeOK, NoLoginInSession, [Next]_vars PROVE NoLoginInSession'
  BY DEF IInv, LogoutInv
<1> USE DEF mapVars, charVars, saveVars, history, NoLoginInSession
<1>1. CASE MapServer
  BY <1>1 DEF MapServer, intif_mmo_tosd, Play, intif_save, quit_begin,
              intif_savequit, quit_flag, check_connect_char, do_init
<1>2. CASE CharServer
  BY <1>2 DEF CharServer, LoginPermitted, mmo_char_fromdb, mapif_parse_savechar,
              mapif_parse_eof, MapServerLost, check_connect_save
<1>3. CASE SaveServer
  BY <1>3 DEF SaveServer, charif_parse_savechar, mmo_char_todb
<1>4. CASE Faults
  BY <1>4 DEF Faults, Sweep, CharLinkCut, MapServerLost, SaveLinkCut, MapCrash,
              SaveCrash
<1>5. CASE UNCHANGED vars
  BY <1>5 DEF vars
<1> QED BY <1>1, <1>2, <1>3, <1>4, <1>5 DEF Next

\* While nothing disturbs it, a logout is the only writer and no login begins.
LEMMA NextKeepsLogout == IInv /\ [Next]_vars => LogoutAlone'
<1> SUFFICES ASSUME TypeOK, LogoutInv, [Next]_vars PROVE LogoutAlone'
  BY DEF IInv
<1> USE DEF mapVars, charVars, saveVars, history, LogoutInv, HasRecord, LogoutAlone,
            NoLoginInSession
<1>0. db \in Record /\ disturbed \in BOOLEAN /\ online \in BOOLEAN
  BY DEF TypeOK
<1>1. CASE intif_savequit
  <2>1. \A n : /\ [db EXCEPT !.row = n].row = n
               /\ [db EXCEPT !.tables = n].row = db.row
               /\ [db EXCEPT !.tables = n].tables = n
    BY <1>0 DEF Record
  <2> QED BY <1>1, <2>1 DEF intif_savequit
<1>2. CASE intif_mmo_tosd \/ Play \/ intif_save \/ quit_flag
             \/ check_connect_char \/ do_init
  BY <1>0, <1>2 DEF intif_mmo_tosd, Play, intif_save, quit_flag,
                    check_connect_char, do_init
<1>7. CASE quit_begin
  <2>1. disturbed' = (todb # "no" \/ ~online)
    BY <1>7 DEF quit_begin
  <2>2. ~disturbed' => todb = "no" /\ online
    BY <2>1, Zenon
  <2> QED BY <1>7, <2>2 DEF quit_begin
<1>3. CASE CharServer
  BY <1>0, <1>3 DEF CharServer, LoginPermitted, mmo_char_fromdb, mapif_parse_savechar,
              mapif_parse_eof, MapServerLost, check_connect_save
<1>4. CASE SaveServer
  BY <1>0, <1>4 DEF SaveServer, charif_parse_savechar, mmo_char_todb
<1>5. CASE Faults
  BY <1>0, <1>5 DEF Faults, Sweep, CharLinkCut, MapServerLost, SaveLinkCut, MapCrash,
              SaveCrash
<1>6. CASE UNCHANGED vars
  BY <1>6 DEF vars
<1> QED BY <1>1, <1>2, <1>3, <1>4, <1>5, <1>6, <1>7 DEF Next, MapServer

\* Between two sessions nothing is written, and a login reads what the logout
\* wrote.
LEMMA NextKeepsBetween == IInv /\ [Next]_vars => BetweenSessions'
<1> SUFFICES ASSUME TypeOK, LogoutInv, [Next]_vars PROVE BetweenSessions'
  BY DEF IInv
<1> USE DEF mapVars, charVars, saveVars, history, LogoutInv, HasRecord, LogoutAlone,
            BetweenSessions
<1>0. /\ db \in Record /\ disturbed \in BOOLEAN /\ online \in BOOLEAN
      /\ loaded \in Record /\ quit \in {"no", "row", "tables", "flag"}
      /\ mem \in Record \cup {None}
  BY DEF TypeOK
<1>1. \A r, s \in Record : r.row = s.row /\ r.tables = s.tables => r = s
  BY DEF Record
<1>2. CASE quit_flag
  <2>1. mem \in Record BY <1>0, <1>2 DEF quit_flag
  <2>2. ~disturbed => db = mem
    BY <1>0, <1>1, <1>2, <2>1 DEF quit_flag
  <2>3. ~disturbed => todb = "no" /\ load = "no"
    BY <1>2 DEF quit_flag
  <2>4. /\ kept' = mem /\ ~online'
        /\ UNCHANGED <<db, disturbed, todb, load, loaded>>
    BY <1>2 DEF quit_flag
  <2> SUFFICES ASSUME ~disturbed
               PROVE  db' = kept' /\ ~online' /\ todb' = "no" /\ load' = "no"
    BY <2>4
  <2> QED BY <2>2, <2>3, <2>4
<1>3. CASE mmo_char_fromdb
  <2>1. UNCHANGED <<db, mem, online, todb, kept, disturbed>>
    BY <1>3 DEF mmo_char_fromdb
  <2>2. CASE load = "row"
    <3>1. load' = "tables" /\ loaded'.row = db.row
      BY <1>0, <1>3, <2>2 DEF mmo_char_fromdb, Record
    <3> QED BY <2>1, <3>1
  <2>3. CASE load = "tables"
    <3>1. loaded'.row = loaded.row /\ loaded'.tables = db.tables
      BY <1>0, <1>3, <2>3 DEF mmo_char_fromdb, Record
    <3> QED BY <2>1, <2>3, <3>1
  <2> QED BY <1>3, <2>2, <2>3 DEF mmo_char_fromdb
<1>4. CASE intif_mmo_tosd \/ Play \/ intif_save
             \/ intif_savequit \/ check_connect_char \/ do_init
  <2>1. ASSUME Play PROVE mem' # None
    <3>1. mem' \in Record BY <2>1 DEF Play, Record, TypeOK
    <3> QED BY <3>1, CharSaveAssumption
  <2>2. loaded # None BY <1>0, CharSaveAssumption
  <2> QED BY <1>0, <1>4, <2>1, <2>2
          DEF intif_mmo_tosd, Play, intif_save, intif_savequit,
              check_connect_char, do_init
<1>5. CASE quit_begin
  BY <1>5 DEF quit_begin
<1>6. CASE LoginPermitted \/ mapif_parse_savechar \/ mapif_parse_eof
             \/ check_connect_save
  BY <1>0, <1>6 DEF LoginPermitted, mapif_parse_savechar,
              mapif_parse_eof, MapServerLost, check_connect_save
<1>7. CASE SaveServer
  BY <1>0, <1>7 DEF SaveServer, charif_parse_savechar, mmo_char_todb, offline
<1>8. CASE MapCrash
  <2>1. disturbed' = (disturbed \/ mem # None) BY <1>8 DEF MapCrash
  <2>2. ~disturbed' => ~disturbed /\ mem = None BY <2>1, Zenon
  <2> QED BY <1>8, <2>2 DEF MapCrash
<1>9. CASE SaveCrash
  <2>1. disturbed' = (disturbed \/ todb # "no") BY <1>9 DEF SaveCrash
  <2>2. ~disturbed' => ~disturbed /\ todb = "no" BY <2>1, Zenon
  <2> QED BY <1>9, <2>2 DEF SaveCrash
<1>10. CASE Sweep \/ CharLinkCut \/ SaveLinkCut
  <2>1. ASSUME Sweep PROVE ~disturbed' => ~disturbed
    BY <2>1 DEF Sweep
  <2> QED BY <1>0, <1>10, <2>1 DEF Sweep, CharLinkCut, MapServerLost, SaveLinkCut
<1>11. CASE UNCHANGED vars
  BY <1>11 DEF vars
<1> QED BY <1>2, <1>3, <1>4, <1>5, <1>6, <1>7, <1>8, <1>9, <1>10, <1>11
        DEF Next, MapServer, CharServer, Faults

----------------------------------------------------------------------------
(* The order of saves.                                                     *)

\* Versions only come from the record that is played.
LEMMA NextKeepsBounds == IInv /\ [Next]_vars => Bounded'
<1> SUFFICES ASSUME TypeOK, HasRecord, Bounded, [Next]_vars PROVE Bounded'
  BY DEF IInv, LogoutInv
<1> USE DEF mapVars, charVars, saveVars, history, HasRecord, Bounded
<1>0. /\ db \in Record /\ loaded \in Record /\ version \in Nat /\ since \in Nat
      /\ inChar \in Seq(Record) /\ inSave \in Seq(Record)
      /\ mem # None => mem \in Record
      /\ writing # None => writing \in Record
  BY DEF TypeOK
<1>2. New.row <= version BY <1>0 DEF New
<1>3. CASE Play
  BY <1>0, <1>3, RowIsNat DEF Play
<1>4. CASE mmo_char_fromdb
  <2>1. loaded'.row \in {db.row, loaded.row}
    BY <1>0, <1>4 DEF mmo_char_fromdb, Record
  <2> QED BY <1>4, <2>1 DEF mmo_char_fromdb
<1>5. CASE intif_savequit
  <2>1. mem # None /\ db'.row \in {mem.row, db.row}
    BY <1>0, <1>5 DEF intif_savequit, Record
  <2> QED BY <1>5, <2>1 DEF intif_savequit
<1>6. CASE mmo_char_todb
  <2>1. writing # None /\ db'.row \in {writing.row, db.row} /\ writing' \in {writing, None}
    BY <1>0, <1>6 DEF mmo_char_todb, Record
  <2> QED BY <1>6, <2>1 DEF mmo_char_todb
<1>7. CASE intif_mmo_tosd
  BY <1>0, <1>2, <1>7 DEF intif_mmo_tosd
<1>8. CASE intif_save
  <2>1. \A i \in DOMAIN inChar' : inChar'[i].row <= version
    BY <1>0, <1>8, AppendIs DEF intif_save
  <2> QED BY <1>8, <2>1 DEF intif_save
<1>9. CASE mapif_parse_savechar
  <2>1. Head(inChar) \in Record /\ Head(inChar).row <= version
    BY <1>0, <1>9, TailIs DEF mapif_parse_savechar
  <2>2. \A i \in DOMAIN inChar' : inChar'[i].row <= version
    BY <1>0, <1>9, TailIs DEF mapif_parse_savechar
  <2>3. \A i \in DOMAIN inSave' : inSave'[i].row <= version
    BY <1>0, <1>9, <2>1, AppendIs DEF mapif_parse_savechar
  <2> QED BY <1>9, <2>2, <2>3 DEF mapif_parse_savechar
<1>10. CASE charif_parse_savechar
  <2>1. Head(inSave).row <= version
    BY <1>0, <1>10, TailIs DEF charif_parse_savechar
  <2>2. \A i \in DOMAIN inSave' : inSave'[i].row <= version
    BY <1>0, <1>10, TailIs DEF charif_parse_savechar
  <2> QED BY <1>10, <2>1, <2>2 DEF charif_parse_savechar
<1>11. CASE LoginPermitted \/ quit_begin \/ quit_flag \/ check_connect_char
              \/ check_connect_save \/ do_init
  BY <1>11 DEF LoginPermitted, quit_begin, quit_flag, check_connect_char,
               check_connect_save, do_init
<1>12. CASE mapif_parse_eof \/ Faults
  BY <1>2, <1>12 DEF mapif_parse_eof, Faults, Sweep, CharLinkCut, MapServerLost,
                     SaveLinkCut, MapCrash, SaveCrash
<1>13. CASE UNCHANGED vars
  BY <1>13 DEF vars
<1> QED BY <1>3, <1>4, <1>5, <1>6, <1>7, <1>8, <1>9, <1>10, <1>11, <1>12, <1>13
        DEF Next, MapServer, CharServer, SaveServer

\* Saves of a session stay in the order in which it made them.
LEMMA NextKeepsOrder == IInv /\ [Next]_vars => InOrder'
<1> SUFFICES ASSUME TypeOK, HasRecord, Bounded, InOrder, [Next]_vars,
                    mem' # None, quit' = "no"
             PROVE  InOrder'
  BY DEF IInv, LogoutInv, InOrder
<1> USE DEF mapVars, charVars, saveVars, history
<1>0. /\ db \in Record /\ version \in Nat /\ since \in Nat
      /\ inChar \in Seq(Record) /\ inSave \in Seq(Record)
      /\ mem # None => mem \in Record
      /\ writing # None => writing \in Record
  BY DEF TypeOK
<1>1. /\ db.row \in Nat
      /\ \A i \in DOMAIN inChar : inChar[i].row \in Nat
      /\ \A i \in DOMAIN inSave : inSave[i].row \in Nat
      /\ mem # None => mem.row \in Nat
      /\ writing # None => writing.row \in Nat
  BY <1>0, RowIsNat
\* What is on the way stays there, and so does what was written.
<1>2. ASSUME UNCHANGED <<db, since, todb, writing, inChar, inSave>>,
             mem # None, quit = "no"
      PROVE  InOrder'
  BY <1>2 DEF InOrder, NotOlder, Steady, Follows
\* A queue that is emptied.
<1>3. ASSUME UNCHANGED <<db, since, writing>>, todb' \in {todb, "no"},
             inChar' \in {inChar, <<>>}, inSave' \in {inSave, <<>>},
             mem # None, quit = "no"
      PROVE  InOrder'
  <2>1. DOMAIN <<>> = {} OBVIOUS
  <2> QED BY <1>3, <2>1 DEF InOrder, NotOlder, Steady, Follows
<1>4. CASE intif_mmo_tosd
  <2>1. \A n \in Nat : n <= version => ~(n > version)
    BY <1>0
  <2> QED BY <1>0, <1>1, <1>4, <2>1
          DEF intif_mmo_tosd, InOrder, NotOlder, Steady, Follows, Bounded, HasRecord
<1>5. CASE Play
  BY <1>2, <1>5 DEF Play
<1>6. CASE intif_save
  <2>1. /\ mem # None /\ quit = "no" /\ mem \in Record
        /\ UNCHANGED <<db, since, todb, writing, inSave>>
        /\ inChar' \in {inChar, Append(inChar, mem)}
    BY <1>0, <1>6 DEF intif_save
  <2>2. \A n \in Nat : n > since /\ n <= version => mem.row >= n
    BY <1>0, <1>1, <2>1 DEF Bounded
  <2>3. \A n \in Nat : n <= version /\ NotOlder(since, n, inChar)
                        => NotOlder(since, n, inChar')
    BY <1>0, <2>1, <2>2, AppendInOrder
  <2>4. Steady(since, inChar')
    <3>1. Steady(since, inChar) BY <2>1 DEF InOrder
    <3>2. \A i \in DOMAIN inChar : inChar[i].row > since => mem.row >= inChar[i].row
      BY <1>1, <2>2 DEF Bounded
    <3> QED BY <1>0, <2>1, <3>1, <3>2, AppendInOrder
  <2>5. Follows(since, inSave, inChar')
    BY <1>1, <2>1, <2>3 DEF InOrder, Follows, Bounded
  <2>6. todb = "row" => writing # None
    BY DEF HasRecord
  <2> QED BY <1>1, <2>1, <2>3, <2>4, <2>5, <2>6 DEF InOrder, Bounded
<1>7. CASE mapif_parse_savechar
  <2> DEFINE h == Head(inChar)
  <2>1. /\ mem # None /\ quit = "no" /\ inChar # <<>>
        /\ UNCHANGED <<db, since, todb, writing>>
        /\ inChar' = Tail(inChar) /\ inSave' \in {inSave, Append(inSave, h)}
    BY <1>7 DEF mapif_parse_savechar
  <2>2. h \in Record /\ h.row \in Nat
    BY <1>0, <2>1, TailIs, RowIsNat
  <2>3. \A n \in Nat : NotOlder(since, n, inChar) =>
          NotOlder(since, n, inChar') /\ (n > since => h.row >= n)
    BY <1>0, <2>1, TailInOrder
  <2>4. NotOlder(since, h.row, inChar') /\ Steady(since, inChar')
    BY <1>0, <2>1, TailInOrder DEF InOrder
  <2>5. \A n \in Nat : NotOlder(since, n, inChar) /\ NotOlder(since, n, inSave)
                        => NotOlder(since, n, inSave')
    BY <1>0, <2>1, <2>2, <2>3, AppendInOrder
  <2>6. \A i \in DOMAIN inSave : inSave[i].row \in Nat /\ NotOlder(since, inSave[i].row, inChar)
    BY <1>1, <2>1 DEF InOrder, Follows
  <2>7. Follows(since, inSave', inChar')
    <3>1. CASE inSave' = inSave
      BY <2>3, <2>6, <3>1 DEF Follows
    <3>2. CASE inSave' = Append(inSave, h)
      <4>1. \A i \in DOMAIN inSave' :
              (i \in DOMAIN inSave /\ inSave'[i] = inSave[i]) \/ inSave'[i] = h
        BY <1>0, <2>2, <3>2, AppendIs
      <4> HIDE DEF h
      <4> QED BY <2>3, <2>4, <2>6, <4>1 DEF Follows
    <3> QED BY <2>1, <3>1, <3>2
  <2>8. Steady(since, inSave')
    <3>1. \A i \in DOMAIN inSave : inSave[i].row > since => h.row >= inSave[i].row
      BY <2>3, <2>6
    <3>2. Steady(since, inSave) BY <2>1 DEF InOrder
    <3> HIDE DEF h
    <3> QED BY <1>0, <2>1, <2>2, <3>1, <3>2, AppendInOrder
  <2>9. todb = "row" => writing # None
    BY DEF HasRecord
  <2> HIDE DEF h
  <2> QED BY <1>1, <2>1, <2>3, <2>4, <2>5, <2>7, <2>8, <2>9 DEF InOrder
<1>8. CASE charif_parse_savechar
  <2> DEFINE h == Head(inSave)
  <2>1. /\ mem # None /\ quit = "no" /\ inSave # <<>> /\ todb = "no"
        /\ UNCHANGED <<db, since, inChar>>
        /\ inSave' = Tail(inSave)
        /\ \/ todb' = todb
           \/ todb' = "row" /\ writing' = h
    BY <1>8 DEF charif_parse_savechar
  <2>2. h \in Record /\ h.row \in Nat
    BY <1>0, <2>1, TailIs, RowIsNat
  <2>3. \A n \in Nat : NotOlder(since, n, inSave) =>
          NotOlder(since, n, inSave') /\ (n > since => h.row >= n)
    BY <1>0, <2>1, TailInOrder
  <2>4. NotOlder(since, h.row, inSave') /\ Steady(since, inSave')
    BY <1>0, <2>1, TailInOrder DEF InOrder
  <2>5. NotOlder(since, h.row, inChar)
    BY <1>0, <2>1, TailIs DEF InOrder, Follows
  <2>6. Follows(since, inSave', inChar)
    <3>1. \A i \in DOMAIN inSave' : i + 1 \in DOMAIN inSave /\ inSave'[i] = inSave[i + 1]
      BY <1>0, <2>1, TailIs
    <3> QED BY <2>1, <3>1 DEF InOrder, Follows
  <2> HIDE DEF h
  <2> QED BY <1>1, <2>1, <2>3, <2>4, <2>5, <2>6 DEF InOrder
<1>9. CASE mmo_char_todb
  <2>1. /\ mem # None /\ quit = "no" /\ UNCHANGED <<since, inChar, inSave>>
    BY <1>9 DEF mmo_char_todb
  <2>2. CASE todb = "row"
    <3>1. todb' = "tables" /\ db'.row = writing.row
      BY <1>0, <1>9, <2>2 DEF mmo_char_todb, Record
    <3> QED BY <2>1, <2>2, <3>1 DEF InOrder, NotOlder, Steady, Follows
  <2>3. CASE todb = "tables"
    <3>1. todb' = "no" /\ db'.row = db.row
      BY <1>0, <1>9, <2>3 DEF mmo_char_todb, Record
    <3> QED BY <2>1, <2>3, <3>1 DEF InOrder, NotOlder, Steady, Follows
  <2> QED BY <1>9, <2>2, <2>3 DEF mmo_char_todb
<1>10. CASE LoginPermitted \/ mmo_char_fromdb \/ check_connect_char
              \/ check_connect_save \/ do_init \/ Sweep
  BY <1>2, <1>10 DEF LoginPermitted, mmo_char_fromdb, check_connect_char,
                     check_connect_save, do_init, Sweep
<1>11. CASE quit_begin \/ intif_savequit \/ quit_flag \/ MapCrash
  BY <1>11 DEF quit_begin, intif_savequit, quit_flag, MapCrash
<1>12. CASE mapif_parse_eof \/ CharLinkCut \/ SaveLinkCut
  BY <1>3, <1>12 DEF mapif_parse_eof, CharLinkCut, MapServerLost, SaveLinkCut
<1>13. CASE SaveCrash
  <2>1. /\ UNCHANGED <<db, since, inChar, mem, quit>> /\ todb' = "no" /\ inSave' = <<>>
    BY <1>13 DEF SaveCrash
  <2>2. DOMAIN <<>> = {} OBVIOUS
  <2> QED BY <2>1, <2>2 DEF InOrder, NotOlder, Steady, Follows
<1>14. CASE UNCHANGED vars
  BY <1>2, <1>14 DEF vars
<1> QED BY <1>4, <1>5, <1>6, <1>7, <1>8, <1>9, <1>10, <1>11, <1>12, <1>13, <1>14
        DEF Next, MapServer, CharServer, SaveServer, Faults

----------------------------------------------------------------------------
\* The inductive invariant holds in every reachable state.
THEOREM SpecIInv == Spec => []IInv
<1>1. IInv /\ [Next]_vars => IInv'
  BY NextKeepsType, NextKeepsRecord, NextKeepsLogout, NextKeepsNoLogin,
     NextKeepsBetween, NextKeepsBounds, NextKeepsOrder DEF IInv, LogoutInv
<1> QED BY <1>1, InitIInv, PTL DEF Spec

\* Every variable keeps its type: no write finds its record gone.
THEOREM SpecTypeOK == Spec => []TypeOK
<1>1. IInv => TypeOK BY DEF IInv
<1> QED BY <1>1, SpecIInv, PTL

\* Both parts of what a logout wrote stay until the next session, whatever
\* saves are under way (mmo_char_todb drops those of an offline character).
THEOREM SpecLogoutSaveStands == Spec => []LogoutSaveStands
<1>1. IInv => LogoutSaveStands
  BY DEF IInv, LogoutInv, BetweenSessions, LogoutSaveStands
<1> QED BY <1>1, SpecIInv, PTL

\* A session begins with exactly what the last logout wrote.
THEOREM SpecLoginSeesLogout == Spec => LoginSeesLogout
<1>1. IInv /\ [Next]_vars => [mem = None /\ mem' # None /\ ~disturbed => mem' = kept]_vars
  <2> SUFFICES ASSUME IInv, Next, mem = None, mem' # None, ~disturbed
               PROVE  mem' = kept
    OBVIOUS
  <2> USE DEF mapVars, charVars, saveVars, history
  <2>1. intif_mmo_tosd
    BY DEF Next, MapServer, CharServer, SaveServer, Faults, Play, intif_save,
           quit_begin, intif_savequit, quit_flag, check_connect_char, do_init,
           LoginPermitted, mmo_char_fromdb, mapif_parse_savechar, mapif_parse_eof,
           check_connect_save, charif_parse_savechar, mmo_char_todb, Sweep,
           CharLinkCut, MapServerLost, SaveLinkCut, MapCrash, SaveCrash
  <2>2. mem' = loaded /\ load = "sent" BY <2>1 DEF intif_mmo_tosd
  <2>3. loaded.row = kept.row /\ loaded.tables = kept.tables
    BY <2>2 DEF IInv, LogoutInv, BetweenSessions
  <2>4. loaded \in Record /\ kept \in Record BY DEF IInv, TypeOK
  <2> QED BY <2>2, <2>3, <2>4 DEF Record
<1> QED BY <1>1, SpecIInv, PTL DEF Spec, LoginSeesLogout

\* A periodic save puts an older row over a newer one only when it was made
\* before the session began: saves of one session arrive in order.
THEOREM SpecSaveNeverUndoesSession == Spec => SaveNeverUndoesSession
<1>1. IInv /\ [Next]_vars =>
        [mem # None /\ quit = "no" /\ todb = "row" /\ todb' = "tables"
           /\ writing.row < db.row => writing.row <= since]_vars
  <2> SUFFICES ASSUME IInv, mem # None, quit = "no", todb = "row",
                      writing.row < db.row
               PROVE  writing.row <= since
    OBVIOUS
  <2>1. db.row > since => writing.row >= db.row
    BY DEF IInv, InOrder
  <2>2. writing \in Record /\ db \in Record /\ since \in Nat
    BY DEF IInv, LogoutInv, HasRecord, TypeOK
  <2>3. writing.row \in Nat /\ db.row \in Nat BY <2>2, RowIsNat
  <2> QED BY <2>1, <2>2, <2>3
<1> QED BY <1>1, SpecIInv, PTL DEF Spec, SaveNeverUndoesSession
=============================================================================
