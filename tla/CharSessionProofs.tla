------------------------- MODULE CharSessionProofs -------------------------
(***************************************************************************)
(* Theorems about CharSession, for every set of clients and descriptors,   *)
(* every choice of faults and every bound.                                 *)
(*                                                                         *)
(* First the types, the index, the flag's session and the row's timer.     *)
(* Then that CharSession implements CharLease, and that its online flag is *)
(* right; both rest on where permissions are: each is in one place only, a *)
(* packet or the row.                                                      *)
(***************************************************************************)
EXTENDS CharSession, Integers, TLAPS

\* The helpers that change several variables at once keep the types.
LEMMA AppendKeepsType ==
  ASSUME TypeOK
  PROVE  /\ \A m \in ToMapMsg  : SendToMap(m)  => toMap'  \in Seq(ToMapMsg)
         /\ \A m \in ToCharMsg : SendToChar(m) => toChar' \in Seq(ToCharMsg)
<1>1. toMap \in Seq(ToMapMsg) /\ toChar \in Seq(ToCharMsg)
  BY DEF TypeOK
<1>2. ASSUME NEW m \in ToMapMsg PROVE Append(toMap, m) \in Seq(ToMapMsg)
  BY <1>1
<1>3. ASSUME NEW m \in ToCharMsg PROVE Append(toChar, m) \in Seq(ToCharMsg)
  BY <1>1
<1> QED BY <1>1, <1>2, <1>3 DEF SendToMap, SendToChar

\* An answer of the login server leaves each client in one of its states.
LEMMA ReplyKeepsType ==
  ASSUME TypeOK, NEW c \in Clients, NEW st \in {"idle", "redirected"}, Reply(c, st)
  PROVE  client' \in [Clients -> {"idle", "asked", "redirected", "connected"}]
  BY DEF TypeOK, Reply

\* Clearing all flags keeps the types of the two variables it changes.
LEMMA SweepKeepsType ==
  ASSUME TypeOK, mmo_setallonline
  PROVE  chaOnline' \in BOOLEAN /\ swept' \in BOOLEAN
<1>1. chaOnline' \in BOOLEAN BY DEF mmo_setallonline
<1>2. swept' = (swept \/ Live) BY DEF mmo_setallonline
<1> QED BY <1>1, <1>2, Zenon

\* What the types say of the message a server is about to read.
LEMMA HeadOfToMap ==
  ASSUME TypeOK, NEW type, FromChar(type)
  PROVE  /\ Head(toMap) \in ToMapMsg
         /\ Head(toMap).type = type
         /\ toMap' \in Seq(ToMapMsg)
  BY DEF TypeOK, FromChar

\* The same for the char server's packets ...
LEMMA HeadOfToChar ==
  ASSUME TypeOK, toChar # <<>>
  PROVE  /\ Head(toChar) \in ToCharMsg
         /\ Tail(toChar) \in Seq(ToCharMsg)
  BY DEF TypeOK

\* ... and for its login requests.
LEMMA HeadOfLogq ==
  ASSUME TypeOK, logq # <<>>
  PROVE  Head(logq) \in Clients /\ Tail(logq) \in Seq(Clients)
  BY DEF TypeOK

\* An entry of the descriptor table that is not None is a session.
LEMMA SessionIsRecord ==
  ASSUME TypeOK, NEW fd \in Fds, session[fd] # None
  PROVE  session[fd] \in Session
  BY DEF TypeOK

----------------------------------------------------------------------------
\* Each step of the char server keeps the types.
LEMMA CharServerKeepsType ==
  ASSUME TypeOK, CharServer
  PROVE  TypeOK'
<1> USE CharSessionAssumption
<1>1. CASE logif_parse_login
  <2> DEFINE c == Head(logq)
  <2>1. c \in Clients /\ logq' \in Seq(Clients)
    BY <1>1, HeadOfLogq DEF logif_parse_login
  <2>2. CASE LoginRefused(c)
    <3>1. client' \in [Clients -> {"idle", "asked", "redirected", "connected"}]
      BY <2>1, <2>2, ReplyKeepsType DEF LoginRefused
    <3> QED BY <1>1, <2>1, <2>2, <3>1 DEF TypeOK, logif_parse_login, LoginRefused, dbVars
  <2>3. CASE LoginOnline(c)
    <3>1. client' \in [Clients -> {"idle", "asked", "redirected", "connected"}]
      BY <2>1, <2>3, ReplyKeepsType DEF LoginOnline
    <3>2. toMap' \in Seq(ToMapMsg)
      <4>1. [type |-> "checkonline"] \in ToMapMsg BY DEF ToMapMsg
      <4> QED BY <2>3, <4>1, AppendKeepsType DEF LoginOnline
    <3> QED BY <1>1, <2>1, <2>3, <3>1, <3>2 DEF TypeOK, logif_parse_login, LoginOnline, dbVars
  <2>4. CASE LoginGrant(c)
    <3>1. grants' \in Nat BY <2>4 DEF LoginGrant, TypeOK
    <3>2. toMap' \in Seq(ToMapMsg)
      <4>1. [type |-> "authadd", client |-> c, grant |-> grants'] \in ToMapMsg
        BY <2>1, <3>1 DEF ToMapMsg
      <4> QED BY <2>4, <4>1, AppendKeepsType DEF LoginGrant
    <3>3. overlap' \in BOOLEAN BY <2>4 DEF LoginGrant
    <3> QED BY <1>1, <2>1, <2>4, <3>1, <3>2, <3>3 DEF TypeOK, logif_parse_login, LoginGrant, dbVars
  <2> QED BY <1>1, <2>2, <2>3, <2>4 DEF logif_parse_login
<1>2. CASE mapif_parse_login
  <2>1. toChar' \in Seq(ToCharMsg) /\ Head(toChar).client \in Clients
    BY <1>2, HeadOfToChar DEF mapif_parse_login, ToCharMsg
  <2>2. client' \in [Clients -> {"idle", "asked", "redirected", "connected"}]
    BY <1>2, <2>1, ReplyKeepsType DEF mapif_parse_login
  <2> QED BY <1>2, <2>1, <2>2 DEF TypeOK, mapif_parse_login, dbVars, historyVars
<1>3. CASE mapif_parse_requestchar
  <2> DEFINE m == Head(toChar)
  <2>1. toChar' \in Seq(ToCharMsg) /\ m.fd \in Fds /\ m.grant \in Nat
    BY <1>3, HeadOfToChar DEF mapif_parse_requestchar, ToCharMsg
  <2>2. [type |-> "charload", fd |-> m.fd, grant |-> m.grant] \in ToMapMsg
    BY <2>1 DEF ToMapMsg
  <2>3. toMap' \in Seq(ToMapMsg)
    BY <1>3, <2>2, AppendKeepsType DEF mapif_parse_requestchar
  <2> QED BY <1>3, <2>1, <2>3 DEF TypeOK, mapif_parse_requestchar, dbVars, historyVars
<1>4. CASE mapif_parse_eof
  <2>1. chaOnline' \in BOOLEAN /\ swept' \in BOOLEAN
    BY <1>4, SweepKeepsType DEF mapif_parse_eof
  <2>2. toChar' \in Seq(ToCharMsg)
    BY <1>4 DEF mapif_parse_eof
  <2> QED BY <1>4, <2>1, <2>2 DEF TypeOK, mapif_parse_eof
<1> QED BY <1>1, <1>2, <1>3, <1>4 DEF CharServer

----------------------------------------------------------------------------
\* Each step of the map server that reads a packet keeps the types.  A forced
\* logout does so because the entry of id_db has a session.
LEMMA PacketKeepsType ==
  ASSUME TypeOK, IndexedSessionIsLive, intif_parse_authadd \/ intif_parse_charload \/ intif_parse_checkonline
  PROVE  TypeOK'
<1> USE CharSessionAssumption
<1>1. CASE intif_parse_authadd
  <2> DEFINE m == Head(toMap)
  <2>1. m.client \in Clients /\ m.grant \in Nat /\ toMap' \in Seq(ToMapMsg)
    BY <1>1, HeadOfToMap DEF intif_parse_authadd, ToMapMsg
  <2>2. auth_add(Ip[m.client], m.grant)
    BY <1>1 DEF intif_parse_authadd
  <2>3. authorize' \in Row \cup {None} /\ authTimer' \in BOOLEAN
    <3>1. [ip |-> Ip[m.client], own |-> TRUE, grant |-> m.grant] \in Row
      BY <2>1 DEF Row
    <3> QED BY <2>2, <3>1 DEF auth_add, TypeOK
  <2>4. toChar' \in Seq(ToCharMsg)
    <3>1. [type |-> "login", client |-> m.client] \in ToCharMsg
      BY <2>1 DEF ToCharMsg
    <3> QED BY <1>1, <3>1, AppendKeepsType DEF intif_parse_authadd
  <2> QED BY <1>1, <2>1, <2>3, <2>4 DEF TypeOK, intif_parse_authadd, historyVars
<1>2. CASE intif_parse_charload
  <2> DEFINE fd == Head(toMap).fd
  <2>1. fd \in Fds /\ toMap' \in Seq(ToMapMsg)
    BY <1>2, HeadOfToMap DEF intif_parse_charload, ToMapMsg
  <2>2. CASE session[fd] = None \/ Plays(fd)
    BY <1>2, <2>1, <2>2 DEF TypeOK, intif_parse_charload, intif_mmo_tosd, historyVars
  <2>3. CASE session[fd] # None /\ ~Plays(fd)
    <3>1. session[fd] \in Session BY <2>1, <2>3, SessionIsRecord
    <3>2. session' = [session EXCEPT ![fd].sd = TRUE] /\ id_db' = fd /\ chaOnline' = TRUE
      BY <1>2, <2>3 DEF intif_parse_charload, intif_mmo_tosd
    <3>3. session' \in [Fds -> Session \cup {None}]
      BY <2>1, <3>1, <3>2 DEF TypeOK, Session
    <3> QED BY <1>2, <2>1, <3>2, <3>3 DEF TypeOK, intif_parse_charload, historyVars
  <2> QED BY <2>2, <2>3
<1>3. CASE intif_parse_checkonline
  <2>1. toMap' \in Seq(ToMapMsg)
    BY <1>3, HeadOfToMap DEF intif_parse_checkonline
  <2>2. session' \in [Fds -> Session \cup {None}]
    <3>1. CASE id_db = NoFd
      BY <1>3, <3>1 DEF TypeOK, intif_parse_checkonline
    <3>2. CASE id_db # NoFd
      <4>1. id_db \in Fds /\ session[id_db] \in Session
        BY <3>2, SessionIsRecord DEF TypeOK, IndexedSessionIsLive, Plays
      <4>2. session' = [session EXCEPT ![id_db].eof = TRUE]
        BY <1>3, <3>2 DEF intif_parse_checkonline
      <4> QED BY <4>1, <4>2 DEF TypeOK, Session
    <3> QED BY <3>1, <3>2
  <2> QED BY <1>3, <2>1, <2>2 DEF TypeOK, intif_parse_checkonline, dbVars, historyVars
<1> QED BY <1>1, <1>2, <1>3

----------------------------------------------------------------------------
\* The steps of clients and their descriptors keep the types.
LEMMA ClientKeepsType ==
  ASSUME TypeOK,
         \/ \E c \in Clients : ClientLogin(c) \/ ClientGiveUp(c) \/ connect_client(c)
         \/ \E fd \in Fds : SessionEof(fd) \/ clif_accept2(fd) \/ clif_parse_eof(fd)
  PROVE  TypeOK'
<1> USE CharSessionAssumption
<1>1. ASSUME NEW c \in Clients, ClientLogin(c) PROVE TypeOK'
  <2>1. logq' \in Seq(Clients) BY <1>1 DEF TypeOK, ClientLogin
  <2>2. client' \in [Clients -> {"idle", "asked", "redirected", "connected"}]
    BY <1>1 DEF TypeOK, ClientLogin
  <2> QED BY <1>1, <2>1, <2>2 DEF TypeOK, ClientLogin, dbVars, historyVars
<1>2. ASSUME NEW c \in Clients, ClientGiveUp(c) PROVE TypeOK'
  BY <1>2 DEF TypeOK, ClientGiveUp, dbVars, historyVars
<1>3. ASSUME NEW c \in Clients, connect_client(c) PROVE TypeOK'
  <2>1. session' \in [Fds -> Session \cup {None}]
    <3>1. [client |-> c, sd |-> FALSE, eof |-> FALSE] \in Session BY DEF Session
    <3> QED BY <1>3, <3>1 DEF TypeOK, connect_client
  <2> QED BY <1>3, <2>1 DEF TypeOK, connect_client, dbVars, historyVars
<1>4. ASSUME NEW fd \in Fds, session[fd] \in Session
      PROVE  [session EXCEPT ![fd].eof = TRUE] \in [Fds -> Session \cup {None}]
  BY <1>4 DEF TypeOK, Session
<1>5. ASSUME NEW fd \in Fds, SessionEof(fd) PROVE TypeOK'
  <2>1. session' \in [Fds -> Session \cup {None}]
    BY <1>4, <1>5, SessionIsRecord DEF SessionEof
  <2> QED BY <1>5, <2>1 DEF TypeOK, SessionEof, dbVars, historyVars
<1>6. ASSUME NEW fd \in Fds, clif_accept2(fd) PROVE TypeOK'
  <2>1. session[fd] \in Session BY <1>6, SessionIsRecord DEF clif_accept2
  <2>2. CASE auth_check(Ip[session[fd].client])
    <3>1. authorize \in Row BY <2>2 DEF TypeOK, auth_check
    <3>2. toChar' \in Seq(ToCharMsg)
      <4>1. [type |-> "requestchar", fd |-> fd, grant |-> authorize.grant] \in ToCharMsg
        BY <3>1 DEF Row, ToCharMsg
      <4> QED BY <1>6, <2>2, <4>1, AppendKeepsType DEF clif_accept2, intif_load, TypeOK
    <3>3. authorize' = None /\ authTimer' \in BOOLEAN /\ session' = session
      BY <1>6, <2>2 DEF clif_accept2, auth_delete
    <3> QED BY <1>6, <3>2, <3>3 DEF TypeOK, clif_accept2, historyVars
  <2>3. CASE ~auth_check(Ip[session[fd].client])
    <3>1. session' \in [Fds -> Session \cup {None}]
      BY <1>4, <1>6, <2>1, <2>3 DEF clif_accept2
    <3> QED BY <1>6, <2>3, <3>1 DEF TypeOK, clif_accept2, historyVars
  <2> QED BY <2>2, <2>3
<1>7. ASSUME NEW fd \in Fds, clif_parse_eof(fd) PROVE TypeOK'
  <2>1. id_db' \in Fds \cup {NoFd} /\ chaOnline' \in BOOLEAN
    BY <1>7 DEF TypeOK, clif_parse_eof, clif_handle_disconnect
  <2>2. session' \in [Fds -> Session \cup {None}]
    BY <1>7 DEF TypeOK, clif_parse_eof
  <2>3. client' \in [Clients -> {"idle", "asked", "redirected", "connected"}]
    BY <1>7 DEF TypeOK, clif_parse_eof
  <2> QED BY <1>7, <2>1, <2>2, <2>3 DEF TypeOK, clif_parse_eof, historyVars
<1> QED BY <1>1, <1>2, <1>3, <1>5, <1>6, <1>7

\* So do timers, reconnections, starts and faults.
LEMMA FaultKeepsType ==
  ASSUME TypeOK,
         \/ auth_timer \/ intif_parse_eof \/ check_connect_char \/ do_init
         \/ LinkCut \/ MapCrash \/ CharCrash \/ OtherServerSweep
  PROVE  TypeOK'
<1>1. CASE auth_timer
  BY <1>1 DEF TypeOK, auth_timer, historyVars
<1>2. CASE intif_parse_eof
  <2>1. toMap' \in Seq(ToMapMsg) BY <1>2 DEF intif_parse_eof
  <2> QED BY <1>2, <2>1 DEF TypeOK, intif_parse_eof, dbVars, historyVars
<1>3. CASE check_connect_char
  BY <1>3 DEF TypeOK, check_connect_char, dbVars, historyVars
<1>4. CASE do_init
  <2>1. chaOnline' \in BOOLEAN /\ swept' \in BOOLEAN
    BY <1>4, SweepKeepsType DEF do_init
  <2> QED BY <1>4, <2>1 DEF TypeOK, do_init
<1>5. ASSUME NEW kind, Fault(kind) PROVE faults' \in Nat
  BY <1>5 DEF TypeOK, Fault
<1>6. CASE LinkCut
  BY <1>5, <1>6 DEF TypeOK, LinkCut, dbVars
<1>7. CASE MapCrash
  <2>1. authorize' \in Row \cup {None}
    BY <1>7 DEF TypeOK, MapCrash, Row
  <2>2. toMap' \in Seq(ToMapMsg) /\ session' \in [Fds -> Session \cup {None}]
    BY <1>7 DEF MapCrash
  <2>3. client' \in [Clients -> {"idle", "asked", "redirected", "connected"}]
    BY <1>7 DEF TypeOK, MapCrash
  <2> QED BY <1>5, <1>7, <2>1, <2>2, <2>3 DEF TypeOK, MapCrash
<1>8. CASE CharCrash
  <2>1. logq' \in Seq(Clients) /\ toChar' \in Seq(ToCharMsg)
    BY <1>8 DEF CharCrash
  <2> QED BY <1>5, <1>8, <2>1 DEF TypeOK, CharCrash, dbVars
<1>9. CASE OtherServerSweep
  <2>1. chaOnline' \in BOOLEAN /\ swept' \in BOOLEAN
    BY <1>9, SweepKeepsType DEF OtherServerSweep
  <2> QED BY <1>5, <1>9, <2>1 DEF TypeOK, OtherServerSweep
<1> QED BY <1>1, <1>2, <1>3, <1>4, <1>6, <1>7, <1>8, <1>9

----------------------------------------------------------------------------
\* The types do not stand alone: a forced logout writes to the session that
\* id_db finds, so they need IndexedSessionIsLive, and that needs them.
IInv == TypeOK /\ IndexedSessionIsLive /\ OnlineHasSession /\ AuthTimerMatchesRow

\* Nobody plays and no row is there when the servers start.
THEOREM InitIInv == Init => IInv
<1> SUFFICES ASSUME Init PROVE IInv
  OBVIOUS
<1>1. session \in [Fds -> Session \cup {None}] /\ logq \in Seq(Clients)
      /\ toMap \in Seq(ToMapMsg) /\ toChar \in Seq(ToCharMsg)
  BY DEF Init
<1>2. TypeOK
  BY <1>1 DEF Init, TypeOK
<1> QED BY <1>2 DEF Init, IInv, IndexedSessionIsLive, OnlineHasSession, AuthTimerMatchesRow

\* Every step keeps the types.
LEMMA NextKeepsType == IInv /\ [Next]_vars => TypeOK'
<1> SUFFICES ASSUME IInv, [Next]_vars PROVE TypeOK'
  OBVIOUS
<1>1. CASE Next
  BY <1>1, CharServerKeepsType, PacketKeepsType, ClientKeepsType, FaultKeepsType
     DEF Next, CharServer, MapServer, Environment, IInv
<1>2. CASE UNCHANGED vars
  BY <1>2 DEF vars, IInv, TypeOK
<1> QED BY <1>1, <1>2

\* An entry of id_db keeps its session: only the end of a playing session
\* takes a session away, and that clears the entry.
LEMMA NextKeepsIndex == IInv /\ [Next]_vars => IndexedSessionIsLive'
<1> SUFFICES ASSUME IInv, [Next]_vars PROVE IndexedSessionIsLive'
  OBVIOUS
<1> USE CharSessionAssumption DEF IInv, IndexedSessionIsLive, Plays
<1>0. id_db # NoFd => id_db \in Fds /\ session[id_db] \in Session
  BY SessionIsRecord DEF TypeOK
<1>1. CASE UNCHANGED <<session, id_db>>
  BY <1>1
<1>2. CASE intif_parse_charload
  <2> DEFINE fd == Head(toMap).fd
  <2>1. CASE session[fd] = None \/ Plays(fd)
    BY <1>1, <1>2, <2>1 DEF intif_parse_charload, intif_mmo_tosd
  <2>2. CASE session[fd] # None /\ ~Plays(fd)
    <3>1. fd \in Fds BY <1>2, HeadOfToMap DEF intif_parse_charload, ToMapMsg
    <3>2. session[fd] \in Session BY <2>2, <3>1, SessionIsRecord
    <3>3. session' = [session EXCEPT ![fd].sd = TRUE] /\ id_db' = fd
      BY <1>2, <2>2 DEF intif_parse_charload, intif_mmo_tosd
    <3>4. session'[fd] \in Session /\ session'[fd].sd
      BY <3>1, <3>2, <3>3 DEF TypeOK, Session
    <3> QED BY <3>3, <3>4
  <2> QED BY <2>1, <2>2
<1>3. ASSUME NEW fd \in Fds, session[fd] # None,
             session' = [session EXCEPT ![fd].eof = TRUE], id_db' = id_db
      PROVE  IndexedSessionIsLive'
  <2>1. CASE id_db = NoFd BY <1>3, <2>1
  <2>2. CASE id_db # NoFd
    <3>1. session[fd] \in Session BY <1>3, SessionIsRecord
    <3>2. session'[id_db] \in Session /\ session'[id_db].sd
      BY <1>0, <1>3, <2>2, <3>1 DEF TypeOK, Session
    <3> QED BY <1>3, <3>2
  <2> QED BY <2>1, <2>2
<1>4. CASE intif_parse_checkonline
  BY <1>0, <1>1, <1>3, <1>4 DEF intif_parse_checkonline
<1>5. ASSUME NEW c \in Clients, connect_client(c) PROVE IndexedSessionIsLive'
  BY <1>0, <1>5 DEF connect_client, TypeOK
<1>6. ASSUME NEW fd \in Fds, clif_accept2(fd) PROVE IndexedSessionIsLive'
  BY <1>1, <1>3, <1>6 DEF clif_accept2
<1>7. ASSUME NEW fd \in Fds, SessionEof(fd) PROVE IndexedSessionIsLive'
  BY <1>3, <1>7 DEF SessionEof
<1>8. ASSUME NEW fd \in Fds, clif_parse_eof(fd) PROVE IndexedSessionIsLive'
  BY <1>0, <1>8 DEF clif_parse_eof, clif_handle_disconnect, TypeOK
<1>9. CASE MapCrash
  BY <1>9 DEF MapCrash
<1>10. CASE CharServer
  BY <1>1, <1>10 DEF CharServer, logif_parse_login, mapif_parse_login,
                     mapif_parse_requestchar, mapif_parse_eof
<1>11. CASE intif_parse_authadd \/ intif_parse_eof \/ check_connect_char
              \/ auth_timer \/ do_init
  BY <1>1, <1>11 DEF intif_parse_authadd, intif_parse_eof, check_connect_char,
                     auth_timer, do_init
<1>12. ASSUME NEW c \in Clients, ClientLogin(c) \/ ClientGiveUp(c)
       PROVE  IndexedSessionIsLive'
  BY <1>1, <1>12 DEF ClientLogin, ClientGiveUp
<1>13. CASE LinkCut \/ CharCrash \/ OtherServerSweep
  BY <1>1, <1>13 DEF LinkCut, CharCrash, OtherServerSweep
<1>14. CASE UNCHANGED vars
  BY <1>1, <1>14 DEF vars
<1> QED BY <1>2, <1>4, <1>5, <1>6, <1>7, <1>8, <1>9, <1>10, <1>11, <1>12, <1>13, <1>14
        DEF Next, MapServer, Environment

\* A set flag keeps its session or a stopped server: the flag is set together
\* with the entry and cleared with it, and a server that starts clears it.
LEMMA NextKeepsOnline == IInv /\ [Next]_vars => OnlineHasSession'
<1> SUFFICES ASSUME IInv, [Next]_vars PROVE OnlineHasSession'
  OBVIOUS
<1> USE CharSessionAssumption DEF IInv, OnlineHasSession
<1>1. CASE UNCHANGED <<chaOnline, id_db, up>>
  BY <1>1
<1>2. CASE chaOnline' = FALSE
  BY <1>2
<1>3. CASE up' = FALSE
  BY <1>3
<1>4. CASE intif_parse_charload
  <2>1. Head(toMap).fd \in Fds
    BY <1>4, HeadOfToMap DEF intif_parse_charload, ToMapMsg
  <2> QED BY <1>1, <1>4, <2>1 DEF intif_parse_charload, intif_mmo_tosd
<1>5. ASSUME NEW fd \in Fds, clif_parse_eof(fd) PROVE OnlineHasSession'
  BY <1>1, <1>2, <1>5 DEF clif_parse_eof, clif_handle_disconnect
<1>6. ASSUME NEW fd \in Fds, clif_accept2(fd) \/ SessionEof(fd)
      PROVE  OnlineHasSession'
  BY <1>1, <1>6 DEF clif_accept2, SessionEof, dbVars
<1>7. ASSUME NEW c \in Clients, ClientLogin(c) \/ ClientGiveUp(c) \/ connect_client(c)
      PROVE  OnlineHasSession'
  BY <1>1, <1>7 DEF ClientLogin, ClientGiveUp, connect_client, dbVars
<1>8. CASE CharServer
  BY <1>1, <1>2, <1>8
     DEF CharServer, logif_parse_login, mapif_parse_login, mapif_parse_requestchar,
         mapif_parse_eof, mmo_setallonline, dbVars
<1>9. CASE intif_parse_authadd \/ intif_parse_checkonline \/ intif_parse_eof
             \/ check_connect_char \/ auth_timer
  BY <1>1, <1>9 DEF intif_parse_authadd, intif_parse_checkonline, intif_parse_eof,
                    check_connect_char, auth_timer, dbVars
<1>10. CASE do_init \/ OtherServerSweep
  BY <1>2, <1>10 DEF do_init, OtherServerSweep, mmo_setallonline
<1>11. CASE MapCrash
  BY <1>3, <1>11 DEF MapCrash
<1>12. CASE LinkCut \/ CharCrash
  BY <1>1, <1>12 DEF LinkCut, CharCrash, dbVars
<1>13. CASE UNCHANGED vars
  BY <1>1, <1>13 DEF vars
<1> QED BY <1>4, <1>5, <1>6, <1>7, <1>8, <1>9, <1>10, <1>11, <1>12, <1>13
        DEF Next, MapServer, Environment

\* The row and its timer come and go together.
LEMMA NextKeepsTimer == IInv /\ [Next]_vars => AuthTimerMatchesRow'
<1> SUFFICES ASSUME IInv, [Next]_vars PROVE AuthTimerMatchesRow'
  OBVIOUS
<1> USE CharSessionAssumption DEF IInv, AuthTimerMatchesRow
<1>1. CASE UNCHANGED <<authorize, authTimer>>
  BY <1>1
<1>2. CASE authorize' = None /\ authTimer' = FALSE
  BY <1>2
<1>3. CASE intif_parse_authadd
  <2> DEFINE m == Head(toMap)
             row == [ip |-> Ip[m.client], own |-> TRUE, grant |-> m.grant]
  <2>1. m.client \in Clients /\ m.grant \in Nat
    BY <1>3, HeadOfToMap DEF intif_parse_authadd, ToMapMsg
  <2>2. row \in Row /\ row.own
    BY <2>1 DEF Row
  <2>3. CASE authorize = None
    BY <1>3, <2>2, <2>3 DEF intif_parse_authadd, auth_add
  <2>4. CASE authorize # None
    BY <1>1, <1>3, <2>4 DEF intif_parse_authadd, auth_add
  <2> QED BY <2>3, <2>4
<1>4. ASSUME NEW fd \in Fds, clif_accept2(fd) PROVE AuthTimerMatchesRow'
  <2>1. CASE auth_check(Ip[session[fd].client])
    <3>1. authorize' = None /\ authTimer' = (authTimer /\ ~authorize.own)
      BY <1>4, <2>1 DEF clif_accept2, auth_delete
    <3>2. ~(authTimer /\ ~authorize.own)
      BY Zenon
    <3> QED BY <1>2, <3>1, <3>2
  <2>2. CASE ~auth_check(Ip[session[fd].client])
    BY <1>1, <1>4, <2>2 DEF clif_accept2
  <2> QED BY <2>1, <2>2
<1>5. CASE auth_timer
  BY <1>2, <1>5 DEF auth_timer
<1>6. CASE MapCrash
  <2>1. authorize # None => authorize \in Row BY DEF TypeOK
  <2> QED BY <1>6, <2>1 DEF MapCrash, Row
<1>7. ASSUME NEW fd \in Fds, clif_parse_eof(fd) \/ SessionEof(fd)
      PROVE  AuthTimerMatchesRow'
  BY <1>1, <1>7 DEF clif_parse_eof, SessionEof, dbVars
<1>8. ASSUME NEW c \in Clients, ClientLogin(c) \/ ClientGiveUp(c) \/ connect_client(c)
      PROVE  AuthTimerMatchesRow'
  BY <1>1, <1>8 DEF ClientLogin, ClientGiveUp, connect_client, dbVars
<1>9. CASE CharServer
  BY <1>1, <1>9 DEF CharServer, logif_parse_login, mapif_parse_login,
                    mapif_parse_requestchar, mapif_parse_eof, dbVars
<1>10. CASE intif_parse_charload \/ intif_parse_checkonline \/ intif_parse_eof
              \/ check_connect_char \/ do_init
  BY <1>1, <1>10 DEF intif_parse_charload, intif_parse_checkonline, intif_parse_eof,
                     check_connect_char, do_init, dbVars
<1>11. CASE LinkCut \/ CharCrash \/ OtherServerSweep
  BY <1>1, <1>11 DEF LinkCut, CharCrash, OtherServerSweep, dbVars
<1>12. CASE UNCHANGED vars
  BY <1>1, <1>12 DEF vars
<1> QED BY <1>3, <1>4, <1>5, <1>6, <1>7, <1>8, <1>9, <1>10, <1>11, <1>12
        DEF Next, MapServer, Environment

----------------------------------------------------------------------------
\* The inductive invariant holds in every reachable state.
THEOREM SpecIInv == Spec => []IInv
<1>1. IInv /\ [Next]_vars => IInv'
  BY NextKeepsType, NextKeepsIndex, NextKeepsOnline, NextKeepsTimer DEF IInv
<1> QED BY <1>1, InitIInv, PTL DEF Spec

\* Every variable keeps its type, in particular the descriptor table when a
\* forced logout arrives (intif_parse_checkonline).
THEOREM SpecTypeOK == Spec => []TypeOK
<1>1. IInv => TypeOK BY DEF IInv
<1> QED BY <1>1, SpecIInv, PTL

\* id_db never points to a USER that session_eof has freed.
THEOREM SpecIndexedSessionIsLive == Spec => []IndexedSessionIsLive
<1>1. IInv => IndexedSessionIsLive BY DEF IInv
<1> QED BY <1>1, SpecIInv, PTL

\* A set ChaOnline always has a session to kick or a server to clear it.
THEOREM SpecOnlineHasSession == Spec => []OnlineHasSession
<1>1. IInv => OnlineHasSession BY DEF IInv
<1> QED BY <1>1, SpecIInv, PTL

\* No Authorize row outlives its timer and no timer its row, as long as the
\* process that added the row runs.
THEOREM SpecAuthTimerMatchesRow == Spec => []AuthTimerMatchesRow
<1>1. IInv => AuthTimerMatchesRow BY DEF IInv
<1> QED BY <1>1, SpecIInv, PTL

----------------------------------------------------------------------------
\* Packets that carry a permission, and the permissions in a link or the row.
Carries(m) == m.type \in {"authadd", "charload", "requestchar"}
Carried(q) == {q[i].grant : i \in {j \in DOMAIN q : Carries(q[j])}}
InRow      == IF authorize = None THEN {} ELSE {authorize.grant}

\* No permission is twice in a link.
Distinct(q) ==
  \A i, j \in DOMAIN q :
    Carries(q[i]) /\ Carries(q[j]) /\ q[i].grant = q[j].grant => i = j

\* Each permission is in one place, and was given.
GrantsApart ==
  /\ Distinct(toMap) /\ Distinct(toChar)
  /\ Carried(toMap) \cap Carried(toChar) = {}
  /\ InRow \cap (Carried(toMap) \cup Carried(toChar)) = {}
  /\ \A g \in PendingGrants : g \in Nat /\ g <= grants

\* Nobody plays on a map server that is down.
DownIsEmpty == ~up => ~Live

\* While no two logins overlapped there is one permission at most, and while
\* the flag was not swept either, none is left when somebody plays.
OneGrant ==
  ~overlap => \A g, h \in PendingGrants : g = h
OneOrTheOther ==
  ~swept /\ ~overlap => AtMostOnePlayer /\ (Live => PendingGrants = {})

FlagInv == DownIsEmpty /\ OneGrant /\ OneOrTheOther /\ FlagIsRight

\* The steps of the lease, with what they do to the history.
Players == {fd \in Fds : Plays(fd)}
Permits ==
  /\ Lease!Permit
  /\ overlap' = (overlap \/ PendingGrants # {})
  /\ UNCHANGED <<up, swept>>
Enters  == Lease!Enter /\ up /\ UNCHANGED <<up, swept, overlap>>
Lapses  == Lease!Lapse /\ UNCHANGED <<up, swept, overlap>>
Leaves  == Lease!Leave /\ UNCHANGED <<up, swept, overlap>>
Sweeps  ==
  /\ Lease!Sweep
  /\ swept' = (swept \/ Live)
  /\ up' \in {up, TRUE}
  /\ UNCHANGED overlap
Crashes == Lease!Crash /\ ~up' /\ UNCHANGED <<swept, overlap>>

LeaseStep == Permits \/ Enters \/ Lapses \/ Leaves \/ Sweeps \/ Crashes

----------------------------------------------------------------------------
(* Links.                                                                  *)

\* A permission is in a link when some packet there carries it.
LEMMA CarriedIs ==
  ASSUME NEW q, NEW g
  PROVE  g \in Carried(q) <=> \E i \in DOMAIN q : Carries(q[i]) /\ g = q[i].grant
  BY DEF Carried

\* A message that is added brings its permission, if it carries one.
LEMMA AppendCarries ==
  ASSUME NEW S, NEW q \in Seq(S), NEW m \in S
  PROVE  Carried(Append(q, m)) =
           Carried(q) \cup (IF Carries(m) THEN {m.grant} ELSE {})
<1> DEFINE r == Append(q, m)
<1>1. /\ DOMAIN q = 1 .. Len(q) /\ DOMAIN r = 1 .. Len(q) + 1
      /\ \A i \in DOMAIN q : r[i] = q[i]
      /\ r[Len(q) + 1] = m /\ Len(q) \in Nat
  OBVIOUS
<1>2. ASSUME NEW g
      PROVE  g \in Carried(r) <=> g \in Carried(q) \/ (Carries(m) /\ g = m.grant)
  <2> HIDE DEF r
  <2>1. g \in Carried(r) <=> \E i \in DOMAIN r : Carries(r[i]) /\ g = r[i].grant
    BY CarriedIs
  <2>2. g \in Carried(q) <=> \E i \in DOMAIN q : Carries(q[i]) /\ g = q[i].grant
    BY CarriedIs
  <2>3. \A i : i \in DOMAIN r => i \in DOMAIN q \/ i = Len(q) + 1
    BY <1>1
  <2>4. \A i \in DOMAIN q : r[i] = q[i] /\ i \in DOMAIN r
    BY <1>1
  <2>5. Len(q) + 1 \in DOMAIN r /\ r[Len(q) + 1] = m
    BY <1>1
  <2>6. g \in Carried(r) => g \in Carried(q) \/ (Carries(m) /\ g = m.grant)
    BY <2>1, <2>2, <2>3, <2>4, <2>5
  <2>7. g \in Carried(q) \/ (Carries(m) /\ g = m.grant) => g \in Carried(r)
    BY <2>1, <2>2, <2>4, <2>5
  <2> QED BY <2>6, <2>7
<1> HIDE DEF r
<1> QED BY <1>2 DEF r

\* A message with a permission the link does not hold leaves all distinct.
LEMMA AppendDistinct ==
  ASSUME NEW S, NEW q \in Seq(S), NEW m \in S, Distinct(q),
         Carries(m) => m.grant \notin Carried(q)
  PROVE  Distinct(Append(q, m))
<1> DEFINE r == Append(q, m)
<1>1. /\ DOMAIN q = 1 .. Len(q) /\ DOMAIN r = 1 .. Len(q) + 1
      /\ \A i \in DOMAIN q : r[i] = q[i]
      /\ r[Len(q) + 1] = m /\ Len(q) \in Nat
  OBVIOUS
<1>2. \A i \in DOMAIN q : Carries(q[i]) /\ Carries(m) => q[i].grant # m.grant
  BY CarriedIs
<1>3. \A i : i \in DOMAIN r <=> i \in DOMAIN q \/ i = Len(q) + 1
  BY <1>1
<1> HIDE DEF r
<1>4. Distinct(r)
  BY <1>1, <1>2, <1>3 DEF Distinct
<1> QED BY <1>4 DEF r

\* A message that is read takes its permission out of the link.
LEMMA TailCarries ==
  ASSUME NEW S, NEW q \in Seq(S), q # <<>>, Distinct(q)
  PROVE  /\ Distinct(Tail(q))
         /\ Carried(Tail(q)) =
              Carried(q) \ (IF Carries(Head(q)) THEN {Head(q).grant} ELSE {})
         /\ Carries(Head(q)) => Head(q).grant \in Carried(q)
<1> DEFINE r == Tail(q)
<1>1. /\ DOMAIN q = 1 .. Len(q) /\ DOMAIN r = 1 .. Len(q) - 1
      /\ \A i \in DOMAIN r : r[i] = q[i + 1] /\ i + 1 \in DOMAIN q /\ i # 0
      /\ Head(q) = q[1] /\ 1 \in DOMAIN q /\ Len(q) \in Nat
      /\ \A j \in DOMAIN q : j = 1 \/ (j - 1 \in DOMAIN r /\ r[j - 1] = q[j])
      /\ \A i \in DOMAIN r : i \in Int /\ i + 1 # 1
  OBVIOUS
<1> HIDE DEF r
<1>2. Distinct(r)
  <2> SUFFICES ASSUME NEW i \in DOMAIN r, NEW j \in DOMAIN r,
                      Carries(r[i]), Carries(r[j]), r[i].grant = r[j].grant
               PROVE  i = j
    BY DEF Distinct
  <2>1. i + 1 = j + 1
    BY <1>1 DEF Distinct
  <2> QED BY <1>1, <2>1
<1>3. Carries(Head(q)) => Head(q).grant \in Carried(q)
  BY <1>1, CarriedIs
<1>4. ASSUME NEW g
      PROVE  g \in Carried(r) <=>
               g \in Carried(q) /\ ~(Carries(Head(q)) /\ g = Head(q).grant)
  <2>1. g \in Carried(r) <=> \E i \in DOMAIN r : Carries(r[i]) /\ g = r[i].grant
    BY CarriedIs
  <2>2. g \in Carried(q) <=> \E i \in DOMAIN q : Carries(q[i]) /\ g = q[i].grant
    BY CarriedIs
  <2>3. ASSUME NEW i \in DOMAIN r, Carries(r[i]), g = r[i].grant
        PROVE  g \in Carried(q) /\ ~(Carries(Head(q)) /\ g = Head(q).grant)
    <3>1. i + 1 \in DOMAIN q /\ q[i + 1] = r[i] /\ i + 1 # 1
      BY <1>1
    <3>2. Carries(q[1]) => q[1].grant # g
      BY <1>1, <2>3, <3>1 DEF Distinct
    <3> QED BY <1>1, <2>2, <2>3, <3>1, <3>2
  <2>4. ASSUME g \in Carried(q), ~(Carries(Head(q)) /\ g = Head(q).grant)
        PROVE  g \in Carried(r)
    <3>1. PICK i \in DOMAIN q : Carries(q[i]) /\ g = q[i].grant
      BY <2>2, <2>4
    <3>2. i # 1 BY <1>1, <2>4, <3>1
    <3>3. i - 1 \in DOMAIN r /\ r[i - 1] = q[i] BY <1>1, <3>1, <3>2
    <3> QED BY <2>1, <3>1, <3>3
  <2> QED BY <2>1, <2>3, <2>4
<1> QED BY <1>2, <1>3, <1>4 DEF r

\* A link that is emptied holds no permission.
LEMMA EmptyLink == Carried(<<>>) = {} /\ Distinct(<<>>)
  BY DEF Carried, Distinct

\* The permissions of CharSession, by the place that holds them.
LEMMA PendingIs ==
  TypeOK => PendingGrants = Carried(toMap) \cup Carried(toChar) \cup InRow
<1> SUFFICES ASSUME TypeOK
             PROVE  PendingGrants = Carried(toMap) \cup Carried(toChar) \cup InRow
  OBVIOUS
<1>1. /\ \A j \in DOMAIN toMap : toMap[j].type \in {"authadd", "charload", "checkonline"}
      /\ \A j \in DOMAIN toChar : toChar[j].type \in {"login", "requestchar"}
  BY DEF TypeOK, ToMapMsg, ToCharMsg
<1>2. {j \in DOMAIN toMap : toMap[j].type \in {"authadd", "charload"}}
        = {j \in DOMAIN toMap : Carries(toMap[j])}
  BY <1>1 DEF Carries
<1>3. {j \in DOMAIN toChar : toChar[j].type = "requestchar"}
        = {j \in DOMAIN toChar : Carries(toChar[j])}
  BY <1>1 DEF Carries
<1> QED BY <1>2, <1>3 DEF PendingGrants, Carried, InRow

\* The same in the next state.
LEMMA PendingIsNext ==
  TypeOK' => PendingGrants' = Carried(toMap') \cup Carried(toChar') \cup InRow'
<1>1. (TypeOK => PendingGrants = Carried(toMap) \cup Carried(toChar) \cup InRow)'
  BY PendingIs, PTL
<1> QED BY <1>1

\* Permissions that stay where they are, or go.
LEMMA GrantsShrink ==
  ASSUME TypeOK, TypeOK', GrantsApart, grants' = grants,
         Distinct(toMap'), Carried(toMap') \subseteq Carried(toMap),
         Distinct(toChar'), Carried(toChar') \subseteq Carried(toChar),
         InRow' \subseteq InRow
  PROVE  GrantsApart' /\ PendingGrants' \subseteq PendingGrants
<1>1. PendingGrants' = Carried(toMap') \cup Carried(toChar') \cup InRow'
  BY PendingIsNext
<1> QED BY <1>1, PendingIs DEF GrantsApart

\* One permission that moves from one place to another.
LEMMA GrantMoves ==
  ASSUME TypeOK, TypeOK', GrantsApart, grants' = grants,
         NEW g \in PendingGrants,
         Distinct(toMap'), Carried(toMap') \subseteq Carried(toMap) \cup {g},
         Distinct(toChar'), Carried(toChar') \subseteq Carried(toChar) \cup {g},
         InRow' \subseteq InRow \cup {g},
         g \notin Carried(toMap') \/ g \notin Carried(toChar'),
         g \notin InRow' \/ g \notin Carried(toMap') \cup Carried(toChar')
  PROVE  GrantsApart' /\ PendingGrants' \subseteq PendingGrants
<1>1. PendingGrants' = Carried(toMap') \cup Carried(toChar') \cup InRow'
  BY PendingIsNext
<1>2. /\ Carried(toMap') \cap Carried(toChar') = {}
      /\ InRow' \cap (Carried(toMap') \cup Carried(toChar')) = {}
  BY DEF GrantsApart
<1>3. PendingGrants' \subseteq PendingGrants
  BY <1>1, PendingIs
<1> QED BY <1>2, <1>3 DEF GrantsApart

----------------------------------------------------------------------------
(* Who plays.                                                              *)

\* Nobody starts or stops playing when no session does.
LEMMA PlayersStay ==
  ASSUME \/ UNCHANGED session
         \/ \E fd \in Fds : /\ session[fd] \in Session
                            /\ session' = [session EXCEPT ![fd].eof = TRUE]
         \/ \E fd \in Fds, c \in Clients :
              /\ session[fd] = None
              /\ session' = [session EXCEPT ![fd] = [client |-> c, sd |-> FALSE, eof |-> FALSE]],
         TypeOK
  PROVE  Players' = Players
<1> USE CharSessionAssumption
<1> SUFFICES ASSUME NEW g \in Fds PROVE Plays(g)' <=> Plays(g)
  BY DEF Players
<1>1. CASE UNCHANGED session
  BY <1>1 DEF Plays
<1>2. ASSUME NEW fd \in Fds, session[fd] \in Session,
             session' = [session EXCEPT ![fd].eof = TRUE]
      PROVE  Plays(g)' <=> Plays(g)
  <2>1. /\ session'[fd] \in Session /\ session'[fd].sd = session[fd].sd
        /\ g # fd => session'[g] = session[g]
    BY <1>2 DEF TypeOK, Session
  <2>2. None \notin Session BY DEF CharSessionAssumption
  <2> QED BY <1>2, <2>1, <2>2 DEF Plays
<1>3. ASSUME NEW fd \in Fds, NEW c \in Clients, session[fd] = None,
             session' = [session EXCEPT ![fd] = [client |-> c, sd |-> FALSE, eof |-> FALSE]]
      PROVE  Plays(g)' <=> Plays(g)
  <2>1. ~session'[fd].sd /\ (g # fd => session'[g] = session[g])
    BY <1>3 DEF TypeOK
  <2> QED BY <1>3, <2>1 DEF Plays
<1> QED BY <1>1, <1>2, <1>3

\* The character is attached to a session that did not play.
LEMMA PlayersJoin ==
  ASSUME TypeOK, NEW fd \in Fds, session[fd] # None,
         session' = [session EXCEPT ![fd].sd = TRUE]
  PROVE  Players' = Players \cup {fd}
<1>1. session[fd] \in Session /\ None \notin Session
  BY SessionIsRecord, CharSessionAssumption
<1>2. session'[fd] \in Session /\ session'[fd].sd
  BY <1>1 DEF TypeOK, Session
<1>3. \A g \in Fds : g # fd => session'[g] = session[g]
  BY DEF TypeOK
<1>4. \A g \in Fds : Plays(g)' <=> Plays(g) \/ g = fd
  BY <1>1, <1>2, <1>3 DEF Plays
<1> QED BY <1>4 DEF Players

\* A session is freed.
LEMMA PlayersPart ==
  ASSUME TypeOK, NEW fd \in Fds, session' = [session EXCEPT ![fd] = None]
  PROVE  Players' = Players \ {fd}
<1>1. session'[fd] = None /\ \A g \in Fds : g # fd => session'[g] = session[g]
  BY DEF TypeOK
<1>2. \A g \in Fds : Plays(g)' <=> Plays(g) /\ g # fd
  BY <1>1 DEF Plays
<1> QED BY <1>2 DEF Players

----------------------------------------------------------------------------
(* Each step of the protocol is one step of the lease.                     *)

\* A step that changes neither the flag nor who plays, and adds no permission.
LEMMA LapseIs ==
  ASSUME Players' = Players, PendingGrants' \subseteq PendingGrants,
         UNCHANGED <<chaOnline, grants, up, swept, overlap>>
  PROVE  LeaseStep
<1>1. Lease!Lapse BY DEF Lease!Lapse, Players
<1> QED BY <1>1 DEF LeaseStep, Lapses

\* What sending a packet does to the permissions of a link.
LEMMA SendCarries ==
  ASSUME NEW S, NEW q \in Seq(S), NEW m \in S, NEW r, Distinct(q),
         r = IF intact THEN Append(q, m) ELSE q,
         Carries(m) => m.grant \notin Carried(q)
  PROVE  /\ Distinct(r)
         /\ ~Carries(m) => Carried(r) = Carried(q)
         /\ Carries(m) => Carried(r) \in {Carried(q), Carried(q) \cup {m.grant}}
BY AppendCarries, AppendDistinct

\* A login that is permitted adds a permission, any other login nothing.
LEMMA LoginStep ==
  ASSUME IInv, TypeOK', GrantsApart, logif_parse_login
  PROVE  GrantsApart' /\ LeaseStep
<1> DEFINE c == Head(logq)
<1>0. /\ TypeOK /\ c \in Clients /\ toMap \in Seq(ToMapMsg)
      /\ UNCHANGED <<chaOnline, authorize, up, session, toChar, swept>>
  BY HeadOfLogq DEF logif_parse_login, IInv, dbVars, TypeOK
<1>1. Players' = Players /\ InRow' = InRow
  BY <1>0, PlayersStay DEF InRow
<1>2. CASE LoginRefused(c)
  <2>1. UNCHANGED <<toMap, grants, overlap>> BY <1>2 DEF LoginRefused
  <2>2. GrantsApart' /\ PendingGrants' \subseteq PendingGrants
    BY <1>0, <1>1, <2>1, GrantsShrink DEF GrantsApart
  <2> QED BY <1>0, <1>1, <2>1, <2>2, LapseIs
<1>3. CASE LoginOnline(c)
  <2> DEFINE m == [type |-> "checkonline"]
  <2>1. UNCHANGED <<grants, overlap>> /\ SendToMap(m) BY <1>3 DEF LoginOnline
  <2>2. m \in ToMapMsg /\ ~Carries(m) BY DEF ToMapMsg, Carries
  <2>3. Distinct(toMap') /\ Carried(toMap') = Carried(toMap)
    <3>1. /\ toMap' = IF intact THEN Append(toMap, m) ELSE toMap
          /\ Distinct(toMap)
      BY <2>1 DEF SendToMap, GrantsApart
    <3> HIDE DEF m
    <3> QED BY <1>0, <2>2, <3>1, SendCarries
  <2>4. GrantsApart' /\ PendingGrants' \subseteq PendingGrants
    BY <1>0, <1>1, <2>1, <2>3, GrantsShrink DEF GrantsApart
  <2> QED BY <1>0, <1>1, <2>1, <2>4, LapseIs
<1>4. CASE LoginGrant(c)
  <2> DEFINE n == grants + 1
             m == [type |-> "authadd", client |-> c, grant |-> n]
  <2>1. /\ ~chaOnline /\ grants' = n /\ SendToMap(m)
        /\ overlap' = (overlap \/ PendingGrants # {})
    BY <1>4 DEF LoginGrant, logindata_add
  <2>2. n \in Nat /\ grants \in Nat /\ n > grants BY <1>0 DEF TypeOK
  <2>3. m \in ToMapMsg /\ Carries(m) /\ m.grant = n
    BY <1>0, <2>2 DEF ToMapMsg, Carries
  <2>4. n \notin PendingGrants BY <2>2 DEF GrantsApart
  <2>5. n \notin Carried(toMap) /\ n \notin Carried(toChar) /\ n \notin InRow
    BY <1>0, <2>4, PendingIs
  <2>6. /\ Distinct(toMap')
        /\ Carried(toMap') \in {Carried(toMap), Carried(toMap) \cup {n}}
    <3>1. Distinct(toMap) /\ toMap' = IF intact THEN Append(toMap, m) ELSE toMap
      BY <2>1 DEF SendToMap, GrantsApart
    <3>2. Carries(m) => m.grant \notin Carried(toMap)
      BY <2>3, <2>5
    <3> HIDE DEF m, n
    <3> QED BY <1>0, <2>3, <3>1, <3>2, SendCarries
  <2>7. PendingGrants' = Carried(toMap') \cup Carried(toChar) \cup InRow
    BY <1>0, <1>1, PendingIsNext
  <2>8. PendingGrants' \in {PendingGrants, PendingGrants \cup {n}}
    BY <1>0, <2>6, <2>7, PendingIs
  <2>9. GrantsApart'
    <3>1. \A g \in PendingGrants' : g \in Nat /\ g <= n
      BY <2>2, <2>8 DEF GrantsApart
    <3>2. /\ Carried(toMap') \cap Carried(toChar) = {}
          /\ InRow \cap (Carried(toMap') \cup Carried(toChar)) = {}
      BY <2>5, <2>6 DEF GrantsApart
    <3> QED BY <1>0, <1>1, <2>1, <2>6, <3>1, <3>2 DEF GrantsApart
  <2>10. Lease!Permit
    BY <1>0, <1>1, <2>1, <2>8 DEF Lease!Permit, Players
  <2> QED BY <1>0, <2>1, <2>9, <2>10 DEF LeaseStep, Permits
<1> QED BY <1>2, <1>3, <1>4 DEF logif_parse_login

\* The char server's other steps: an answer, a load, the loss of the map server.
LEMMA AnswerStep ==
  ASSUME IInv, TypeOK', GrantsApart, mapif_parse_login
  PROVE  GrantsApart' /\ LeaseStep
<1>1. /\ TypeOK /\ toChar \in Seq(ToCharMsg) /\ toChar # <<>>
      /\ ~Carries(Head(toChar)) /\ toChar' = Tail(toChar)
      /\ UNCHANGED <<chaOnline, authorize, up, session, toMap, grants, swept, overlap>>
  BY DEF mapif_parse_login, IInv, dbVars, historyVars, TypeOK, Carries
<1>2. Distinct(toChar') /\ Carried(toChar') = Carried(toChar)
  BY <1>1, TailCarries DEF GrantsApart
<1>3. Players' = Players /\ InRow' = InRow
  BY <1>1, PlayersStay DEF InRow
<1>4. GrantsApart' /\ PendingGrants' \subseteq PendingGrants
  BY <1>1, <1>2, <1>3, GrantsShrink DEF GrantsApart
<1> QED BY <1>1, <1>3, <1>4, LapseIs

\* A character that was asked for is sent with the permission that asked.
LEMMA RequestStep ==
  ASSUME IInv, TypeOK', GrantsApart, mapif_parse_requestchar
  PROVE  GrantsApart' /\ LeaseStep
<1> DEFINE h == Head(toChar)
           g == h.grant
           m == [type |-> "charload", fd |-> h.fd, grant |-> g]
<1>1. /\ TypeOK /\ toChar \in Seq(ToCharMsg) /\ toChar # <<>>
      /\ toMap \in Seq(ToMapMsg)
      /\ Carries(h) /\ toChar' = Tail(toChar) /\ SendToMap(m)
      /\ UNCHANGED <<chaOnline, authorize, up, session, grants, swept, overlap>>
  BY DEF mapif_parse_requestchar, IInv, dbVars, historyVars, TypeOK, Carries
<1>2. Distinct(toChar') /\ Carried(toChar') = Carried(toChar) \ {g} /\ g \in Carried(toChar)
  BY <1>1, TailCarries DEF GrantsApart
<1>3. Players' = Players /\ InRow' = InRow
  BY <1>1, PlayersStay DEF InRow
<1>4. h.fd \in Fds /\ g \in Nat
  BY <1>1, HeadOfToChar DEF mapif_parse_requestchar, ToCharMsg
<1>5. m \in ToMapMsg /\ Carries(m) /\ m.grant = g
  BY <1>4 DEF ToMapMsg, Carries
<1>6. g \notin Carried(toMap) /\ g \notin InRow /\ g \in PendingGrants
  BY <1>1, <1>2, PendingIs DEF GrantsApart
<1>7. /\ Distinct(toMap')
      /\ Carried(toMap') \in {Carried(toMap), Carried(toMap) \cup {g}}
  <2>1. Distinct(toMap) /\ toMap' = IF intact THEN Append(toMap, m) ELSE toMap
    BY <1>1 DEF SendToMap, GrantsApart
  <2> HIDE DEF m, g
  <2> QED BY <1>1, <1>5, <1>6, <2>1, SendCarries
<1>8. GrantsApart' /\ PendingGrants' \subseteq PendingGrants
  <2> HIDE DEF m, g
  <2> QED BY <1>1, <1>2, <1>3, <1>6, <1>7, GrantMoves
<1> QED BY <1>1, <1>3, <1>8, LapseIs

\* Flags are swept by either server, and links are emptied.
LEMMA SweepStep ==
  ASSUME IInv, TypeOK', GrantsApart,
         mapif_parse_eof \/ do_init \/ OtherServerSweep
  PROVE  GrantsApart' /\ LeaseStep
<1>1. /\ TypeOK /\ toChar' \in {toChar, <<>>} /\ mmo_setallonline /\ up' \in {up, TRUE}
      /\ UNCHANGED <<authorize, session, toMap, grants, overlap>>
  BY DEF mapif_parse_eof, do_init, OtherServerSweep, IInv
<1>2. Players' = Players /\ InRow' = InRow
  BY <1>1, PlayersStay DEF InRow
<1>3. Distinct(toChar') /\ Carried(toChar') \subseteq Carried(toChar)
  BY <1>1, EmptyLink DEF GrantsApart
<1>4. GrantsApart' /\ PendingGrants' \subseteq PendingGrants
  BY <1>1, <1>2, <1>3, GrantsShrink DEF GrantsApart
<1>5. Lease!Sweep
  BY <1>1, <1>2, <1>4 DEF Lease!Sweep, Players, mmo_setallonline
<1> QED BY <1>1, <1>4, <1>5 DEF LeaseStep, Sweeps, mmo_setallonline

----------------------------------------------------------------------------
\* A permission arrives at the map server: it becomes the row or is dropped.
LEMMA AuthaddStep ==
  ASSUME IInv, TypeOK', GrantsApart, intif_parse_authadd
  PROVE  GrantsApart' /\ LeaseStep
<1> DEFINE h == Head(toMap)
           g == h.grant
           m == [type |-> "login", client |-> h.client]
<1>1. /\ TypeOK /\ toMap \in Seq(ToMapMsg) /\ toMap # <<>>
      /\ toChar \in Seq(ToCharMsg) /\ Carries(h) /\ toMap' = Tail(toMap)
      /\ SendToChar(m) /\ auth_add(Ip[h.client], g)
      /\ UNCHANGED <<chaOnline, up, session, grants, swept, overlap>>
  BY DEF intif_parse_authadd, FromChar, IInv, historyVars, TypeOK, Carries
<1>2. Distinct(toMap') /\ Carried(toMap') = Carried(toMap) \ {g} /\ g \in Carried(toMap)
  BY <1>1, TailCarries DEF GrantsApart
<1>3. h.client \in Clients /\ g \in Nat
  BY HeadOfToMap DEF intif_parse_authadd, ToMapMsg, IInv
<1>4. m \in ToCharMsg /\ ~Carries(m)
  BY <1>3 DEF ToCharMsg, Carries
<1>5. Distinct(toChar') /\ Carried(toChar') = Carried(toChar)
  <2>1. Distinct(toChar) /\ toChar' = IF intact THEN Append(toChar, m) ELSE toChar
    BY <1>1 DEF SendToChar, GrantsApart
  <2> HIDE DEF m
  <2> QED BY <1>1, <1>4, <2>1, SendCarries
<1>6. InRow' \subseteq InRow \cup {g}
  BY <1>1 DEF auth_add, InRow
<1>7. g \in PendingGrants /\ g \notin Carried(toChar)
  BY <1>1, <1>2, PendingIs DEF GrantsApart
<1>8. GrantsApart' /\ PendingGrants' \subseteq PendingGrants
  <2> HIDE DEF g
  <2> QED BY <1>1, <1>2, <1>5, <1>6, <1>7, GrantMoves
<1>9. Players' = Players BY <1>1, PlayersStay
<1> QED BY <1>1, <1>8, <1>9, LapseIs

\* A forced logout, or a character that finds nobody, only takes a packet.
LEMMA PacketGone ==
  ASSUME TypeOK, TypeOK', GrantsApart, toMap # <<>>, toMap' = Tail(toMap),
         UNCHANGED <<authorize, toChar, grants>>
  PROVE  /\ GrantsApart'
         /\ PendingGrants' = PendingGrants \
              (IF Carries(Head(toMap)) THEN {Head(toMap).grant} ELSE {})
         /\ Carries(Head(toMap)) => Head(toMap).grant \in PendingGrants
<1> DEFINE gone == IF Carries(Head(toMap)) THEN {Head(toMap).grant} ELSE {}
<1>1. /\ Distinct(toMap') /\ Carried(toMap') = Carried(toMap) \ gone
      /\ gone \subseteq Carried(toMap)
  <2>1. toMap \in Seq(ToMapMsg) BY DEF TypeOK
  <2> QED BY <2>1, TailCarries DEF GrantsApart
<1>2. InRow' = InRow BY DEF InRow
<1>3. GrantsApart'
  BY <1>1, <1>2, GrantsShrink DEF GrantsApart
<1>4. PendingGrants' = (Carried(toMap) \ gone) \cup Carried(toChar) \cup InRow
  BY <1>1, <1>2, PendingIsNext
<1>5. gone \cap (Carried(toChar) \cup InRow) = {}
  BY <1>1 DEF GrantsApart
<1>6. PendingGrants' = PendingGrants \ gone /\ gone \subseteq PendingGrants
  <2> HIDE DEF gone
  <2> QED BY <1>1, <1>4, <1>5, PendingIs
<1> QED BY <1>3, <1>6

\* A character that arrives lets a player in, unless nobody waits for it or
\* the descriptor plays already.
LEMMA CharloadStep ==
  ASSUME IInv, TypeOK', GrantsApart, intif_parse_charload
  PROVE  GrantsApart' /\ LeaseStep
<1> DEFINE h  == Head(toMap)
           fd == h.fd
<1>1. /\ TypeOK /\ toMap # <<>> /\ toMap' = Tail(toMap) /\ Carries(h) /\ up
      /\ UNCHANGED <<authorize, toChar, up, grants, swept, overlap>>
  BY DEF intif_parse_charload, FromChar, IInv, historyVars, Carries
<1>2. GrantsApart' /\ h.grant \in PendingGrants /\ PendingGrants' = PendingGrants \ {h.grant}
  BY <1>1, PacketGone
<1>3. fd \in Fds
  BY HeadOfToMap DEF intif_parse_charload, ToMapMsg, IInv
<1>4. CASE session[fd] = None \/ Plays(fd)
  <2>1. UNCHANGED <<session, chaOnline>>
    BY <1>4 DEF intif_parse_charload, intif_mmo_tosd
  <2> QED BY <1>1, <1>2, <2>1, PlayersStay, LapseIs
<1>5. CASE session[fd] # None /\ ~Plays(fd)
  <2>1. session' = [session EXCEPT ![fd].sd = TRUE] /\ chaOnline' = TRUE
    BY <1>5 DEF intif_parse_charload, intif_mmo_tosd
  <2>2. Players' = Players \cup {fd}
    BY <1>1, <1>3, <1>5, <2>1, PlayersJoin
  <2>3. fd \in Fds \ Players BY <1>3, <1>5 DEF Players
  <2>4. Lease!Enter
    BY <1>1, <1>2, <2>1, <2>2, <2>3 DEF Lease!Enter, Players
  <2> QED BY <1>1, <1>2, <2>4 DEF LeaseStep, Enters
<1> QED BY <1>4, <1>5

\* A forced logout marks a session and leaves its player where it is.
LEMMA CheckonlineStep ==
  ASSUME IInv, TypeOK', GrantsApart, intif_parse_checkonline
  PROVE  GrantsApart' /\ LeaseStep
<1>1. /\ TypeOK /\ toMap # <<>> /\ toMap' = Tail(toMap)
      /\ UNCHANGED <<chaOnline, authorize, toChar, up, grants, swept, overlap>>
  BY DEF intif_parse_checkonline, FromChar, IInv, dbVars, historyVars
<1>2. GrantsApart' /\ PendingGrants' \subseteq PendingGrants
  BY <1>1, PacketGone
<1>3. Players' = Players
  <2>1. CASE id_db = NoFd
    BY <1>1, <2>1, PlayersStay DEF intif_parse_checkonline
  <2>2. CASE id_db # NoFd
    <3>1. id_db \in Fds /\ session[id_db] \in Session
      BY <1>1, <2>2, SessionIsRecord DEF TypeOK, IInv, IndexedSessionIsLive, Plays
    <3>2. session' = [session EXCEPT ![id_db].eof = TRUE]
      BY <2>2 DEF intif_parse_checkonline
    <3> QED BY <1>1, <3>1, <3>2, PlayersStay
  <2> QED BY <2>1, <2>2
<1> QED BY <1>1, <1>2, <1>3, LapseIs

----------------------------------------------------------------------------
\* A client that names the character moves its permission on, or loses it.
LEMMA AcceptStep ==
  ASSUME IInv, TypeOK', GrantsApart, NEW fd \in Fds, clif_accept2(fd)
  PROVE  GrantsApart' /\ LeaseStep
<1>1. /\ TypeOK /\ session[fd] \in Session
      /\ toChar \in Seq(ToCharMsg)
      /\ UNCHANGED <<chaOnline, up, toMap, grants, swept, overlap>>
  BY SessionIsRecord DEF clif_accept2, IInv, historyVars, TypeOK
<1>2. CASE auth_check(Ip[session[fd].client])
  <2> DEFINE g == authorize.grant
             m == [type |-> "requestchar", fd |-> fd, grant |-> g]
  <2>1. authorize # None /\ authorize' = None /\ session' = session
    BY <1>2 DEF clif_accept2, auth_check, auth_delete
  <2>2. \/ toChar' = toChar
        \/ SendToChar(m)
    BY <1>2 DEF clif_accept2, intif_load
  <2>3. authorize \in Row /\ g \in Nat
    BY <1>1, <2>1 DEF TypeOK, Row
  <2>4. m \in ToCharMsg /\ Carries(m) /\ m.grant = g
    BY <2>3 DEF ToCharMsg, Carries
  <2>5. /\ InRow = {g} /\ InRow' = {} /\ g \in PendingGrants
        /\ g \notin Carried(toMap) /\ g \notin Carried(toChar)
    BY <1>1, <2>1, PendingIs DEF InRow, GrantsApart
  <2>6. /\ Distinct(toChar')
        /\ Carried(toChar') \in {Carried(toChar), Carried(toChar) \cup {g}}
    <3>1. CASE toChar' = toChar BY <3>1 DEF GrantsApart
    <3>2. CASE SendToChar(m)
      <4>1. Distinct(toChar) /\ toChar' = IF intact THEN Append(toChar, m) ELSE toChar
        BY <3>2 DEF SendToChar, GrantsApart
      <4> HIDE DEF m, g
      <4> QED BY <1>1, <2>4, <2>5, <4>1, SendCarries
    <3> QED BY <2>2, <3>1, <3>2
  <2>7. GrantsApart' /\ PendingGrants' \subseteq PendingGrants
    <3>1. Distinct(toMap') /\ toMap' = toMap /\ grants' = grants
      BY <1>1 DEF GrantsApart
    <3> HIDE DEF m, g
    <3> QED BY <1>1, <2>5, <2>6, <3>1, GrantMoves
  <2> QED BY <1>1, <2>1, <2>7, PlayersStay, LapseIs
<1>3. CASE ~auth_check(Ip[session[fd].client])
  <2>1. /\ UNCHANGED <<toChar, authorize>>
        /\ session' = [session EXCEPT ![fd].eof = TRUE]
    BY <1>3 DEF clif_accept2
  <2>2. GrantsApart' /\ PendingGrants' \subseteq PendingGrants
    BY <1>1, <2>1, GrantsShrink DEF GrantsApart, InRow
  <2>3. Players' = Players BY <1>1, <2>1, PlayersStay
  <2> QED BY <1>1, <2>2, <2>3, LapseIs
<1> QED BY <1>2, <1>3

\* A step that leaves every place of a permission alone.
LEMMA GrantsStay ==
  ASSUME TypeOK, TypeOK', GrantsApart, UNCHANGED <<authorize, toMap, toChar, grants>>
  PROVE  GrantsApart' /\ PendingGrants' = PendingGrants
<1>1. PendingGrants' = PendingGrants
  BY DEF PendingGrants
<1> QED BY <1>1, GrantsShrink DEF GrantsApart, InRow

\* The end of a session.
LEMMA EofStep ==
  ASSUME IInv, TypeOK', GrantsApart, NEW fd \in Fds, clif_parse_eof(fd)
  PROVE  GrantsApart' /\ LeaseStep
<1>1. /\ TypeOK /\ session[fd] # None /\ session' = [session EXCEPT ![fd] = None]
      /\ UNCHANGED <<authorize, toMap, toChar, up, grants, swept, overlap>>
  BY DEF clif_parse_eof, IInv, historyVars
<1>2. GrantsApart' /\ PendingGrants' = PendingGrants
  BY <1>1, GrantsStay
<1>3. Players' = Players \ {fd}
  BY <1>1, PlayersPart
<1>4. CASE Plays(fd)
  <2>1. chaOnline' = FALSE
    BY <1>4 DEF Plays, clif_parse_eof, clif_handle_disconnect
  <2>2. fd \in Players BY <1>4 DEF Players
  <2>3. Lease!Leave
    BY <1>1, <1>2, <1>3, <2>1, <2>2 DEF Lease!Leave, Players
  <2> QED BY <1>1, <1>2, <2>3 DEF LeaseStep, Leaves
<1>5. CASE ~Plays(fd)
  <2>1. chaOnline' = chaOnline
    BY <1>1, <1>5 DEF Plays, clif_parse_eof
  <2>2. Players' = Players BY <1>3, <1>5 DEF Players
  <2> QED BY <1>1, <1>2, <2>1, <2>2, LapseIs
<1> QED BY <1>4, <1>5

\* Clients come and go, timers fire, links break and are made again.
LEMMA QuietStep ==
  ASSUME IInv, TypeOK', GrantsApart,
         \/ \E c \in Clients : ClientLogin(c) \/ ClientGiveUp(c) \/ connect_client(c)
         \/ \E fd \in Fds : SessionEof(fd)
         \/ check_connect_char \/ LinkCut \/ auth_timer
         \/ intif_parse_eof \/ CharCrash
         \/ UNCHANGED vars
  PROVE  GrantsApart' /\ LeaseStep
<1> USE DEF dbVars, historyVars
<1>0. TypeOK BY DEF IInv
<1>1. ASSUME UNCHANGED <<chaOnline, up, grants, swept, overlap>>,
             authorize' \in {authorize, None},
             toMap' \in {toMap, <<>>}, toChar' \in {toChar, <<>>},
             Players' = Players
      PROVE  GrantsApart' /\ LeaseStep
  <2>1. InRow' \subseteq InRow
    BY <1>1 DEF InRow
  <2>2. /\ Distinct(toMap') /\ Carried(toMap') \subseteq Carried(toMap)
        /\ Distinct(toChar') /\ Carried(toChar') \subseteq Carried(toChar)
    BY <1>1, EmptyLink DEF GrantsApart
  <2>3. GrantsApart' /\ PendingGrants' \subseteq PendingGrants
    BY <1>0, <1>1, <2>1, <2>2, GrantsShrink
  <2> QED BY <1>1, <2>3, LapseIs
<1>2. ASSUME UNCHANGED session PROVE Players' = Players
  BY <1>0, <1>2, PlayersStay
<1>3. ASSUME NEW c \in Clients, ClientLogin(c) \/ ClientGiveUp(c)
      PROVE  GrantsApart' /\ LeaseStep
  BY <1>1, <1>2, <1>3 DEF ClientLogin, ClientGiveUp
<1>4. ASSUME NEW c \in Clients, connect_client(c)
      PROVE  GrantsApart' /\ LeaseStep
  <2>1. Players' = Players BY <1>0, <1>4, PlayersStay DEF connect_client
  <2> QED BY <1>1, <1>4, <2>1 DEF connect_client
<1>5. ASSUME NEW fd \in Fds, SessionEof(fd)
      PROVE  GrantsApart' /\ LeaseStep
  <2>1. Players' = Players
    BY <1>0, <1>5, PlayersStay, SessionIsRecord DEF SessionEof
  <2> QED BY <1>1, <1>5, <2>1 DEF SessionEof
<1>6. CASE check_connect_char \/ LinkCut \/ auth_timer
             \/ intif_parse_eof \/ CharCrash
  BY <1>1, <1>2, <1>6
     DEF check_connect_char, LinkCut, auth_timer, intif_parse_eof, CharCrash
<1>7. CASE UNCHANGED vars
  BY <1>1, <1>2, <1>7 DEF vars
<1> QED BY <1>3, <1>4, <1>5, <1>6, <1>7

\* The death of the map server.
LEMMA CrashStep ==
  ASSUME IInv, TypeOK', GrantsApart, MapCrash
  PROVE  GrantsApart' /\ LeaseStep
<1>1. /\ TypeOK /\ ~up' /\ toMap' = <<>>
      /\ session' = [fd \in Fds |-> None]
      /\ UNCHANGED <<chaOnline, toChar, grants, swept, overlap>>
  BY DEF MapCrash, IInv
<1>2. InRow' = InRow
  <2>1. authorize # None => authorize \in Row BY <1>1 DEF TypeOK
  <2>2. authorize' = IF authorize = None THEN None ELSE [authorize EXCEPT !.own = FALSE]
    BY DEF MapCrash
  <2>3. authorize # None => authorize' # None /\ authorize'.grant = authorize.grant
    BY <2>1, <2>2, CharSessionAssumption DEF Row
  <2> QED BY <2>2, <2>3 DEF InRow
<1>3. GrantsApart' /\ PendingGrants' \subseteq PendingGrants
  BY <1>1, <1>2, EmptyLink, GrantsShrink DEF GrantsApart
<1>4. Players' = {} BY <1>1 DEF Players, Plays
<1>5. Lease!Crash BY <1>1, <1>3, <1>4 DEF Lease!Crash, Players
<1> QED BY <1>1, <1>3, <1>5 DEF LeaseStep, Crashes

\* Every step is a step of the lease, and permissions stay in one place.
LEMMA NextIsLeaseStep ==
  IInv /\ GrantsApart /\ [Next]_vars => GrantsApart' /\ LeaseStep
<1> SUFFICES ASSUME IInv, GrantsApart, [Next]_vars
             PROVE  GrantsApart' /\ LeaseStep
  OBVIOUS
<1>1. TypeOK' BY NextKeepsType
<1> QED BY <1>1, LoginStep, AnswerStep, RequestStep, SweepStep, AuthaddStep,
           CharloadStep, CheckonlineStep, AcceptStep, EofStep, QuietStep, CrashStep
        DEF Next, CharServer, MapServer, Environment

----------------------------------------------------------------------------
(* The flag.                                                               *)

\* Every step of the lease keeps the flag right: a permission is given only
\* while nobody plays, the one permission that is pending is used up by the
\* player it lets in, and the only player takes the flag with it.
LEMMA LeaseStepKeepsFlag ==
  ASSUME FlagInv, LeaseStep
  PROVE  FlagInv'
<1> DEFINE P == PendingGrants
           Alone(S) == \A f, g \in S : f = g
           Right(u, s, o, flag, pl, pe) ==
             /\ ~u => pl = {}
             /\ ~o => Alone(pe)
             /\ ~s /\ ~o => Alone(pl) /\ (pl # {} => pe = {})
             /\ u /\ ~s /\ ~o => (flag <=> pl # {}) /\ Alone(pl)
<1>1. FlagInv <=> Right(up, swept, overlap, chaOnline, Players, P)
  BY DEF FlagInv, DownIsEmpty, OneGrant, OneOrTheOther, FlagIsRight,
         AtMostOnePlayer, Live, Players
<1>2. FlagInv' <=> Right(up', swept', overlap', chaOnline', Players', P')
  BY DEF FlagInv, DownIsEmpty, OneGrant, OneOrTheOther, FlagIsRight,
         AtMostOnePlayer, Live, Players
<1>3. Live <=> Players # {}
  BY DEF Live, Players
<1> SUFFICES Right(up', swept', overlap', chaOnline', Players', P')
  BY <1>2
<1>4. CASE Permits
  <2>1. /\ ~chaOnline /\ P' \in {P, P \cup {grants'}}
        /\ chaOnline' = chaOnline /\ Players' = Players
        /\ overlap' = (overlap \/ P # {}) /\ up' = up /\ swept' = swept
    BY <1>4 DEF Permits, Lease!Permit, Players
  <2>2. ~overlap' => ~overlap /\ P = {} /\ Alone(P')
    BY <2>1
  <2> QED BY <1>1, <2>1, <2>2
<1>5. CASE Enters
  <2>1. PICK g \in P : P' = P \ {g}
    BY <1>5 DEF Enters, Lease!Enter
  <2>2. PICK fd \in Fds \ Players : Players' = Players \cup {fd}
    BY <1>5 DEF Enters, Lease!Enter, Players
  <2>3. chaOnline' = TRUE /\ up /\ up' = up /\ swept' = swept /\ overlap' = overlap
    BY <1>5 DEF Enters, Lease!Enter
  <2>4. ~overlap => P' = {}
    BY <1>1, <2>1
  <2>5. ~swept /\ ~overlap => Players' = {fd}
    BY <1>1, <2>1, <2>2
  <2> QED BY <2>2, <2>3, <2>4, <2>5
<1>6. CASE Lapses
  BY <1>1, <1>6 DEF Lapses, Lease!Lapse, Players
<1>7. CASE Leaves
  <2>1. PICK fd \in Players : Players' = Players \ {fd}
    BY <1>7 DEF Leaves, Lease!Leave, Players
  <2>2. /\ P' = P /\ chaOnline' = FALSE
        /\ up' = up /\ swept' = swept /\ overlap' = overlap
    BY <1>7 DEF Leaves, Lease!Leave
  <2>3. ~swept /\ ~overlap => Players' = {}
    BY <1>1, <2>1
  <2> QED BY <1>1, <2>1, <2>2, <2>3
<1>8. CASE Sweeps
  <2>1. /\ P' \subseteq P /\ chaOnline' = FALSE /\ Players' = Players
        /\ swept' = (swept \/ Live) /\ up' \in {up, TRUE} /\ overlap' = overlap
    BY <1>8 DEF Sweeps, Lease!Sweep, Players
  <2>2. ~swept' => ~swept /\ Players = {}
    BY <1>3, <2>1, Zenon
  <2>3. ~up' => ~up
    BY <2>1
  <2>4. Alone(P) => Alone(P')
    BY <2>1
  <2>5. UNCHANGED <<Players, overlap>> /\ ~chaOnline'
    BY <2>1
  <2> QED BY <1>1, <2>2, <2>3, <2>4, <2>5
<1>9. CASE Crashes
  BY <1>1, <1>9 DEF Crashes, Lease!Crash, Players
<1> QED BY <1>4, <1>5, <1>6, <1>7, <1>8, <1>9 DEF LeaseStep

\* Permissions are apart and the flag is right in every reachable state.
THEOREM SpecFlagInv == Spec => [](GrantsApart /\ FlagInv)
<1>1. Init => GrantsApart /\ FlagInv
  <2> SUFFICES ASSUME Init PROVE GrantsApart /\ FlagInv
    OBVIOUS
  <2>1. TypeOK BY InitIInv DEF IInv
  <2>2. /\ toMap = <<>> /\ toChar = <<>> /\ authorize = None /\ ~Live /\ up
        /\ chaOnline = FALSE /\ session = [fd \in Fds |-> None]
    BY DEF Init, Live, Plays
  <2>3. PendingGrants = {} /\ InRow = {}
    BY <2>1, <2>2, PendingIs, EmptyLink DEF InRow
  <2>4. GrantsApart BY <2>2, <2>3, EmptyLink DEF GrantsApart
  <2>5. AtMostOnePlayer BY <2>2 DEF AtMostOnePlayer, Live
  <2> QED BY <2>2, <2>3, <2>4, <2>5
          DEF FlagInv, DownIsEmpty, OneGrant, OneOrTheOther, FlagIsRight, AtMostOnePlayer
<1>2. IInv /\ (GrantsApart /\ FlagInv) /\ [Next]_vars => (GrantsApart /\ FlagInv)'
  BY NextIsLeaseStep, LeaseStepKeepsFlag
<1> QED BY <1>1, <1>2, SpecIInv, PTL DEF Spec

\* While no flag was swept under a player and no two logins were in flight at
\* once, ChaOnline tells exactly whether the character is played, and one
\* client plays it at most.
THEOREM SpecFlagIsRight == Spec => []FlagIsRight
<1>1. FlagInv => FlagIsRight BY DEF FlagInv
<1> QED BY <1>1, SpecFlagInv, PTL

\* The login protocol implements the lease of a character: a permission is
\* given while the flag is clear and lets one player in at most, whatever is
\* lost, and only sweeps and logouts clear the flag.
THEOREM SpecImplementsLease == Spec => LeaseSpec
<1>1. Init => Lease!Init
  <2> SUFFICES ASSUME Init PROVE Lease!Init
    OBVIOUS
  <2>1. PendingGrants = {}
    <3>1. TypeOK BY InitIInv DEF IInv
    <3> QED BY <3>1, PendingIs, EmptyLink DEF Init, InRow
  <2> QED BY <2>1 DEF Init, Lease!Init, Plays
<1>2. IInv /\ (GrantsApart /\ FlagInv) /\ [Next]_vars => [Lease!Next]_Lease!vars
  BY NextIsLeaseStep
     DEF LeaseStep, Permits, Enters, Lapses, Leaves, Sweeps, Crashes, Lease!Next
<1> QED BY <1>1, <1>2, SpecIInv, SpecFlagInv, PTL DEF Spec, LeaseSpec, Lease!Spec
=============================================================================
