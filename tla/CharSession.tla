---------------------------- MODULE CharSession ----------------------------
(***************************************************************************)
(* How a character comes online and goes offline: the login request that   *)
(* the login server relays to the char server (0x1003), the permission the *)
(* char server sends to the map server that hosts the character (0x3802),  *)
(* the client's connection to the map server, the load of the character    *)
(* (0x3003, 0x3803), the forced disconnect of a character that is already  *)
(* online (0x3804), and the end of the session.                            *)
(*                                                                         *)
(* One character and the map server that hosts its saved map are           *)
(* modelled.  A warp only ever reaches maps its own server has loaded      *)
(* (pc_warp), so the hosting server does not change.  Other map servers    *)
(* matter here only because their loss and their start clear every         *)
(* ChaOnline flag; they are the action OtherServerSweep.  What the loaded  *)
(* record holds is left out: see CharSave for saves.                       *)
(*                                                                         *)
(* The three processes are single-threaded select loops, so one handler    *)
(* is one step; links between them are FIFO.  The login server is          *)
(* represented by the queue it feeds (logq) and the replies it passes on.  *)
(***************************************************************************)
EXTENDS Naturals, Sequences

CONSTANTS
  Clients,    \* client programs, all logging in to the same character
  Ip,         \* the address each client connects from
  Fds,        \* descriptors the map server can give to a client
  NoFd,       \* id_db holds no entry for the character
  None,       \* no row in Authorize; no struct socket_data at a descriptor
  FaultKinds, \* which of AllFaults may happen
  MaxFaults,  \* bound: number of faults in a behaviour
  MaxGrants,  \* bound: number of logins the char server permits
  MaxQueue    \* bound: messages in a link when a client may add to it

AllFaults == {"cut", "mapcrash", "charcrash", "otherserver"}

\* What a descriptor of the map server and a row of Authorize hold.
Session == [client: Clients, sd: BOOLEAN, eof: BOOLEAN]
Row     == [ip: {Ip[c] : c \in Clients}, own: BOOLEAN, grant: Nat]

\* Messages from the char server to the map server, and back.
ToMapMsg ==
  [type: {"authadd"}, client: Clients, grant: Nat]
    \cup [type: {"charload"}, fd: Fds, grant: Nat]
    \cup [type: {"checkonline"}]
ToCharMsg ==
  [type: {"login"}, client: Clients]
    \cup [type: {"requestchar"}, fd: Fds, grant: Nat]

ASSUME CharSessionAssumption ==
  /\ NoFd \notin Fds
  /\ DOMAIN Ip = Clients
  /\ None \notin Session
  /\ None \notin Row
  /\ FaultKinds \subseteq AllFaults
  /\ MaxFaults \in Nat /\ MaxGrants \in Nat /\ MaxQueue \in Nat

VARIABLES
  \* the database
  chaOnline,  \* `Character`.`ChaOnline` of the character
  authorize,  \* the row of `Authorize` with its name, or None
  \* the map server
  up,         \* the process runs
  char_fd,    \* char_fd > 0
  authTimer,  \* an auth_timer of this process is pending
  session,    \* session[fd]
  id_db,      \* the descriptor of the USER that id_db finds, or NoFd
  \* the char server
  map_fifo,   \* map_fifo[] has a descriptor for the map server
  logq,       \* login requests not parsed yet
  \* the link between the two, and the clients
  intact,     \* the TCP connection is alive
  toMap, toChar,
  client,     \* what each client waits for
  \* history, read by no guard but the bounds
  faults, grants,
  swept,      \* all flags were cleared while the character was being played
  overlap     \* a login was permitted while an earlier one could still load

vars == <<chaOnline, authorize, up, char_fd, authTimer, session, id_db,
          map_fifo, logq, intact, toMap, toChar, client,
          faults, grants, swept, overlap>>

dbVars      == <<chaOnline, authorize>>
historyVars == <<faults, grants, swept, overlap>>

TypeOK ==
  /\ chaOnline \in BOOLEAN
  /\ authorize \in Row \cup {None}
  /\ up \in BOOLEAN
  /\ char_fd \in BOOLEAN
  /\ authTimer \in BOOLEAN
  /\ session \in [Fds -> Session \cup {None}]
  /\ id_db \in Fds \cup {NoFd}
  /\ map_fifo \in BOOLEAN
  /\ logq \in Seq(Clients)
  /\ intact \in BOOLEAN
  /\ toMap \in Seq(ToMapMsg)
  /\ toChar \in Seq(ToCharMsg)
  /\ client \in [Clients -> {"idle", "asked", "redirected", "connected"}]
  /\ faults \in Nat
  /\ grants \in Nat
  /\ swept \in BOOLEAN
  /\ overlap \in BOOLEAN

Init ==
  /\ chaOnline = FALSE
  /\ authorize = None
  /\ up = TRUE
  /\ char_fd = TRUE
  /\ authTimer = FALSE
  /\ session = [fd \in Fds |-> None]
  /\ id_db = NoFd
  /\ map_fifo = TRUE
  /\ logq = <<>>
  /\ intact = TRUE
  /\ toMap = <<>>
  /\ toChar = <<>>
  /\ client = [c \in Clients |-> "idle"]
  /\ faults = 0
  /\ grants = 0
  /\ swept = FALSE
  /\ overlap = FALSE

----------------------------------------------------------------------------
(* What the actions are built from.                                        *)

\* The descriptor belongs to a client that plays the character.
Plays(fd) == session[fd] # None /\ session[fd].sd
Live      == \E fd \in Fds : Plays(fd)

\* The grants under which the character could still be loaded.
PendingGrants ==
  {toMap[i].grant : i \in {j \in DOMAIN toMap : toMap[j].type \in {"authadd", "charload"}}}
    \cup {toChar[i].grant : i \in {j \in DOMAIN toChar : toChar[j].type = "requestchar"}}
    \cup (IF authorize = None THEN {} ELSE {authorize.grant})

\* A packet for a broken connection reaches nobody.
SendToMap(m)  == toMap'  = IF intact THEN Append(toMap, m) ELSE toMap
SendToChar(m) == toChar' = IF intact THEN Append(toChar, m) ELSE toChar

\* The login server hands the answer to the descriptor the request came from.
Reply(c, st) == client' = [client EXCEPT ![c] = IF @ = "asked" THEN st ELSE @]

\* UPDATE `Character` SET `ChaOnline` = 0, for every character.
mmo_setallonline_Fails == UNCHANGED <<chaOnline, swept>>
mmo_setallonline == chaOnline' = FALSE /\ swept' = (swept \/ Live)

\* Is the character marked online?
logindata_add_Forgets == FALSE
logindata_add == chaOnline

\* A row for this name and address.
auth_check(ip) == authorize # None /\ authorize.ip = ip

\* Add a row with its timer; an existing row is left alone.
auth_add_NoTimer(ip, grant) ==
  IF authorize = None
  THEN authorize' = [ip |-> ip, own |-> TRUE, grant |-> grant] /\ UNCHANGED authTimer
  ELSE UNCHANGED <<authorize, authTimer>>
auth_add(ip, grant) ==
  IF authorize = None
  THEN authorize' = [ip |-> ip, own |-> TRUE, grant |-> grant] /\ authTimer' = TRUE
  ELSE UNCHANGED <<authorize, authTimer>>

\* Remove the row and the timer whose number it holds: that is the row's own
\* timer only while the process that added the row runs.
auth_delete_KeepsTimer == authorize' = None /\ UNCHANGED authTimer
auth_delete_KeepsRow   == UNCHANGED authorize /\ authTimer' = (authTimer /\ ~authorize.own)
auth_delete            == authorize' = None /\ authTimer' = (authTimer /\ ~authorize.own)

\* Ask the char server for the character; nothing is sent while it is away.
intif_load_WrongFd(fd, grant) ==
  SendToChar([type |-> "requestchar", fd |-> NoFd, grant |-> grant])
intif_load(fd, grant) ==
  IF char_fd
  THEN SendToChar([type |-> "requestchar", fd |-> fd, grant |-> grant])
  ELSE UNCHANGED toChar

\* Attach the character to the descriptor, unless one is attached already.
intif_mmo_tosd(fd) ==
  IF Plays(fd)
  THEN UNCHANGED <<session, id_db, chaOnline>>
  ELSE /\ session' = [session EXCEPT ![fd].sd = TRUE]
       /\ id_db' = fd
       /\ chaOnline' = TRUE

\* End of a session that plays: id_db forgets the id, the flag is cleared.
clif_handle_disconnect_KeepsIndex == chaOnline' = FALSE /\ UNCHANGED id_db
clif_handle_disconnect_KeepsFlag  == id_db' = NoFd /\ UNCHANGED chaOnline
clif_handle_disconnect            == id_db' = NoFd /\ chaOnline' = FALSE

Fault(kind) ==
  /\ kind \in FaultKinds
  /\ faults < MaxFaults
  /\ faults' = faults + 1

----------------------------------------------------------------------------
(* Clients and the login server.                                           *)

\* A client sends name and password; the login server relays them.
ClientLogin(c) ==
  /\ client[c] = "idle"
  /\ Len(logq) < MaxQueue
  /\ client' = [client EXCEPT ![c] = "asked"]
  /\ logq' = Append(logq, c)
  /\ UNCHANGED <<dbVars, up, char_fd, authTimer, session, id_db, map_fifo,
                 intact, toMap, toChar, historyVars>>

\* A client that waits for an answer, or holds one, goes away.
ClientGiveUp(c) ==
  /\ client[c] \in {"asked", "redirected"}
  /\ client' = [client EXCEPT ![c] = "idle"]
  /\ UNCHANGED <<dbVars, up, char_fd, authTimer, session, id_db, map_fifo,
                 logq, intact, toMap, toChar, historyVars>>

----------------------------------------------------------------------------
(* The char server.                                                        *)

\* Wrong name or password, banned, or no map server serves the saved map.
LoginRefused(c) ==
  /\ Reply(c, "idle")
  /\ UNCHANGED <<toMap, grants, overlap>>

\* Already online: answer 6, and ask the map server to end the session.
LoginOnline(c) ==
  /\ map_fifo
  /\ logindata_add
  /\ Len(toMap) < MaxQueue
  /\ Reply(c, "idle")
  /\ SendToMap([type |-> "checkonline"])
  /\ UNCHANGED <<grants, overlap>>

\* Offline: permit the login.  Nothing is recorded at the char server.
LoginGrant(c) ==
  /\ map_fifo
  /\ ~logindata_add
  /\ grants < MaxGrants
  /\ Len(toMap) < MaxQueue
  /\ grants' = grants + 1
  /\ SendToMap([type |-> "authadd", client |-> c, grant |-> grants'])
  /\ overlap' = (overlap \/ PendingGrants # {})
  /\ UNCHANGED client

logif_parse_login ==
  /\ logq # <<>>
  /\ logq' = Tail(logq)
  /\ \/ LoginRefused(Head(logq))
     \/ LoginOnline(Head(logq))
     \/ LoginGrant(Head(logq))
  /\ UNCHANGED <<dbVars, up, char_fd, authTimer, session, id_db, map_fifo,
                 intact, toChar, faults, swept>>

\* The map server knows the client: the login server may redirect it.
mapif_parse_login ==
  /\ map_fifo
  /\ toChar # <<>>
  /\ Head(toChar).type = "login"
  /\ toChar' = Tail(toChar)
  /\ Reply(Head(toChar).client, "redirected")
  /\ UNCHANGED <<dbVars, up, char_fd, authTimer, session, id_db, map_fifo,
                 logq, intact, toMap, historyVars>>

\* The map server asks for the character; read it and send it.
mapif_parse_requestchar ==
  /\ map_fifo
  /\ toChar # <<>>
  /\ Head(toChar).type = "requestchar"
  /\ toChar' = Tail(toChar)
  /\ SendToMap([type  |-> "charload", fd |-> Head(toChar).fd,
                grant |-> Head(toChar).grant])
  /\ UNCHANGED <<dbVars, up, char_fd, authTimer, session, id_db, map_fifo,
                 logq, intact, client, historyVars>>

\* The char server sees that the connection of the map server is gone.
\* What it had not parsed is dropped with the session.
mapif_parse_eof ==
  /\ map_fifo
  /\ ~intact
  /\ map_fifo' = FALSE
  /\ toChar' = <<>>
  /\ mmo_setallonline
  /\ UNCHANGED <<authorize, up, char_fd, authTimer, session, id_db, logq,
                 intact, toMap, client, faults, grants, overlap>>

----------------------------------------------------------------------------
(* The map server.                                                         *)

\* The next packet from the char server is of this type.
FromChar(type) ==
  /\ up
  /\ char_fd
  /\ toMap # <<>>
  /\ Head(toMap).type = type
  /\ toMap' = Tail(toMap)

\* The answer is sent whether or not a row was added.
intif_parse_authadd ==
  /\ FromChar("authadd")
  /\ LET m == Head(toMap) IN
       /\ auth_add(Ip[m.client], m.grant)
       /\ SendToChar([type |-> "login", client |-> m.client])
  /\ UNCHANGED <<chaOnline, up, char_fd, session, id_db, map_fifo, logq,
                 intact, client, historyVars>>

\* The character arrives.  The descriptor is looked up again: the character
\* is given to whoever holds it now, if anybody does.
intif_parse_charload ==
  /\ FromChar("charload")
  /\ LET fd == Head(toMap).fd IN
       IF session[fd] = None
       THEN UNCHANGED <<session, id_db, chaOnline>>
       ELSE intif_mmo_tosd(fd)
  /\ UNCHANGED <<authorize, up, char_fd, authTimer, map_fifo, logq, intact,
                 toChar, client, historyVars>>

\* Force the character that id_db finds to log out.
intif_parse_checkonline ==
  /\ FromChar("checkonline")
  /\ session' = IF id_db = NoFd THEN session
                ELSE [session EXCEPT ![id_db].eof = TRUE]
  /\ UNCHANGED <<dbVars, up, char_fd, authTimer, id_db, map_fifo, logq,
                 intact, toChar, client, historyVars>>

\* A redirected client connects.
connect_client(c) ==
  /\ client[c] = "redirected"
  /\ up
  /\ \E fd \in Fds :
       /\ session[fd] = None
       /\ session' = [session EXCEPT
                        ![fd] = [client |-> c, sd |-> FALSE, eof |-> FALSE]]
  /\ client' = [client EXCEPT ![c] = "connected"]
  /\ UNCHANGED <<dbVars, up, char_fd, authTimer, id_db, map_fifo, logq,
                 intact, toMap, toChar, historyVars>>

\* A connected client names the character: with a row for its address the
\* character is requested and the row used up, else it is disconnected.
\* The row goes even when the request could not be sent.
clif_accept2(fd) ==
  /\ up
  /\ session[fd] # None
  /\ ~session[fd].sd
  /\ ~session[fd].eof
  /\ IF auth_check(Ip[session[fd].client])
     THEN intif_load(fd, authorize.grant) /\ auth_delete /\ UNCHANGED session
     ELSE /\ session' = [session EXCEPT ![fd].eof = TRUE]
          /\ UNCHANGED <<toChar, authorize, authTimer>>
  /\ UNCHANGED <<chaOnline, up, char_fd, id_db, map_fifo, logq, intact,
                 toMap, client, historyVars>>

\* The client leaves, times out, or is thrown out.
SessionEof(fd) ==
  /\ up
  /\ session[fd] # None
  /\ ~session[fd].eof
  /\ session' = [session EXCEPT ![fd].eof = TRUE]
  /\ UNCHANGED <<dbVars, up, char_fd, authTimer, id_db, map_fifo, logq,
                 intact, toMap, toChar, client, historyVars>>

\* clif_parse on a session marked eof: clif_handle_disconnect for one that
\* plays, then session_eof frees the descriptor.
clif_parse_eof(fd) ==
  /\ up
  /\ session[fd] # None
  /\ session[fd].eof
  /\ session' = [session EXCEPT ![fd] = None]
  /\ client' = [client EXCEPT ![session[fd].client] = "idle"]
  /\ IF session[fd].sd
     THEN clif_handle_disconnect
     ELSE UNCHANGED <<id_db, chaOnline>>
  /\ UNCHANGED <<authorize, up, char_fd, authTimer, map_fifo, logq, intact,
                 toMap, toChar, historyVars>>

\* Nobody used the row for two minutes.
auth_timer ==
  /\ up
  /\ authTimer
  /\ authTimer' = FALSE
  /\ authorize' = None
  /\ UNCHANGED <<chaOnline, up, char_fd, session, id_db, map_fifo, logq,
                 intact, toMap, toChar, client, historyVars>>

\* The map server sees that the connection of the char server is gone.
intif_parse_eof ==
  /\ up
  /\ char_fd
  /\ ~intact
  /\ char_fd' = FALSE
  /\ toMap' = <<>>
  /\ UNCHANGED <<dbVars, up, authTimer, session, id_db, map_fifo, logq,
                 intact, toChar, client, historyVars>>

\* The map server connects again, and is accepted with its maps.
check_connect_char ==
  /\ up
  /\ ~char_fd
  /\ ~map_fifo
  /\ char_fd' = TRUE
  /\ map_fifo' = TRUE
  /\ intact' = TRUE
  /\ UNCHANGED <<dbVars, up, authTimer, session, id_db, logq, toMap, toChar,
                 client, historyVars>>

\* The process starts: do_init clears every flag that is set.
do_init ==
  /\ ~up
  /\ up' = TRUE
  /\ mmo_setallonline
  /\ UNCHANGED <<authorize, char_fd, authTimer, session, id_db, map_fifo,
                 logq, intact, toMap, toChar, client, faults, grants,
                 overlap>>

----------------------------------------------------------------------------
(* Faults.                                                                 *)

\* The connection between the two servers breaks.
LinkCut ==
  /\ Fault("cut")
  /\ intact
  /\ intact' = FALSE
  /\ UNCHANGED <<dbVars, up, char_fd, authTimer, session, id_db, map_fifo,
                 logq, toMap, toChar, client, grants, swept, overlap>>

\* The map server dies: sessions, timers and id_db are gone, the row stays.
MapCrash ==
  /\ Fault("mapcrash")
  /\ up
  /\ up' = FALSE
  /\ char_fd' = FALSE
  /\ intact' = FALSE
  /\ toMap' = <<>>
  /\ session' = [fd \in Fds |-> None]
  /\ id_db' = NoFd
  /\ authTimer' = FALSE
  /\ authorize' = IF authorize = None THEN None ELSE [authorize EXCEPT !.own = FALSE]
  /\ client' = [c \in Clients |-> IF client[c] = "connected" THEN "idle" ELSE client[c]]
  /\ UNCHANGED <<chaOnline, map_fifo, logq, toChar, grants, swept, overlap>>

\* The char server dies and is started again.
CharCrash ==
  /\ Fault("charcrash")
  /\ map_fifo' = FALSE
  /\ intact' = FALSE
  /\ logq' = <<>>
  /\ toChar' = <<>>
  /\ UNCHANGED <<dbVars, up, char_fd, authTimer, session, id_db, toMap,
                 client, grants, swept, overlap>>

\* Another map server is lost (mapif_parse) or starts (do_init).
OtherServerSweep ==
  /\ Fault("otherserver")
  /\ mmo_setallonline
  /\ UNCHANGED <<authorize, up, char_fd, authTimer, session, id_db, map_fifo,
                 logq, intact, toMap, toChar, client, grants, overlap>>

----------------------------------------------------------------------------
CharServer == \/ logif_parse_login \/ mapif_parse_login
              \/ mapif_parse_requestchar \/ mapif_parse_eof

MapServer == \/ intif_parse_authadd \/ intif_parse_charload
             \/ intif_parse_checkonline \/ intif_parse_eof
             \/ check_connect_char \/ auth_timer \/ do_init
             \/ \E fd \in Fds : clif_accept2(fd) \/ clif_parse_eof(fd)

Environment == \/ \E c \in Clients :
                    ClientLogin(c) \/ ClientGiveUp(c) \/ connect_client(c)
               \/ \E fd \in Fds : SessionEof(fd)
               \/ LinkCut \/ MapCrash \/ CharCrash \/ OtherServerSweep

Next == CharServer \/ MapServer \/ Environment

Spec == Init /\ [][Next]_vars

\* Each process polls all its descriptors and its timers in every round of
\* its main loop, a link that is down is retried every second, and an
\* operator starts a server that died.  Clients and faults promise nothing.
Fairness ==
  /\ WF_vars(logif_parse_login)
  /\ WF_vars(mapif_parse_login \/ mapif_parse_requestchar \/ mapif_parse_eof)
  /\ WF_vars(intif_parse_authadd \/ intif_parse_charload
               \/ intif_parse_checkonline \/ intif_parse_eof)
  /\ WF_vars(check_connect_char)
  /\ WF_vars(auth_timer)
  /\ WF_vars(do_init)
  /\ \A fd \in Fds : WF_vars(clif_parse_eof(fd))

FairSpec == Spec /\ Fairness

----------------------------------------------------------------------------
(* Safety.                                                                 *)

\* id_db never finds a USER whose session is gone.  Two sessions may play
\* the character at once, and the first to leave removes the entry of both
\* (map_deliddb takes the id); what must not happen is that an entry
\* survives its session, for session_eof frees the USER it points to.
IndexedSessionIsLive == id_db # NoFd => Plays(id_db)

\* A set ChaOnline means that somebody can be asked to leave: the hosting
\* map server finds the character in id_db, or it is down and will clear
\* the flag when it starts.  Otherwise every login would be refused for ever
\* by a kick that finds nobody (intif_parse_checkonline).
OnlineHasSession == chaOnline => id_db # NoFd \/ ~up

\* While the process that added the Authorize row runs, its two-minute timer
\* is pending exactly when the row is there: no row outlives its timer and no
\* timer is left to delete the row of a later login (auth_add, auth_delete
\* and auth_timer each change both).
AuthTimerMatchesRow == authTimer <=> (authorize # None /\ authorize.own)

\* When the flags were not swept under a player and no two logins were in
\* flight at once, ChaOnline tells exactly whether the character is being
\* played, and at most one client plays it.  This is what logindata_add
\* relies on when it refuses a second login.
FlagIsRight ==
  up /\ ~swept /\ ~overlap =>
    /\ chaOnline <=> Live
    /\ \A f, g \in Fds : Plays(f) /\ Plays(g) => f = g

\* The login protocol implements the lease of a character: every permission
\* is used by one load at most and only while it is pending, whatever is
\* lost, and only sweeps and logouts clear the flag (auth_delete in
\* clif_accept2 is what makes a permission single-use).
Lease == INSTANCE CharLease
           WITH Seats   <- Fds,
                flag    <- chaOnline,
                players <- {fd \in Fds : Plays(fd)},
                pending <- PendingGrants,
                issued  <- grants
LeaseSpec == Lease!Spec

\* At most one client plays the character.  char.c says of the login data
\* that it registers the online character; logindata_add only reads the flag.
AtMostOnePlayer == \A f, g \in Fds : Plays(f) /\ Plays(g) => f = g

----------------------------------------------------------------------------
(* Liveness, under FairSpec.                                               *)

\* A flag that no session stands behind is cleared, or a session appears,
\* although the server that would have cleared it died (do_init).
NoStuckOnline == (chaOnline /\ ~Live) ~> (~chaOnline \/ Live)

\* A forced logout that the char server sent frees the character, even when
\* the link breaks or the map server dies before it arrives.  The death of
\* the char server loses it for good, so a run must leave "charcrash" out.
KickFrees ==
  (\E i \in DOMAIN toMap : toMap[i].type = "checkonline") ~> ~chaOnline

\* A permission nobody uses goes away (auth_timer), unless the process that
\* armed the timer dies: its rows stay in the database.
RowExpires == (authorize # None /\ authorize.own)
                ~> (authorize = None \/ ~authorize.own)
=============================================================================
