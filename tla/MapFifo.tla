------------------------------ MODULE MapFifo ------------------------------
(***************************************************************************)
(* map_fifo[], the char server's table of map servers: a connection that   *)
(* authenticates takes the first free slot below map_fifo_max or the slot  *)
(* at map_fifo_max (mapif_parse_auth), announces its maps                  *)
(* (mapif_parse_mapset), and frees its slot when it is lost (mapif_parse). *)
(* Everything else that uses the table scans the slots below map_fifo_max. *)
(* A server that restarts may connect again before its old connection is   *)
(* seen to be gone.  Addresses and ports follow fd and are left out.       *)
(***************************************************************************)
EXTENDS Naturals, FiniteSets, FiniteSetsExt

CONSTANTS
  MapFds,          \* descriptors the char server can give to a map server
  NoFd,            \* 0 in the fd field of a slot
  Maps,            \* map numbers
  MAX_MAP_SERVER   \* length of map_fifo[]

ASSUME MapFifoAssumption ==
  /\ NoFd \notin MapFds
  /\ MAX_MAP_SERVER \in Nat

\* The slots, and the one past the end that mapif_parse may compute.
Slots == 0..MAX_MAP_SERVER - 1

VARIABLES
  map_fifo,       \* [fd, map] of each slot; map outlives fd
  map_fifo_max,
  map_session      \* session[]: state, maps to announce and eof of each descriptor

mapFifoVars == <<map_fifo, map_fifo_max, map_session>>

NoServer == [state |-> "free", hosts |-> {}, eof |-> FALSE]

MapFifoTypeOK ==
  /\ map_fifo \in [Slots -> [fd : MapFds \cup {NoFd}, map : SUBSET Maps]]
  /\ map_fifo_max \in 0..MAX_MAP_SERVER
  /\ map_session \in
       [MapFds -> [state : {"free", "auth", "accepted", "ready"},
                   hosts : SUBSET Maps, eof : BOOLEAN]]

MapFifoInit ==
  /\ map_fifo = [i \in Slots |-> [fd |-> NoFd, map |-> {}]]
  /\ map_fifo_max = 0
  /\ map_session = [fd \in MapFds |-> NoServer]

----------------------------------------------------------------------------
Below == {i \in Slots : i < map_fifo_max}

Accepted(fd) == map_session[fd].state \in {"accepted", "ready"}

\* Where the loops of mapif_parse_auth and mapif_parse stop: at the first slot
\* that satisfies their test, or at map_fifo_max.
FirstSlot(hits) == IF hits = {} THEN map_fifo_max ELSE Min(hits)

\* The slot mapif_parse takes a packet to be from.
id(fd) == FirstSlot({i \in Below : map_fifo[i].fd = fd})

\* The slot mapif_parse_auth takes.
FreeSlot == FirstSlot({i \in Below : map_fifo[i].fd = NoFd})

\* The server that hosts a map, -1 in the code when there is none.
mapfifo_from_mapid(m) ==
  {i \in Below : map_fifo[i].fd # NoFd /\ m \in map_fifo[i].map}

----------------------------------------------------------------------------
Connected == {fd \in MapFds : map_session[fd].state # "free"}

\* A map server that hosts these maps opens a connection.  Bound: there are
\* never more connections than slots, which the code does not look after.
ServerConnects(fd, hosts) ==
  /\ map_session[fd].state = "free"
  /\ Cardinality(Connected) < MAX_MAP_SERVER
  /\ map_session' = [map_session EXCEPT
                       ![fd] = [state |-> "auth", hosts |-> hosts, eof |-> FALSE]]
  /\ UNCHANGED <<map_fifo, map_fifo_max>>

\* The connection ends, at either side.
ServerLost(fd) ==
  /\ map_session[fd].state # "free"
  /\ ~map_session[fd].eof
  /\ map_session' = [map_session EXCEPT ![fd].eof = TRUE]
  /\ UNCHANGED <<map_fifo, map_fifo_max>>

\* The right name and password: take a slot.  Its old map list stays.
mapif_parse_auth(fd) ==
  /\ map_session[fd].state = "auth"
  /\ ~map_session[fd].eof
  /\ LET i == FreeSlot IN
       /\ map_fifo_max' = IF i >= map_fifo_max THEN map_fifo_max + 1
                          ELSE map_fifo_max
       /\ map_fifo' = [map_fifo EXCEPT ![i].fd = fd]
  /\ map_session' = [map_session EXCEPT ![fd].state = "accepted"]

\* An unauthenticated connection ends.
mapif_parse_auth_eof(fd) ==
  /\ map_session[fd].state = "auth"
  /\ map_session[fd].eof
  /\ map_session' = [map_session EXCEPT ![fd] = NoServer]
  /\ UNCHANGED <<map_fifo, map_fifo_max>>

\* The server tells which maps it hosts.
mapif_parse_mapset_Adds(fd) ==
  /\ map_session[fd].state = "accepted"
  /\ ~map_session[fd].eof
  /\ map_fifo' = [map_fifo EXCEPT ![id(fd)].map = @ \cup map_session[fd].hosts]
  /\ map_session' = [map_session EXCEPT ![fd].state = "ready"]
  /\ UNCHANGED map_fifo_max
mapif_parse_mapset(fd) ==
  /\ map_session[fd].state = "accepted"
  /\ ~map_session[fd].eof
  /\ map_fifo' = [map_fifo EXCEPT ![id(fd)].map = map_session[fd].hosts]
  /\ map_session' = [map_session EXCEPT ![fd].state = "ready"]
  /\ UNCHANGED map_fifo_max

\* A map server is lost.  When its slot is the last one, the loop that should
\* drop the free slots at the end tests the lost slot every time, which is
\* free, and so drops them all.
mapif_parse_eof(fd) ==
  /\ Accepted(fd)
  /\ map_session[fd].eof
  /\ map_fifo' = [map_fifo EXCEPT ![id(fd)].fd = NoFd]
  /\ map_fifo_max' = IF id(fd) + 1 = map_fifo_max THEN 0 ELSE map_fifo_max
  /\ map_session' = [map_session EXCEPT ![fd] = NoServer]

MapFifoNext ==
  \E fd \in MapFds :
    \/ \E hosts \in SUBSET Maps : ServerConnects(fd, hosts)
    \/ ServerLost(fd)
    \/ mapif_parse_auth(fd) \/ mapif_parse_auth_eof(fd)
    \/ mapif_parse_mapset(fd) \/ mapif_parse_eof(fd)

MapFifoSpec == MapFifoInit /\ [][MapFifoNext]_mapFifoVars

----------------------------------------------------------------------------
\* Every slot that the scans reach and that holds a descriptor belongs to a
\* connection that authenticated, and no two to the same one: nothing the
\* char server sends to a map server (mapif_send, logif_parse_login) goes to
\* a descriptor that was freed and given to somebody else.  The slots that a
\* lost server hid keep stale descriptors, which mapif_parse_auth overwrites
\* before it makes them visible again.
VisibleIsAccepted ==
  \A i \in Below :
    map_fifo[i].fd # NoFd =>
      /\ Accepted(map_fifo[i].fd)
      /\ \A j \in Below : map_fifo[j].fd = map_fifo[i].fd => i = j

\* A map number leads to a server that announced its maps only if the server
\* hosts it.  The list of a slot is the last holder's until then
\* (mapif_parse_auth keeps map_n), and a hidden server writes into the slot
\* that the next one will take.
AnnouncedRoute ==
  \A m \in Maps : \A i \in mapfifo_from_mapid(m) :
    LET s == map_session[map_fifo[i].fd]
    IN  s.state = "ready" => m \in s.hosts

\* The loops that find no slot go on with map_fifo_max, a server that is hidden
\* too, and that is a slot of the table.
WritesInTable ==
  \A fd \in MapFds :
    /\ Accepted(fd) => id(fd) \in Slots
    /\ map_session[fd].state = "auth" => FreeSlot \in Slots

\* What the scans of the table find is right, although slots are reused with
\* stale contents, and what they do not find is written to no other memory.
TableIsRight == VisibleIsAccepted /\ AnnouncedRoute /\ WritesInTable

\* "Send to all servers": every map server that authenticated is in a slot
\* the loop of mapif_send reaches.
AllReachesAll ==
  \A fd \in MapFds : Accepted(fd) => \E i \in Below : map_fifo[i].fd = fd
=============================================================================
