------------------------------- MODULE Groups -------------------------------
(***************************************************************************)
(* Parties of players at one map server: the table groups[][] and the four *)
(* fields of each USER that point into it (group_count, group_leader,      *)
(* groupid, and the setting FLAG_GROUP), as clif_addgroup, clif_leavegroup *)
(* and clif_updategroup keep them.                                         *)
(*                                                                         *)
(* A row of the table lists the ids of a group, the leader first, and then *)
(* whatever earlier members left behind: only the first group_count places *)
(* mean anything, and group_count is kept by every member for itself.      *)
(* Many readers (group chat, health bars, experience, clif_groupstatus)    *)
(* walk those places; clif_groupstatus walks until it has met group_count  *)
(* members, and pc_scripttimer uses each of them without a test.           *)
(*                                                                         *)
(* One handler is one step, as the map server is single-threaded.  Every   *)
(* character has one USER at most (CharSession says when that is so).      *)
(***************************************************************************)
EXTENDS Integers

CONSTANTS
  Players,     \* characters, by id
  NoId,        \* 0 in the table and in group_leader
  MaxGroups,   \* MAX_GROUPS
  MaxMembers   \* MAX_GROUP_MEMBERS

ASSUME GroupsAssumption ==
  /\ NoId \notin Players
  /\ MaxGroups \in Nat /\ MaxGroups > 0
  /\ MaxMembers \in Nat /\ MaxMembers > 1

Slots  == 0..(MaxGroups - 1)
Places == 0..(MaxMembers - 1)

VARIABLES
  groups,        \* groups[slot][place]
  online,        \* players id_db and the sessions know
  group_count, group_leader, groupid,
  flagGroup      \* settingFlags & FLAG_GROUP

vars == <<groups, online, group_count, group_leader, groupid, flagGroup>>

TypeOK ==
  /\ groups \in [Slots -> [Places -> Players \cup {NoId}]]
  /\ online \subseteq Players
  /\ group_count \in [Players -> 0..MaxMembers]
  /\ group_leader \in [Players -> Players \cup {NoId}]
  /\ groupid \in [Players -> Slots]
  /\ flagGroup \in [Players -> BOOLEAN]

Init ==
  /\ groups = [g \in Slots |-> [x \in Places |-> NoId]]
  /\ online = {}
  /\ group_count = [p \in Players |-> 0]
  /\ group_leader = [p \in Players |-> NoId]
  /\ groupid = [p \in Players |-> 0]
  /\ flagGroup = [p \in Players |-> FALSE]

----------------------------------------------------------------------------
(* What the handlers are built from.                                       *)

\* id is at one of the first n places of a row.
Listed(row, n, id) == \E x \in 0..(n - 1) : row[x] = id

\* The row once the loop of clif_leavegroup took id from its first n places:
\* those behind move up; the last place keeps what it held, unless it was id's.
Removed_LeavesHole(row, n, id) ==
  [x \in Places |-> IF x < n /\ row[x] = id THEN NoId ELSE row[x]]
Removed_LastFillsHole(row, n, id) ==
  [x \in Places |-> IF x < n /\ row[x] = id
                    THEN IF x = n - 1 THEN NoId ELSE row[n - 1]
                    ELSE row[x]]
Removed(row, n, id) ==
  [x \in Places |->
     IF x >= n \/ ~Listed(row, x + 1, id) THEN row[x]
     ELSE IF x + 1 < n THEN row[x + 1]
     ELSE IF Listed(row, x, id) THEN row[x]
     ELSE NoId]

\* clif_updategroup for a row with n members: all of them that are online learn
\* the number and the leader; a last one has no group any more and frees the slot.
Told(row, n)  == {p \in online : Listed(row, n, p)}
Alone(row, n) == IF n = 1 THEN Told(row, n) ELSE {}
Freed_Not(row, n) == row
Freed(row, n) == IF Alone(row, n) = {} THEN row ELSE [row EXCEPT ![0] = NoId]

\* The leader passes on to the first that is left.
NewLeader_Same(row, n, rest, id) == group_leader[id]
NewLeader(row, n, rest, id) ==
  IF group_leader[id] = NoId \/ (group_leader[id] = id /\ Listed(row, n, id))
  THEN rest[0] ELSE group_leader[id]

\* The numbers once sd has left and n members have been told.
CountsLeft_NoReset(sd, row, n) ==
  [p \in Players |-> IF p \in Alone(row, n) THEN 0
                     ELSE IF p = sd \/ p \in Told(row, n) THEN n
                     ELSE group_count[p]]
CountsLeft(sd, row, n) ==
  [p \in Players |-> IF p = sd \/ p \in Alone(row, n) THEN 0
                     ELSE IF p \in Told(row, n) THEN n
                     ELSE group_count[p]]

\* sd leaves its group; the members that stay are told.  A USER that is freed
\* afterwards counts as the zeros that its successor starts with.
Leaves(sd, freed) ==
  LET g      == groupid[sd]
      n      == group_count[sd] - 1
      row    == Removed(groups[g], group_count[sd], sd)
      leader == NewLeader(groups[g], group_count[sd], row, sd)
      alone  == Alone(row, n)
  IN /\ groups' = [groups EXCEPT ![g] = Freed(row, n)]
     /\ group_count' = CountsLeft(sd, row, n)
     /\ group_leader' = [p \in Players |->
                           IF p = sd THEN IF freed THEN NoId ELSE leader
                           ELSE IF p \in Told(row, n) THEN leader
                           ELSE group_leader[p]]
     /\ groupid' = [p \in Players |->
                      IF p = sd \/ p \in alone THEN 0 ELSE groupid[p]]

\* Also called for players without a group: then it changes nothing.
clif_leavegroup(sd) == Leaves(sd, FALSE)

\* Put sd and tsd, or tsd alone, in the row of slot g; there are n members then.
Enter(sd, tsd, g, row, leader, n) ==
  /\ groups' = [groups EXCEPT ![g] = row]
  /\ group_count' = [p \in Players |->
                       IF p = sd \/ p \in Told(row, n) THEN n ELSE group_count[p]]
  /\ group_leader' = [p \in Players |->
                        IF p = sd \/ p \in Told(row, n) THEN leader
                        ELSE group_leader[p]]
  /\ groupid' = [p \in Players |-> IF p \in {sd, tsd} THEN g ELSE groupid[p]]

\* The first slot without a first member; slot 0 stands for no group.
FreeSlot(g) ==
  /\ g \in 1..(MaxGroups - 1)
  /\ groups[g][0] = NoId
  /\ \A h \in 1..(g - 1) : groups[h][0] # NoId

----------------------------------------------------------------------------
(* The handlers.                                                           *)

\* The character arrives with a new USER and the settings of its record.
intif_mmo_tosd(p) ==
  /\ p \notin online
  /\ online' = online \cup {p}
  /\ \E b \in BOOLEAN : flagGroup' = [flagGroup EXCEPT ![p] = b]
  /\ UNCHANGED <<groups, group_count, group_leader, groupid>>

\* The player leaves the group, then id_db forgets the id and the USER is freed.
clif_handle_disconnect(p) ==
  /\ p \in online
  /\ Leaves(p, TRUE)
  /\ online' = online \ {p}
  /\ flagGroup' = [flagGroup EXCEPT ![p] = FALSE]

\* clif_addgroup: the packet names tsd.  A leader who names a member of the
\* group sends that member away.
MayExpel(sd, tsd) ==
  /\ group_count[tsd] # 0
  /\ group_leader[tsd] = group_leader[sd]
  /\ group_leader[sd] = sd

clif_addgroup_Expels(sd, tsd) ==
  /\ sd \in online /\ tsd \in online \ {sd}
  /\ MayExpel(sd, tsd)
  /\ clif_leavegroup(tsd)
  /\ UNCHANGED <<online, flagGroup>>

\* Otherwise tsd is taken in when it has no group and wants one.
MayTakeIn(sd, tsd) ==
  /\ sd \in online /\ tsd \in online \ {sd}
  /\ group_count[sd] < MaxMembers
  /\ flagGroup[tsd]
  /\ group_count[tsd] = 0

\* sd has no group: found one, if a slot is free.
clif_addgroup_Founds(sd, tsd) ==
  /\ MayTakeIn(sd, tsd)
  /\ group_count[sd] = 0
  /\ \E g \in Slots :
       /\ FreeSlot(g)
       /\ Enter(sd, tsd, g, [groups[g] EXCEPT ![0] = sd, ![1] = tsd], sd, 2)
  /\ UNCHANGED <<online, flagGroup>>

\* sd has a group: any member may bring another in.
clif_addgroup_Joins(sd, tsd) ==
  /\ MayTakeIn(sd, tsd)
  /\ group_count[sd] # 0
  /\ LET g == groupid[sd]
         n == group_count[sd]
     IN Enter(sd, tsd, g, [groups[g] EXCEPT ![n] = tsd], group_leader[sd], n + 1)
  /\ UNCHANGED <<online, flagGroup>>

\* The setting is switched; switching it off leaves the group.
clif_changestatus_group(sd) ==
  /\ sd \in online
  /\ flagGroup' = [flagGroup EXCEPT ![sd] = ~@]
  /\ IF flagGroup[sd] /\ group_count[sd] > 0
     THEN clif_leavegroup(sd)
     ELSE UNCHANGED <<groups, group_count, group_leader, groupid>>
  /\ UNCHANGED online

Next ==
  \/ \E p \in Players : intif_mmo_tosd(p)
  \/ \E p \in Players : clif_handle_disconnect(p)
  \/ \E sd, tsd \in Players : clif_addgroup_Expels(sd, tsd)
  \/ \E sd, tsd \in Players : clif_addgroup_Founds(sd, tsd)
  \/ \E sd, tsd \in Players : clif_addgroup_Joins(sd, tsd)
  \/ \E sd \in Players : clif_changestatus_group(sd)

Spec == Init /\ [][Next]_vars

----------------------------------------------------------------------------
(* Properties.                                                             *)

Grouped(p) == p \in online /\ group_count[p] > 0

\* Who a member's own fields say is in the group.
ListedBy(p) == {groups[groupid[p]][x] : x \in 0..(group_count[p] - 1)}

\* A member finds itself; the leader is first; whoever else it finds is online
\* and says the same about the slot, the number and the leader; nobody is there
\* twice.
Agrees(p) ==
  LET g == groupid[p]
      n == group_count[p]
  IN /\ n > 1
     /\ g # 0
     /\ p \in ListedBy(p)
     /\ group_leader[p] = groups[g][0]
     /\ \A x \in 0..(n - 1) :
          LET q == groups[g][x] IN
            /\ q \in online
            /\ groupid[q] = g
            /\ group_count[q] = n
            /\ group_leader[q] = group_leader[p]
            /\ \A y \in 0..(n - 1) : groups[g][y] = q => x = y

\* Every member agrees with those it finds in its group.  So clif_groupstatus,
\* which walks the row until it has met group_count members, ends, and
\* pc_scripttimer finds a USER behind every id (clif.c:11516, pc.c:2741).
ListedAreMembers == \A p \in Players : Grouped(p) => Agrees(p)

\* A slot is taken exactly as long as some player is in its group: none of the
\* MAX_GROUPS slots is lost when groups break up in any order (clif.c:11818),
\* and none is given to a second group.
SlotInUse ==
  \A g \in Slots :
    groups[g][0] # NoId <=> \E p \in Players : Grouped(p) /\ groupid[p] = g

\* group_leader is not cleared when a player leaves a group or is the last in
\* it; still, the test by which a leader sends a member away (clif.c:11746)
\* never lets a player reach into a group that is not its own.
ExpelWithinGroup ==
  \A sd \in online : \A tsd \in online \ {sd} :
    MayExpel(sd, tsd) => Grouped(sd) /\ groupid[sd] = groupid[tsd]

\* Members keep their order, which decides who leads next, and their slot,
\* however others come and go (clif.c:11873).
Rank(p, q) == CHOOSE x \in 0..(group_count[p] - 1) : groups[groupid[p]][x] = q

SeniorityKept ==
  [][\A p \in Players :
       Grouped(p) /\ Grouped(p)' =>
         /\ groupid'[p] = groupid[p]
         /\ \A q, r \in ListedBy(p) \cap ListedBy(p)' :
              Rank(p, q) < Rank(p, r) <=> Rank(p, q)' < Rank(p, r)']_vars
=============================================================================
