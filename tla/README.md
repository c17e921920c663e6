# Verification of the Mithia server

The Mithia server (`src/mithia/src`) runs a role-playing game as four kinds of
processes that talk over TCP and share one MySQL database. This directory models the
protocols between them, and the pieces of shared machinery they rest on, in TLA+; TLC
checks the models on small instances, and TLAPS proves the results listed below for
every instance.

## 1. The system

    client --- login server --- char server --- map server(s) --- client
                                    |                |
                               save server           |
                                    +---- MySQL -----+

Every process is one thread: its main loop (`common/core.c:55`) runs the timers that are
due (`timer_do`) and then reads, writes and parses every socket (`do_socket`). A handler
is never interrupted by another of the same process. Concurrency is between processes,
through packets and the database.

| Component | State | Operations | What is hard | What makes it correct |
|---|---|---|---|---|
| Login of a character (`char/logif.c`, `char/char_db.c`, `map/intif.c`, `map/clif.c`) | `Character.ChaOnline`, rows of `Authorize` with a timer id, `session[]`, `id_db` | permit or refuse a login, load, kick, logout, clear all flags | the flag is tested long before it is set; links and servers die between the steps; descriptors are reused | the flag tells who plays; one player at a time; a kick finds somebody; rows expire |
| Save and load (`map/intif.c`, `char/mapif.c`, `save/save_db.c`, `char/char_db.c`) | the row and the tables of a character, saves under way in two links | periodic save, save at logout, read at login | two writers without a transaction; a save can arrive after the logout or after the next login | a logout's record stands and is what the next login reads |
| Timers (`common/timer.c`) | `timer_data`, the ordered array, the free list | insert, remove, `timer_do` with callbacks that do both | ids are reused; ticks wrap; the array changes during the walk | timers run in time and order, ids have one owner |
| Map server table (`char/mapif.c`, `char/char.c`) | `map_fifo[]`, `map_fifo_max` | authenticate, announce maps, lose, look up | slots are reused with stale contents | scans reach every live server and no dead one |
| Login server (`login/*.c`) | one session per client, ban and lockout tables | relay of checks, creation, password, login; answers by descriptor | an answer may find another client at the descriptor | an answer reaches who asked |
| Sockets (`common/socket.c`) | two buffers and `eof` per descriptor | connect, read, write, close | full buffers, descriptors reused | packets stay whole and in order |
| Inventory and floor items (`map/pc.c`, `map/itemdb.c`) | slots with id, amount, owner; equipment | add, remove, equip, drop, pick up | stacking limits, full inventory, timers of items | items are neither lost nor copied |
| Exchange (`map/clif.c:12180`) | two windows with items, gold, confirmation | start, offer, confirm, finalise, cancel, logout | two players act in any order; a logout in the middle | what is offered ends in one inventory |
| Groups (`map/clif.c:11726`) | `groups[][]`; in each player the number of members, the leader and the slot | found, join, send away, leave, log out | every member keeps its own copy; rows are shifted in place; the leader is never cleared; slots are reused | members agree with the row and with each other; no slot is lost; only the own leader sends away |
| Boards and mail (`char/mapif.c`, `map/intif.c`, `map/board_db.c`) | posts with positions, new-mail flags | list, read, write, delete | positions computed by one request and used by another | a post has one position; flags match the posts |
| Mobs (`map/mob.c`), magic (`map/magic.c`), npcs (`map/npc.c`) | spawned objects, durations | spawn, die, cast, expire | timers against removal | no effect outlives its object |
| Registries of scripts (`map/pc.c:2400`, `map/map.c`, `map/npc.c`, `map/mob.c`, `char/char_db.c`) | named numbers of a player, an account, a map, the game, an npc, a mob; their rows | set, read, save, load | rows are found by an id, a slot or a place, in one query, and written in another; servers share the account's and the game's | a name has one value, and a reload brings back what was set last |
| Bank and parcels (`map/sl.c`, `mithialua/Accepted/player.lua`) | bank slots, rows of `Parcels`, a dialog that waits | deposit, withdraw, send, receive | the script knows an item by its slot while its player moves things; a parcel takes two queries | goods are neither lost nor copied; refused kinds stay out |
| Clans (`map/clan_db.c`) | members, bank slots | deposit, withdraw | shared by players of several servers | as for items |
| Scripts (`map/sl.c`, `map/script.c`) | Lua coroutines per player | wrappers of the operations above | a script waits while its player leaves | a freed player is not resumed |
| Containers (`common/db.c`, `common/ers.c`) | trees, caches, free lists; tables of entry managers | put, remove, iterate, clear; make and free managers and entries | erasing while somebody iterates; managers shared by users | trees and iterators agree; no entry has two holders |
| Libraries (`db_mysql.c`, `crypt.c`, `md5calc.c`, `malloc.c`, `strlib.c`) | connection | - | - | - |

Components meet in three ways. *Messages*: login to char 0x1001-0x1004 and 0x2001-0x2004
back; map to char 0x3000-0x300E and 0x3800-0x380F back; char to save 0x4000-0x4002.
*Shared rows*: `ChaOnline` is written by map servers (load, logout, start) and by the char
server (loss of a map server), and read by the char server (login) and the save server
(save); `Authorize` is used by map servers only. *Calls*: everything uses timers and
sockets.

## 2. Modules

| Module | Models |
|---|---|
| `CharLease` | what logging in to a character promises, without servers or messages |
| `CharSession` | login, permission, load, kick and logout of one character over three servers, with faults; implements `CharLease` |
| `CharSave` | the record of one character: periodic save, save at logout, read at login |
| `TableSave` | how one table of a character is written, statement by statement |
| `LoginServer` | the login server's descriptors: clients, char servers, questions and answers |
| `MapFifo` | the char server's table of map servers |
| `Boards` | posts, mail and the new-mail flag, through char server and map server |
| `SocketFifo` | the two buffers of a connection at their limits |
| `DbMap` | `common/db.c`: red-black trees, delayed erasing, iterators, cache |
| `Ers` | `common/ers.c`: managers of entries, their users, blocks and free lists |
| `TimerHeap` | `common/timer.c` |
| `BlockGrid`, `Windows` | the chains of the block grid and the loops over areas; what cells an area holds |
| `Exchange` | items and gold of players through the trade window, the floor, and logout |
| `Wear` | adding, using, wearing, taking off, breaking and expiring of items, with the scripts in between |
| `Durations` | the timed spells of a player |
| `Bank` | the bank and the parcels between players, by dialogs that wait |
| `Registry` | the registries of scripts, in memory and in their rows |
| `Groups` | parties of players |
| `Turns` | what a client may do in a second, and the end of its session |
| `PlayerLife` | the vita of a player, its fall and its death |
| `MobLife` | hits, heals, death, payment and rising of a mob |
| `Hunt` | whom a mob hunts and strikes |
| `Dialogs` | coroutines of scripts and the windows that wait for answers |
| `Sight` | which mobs a client knows of as its player walks |
| `Figures` | how mobs and npcs are drawn on clients |
| `Looks` | which players are drawn on which clients, and how: the living, the dead, the hidden |
| `MCCharSession`, `MCTimerHeap`, `MCServerParts`, `MCMapParts`, `MCWorldParts`, `MCPlayerParts` | instances for TLC |
| `CharSessionProofs`, `CharSaveProofs`, `TimerHeapProofs` | theorems about the module they are named after |
| `ServerPartsProofs` | theorems about `LoginServer`, `MapFifo`, `Boards`, `SocketFifo`, `TableSave` and `Ers` |
| `MapPartsProofs` | theorems about `Exchange`, `Durations` and `BlockGrid` |
| `BankProofs` | theorems about `Bank` |
| `WorldPartsProofs` | theorems about `MobLife`, `PlayerLife`, `Dialogs`, `Sight`, `Figures`, `Looks` and `MCWorldParts` |
| `PlayerPartsProofs` | theorems about `Groups`, `Turns`, `Hunt`, `Registry` and `MCPlayerParts` |

`MCServerParts`, `MCMapParts`, `MCWorldParts` and `MCPlayerParts` check several modules
side by side. The parts share no state: a behaviour belongs to one part, chosen in the
initial state, and the variables of the others do not change. A property with a common
name (`ItemsSound`, `StoresSound`, `LivesSound`, `ClientSound`, `PlayersSound`) is the conjunction of
the properties of several parts.

One step is one handler, named as in the code, unless a script runs in the middle of it.
Scripts of the game (`src/mithialua`) may call nearly every function of the server, so a
handler that runs a script is split there, and whatever the scripts of the repository do
may happen between the halves, nested calls of the same handler included.

**CharSession.** `logq`, `toMap` and `toChar` are the FIFO links; `intact` says whether
the TCP connection between the char server and the map server is alive, which each end
finds out by itself (`mapif_parse_eof`, `intif_parse_eof`). `char_fd` and `map_fifo` are
each end's belief. `authorize` is the row of `Authorize` for the name; its field `own`
says that the timer id in it belongs to the running process, because the rows survive the
map server and the timers do not. A permission carries a number (`grant`), which no guard
reads: it lets `CharLease` tell permissions apart. `swept` and `overlap` remember that the
flags were cleared under a player and that two permissions were pending at once. Faults:
the link breaks, the map server dies, the char server dies, another map server is lost or
starts (every flag is cleared). The map server reconnects only after the char server has
seen the end of the old connection; what happens otherwise is in `MapFifo`.

**CharSave.** A write is two steps, the row of `Character` and the other tables, as the
code sends separate statements without a transaction; so is a read. The record is a pair
of version numbers. The save server tests `ChaOnline` in one step
(`charif_parse_savechar`) and writes in the next two (`mmo_char_todb`), so a logout can
come in between. One session at a time is modelled.

**TableSave.** `DELETE`, `UPDATE` and `INSERT` of one table of places, by two writers
that may overlap or die in the middle, and the read with its `LIMIT`.

**LoginServer.** `session[]` with reuse of descriptors, `char_fd`, the lockout counter
and answers that carry a descriptor only. `intif_auth` is what `clif_parse` does for 0xFF
(`login/clif.c:502`), whoever sends it: a char server is accepted or refused, a client is
refused, and while there is a char server anybody is closed in the middle of the packet.

**MapFifo.** The map list of a slot outlives the connection, as in the code, and servers
hosting several maps announce them again.

**Boards.** One descriptor that several sessions use in turn; lists, bodies, writing,
deleting and marking as read name a position, and answers come back by descriptor.

**SocketFifo.** Packets are runs of numbered bytes; a writer reserves, sets, flushes and
grows its buffer, a reader receives in pieces. Sizes are small multiples of each other, as
in the code.

**DbMap.** Nodes are addresses; erasing while somebody iterates is delayed; the balance of
the tree is kept by the rotations of the code.

**Ers.** Managers are shared by the users that ask for the same size; each has blocks of
entries, a free list and an index into the block it cuts entries from.

**TimerHeap.** One turn of the loop of `timer_do` is a step, split around the callback,
so that a callback may insert and remove any timer and the clock may move meanwhile. The
clock has `2 * Half` ticks and wraps; two ticks are compared by a signed difference. `HEAP_SEARCH` is the binary search of the code.

**BlockGrid.** `bl_list` is the global array that the loops over areas share; a call from
a loop may move, add or free objects and start another loop.

**Exchange, Wear.** Items are amounts in slots. `Exchange` counts every unit of goods in
bags, windows and on the floor. `Wear` splits each handler at its script and follows the
globals (`equipid`, `invslot`, `takeoffid`) by which the script finds the item.

**Durations.** The slots of timed spells, and the scripts that end, renew or flush them
while the timer walks over them.

**Bank.** A dialog of a player is what it asked for and the slot it remembers; between
question and answer the player may move, drop and pick up. A parcel is sent in two steps,
as its position is found in one query and used in another.

**Registry.** A registry is an array of names and numbers and the rows it is saved to.
What finds the rows differs with its owner, and so do the servers that may write them.

**Groups.** `clif_addgroup` is three actions, one for each way it ends with a change.
`clif_updategroup` is part of each: it copies number and leader to the members it finds
online, and frees the slot when it tells the last one.

**Turns.** Packets by the kind of their handler, the counters that `pc_timer` clears and
the flag that the attack timer clears; logout and the reset of the server.

**PlayerLife, MobLife, Hunt.** Vita is a small number; the calls under way are a stack,
each with what it read before its scripts ran. `attacker` is whoever is named last. A
mob's turn (`turn` in MobLife) lasts from `mob_handle_sub` to the end of its AI's script:
in it the mob may be hit by traps it walks onto (`map/mob.c:1245`) or by what its attack
provokes, and the script writes the mob's state (`mobl_setattr`) whatever it is by then.

**Dialogs.** Coroutines are numbered references in a registry; a window is whatever was
sent last, and an answer may be late, doubled or for a window that is no more.

**Sight, Figures, Looks.** The server does not record what a client shows. These modules
do (`drawing`, `screen`), and say what it should show.

## 3. What the runs check

| Run | Question | Bounds | Distinct states |
|---|---|---|---|
| `charsession` | Do index, flag, row and timer agree? Is there one player, and does the protocol implement `CharLease`? | 2 clients behind one address, 2 descriptors, 2 faults of any kind, 3 permissions, 2 messages a link | 1 115 272 |
| `charsession_live` | Does a stuck flag clear, a kick free the character, a row expire? | 2 clients with two addresses, 2 faults (not the death of the char server), 2 permissions, 1 message | 81 553 |
| `charsession_two` | violation: can two clients play one character without any fault? | no fault, 2 permissions | stops |
| `charsave` | Does a logout's record stand, and is it what the next login reads? How far back can a stale save reach? | 2 changes, 2 saves under way and one being written, 1 fault of any kind | 4 808 957 |
| `charsave_live` | Is a periodic save written? | 2 changes, 2 saves under way, no fault | 603 310 |
| `timerheap` | Is the array sorted, are ids unique, do callbacks run in time and order, does a kept timer run again? | 2 owners, 3 ids, 16 ticks, at most 3 ticks late | 813 120 |
| `timerheap_leak` | violation: is a removed timer deleted? | as `timerheap` | stops |
| `server_parts` | Do answers reach who asked (`RoutesByDescriptor`), packets arrive whole and in order (`StreamInOrder`), trees, iterators and entries agree (`StoresSound`), table scans find live servers (`TableIsRight`), saves leave each item once (`SaveIsExact`), mails keep their place and flag (`MailSound`)? | 3 descriptors, 1 of each odd packet; buffers of 2, 3 and 4 with room for 3 in the kernel, 4 packets of up to 3 bytes; 6 keys of which 5 share a bucket, 2 delayed erasures; 3 connections for 2 slots, 1 map; 2 values, 2 places; 2 names, 2 posts, 1 request under way; 2 containers, 3 sizes of entries, 2 managers of 2 blocks of 2 entries | 1 356 445 |
| `mapfifo_all` | violation: does a scan reach every server? | 3 connections, 3 slots, 1 map | stops |
| `map_parts` | Do exchanges, wearing, banks and parcels keep items and gold (`ItemsSound`), slots of spells agree with the spells (`SlotsSound`), chains of blocks stay chains (`ChainsSound`) and loops call what they found (`CallsWhatItFound`), whatever the scripts in between do? | 3 players, 1 kind of goods, stacks of 2, 6 acts; 2 spells, 2 slots; 1 player, mob, npc and item each on 2 blocks, loops 2 deep, 1 change a call; 5 kinds of items, bags of 2, 2 scripts with 2 acts; 2 clients with bags of 2, 2 kinds, 2 marks, 2 bank slots, 2 parcels | 1 243 979 |
| `world_parts` | Is a mob paid for once and does a player die rightly (`LivesSound`), do clients show what is (`ClientSound`, `ScreenIsTrue`)? | 2 users, vita 2, 2 places in the threat table, 1 nested call; 1 rival, 1 nested call; 3 coroutines, 2 packets each way; a screen of 3 cells on a map of 6 by 3; 2 watchers, 2 maps; 2 persons, one of them a game master, 2 maps | 2 971 119 |
| `player_parts` | Do members agree with the table of groups, is no slot lost, who sends away, who keeps the order? Does a player act at its pace, do mobs strike only who is there and alive, registries keep what was set (`PlayersSound`)? | 4 players (interchangeable), 2 slots besides slot 0, 3 members; a second of 2 ticks and swings 2 ticks apart; 2 players and 1 mob; 2 copies, 2 names, 2 slots, 3 rows ever | 379 528 |

Why the bounds are enough. Two clients and two descriptors are what an overlap needs; a
third client adds no new pair. Three permissions let one be in the row, one in a packet
and one loaded. Two faults cover a fault while the previous one is being noticed. In
`CharSave` one stale save, one current save and the logout's own write are the three
writers, which two versions and two saves under way hold. In `TimerHeap` a clock of 16 ticks
wraps many times over a behaviour, and the long interval times the lag passes `LateMax`,
so that both re-arming rules are used. In `MapFifo` three connections share two slots,
so that the table is full, its end is trimmed and slots are taken again; the run
`mapfifo_all` has a first, a middle and a last slot. More servers than slots are left
out: `mapif_parse_auth` does not look at the end of the table, and would write past it.
In `Groups` four players fill one group and leave one outside, or make two
groups at once, so that slots run out and are reused. In `Exchange` a third player is what
it takes to interfere with two. In `DbMap` five keys of one bucket make every rotation
and recolouring happen. Nested calls are one deep: a call inside a call already reads
what another will overwrite.

### What the runs show

* `FlagIsRight`: while no flag was swept under a player and no two logins overlapped,
  `ChaOnline` is exactly "somebody plays", and one client does. `charsession_two` shows
  that the second condition is needed: `logindata_add` only reads the flag
  (`char/char_db.c:1397`), which is set when the character has been loaded, so a second
  login in between is permitted as well.
* `OnlineHasSession` and `KickFrees`: a refused login is never refused for ever, because
  a set flag has a session that the kick finds or a server that clears it when it starts.
* `AuthTimerMatchesRow`, `RowExpires`: a permission row has its timer as long as the
  process lives. A row that survived its process never expires by itself.
* `LogoutSaveStands`, `LoginSeesLogout`: the `ChaOnline` test of the save server together
  with the order "write, then clear the flag" protects the record a logout wrote, unless
  the save server had already passed the test, or the flag was swept, or a process died
  while it wrote or played.
* `SaveNeverUndoesSession`: a save delayed over a logout and a new login does undo the
  record (nothing in the packet tells the sessions apart), and this is the only way.
* `ServedOnTime`, `HeldTimerRuns`: timers survive the wrap of the tick. `timerheap_leak`
  shows that a timer whose callback returns nonzero leaks its id (`common/timer.c:320`).
* `mapfifo_all` shows the trimming loop that tests the wrong slot (`char/mapif.c:905`).
  `TableIsRight` holds in spite of it: the server that the trimmed end hides is the only
  one that scans miss, and what it sends is still written inside the table.
* `ListedAreMembers` is what the readers of the table rely on without a test: the loops of
  `clif_groupstatus` end (`map/clif.c:11516`), and `pc_scripttimer` finds a USER behind
  every id (`map/pc.c:2741`). `ExpelWithinGroup` shows that the stale `group_leader` of a
  former leader does no harm: whoever has a leader's id in a group sees that leader there.

Every property was also checked against a changed definition (a mutant) that a plausible
mistake in the code would produce, and TLC finds it violated; the mutants stand before
the definitions they change, with a suffix in their names.

### What the code does that its reader would not expect

The properties hold with the exceptions they name. Modelling met these behaviours, which
the models contain (unless said otherwise) and the properties exempt:

* Login server: while there is a char server, a 0xFF from a second one or from any client
  makes the loop use a session that is gone (`session_eof` in `login/intif.c:29`, then
  `RFIFOSKIP` in `login/clif.c:512`); the sweep of a shared address leaves `char_fd` stale;
  the answer to a wrong password is sent to whoever has the descriptor.
* Sockets: a packet that fills the buffer exactly is lost; `realloc_fifo` does nothing for
  a session at its end; a full buffer of the first size closes the session.
* Boards: the position of a board's last post is used again; news of a mail falls through
  two more cases (`map/intif.c:1550`); an answer for a list of a closed session shows
  nothing, one for a deletion is shown to whoever came next.
* `TableSave`: equipment is read with `LIMIT` 14 of 15; overlapping writers leave doubles.
* Exchange: `exchange_done` survives a new exchange; both targets are written before
  anything is tested; the gold of the finisher alone is checked.
* Wear: a unique item that is taken off lands on the floor; a script that changes the
  slot it was run from makes the handler take another item; `pc_additem` drops `timeleft`.
* Bank: a deposit tests what the player chose and books what the slot holds by the time of
  the consent, so a refused kind gets in; a deposit into a full bank is gone; an engraved
  item counts as plain once it is in the chosen slot.
* Parcels: of a slot that holds less than is sent the whole parcel arrives; two parcels
  may get one position, and receiving one removes both.
* Registry: the row of a map is found again by the slot its name had when it was inserted,
  which a reload changes, so a write may hit the row of another name; two servers that
  write the game's registry at once insert a name twice; an account's query leaves the id
  it did not find uninitialised.
* Durations: a spell that ends itself in its own script is ended twice; `tbl` keeps the
  caster of an earlier slot.
* BlockGrid: nested loops share `bl_list` (`map/command.c:655`, `map/npc.c:650`); an npc is
  taken out of the ids while still in a chain when npcs are read again.
* MobLife: the tables are cleared before the owner of the drop is looked up, so it is
  always the killer; a nested hit in `before_death` is paid twice; a deadly hit in
  `on_takedamage` lets the outer call write vita over a dead mob; a mob that a trap kills
  in its turn is alive again, without vita, when the turn's script goes on to write its
  state, and the next hit kills it and pays once more (`revived` counts these writes, and
  `PaidOnce` allows one reward for each).
* Hunt: a mob of type 2 and more that was spawned for once is never freed; a mob that walks
  keeps a target on another map; the dead can be struck through a threat added by a spell
  that outlived them.
* PlayerLife: who falls dies half a second later, and who leaves in between comes back
  alive with no vita and never regenerates; `attacker` is written by spells, gear and
  `removeHealth` on the dead, so a death may be put down to somebody who did nothing;
  `pc_res` gives 100 vita whatever the maximum; `setPK` stores seconds where `pc_timer`
  compares milliseconds (`map/sl.c:6543`, not in the model).
* Turns: the attack timer of an earlier session lets a player swing too soon; a reset logs
  each player out, handles one more packet for it and logs it out again.
* Dialogs: an answer resumes whichever coroutine waits; `_asyncDone` frees whatever is
  there; a dialog keeps the timeout of an earlier one.
* Sight, Figures, Looks: a correction that crosses a step leaves client and server apart
  until the next one; a mob that rises at home is drawn on the map where its body lay;
  scripts that raise the dead leave other ghosts on the screen; an invisible player who
  leaves a group stays drawn there (groups are fixed in the model).

### Fairness

`CharSession!FairSpec` gives weak fairness to the packet handlers of the char server, to
those of the map server, to the reconnection, to the timer of a row, to the start of a
dead map server and to the end of each session marked eof. The code justifies each by
its main loop: `do_sendrecv` and `do_parsepacket` visit every descriptor in every round,
timers are run in every round, `check_connect_char` is a timer of one second. That a
dead server is started again is an operator's promise. Clients and faults promise
nothing. `KickFrees` excludes the death of the char server, which loses the packet.
`CharSave!FairSpec` is fair to the logout once begun, to the forwarding of saves and to
the save server, and `SaveIsWritten` is checked without faults, because a save that meets
a broken link is lost. `TimerHeap!FairSpec` says that the main loop goes on calling
`timer_do`, that callbacks return, and that time passes.

## 4. What is proved

Every theorem holds for any values of the constants that satisfy the named assumption of
the module (`CharSessionAssumption`, `GroupsAssumption` and so on): the model values
differ from each other, bounds are naturals, tables and intervals are not empty. Nothing
else is assumed, but for a screen that is not larger than its map, and in `TimerHeap` for
intervals that leave room below 2^31 milliseconds (24 days) for how late a timer may be,
which every interval in the code does. Each invariant is
proved along the same path: `IInv` (where a module of proofs is about several components,
`LoginInv`, `TurnsInv` and so on) is inductive, one lemma proves it of the initial
states, one lemma for each handler that the step keeps it (or for each conjunct, in the
first two modules), and the invariant of the specification follows. TLC checked these
invariants before they were proved: all of them on the bounds of their runs, but for that
of `PlayerLife`, which it followed through twenty million states without coming to the
end.

| Module | Theorems | The property, for all constants |
|---|---|---|
| `CharSessionProofs` | `SpecTypeOK`, `SpecIndexedSessionIsLive`, `SpecOnlineHasSession`, `SpecAuthTimerMatchesRow`, `SpecFlagIsRight` | the invariants of `charsession` |
| | `SpecImplementsLease` | `CharSession` implements `CharLease` |
| `CharSaveProofs` | `SpecTypeOK`, `SpecLogoutSaveStands`, `SpecLoginSeesLogout`, `SpecSaveNeverUndoesSession` | all that `charsave` checks |
| `ServerPartsProofs` | `SpecRoutesByDescriptor` | answers reach who asked |
| | `SpecTableIsRight` | scans find the live servers |
| | `SpecMailSound` | mail keeps its place, its reader and its flag |
| | `SpecStreamInOrder` | packets are parsed whole and in the order they were written |
| | `SpecSaveIsExact` | a save is read back as it was written |
| | `SpecEntriesSound` | the part of `StoresSound` about entries |
| `TimerHeapProofs` | `SpecTypeOK`, `SpecHeapSound`, `SpecServedOnTime` | all the safety that `timerheap` checks |
| `PlayerPartsProofs` | `SpecTypeOK`, `SpecListedAreMembers`, `SpecSlotInUse`, `SpecExpelWithinGroup`, `SpecSeniorityKept` | all that `player_parts` checks of groups |
| | `SpecTurnsSound`, `SpecStrikesTheLiving`, `SpecRegistrySound` | the parts of `PlayersSound` |
| | `SpecPlayersSound` | `PlayersSound` |
| `MapPartsProofs` | `SpecSlotsSound` | slots agree with spells |
| | `SpecChainsSound` | the chains of a block hold what stands in it |
| | `SpecExchangeSound` | the part of `ItemsSound` about exchanges |
| `BankProofs` | `SpecBankSound` | the part of `ItemsSound` about banks and parcels |
| `WorldPartsProofs` | `SpecScreenIsTrue` | clients show who is there |
| | `SpecDialogSound`, `SpecSeenIsKnown`, `SpecDrawingIsTrue` | the parts of `ClientSound` |
| | `SpecMobSound`, `SpecPlayerLifeSound` | the parts of `LivesSound` |
| | `SpecLivesSound`, `SpecClientSound`, `SpecWorldPartsTypeOK` | all that `world_parts` checks, with `SpecScreenIsTrue` |

**CharSession.** `TypeOK` is not inductive: a forced logout writes to `session[id_db]`,
which must be a record, so it needs `IndexedSessionIsLive`; that is kept because only the
end of a playing session takes a session away, and it clears the entry. `OnlineHasSession`
is inductive beside it (the flag is set with the entry; whatever clears the entry clears
the flag or stops the server), and so is `AuthTimerMatchesRow`. For the refinement,
`GrantsApart` says that a permission is in one place: in one message of one link or in
the row, never twice. Then each handler moves one permission along, and `NextIsLeaseStep`
maps it to one action of `CharLease` or to a stutter. `SpecFlagIsRight` follows from the
refinement: `FlagInv` speaks of the abstract state, is kept by the steps of the abstract
specification, and so holds of every specification that implements it.

**CharSave.** `LogoutInv` is what a logout relies on, while none of the named exceptions
has happened. Nothing else is being written while its record is, and nobody logs in
before it is done (`LogoutAlone`); between two sessions the record is the one it wrote,
and so is whatever a login has read of it (`BetweenSessions`). `InOrder` is about the
saves of a session that plays: once a record of this session has been written, nothing
older is on the way, in either queue or from one to the next.

**LoginServer.** `Apart` says that only a second connection makes two sessions of the char
server at once, `IntifIsChar` that nothing else is parsed by `intif_parse`, and
`AskedHaveData` that a descriptor to which an answer is under way has its session's data,
unless it was handed out again.

**MapFifo.** A server that scans miss, because the end of the table was trimmed past it,
writes to the slot at `map_fifo_max`. That this is a slot needs `HiddenLeavesRoom`, and
`RoomLeft` is the pigeonhole argument it rests on: `map_fifo_max` only grows past slots
that all have connections of their own, so with one hidden besides them it cannot reach
the end. `FewConnected` is the guard of the model: no more connections than slots.

**Boards.** Positions never pass the number of posts (`PositionsAre`), so there is a
highest one for `nmailwrite` to put the next mail above, and `OnePerPosition` survives
every `Append`. No row changes its board or its receiver (`PostsGrow`), so a list or a
text that was sent is of its player's rows however late it comes (`RowsAreShown`), and a
request to delete is about the line that was chosen (`LinesAreAsked`). The flag needs a
second look: the answer to a read may clear it after another mail came, and then the news
of that mail comes behind that answer (`NewsComesBehind`); who is misled nevertheless is
in `misled`, and nobody else. Which position is read is a least one and which is written
after is a highest one; that both exist is `LeastIsThere` again (`FoundIs`, `HighestIs`).

**SocketFifo.** What waits in the two buffers and the kernel is what is expected, or its
beginning once the writer has closed (`Ordered`), and its first unit names the first
packet that was not dropped (`NextPacket`). A stream is packets flattened; that taking the
units of the first one leaves the rest flattened is proved by the length of the prefix.

**TableSave.** A save under way knows which positions ahead of it have a row, as long as
it is the only one (`SaveGoesOn`, `OneWriter`), so no position gets a second row, nothing
is cut off by a `LIMIT`, and what is read is what the rows say. The sums that the
statements compare are counted unit by unit (`UnitsOf`): `SumIsCount` makes them
cardinalities, for which the library has theorems.

**Ers.** The entries that were cut from the blocks of a manager are its free list and what
is held of them (`AllAreThere`); the list has an entry once and none that is held
(`ListIsFree`), and a container holds what is of the manager it uses (`HeldIsOwn`). So
when the last user of a manager goes, what was cut is in the list, no more and no less.
`MadeInTurn` keeps the managers of the table apart from those still to be made.

**TimerHeap.** Ticks wrap, so their order is no order: `TimerInv` says where they are as
seen from the clock. The tick of an armed timer is at most `MaxLag + LateMax` behind it
and less than half of all ticks ahead (`HeapInWindow`), timer_do is at most `MaxLag` late
(`PassIsRecent`), and what it runs is due (`RunningIsDue`). Two ticks of that window
compare as their distances from the clock do (`WindowOrder`), so the array is in order,
and stays so when the clock moves on. `IdsApart` and `FuncIsLive` say that an id is armed,
free or running, and that only what is armed or runs has a function: this is why
`acquire_timer` gives no id twice, and why an owner's id stays its own. That `HEAP_SEARCH`
finds the place is an induction over the length of what is left to search. The library's
rule for induction takes an operator, which the provers cannot instantiate, so the proof
goes by the least length for which the claim could fail (`LeastIsThere`, from the fact
that `<` is well-founded on the naturals); in the same way `SearchIsDefined` shows that
the recursive function has the value that its equation says. `SpecServedOnTime` follows:
what runs is last in the array, so nothing else was due before it, and timer_do ends when
the last is not due.

**Groups.** `IInv` adds `Idle` (players without a group have slot 0, offline players have
none) to `TypeOK`, `ListedAreMembers` and `SlotInUse`. The argument has three parts.
`SameSlot` and `RowIsGroup`: two grouped players with one slot see the same row, which
lists exactly the players with that slot. `Regroup`: a step that changes one row and the
fields of its group only, and leaves that group in agreement, leaves everyone in
agreement and the free slots right. `RowLeft`, `EnterKeeps` and the lemmas of the actions
show that each handler is such a step. `SpecExpelWithinGroup` follows from the agreement,
with no further induction, and `SpecSeniorityKept` from what the handlers do to a row.

**Durations.** `SlotOK` says of one slot, and of the uncast that is owed for it, what
holds at each stage of the timer; it is weaker for the slot whose `while_cast` runs.
`OwedInWhile` is what `Expire` relies on: as long as no script ended the spell, its uncast
is still owed, though scripts may have renewed it, let it wait or put another spell in
its place. `ExtraExplained` says that an uncast that was not owed comes from a spell that
is in two slots.

**BlockGrid.** The links of neighbours agree both ways (`LinksAgree`), the first of a chain
stands in its block (`FirstStands`), and what is off the map names nothing (`OffIsLoose`).
That no chain is a ring is the existence of ranks that fall along every chain (`Ranked`):
adding an object gives it a rank above all, removing one leaves the ranks alone. The walk
from the first object is a recursive function whose value is shown to meet exactly the
objects of the block (`WalkMeets`), by the least rank for which it would not, and the
count of users follows those that come and go (`Counted`).

**Exchange.** `ExchangeInv` is inductive. `WindowsAre` says who can have a window, `Tidy`
that windows which stand show each other and that only who stands has an offer or is done
with it, as long as no packet crossed the notice that closes a window and no third player
cut in. `ItemsKept` is about a sum over players of sums over slots and offers, and each
handler is a lemma about what it moves: what `pc_additem` puts in slots and what it drops
make what it was given (`FillSlots` is a fold, whose steps keep the sum), `pc_delitem`
takes what it says, giving back or handing over a list is a fold of additions. The folds
are followed by the greatest position for which the claim could fail. `PursesHold` says
the same of gold, and that who is done can pay. A purse is an unsigned number that wraps;
that all the gold there is fits one purse is a hypothesis of `GoldKept`.

**Bank.** What there is of a kind is a sum over players of bags and banks, a sum over the
parcels and one over the floor; a step moves an amount from one to another. `Ordered` says that a bank has no gaps and one slot for a kind and
mark, so a withdrawal takes from the slot that the player chose; `TalkFits` that the slot
a dialog remembers is there, though what is in it may be something else by then; and
`PostFits` that what is being posted is still in the bag. A step that changes the sum has
met one of the cases the property names (`BankFits`). That the bags at the start hold
what a slot may hold is an assumption (`HoldAssumption`).

**Registry.** A copy that nobody has written past agrees with the rows (`TablesAgree`).
Between the two queries of a write, what the first found stands until somebody else writes
(`FoundStands`, and `IdStands` for the id of a row of the game), the row of a map has the
place of its name until the map is loaded again (`PlacesStand`), and the slot is still the
one that was written (`SlotStands`).

**Looks.** `ScreenIsTrue` is inductive beside the types. The functions that draw
(`SendIs`, `GoneIs`, `UpdateIs`) are described pair by pair, of who looks and who is
seen; a step changes one player, so the other pairs stay as they were (`TruthOfOthers`),
and each handler is a lemma about that player.

**Turns, Hunt.** In `Turns` what was let through is at most what the counters counted
(`Counts`), and while no stray timer has come in, the timer of the last swing runs out
when a swing is due (`TimedSwing`), for any lengths of a second and a swing. In `Hunt`, a
mob strikes only the living because the dead in its threat table are there for a spell
that outlived them (`ThreatsLive`), and the two are inductive together with the types.

**Dialogs.** `Orderly` says what can be under way while nothing is crossed: nothing, one
act of the player, or one question or its answer, which is that of the player's coroutine
if the player has one. So an answer finds the coroutine that asked although it names
none. Nothing is said of the time after a crossing, until an event that nothing came
before starts over.

**Sight.** The strips are right when the client's screen stands where they assume it
(`Standing`). What is left is geometry on one axis: `StripAhead` (a mob that steps into
what the client keeps has the player in the strip before it, at the borders too) and
`AroundCovers` (a refresh sends all that the client keeps), for any sizes.

**Figures.** A step is told to all but those it names (`BecomesKeeps`), and `ShownIs` and
`DrawnIs` say what the three ways to draw come to: an object or a character is drawn if
and only if it is alive, which for npcs is that they never die (`NpcLives`).

**MobLife.** Scripts call each other to any depth, so `CallsAre` is about every call under
way. The calls below the last wait at stages where a script may call again
(`Interrupted`); a call that has set the vita to 0 finds it so, or a nested call is to
blame (`DyingHasNone`, `DeadInside`). A call that has still to pay is owed it (`Owed`): no
more was paid so far than turns wrote a state over a death, or a call inside the death
paid. Between calls a living mob is owed its reward and a dead one has had it
(`PaidIsDead`). `EmptyTablesNameKiller` is why loot is the killer's: the tables that name
another owner were emptied with the kill, and only what was written to them later counts.

**PlayerLife.** `LifeIs` says what each call on the way still owes: a player whose vita
fell to 0 is flagged or has a call that will see it (`FallIsSeen`), the killer of the last
call is the attacker (`KillerIsAttacker`), and each deviation is explained by an
irregularity that `HistoryKept` forgets only when the player stands, alive and whole.

What stays with TLC, and why:

* `ContainerSound` of `DbMap` (the other part of `StoresSound`) and `CallsWhatItFound` of
  `BlockGrid` rest on what walks over red-black trees, and the loops over an area, come to
  for every tree and area.
* `WearSound`, the part of `ItemsSound` about what is worn. It would follow the path of
  `ExchangeSound` and `BankSound`, with sums over places.
* `ServerPartsTypeOK` and `MapPartsTypeOK` join the types of parts of which some are not
  proved about yet. The types of the parts that are proved about are in their invariants.
* Liveness, which the prover does not support: `NoStuckOnline`, `KickFrees`,
  `RowExpires`, `SaveIsWritten`, `HeldTimerRuns`.

## 5. Limits of the models

* `CharSession` has one character. Two characters share only timers, descriptors and the
  sweep of flags; the sweep is the fault `otherserver`, and a descriptor that another
  client took over is in the model as far as the two clients of the character go.
* `Groups` assumes one USER for each character; `FlagIsRight` and `charsession_two` say when
  that holds.
* Database statements succeed and are atomic; MySQL does not die.
* Contents of packets that no property tells apart (looks of gear, counts, texts) are left
  out, and so is what scripts decide: a script may do anything that the scripts of the
  repository do, at any time.

* The items of an exchange are a sequence; the code has places for 52 and tests no bound
  (`map/map.h:237`, `map/clif.c:12460`).
* `LeavesOnce` exempts the reset of the server, which logs each player out twice.
* In `Dialogs`, scripts that do not take the player's coroutine but start one of their own
  (used items, spells, `onSay`) are left out. In `Sight` a body stays until the mob rises;
  a turn that writes a state over a death, as in `MobLife`, is not there.

Not modelled: clans and clan banks (`clandb_read` sizes its array by the number of clans
and walks it by a constant, so what happens depends on memory behind it), warps and npc
files, the commands of game masters, creation and recipes (tables read from files and
formulas), encryption and checksums, memory and strings, and the tools. `char_db.c` has
writers of its own (`*_todb`) that nothing calls.

## 6. Plan

Left to model, in order of what they would show: experience (a 32-bit product that
saturates), whispers and the list of ignored names, reading the data files again while
they are in use, registries of text; the composition of `CharSave` with `CharSession`
through `ChaOnline`.

Left to prove, in order: `WearSound`, and with it `ItemsSound` and
`MapPartsTypeOK`; the balance of the trees of `DbMap`, and with it `ContainerSound` and
`ServerPartsTypeOK`.
