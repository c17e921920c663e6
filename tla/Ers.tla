-------------------------------- MODULE Ers --------------------------------
(***************************************************************************)
(* common/ers.c: entries of one size, from which db.c makes its nodes.     *)
(* Containers whose entries have the same size share a manager.  It cuts   *)
(* entries from blocks, never gives a block back while it lives, and keeps *)
(* the freed ones in a list, that is linked through the entries            *)
(* themselves.  It goes with the last container that uses it, and then     *)
(* compares what is in the list with what it has ever handed out.          *)
(*                                                                         *)
(* An entry is known by its manager, block and place.  The server exits    *)
(* when ers_root is full, that is the end of the behaviour.                *)
(***************************************************************************)
EXTENDS Integers, Sequences, FiniteSets

CONSTANTS
  Containers,         \* who uses entries
  EntrySizes,
  LinkSize,           \* size of the link to the next free entry
  ERS_BLOCK_ENTRIES,  \* entries of a block
  ERS_ROOT_SIZE,      \* managers at a time
  MaxManagers,        \* bound: managers that are ever made
  MaxBlocks           \* bound: blocks of a manager

ASSUME ErsAssumption ==
  /\ IsFiniteSet(Containers) /\ EntrySizes \subseteq Nat \ {0}
  /\ LinkSize \in Nat
  /\ ERS_BLOCK_ENTRIES \in Nat \ {0}
  /\ {ERS_ROOT_SIZE, MaxManagers, MaxBlocks} \subseteq Nat

VARIABLES
  ers_root,  \* the managers there are
  made,      \* how many were made
  managers,  \* the fields of each
  uses,      \* container -> its manager, or 0
  held,      \* container -> its entries
  ersFaults  \* history: twice (an entry was handed out that somebody holds),
             \* missing and extra (warnings of a manager as it went), outside
             \* (a block was written behind the end of the array)

ersVars == <<ers_root, made, managers, uses, held, ersFaults>>

Entry(m, b, i) == [manager |-> m, block |-> b, at |-> i]
Entries == [manager : 1..MaxManagers, block : 0..MaxBlocks - 1,
            at : 0..ERS_BLOCK_ENTRIES - 1]

Fresh(size) == [size |-> size, destroy |-> 1, reuse |-> <<>>, free |-> 0,
                num |-> 0, max |-> 0]

ErsInit ==
  /\ ers_root = <<>> /\ made = 0
  /\ managers = [m \in 1..MaxManagers |-> Fresh(0)]
  /\ uses = [c \in Containers |-> 0]
  /\ held = [c \in Containers |-> {}]
  /\ ersFaults = {}

----------------------------------------------------------------------------
\* A free entry must hold the link.  Sizes are aligned to ERS_ALIGNED, 1.
RealSize(size) == IF size < LinkSize THEN LinkSize ELSE size

Handling(size) == {i \in DOMAIN ers_root : managers[ers_root[i]].size = size}

\* A manager of this size is shared, else a new one is made.
ers_new(c, size) ==
  LET s == RealSize(size) IN
  /\ uses[c] = 0
  /\ \/ \E i \in Handling(s) :
          /\ managers' = [managers EXCEPT ![ers_root[i]].destroy = @ + 1]
          /\ uses' = [uses EXCEPT ![c] = ers_root[i]]
          /\ UNCHANGED <<ers_root, made>>
     \/ /\ Handling(s) = {}
        /\ Len(ers_root) < ERS_ROOT_SIZE /\ made < MaxManagers
        /\ made' = made + 1
        /\ managers' = [managers EXCEPT ![made + 1] = Fresh(s)]
        /\ ers_root' = Append(ers_root, made + 1)
        /\ uses' = [uses EXCEPT ![c] = made + 1]
  /\ UNCHANGED <<held, ersFaults>>

Holds(e) == \E c \in Containers : e \in held[c]

\* The container gets entry e and the manager has the rest.
Given(c, e, rest) ==
  /\ held' = [held EXCEPT ![c] = @ \cup {e}]
  /\ managers' = [managers EXCEPT ![uses[c]] = rest]
  /\ UNCHANGED <<ers_root, made, uses>>

Twice(e) == IF Holds(e) THEN {"twice"} ELSE {}

\* The entry that was freed last.
alloc_reused(c) ==
  LET obj == managers[uses[c]]
      e == Head(obj.reuse)
  IN
  /\ uses[c] # 0 /\ obj.reuse # <<>>
  /\ Given(c, e, [obj EXCEPT !.reuse = Tail(@)])
  /\ ersFaults' = ersFaults \cup Twice(e)

\* The next one of the last block, from the end of the block.
alloc_unused(c) ==
  LET obj == managers[uses[c]]
      e == Entry(uses[c], obj.num - 1, obj.free - 1)
  IN
  /\ uses[c] # 0 /\ obj.reuse = <<>> /\ obj.free > 0
  /\ Given(c, e, [obj EXCEPT !.free = @ - 1])
  /\ ersFaults' = ersFaults \cup Twice(e)

\* The last one of a new block; the array of blocks grows when it is full.
alloc_block(c) ==
  LET obj == managers[uses[c]]
      e == Entry(uses[c], obj.num, ERS_BLOCK_ENTRIES - 1)
      grown == IF obj.num = obj.max THEN obj.max * 4 + 3 ELSE obj.max
  IN
  /\ uses[c] # 0 /\ obj.reuse = <<>> /\ obj.free = 0
  /\ obj.num < MaxBlocks
  /\ Given(c, e, [obj EXCEPT !.free = ERS_BLOCK_ENTRIES - 1, !.num = @ + 1,
                             !.max = grown])
  /\ ersFaults' = ersFaults \cup Twice(e)
                    \cup (IF obj.num < grown THEN {} ELSE {"outside"})

\* db.c frees what it got, and to the manager it got it from.
ers_free(c, e) ==
  /\ e \in held[c]
  /\ held' = [held EXCEPT ![c] = @ \ {e}]
  /\ managers' = [managers EXCEPT ![uses[c]].reuse = <<e>> \o @]
  /\ UNCHANGED <<ers_root, made, uses, ersFaults>>

\* The last manager takes the place of the one that goes.
WithoutManager(m) ==
  LET n == Len(ers_root)
      Put(i) == IF ers_root[i] = m THEN ers_root[n] ELSE ers_root[i]
  IN  [i \in 1..n - 1 |-> Put(i)]

\* How many entries were ever cut from the blocks of a manager.
CutFrom(obj) == obj.num * ERS_BLOCK_ENTRIES - obj.free

\* db_obj_vdestroy has freed its nodes before.  Only the last user ends the
\* manager.
ers_destroy(c) ==
  LET m == uses[c]
      obj == managers[m]
  IN
  /\ m # 0 /\ held[c] = {}
  /\ uses' = [uses EXCEPT ![c] = 0]
  /\ managers' = [managers EXCEPT ![m].destroy = @ - 1]
  /\ IF obj.destroy > 1
     THEN UNCHANGED <<ers_root, ersFaults>>
     ELSE /\ ers_root' = WithoutManager(m)
          /\ ersFaults' = ersFaults
               \cup (IF CutFrom(obj) > Len(obj.reuse) THEN {"missing"} ELSE {})
               \cup (IF CutFrom(obj) < Len(obj.reuse) THEN {"extra"} ELSE {})
  /\ UNCHANGED <<made, held>>

ErsNext ==
  \E c \in Containers :
    \/ \E size \in EntrySizes : ers_new(c, size)
    \/ alloc_reused(c) \/ alloc_unused(c) \/ alloc_block(c)
    \/ \E e \in held[c] : ers_free(c, e)
    \/ ers_destroy(c)

ErsSpec == ErsInit /\ [][ErsNext]_ersVars

----------------------------------------------------------------------------
ErsTypeOK ==
  /\ ers_root \in Seq(1..MaxManagers) /\ made \in 0..MaxManagers
  /\ managers \in [1..MaxManagers ->
       [size : Nat, destroy : Int, reuse : Seq(Entries),
        free : 0..ERS_BLOCK_ENTRIES - 1, num : 0..MaxBlocks, max : Nat]]
  /\ uses \in [Containers -> 0..MaxManagers]
  /\ held \in [Containers -> SUBSET Entries]
  /\ ersFaults \subseteq {"twice", "missing", "extra", "outside"}

UsersOf(m) == {c \in Containers : uses[c] = m}

\* A manager is in the table once, as long as somebody uses it, by the number
\* of its users, and no other handles its size.
ManagersStand ==
  /\ \A i, j \in DOMAIN ers_root :
       managers[ers_root[i]].size = managers[ers_root[j]].size => i = j
  /\ \A m \in 1..MaxManagers :
       (\E i \in DOMAIN ers_root : ers_root[i] = m) <=> UsersOf(m) # {}
  /\ \A i \in DOMAIN ers_root :
       managers[ers_root[i]].destroy = Cardinality(UsersOf(ers_root[i]))

\* No entry is handed out that somebody holds, no manager goes with entries
\* missing, and no block is written outside.
EntriesSound == ersFaults = {} /\ ManagersStand
=============================================================================
