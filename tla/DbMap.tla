------------------------------- MODULE DbMap -------------------------------
(***************************************************************************)
(* common/db.c: the keyed containers behind id_db and the tables of items, *)
(* mobs, spells and clans.  Each bucket of a hash table is a red-black     *)
(* tree.  While anybody iterates, a removed node stays in its tree, marked *)
(* deleted and on free_list, and is erased when the last lock is gone; it  *)
(* may come back to life before that.                                      *)
(*                                                                         *)
(* A node is known by its key, since a tree holds a key at most once.      *)
(* Data, the copies of keys and the options are left out.                  *)
(***************************************************************************)
EXTENDS Integers, Sequences, FiniteSetsExt, SequencesExt

CONSTANTS
  Keys,       \* a set of integers
  Nil,        \* no node
  HASH_SIZE,  \* buckets
  hash,       \* bucket of each key
  MaxFree     \* bound: removals under one iterator

Buckets == 0..HASH_SIZE - 1

ASSUME DbAssumption ==
  /\ Keys \subseteq Int /\ Nil \notin Keys
  /\ HASH_SIZE \in Nat \ {0} /\ hash \in [Keys -> Buckets] /\ MaxFree \in Nat

VARIABLES
  tree,       \* ht[], and left, right, parent and color of every node
  deleted,    \* the nodes marked so
  free_list,
  item_count,
  cache,      \* the node used last
  iter        \* the iterator that is open: ht_index and node, or Closed

dbVars == <<tree, deleted, free_list, item_count, cache, iter>>

Side == {"left", "right"}
Other(s) == IF s = "left" THEN "right" ELSE "left"
Closed == [ht_index |-> -1, node |-> Nil, open |-> FALSE]

NoTree ==
  [ht |-> [b \in Buckets |-> Nil],
   child |-> [s \in Side |-> [k \in Keys |-> Nil]],
   parent |-> [k \in Keys |-> Nil], color |-> [k \in Keys |-> "BLACK"]]

DbInit ==
  /\ tree = NoTree /\ deleted = {} /\ free_list = <<>> /\ item_count = 0
  /\ cache = Nil /\ iter = Closed

----------------------------------------------------------------------------
(* Red-black trees.  Left and right are treated alike: s is one of them.   *)

IsBlack(t, n) == n = Nil \/ t.color[n] = "BLACK"

Paint(t, n, c) == IF n = Nil THEN t ELSE [t EXCEPT !.color[n] = c]

\* n's place below its parent, or at the root, is now y's.
Relink(t, n, y) ==
  IF t.ht[hash[n]] = n THEN [t EXCEPT !.ht[hash[n]] = y]
  ELSE LET p == t.parent[n]
           s == IF t.child["left"][p] = n THEN "left" ELSE "right"
       IN  [t EXCEPT !.child[s][p] = y]

\* Follow the children on side s to the last.
Extreme(t, n, s) ==
  LET down[m \in Keys] ==
        IF t.child[s][m] = Nil THEN m ELSE down[t.child[s][m]]
  IN  down[n]

\* db_rotate_left is s = "left".
db_rotate(t, n, s) ==
  LET y == t.child[Other(s)][n]
      inner == t.child[s][y]
  IN  [Relink(t, n, y) EXCEPT
         !.child[Other(s)][n] = inner, !.child[s][y] = n,
         !.parent = [m \in Keys |-> CASE m = y -> t.parent[n]
                                      [] m = n -> y
                                      [] m = inner -> n
                                      [] OTHER -> t.parent[m]]]

\* The loops below climb a tree, so this many turns are enough.
Climb(Turn(_), state) ==
  FoldLeft(LAMBDA st, i : Turn(st), state, [i \in 1..Cardinality(Keys) |-> i])

\* Two red nodes in a row.
RebalanceTurn(st) ==
  LET t == st.t
      n == st.n
      p == t.parent[n]
      g == t.parent[p]
      s == IF t.child["left"][g] = p THEN "left" ELSE "right"
      uncle == t.child[Other(s)][g]
      inside == t.child[Other(s)][p] = n
      u == IF inside THEN db_rotate(t, p, s) ELSE t
      top == IF inside THEN n ELSE p
  IN  IF p = Nil \/ IsBlack(t, p) THEN st
      ELSE IF ~IsBlack(t, uncle)
      THEN [t |-> Paint(Paint(Paint(t, p, "BLACK"), uncle, "BLACK"), g, "RED"),
            n |-> g]
      ELSE [t |-> db_rotate(Paint(Paint(u, top, "BLACK"), g, "RED"), g,
                            Other(s)),
            n |-> IF inside THEN p ELSE n]

db_rebalance(t, n) ==
  LET u == Climb(RebalanceTurn, [t |-> t, n |-> n]).t
  IN  Paint(u, u.ht[hash[n]], "BLACK")

\* Take node out of its tree: y comes to its place when it has two children,
\* else its only child x does.
Unlinked(t, node, y, x) ==
  LET up(v, p) == IF x = Nil THEN v ELSE [v EXCEPT !.parent[x] = p]
      leftDone == [t EXCEPT !.parent[t.child["left"][node]] = y,
                            !.child["left"][y] = t.child["left"][node]]
      rightDone ==
        IF y = t.child["right"][node] THEN leftDone
        ELSE up([leftDone EXCEPT !.child["left"][t.parent[y]] = x,
                                 !.child["right"][y] = t.child["right"][node],
                                 !.parent[t.child["right"][node]] = y],
                t.parent[y])
  IN  IF y = node THEN up(Relink(t, node, x), t.parent[node])
      ELSE [Relink(rightDone, node, y) EXCEPT
              !.parent[y] = t.parent[node], !.color[y] = t.color[node]]

\* One black node too few on the paths through x.
EraseTurn(st) ==
  LET s == IF st.x = st.t.child["left"][st.xp] THEN "left" ELSE "right"
      o == Other(s)
      w0 == st.t.child[o][st.xp]
      t == IF IsBlack(st.t, w0) THEN st.t
           ELSE db_rotate(Paint(Paint(st.t, w0, "BLACK"), st.xp, "RED"),
                          st.xp, s)
      w == t.child[o][st.xp]
      near == t.child[s][w]
      far == t.child[o][w]
      u == IF IsBlack(t, far)
           THEN db_rotate(Paint(Paint(t, near, "BLACK"), w, "RED"), w, o)
           ELSE t
      v == u.child[o][st.xp]
  IN  IF st.x = st.t.ht[st.b] \/ ~IsBlack(st.t, st.x) \/ st.done THEN st
      ELSE IF IsBlack(t, near) /\ IsBlack(t, far)
      THEN [st EXCEPT !.t = Paint(t, w, "RED"), !.x = st.xp,
                      !.xp = t.parent[st.xp]]
      ELSE [st EXCEPT
              !.t = db_rotate(Paint(Paint(Paint(u, v, u.color[st.xp]),
                                          st.xp, "BLACK"),
                                    u.child[o][v], "BLACK"), st.xp, s),
              !.done = TRUE]

db_rebalance_erase(t, node) ==
  LET L == t.child["left"][node]
      R == t.child["right"][node]
      y == IF L = Nil \/ R = Nil THEN node ELSE Extreme(t, R, "left")
      x == IF t.child["left"][y] = Nil THEN t.child["right"][y]
                                       ELSE t.child["left"][y]
      xp == IF y = R THEN y ELSE t.parent[y]
      fixed == Climb(EraseTurn, [t |-> Unlinked(t, node, y, x), x |-> x,
                                 xp |-> xp, b |-> hash[node], done |-> FALSE])
      u == IF t.color[y] = "RED" THEN Unlinked(t, node, y, x)
           ELSE Paint(fixed.t, fixed.x, "BLACK")
  IN  [u EXCEPT !.child["left"][node] = Nil, !.child["right"][node] = Nil,
                !.parent[node] = Nil, !.color[node] = "BLACK"]

----------------------------------------------------------------------------
(* The interface.                                                          *)

\* The search for k: the node, and the last one before it.
Search(t, k) ==
  LET from[n \in Keys \cup {Nil}, last \in Keys \cup {Nil}] ==
        IF n = Nil \/ n = k THEN [node |-> n, parent |-> last]
        ELSE from[t.child[IF k < n THEN "left" ELSE "right"][n], n]
  IN  from[t.ht[hash[k]], Nil]

Inserted(t, k, p) ==
  IF p = Nil THEN [t EXCEPT !.ht[hash[k]] = k]
  ELSE LET u == [t EXCEPT !.child[IF k < p THEN "left" ELSE "right"][p] = k,
                          !.parent[k] = p, !.color[k] = "RED"]
       IN  IF IsBlack(u, p) THEN u ELSE db_rebalance(u, k)

\* The last entry fills the gap.
db_free_remove_NoFill(list, k) == Front(list)
db_free_remove(list, k) ==
  LET i == CHOOSE j \in DOMAIN list : list[j] = k
  IN  Front([list EXCEPT ![i] = Last(list)])

db_obj_put(k) ==
  LET at == Search(tree, k)
  IN  /\ IF at.node = Nil
         THEN /\ tree' = Inserted(tree, k, at.parent)
              /\ item_count' = item_count + 1
              /\ UNCHANGED <<deleted, free_list>>
         ELSE /\ free_list' = IF k \in deleted THEN db_free_remove(free_list, k)
                                               ELSE free_list
              /\ item_count' = IF k \in deleted THEN item_count + 1
                                                ELSE item_count
              /\ deleted' = deleted \ {k}
              /\ UNCHANGED tree
      /\ cache' = k
      /\ UNCHANGED iter

db_obj_get(k) ==
  /\ cache' = IF Search(tree, k).node = k /\ k \notin deleted THEN k ELSE cache
  /\ UNCHANGED <<tree, deleted, free_list, item_count, iter>>

\* db_free_add, and db_free_unlock if nobody iterates.
Removed(k) ==
  /\ item_count' = item_count - 1
  /\ cache' = IF cache = k THEN Nil ELSE cache
  /\ IF iter.open
     THEN /\ Len(free_list) < MaxFree
          /\ deleted' = deleted \cup {k}
          /\ free_list' = Append(free_list, k)
          /\ UNCHANGED tree
     ELSE tree' = db_rebalance_erase(tree, k)
          /\ UNCHANGED <<deleted, free_list>>

db_obj_remove(k) ==
  /\ Search(tree, k).node = k /\ k \notin deleted
  /\ Removed(k)
  /\ UNCHANGED iter

\* The walk of dbi_next (s = "right") and dbi_prev (s = "left"): from n, or
\* from the end of bucket b when n is Nil, to the next node not deleted.
Following(t, gone, b, n, s) ==
  LET o == Other(s)
      above[m \in Keys] == LET p == t.parent[m]
                           IN  IF p = Nil \/ t.child[s][p] # m THEN p
                               ELSE above[p]
      after(m) == IF t.child[s][m] = Nil THEN above[m]
                  ELSE Extreme(t, t.child[s][m], o)
      alive[m \in Keys \cup {Nil}] ==
        IF m = Nil \/ m \notin gone THEN m ELSE alive[after(m)]
  IN  alive[IF n # Nil THEN after(n)
            ELSE IF t.ht[b] = Nil THEN Nil ELSE Extreme(t, t.ht[b], o)]

\* Bucket by bucket.
Next_entry(t, gone, b, n, s) ==
  LET step == IF s = "right" THEN 1 ELSE -1
      try[c \in -1..HASH_SIZE, m \in Keys \cup {Nil}] ==
        IF c \notin Buckets THEN [ht_index |-> c, node |-> Nil]
        ELSE LET f == Following(t, gone, c, m, s)
             IN  IF f # Nil THEN [ht_index |-> c, node |-> f]
                 ELSE try[c + step, Nil]
  IN  IF s = "right" /\ b < 0 THEN try[0, Nil]
      ELSE IF s = "left" /\ b >= HASH_SIZE THEN try[HASH_SIZE - 1, Nil]
      ELSE try[b, n]

db_iterator ==
  /\ ~iter.open
  /\ iter' = [Closed EXCEPT !.open = TRUE]
  /\ UNCHANGED <<tree, deleted, free_list, item_count, cache>>

dbit_obj_next(s) ==
  /\ iter.open
  /\ LET e == Next_entry(tree, deleted, iter.ht_index, iter.node, s)
     IN  iter' = [ht_index |-> e.ht_index, node |-> e.node, open |-> TRUE]
  /\ UNCHANGED <<tree, deleted, free_list, item_count, cache>>

dbit_obj_remove ==
  /\ iter.open /\ iter.node # Nil /\ iter.node \notin deleted
  /\ Removed(iter.node)
  /\ UNCHANGED iter

\* The nodes go in the order they were removed in.
db_free_unlock(t, list) == FoldLeft(db_rebalance_erase, t, list)

dbit_obj_destroy ==
  /\ iter.open
  /\ tree' = db_free_unlock(tree, free_list)
  /\ deleted' = {} /\ free_list' = <<>>
  /\ iter' = Closed
  /\ UNCHANGED <<item_count, cache>>

\* Nobody clears a table that is iterated.
db_obj_vclear ==
  /\ ~iter.open
  /\ tree' = NoTree /\ item_count' = 0 /\ cache' = Nil
  /\ UNCHANGED <<deleted, free_list, iter>>

DbNext ==
  \/ \E k \in Keys : db_obj_put(k) \/ db_obj_get(k) \/ db_obj_remove(k)
  \/ \E s \in Side : dbit_obj_next(s)
  \/ db_iterator \/ dbit_obj_remove \/ dbit_obj_destroy \/ db_obj_vclear

DbSpec == DbInit /\ [][DbNext]_dbVars

----------------------------------------------------------------------------
Node == Keys \cup {Nil}

DbTypeOK ==
  /\ tree \in [ht : [Buckets -> Node], child : [Side -> [Keys -> Node]],
               parent : [Keys -> Node], color : [Keys -> {"RED", "BLACK"}]]
  /\ deleted \subseteq Keys /\ free_list \in Seq(Keys)
  /\ item_count \in 0..Cardinality(Keys) /\ cache \in Node
  /\ iter \in [ht_index : -1..HASH_SIZE, node : Node, open : BOOLEAN]

Subtree(t, n) ==
  LET under[m \in Node] ==
        IF m = Nil THEN {}
        ELSE {m} \cup UNION {under[t.child[s][m]] : s \in Side}
  IN  under[n]

\* Black nodes on the way down from n, or -1 when two ways differ.
BlackHeight(t, n) ==
  LET height[m \in Node] ==
        IF m = Nil THEN 0
        ELSE LET L == height[t.child["left"][m]]
                 R == height[t.child["right"][m]]
             IN  IF L # R \/ L = -1 THEN -1
                 ELSE IF t.color[m] = "BLACK" THEN L + 1 ELSE L
  IN  height[n]

\* Each bucket is a search tree whose links agree, balanced by color, through
\* every insertion, removal, return of a deleted node, and through the delayed
\* erasing of many nodes one after the other.
Balanced ==
  \A b \in Buckets :
    LET nodes == Subtree(tree, tree.ht[b])
    IN  /\ IsBlack(tree, tree.ht[b]) /\ BlackHeight(tree, tree.ht[b]) # -1
        /\ tree.ht[b] # Nil => tree.parent[tree.ht[b]] = Nil
        /\ \A n \in nodes, s \in Side :
             LET c == tree.child[s][n]
             IN  /\ c # Nil => tree.parent[c] = n
                 /\ IsBlack(tree, n) \/ IsBlack(tree, c)
                 /\ \A m \in Subtree(tree, c) :
                      /\ hash[m] = b
                      /\ IF s = "left" THEN m < n ELSE n < m

AllNodes == UNION {Subtree(tree, tree.ht[b]) : b \in Buckets}
Live == AllNodes \ deleted

\* Later in the order of the iteration.
Precedes(m, n) == hash[m] < hash[n] \/ (hash[m] = hash[n] /\ m < n)

\* free_list holds each deleted node once, and only while somebody iterates;
\* the count is that of the entries; the cache and the iterator never hold a
\* node that was given back.
ListsAgree ==
  /\ IsInjective(free_list) /\ ToSet(free_list) = deleted
  /\ deleted \subseteq AllNodes
  /\ deleted # {} => iter.open
  /\ item_count = Cardinality(Live)
  /\ cache \in Live \cup {Nil} /\ iter.node \in AllNodes \cup {Nil}

\* From any node, deleted meanwhile or not, the next entry is the nearest live
\* one in the order of buckets and keys: an iteration misses and repeats none,
\* although the tree is turned round under it.
IterationInOrder ==
  \A n \in AllNodes :
    /\ LET later == {m \in Live : Precedes(n, m)}
           e == Next_entry(tree, deleted, hash[n], n, "right").node
       IN  IF later = {} THEN e = Nil
           ELSE e \in later /\ \A m \in later : m = e \/ Precedes(e, m)
    /\ LET earlier == {m \in Live : Precedes(m, n)}
           e == Next_entry(tree, deleted, hash[n], n, "left").node
       IN  IF earlier = {} THEN e = Nil
           ELSE e \in earlier /\ \A m \in earlier : m = e \/ Precedes(m, e)

ContainerSound == Balanced /\ ListsAgree /\ IterationInOrder
=============================================================================
