-------------------------- MODULE TimerHeapProofs --------------------------
(***************************************************************************)
(* Theorems about TimerHeap, for any clock, any owners and any lengths of  *)
(* time that its assumption allows.                                        *)
(*                                                                         *)
(* Ticks wrap, so no order of ticks is an order.  Seen from the clock they *)
(* are numbers, though: the ticks of armed timers stay in a window of less *)
(* than half the ticks (HeapInWindow), and inside of it what DIFF_TICK     *)
(* says of two of them is the difference of what it says of each and the   *)
(* clock.  The array is then ordered as numbers are, and the binary search *)
(* (proved by the least length for which it could fail) finds the place.   *)
(***************************************************************************)
EXTENDS TimerHeap, TLAPS, WellFoundedInduction, SequenceTheorems

----------------------------------------------------------------------------
(* The invariant.                                                          *)

InHeap(id) == \E i \in DOMAIN heap : heap[i] = id
InFree(id) == \E i \in DOMAIN free : free[i] = id

\* An id is in one place at most, and was handed out.
IdsApart ==
  /\ \A i, j \in DOMAIN heap : heap[i] = heap[j] => i = j
  /\ \A i, j \in DOMAIN free : free[i] = free[j] => i = j
  /\ \A i \in DOMAIN heap : ~InFree(heap[i]) /\ heap[i] # running /\ heap[i] < num
  /\ \A i \in DOMAIN free : free[i] # running /\ free[i] < num
  /\ running # Null => running < num

\* A timer that has a function is in the array or runs, and the one that runs
\* is marked until it is removed.
FuncIsLive ==
  \A id \in Ids :
    /\ data[id].func # Null => InHeap(id) \/ running = id
    /\ data[id].marked = (running = id /\ data[id].func # Null)

\* What a tick may be while its timer is in the array, seen from the clock.
Lag == MaxLag + LateMax
InWindow(t) == -Lag < DIFF_TICK(t, now) /\ DIFF_TICK(t, now) <= Half - Lag

HeapInWindow == \A i \in DOMAIN heap : InWindow(data[heap[i]].tick)

\* timer_do is not late, and what it runs is due.
PassIsRecent ==
  pass # Null => -MaxLag <= DIFF_TICK(pass, now) /\ DIFF_TICK(pass, now) <= 0
RunningIsDue ==
  running # Null => pass # Null /\ DIFF_TICK(data[running].tick, pass) <= 0

TimerInv ==
  /\ TypeOK /\ IdsApart /\ FuncIsLive /\ HandleIsOwn
  /\ HeapSorted /\ HeapInWindow /\ PassIsRecent /\ RunningIsDue

----------------------------------------------------------------------------
(* Ticks.                                                                  *)

\* The remainder, for the numbers that sums and differences of ticks are.
LEMMA Remainder ==
  ASSUME NEW x \in Int, -Wrap <= x, x < 2 * Wrap, Half \in Nat \ {0}
  PROVE  x % Wrap = IF x < 0 THEN x + Wrap ELSE IF x < Wrap THEN x ELSE x - Wrap
<1> DEFINE W == Wrap
<1>1. W \in Nat \ {0}
  BY DEF Wrap
<1> HIDE DEF W
<1>2. x \in 0 .. W - 1 => x % W = x
  BY <1>1
<1>3. -W <= x /\ x < 0 => x % W = x + W
  BY <1>1
<1>4. W <= x /\ x < 2 * W => x % W = x - W
  BY <1>1
<1> QED
  BY <1>1, <1>2, <1>3, <1>4 DEF W

\* A signed difference, written out.
LEMMA DiffIs ==
  ASSUME NEW a \in Tick, NEW b \in Tick, Half \in Nat \ {0}
  PROVE  DIFF_TICK(a, b) = IF a - b < -Half THEN a - b + Wrap
                           ELSE IF a - b < Half THEN a - b ELSE a - b - Wrap
<1>1. a - b \in Int /\ -Wrap <= a - b /\ a - b < Wrap /\ a - b < 2 * Wrap
  BY DEF Tick, Wrap
<1>2. (a - b) % Wrap = IF a - b < 0 THEN a - b + Wrap ELSE a - b
  BY <1>1, Remainder
<1> QED
  BY <1>1, <1>2 DEF DIFF_TICK, Wrap

\* Seen from a third tick, ticks that are not half the circle apart compare as
\* numbers do.
LEMMA SeenFrom ==
  ASSUME NEW a \in Tick, NEW b \in Tick, NEW n \in Tick, Half \in Nat \ {0}
  PROVE  /\ DIFF_TICK(a, n) \in -Half .. Half - 1
         /\ -Half <= DIFF_TICK(a, n) - DIFF_TICK(b, n)
            /\ DIFF_TICK(a, n) - DIFF_TICK(b, n) < Half
              => DIFF_TICK(a, b) = DIFF_TICK(a, n) - DIFF_TICK(b, n)
<1>1. DIFF_TICK(a, n) = IF a - n < -Half THEN a - n + Wrap
                        ELSE IF a - n < Half THEN a - n ELSE a - n - Wrap
  BY DiffIs
<1>2. DIFF_TICK(b, n) = IF b - n < -Half THEN b - n + Wrap
                        ELSE IF b - n < Half THEN b - n ELSE b - n - Wrap
  BY DiffIs
<1>3. DIFF_TICK(a, b) = IF a - b < -Half THEN a - b + Wrap
                        ELSE IF a - b < Half THEN a - b ELSE a - b - Wrap
  BY DiffIs
<1> DEFINE x == DIFF_TICK(a, n)
           y == DIFF_TICK(b, n)
           z == DIFF_TICK(a, b)
<1> HIDE DEF x, y, z
<1>4. x = IF a - n < -Half THEN a - n + Wrap
          ELSE IF a - n < Half THEN a - n ELSE a - n - Wrap
  BY <1>1 DEF x
<1>5. y = IF b - n < -Half THEN b - n + Wrap
          ELSE IF b - n < Half THEN b - n ELSE b - n - Wrap
  BY <1>2 DEF y
<1>6. z = IF a - b < -Half THEN a - b + Wrap
          ELSE IF a - b < Half THEN a - b ELSE a - b - Wrap
  BY <1>3 DEF z
<1>7. /\ x \in -Half .. Half - 1
      /\ -Half <= x - y /\ x - y < Half => z = x - y
  BY <1>4, <1>5, <1>6 DEF Tick, Wrap
<1> QED
  BY <1>7 DEF x, y, z

\* What NotBefore says, seen from a third tick.
LEMMA NotBeforeIs ==
  ASSUME NEW a \in Tick, NEW b \in Tick, NEW n \in Tick, Half \in Nat \ {0},
         -Half < DIFF_TICK(a, n) - DIFF_TICK(b, n),
         DIFF_TICK(a, n) - DIFF_TICK(b, n) < Half
  PROVE  NotBefore(a, b) = (DIFF_TICK(a, n) >= DIFF_TICK(b, n))
<1>1. DIFF_TICK(a, b) = DIFF_TICK(a, n) - DIFF_TICK(b, n)
  BY SeenFrom
<1>2. DIFF_TICK(a, b) = IF a - b < -Half THEN a - b + Wrap
                        ELSE IF a - b < Half THEN a - b ELSE a - b - Wrap
  BY DiffIs
<1>3. a - b \in Int /\ -Wrap <= a - b /\ a - b < Wrap /\ a - b < 2 * Wrap
  BY DEF Tick, Wrap
<1>4. (a - b) % Wrap = IF a - b < 0 THEN a - b + Wrap ELSE a - b
  BY <1>3, Remainder
<1>5. NotBefore(a, b) = (DIFF_TICK(a, b) >= 0)
  <2> DEFINE z == DIFF_TICK(a, b)
             r == (a - b) % Wrap
  <2> HIDE DEF z, r
  <2>1. /\ z = IF a - b < -Half THEN a - b + Wrap
               ELSE IF a - b < Half THEN a - b ELSE a - b - Wrap
        /\ -Half < z /\ z < Half
    BY <1>1, <1>2 DEF z
  <2>2. r = IF a - b < 0 THEN a - b + Wrap ELSE a - b
    BY <1>4 DEF r
  <2>3. (r < Half) = (z >= 0)
    BY <2>1, <2>2 DEF Tick, Wrap
  <2> QED
    BY <2>3 DEF z, r, NotBefore
<1>6. DIFF_TICK(a, n) \in Int /\ DIFF_TICK(b, n) \in Int
  BY SeenFrom
<1> QED
  BY <1>1, <1>5, <1>6

\* Adding less than half of all ticks.
LEMMA AddIs ==
  ASSUME NEW a \in Tick, NEW n \in Tick, NEW k \in Nat, k <= Half, Half \in Nat \ {0}
  PROVE  /\ Add(a, k) \in Tick
         /\ DIFF_TICK(a, n) + k < Half
              => DIFF_TICK(Add(a, k), n) = DIFF_TICK(a, n) + k
<1>1. a + k \in Int /\ -Wrap <= a + k /\ 0 <= a + k /\ a + k < 2 * Wrap
  BY DEF Tick, Wrap
<1>2. Add(a, k) = IF a + k < Wrap THEN a + k ELSE a + k - Wrap
  <2>1. a \in Int /\ Wrap \in Int
    BY DEF Tick, Wrap
  <2>2. (a + k) % Wrap = IF a + k < 0 THEN a + k + Wrap
                         ELSE IF a + k < Wrap THEN a + k ELSE a + k - Wrap
    BY <1>1, <2>1, Remainder
  <2>3. ~(a + k < 0)
    BY <1>1
  <2> QED
    BY <2>1, <2>2, <2>3 DEF Add
<1>3. Add(a, k) \in Tick
  BY <1>1, <1>2 DEF Tick, Wrap
<1>4. DIFF_TICK(a, n) = IF a - n < -Half THEN a - n + Wrap
                        ELSE IF a - n < Half THEN a - n ELSE a - n - Wrap
  BY DiffIs
<1> DEFINE s == Add(a, k)
           x == DIFF_TICK(a, n)
           y == DIFF_TICK(s, n)
<1>5. y = IF s - n < -Half THEN s - n + Wrap
          ELSE IF s - n < Half THEN s - n ELSE s - n - Wrap
  BY <1>3, DiffIs
<1>6. s = IF a + k < Wrap THEN a + k ELSE a + k - Wrap
  BY <1>2
<1>7. x = IF a - n < -Half THEN a - n + Wrap
          ELSE IF a - n < Half THEN a - n ELSE a - n - Wrap
  BY <1>4
<1> HIDE DEF s, x, y
<1>8. x + k < Half => y = x + k
  BY <1>5, <1>6, <1>7 DEF Tick, Wrap
<1> QED
  BY <1>3, <1>8 DEF s, x, y

\* A tick passes.
LEMMA TickPasses ==
  ASSUME NEW a \in Tick, NEW n \in Tick, Half \in Nat \ {0},
         -Half < DIFF_TICK(a, n)
  PROVE  /\ Add(n, 1) \in Tick
         /\ DIFF_TICK(a, Add(n, 1)) = DIFF_TICK(a, n) - 1
<1>1. n + 1 \in Int /\ -Wrap <= n + 1 /\ 0 <= n + 1 /\ n + 1 < 2 * Wrap
  BY DEF Tick, Wrap
<1>2. Add(n, 1) = IF n + 1 < Wrap THEN n + 1 ELSE n + 1 - Wrap
  <2>1. n \in Int /\ Wrap \in Int
    BY DEF Tick, Wrap
  <2>2. (n + 1) % Wrap = IF n + 1 < 0 THEN n + 1 + Wrap
                         ELSE IF n + 1 < Wrap THEN n + 1 ELSE n + 1 - Wrap
    BY <1>1, <2>1, Remainder
  <2>3. ~(n + 1 < 0)
    BY <1>1
  <2> QED
    BY <2>1, <2>2, <2>3 DEF Add
<1>3. Add(n, 1) \in Tick
  BY <1>1, <1>2 DEF Tick, Wrap
<1> DEFINE s == Add(n, 1)
           x == DIFF_TICK(a, n)
           y == DIFF_TICK(a, s)
<1>4. x = IF a - n < -Half THEN a - n + Wrap
          ELSE IF a - n < Half THEN a - n ELSE a - n - Wrap
  BY DiffIs
<1>5. y = IF a - s < -Half THEN a - s + Wrap
          ELSE IF a - s < Half THEN a - s ELSE a - s - Wrap
  BY <1>3, DiffIs
<1>6. s = IF n + 1 < Wrap THEN n + 1 ELSE n + 1 - Wrap
  BY <1>2
<1>7. -Half < x
  OBVIOUS
<1> HIDE DEF s, x, y
<1>8. y = x - 1
  BY <1>4, <1>5, <1>6, <1>7 DEF Tick, Wrap
<1> QED
  BY <1>3, <1>8 DEF s, x, y

----------------------------------------------------------------------------
(* HEAP_SEARCH.                                                            *)

\* One round of the loop: p is what it starts with, later the places whose
\* timers expire after the target, and g what the other rounds come to.
Round(g, p, later) ==
  IF p[1] >= p[2] THEN p[1]
  ELSE IF (p[1] + p[2]) \div 2 \in later
  THEN g[<<(p[1] + p[2]) \div 2 + 1, p[2]>>]
  ELSE g[<<p[1], (p[1] + p[2]) \div 2>>]

\* Ranges of at most n places, and the function that searches them.
Ranges(n) == {p \in Nat \X Nat : p[2] - p[1] <= n}
Searches(g, n, later) ==
  /\ g \in [Ranges(n) -> Nat]
  /\ \A p \in Ranges(n) : g[p] = Round(g, p, later)

\* A set of naturals that is not empty has a least element.
LEMMA LeastIsThere ==
  ASSUME NEW S, S \subseteq Nat, S # {}
  PROVE  \E x \in S : \A y \in S : x <= y
<1>1. PICK x \in S : \A y \in S : ~(<<y, x>> \in OpToRel(<, Nat))
  BY NatLessThanWellFounded, WFMin
<1>2. ASSUME NEW y \in S PROVE x <= y
  <2>1. x \in Nat /\ y \in Nat
    OBVIOUS
  <2>2. ~(y < x)
    BY <1>1, <2>1 DEF OpToRel
  <2> QED
    BY <2>1, <2>2
<1> QED
  BY <1>2

\* A round that is not the last goes on with a shorter range.
LEMMA Halves ==
  ASSUME NEW p \in Nat \X Nat, p[1] < p[2]
  PROVE  LET m == (p[1] + p[2]) \div 2 IN
         /\ m \in Nat /\ p[1] <= m /\ m < p[2]
         /\ <<m + 1, p[2]>> \in Nat \X Nat /\ <<p[1], m>> \in Nat \X Nat
         /\ p[2] - (m + 1) < p[2] - p[1]
         /\ m - p[1] < p[2] - p[1]
<1> DEFINE a == p[1]
           b == p[2]
<1>1. a \in Nat /\ b \in Nat /\ a < b
  OBVIOUS
<1> HIDE DEF a, b
<1>2. (a + b) \div 2 \in Nat /\ a <= (a + b) \div 2 /\ (a + b) \div 2 < b
  BY <1>1
<1> DEFINE m == (a + b) \div 2
<1>3. m \in Nat /\ a <= m /\ m < b
  BY <1>2
<1> HIDE DEF m
<1>4. /\ <<m + 1, b>> \in Nat \X Nat /\ <<a, m>> \in Nat \X Nat
      /\ b - (m + 1) < b - a /\ m - a < b - a
  BY <1>1, <1>3
<1> QED
  BY <1>3, <1>4 DEF a, b, m

\* A round depends on the function at shorter ranges only.
LEMMA RoundDepends ==
  ASSUME NEW p \in Nat \X Nat, NEW later, NEW g, NEW h,
         \A q \in Nat \X Nat : q[2] - q[1] < p[2] - p[1] => g[q] = h[q]
  PROVE  Round(g, p, later) = Round(h, p, later)
<1>1. CASE p[1] >= p[2]
  BY <1>1 DEF Round
<1>2. CASE p[1] < p[2]
  <2> DEFINE m == (p[1] + p[2]) \div 2
  <2>1. /\ <<m + 1, p[2]>> \in Nat \X Nat /\ <<p[1], m>> \in Nat \X Nat
        /\ p[2] - (m + 1) < p[2] - p[1]
        /\ m - p[1] < p[2] - p[1]
    BY <1>2, Halves
  <2> HIDE DEF m
  <2>2. g[<<m + 1, p[2]>>] = h[<<m + 1, p[2]>>] /\ g[<<p[1], m>>] = h[<<p[1], m>>]
    BY <2>1
  <2>3. ~(p[1] >= p[2])
    BY <1>2
  <2> QED
    BY <2>2, <2>3 DEF Round, m
<1> QED
  BY <1>1, <1>2

\* Two functions that search ranges agree where both do.
LEMMA SearchIsUnique ==
  ASSUME NEW later, NEW m \in Nat, NEW n \in Nat,
         NEW g, Searches(g, m, later), NEW h, Searches(h, n, later),
         NEW p \in Ranges(m) \cap Ranges(n)
  PROVE  g[p] = h[p]
<1> DEFINE Both == {q \in Nat \X Nat : q[2] - q[1] <= m /\ q[2] - q[1] <= n}
           Size(q) == IF q[1] < q[2] THEN q[2] - q[1] ELSE 0
           Bad == {k \in Nat : \E q \in Both : Size(q) = k /\ g[q] # h[q]}
<1>1. SUFFICES ASSUME Bad # {} PROVE FALSE
  <2>1. p \in Both
    BY DEF Ranges
  <2>2. Size(p) \in Nat
    BY <2>1
  <2> QED
    BY <1>1, <2>1, <2>2
<1>2. PICK k \in Bad : \A j \in Bad : k <= j
  <2> HIDE DEF Bad
  <2>1. Bad \subseteq Nat
    BY DEF Bad
  <2> QED
    BY <1>1, <2>1, LeastIsThere
<1>3. PICK q \in Both : Size(q) = k /\ g[q] # h[q]
  OBVIOUS
<1>4. g[q] = Round(g, q, later) /\ h[q] = Round(h, q, later)
  BY DEF Searches, Ranges
<1>5. CASE q[1] >= q[2]
  BY <1>3, <1>4, <1>5 DEF Round
<1>6. CASE q[1] < q[2]
  <2>1. ASSUME NEW r \in Nat \X Nat, r[2] - r[1] < q[2] - q[1]
        PROVE  g[r] = h[r]
    <3>1. r \in Both /\ q \in Nat \X Nat
      BY <2>1
    <3>2. Size(r) \in Nat /\ Size(r) < Size(q)
      BY <1>6, <2>1, <3>1
    <3>3. Size(r) \notin Bad
      <4>1. k = Size(q) /\ k \in Nat
        BY <1>3
      <4> HIDE DEF Size, Bad
      <4> QED
        BY <1>2, <3>2, <4>1
    <3> QED
      BY <3>1, <3>2, <3>3
  <2>2. q \in Nat \X Nat
    OBVIOUS
  <2>3. Round(g, q, later) = Round(h, q, later)
    BY <2>1, <2>2, RoundDepends
  <2> QED
    BY <1>3, <1>4, <2>3
<1> QED
  BY <1>5, <1>6

\* Ranges of any length can be searched.
LEMMA SearchExists ==
  ASSUME NEW later, NEW n \in Nat
  PROVE  \E g : Searches(g, n, later)
<1> DEFINE Bad == {k \in Nat : ~\E g : Searches(g, k, later)}
<1>1. SUFFICES ASSUME Bad # {} PROVE FALSE
  OBVIOUS
<1>2. PICK k \in Bad : \A j \in Bad : k <= j
  <2>1. Bad \subseteq Nat
    OBVIOUS
  <2> HIDE DEF Bad
  <2> QED
    BY <1>1, <2>1, LeastIsThere
<1>3. CASE k = 0
  <2> DEFINE g == [p \in Ranges(0) |-> p[1]]
  <2>1. g \in [Ranges(0) -> Nat]
    BY DEF Ranges
  <2>2. ASSUME NEW p \in Ranges(0) PROVE g[p] = Round(g, p, later)
    <3>1. p[1] >= p[2]
      BY DEF Ranges
    <3>2. g[p] = p[1]
      OBVIOUS
    <3> HIDE DEF g
    <3> QED
      BY <3>1, <3>2 DEF Round
  <2>3. Searches(g, 0, later)
    BY <2>1, <2>2 DEF Searches
  <2> QED
    BY <1>3, <2>3
<1>4. CASE k # 0
  <2>1. k - 1 \in Nat /\ k \in Nat
    BY <1>4
  <2>2. k - 1 \notin Bad
    <3> HIDE DEF Bad
    <3> QED
      BY <1>2, <2>1
  <2>3. PICK h : Searches(h, k - 1, later)
    BY <2>1, <2>2
  <2> DEFINE g == [p \in Ranges(k) |-> Round(h, p, later)]
  <2>4. ASSUME NEW p \in Ranges(k)
        PROVE  /\ g[p] \in Nat
               /\ g[p] = Round(g, p, later)
    <3>1. g[p] = Round(h, p, later) /\ p \in Nat \X Nat /\ p[2] - p[1] <= k
      BY DEF Ranges
    <3>2. CASE p[1] >= p[2]
      <4> HIDE DEF g
      <4> QED
        BY <3>1, <3>2 DEF Round
    <3>3. CASE p[1] < p[2]
      <4> DEFINE m == (p[1] + p[2]) \div 2
      <4>1. /\ <<m + 1, p[2]>> \in Nat \X Nat /\ <<p[1], m>> \in Nat \X Nat
            /\ p[2] - (m + 1) < p[2] - p[1]
            /\ m - p[1] < p[2] - p[1]
            /\ m \in Nat
        BY <3>1, <3>3, Halves
      <4> HIDE DEF m
      <4>2. <<m + 1, p[2]>> \in Ranges(k - 1) /\ <<p[1], m>> \in Ranges(k - 1)
        BY <2>1, <3>1, <4>1 DEF Ranges
      <4>3. h[<<m + 1, p[2]>>] \in Nat /\ h[<<p[1], m>>] \in Nat
        BY <2>3, <4>2 DEF Searches
      <4>4. Round(h, p, later) \in Nat
        <5>1. ~(p[1] >= p[2])
          BY <3>1, <3>3
        <5> QED
          BY <4>3, <5>1 DEF Round, m
      <4>5. ASSUME NEW q \in Nat \X Nat, q[2] - q[1] < p[2] - p[1]
            PROVE  h[q] = g[q]
        <5>1. q \in Ranges(k - 1) /\ q \in Ranges(k)
          BY <2>1, <3>1, <4>5 DEF Ranges
        <5>2. h[q] = Round(h, q, later)
          BY <2>3, <5>1 DEF Searches
        <5> QED
          BY <5>1, <5>2
      <4> HIDE DEF g
      <4>6. Round(h, p, later) = Round(g, p, later)
        BY <3>1, <4>5, RoundDepends
      <4> QED
        BY <3>1, <4>4, <4>6
    <3> QED
      BY <3>1, <3>2, <3>3
  <2>5. Searches(g, k, later)
    <3>1. g \in [Ranges(k) -> Nat]
      BY <2>4
    <3> HIDE DEF g
    <3> QED
      BY <2>4, <3>1 DEF Searches
  <2> QED
    BY <2>1, <2>5
<1> QED
  BY <1>3, <1>4

\* So there is a function that searches every range, as the loop defines it.
LEMMA SearchIsDefined ==
  ASSUME NEW later
  PROVE  \E g : /\ g = [p \in Nat \X Nat |-> Round(g, p, later)]
                /\ g \in [Nat \X Nat -> Nat]
<1> DEFINE Size(q) == IF q[1] < q[2] THEN q[2] - q[1] ELSE 0
           Of(q) == CHOOSE g : Searches(g, Size(q), later)
           G == [p \in Nat \X Nat |-> Of(p)[p]]
<1>1. ASSUME NEW p \in Nat \X Nat
      PROVE  Size(p) \in Nat /\ p \in Ranges(Size(p)) /\ Searches(Of(p), Size(p), later)
  <2>1. Size(p) \in Nat /\ p \in Ranges(Size(p))
    BY DEF Ranges
  <2> HIDE DEF Size
  <2>2. \E g : Searches(g, Size(p), later)
    BY <2>1, SearchExists
  <2> QED
    BY <2>1, <2>2
<1>2. ASSUME NEW p \in Nat \X Nat
      PROVE  G[p] \in Nat /\ G[p] = Round(G, p, later)
  <2> DEFINE h == Of(p)
             n == Size(p)
  <2>1. n \in Nat /\ p \in Ranges(n) /\ Searches(h, n, later)
    BY <1>1
  <2>2. G[p] = h[p]
    OBVIOUS
  <2>3. h[p] \in Nat /\ h[p] = Round(h, p, later)
    <3> HIDE DEF h, n
    <3> QED
      BY <2>1 DEF Searches
  <2>4. ASSUME NEW q \in Nat \X Nat, q[2] - q[1] < p[2] - p[1]
        PROVE  h[q] = G[q]
    <3>1. Size(q) \in Nat /\ q \in Ranges(Size(q)) /\ Searches(Of(q), Size(q), later)
      BY <1>1
    <3>2. q \in Ranges(n)
      <4>1. p \in Nat \X Nat /\ p[2] - p[1] <= n
        BY <2>1 DEF Ranges
      <4> HIDE DEF n
      <4> QED
        BY <2>1, <2>4, <4>1 DEF Ranges
    <3>3. G[q] = Of(q)[q]
      OBVIOUS
    <3> HIDE DEF G, h, n, Of, Size
    <3>4. h[q] = Of(q)[q]
      BY <2>1, <3>1, <3>2, SearchIsUnique
    <3> QED
      BY <3>3, <3>4
  <2> HIDE DEF G, h
  <2>5. Round(h, p, later) = Round(G, p, later)
    BY <2>4, RoundDepends
  <2> QED
    BY <2>2, <2>3, <2>5
<1>3. G = [p \in Nat \X Nat |-> Round(G, p, later)] /\ G \in [Nat \X Nat -> Nat]
  <2>1. G = [p \in Nat \X Nat |-> G[p]]
    OBVIOUS
  <2> HIDE DEF G
  <2> QED
    BY <1>2, <2>1
<1> QED
  BY <1>3

\* What a search finds, in any array: the place before it expires after the
\* target, if it is not where the range starts, and that at it does not, if it
\* is not where the range ends.
LEMMA SearchFinds ==
  ASSUME NEW later, NEW g, g = [p \in Nat \X Nat |-> Round(g, p, later)],
         NEW p \in Nat \X Nat, p[1] <= p[2]
  PROVE  /\ g[p] \in p[1] .. p[2]
         /\ g[p] > p[1] => g[p] - 1 \in later
         /\ g[p] < p[2] => g[p] \notin later
<1> DEFINE Found(q) == /\ g[q] \in q[1] .. q[2]
                       /\ g[q] > q[1] => g[q] - 1 \in later
                       /\ g[q] < q[2] => g[q] \notin later
           Bad == {k \in Nat : \E q \in Nat \X Nat : q[1] <= q[2] /\ q[2] - q[1] = k /\ ~Found(q)}
<1>1. SUFFICES ASSUME Bad # {} PROVE FALSE
  <2>1. p[2] - p[1] \in Nat
    OBVIOUS
  <2>2. Found(p)
    <3> HIDE DEF Found
    <3> QED
      BY <1>1, <2>1
  <2> QED
    BY <2>2
<1>2. PICK k \in Bad : \A j \in Bad : k <= j
  <2>1. Bad \subseteq Nat
    OBVIOUS
  <2> HIDE DEF Bad
  <2> QED
    BY <1>1, <2>1, LeastIsThere
<1>3. PICK q \in Nat \X Nat : q[1] <= q[2] /\ q[2] - q[1] = k /\ ~Found(q)
  <2> HIDE DEF Found
  <2> QED
    OBVIOUS
<1>4. ASSUME NEW r \in Nat \X Nat, r[1] <= r[2], r[2] - r[1] < q[2] - q[1]
      PROVE  Found(r)
  <2> HIDE DEF Found
  <2>1. r[2] - r[1] \in Nat /\ r[2] - r[1] < k
    BY <1>3, <1>4
  <2>2. r[2] - r[1] \notin Bad
    <3> HIDE DEF Bad
    <3>1. k \in Nat
      BY DEF Bad
    <3> QED
      BY <1>2, <2>1, <3>1
  <2> QED
    BY <1>4, <2>1, <2>2
<1>5. g[q] = Round(g, q, later)
  OBVIOUS
<1>6. CASE q[1] >= q[2]
  <2>1. g[q] = q[1]
    BY <1>5, <1>6 DEF Round
  <2>2. q[1] = q[2] /\ q[1] \in Nat
    <3> HIDE DEF Found
    <3>1. q[1] \in Nat /\ q[2] \in Nat
      OBVIOUS
    <3> QED
      BY <1>3, <1>6, <3>1
  <2>3. Found(q)
    BY <2>1, <2>2
  <2> QED
    BY <1>3, <2>3
<1>7. CASE q[1] < q[2]
  <2> DEFINE m == (q[1] + q[2]) \div 2
             r == <<m + 1, q[2]>>
             l == <<q[1], m>>
  <2>1. /\ m \in Nat /\ q[1] <= m /\ m < q[2]
        /\ r \in Nat \X Nat /\ l \in Nat \X Nat
        /\ q[2] - (m + 1) < q[2] - q[1]
        /\ m - q[1] < q[2] - q[1]
    BY <1>7, Halves
  <2>2. g[q] = IF m \in later THEN g[r] ELSE g[l]
    <3>1. ~(q[1] >= q[2])
      BY <1>7
    <3> QED
      BY <1>5, <3>1 DEF Round
  <2> HIDE DEF m
  <2>3. r[1] = m + 1 /\ r[2] = q[2] /\ l[1] = q[1] /\ l[2] = m
    OBVIOUS
  <2> HIDE DEF r, l
  <2>4. q[1] \in Nat /\ q[2] \in Nat
    OBVIOUS
  <2>5. CASE m \in later
    <3>1. Found(r)
      BY <1>4, <2>1, <2>3, <2>4
    <3>2. Found(q)
      <4>1. g[q] = g[r]
        BY <2>2, <2>5
      <4> DEFINE x == g[r]
      <4>2. /\ x \in m + 1 .. q[2]
            /\ x > m + 1 => x - 1 \in later
            /\ x < q[2] => x \notin later
        BY <2>3, <3>1
      <4> HIDE DEF x
      <4>3. x - 1 \in later
        <5>1. CASE x > m + 1
          BY <4>2, <5>1
        <5>2. CASE ~(x > m + 1)
          <6>1. x - 1 = m
            BY <2>1, <2>4, <4>2, <5>2
          <6> QED
            BY <2>5, <6>1
        <5> QED
          BY <5>1, <5>2
      <4>4. x \in q[1] .. q[2]
        BY <2>1, <2>4, <4>2
      <4>5. g[q] = x
        BY <4>1 DEF x
      <4> QED
        BY <4>2, <4>3, <4>4, <4>5
    <3> QED
      BY <1>3, <3>2
  <2>6. CASE m \notin later
    <3>1. Found(l)
      BY <1>4, <2>1, <2>3, <2>4
    <3>2. Found(q)
      <4>1. g[q] = g[l]
        BY <2>2, <2>6
      <4> DEFINE x == g[l]
      <4>2. /\ x \in q[1] .. m
            /\ x > q[1] => x - 1 \in later
            /\ x < m => x \notin later
        BY <2>3, <3>1
      <4> HIDE DEF x
      <4>3. x \notin later
        <5>1. CASE x < m
          BY <4>2, <5>1
        <5>2. CASE ~(x < m)
          <6>1. x = m
            BY <2>1, <2>4, <4>2, <5>2
          <6> QED
            BY <2>6, <6>1
        <5> QED
          BY <5>1, <5>2
      <4>4. x \in q[1] .. q[2]
        BY <2>1, <2>4, <4>2
      <4>5. g[q] = x
        BY <4>1 DEF x
      <4> QED
        BY <4>2, <4>3, <4>4, <4>5
    <3> QED
      BY <1>3, <3>2
  <2> QED
    BY <2>5, <2>6
<1>8. q[1] >= q[2] \/ q[1] < q[2]
  BY <1>3
<1> QED
  BY <1>6, <1>7, <1>8

\* The search of the array is such a search.
LEMMA HeapSearchIs ==
  ASSUME NEW target, NEW d, NEW from \in Nat, NEW to \in Nat, from <= to
  PROVE  LET pos == HEAP_SEARCH(target, d, from, to)
             later == {k \in Nat : DIFF_TICK(target, d[heap[k + 1]].tick) < 0}
         IN  /\ pos \in from .. to
             /\ pos > from => pos - 1 \in later
             /\ pos < to => pos \notin later
<1> DEFINE later == {k \in Nat : DIFF_TICK(target, d[heap[k + 1]].tick) < 0}
           Loop(search) ==
             [r \in Nat \X Nat |->
                LET first == r[1]
                    last == r[2]
                    pivot == (first + last) \div 2
                IN  IF first >= last THEN first
                    ELSE IF DIFF_TICK(target, d[heap[pivot + 1]].tick) < 0
                    THEN search[<<pivot + 1, last>>]
                    ELSE search[<<first, pivot>>]]
           s == CHOOSE search : search = Loop(search)
<1>1. HEAP_SEARCH(target, d, from, to) = s[<<from, to>>]
  BY DEF HEAP_SEARCH
<1>2. ASSUME NEW g PROVE Loop(g) = [p \in Nat \X Nat |-> Round(g, p, later)]
  <2>1. ASSUME NEW p \in Nat \X Nat PROVE Loop(g)[p] = Round(g, p, later)
    <3>1. ((p[1] + p[2]) \div 2 \in later)
             = (DIFF_TICK(target, d[heap[(p[1] + p[2]) \div 2 + 1]].tick) < 0)
      <4>1. (p[1] + p[2]) \div 2 \in Nat
        OBVIOUS
      <4> QED
        BY <4>1
    <3> HIDE DEF later
    <3> QED
      BY <3>1 DEF Round
  <2>2. Loop(g) = [p \in Nat \X Nat |-> Loop(g)[p]]
    OBVIOUS
  <2> HIDE DEF Loop
  <2> QED
    BY <2>1, <2>2
<1> HIDE DEF Loop
<1>3. s = Loop(s)
  <2>1. \E g : g = Loop(g)
    <3> HIDE DEF later
    <3>1. PICK g : g = [p \in Nat \X Nat |-> Round(g, p, later)]
      BY SearchIsDefined
    <3>2. g = Loop(g)
      BY <1>2, <3>1
    <3> QED
      BY <3>2
  <2> QED
    BY <2>1
<1> DEFINE p == <<from, to>>
<1> HIDE DEF s, later
<1>4. s = [q \in Nat \X Nat |-> Round(s, q, later)]
  BY <1>2, <1>3
<1>5. p \in Nat \X Nat /\ p[1] = from /\ p[2] = to
  OBVIOUS
<1> HIDE DEF p
<1>6. /\ s[p] \in from .. to
      /\ s[p] > from => s[p] - 1 \in later
      /\ s[p] < to => s[p] \notin later
  BY <1>4, <1>5, SearchFinds
<1> QED
  BY <1>1, <1>6 DEF later, p

----------------------------------------------------------------------------
(* push_timer_heap.                                                        *)

\* A tick in the window, seen from the clock.
LEMMA WindowIs ==
  ASSUME TimerHeapAssumption, now \in Tick, NEW t \in Tick, InWindow(t)
  PROVE  /\ DIFF_TICK(t, now) \in Int /\ Lag \in Nat /\ Lag > 0 /\ Half \in Nat \ {0}
         /\ -Lag < DIFF_TICK(t, now) /\ DIFF_TICK(t, now) <= Half - Lag
<1>1. /\ Lag \in Nat /\ Lag > 0 /\ Half \in Nat \ {0}
  BY DEF TimerHeapAssumption, Lag
<1>2. DIFF_TICK(t, now) \in Int
  BY <1>1, SeenFrom
<1> QED
  BY <1>1, <1>2 DEF InWindow

\* Two ticks in the window compare as they do from the clock.
LEMMA WindowOrder ==
  ASSUME TimerHeapAssumption, now \in Tick,
         NEW t \in Tick, InWindow(t), NEW u \in Tick, InWindow(u)
  PROVE  /\ NotBefore(t, u) = (DIFF_TICK(t, now) >= DIFF_TICK(u, now))
         /\ DIFF_TICK(t, u) = DIFF_TICK(t, now) - DIFF_TICK(u, now)
<1>1. /\ DIFF_TICK(t, now) \in Int /\ Lag \in Nat /\ Lag > 0 /\ Half \in Nat \ {0}
      /\ -Lag < DIFF_TICK(t, now) /\ DIFF_TICK(t, now) <= Half - Lag
  BY WindowIs
<1>2. /\ DIFF_TICK(u, now) \in Int
      /\ -Lag < DIFF_TICK(u, now) /\ DIFF_TICK(u, now) <= Half - Lag
  BY WindowIs
<1>3. /\ -Half < DIFF_TICK(t, now) - DIFF_TICK(u, now)
      /\ -Half <= DIFF_TICK(t, now) - DIFF_TICK(u, now)
      /\ DIFF_TICK(t, now) - DIFF_TICK(u, now) < Half
  BY <1>1, <1>2
<1> QED
  BY <1>1, <1>3, SeenFrom, NotBeforeIs

\* An array in order, with data d.
InOrder(h, d) ==
  \A i, j \in DOMAIN h : i < j => NotBefore(d[h[i]].tick, d[h[j]].tick)

\* The place of id in h: those before it expire later, those from it on do not.
PlaceIs(pos, id, d, h) ==
  /\ pos \in 0 .. Len(h)
  /\ \A i \in 1 .. pos : DIFF_TICK(d[id].tick, d[h[i]].tick) < 0
  /\ \A i \in pos + 1 .. Len(h) : DIFF_TICK(d[id].tick, d[h[i]].tick) >= 0

\* A timer that a place in order compares to compares to the places before or
\* after it too.
LEMMA OrderCarries ==
  ASSUME TimerHeapAssumption, now \in Tick, heap \in Seq(Ids),
         NEW d \in [Ids -> TimerData], InOrder(heap, d),
         \A i \in DOMAIN heap : InWindow(d[heap[i]].tick),
         NEW t \in Tick, InWindow(t),
         NEW i \in 1 .. Len(heap), NEW j \in 1 .. Len(heap), i <= j
  PROVE  /\ DIFF_TICK(t, d[heap[i]].tick) \in Int
         /\ DIFF_TICK(t, d[heap[i]].tick) <= DIFF_TICK(t, d[heap[j]].tick)
<1> DEFINE a == d[heap[i]].tick
           b == d[heap[j]].tick
<1>1. a \in Tick /\ b \in Tick /\ InWindow(a) /\ InWindow(b)
  <2>1. heap[i] \in Ids /\ heap[j] \in Ids /\ DOMAIN heap = 1 .. Len(heap)
    BY ElementOfSeq
  <2> QED
    BY <2>1 DEF TimerData
<1>2. a = b \/ NotBefore(a, b)
  <2>1. DOMAIN heap = 1 .. Len(heap)
    OBVIOUS
  <2>2. i = j \/ i < j
    OBVIOUS
  <2> QED
    BY <2>1, <2>2 DEF InOrder
<1> HIDE DEF a, b
<1>3. DIFF_TICK(a, now) >= DIFF_TICK(b, now)
  <2>1. DIFF_TICK(a, now) \in Int
    BY <1>1, WindowIs
  <2>2. NotBefore(a, b) = (DIFF_TICK(a, now) >= DIFF_TICK(b, now))
    BY <1>1, WindowOrder
  <2>3. CASE a = b
    BY <2>1, <2>3
  <2>4. CASE NotBefore(a, b)
    BY <2>2, <2>4
  <2> QED
    BY <1>2, <2>3, <2>4
<1>4. /\ DIFF_TICK(t, a) = DIFF_TICK(t, now) - DIFF_TICK(a, now)
      /\ DIFF_TICK(t, b) = DIFF_TICK(t, now) - DIFF_TICK(b, now)
  BY <1>1, WindowOrder
<1>5. DIFF_TICK(t, now) \in Int /\ DIFF_TICK(a, now) \in Int /\ DIFF_TICK(b, now) \in Int
  BY <1>1, WindowIs
<1>6. /\ DIFF_TICK(t, a) \in Int
      /\ DIFF_TICK(t, a) <= DIFF_TICK(t, b)
  BY <1>3, <1>4, <1>5
<1> QED
  BY <1>6 DEF a, b

\* What push_timer_heap returns: the array with the timer put in its place.
Pushed(id, d, h, h2) ==
  \E pos \in 0 .. Len(h) :
    /\ PlaceIs(pos, id, d, h)
    /\ h2 \in Seq(Ids)
    /\ Len(h2) = Len(h) + 1
    /\ \A i \in 1 .. Len(h) + 1 :
         h2[i] = IF i <= pos THEN h[i] ELSE IF i = pos + 1 THEN id ELSE h[i - 1]

\* A timer is put in its place.
LEMMA PushIs ==
  ASSUME TimerHeapAssumption, now \in Tick, heap \in Seq(Ids),
         NEW d \in [Ids -> TimerData], InOrder(heap, d),
         \A i \in DOMAIN heap : InWindow(d[heap[i]].tick),
         NEW id \in Ids, InWindow(d[id].tick)
  PROVE  Pushed(id, d, heap, push_timer_heap(id, d, heap))
<1> DEFINE n == Len(heap)
           h == push_timer_heap(id, d, heap)
           t == d[id].tick
           T(i) == d[heap[i]].tick
<1> SUFFICES \E pos \in 0 .. n :
      /\ PlaceIs(pos, id, d, heap)
      /\ h \in Seq(Ids)
      /\ Len(h) = n + 1
      /\ \A i \in 1 .. n + 1 :
           h[i] = IF i <= pos THEN heap[i] ELSE IF i = pos + 1 THEN id ELSE heap[i - 1]
  BY Zenon DEF Pushed
<1>1. n \in Nat /\ DOMAIN heap = 1 .. n /\ t \in Tick
  BY DEF TimerData
<1>2. ASSUME NEW i \in 1 .. n, NEW j \in 1 .. n, i <= j
      PROVE  DIFF_TICK(t, T(i)) \in Int /\ DIFF_TICK(t, T(i)) <= DIFF_TICK(t, T(j))
  <2>1. t \in Tick /\ InWindow(t)
    BY <1>1
  <2> HIDE DEF t
  <2> QED
    BY <1>2, <2>1, OrderCarries
<1>3. CASE heap = <<>> \/ DIFF_TICK(t, T(n)) < 0
  <2>1. h = Append(heap, id)
    BY <1>3 DEF push_timer_heap
  <2>2. PlaceIs(n, id, d, heap)
    <3>1. ASSUME NEW i \in 1 .. n PROVE DIFF_TICK(t, T(i)) < 0
      <4>1. heap # <<>> /\ n \in 1 .. n /\ i <= n
        BY <1>1
      <4>2. /\ DIFF_TICK(t, T(i)) \in Int /\ DIFF_TICK(t, T(i)) <= DIFF_TICK(t, T(n))
            /\ DIFF_TICK(t, T(n)) \in Int
        BY <1>2, <4>1
      <4>3. DIFF_TICK(t, T(n)) < 0
        BY <1>3, <4>1
      <4> HIDE DEF t, T
      <4> QED
        BY <4>2, <4>3
    <3> QED
      BY <1>1, <3>1 DEF PlaceIs
  <2>3. /\ h \in Seq(Ids) /\ Len(h) = n + 1
        /\ \A i \in 1 .. n : h[i] = heap[i]
        /\ h[n + 1] = id
    BY <2>1, AppendProperties
  <2> HIDE DEF h
  <2>4. \A i \in 1 .. n + 1 :
          h[i] = IF i <= n THEN heap[i] ELSE IF i = n + 1 THEN id ELSE heap[i - 1]
    BY <1>1, <2>3
  <2>5. n \in 0 .. n
    BY <1>1
  <2> QED
    BY <2>2, <2>3, <2>4, <2>5 DEF h
<1>4. CASE ~(heap = <<>> \/ DIFF_TICK(t, T(n)) < 0)
  <2> DEFINE pos == HEAP_SEARCH(t, d, 0, n - 1)
  <2>1. h = SubSeq(heap, 1, pos) \o <<id>> \o SubSeq(heap, pos + 1, n)
    BY <1>4 DEF push_timer_heap
  <2>2. n - 1 \in Nat /\ 0 \in Nat /\ n > 0
    BY <1>1, <1>4
  <2>3. /\ pos \in 0 .. n - 1
        /\ pos > 0 => pos - 1 \in Nat /\ DIFF_TICK(t, T(pos - 1 + 1)) < 0
        /\ pos < n - 1 => ~(pos \in Nat /\ DIFF_TICK(t, T(pos + 1)) < 0)
    <3>1. 0 <= n - 1
      BY <2>2
    <3> HIDE DEF n
    <3> QED
      BY <2>2, <3>1, HeapSearchIs
  <2> HIDE DEF pos
  <2>4. PlaceIs(pos, id, d, heap)
    <3>1. ASSUME NEW i \in 1 .. pos PROVE DIFF_TICK(t, T(i)) < 0
      <4>1. pos > 0 /\ pos - 1 + 1 = pos /\ i \in 1 .. n /\ pos \in 1 .. n /\ i <= pos
        BY <1>1, <2>3
      <4>2. DIFF_TICK(t, T(pos)) < 0
        BY <2>3, <4>1
      <4>3. /\ DIFF_TICK(t, T(i)) \in Int /\ DIFF_TICK(t, T(i)) <= DIFF_TICK(t, T(pos))
            /\ DIFF_TICK(t, T(pos)) \in Int
        BY <1>2, <4>1
      <4> HIDE DEF t, T
      <4> QED
        BY <4>2, <4>3
    <3>2. ASSUME NEW i \in pos + 1 .. n PROVE DIFF_TICK(t, T(i)) >= 0
      <4>1. pos + 1 \in 1 .. n /\ i \in 1 .. n /\ pos + 1 <= i /\ pos \in Nat
        BY <1>1, <2>3
      <4>2. ~(DIFF_TICK(t, T(pos + 1)) < 0)
        <5>1. CASE pos < n - 1
          BY <2>3, <4>1, <5>1
        <5>2. CASE ~(pos < n - 1)
          <6>1. n \in Nat /\ pos \in 0 .. n - 1
            BY <1>1, <2>3
          <6>2. ~(DIFF_TICK(t, T(n)) < 0)
            BY <1>4
          <6> HIDE DEF n, T, t
          <6>3. pos + 1 = n
            BY <5>2, <6>1
          <6> QED
            BY <6>2, <6>3
        <5> QED
          BY <5>1, <5>2
      <4>3. /\ DIFF_TICK(t, T(pos + 1)) \in Int /\ DIFF_TICK(t, T(i)) \in Int
            /\ DIFF_TICK(t, T(pos + 1)) <= DIFF_TICK(t, T(i))
        BY <1>2, <4>1
      <4> HIDE DEF t, T
      <4> QED
        BY <4>2, <4>3
    <3>3. pos \in 0 .. n
      BY <1>1, <2>3
    <3> QED
      BY <3>1, <3>2, <3>3 DEF PlaceIs
  <2> DEFINE a == SubSeq(heap, 1, pos)
             b == SubSeq(heap, pos + 1, n)
  <2>5. pos \in Nat /\ pos < n /\ pos \in Int /\ n \in Int /\ 1 \in Int /\ pos + 1 \in Int
    BY <1>1, <2>3
  <2>6. \A i \in 1 .. n : heap[i] \in Ids
    BY ElementOfSeq
  <2>7. /\ a \in Seq(Ids) /\ Len(a) = pos
        /\ \A i \in 1 .. pos : a[i] = heap[i]
    <3>1. \A i \in 1 .. pos : heap[i] \in Ids
      BY <2>5, <2>6
    <3>2. /\ a \in Seq(Ids) /\ Len(a) = IF 1 <= pos THEN pos - 1 + 1 ELSE 0
          /\ \A i \in 1 .. pos - 1 + 1 : a[i] = heap[1 + i - 1]
      BY <2>5, <3>1, SubSeqProperties
    <3> HIDE DEF a
    <3> QED
      BY <2>5, <3>2
  <2>8. /\ b \in Seq(Ids) /\ Len(b) = n - pos
        /\ \A i \in 1 .. n - pos : b[i] = heap[pos + i]
    <3>1. \A i \in pos + 1 .. n : heap[i] \in Ids
      BY <2>5, <2>6
    <3>2. /\ b \in Seq(Ids) /\ Len(b) = IF pos + 1 <= n THEN n - (pos + 1) + 1 ELSE 0
          /\ \A i \in 1 .. n - (pos + 1) + 1 : b[i] = heap[pos + 1 + i - 1]
      BY <2>5, <3>1, SubSeqProperties
    <3> HIDE DEF b, n
    <3>3. n - (pos + 1) + 1 = n - pos /\ \A i \in 1 .. n - pos : pos + 1 + i - 1 = pos + i
      BY <2>5
    <3> QED
      BY <2>5, <3>2, <3>3
  <2> HIDE DEF a, b
  <2>9. /\ a \o <<id>> \in Seq(Ids) /\ Len(a \o <<id>>) = pos + 1
        /\ \A i \in 1 .. pos + 1 : (a \o <<id>>)[i] = IF i <= pos THEN heap[i] ELSE id
    <3>1. <<id>> \in Seq(Ids) /\ Len(<<id>>) = 1 /\ <<id>>[1] = id
      OBVIOUS
    <3> DEFINE one == <<id>>
    <3>2. one \in Seq(Ids) /\ Len(one) = 1 /\ one[1] = id
      BY <3>1
    <3> HIDE DEF one
    <3>3. /\ a \o one \in Seq(Ids) /\ Len(a \o one) = Len(a) + Len(one)
          /\ \A i \in 1 .. Len(a) + Len(one) :
               (a \o one)[i] = IF i <= Len(a) THEN a[i] ELSE one[i - Len(a)]
      <4>1. a \in Seq(Ids) /\ one \in Seq(Ids)
        BY <2>7, <3>2
      <4> QED
        BY <4>1, ConcatProperties
    <3>4. /\ a \o one \in Seq(Ids) /\ Len(a \o one) = pos + 1
          /\ \A i \in 1 .. pos + 1 : (a \o one)[i] = IF i <= pos THEN heap[i] ELSE id
      BY <2>5, <2>7, <3>2, <3>3
    <3> QED
      BY <3>4 DEF one
  <2>10. /\ h \in Seq(Ids) /\ Len(h) = n + 1
         /\ \A i \in 1 .. n + 1 :
              h[i] = IF i <= pos THEN heap[i] ELSE IF i = pos + 1 THEN id ELSE heap[i - 1]
    <3> DEFINE c == a \o <<id>>
    <3>1. h = c \o b
      BY <2>1 DEF a, b
    <3>2. /\ c \in Seq(Ids) /\ Len(c) = pos + 1
          /\ \A i \in 1 .. pos + 1 : c[i] = IF i <= pos THEN heap[i] ELSE id
      BY <2>9
    <3> HIDE DEF c, h, n
    <3>3. /\ h \in Seq(Ids) /\ Len(h) = Len(c) + Len(b)
          /\ \A i \in 1 .. Len(c) + Len(b) :
               h[i] = IF i <= Len(c) THEN c[i] ELSE b[i - Len(c)]
      <4>1. c \in Seq(Ids) /\ b \in Seq(Ids)
        BY <2>8, <3>2
      <4> QED
        BY <3>1, <4>1, ConcatProperties
    <3>4. Len(h) = n + 1 /\ Len(c) + Len(b) = n + 1
      BY <2>5, <2>8, <3>2, <3>3
    <3>5. ASSUME NEW i \in 1 .. n + 1
          PROVE  h[i] = IF i <= pos THEN heap[i] ELSE IF i = pos + 1 THEN id ELSE heap[i - 1]
      <4>1. CASE i <= pos + 1
        BY <2>5, <3>2, <3>3, <3>4, <4>1
      <4>2. CASE i > pos + 1
        <5>1. i - (pos + 1) \in 1 .. n - pos /\ pos + (i - (pos + 1)) = i - 1
          BY <2>5, <4>2
        <5>2. h[i] = b[i - (pos + 1)]
          BY <2>5, <3>2, <3>3, <3>4, <4>2
        <5>3. b[i - (pos + 1)] = heap[pos + (i - (pos + 1))]
          BY <2>8, <5>1
        <5>4. h[i] = heap[i - 1]
          BY <5>1, <5>2, <5>3
        <5> QED
          BY <2>5, <4>2, <5>4
      <4> QED
        BY <2>5, <4>1, <4>2
    <3> QED
      BY <3>3, <3>4, <3>5
  <2>11. pos \in 0 .. n
    BY <2>5
  <2> QED
    BY <2>4, <2>10, <2>11
<1> QED
  BY <1>3, <1>4

\* What comes of two ticks in the window that were compared.
LEMMA Compared ==
  ASSUME TimerHeapAssumption, now \in Tick,
         NEW t \in Tick, InWindow(t), NEW u \in Tick, InWindow(u)
  PROVE  /\ DIFF_TICK(t, u) >= 0 => NotBefore(t, u)
         /\ DIFF_TICK(t, u) < 0 => NotBefore(u, t)
<1>1. /\ NotBefore(t, u) = (DIFF_TICK(t, now) >= DIFF_TICK(u, now))
      /\ NotBefore(u, t) = (DIFF_TICK(u, now) >= DIFF_TICK(t, now))
      /\ DIFF_TICK(t, u) = DIFF_TICK(t, now) - DIFF_TICK(u, now)
  BY WindowOrder
<1>2. DIFF_TICK(t, now) \in Int /\ DIFF_TICK(u, now) \in Int
  BY WindowIs
<1>3. DIFF_TICK(t, u) >= 0 => DIFF_TICK(t, now) >= DIFF_TICK(u, now)
  BY <1>1, <1>2
<1>4. DIFF_TICK(t, u) < 0 => DIFF_TICK(u, now) >= DIFF_TICK(t, now)
  BY <1>1, <1>2
<1> QED
  BY <1>1, <1>3, <1>4, Zenon

\* The array keeps its order, and gains the timer and nothing else.
LEMMA PushKeeps ==
  ASSUME TimerHeapAssumption, now \in Tick, heap \in Seq(Ids),
         NEW d \in [Ids -> TimerData], InOrder(heap, d),
         \A i \in DOMAIN heap : InWindow(d[heap[i]].tick),
         \A i, j \in DOMAIN heap : heap[i] = heap[j] => i = j,
         NEW id \in Ids, InWindow(d[id].tick), ~InHeap(id)
  PROVE  LET h == push_timer_heap(id, d, heap)
         IN  /\ h \in Seq(Ids)
             /\ \A i \in DOMAIN h : h[i] = id \/ InHeap(h[i])
             /\ \E i \in DOMAIN h : h[i] = id
             /\ \A j \in DOMAIN heap : \E i \in DOMAIN h : h[i] = heap[j]
             /\ \A i, j \in DOMAIN h : h[i] = h[j] => i = j
             /\ InOrder(h, d)
<1> DEFINE h == push_timer_heap(id, d, heap)
           n == Len(heap)
<1>1. n \in Nat /\ DOMAIN heap = 1 .. n
  OBVIOUS
<1>2. PICK pos \in 0 .. n :
        /\ PlaceIs(pos, id, d, heap)
        /\ h \in Seq(Ids)
        /\ Len(h) = n + 1
        /\ \A i \in 1 .. n + 1 :
             h[i] = IF i <= pos THEN heap[i] ELSE IF i = pos + 1 THEN id ELSE heap[i - 1]
  <2> HIDE DEF h, n
  <2>1. Pushed(id, d, heap, push_timer_heap(id, d, heap))
    BY PushIs
  <2> QED
    BY <2>1, Zenon DEF h, n, Pushed
<1> HIDE DEF h, n
<1>3. pos \in Nat /\ pos <= n
  BY <1>1, <1>2
<1>4. DOMAIN h = 1 .. n + 1
  BY <1>2
<1>5. ASSUME NEW i \in 1 .. n + 1
      PROVE  \/ i <= pos /\ i \in 1 .. n /\ h[i] = heap[i]
             \/ i = pos + 1 /\ h[i] = id
             \/ i > pos + 1 /\ i - 1 \in 1 .. n /\ h[i] = heap[i - 1]
  BY <1>1, <1>2, <1>3
<1>6. \A i \in DOMAIN h : h[i] = id \/ InHeap(h[i])
  BY <1>1, <1>4, <1>5 DEF InHeap
<1>7. \E i \in DOMAIN h : h[i] = id
  <2>1. pos + 1 \in 1 .. n + 1 /\ h[pos + 1] = id
    BY <1>1, <1>2, <1>3
  <2> QED
    BY <1>4, <2>1
<1>8. ASSUME NEW j \in DOMAIN heap PROVE \E i \in DOMAIN h : h[i] = heap[j]
  <2>1. CASE j <= pos
    <3>1. j \in 1 .. n + 1 /\ h[j] = heap[j]
      BY <1>1, <1>2, <2>1
    <3> QED
      BY <1>4, <3>1
  <2>2. CASE j > pos
    <3>1. /\ j + 1 \in 1 .. n + 1 /\ ~(j + 1 <= pos) /\ j + 1 # pos + 1
          /\ (j + 1) - 1 = j
      BY <1>1, <1>3, <2>2
    <3>2. h[j + 1] = heap[j]
      BY <1>2, <3>1
    <3> QED
      BY <1>4, <3>1, <3>2
  <2>3. j <= pos \/ j > pos
    BY <1>1, <1>3
  <2> QED
    BY <2>1, <2>2, <2>3
<1>9. ASSUME NEW i \in DOMAIN h, NEW j \in DOMAIN h, h[i] = h[j] PROVE i = j
  <2>1. i \in 1 .. n + 1 /\ j \in 1 .. n + 1
    BY <1>4
  <2>2. \/ i <= pos /\ i \in 1 .. n /\ h[i] = heap[i]
        \/ i = pos + 1 /\ h[i] = id
        \/ i > pos + 1 /\ i - 1 \in 1 .. n /\ h[i] = heap[i - 1]
    BY <1>5, <2>1
  <2>3. \/ j <= pos /\ j \in 1 .. n /\ h[j] = heap[j]
        \/ j = pos + 1 /\ h[j] = id
        \/ j > pos + 1 /\ j - 1 \in 1 .. n /\ h[j] = heap[j - 1]
    BY <1>5, <2>1
  <2>4. \A k \in 1 .. n : heap[k] # id
    BY <1>1 DEF InHeap
  <2>5. \A k, l \in 1 .. n : heap[k] = heap[l] => k = l
    BY <1>1
  <2> QED
    BY <1>1, <1>3, <1>9, <2>1, <2>2, <2>3, <2>4, <2>5
<1>10. ASSUME NEW i \in DOMAIN h, NEW j \in DOMAIN h, i < j
       PROVE  NotBefore(d[h[i]].tick, d[h[j]].tick)
  <2>1. i \in 1 .. n + 1 /\ j \in 1 .. n + 1
    BY <1>4
  <2>2. \/ i <= pos /\ i \in 1 .. n /\ h[i] = heap[i]
        \/ i = pos + 1 /\ h[i] = id
        \/ i > pos + 1 /\ i - 1 \in 1 .. n /\ h[i] = heap[i - 1]
    BY <1>5, <2>1
  <2>3. \/ j <= pos /\ j \in 1 .. n /\ h[j] = heap[j]
        \/ j = pos + 1 /\ h[j] = id
        \/ j > pos + 1 /\ j - 1 \in 1 .. n /\ h[j] = heap[j - 1]
    BY <1>5, <2>1
  <2>4. d[id].tick \in Tick
    BY DEF TimerData
  <2>5. ASSUME NEW k \in 1 .. n
        PROVE  d[heap[k]].tick \in Tick /\ InWindow(d[heap[k]].tick)
    <3>1. heap[k] \in Ids /\ k \in DOMAIN heap
      BY <1>1, ElementOfSeq DEF n
    <3> QED
      BY <3>1 DEF TimerData
  <2>6. \A k, l \in 1 .. n : k < l => NotBefore(d[heap[k]].tick, d[heap[l]].tick)
    BY <1>1 DEF InOrder
  <2>7. \A k \in 1 .. pos : DIFF_TICK(d[id].tick, d[heap[k]].tick) < 0
    BY <1>2 DEF PlaceIs
  <2>8. \A k \in pos + 1 .. n : DIFF_TICK(d[id].tick, d[heap[k]].tick) >= 0
    BY <1>2 DEF PlaceIs, n
  <2>9. CASE i <= pos /\ i \in 1 .. n /\ h[i] = heap[i]
    <3>1. CASE j <= pos /\ j \in 1 .. n /\ h[j] = heap[j]
      BY <1>10, <2>6, <2>9, <3>1
    <3>2. CASE j = pos + 1 /\ h[j] = id
      <4>1. i \in 1 .. pos
        BY <1>3, <2>9
      <4>2. NotBefore(d[heap[i]].tick, d[id].tick)
        BY <2>4, <2>5, <2>7, <2>9, <4>1, Compared
      <4> QED
        BY <2>9, <3>2, <4>2
    <3>3. CASE j > pos + 1 /\ j - 1 \in 1 .. n /\ h[j] = heap[j - 1]
      <4>1. i < j - 1
        BY <1>3, <2>1, <2>9, <3>3
      <4> QED
        BY <2>6, <2>9, <3>3, <4>1
    <3> QED
      BY <2>3, <3>1, <3>2, <3>3
  <2>10. CASE i = pos + 1 /\ h[i] = id
    <3>1. j > pos + 1 /\ j - 1 \in 1 .. n /\ h[j] = heap[j - 1]
      BY <1>3, <1>10, <2>1, <2>3, <2>10
    <3>2. j - 1 \in pos + 1 .. n
      BY <1>1, <1>3, <2>1, <3>1
    <3>3. NotBefore(d[id].tick, d[heap[j - 1]].tick)
      BY <2>4, <2>5, <2>8, <3>1, <3>2, Compared
    <3> QED
      BY <2>10, <3>1, <3>3
  <2>11. CASE i > pos + 1 /\ i - 1 \in 1 .. n /\ h[i] = heap[i - 1]
    <3>1. j > pos + 1 /\ j - 1 \in 1 .. n /\ h[j] = heap[j - 1] /\ i - 1 < j - 1
      BY <1>3, <1>10, <2>1, <2>3, <2>11
    <3> QED
      BY <2>6, <2>11, <3>1
  <2> QED
    BY <2>2, <2>9, <2>10, <2>11
<1> QED
  BY <1>2, <1>6, <1>7, <1>8, <1>9, <1>10 DEF InOrder, h

----------------------------------------------------------------------------
(* The steps.                                                              *)

\* The invariant holds at first.
LEMMA InitInv ==
  ASSUME TimerHeapAssumption, Init
  PROVE  TimerInv
<1>1. TypeOK
  <2>1. 0 \in Tick
    BY DEF TimerHeapAssumption, Tick, Wrap
  <2>2. [func |-> Null, marked |-> FALSE, tick |-> 0] \in TimerData
    BY <2>1 DEF TimerData
  <2>3. data \in [Ids -> TimerData]
    BY <2>2 DEF Init
  <2>4. heap \in Seq(Ids) /\ free \in Seq(Ids)
    BY DEF Init
  <2>5. held \in [Owners -> Ids \cup {Null}]
    BY DEF Init
  <2>6. now \in Tick /\ num \in 0 .. MaxIds /\ pass = Null /\ running = Null
    BY DEF Init, TimerHeapAssumption
  <2> QED
    BY <2>3, <2>4, <2>5, <2>6 DEF TypeOK
<1>2. DOMAIN heap = {} /\ DOMAIN free = {}
  BY DEF Init
<1>3. IdsApart /\ HeapSorted /\ HeapInWindow
  BY <1>2 DEF IdsApart, HeapSorted, HeapInWindow, Init
<1>4. FuncIsLive
  <2>1. ASSUME NEW id \in Ids
        PROVE  data[id].func = Null /\ data[id].marked = FALSE
    BY DEF Init
  <2> QED
    BY <2>1 DEF FuncIsLive
<1>5. HandleIsOwn /\ PassIsRecent /\ RunningIsDue
  BY DEF HandleIsOwn, PassIsRecent, RunningIsDue, Init
<1> QED
  BY <1>1, <1>3, <1>4, <1>5 DEF TimerInv

\* What the lemmas about the array ask of it.
LEMMA ArrayIs ==
  ASSUME TimerInv
  PROVE  /\ now \in Tick /\ heap \in Seq(Ids) /\ data \in [Ids -> TimerData]
         /\ InOrder(heap, data)
         /\ \A i \in DOMAIN heap :
              heap[i] \in Ids /\ data[heap[i]].tick \in Tick /\ InWindow(data[heap[i]].tick)
         /\ \A i, j \in DOMAIN heap : heap[i] = heap[j] => i = j
<1>1. now \in Tick /\ heap \in Seq(Ids) /\ data \in [Ids -> TimerData]
  BY DEF TimerInv, TypeOK
<1>2. InOrder(heap, data)
  BY DEF TimerInv, HeapSorted, InOrder
<1>3. ASSUME NEW i \in DOMAIN heap
      PROVE  heap[i] \in Ids /\ data[heap[i]].tick \in Tick
  <2>1. heap[i] \in Ids
    BY <1>1, ElementOfSeq
  <2> QED
    BY <1>1, <2>1 DEF TimerData
<1>4. /\ \A i \in DOMAIN heap : InWindow(data[heap[i]].tick)
      /\ \A i, j \in DOMAIN heap : heap[i] = heap[j] => i = j
  BY DEF TimerInv, HeapInWindow, IdsApart
<1> QED
  BY <1>1, <1>2, <1>3, <1>4

\* The id that a new timer gets is nobody's, and is no longer free.
LEMMA AcquireIs ==
  ASSUME TimerHeapAssumption, TimerInv, NEW id \in Ids, acquire_timer(id)
  PROVE  /\ ~InHeap(id) /\ id # running /\ data[id].func = Null
         /\ num' \in 0 .. MaxIds /\ num <= num' /\ id < num'
         /\ free' \in Seq(Ids)
         /\ \A i \in DOMAIN free' : free'[i] # id /\ InFree(free'[i])
         /\ \A i, j \in DOMAIN free' : free'[i] = free'[j] => i = j
<1>1. /\ free \in Seq(Ids) /\ num \in 0 .. MaxIds /\ MaxIds \in Nat
      /\ running \in Ids \cup {Null} /\ heap \in Seq(Ids)
  BY DEF TimerInv, TypeOK, TimerHeapAssumption
<1>2. id \in Int /\ id < MaxIds /\ num \in Int
  BY <1>1 DEF Ids
<1>3. CASE free # <<>>
  <2> DEFINE n == Len(free)
  <2>1. n \in Nat /\ n > 0 /\ DOMAIN free = 1 .. n
    BY <1>1, <1>3, EmptySeq
  <2>2. id = free[n] /\ free' = SubSeq(free, 1, n - 1) /\ num' = num
    BY <1>3 DEF acquire_timer
  <2>3. \A i \in 1 .. n : free[i] \in Ids
    BY <1>1, ElementOfSeq
  <2>4. /\ free' \in Seq(Ids) /\ Len(free') = n - 1
        /\ \A i \in 1 .. n - 1 : free'[i] = free[i]
    <3>1. \A i \in 1 .. n - 1 : free[i] \in Ids
      BY <2>1, <2>3
    <3> HIDE DEF n
    <3>2. n - 1 \in Int /\ 1 \in Int /\ n \in Nat /\ n > 0
      BY <2>1
    <3>3. /\ SubSeq(free, 1, n - 1) \in Seq(Ids)
          /\ Len(SubSeq(free, 1, n - 1)) = IF 1 <= n - 1 THEN n - 1 - 1 + 1 ELSE 0
          /\ \A i \in 1 .. n - 1 - 1 + 1 : SubSeq(free, 1, n - 1)[i] = free[1 + i - 1]
      BY <3>1, <3>2, SubSeqProperties
    <3> QED
      BY <2>2, <3>2, <3>3
  <2>5. DOMAIN free' = 1 .. n - 1
    BY <2>4
  <2>6. n \in DOMAIN free
    BY <2>1
  <2>7. ~InHeap(id) /\ id # running /\ id < num
    <3>1. \A i \in DOMAIN heap : ~InFree(heap[i])
      BY DEF TimerInv, IdsApart
    <3>2. InFree(id)
      BY <2>2, <2>6 DEF InFree
    <3>3. id # running /\ id < num
      BY <2>2, <2>6 DEF TimerInv, IdsApart
    <3> QED
      BY <3>1, <3>2, <3>3 DEF InHeap
  <2>8. \A i, j \in DOMAIN free : free[i] = free[j] => i = j
    BY DEF TimerInv, IdsApart
  <2> HIDE DEF n
  <2>9. ASSUME NEW i \in DOMAIN free' PROVE free'[i] # id /\ InFree(free'[i])
    <3>1. i \in DOMAIN free /\ i # n /\ free'[i] = free[i]
      BY <2>1, <2>4, <2>5
    <3> QED
      BY <2>2, <2>6, <2>8, <3>1 DEF InFree
  <2>10. ASSUME NEW i \in DOMAIN free', NEW j \in DOMAIN free', free'[i] = free'[j]
         PROVE  i = j
    <3>1. i \in DOMAIN free /\ free'[i] = free[i] /\ j \in DOMAIN free /\ free'[j] = free[j]
      BY <2>1, <2>4, <2>5
    <3> QED
      BY <2>8, <2>10, <3>1
  <2>11. data[id].func = Null
    BY <2>7 DEF TimerInv, FuncIsLive
  <2>12. num' \in 0 .. MaxIds /\ num <= num' /\ id < num'
    BY <1>1, <1>2, <2>2, <2>7
  <2> QED
    BY <2>4, <2>7, <2>9, <2>10, <2>11, <2>12
<1>4. CASE free = <<>>
  <2>1. id = num /\ num' = num + 1 /\ free' = free
    BY <1>4 DEF acquire_timer
  <2>2. DOMAIN free' = {}
    BY <1>4, <2>1
  <2>3. \A i \in DOMAIN heap : heap[i] < num
    BY DEF TimerInv, IdsApart
  <2>4. running # Null => running < num
    BY DEF TimerInv, IdsApart
  <2>5. ~InHeap(id)
    <3>1. ~(num < num)
      BY <1>2
    <3> QED
      BY <2>1, <2>3, <3>1 DEF InHeap
  <2>6. id # running
    <3>1. ~(num < num) /\ id # Null
      BY <1>2 DEF TimerHeapAssumption
    <3> QED
      BY <2>1, <2>4, <3>1
  <2>7. data[id].func = Null
    BY <2>5, <2>6 DEF TimerInv, FuncIsLive
  <2>8. num' \in 0 .. MaxIds /\ num <= num' /\ id < num'
    BY <1>1, <1>2, <2>1
  <2> QED
    BY <1>1, <2>1, <2>2, <2>5, <2>6, <2>7, <2>8
<1> QED
  BY <1>3, <1>4

\* A tick that is so far from now is in the window.
LEMMA Ahead ==
  ASSUME TimerHeapAssumption, now \in Tick, NEW t \in Tick, NEW o \in Owners,
         -MaxLag - LateMax <= DIFF_TICK(t, now), DIFF_TICK(t, now) <= 0
  PROVE  Add(t, Interval[o]) \in Tick /\ InWindow(Add(t, Interval[o]))
<1> DEFINE k == Interval[o]
           x == DIFF_TICK(t, now)
<1>1. /\ k \in Nat /\ k > 0 /\ k + MaxLag + LateMax <= Half /\ Half \in Nat \ {0}
      /\ MaxLag \in Nat /\ LateMax \in Nat /\ LateMax > 0
  BY DEF TimerHeapAssumption
<1>2. x \in Int /\ -MaxLag - LateMax <= x /\ x <= 0
  BY <1>1, SeenFrom
<1> HIDE DEF k, x
<1>3. k <= Half /\ x + k < Half
  BY <1>1, <1>2
<1>4. /\ Add(t, k) \in Tick
      /\ DIFF_TICK(Add(t, k), now) = x + k
  BY <1>1, <1>3, AddIs DEF x
<1>5. -Lag < x + k /\ x + k <= Half - Lag
  BY <1>1, <1>2 DEF Lag
<1> QED
  BY <1>4, <1>5 DEF InWindow, k

\* A timer is inserted.
LEMMA InsertStep ==
  ASSUME TimerHeapAssumption, TimerInv, NEW o \in Owners, timer_insert(o)
  PROVE  TimerInv'
<1>1. PICK id \in Ids :
        /\ acquire_timer(id)
        /\ data' = [data EXCEPT ![id] =
                      [func |-> o, marked |-> FALSE, tick |-> Add(now, Interval[o])]]
        /\ heap' = push_timer_heap(id, data', heap)
        /\ held' = [held EXCEPT ![o] = id]
  BY DEF timer_insert
<1>2. held[o] = Null /\ UNCHANGED <<now, pass, running>>
  BY DEF timer_insert
<1>3. /\ ~InHeap(id) /\ id # running /\ data[id].func = Null
      /\ num' \in 0 .. MaxIds /\ num <= num' /\ id < num'
      /\ free' \in Seq(Ids)
      /\ \A i \in DOMAIN free' : free'[i] # id /\ InFree(free'[i])
      /\ \A i, j \in DOMAIN free' : free'[i] = free'[j] => i = j
  BY <1>1, AcquireIs
<1>4. /\ now \in Tick /\ heap \in Seq(Ids) /\ data \in [Ids -> TimerData]
      /\ InOrder(heap, data)
      /\ \A i \in DOMAIN heap :
           heap[i] \in Ids /\ data[heap[i]].tick \in Tick /\ InWindow(data[heap[i]].tick)
      /\ \A i, j \in DOMAIN heap : heap[i] = heap[j] => i = j
  BY ArrayIs
<1>5. TypeOK
  BY DEF TimerInv
<1> DEFINE t == Add(now, Interval[o])
<1>6. t \in Tick /\ InWindow(t)
  <2>1. DIFF_TICK(now, now) = 0
    <3>1. Half \in Nat \ {0} /\ now \in Int
      BY <1>4 DEF TimerHeapAssumption, Tick
    <3>2. DIFF_TICK(now, now) = IF now - now < -Half THEN now - now + Wrap
                                ELSE IF now - now < Half THEN now - now
                                ELSE now - now - Wrap
      BY <1>4, <3>1, DiffIs
    <3> QED
      BY <3>1, <3>2
  <2>2. -MaxLag - LateMax <= 0
    BY DEF TimerHeapAssumption
  <2> QED
    BY <1>4, <2>1, <2>2, Ahead
<1> DEFINE r == [func |-> o, marked |-> FALSE, tick |-> t]
<1>7. r \in TimerData /\ r.func = o /\ r.marked = FALSE /\ r.tick = t
  BY <1>6 DEF TimerData
<1>8. data' \in [Ids -> TimerData] /\ \A x \in Ids : data'[x] = IF x = id THEN r ELSE data[x]
  <2>1. data' = [data EXCEPT ![id] = r]
    BY <1>1
  <2> HIDE DEF r
  <2> QED
    BY <1>4, <1>7, <2>1
<1> HIDE DEF r, t
<1>9. \A i \in DOMAIN heap : heap[i] # id /\ data'[heap[i]] = data[heap[i]]
  BY <1>3, <1>4, <1>8 DEF InHeap
<1>10. InOrder(heap, data')
  BY <1>4, <1>9 DEF InOrder
<1>11. data'[id] = r
  BY <1>8
<1>12. /\ heap' \in Seq(Ids)
       /\ \A i \in DOMAIN heap' : heap'[i] = id \/ InHeap(heap'[i])
       /\ \E i \in DOMAIN heap' : heap'[i] = id
       /\ \A j \in DOMAIN heap : \E i \in DOMAIN heap' : heap'[i] = heap[j]
       /\ \A i, j \in DOMAIN heap' : heap'[i] = heap'[j] => i = j
       /\ InOrder(heap', data')
  <2>1. PICK d \in [Ids -> TimerData] : d = data'
    BY <1>8
  <2>2. InOrder(heap, d)
    BY <1>10, <2>1
  <2>3. \A i \in DOMAIN heap : InWindow(d[heap[i]].tick)
    BY <1>4, <1>9, <2>1
  <2>4. InWindow(d[id].tick)
    BY <1>6, <1>7, <1>11, <2>1
  <2>5. heap' = push_timer_heap(id, d, heap)
    BY <1>1, <2>1
  <2>6. /\ push_timer_heap(id, d, heap) \in Seq(Ids)
        /\ \A i \in DOMAIN push_timer_heap(id, d, heap) :
             \/ push_timer_heap(id, d, heap)[i] = id
             \/ InHeap(push_timer_heap(id, d, heap)[i])
        /\ \E i \in DOMAIN push_timer_heap(id, d, heap) : push_timer_heap(id, d, heap)[i] = id
        /\ \A j \in DOMAIN heap :
             \E i \in DOMAIN push_timer_heap(id, d, heap) :
               push_timer_heap(id, d, heap)[i] = heap[j]
        /\ \A i, j \in DOMAIN push_timer_heap(id, d, heap) :
             push_timer_heap(id, d, heap)[i] = push_timer_heap(id, d, heap)[j] => i = j
        /\ InOrder(push_timer_heap(id, d, heap), d)
    BY <1>3, <1>4, <2>2, <2>3, <2>4, PushKeeps
  <2> QED
    BY <2>1, <2>5, <2>6
<1>13. TypeOK'
  <2>1. held' \in [Owners -> Ids \cup {Null}]
    BY <1>1, <1>5 DEF TypeOK
  <2> QED
    BY <1>2, <1>3, <1>5, <1>8, <1>12, <2>1 DEF TypeOK
<1>14. IdsApart'
  <2>1. /\ \A i \in DOMAIN heap : ~InFree(heap[i]) /\ heap[i] # running /\ heap[i] < num
        /\ \A i \in DOMAIN free : free[i] # running /\ free[i] < num
        /\ running # Null => running < num
    BY DEF TimerInv, IdsApart
  <2>2. num \in Int /\ num' \in Int /\ num <= num'
    BY <1>3, <1>5 DEF TypeOK
  <2>3. \A x \in Ids : x < num => x < num'
    BY <2>2 DEF Ids
  <2>4. ASSUME NEW i \in DOMAIN heap'
        PROVE  (\A j \in DOMAIN free' : free'[j] # heap'[i]) /\ heap'[i] # running' /\ heap'[i] < num'
    <3>1. CASE heap'[i] = id
      BY <1>2, <1>3, <3>1 DEF InFree
    <3>2. CASE InHeap(heap'[i])
      <4>1. PICK j \in DOMAIN heap : heap[j] = heap'[i]
        BY <3>2 DEF InHeap
      <4>2. ~InFree(heap'[i]) /\ heap'[i] # running /\ heap'[i] < num /\ heap'[i] \in Ids
        BY <1>4, <2>1, <4>1
      <4>3. (\A k \in DOMAIN free' : free'[k] # heap'[i])
        BY <1>3, <4>2 DEF InFree
      <4> QED
        BY <1>2, <2>3, <4>2, <4>3
    <3> QED
      BY <1>12, <3>1, <3>2
  <2>5. ASSUME NEW i \in DOMAIN free' PROVE free'[i] # running' /\ free'[i] < num'
    <3>1. PICK j \in DOMAIN free : free[j] = free'[i]
      BY <1>3 DEF InFree
    <3>2. free[j] \in Ids
      BY <1>5, ElementOfSeq DEF TypeOK
    <3> QED
      BY <1>2, <2>1, <2>3, <3>1, <3>2
  <2>6. running' # Null => running' < num'
    BY <1>2, <1>5, <2>1, <2>3 DEF TypeOK
  <2> QED
    BY <1>3, <1>12, <2>4, <2>5, <2>6 DEF IdsApart, InFree
<1>15. FuncIsLive'
  <2>1. ASSUME NEW x \in Ids
        PROVE  /\ data'[x].func # Null => InHeap(x)' \/ running' = x
               /\ data'[x].marked = (running' = x /\ data'[x].func # Null)
    <3>1. CASE x = id
      <4>1. data'[x].marked = FALSE /\ running' # x
        BY <1>2, <1>3, <1>7, <1>8, <3>1
      <4>2. InHeap(x)'
        BY <1>12, <3>1 DEF InHeap
      <4> QED
        BY <4>1, <4>2
    <3>2. CASE x # id
      <4>1. data'[x] = data[x] /\ running' = running
        BY <1>2, <1>8, <3>2
      <4>2. /\ data[x].func # Null => InHeap(x) \/ running = x
            /\ data[x].marked = (running = x /\ data[x].func # Null)
        BY DEF TimerInv, FuncIsLive
      <4>3. InHeap(x) => InHeap(x)'
        BY <1>12 DEF InHeap
      <4> QED
        BY <4>1, <4>2, <4>3
    <3> QED
      BY <3>1, <3>2
  <2> QED
    BY <2>1 DEF FuncIsLive
<1>16. HandleIsOwn'
  <2>1. ASSUME NEW p \in Owners, held'[p] # Null PROVE data'[held'[p]].func = p
    <3>1. CASE p = o
      <4>1. held'[p] = id
        BY <1>1, <1>5, <3>1 DEF TypeOK
      <4> QED
        BY <1>7, <1>11, <3>1, <4>1
    <3>2. CASE p # o
      <4>1. held'[p] = held[p] /\ held[p] \in Ids
        BY <1>1, <1>5, <2>1, <3>2 DEF TypeOK
      <4>2. data[held[p]].func = p
        BY <2>1, <4>1 DEF TimerInv, HandleIsOwn
      <4>3. held[p] # id
        BY <1>3, <4>2 DEF TimerHeapAssumption
      <4> QED
        BY <1>8, <4>1, <4>2, <4>3
    <3> QED
      BY <3>1, <3>2
  <2> QED
    BY <2>1 DEF HandleIsOwn
<1>17. HeapSorted'
  BY <1>12 DEF HeapSorted, InOrder
<1>18. HeapInWindow'
  <2>1. ASSUME NEW i \in DOMAIN heap'
        PROVE  /\ -Lag < DIFF_TICK(data'[heap'[i]].tick, now')
               /\ DIFF_TICK(data'[heap'[i]].tick, now') <= Half - Lag
    <3>1. CASE heap'[i] = id
      <4>1. data'[heap'[i]].tick = t
        BY <1>7, <1>11, <3>1
      <4> QED
        BY <1>2, <1>6, <4>1 DEF InWindow
    <3>2. CASE InHeap(heap'[i])
      <4>1. PICK j \in DOMAIN heap : heap[j] = heap'[i]
        BY <3>2 DEF InHeap
      <4>2. data'[heap'[i]].tick = data[heap[j]].tick /\ InWindow(data[heap[j]].tick)
        BY <1>4, <1>9, <4>1
      <4> QED
        BY <1>2, <4>2 DEF InWindow
    <3> QED
      BY <1>12, <3>1, <3>2
  <2> QED
    BY <2>1 DEF HeapInWindow, InWindow
<1>19. PassIsRecent'
  BY <1>2 DEF TimerInv, PassIsRecent
<1>20. RunningIsDue'
  <2>1. running # Null => data'[running] = data[running]
    BY <1>3, <1>5, <1>8 DEF TypeOK
  <2> QED
    BY <1>2, <2>1 DEF TimerInv, RunningIsDue
<1> QED
  BY <1>13, <1>14, <1>15, <1>16, <1>17, <1>18, <1>19, <1>20 DEF TimerInv

\* e is d, with these fields of id.
Written(d, e, id, f, m, t) ==
  /\ e \in [Ids -> TimerData]
  /\ \A x \in Ids : x # id => e[x] = d[x]
  /\ e[id].func = f /\ e[id].marked = m /\ e[id].tick = t

\* One field of an entry is written.
LEMMA WriteTick ==
  ASSUME NEW d \in [Ids -> TimerData], NEW id \in Ids, NEW t \in Tick
  PROVE  Written(d, [d EXCEPT ![id].tick = t], id, d[id].func, d[id].marked, t)
  BY DEF TimerData, Written

\* The mark of an entry is written.
LEMMA WriteMark ==
  ASSUME NEW d \in [Ids -> TimerData], NEW id \in Ids, NEW m \in BOOLEAN
  PROVE  Written(d, [d EXCEPT ![id].marked = m], id, d[id].func, m, d[id].tick)
  BY DEF TimerData, Written

\* The function of an entry is written.
LEMMA WriteFunc ==
  ASSUME NEW d \in [Ids -> TimerData], NEW id \in Ids, NEW f \in Owners \cup {Null}
  PROVE  Written(d, [d EXCEPT ![id].func = f], id, f, d[id].marked, d[id].tick)
  BY DEF TimerData, Written

\* Two fields are.
LEMMA WriteTwo ==
  ASSUME NEW d \in [Ids -> TimerData], NEW id \in Ids, NEW f, NEW m, NEW t
  PROVE  /\ [d EXCEPT ![id].func = f, ![id].marked = m]
              = [[d EXCEPT ![id].func = f] EXCEPT ![id].marked = m]
         /\ [d EXCEPT ![id].marked = m, ![id].tick = t]
              = [[d EXCEPT ![id].tick = t] EXCEPT ![id].marked = m]
<1>1. [d EXCEPT ![id].func = f, ![id].marked = m]
        = [[d EXCEPT ![id].func = f] EXCEPT ![id].marked = m]
  OBVIOUS
<1>2. [d EXCEPT ![id].marked = m, ![id].tick = t]
        = [[d EXCEPT ![id].tick = t] EXCEPT ![id].marked = m]
  OBVIOUS
<1> QED
  BY <1>1, <1>2, Zenon

\* What timer_remove does to an entry.
LEMMA RemovedIs ==
  ASSUME NEW id \in Ids, data \in [Ids -> TimerData]
  PROVE  Written(data, removed(id), id, Null, FALSE, data[id].tick)
<1> DEFINE g == [data EXCEPT ![id].func = Null]
<1>1. Written(data, g, id, Null, data[id].marked, data[id].tick)
  BY WriteFunc
<1>2. removed(id) = [g EXCEPT ![id].marked = FALSE]
  BY WriteTwo, Zenon DEF removed
<1> HIDE DEF g
<1>3. Written(g, [g EXCEPT ![id].marked = FALSE], id, g[id].func, FALSE, g[id].tick)
  BY <1>1, FALSE \in BOOLEAN, WriteMark DEF Written
<1> QED
  BY <1>1, <1>2, <1>3 DEF Written

\* A timer is removed, and its entry stays in the array.
LEMMA RemoveStep ==
  ASSUME TimerHeapAssumption, TimerInv, NEW o \in Owners, timer_remove(o)
  PROVE  TimerInv'
<1>1. /\ held[o] # Null /\ data' = removed(held[o])
      /\ held' = [held EXCEPT ![o] = Null]
      /\ UNCHANGED <<now, num, heap, free, pass, running>>
  BY DEF timer_remove
<1>2. TypeOK
  BY DEF TimerInv
<1> DEFINE id == held[o]
<1>3. id \in Ids /\ data[id].func = o
  BY <1>1, <1>2 DEF TypeOK, TimerInv, HandleIsOwn
<1>4. /\ data' \in [Ids -> TimerData]
      /\ \A x \in Ids : /\ x # id => data'[x] = data[x]
                        /\ data'[x].tick = data[x].tick
      /\ data'[id].func = Null /\ data'[id].marked = FALSE
  <2>1. Written(data, removed(id), id, Null, FALSE, data[id].tick)
    BY <1>2, <1>3, RemovedIs DEF TypeOK
  <2> QED
    BY <1>1, <2>1 DEF Written
<1>5. /\ held' \in [Owners -> Ids \cup {Null}]
      /\ \A p \in Owners : held'[p] = IF p = o THEN Null ELSE held[p]
  BY <1>1, <1>2 DEF TypeOK
<1> HIDE DEF id
<1>6. \A i \in DOMAIN heap : heap[i] \in Ids
  BY ArrayIs
<1>7. TypeOK'
  BY <1>1, <1>2, <1>4, <1>5 DEF TypeOK
<1>8. IdsApart'
  BY <1>1 DEF TimerInv, IdsApart, InFree
<1>9. FuncIsLive'
  <2>1. ASSUME NEW x \in Ids
        PROVE  /\ data'[x].func # Null => InHeap(x)' \/ running' = x
               /\ data'[x].marked = (running' = x /\ data'[x].func # Null)
    <3>1. CASE x = id
      BY <1>4, <3>1
    <3>2. CASE x # id
      BY <1>1, <1>4, <3>2 DEF TimerInv, FuncIsLive, InHeap
    <3> QED
      BY <3>1, <3>2
  <2> QED
    BY <2>1 DEF FuncIsLive
<1>10. HandleIsOwn'
  <2>1. ASSUME NEW p \in Owners, held'[p] # Null PROVE data'[held'[p]].func = p
    <3>1. p # o /\ held'[p] = held[p] /\ held[p] \in Ids
      BY <1>2, <1>5, <2>1 DEF TypeOK
    <3>2. data[held[p]].func = p
      BY <2>1, <3>1 DEF TimerInv, HandleIsOwn
    <3> QED
      BY <1>3, <1>4, <3>1, <3>2
  <2> QED
    BY <2>1 DEF HandleIsOwn
<1>11. HeapSorted' /\ HeapInWindow'
  BY <1>1, <1>4, <1>6 DEF TimerInv, HeapSorted, HeapInWindow, InWindow
<1>12. PassIsRecent'
  BY <1>1 DEF TimerInv, PassIsRecent
<1>13. RunningIsDue'
  <2>1. running # Null => running \in Ids /\ data'[running].tick = data[running].tick
    BY <1>2, <1>4 DEF TypeOK
  <2> QED
    BY <1>1, <2>1 DEF TimerInv, RunningIsDue
<1> QED
  BY <1>7, <1>8, <1>9, <1>10, <1>11, <1>12, <1>13 DEF TimerInv

\* timer_do starts and ends.
LEMMA BeginStep ==
  ASSUME TimerHeapAssumption, TimerInv, timer_do_begin
  PROVE  TimerInv'
<1>1. pass = Null /\ pass' = now /\ UNCHANGED <<now, data, num, heap, free, running, held>>
  BY DEF timer_do_begin
<1>2. TypeOK' /\ now \in Tick
  BY <1>1 DEF TimerInv, TypeOK
<1>3. IdsApart' /\ FuncIsLive' /\ HandleIsOwn' /\ HeapSorted' /\ HeapInWindow'
  <2>1. IdsApart' /\ HandleIsOwn' /\ HeapSorted'
    BY <1>1 DEF TimerInv, IdsApart, HandleIsOwn, HeapSorted, InFree
  <2>2. FuncIsLive' /\ HeapInWindow'
    BY <1>1 DEF TimerInv, FuncIsLive, HeapInWindow, InHeap, InWindow
  <2> QED
    BY <2>1, <2>2
<1>4. PassIsRecent'
  <2>1. Half \in Nat \ {0} /\ MaxLag \in Nat /\ now \in Int
    BY <1>2 DEF TimerHeapAssumption, Tick
  <2>2. DIFF_TICK(now, now) = IF now - now < -Half THEN now - now + Wrap
                              ELSE IF now - now < Half THEN now - now
                              ELSE now - now - Wrap
    BY <1>2, <2>1, DiffIs
  <2>3. DIFF_TICK(now, now) = 0
    BY <2>1, <2>2
  <2> QED
    BY <1>1, <2>1, <2>3 DEF PassIsRecent
<1>5. RunningIsDue'
  BY <1>1 DEF TimerInv, RunningIsDue
<1> QED
  BY <1>2, <1>3, <1>4, <1>5 DEF TimerInv

\* timer_do returns.
LEMMA EndStep ==
  ASSUME TimerHeapAssumption, TimerInv, timer_do_end
  PROVE  TimerInv'
<1>1. running = Null /\ pass' = Null /\ UNCHANGED <<now, data, num, heap, free, running, held>>
  BY DEF timer_do_end
<1>2. TypeOK'
  BY <1>1 DEF TimerInv, TypeOK
<1>3. IdsApart' /\ HandleIsOwn' /\ HeapSorted'
  BY <1>1 DEF TimerInv, IdsApart, HandleIsOwn, HeapSorted, InFree
<1>4. FuncIsLive' /\ HeapInWindow'
  BY <1>1 DEF TimerInv, FuncIsLive, HeapInWindow, InHeap, InWindow
<1>5. PassIsRecent' /\ RunningIsDue'
  BY <1>1 DEF PassIsRecent, RunningIsDue
<1> QED
  BY <1>2, <1>3, <1>4, <1>5 DEF TimerInv

\* The last entry is taken out of the array.
LEMMA PopIs ==
  ASSUME TimerHeapAssumption, TimerInv, heap # <<>>, heap' = SubSeq(heap, 1, Len(heap) - 1)
  PROVE  /\ Next_id \in Ids /\ Next_id < num /\ Next_id # running /\ ~InFree(Next_id)
         /\ InWindow(data[Next_id].tick) /\ data[Next_id].tick \in Tick
         /\ heap' \in Seq(Ids)
         /\ \A i \in DOMAIN heap' :
              i \in DOMAIN heap /\ heap'[i] = heap[i] /\ heap'[i] # Next_id /\ i < Len(heap)
         /\ \A i \in DOMAIN heap : heap[i] = Next_id \/ i \in DOMAIN heap'
<1> DEFINE n == Len(heap)
<1>1. /\ now \in Tick /\ heap \in Seq(Ids)
      /\ \A i \in DOMAIN heap :
           heap[i] \in Ids /\ data[heap[i]].tick \in Tick /\ InWindow(data[heap[i]].tick)
      /\ \A i, j \in DOMAIN heap : heap[i] = heap[j] => i = j
  BY ArrayIs
<1>2. n \in Nat /\ n > 0 /\ DOMAIN heap = 1 .. n /\ n \in 1 .. n
  BY <1>1, EmptySeq
<1>3. Next_id = heap[n]
  BY DEF Next_id
<1>4. /\ heap' \in Seq(Ids) /\ Len(heap') = n - 1
      /\ \A i \in 1 .. n - 1 : heap'[i] = heap[i]
  <2>1. \A i \in 1 .. n - 1 : heap[i] \in Ids
    BY <1>1, <1>2
  <2>2. heap' = SubSeq(heap, 1, n - 1)
    OBVIOUS
  <2> HIDE DEF n
  <2>3. n - 1 \in Int /\ 1 \in Int
    BY <1>2
  <2>4. /\ SubSeq(heap, 1, n - 1) \in Seq(Ids)
        /\ Len(SubSeq(heap, 1, n - 1)) = IF 1 <= n - 1 THEN n - 1 - 1 + 1 ELSE 0
        /\ \A i \in 1 .. n - 1 - 1 + 1 : SubSeq(heap, 1, n - 1)[i] = heap[1 + i - 1]
    BY <2>1, <2>3, SubSeqProperties
  <2> QED
    BY <1>2, <2>2, <2>4
<1>5. DOMAIN heap' = 1 .. n - 1
  BY <1>4
<1>6. /\ \A i \in DOMAIN heap : ~InFree(heap[i]) /\ heap[i] # running /\ heap[i] < num
  BY DEF TimerInv, IdsApart
<1> HIDE DEF n
<1>7. ASSUME NEW i \in DOMAIN heap'
      PROVE  i \in DOMAIN heap /\ heap'[i] = heap[i] /\ heap'[i] # Next_id /\ i < n
  <2>1. i \in DOMAIN heap /\ i # n /\ n \in DOMAIN heap /\ heap'[i] = heap[i] /\ i < n
    BY <1>2, <1>4, <1>5
  <2> QED
    BY <1>1, <1>3, <2>1
<1>8. ASSUME NEW i \in DOMAIN heap PROVE heap[i] = Next_id \/ i \in DOMAIN heap'
  BY <1>2, <1>3, <1>5
<1> QED
  BY <1>1, <1>2, <1>3, <1>4, <1>6, <1>7, <1>8 DEF n

\* A callback is called.
LEMMA CallStep ==
  ASSUME TimerHeapAssumption, TimerInv, timer_do_call
  PROVE  TimerInv'
<1>1. /\ pass # Null /\ running = Null
      /\ heap # <<>> /\ DIFF_TICK(data[Next_id].tick, pass) <= 0
      /\ data[Next_id].func # Null
      /\ heap' = SubSeq(heap, 1, Len(heap) - 1)
      /\ data' = [data EXCEPT ![Next_id].marked = TRUE]
      /\ running' = Next_id
      /\ UNCHANGED <<now, num, free, pass, held>>
  BY DEF timer_do_call, Due
<1> DEFINE id == Next_id
<1>2. /\ id \in Ids /\ id < num /\ ~InFree(id)
      /\ heap' \in Seq(Ids)
      /\ \A i \in DOMAIN heap' :
           i \in DOMAIN heap /\ heap'[i] = heap[i] /\ heap'[i] # id
      /\ \A i \in DOMAIN heap : heap[i] = id \/ i \in DOMAIN heap'
  BY <1>1, PopIs
<1>3. TypeOK
  BY DEF TimerInv
<1> HIDE DEF id
<1>4. /\ data' \in [Ids -> TimerData]
      /\ \A x \in Ids : /\ x # id => data'[x] = data[x]
                        /\ data'[x].tick = data[x].tick
                        /\ data'[x].func = data[x].func
      /\ data'[id].marked = TRUE
  <2>1. data' = [data EXCEPT ![id].marked = TRUE]
    BY <1>1 DEF id
  <2>2. Written(data, [data EXCEPT ![id].marked = TRUE], id,
                data[id].func, TRUE, data[id].tick)
    BY <1>2, <1>3, TRUE \in BOOLEAN, WriteMark DEF TypeOK
  <2> QED
    BY <2>1, <2>2 DEF Written
<1>5. running' = id /\ data[id].func # Null /\ DIFF_TICK(data[id].tick, pass) <= 0
  BY <1>1 DEF id
<1>6. \A i \in DOMAIN heap : heap[i] \in Ids
  BY ArrayIs
<1>7. TypeOK'
  BY <1>1, <1>2, <1>3, <1>4, <1>5 DEF TypeOK
<1>8. IdsApart'
  <2>1. /\ \A i, j \in DOMAIN heap : heap[i] = heap[j] => i = j
        /\ \A i, j \in DOMAIN free : free[i] = free[j] => i = j
        /\ \A i \in DOMAIN heap : ~InFree(heap[i]) /\ heap[i] < num
        /\ \A i \in DOMAIN free : free[i] < num
    BY DEF TimerInv, IdsApart
  <2>2. \A i \in DOMAIN free : free[i] # id
    BY <1>2 DEF InFree
  <2> QED
    BY <1>1, <1>2, <1>5, <2>1, <2>2 DEF IdsApart, InFree
<1>9. FuncIsLive'
  <2>1. ASSUME NEW x \in Ids
        PROVE  /\ data'[x].func # Null => InHeap(x)' \/ running' = x
               /\ data'[x].marked = (running' = x /\ data'[x].func # Null)
    <3>1. CASE x = id
      BY <1>2, <1>4, <1>5, <3>1
    <3>2. CASE x # id
      <4>1. running # x
        BY <1>1 DEF TimerHeapAssumption
      <4>2. /\ data[x].func # Null => InHeap(x)
            /\ data[x].marked = FALSE
        BY <4>1 DEF TimerInv, FuncIsLive
      <4>3. InHeap(x) => InHeap(x)'
        BY <1>2, <3>2 DEF InHeap
      <4> QED
        BY <1>4, <1>5, <3>2, <4>2, <4>3
    <3> QED
      BY <3>1, <3>2
  <2> QED
    BY <2>1 DEF FuncIsLive
<1>10. HandleIsOwn'
  BY <1>1, <1>3, <1>4 DEF TimerInv, HandleIsOwn, TypeOK
<1>11. HeapSorted'
  <2>1. \A i \in DOMAIN heap' :
          i \in DOMAIN heap /\ data'[heap'[i]].tick = data[heap[i]].tick
    BY <1>2, <1>4, <1>6
  <2>2. \A i, j \in DOMAIN heap :
          i < j => NotBefore(data[heap[i]].tick, data[heap[j]].tick)
    BY DEF TimerInv, HeapSorted
  <2>3. ASSUME NEW i \in DOMAIN heap', NEW j \in DOMAIN heap', i < j
        PROVE  NotBefore(data'[heap'[i]].tick, data'[heap'[j]].tick)
    BY <2>1, <2>2, <2>3
  <2> QED
    BY <2>3 DEF HeapSorted
<1>12. HeapInWindow'
  BY <1>1, <1>2, <1>4, <1>6 DEF TimerInv, HeapInWindow, InWindow
<1>13. PassIsRecent'
  BY <1>1 DEF TimerInv, PassIsRecent
<1>14. RunningIsDue'
  <2>1. data'[id].tick = data[id].tick
    BY <1>2, <1>4
  <2> QED
    BY <1>1, <1>5, <2>1 DEF RunningIsDue
<1> QED
  BY <1>7, <1>8, <1>9, <1>10, <1>11, <1>12, <1>13, <1>14 DEF TimerInv

\* A removed timer expires and is freed.
LEMMA FreeStep ==
  ASSUME TimerHeapAssumption, TimerInv, timer_do_free
  PROVE  TimerInv'
<1>1. /\ pass # Null /\ running = Null
      /\ heap # <<>>
      /\ data[Next_id].func = Null
      /\ heap' = SubSeq(heap, 1, Len(heap) - 1)
      /\ data' = [data EXCEPT ![Next_id].tick = 0]
      /\ free' = Append(free, Next_id)
      /\ UNCHANGED <<now, num, pass, running, held>>
  BY DEF timer_do_free, Due
<1> DEFINE id == Next_id
<1>2. /\ id \in Ids /\ id < num /\ ~InFree(id)
      /\ heap' \in Seq(Ids)
      /\ \A i \in DOMAIN heap' :
           i \in DOMAIN heap /\ heap'[i] = heap[i] /\ heap'[i] # id
      /\ \A i \in DOMAIN heap : heap[i] = id \/ i \in DOMAIN heap'
  BY <1>1, PopIs
<1>3. TypeOK
  BY DEF TimerInv
<1> HIDE DEF id
<1>4. /\ data' \in [Ids -> TimerData]
      /\ \A x \in Ids : /\ x # id => data'[x] = data[x]
                        /\ data'[x].func = data[x].func
                        /\ data'[x].marked = data[x].marked
  <2>1. data' = [data EXCEPT ![id].tick = 0]
    BY <1>1 DEF id
  <2>2. 0 \in Tick
    BY DEF TimerHeapAssumption, Tick, Wrap
  <2>3. Written(data, [data EXCEPT ![id].tick = 0], id,
                data[id].func, data[id].marked, 0)
    BY <1>2, <1>3, <2>2, WriteTick DEF TypeOK
  <2> QED
    BY <2>1, <2>3 DEF Written
<1>5. data[id].func = Null
  BY <1>1 DEF id
<1>6. /\ free' \in Seq(Ids) /\ Len(free') = Len(free) + 1
      /\ \A i \in 1 .. Len(free) : free'[i] = free[i]
      /\ free'[Len(free) + 1] = id
  <2>1. free \in Seq(Ids) /\ free' = Append(free, id)
    BY <1>1, <1>3 DEF TypeOK, id
  <2> QED
    BY <1>2, <2>1, AppendProperties
<1>7. /\ DOMAIN free = 1 .. Len(free) /\ Len(free) \in Nat
      /\ DOMAIN free' = 1 .. Len(free) + 1
  BY <1>3, <1>6 DEF TypeOK
<1>8. ASSUME NEW i \in DOMAIN free'
      PROVE  \/ i \in DOMAIN free /\ free'[i] = free[i]
             \/ i = Len(free) + 1 /\ free'[i] = id
  BY <1>6, <1>7
<1>9. \A i \in DOMAIN heap : heap[i] \in Ids
  BY ArrayIs
<1>10. TypeOK'
  BY <1>1, <1>2, <1>3, <1>4, <1>6 DEF TypeOK
<1>11. IdsApart'
  <2>1. /\ \A i, j \in DOMAIN heap : heap[i] = heap[j] => i = j
        /\ \A i, j \in DOMAIN free : free[i] = free[j] => i = j
        /\ \A i \in DOMAIN heap : ~InFree(heap[i]) /\ heap[i] < num
        /\ \A i \in DOMAIN free : free[i] < num
    BY DEF TimerInv, IdsApart
  <2>2. \A i \in DOMAIN free : free[i] # id
    BY <1>2 DEF InFree
  <2>3. running' = Null /\ \A x \in Ids : x # running'
    BY <1>1 DEF TimerHeapAssumption
  <2>4. ASSUME NEW i \in DOMAIN free', NEW j \in DOMAIN free', free'[i] = free'[j]
        PROVE  i = j
    BY <1>8, <2>1, <2>2, <2>4
  <2>5. ASSUME NEW i \in DOMAIN heap'
        PROVE  (\A j \in DOMAIN free' : free'[j] # heap'[i]) /\ heap'[i] # running' /\ heap'[i] < num'
    <3>1. heap'[i] = heap[i] /\ i \in DOMAIN heap /\ heap[i] # id /\ heap[i] \in Ids
      BY <1>2, <1>9
    <3>2. \A j \in DOMAIN free : free[j] # heap[i]
      BY <2>1, <3>1 DEF InFree
    <3> QED
      BY <1>1, <1>8, <2>1, <2>3, <3>1, <3>2
  <2>6. ASSUME NEW i \in DOMAIN free' PROVE free'[i] # running' /\ free'[i] < num'
    <3>1. free'[i] \in Ids
      BY <1>6, ElementOfSeq
    <3> QED
      BY <1>1, <1>2, <1>8, <2>1, <2>3, <3>1
  <2>7. \A i, j \in DOMAIN heap' : heap'[i] = heap'[j] => i = j
    BY <1>2, <2>1
  <2> QED
    BY <2>3, <2>4, <2>5, <2>6, <2>7 DEF IdsApart, InFree
<1>12. FuncIsLive'
  <2>1. ASSUME NEW x \in Ids
        PROVE  /\ data'[x].func # Null => InHeap(x)' \/ running' = x
               /\ data'[x].marked = (running' = x /\ data'[x].func # Null)
    <3>1. /\ data[x].func # Null => InHeap(x) \/ running = x
          /\ data[x].marked = (running = x /\ data[x].func # Null)
      BY DEF TimerInv, FuncIsLive
    <3>2. x # id => (InHeap(x) => InHeap(x)')
      BY <1>2 DEF InHeap
    <3> QED
      BY <1>1, <1>4, <1>5, <3>1, <3>2
  <2> QED
    BY <2>1 DEF FuncIsLive
<1>13. HandleIsOwn'
  BY <1>1, <1>3, <1>4 DEF TimerInv, HandleIsOwn, TypeOK
<1>14. HeapSorted'
  <2>1. \A i \in DOMAIN heap' :
          i \in DOMAIN heap /\ data'[heap'[i]].tick = data[heap[i]].tick
    BY <1>2, <1>4, <1>9
  <2>2. \A i, j \in DOMAIN heap :
          i < j => NotBefore(data[heap[i]].tick, data[heap[j]].tick)
    BY DEF TimerInv, HeapSorted
  <2>3. ASSUME NEW i \in DOMAIN heap', NEW j \in DOMAIN heap', i < j
        PROVE  NotBefore(data'[heap'[i]].tick, data'[heap'[j]].tick)
    BY <2>1, <2>2, <2>3
  <2> QED
    BY <2>3 DEF HeapSorted
<1>15. HeapInWindow'
  <2>1. \A i \in DOMAIN heap' : data'[heap'[i]].tick = data[heap[i]].tick
    BY <1>2, <1>4, <1>9
  <2> QED
    BY <1>1, <1>2, <2>1 DEF TimerInv, HeapInWindow, InWindow
<1>16. PassIsRecent' /\ RunningIsDue'
  BY <1>1 DEF TimerInv, PassIsRecent, RunningIsDue
<1> QED
  BY <1>10, <1>11, <1>12, <1>13, <1>14, <1>15, <1>16 DEF TimerInv

\* What is left when the entry that ran is written and not armed again.
LEMMA RestStep ==
  ASSUME TimerHeapAssumption, TimerInv, running # Null, running' = Null,
         Written(data, data', running, Null, FALSE, 0),
         \A o \in Owners : held'[o] = IF held[o] = running THEN Null ELSE held[o],
         held' \in [Owners -> Ids \cup {Null}],
         UNCHANGED <<now, num, heap, free, pass>>
  PROVE  TimerInv'
<1>1. TypeOK /\ running \in Ids
  BY DEF TimerInv, TypeOK
<1>2. /\ data' \in [Ids -> TimerData]
      /\ \A x \in Ids : x # running => data'[x] = data[x]
      /\ data'[running].func = Null /\ data'[running].marked = FALSE
  BY DEF Written
<1>3. \A i \in DOMAIN heap : heap[i] \in Ids /\ heap[i] # running
  BY ArrayIs DEF TimerInv, IdsApart
<1>4. TypeOK'
  BY <1>1, <1>2 DEF TypeOK
<1>5. \A x \in Ids : x # Null
  BY DEF TimerHeapAssumption
<1>6. IdsApart'
  <2>1. \A i \in DOMAIN free : free[i] \in Ids
    BY <1>1, ElementOfSeq DEF TypeOK
  <2> QED
    BY <1>3, <1>5, <2>1 DEF TimerInv, IdsApart, InFree
<1>7. FuncIsLive'
  <2>1. ASSUME NEW x \in Ids
        PROVE  /\ data'[x].func # Null => InHeap(x)' \/ running' = x
               /\ data'[x].marked = (running' = x /\ data'[x].func # Null)
    <3>1. CASE x = running
      BY <1>2, <1>5, <3>1
    <3>2. CASE x # running
      <4>1. /\ data[x].func # Null => InHeap(x)
            /\ data[x].marked = FALSE
        BY <3>2 DEF TimerInv, FuncIsLive
      <4>2. InHeap(x) => InHeap(x)'
        BY DEF InHeap
      <4>3. running' # x
        BY <1>5
      <4> QED
        BY <1>2, <3>2, <4>1, <4>2, <4>3
    <3> QED
      BY <3>1, <3>2
  <2> QED
    BY <2>1 DEF FuncIsLive
<1>8. HandleIsOwn'
  <2>1. ASSUME NEW p \in Owners, held'[p] # Null PROVE data'[held'[p]].func = p
    <3>1. held'[p] = held[p] /\ held[p] # running /\ held[p] \in Ids
      BY <1>1, <2>1 DEF TypeOK
    <3>2. data[held[p]].func = p
      BY <2>1, <3>1 DEF TimerInv, HandleIsOwn
    <3> QED
      BY <1>2, <3>1, <3>2
  <2> QED
    BY <2>1 DEF HandleIsOwn
<1>9. HeapSorted'
  <2>1. \A i \in DOMAIN heap' :
          i \in DOMAIN heap /\ data'[heap'[i]].tick = data[heap[i]].tick
    BY <1>2, <1>3
  <2>2. \A i, j \in DOMAIN heap :
          i < j => NotBefore(data[heap[i]].tick, data[heap[j]].tick)
    BY DEF TimerInv, HeapSorted
  <2>3. ASSUME NEW i \in DOMAIN heap', NEW j \in DOMAIN heap', i < j
        PROVE  NotBefore(data'[heap'[i]].tick, data'[heap'[j]].tick)
    BY <2>1, <2>2, <2>3
  <2> QED
    BY <2>3 DEF HeapSorted
<1>10. HeapInWindow'
  <2>1. \A i \in DOMAIN heap : data'[heap[i]].tick = data[heap[i]].tick
    BY <1>2, <1>3
  <2> QED
    BY <2>1 DEF TimerInv, HeapInWindow, InWindow
<1>11. PassIsRecent' /\ RunningIsDue'
  BY DEF TimerInv, PassIsRecent, RunningIsDue
<1> QED
  BY <1>4, <1>6, <1>7, <1>8, <1>9, <1>10, <1>11 DEF TimerInv

\* The callback wants no more turns.
LEMMA DropStep ==
  ASSUME TimerHeapAssumption, TimerInv, timer_do_drop
  PROVE  TimerInv'
<1>1. /\ running # Null /\ running' = Null
      /\ data' = [removed(running) EXCEPT ![running].tick = 0]
      /\ held' = [o \in Owners |-> IF held[o] = running THEN Null ELSE held[o]]
      /\ UNCHANGED <<now, num, heap, free, pass>>
  BY DEF timer_do_drop
<1>2. TypeOK /\ running \in Ids
  BY <1>1 DEF TimerInv, TypeOK
<1>3. Written(data, data', running, Null, FALSE, 0)
  <2>1. PICK g : g = removed(running)
    OBVIOUS
  <2>2. Written(data, g, running, Null, FALSE, data[running].tick)
    BY <1>2, <2>1, RemovedIs DEF TypeOK
  <2>3. 0 \in Tick
    BY DEF TimerHeapAssumption, Tick, Wrap
  <2>4. g \in [Ids -> TimerData]
    BY <2>2 DEF Written
  <2>5. Written(g, [g EXCEPT ![running].tick = 0], running, g[running].func, g[running].marked, 0)
    BY <1>2, <2>3, <2>4, WriteTick
  <2>6. data' = [g EXCEPT ![running].tick = 0]
    BY <1>1, <2>1
  <2> QED
    BY <2>2, <2>5, <2>6 DEF Written
<1>4. /\ held' \in [Owners -> Ids \cup {Null}]
      /\ \A o \in Owners : held'[o] = IF held[o] = running THEN Null ELSE held[o]
  BY <1>1, <1>2 DEF TypeOK
<1> QED
  BY <1>1, <1>3, <1>4, RestStep

\* The next turn of a timer that ran is in the window.
LEMMA NextTurnIs ==
  ASSUME TimerHeapAssumption, TimerInv, running # Null, data[running].func # Null
  PROVE  next_turn(data[running]) \in Tick /\ InWindow(next_turn(data[running]))
<1> DEFINE t == data[running].tick
           o == data[running].func
<1>1. /\ now \in Tick /\ pass \in Tick /\ pass # Null /\ t \in Tick /\ o \in Owners
  BY DEF TimerInv, TypeOK, RunningIsDue, TimerData
<1>2. DIFF_TICK(t, pass) <= 0 /\ -MaxLag <= DIFF_TICK(pass, now) /\ DIFF_TICK(pass, now) <= 0
  BY <1>1 DEF TimerInv, RunningIsDue, PassIsRecent
<1>3. next_turn(data[running]) = IF DIFF_TICK(t, pass) < -LateMax
                                 THEN Add(pass, Interval[o]) ELSE Add(t, Interval[o])
  BY DEF next_turn
<1> HIDE DEF t, o
<1>4. /\ Half \in Nat \ {0} /\ MaxLag \in Nat /\ LateMax \in Nat /\ MaxLag + LateMax < Half
  BY DEF TimerHeapAssumption
<1>5. DIFF_TICK(t, pass) \in Int /\ DIFF_TICK(pass, now) \in Int
  BY <1>1, <1>4, SeenFrom
<1>6. CASE DIFF_TICK(t, pass) < -LateMax
  <2>1. -MaxLag - LateMax <= DIFF_TICK(pass, now)
    BY <1>2, <1>4, <1>5
  <2>2. Add(pass, Interval[o]) \in Tick /\ InWindow(Add(pass, Interval[o]))
    BY <1>1, <1>2, <2>1, Ahead
  <2> QED
    BY <1>3, <1>6, <2>2
<1>7. CASE ~(DIFF_TICK(t, pass) < -LateMax)
  <2>1. DIFF_TICK(now, now) = 0
    <3>1. now \in Int
      BY <1>1 DEF Tick
    <3>2. DIFF_TICK(now, now) = IF now - now < -Half THEN now - now + Wrap
                                ELSE IF now - now < Half THEN now - now
                                ELSE now - now - Wrap
      BY <1>1, <1>4, DiffIs
    <3> QED
      BY <1>4, <3>1, <3>2
  <2>2. DIFF_TICK(now, pass) = 0 - DIFF_TICK(pass, now)
    <3>1. /\ -Half <= DIFF_TICK(now, now) - DIFF_TICK(pass, now)
          /\ DIFF_TICK(now, now) - DIFF_TICK(pass, now) < Half
      BY <1>2, <1>4, <1>5, <2>1
    <3>2. DIFF_TICK(now, pass) = DIFF_TICK(now, now) - DIFF_TICK(pass, now)
      BY <1>1, <1>4, <3>1, SeenFrom
    <3> QED
      BY <2>1, <3>2
  <2>3. DIFF_TICK(t, now) = DIFF_TICK(t, pass) - DIFF_TICK(now, pass)
    <3>1. /\ -Half <= DIFF_TICK(t, pass) - DIFF_TICK(now, pass)
          /\ DIFF_TICK(t, pass) - DIFF_TICK(now, pass) < Half
      BY <1>2, <1>4, <1>5, <1>7, <2>2
    <3> QED
      BY <1>1, <1>4, <3>1, SeenFrom
  <2>4. -MaxLag - LateMax <= DIFF_TICK(t, now) /\ DIFF_TICK(t, now) <= 0
    BY <1>2, <1>4, <1>5, <1>7, <2>2, <2>3
  <2>5. Add(t, Interval[o]) \in Tick /\ InWindow(Add(t, Interval[o]))
    BY <1>1, <2>4, Ahead
  <2> QED
    BY <1>3, <1>7, <2>5
<1> QED
  BY <1>6, <1>7

\* The callback wants another turn.
LEMMA AgainStep ==
  ASSUME TimerHeapAssumption, TimerInv, timer_do_again
  PROVE  TimerInv'
<1>1. /\ running # Null /\ running' = Null
      /\ IF data[running].marked
         THEN /\ data' = [data EXCEPT ![running].marked = FALSE,
                                      ![running].tick = next_turn(data[running])]
              /\ heap' = push_timer_heap(running, data', heap)
         ELSE data' = [data EXCEPT ![running].tick = 0] /\ UNCHANGED heap
      /\ UNCHANGED <<now, num, free, pass, held>>
  BY DEF timer_do_again
<1>2. TypeOK /\ running \in Ids
  BY <1>1 DEF TimerInv, TypeOK
<1>3. data[running].marked = (data[running].func # Null)
  BY <1>2 DEF TimerInv, FuncIsLive
<1>4. CASE ~data[running].marked
  <2>1. data[running].func = Null /\ data[running].marked = FALSE
    BY <1>3, <1>4
  <2>2. 0 \in Tick
    BY DEF TimerHeapAssumption, Tick, Wrap
  <2>3. Written(data, [data EXCEPT ![running].tick = 0], running,
                data[running].func, data[running].marked, 0)
    BY <1>2, <2>2, WriteTick DEF TypeOK
  <2>4. Written(data, data', running, Null, FALSE, 0)
    BY <1>1, <1>4, <2>1, <2>3
  <2>5. /\ held' \in [Owners -> Ids \cup {Null}]
        /\ \A o \in Owners : held'[o] = IF held[o] = running THEN Null ELSE held[o]
    <3>1. ASSUME NEW o \in Owners PROVE held[o] # running
      <4>1. data[running].func # o /\ running # Null
        BY <1>1, <2>1 DEF TimerHeapAssumption
      <4> QED
        BY <4>1 DEF TimerInv, HandleIsOwn
    <3> QED
      BY <1>1, <1>2, <3>1 DEF TypeOK
  <2> QED
    BY <1>1, <1>4, <2>4, <2>5, RestStep
<1>5. CASE data[running].marked
  <2> DEFINE id == running
             t == next_turn(data[running])
             f == data[running].func
  <2>1. t \in Tick /\ InWindow(t) /\ f # Null
    BY <1>1, <1>3, <1>5, NextTurnIs
  <2>2. /\ now \in Tick /\ heap \in Seq(Ids) /\ data \in [Ids -> TimerData]
        /\ InOrder(heap, data)
        /\ \A i \in DOMAIN heap :
             heap[i] \in Ids /\ data[heap[i]].tick \in Tick /\ InWindow(data[heap[i]].tick)
        /\ \A i, j \in DOMAIN heap : heap[i] = heap[j] => i = j
    BY ArrayIs
  <2>3. /\ data' = [data EXCEPT ![id].marked = FALSE, ![id].tick = t]
        /\ heap' = push_timer_heap(id, data', heap)
    BY <1>1, <1>5
  <2>4. id \in Ids /\ running = id
    BY <1>2
  <2> HIDE DEF id, t, f
  <2>5. /\ data' \in [Ids -> TimerData]
        /\ \A x \in Ids : x # id => data'[x] = data[x]
        /\ data'[id].func = f /\ data'[id].marked = FALSE /\ data'[id].tick = t
    <3> DEFINE g == [data EXCEPT ![id].tick = t]
    <3>1. Written(data, g, id, data[id].func, data[id].marked, t)
      BY <2>1, <2>2, <2>4, WriteTick
    <3>2. data' = [g EXCEPT ![id].marked = FALSE]
      <4>1. data \in [Ids -> TimerData]
        BY <2>2
      <4>2. [data EXCEPT ![id].marked = FALSE, ![id].tick = t]
              = [[data EXCEPT ![id].tick = t] EXCEPT ![id].marked = FALSE]
        BY <2>4, <4>1
      <4> QED
        BY <2>3, <4>2, Zenon
    <3> HIDE DEF g
    <3>3. Written(g, [g EXCEPT ![id].marked = FALSE], id, g[id].func, FALSE, g[id].tick)
      BY <2>4, <3>1, FALSE \in BOOLEAN, WriteMark DEF Written
    <3> QED
      BY <3>1, <3>2, <3>3 DEF Written, f, id
  <2>6. ~InHeap(id)
    BY <2>4 DEF InHeap, TimerInv, IdsApart
  <2>7. \A i \in DOMAIN heap : heap[i] # id /\ data'[heap[i]] = data[heap[i]]
    BY <2>2, <2>5, <2>6 DEF InHeap
  <2>8. InOrder(heap, data')
    BY <2>2, <2>7 DEF InOrder
  <2>9. /\ heap' \in Seq(Ids)
        /\ \A i \in DOMAIN heap' : heap'[i] = id \/ InHeap(heap'[i])
        /\ \E i \in DOMAIN heap' : heap'[i] = id
        /\ \A j \in DOMAIN heap : \E i \in DOMAIN heap' : heap'[i] = heap[j]
        /\ \A i, j \in DOMAIN heap' : heap'[i] = heap'[j] => i = j
        /\ InOrder(heap', data')
    <3>1. PICK d \in [Ids -> TimerData] : d = data'
      BY <2>5
    <3>2. InOrder(heap, d)
      BY <2>8, <3>1
    <3>3. \A i \in DOMAIN heap : InWindow(d[heap[i]].tick)
      BY <2>2, <2>7, <3>1
    <3>4. InWindow(d[id].tick)
      BY <2>1, <2>5, <3>1
    <3>5. heap' = push_timer_heap(id, d, heap)
      BY <2>3, <3>1
    <3>6. /\ push_timer_heap(id, d, heap) \in Seq(Ids)
          /\ \A i \in DOMAIN push_timer_heap(id, d, heap) :
               \/ push_timer_heap(id, d, heap)[i] = id
               \/ InHeap(push_timer_heap(id, d, heap)[i])
          /\ \E i \in DOMAIN push_timer_heap(id, d, heap) :
               push_timer_heap(id, d, heap)[i] = id
          /\ \A j \in DOMAIN heap :
               \E i \in DOMAIN push_timer_heap(id, d, heap) :
                 push_timer_heap(id, d, heap)[i] = heap[j]
          /\ \A i, j \in DOMAIN push_timer_heap(id, d, heap) :
               push_timer_heap(id, d, heap)[i] = push_timer_heap(id, d, heap)[j] => i = j
          /\ InOrder(push_timer_heap(id, d, heap), d)
      BY <2>2, <2>4, <2>6, <3>2, <3>3, <3>4, PushKeeps
    <3> QED
      BY <3>1, <3>5, <3>6
  <2>10. TypeOK'
    BY <1>1, <1>2, <2>5, <2>9 DEF TypeOK
  <2>11. \A x \in Ids : x # Null
    BY DEF TimerHeapAssumption
  <2>12. IdsApart'
    <3>1. /\ \A i \in DOMAIN heap : ~InFree(heap[i]) /\ heap[i] < num
          /\ \A i \in DOMAIN free : free[i] # id /\ free[i] < num
          /\ id < num
          /\ \A i, j \in DOMAIN free : free[i] = free[j] => i = j
      BY <1>1, <2>4 DEF TimerInv, IdsApart
    <3>2. ASSUME NEW i \in DOMAIN heap'
          PROVE  (\A j \in DOMAIN free' : free'[j] # heap'[i]) /\ heap'[i] # running' /\ heap'[i] < num'
      <4>1. heap'[i] # running'
        BY <1>1, <2>9, <2>11, ElementOfSeq
      <4>2. CASE heap'[i] = id
        BY <1>1, <3>1, <4>1, <4>2
      <4>3. CASE InHeap(heap'[i])
        <5>1. PICK j \in DOMAIN heap : heap[j] = heap'[i]
          BY <4>3 DEF InHeap
        <5> QED
          BY <1>1, <3>1, <4>1, <5>1 DEF InFree
      <4> QED
        BY <2>9, <4>2, <4>3
    <3>3. \A i \in DOMAIN free : free[i] # Null
      BY <1>2, <2>11, ElementOfSeq DEF TypeOK
    <3> QED
      BY <1>1, <2>9, <3>1, <3>2, <3>3 DEF IdsApart, InFree
  <2>13. FuncIsLive'
    <3>1. ASSUME NEW x \in Ids
          PROVE  /\ data'[x].func # Null => InHeap(x)' \/ running' = x
                 /\ data'[x].marked = (running' = x /\ data'[x].func # Null)
      <4>1. running' # x
        BY <1>1, <2>11
      <4>2. CASE x = id
        <5>1. InHeap(x)'
          BY <2>9, <4>2 DEF InHeap
        <5> QED
          BY <2>5, <4>1, <4>2, <5>1
      <4>3. CASE x # id
        <5>1. /\ data[x].func # Null => InHeap(x)
              /\ data[x].marked = FALSE
          BY <2>4, <4>3 DEF TimerInv, FuncIsLive
        <5>2. InHeap(x) => InHeap(x)'
          BY <2>9 DEF InHeap
        <5> QED
          BY <2>5, <4>1, <4>3, <5>1, <5>2
      <4> QED
        BY <4>2, <4>3
    <3> QED
      BY <3>1 DEF FuncIsLive
  <2>14. HandleIsOwn'
    <3>1. \A x \in Ids : data'[x].func = data[x].func
      BY <2>4, <2>5 DEF f
    <3> QED
      BY <1>1, <1>2, <3>1 DEF TimerInv, HandleIsOwn, TypeOK
  <2>15. HeapSorted'
    BY <2>9 DEF HeapSorted, InOrder
  <2>16. HeapInWindow'
    <3>1. ASSUME NEW i \in DOMAIN heap'
          PROVE  /\ -Lag < DIFF_TICK(data'[heap'[i]].tick, now')
                 /\ DIFF_TICK(data'[heap'[i]].tick, now') <= Half - Lag
      <4>1. CASE heap'[i] = id
        BY <1>1, <2>1, <2>5, <4>1 DEF InWindow
      <4>2. CASE InHeap(heap'[i])
        <5>1. PICK j \in DOMAIN heap : heap[j] = heap'[i]
          BY <4>2 DEF InHeap
        <5>2. data'[heap'[i]].tick = data[heap[j]].tick /\ InWindow(data[heap[j]].tick)
          BY <2>2, <2>7, <5>1
        <5> QED
          BY <1>1, <5>2 DEF InWindow
      <4> QED
        BY <2>9, <4>1, <4>2
    <3> QED
      BY <3>1 DEF HeapInWindow, InWindow
  <2>17. PassIsRecent' /\ RunningIsDue'
    BY <1>1 DEF TimerInv, PassIsRecent, RunningIsDue
  <2> QED
    BY <2>10, <2>12, <2>13, <2>14, <2>15, <2>16, <2>17 DEF TimerInv
<1> QED
  BY <1>4, <1>5

\* Time passes, and every tick is one nearer or one later.
LEMMA TickStep ==
  ASSUME TimerHeapAssumption, TimerInv, gettick
  PROVE  TimerInv'
<1>1. /\ now' = Add(now, 1)
      /\ \A i \in DOMAIN heap : DIFF_TICK(data[heap[i]].tick, now) > -MaxLag
      /\ pass # Null => DIFF_TICK(pass, now) > -MaxLag
      /\ UNCHANGED <<data, num, heap, free, pass, running, held>>
  BY DEF gettick
<1>2. /\ now \in Tick /\ heap \in Seq(Ids) /\ data \in [Ids -> TimerData]
      /\ \A i \in DOMAIN heap :
           heap[i] \in Ids /\ data[heap[i]].tick \in Tick /\ InWindow(data[heap[i]].tick)
  BY ArrayIs
<1>3. /\ Half \in Nat \ {0} /\ MaxLag \in Nat /\ LateMax \in Nat /\ LateMax > 0
      /\ MaxLag + LateMax < Half
  BY DEF TimerHeapAssumption
<1>4. now' \in Tick
  <2>1. now + 1 \in Int /\ -Wrap <= now + 1 /\ 0 <= now + 1 /\ now + 1 < 2 * Wrap
    BY <1>2, <1>3 DEF Tick, Wrap
  <2>2. now \in Int /\ Wrap \in Int
    BY <1>2, <1>3 DEF Tick, Wrap
  <2>3. (now + 1) % Wrap = IF now + 1 < 0 THEN now + 1 + Wrap
                           ELSE IF now + 1 < Wrap THEN now + 1 ELSE now + 1 - Wrap
    BY <1>3, <2>1, <2>2, Remainder
  <2>4. now' = IF now + 1 < Wrap THEN now + 1 ELSE now + 1 - Wrap
    BY <1>1, <2>1, <2>2, <2>3 DEF Add
  <2> QED
    BY <1>2, <1>3, <2>4 DEF Tick, Wrap
<1>5. TypeOK'
  BY <1>1, <1>4 DEF TimerInv, TypeOK
<1>6. IdsApart' /\ HandleIsOwn' /\ HeapSorted'
  BY <1>1 DEF TimerInv, IdsApart, HandleIsOwn, HeapSorted, InFree
<1>7. FuncIsLive'
  BY <1>1 DEF TimerInv, FuncIsLive, InHeap
<1>8. HeapInWindow'
  <2>1. ASSUME NEW i \in DOMAIN heap
        PROVE  /\ -Lag < DIFF_TICK(data[heap[i]].tick, now')
               /\ DIFF_TICK(data[heap[i]].tick, now') <= Half - Lag
    <3> DEFINE t == data[heap[i]].tick
    <3>1. t \in Tick /\ InWindow(t) /\ DIFF_TICK(t, now) > -MaxLag
      BY <1>1, <1>2
    <3> HIDE DEF t
    <3>2. DIFF_TICK(t, now) \in Int
      BY <1>2, <1>3, <3>1, SeenFrom
    <3>3. -Half < DIFF_TICK(t, now)
      BY <1>3, <3>1, <3>2
    <3>4. DIFF_TICK(t, now') = DIFF_TICK(t, now) - 1
      BY <1>1, <1>2, <1>3, <3>1, <3>3, TickPasses
    <3>5. /\ -Lag < DIFF_TICK(t, now')
          /\ DIFF_TICK(t, now') <= Half - Lag
      BY <1>3, <3>1, <3>2, <3>4 DEF InWindow, Lag
    <3> QED
      BY <3>5 DEF t
  <2> QED
    BY <1>1, <2>1 DEF HeapInWindow, InWindow
<1>9. PassIsRecent'
  <2>1. ASSUME pass # Null
        PROVE  -MaxLag <= DIFF_TICK(pass, now') /\ DIFF_TICK(pass, now') <= 0
    <3>1. pass \in Tick /\ DIFF_TICK(pass, now) > -MaxLag /\ DIFF_TICK(pass, now) <= 0
      BY <1>1, <2>1 DEF TimerInv, TypeOK, PassIsRecent
    <3>2. DIFF_TICK(pass, now) \in Int
      BY <1>2, <1>3, <3>1, SeenFrom
    <3>3. -Half < DIFF_TICK(pass, now)
      BY <1>3, <3>1, <3>2
    <3>4. DIFF_TICK(pass, now') = DIFF_TICK(pass, now) - 1
      BY <1>1, <1>2, <1>3, <3>1, <3>3, TickPasses
    <3> QED
      BY <1>3, <3>1, <3>2, <3>4
  <2> QED
    BY <1>1, <2>1 DEF PassIsRecent
<1>10. RunningIsDue'
  BY <1>1 DEF TimerInv, RunningIsDue
<1> QED
  BY <1>5, <1>6, <1>7, <1>8, <1>9, <1>10 DEF TimerInv

\* Every step keeps the invariant.
LEMMA NextInv ==
  ASSUME TimerHeapAssumption, TimerInv, [Next]_vars
  PROVE  TimerInv'
<1>1. CASE timer_do
  BY <1>1, BeginStep, CallStep, FreeStep, AgainStep, DropStep, EndStep DEF timer_do
<1>2. CASE gettick
  BY <1>2, TickStep
<1>3. ASSUME NEW o \in Owners, timer_insert(o) \/ timer_remove(o) PROVE TimerInv'
  BY <1>3, InsertStep, RemoveStep
<1>4. CASE UNCHANGED vars
  <2>1. /\ UNCHANGED <<now, data, num, heap, free, pass, running, held>>
    BY <1>4 DEF vars
  <2>2. TypeOK' /\ IdsApart' /\ HandleIsOwn' /\ HeapSorted'
    BY <2>1 DEF TimerInv, TypeOK, IdsApart, HandleIsOwn, HeapSorted, InFree
  <2>3. FuncIsLive' /\ HeapInWindow' /\ PassIsRecent' /\ RunningIsDue'
    BY <2>1 DEF TimerInv, FuncIsLive, HeapInWindow, PassIsRecent, RunningIsDue, InHeap, InWindow
  <2> QED
    BY <2>2, <2>3 DEF TimerInv
<1> QED
  BY <1>1, <1>2, <1>3, <1>4 DEF Next

----------------------------------------------------------------------------
(* The theorems.                                                           *)

\* The invariant holds in every state.
LEMMA SpecTimerInv == Spec => []TimerInv
<1>1. TimerHeapAssumption
  BY TimerHeapAssumption
<1>2. Init => TimerInv
  BY <1>1, InitInv
<1>3. TimerInv /\ [Next]_vars => TimerInv'
  BY <1>1, NextInv
<1> QED
  BY <1>2, <1>3, PTL DEF Spec

\* The structures of timer.c keep to their types.
THEOREM SpecTypeOK == Spec => []TypeOK
<1>1. TimerInv => TypeOK
  BY DEF TimerInv
<1> QED
  BY <1>1, SpecTimerInv, PTL

\* An id is in one place at most.
LEMMA PlacesApart ==
  ASSUME TimerHeapAssumption, TimerInv
  PROVE  IdsDisjoint
<1> DEFINE r == IF running = Null THEN <<>> ELSE <<running>>
           n == Len(heap)
           m == Len(free)
           k == Len(r)
           both == heap \o free
           all == both \o r
<1>1. heap \in Seq(Ids) /\ free \in Seq(Ids) /\ running \in Ids \cup {Null}
  BY DEF TimerInv, TypeOK
<1>2. /\ r \in Seq(Ids) /\ k \in {0, 1}
      /\ k = 1 => running # Null /\ r[1] = running
  <2>1. CASE running = Null
    BY <2>1
  <2>2. CASE running # Null
    BY <1>1, <2>2
  <2> QED
    BY <2>1, <2>2
<1>3. n \in Nat /\ m \in Nat /\ DOMAIN heap = 1 .. n /\ DOMAIN free = 1 .. m
  BY <1>1
<1> HIDE DEF r
<1>4. /\ both \in Seq(Ids) /\ Len(both) = n + m
      /\ \A i \in 1 .. n + m : both[i] = IF i <= n THEN heap[i] ELSE free[i - n]
  BY <1>1, ConcatProperties
<1> HIDE DEF both
<1>5. /\ all \in Seq(Ids) /\ Len(all) = Len(both) + k
      /\ \A i \in 1 .. Len(both) + k :
           all[i] = IF i <= Len(both) THEN both[i] ELSE r[i - Len(both)]
  <2>1. both \in Seq(Ids) /\ r \in Seq(Ids)
    BY <1>2, <1>4
  <2> HIDE DEF n, m
  <2> QED
    BY <2>1, ConcatProperties
<1> HIDE DEF all, n, m, k
<1>6. DOMAIN all = 1 .. n + m + k /\ Len(both) = n + m
  BY <1>4, <1>5
<1>7. ASSUME NEW i \in DOMAIN all
      PROVE  \/ i \in 1 .. n /\ all[i] = heap[i]
             \/ i > n /\ i - n \in 1 .. m /\ all[i] = free[i - n]
             \/ i = n + m + 1 /\ k = 1 /\ all[i] = running
  <2>1. i \in 1 .. n + m + k /\ i \in Int
    BY <1>6
  <2>2. all[i] = IF i <= n + m THEN both[i] ELSE r[i - (n + m)]
    BY <1>4, <1>5, <1>6
  <2>3. CASE i <= n
    BY <1>3, <1>4, <2>1, <2>2, <2>3
  <2>4. CASE i > n /\ i <= n + m
    BY <1>3, <1>4, <2>1, <2>2, <2>4
  <2>5. CASE i > n + m
    <3>1. k = 1 /\ i = n + m + 1 /\ i - (n + m) = 1 /\ ~(i <= n + m)
      BY <1>2, <1>3, <2>1, <2>5
    <3> QED
      BY <1>2, <2>2, <3>1
  <2> QED
    BY <1>3, <2>1, <2>3, <2>4, <2>5
<1>8. /\ \A i, j \in 1 .. n : heap[i] = heap[j] => i = j
      /\ \A i, j \in 1 .. m : free[i] = free[j] => i = j
      /\ \A i \in 1 .. n : heap[i] # running /\ \A j \in 1 .. m : heap[i] # free[j]
      /\ \A i \in 1 .. m : free[i] # running
  BY <1>3 DEF TimerInv, IdsApart, InFree
<1>9. ASSUME NEW i \in DOMAIN all, NEW j \in DOMAIN all, all[i] = all[j] PROVE i = j
  <2>1. \/ i \in 1 .. n /\ all[i] = heap[i]
        \/ i > n /\ i - n \in 1 .. m /\ all[i] = free[i - n]
        \/ i = n + m + 1 /\ k = 1 /\ all[i] = running
    BY <1>7
  <2>2. \/ j \in 1 .. n /\ all[j] = heap[j]
        \/ j > n /\ j - n \in 1 .. m /\ all[j] = free[j - n]
        \/ j = n + m + 1 /\ k = 1 /\ all[j] = running
    BY <1>7
  <2>3. i \in Int /\ j \in Int
    BY <1>6
  <2> QED
    BY <1>3, <1>8, <1>9, <2>1, <2>2, <2>3
<1>10. all = heap \o free \o (IF running = Null THEN <<>> ELSE <<running>>)
  BY DEF all, both, r
<1> QED
  BY <1>9, <1>10 DEF IdsDisjoint

\* push_timer_heap and timer_do keep the array in order while the clock wraps,
\* and no id of timer_data is given to two timers.
THEOREM SpecHeapSound == Spec => []HeapSound
<1>1. TimerHeapAssumption
  BY TimerHeapAssumption
<1>2. TimerInv => HeapSound
  BY <1>1, PlacesApart DEF TimerInv, HeapSound
<1> QED
  BY <1>2, SpecTimerInv, PTL

\* What timer_do serves is due, and first.
LEMMA CalledIsFirst ==
  ASSUME TimerHeapAssumption, TimerInv, timer_do_call
  PROVE  /\ NotBefore(now, data[running'].tick)
         /\ \A i \in DOMAIN heap' : NotBefore(data[heap'[i]].tick, data[running'].tick)
<1>1. /\ pass # Null /\ heap # <<>> /\ DIFF_TICK(data[Next_id].tick, pass) <= 0
      /\ heap' = SubSeq(heap, 1, Len(heap) - 1)
      /\ running' = Next_id
  BY DEF timer_do_call, Due
<1> DEFINE t == data[Next_id].tick
<1>2. /\ t \in Tick /\ InWindow(t)
      /\ \A i \in DOMAIN heap' : i \in DOMAIN heap /\ heap'[i] = heap[i] /\ i < Len(heap)
  BY <1>1, PopIs
<1>3. /\ Half \in Nat \ {0} /\ MaxLag \in Nat /\ LateMax \in Nat /\ LateMax > 0
      /\ MaxLag + LateMax < Half
  BY DEF TimerHeapAssumption
<1>4. now \in Tick /\ heap \in Seq(Ids) /\ InOrder(heap, data)
  BY ArrayIs
<1>5. pass \in Tick /\ -MaxLag <= DIFF_TICK(pass, now) /\ DIFF_TICK(pass, now) <= 0
  BY <1>1 DEF TimerInv, TypeOK, PassIsRecent
<1>6. DIFF_TICK(t, pass) <= 0
  BY <1>1
<1>7. Len(heap) \in DOMAIN heap /\ t = data[heap[Len(heap)]].tick
  BY <1>1, <1>4, EmptySeq DEF Next_id
<1> HIDE DEF t
<1>8. /\ DIFF_TICK(t, now) \in Int /\ DIFF_TICK(pass, now) \in Int /\ DIFF_TICK(t, pass) \in Int
  BY <1>2, <1>3, <1>4, <1>5, SeenFrom
<1>9. -Lag < DIFF_TICK(t, now) /\ DIFF_TICK(t, now) <= Half - Lag
  BY <1>2 DEF InWindow
<1>10. DIFF_TICK(t, now) <= 0
  <2>1. /\ -Half <= DIFF_TICK(t, now) - DIFF_TICK(pass, now)
        /\ DIFF_TICK(t, now) - DIFF_TICK(pass, now) < Half
    BY <1>3, <1>5, <1>8, <1>9 DEF Lag
  <2>2. DIFF_TICK(t, pass) = DIFF_TICK(t, now) - DIFF_TICK(pass, now)
    BY <1>2, <1>3, <1>4, <1>5, <2>1, SeenFrom
  <2> QED
    BY <1>5, <1>6, <1>8, <2>2
<1>11. NotBefore(now, t)
  <2>1. DIFF_TICK(now, now) = 0
    <3>1. now \in Int
      BY <1>4 DEF Tick
    <3>2. DIFF_TICK(now, now) = IF now - now < -Half THEN now - now + Wrap
                                ELSE IF now - now < Half THEN now - now
                                ELSE now - now - Wrap
      BY <1>3, <1>4, DiffIs
    <3> QED
      BY <1>3, <3>1, <3>2
  <2>2. /\ -Half < DIFF_TICK(now, now) - DIFF_TICK(t, now)
        /\ DIFF_TICK(now, now) - DIFF_TICK(t, now) < Half
    BY <1>3, <1>8, <1>9, <1>10, <2>1 DEF Lag
  <2>3. NotBefore(now, t) = (DIFF_TICK(now, now) >= DIFF_TICK(t, now))
    BY <1>2, <1>3, <1>4, <2>2, NotBeforeIs
  <2>4. DIFF_TICK(now, now) >= DIFF_TICK(t, now)
    BY <1>8, <1>10, <2>1
  <2> QED
    BY <2>3, <2>4
<1>12. ASSUME NEW i \in DOMAIN heap' PROVE NotBefore(data[heap'[i]].tick, t)
  BY <1>2, <1>4, <1>7 DEF InOrder
<1> QED
  BY <1>1, <1>11, <1>12 DEF t

\* When timer_do ends, nothing that was due when it started is left.
LEMMA NothingLeft ==
  ASSUME TimerHeapAssumption, TimerInv, timer_do_end, NEW i \in DOMAIN heap
  PROVE  ~NotBefore(pass, data[heap[i]].tick)
<1>1. pass # Null /\ ~Due
  BY DEF timer_do_end
<1>2. /\ now \in Tick /\ heap \in Seq(Ids) /\ InOrder(heap, data) /\ data \in [Ids -> TimerData]
      /\ \A j \in DOMAIN heap :
           heap[j] \in Ids /\ data[heap[j]].tick \in Tick /\ InWindow(data[heap[j]].tick)
  BY ArrayIs
<1> DEFINE n == Len(heap)
           t == data[heap[n]].tick
           u == data[heap[i]].tick
<1>3. heap # <<>> /\ DOMAIN heap = 1 .. n /\ n \in 1 .. n /\ i \in 1 .. n /\ i <= n
  BY <1>2
<1>4. ~(DIFF_TICK(t, pass) <= 0)
  BY <1>1, <1>3 DEF Due, Next_id
<1>5. t \in Tick /\ InWindow(t) /\ u \in Tick /\ InWindow(u)
  BY <1>2, <1>3
<1>6. /\ Half \in Nat \ {0} /\ MaxLag \in Nat /\ LateMax \in Nat /\ LateMax > 0
      /\ MaxLag + LateMax < Half
  BY DEF TimerHeapAssumption
<1>7. pass \in Tick /\ -MaxLag <= DIFF_TICK(pass, now) /\ DIFF_TICK(pass, now) <= 0
  BY <1>1 DEF TimerInv, TypeOK, PassIsRecent
<1>8. u = t \/ NotBefore(u, t)
  BY <1>2, <1>3 DEF InOrder
<1> HIDE DEF n, t, u
<1>9. /\ DIFF_TICK(t, now) \in Int /\ DIFF_TICK(u, now) \in Int /\ DIFF_TICK(pass, now) \in Int
      /\ DIFF_TICK(t, pass) \in Int
  BY <1>2, <1>5, <1>6, <1>7, SeenFrom
<1>10. /\ -Lag < DIFF_TICK(t, now) /\ DIFF_TICK(t, now) <= Half - Lag
       /\ -Lag < DIFF_TICK(u, now) /\ DIFF_TICK(u, now) <= Half - Lag
  BY <1>5 DEF InWindow
<1>11. DIFF_TICK(t, now) > DIFF_TICK(pass, now)
  <2>1. /\ -Half <= DIFF_TICK(t, now) - DIFF_TICK(pass, now)
        /\ DIFF_TICK(t, now) - DIFF_TICK(pass, now) < Half
    BY <1>6, <1>7, <1>9, <1>10 DEF Lag
  <2>2. DIFF_TICK(t, pass) = DIFF_TICK(t, now) - DIFF_TICK(pass, now)
    BY <1>2, <1>5, <1>6, <1>7, <2>1, SeenFrom
  <2> QED
    BY <1>4, <1>9, <2>2
<1>12. DIFF_TICK(u, now) >= DIFF_TICK(t, now)
  <2>1. NotBefore(u, t) = (DIFF_TICK(u, now) >= DIFF_TICK(t, now))
    BY <1>2, <1>5, WindowOrder
  <2>2. CASE u = t
    BY <1>9, <2>2
  <2>3. CASE NotBefore(u, t)
    BY <2>1, <2>3
  <2> QED
    BY <1>8, <2>2, <2>3
<1>13. NotBefore(pass, u) = (DIFF_TICK(pass, now) >= DIFF_TICK(u, now))
  <2>1. /\ -Half < DIFF_TICK(pass, now) - DIFF_TICK(u, now)
        /\ DIFF_TICK(pass, now) - DIFF_TICK(u, now) < Half
    BY <1>6, <1>7, <1>9, <1>10 DEF Lag
  <2> QED
    BY <1>2, <1>5, <1>6, <1>7, <2>1, NotBeforeIs
<1>14. ~(DIFF_TICK(pass, now) >= DIFF_TICK(u, now))
  BY <1>9, <1>11, <1>12
<1> QED
  BY <1>13, <1>14 DEF u

\* timer_do runs no timer early and none before one that was due earlier, and
\* leaves none that was due.
THEOREM SpecServedOnTime == Spec => ServedOnTime
<1>1. TimerHeapAssumption
  BY TimerHeapAssumption
<1> DEFINE Called == running' # Null /\ running' # running =>
             /\ NotBefore(now, data[running'].tick)
             /\ \A i \in DOMAIN heap' : NotBefore(data[heap'[i]].tick, data[running'].tick)
           Ended == pass # Null /\ pass' = Null =>
             \A i \in DOMAIN heap : ~NotBefore(pass, data[heap[i]].tick)
<1>2. TimerInv /\ [Next]_vars => Called
  <2>1. SUFFICES ASSUME TimerInv, [Next]_vars, running' # Null, running' # running
                 PROVE  /\ NotBefore(now, data[running'].tick)
                        /\ \A i \in DOMAIN heap' :
                             NotBefore(data[heap'[i]].tick, data[running'].tick)
    OBVIOUS
  <2>2. timer_do_call
    BY <2>1 DEF Next, timer_do, timer_do_begin, timer_do_free, timer_do_again,
       timer_do_drop, timer_do_end, gettick, timer_insert, timer_remove, vars
  <2> QED
    BY <1>1, <2>1, <2>2, CalledIsFirst
<1>3. TimerInv /\ [Next]_vars => Ended
  <2>1. SUFFICES ASSUME TimerInv, [Next]_vars, pass # Null, pass' = Null
                 PROVE  \A i \in DOMAIN heap : ~NotBefore(pass, data[heap[i]].tick)
    OBVIOUS
  <2>2. timer_do_end
    BY <2>1 DEF Next, timer_do, timer_do_begin, timer_do_free, timer_do_again,
       timer_do_drop, timer_do_call, gettick, timer_insert, timer_remove, vars
  <2> QED
    BY <1>1, <2>1, <2>2, NothingLeft
<1> HIDE DEF Called, Ended
<1>4. Spec => [][Called]_vars /\ [][Ended]_vars
  BY <1>2, <1>3, SpecTimerInv, PTL DEF Spec
<1> QED
  BY <1>4 DEF ServedOnTime, CallbackOnTime, NothingDueLeft, Called, Ended
=============================================================================
