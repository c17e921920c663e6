----------------------------- MODULE BankProofs -----------------------------
(***************************************************************************)
(* Banks and parcels keep the goods, for any players, kinds, marks, sizes  *)
(* of bags, banks and stacks, and amounts.                                 *)
(*                                                                         *)
(* The invariant (BankIInv) says that a bank has no gaps and one slot for  *)
(* a kind and mark (Ordered), so that a withdrawal empties the slot that   *)
(* it names; that a dialog knows a slot that is there (TalkFits); and that *)
(* while a parcel is posted its player keeps what it sends (PostFits).  A  *)
(* step that changes the sum around one player does so only with a fault   *)
(* (BankFits), and nobody else's part.  What sums and folds become when    *)
(* one of their terms changes is in MapPartsProofs.                        *)
(***************************************************************************)
EXTENDS Bank, MapPartsProofs

----------------------------------------------------------------------------
(* The bank: slots.                                                        *)

\* The sum of the bank is the sum above.
LEMMA TotalIs == ASSUME NEW f PROVE Total(f) = SumOf(f, DOMAIN f)
BY DEF Total, FoldFunction, FoldFunctionOnSet, MapThenFoldSet, SumOf, Sums

\* What a slot has of a kind, and what it has of it without a mark.
OfKind(s, k) == IF s.id = k THEN s.amount ELSE 0
OfPlain(s, k) == IF Same(s, k, Plain) THEN s.amount ELSE 0
KindAt(b, k) == [i \in DOMAIN b |-> OfKind(b[i], k)]
PlainAt(b, k) == [i \in DOMAIN b |-> OfPlain(b[i], k)]

\* What a bag is.
LEMMA LotBagsAre ==
  ASSUME NEW b \in LotBags
  PROVE  /\ b \in Seq(Lots) /\ DOMAIN b = 1..Len(b) /\ Len(b) \in Nat
         /\ \A i \in DOMAIN b :
              /\ b[i] \in Lots /\ b[i].id \in Goods \cup {NoGood}
              /\ b[i].mark \in Marks /\ b[i].amount \in Nat
              /\ (b[i].id = NoGood) <=> (b[i].amount = 0)
<1>1. PICK R : R = Lots
  OBVIOUS
<1>2. b \in Seq(R) /\ \A i \in DOMAIN b : (b[i].id = NoGood) <=> (b[i].amount = 0)
  BY <1>1 DEF LotBags
<1>3. DOMAIN b = 1..Len(b) /\ Len(b) \in Nat /\ \A i \in DOMAIN b : b[i] \in R
  BY <1>2
<1>4. \A i \in DOMAIN b : /\ b[i].id \in Goods \cup {NoGood}
                          /\ b[i].mark \in Marks /\ b[i].amount \in Nat
  BY <1>1, <1>3 DEF Lots
<1>. QED  BY <1>1, <1>2, <1>3, <1>4

\* The amounts of a bag are the sums of what is in its slots.
LEMMA CountsAre ==
  ASSUME NEW b \in LotBags, NEW k
  PROVE  /\ IsFiniteSet(DOMAIN b)
         /\ Amounts(KindAt(b, k), DOMAIN b) /\ Amounts(PlainAt(b, k), DOMAIN b)
         /\ AmountIn(b, k) = SumOf(KindAt(b, k), DOMAIN b) /\ AmountIn(b, k) \in Nat
         /\ PlainAmount(b, k) = SumOf(PlainAt(b, k), DOMAIN b) /\ PlainAmount(b, k) \in Nat
<1>1. /\ DOMAIN b = 1..Len(b) /\ Len(b) \in Nat
      /\ \A i \in DOMAIN b : b[i].amount \in Nat
  BY LotBagsAre
<1>2. IsFiniteSet(DOMAIN b)
  BY <1>1, FS_Interval
<1>3. Amounts(KindAt(b, k), DOMAIN b)
  BY <1>1 DEF Amounts, KindAt, OfKind
<1>4. Amounts(PlainAt(b, k), DOMAIN b)
  BY <1>1 DEF Amounts, PlainAt, OfPlain
<1>5. AmountIn(b, k) = SumOf(KindAt(b, k), DOMAIN b)
  <2>1. AmountIn(b, k) = Total(KindAt(b, k)) /\ DOMAIN KindAt(b, k) = DOMAIN b
    BY DEF AmountIn, KindAt, OfKind
  <2>. QED  BY <2>1, TotalIs
<1>6. PlainAmount(b, k) = SumOf(PlainAt(b, k), DOMAIN b)
  <2>1. PlainAmount(b, k) = Total(PlainAt(b, k)) /\ DOMAIN PlainAt(b, k) = DOMAIN b
    BY DEF PlainAmount, PlainAt, OfPlain
  <2>. QED  BY <2>1, TotalIs
<1>7. SumOf(KindAt(b, k), DOMAIN b) \in Nat /\ SumOf(PlainAt(b, k), DOMAIN b) \in Nat
  BY <1>2, <1>3, <1>4, SumSplit
<1>. QED  BY <1>2, <1>3, <1>4, <1>5, <1>6, <1>7

\* new is b with x in slot i.
LotSet(b, i, x, new) == new = [b EXCEPT ![i] = x]
LotChanges(b, i, x, new) ==
  /\ new \in LotBags /\ Len(new) = Len(b) /\ DOMAIN new = DOMAIN b
  /\ new[i] = x /\ \A j \in DOMAIN b \ {i} : new[j] = b[j]
  /\ \A k : /\ OfKind(b[i], k) \in Nat /\ OfKind(x, k) \in Nat
            /\ AmountIn(b, k) \in Nat /\ AmountIn(new, k) \in Nat
            /\ AmountIn(new, k) + OfKind(b[i], k) = AmountIn(b, k) + OfKind(x, k)
  /\ \A k : /\ OfPlain(b[i], k) \in Nat /\ OfPlain(x, k) \in Nat
            /\ PlainAmount(b, k) \in Nat /\ PlainAmount(new, k) \in Nat
            /\ PlainAmount(new, k) + OfPlain(b[i], k) = PlainAmount(b, k) + OfPlain(x, k)

\* Changing a slot changes the amounts by what it gains and loses.
LEMMA LotChange ==
  ASSUME NEW b \in LotBags, NEW i \in DOMAIN b, NEW x \in Lots,
         (x.id = NoGood) <=> (x.amount = 0),
         NEW new, LotSet(b, i, x, new)
  PROVE  LotChanges(b, i, x, new)
<1>1. b \in Seq(Lots) /\ new = [b EXCEPT ![i] = x]
  BY LotBagsAre DEF LotSet
<1>2. /\ new \in Seq(Lots) /\ Len(new) = Len(b) /\ DOMAIN new = DOMAIN b
      /\ new[i] = x /\ \A j \in DOMAIN b \ {i} : new[j] = b[j]
  BY <1>1
<1>3. new \in LotBags
  <2>1. \A j \in DOMAIN new : (new[j].id = NoGood) <=> (new[j].amount = 0)
    BY <1>2, LotBagsAre
  <2>. QED  BY <1>2, <2>1 DEF LotBags
<1>4. ASSUME NEW k
      PROVE  /\ OfKind(b[i], k) \in Nat /\ OfKind(x, k) \in Nat
             /\ AmountIn(b, k) \in Nat /\ AmountIn(new, k) \in Nat
             /\ AmountIn(new, k) + OfKind(b[i], k) = AmountIn(b, k) + OfKind(x, k)
  <2>1. /\ IsFiniteSet(DOMAIN b)
        /\ Amounts(KindAt(b, k), DOMAIN b) /\ Amounts(KindAt(new, k), DOMAIN b)
        /\ AmountIn(b, k) = SumOf(KindAt(b, k), DOMAIN b) /\ AmountIn(b, k) \in Nat
        /\ AmountIn(new, k) = SumOf(KindAt(new, k), DOMAIN b) /\ AmountIn(new, k) \in Nat
    BY <1>2, <1>3, CountsAre
  <2>2. \A j \in DOMAIN b \ {i} : KindAt(new, k)[j] = KindAt(b, k)[j]
    BY <1>2 DEF KindAt
  <2>3. KindAt(new, k)[i] = OfKind(x, k) /\ KindAt(b, k)[i] = OfKind(b[i], k)
    BY <1>2 DEF KindAt
  <2>4. /\ KindAt(new, k)[i] \in Nat /\ KindAt(b, k)[i] \in Nat
        /\ SumOf(KindAt(new, k), DOMAIN b) + KindAt(b, k)[i]
             = SumOf(KindAt(b, k), DOMAIN b) + KindAt(new, k)[i]
    BY <2>1, <2>2, SumChange
  <2>. QED  BY <2>1, <2>3, <2>4
<1>5. ASSUME NEW k
      PROVE  /\ OfPlain(b[i], k) \in Nat /\ OfPlain(x, k) \in Nat
             /\ PlainAmount(b, k) \in Nat /\ PlainAmount(new, k) \in Nat
             /\ PlainAmount(new, k) + OfPlain(b[i], k) = PlainAmount(b, k) + OfPlain(x, k)
  <2>1. /\ IsFiniteSet(DOMAIN b)
        /\ Amounts(PlainAt(b, k), DOMAIN b) /\ Amounts(PlainAt(new, k), DOMAIN b)
        /\ PlainAmount(b, k) = SumOf(PlainAt(b, k), DOMAIN b) /\ PlainAmount(b, k) \in Nat
        /\ PlainAmount(new, k) = SumOf(PlainAt(new, k), DOMAIN b) /\ PlainAmount(new, k) \in Nat
    BY <1>2, <1>3, CountsAre
  <2>2. \A j \in DOMAIN b \ {i} : PlainAt(new, k)[j] = PlainAt(b, k)[j]
    BY <1>2 DEF PlainAt
  <2>3. PlainAt(new, k)[i] = OfPlain(x, k) /\ PlainAt(b, k)[i] = OfPlain(b[i], k)
    BY <1>2 DEF PlainAt
  <2>4. /\ PlainAt(new, k)[i] \in Nat /\ PlainAt(b, k)[i] \in Nat
        /\ SumOf(PlainAt(new, k), DOMAIN b) + PlainAt(b, k)[i]
             = SumOf(PlainAt(b, k), DOMAIN b) + PlainAt(new, k)[i]
    BY <2>1, <2>2, SumChange
  <2>. QED  BY <2>1, <2>3, <2>4
<1>. QED  BY <1>2, <1>3, <1>4, <1>5 DEF LotChanges

\* What n units less in slot i come to.
Lesser(b, i, n, new) ==
  LET m == IF b[i].amount < n THEN b[i].amount ELSE n IN
  /\ new \in LotBags /\ Len(new) = Len(b) /\ DOMAIN new = DOMAIN b
  /\ \A j \in DOMAIN b \ {i} : new[j] = b[j]
  /\ b[i].amount <= n => new[i].id = NoGood
  /\ \A k \in Goods :
       /\ AmountIn(b, k) \in Nat /\ AmountIn(new, k) \in Nat
       /\ AmountIn(new, k) + (IF b[i].id = k THEN m ELSE 0) = AmountIn(b, k)
       /\ PlainAmount(b, k) \in Nat /\ PlainAmount(new, k) \in Nat
       /\ PlainAmount(new, k) + (IF Same(b[i], k, Plain) THEN m ELSE 0) = PlainAmount(b, k)

\* Units are taken from one slot, as many as it has.
LEMMA LessIs ==
  ASSUME NEW b \in LotBags, NEW i \in DOMAIN b, NEW n \in Nat
  PROVE  Lesser(b, i, n, Less(b, i, n))
<1>1. PICK s : s = b[i]
  OBVIOUS
<1>2. /\ s \in Lots /\ s.id \in Goods \cup {NoGood} /\ s.mark \in Marks /\ s.amount \in Nat
      /\ (s.id = NoGood) <=> (s.amount = 0)
  BY <1>1, LotBagsAre
<1>3. PICK x : x = IF s.amount <= n THEN NoLot
                   ELSE [id |-> s.id, mark |-> s.mark, amount |-> s.amount - n]
  OBVIOUS
<1>4. PICK new : new = Less(b, i, n)
  OBVIOUS
<1>5. LotSet(b, i, x, new)
  BY <1>1, <1>3, <1>4 DEF Less, LotSet
<1>6. /\ x \in Lots
      /\ s.amount <= n => x.id = NoGood /\ x.amount = 0
      /\ ~(s.amount <= n) => x.id = s.id /\ x.mark = s.mark /\ x.amount = s.amount - n
  <2>1. CASE s.amount <= n
    BY <1>3, <2>1, BankAssumption DEF NoLot, Lots
  <2>2. CASE ~(s.amount <= n)
    BY <1>2, <1>3, <2>2 DEF Lots
  <2>. QED  BY <2>1, <2>2
<1>7. (x.id = NoGood) <=> (x.amount = 0)
  BY <1>2, <1>6
<1>8. LotChanges(b, i, x, new)
  BY <1>5, <1>6, <1>7, LotChange
<1>9. PICK m : m = IF s.amount < n THEN s.amount ELSE n
  OBVIOUS
<1>10. ASSUME NEW k \in Goods
       PROVE  /\ OfKind(s, k) = IF s.id = k THEN s.amount ELSE 0
              /\ OfKind(x, k) = IF s.id = k THEN s.amount - m ELSE 0
              /\ OfPlain(s, k) = IF Same(s, k, Plain) THEN s.amount ELSE 0
              /\ OfPlain(x, k) = IF Same(s, k, Plain) THEN s.amount - m ELSE 0
  <2>1. CASE s.amount <= n
    <3>1. s.amount - m = 0
      BY <1>2, <1>9, <2>1
    <3>2. x.id # k
      BY <1>6, <2>1, BankAssumption
    <3>. QED  BY <3>1, <3>2 DEF OfKind, OfPlain, Same
  <2>2. CASE ~(s.amount <= n)
    <3>1. m = n
      BY <1>2, <1>9, <2>2
    <3>. QED  BY <1>6, <2>2, <3>1 DEF OfKind, OfPlain, Same
  <2>. QED  BY <2>1, <2>2
<1>11. m \in Nat /\ m <= s.amount
  BY <1>2, <1>9
<1>12. ASSUME NEW k \in Goods
       PROVE  /\ AmountIn(b, k) \in Nat /\ AmountIn(new, k) \in Nat
              /\ AmountIn(new, k) + (IF s.id = k THEN m ELSE 0) = AmountIn(b, k)
  <2>1. PICK u, v : u = AmountIn(b, k) /\ v = AmountIn(new, k)
    OBVIOUS
  <2>2. u \in Nat /\ v \in Nat /\ v + OfKind(s, k) = u + OfKind(x, k)
    BY <1>1, <1>8, <2>1 DEF LotChanges
  <2>3. v + (IF s.id = k THEN m ELSE 0) = u
    <3>1. CASE s.id = k
      <4>1. v + s.amount = u + (s.amount - m)
        BY <1>10, <2>2, <3>1
      <4>. QED  BY <1>2, <1>11, <2>2, <3>1, <4>1
    <3>2. CASE s.id # k
      BY <1>10, <2>2, <3>2
    <3>. QED  BY <3>1, <3>2
  <2>. QED  BY <2>1, <2>2, <2>3
<1>13. ASSUME NEW k \in Goods
       PROVE  /\ PlainAmount(b, k) \in Nat /\ PlainAmount(new, k) \in Nat
              /\ PlainAmount(new, k) + (IF Same(s, k, Plain) THEN m ELSE 0) = PlainAmount(b, k)
  <2>1. PICK u, v : u = PlainAmount(b, k) /\ v = PlainAmount(new, k)
    OBVIOUS
  <2>2. u \in Nat /\ v \in Nat /\ v + OfPlain(s, k) = u + OfPlain(x, k)
    BY <1>1, <1>8, <2>1 DEF LotChanges
  <2>3. v + (IF Same(s, k, Plain) THEN m ELSE 0) = u
    <3>1. CASE Same(s, k, Plain)
      <4>1. v + s.amount = u + (s.amount - m)
        BY <1>10, <2>2, <3>1
      <4>. QED  BY <1>2, <1>11, <2>2, <3>1, <4>1
    <3>2. CASE ~Same(s, k, Plain)
      BY <1>10, <2>2, <3>2
    <3>. QED  BY <3>1, <3>2
  <2>. QED  BY <2>1, <2>2, <2>3
<1>14. /\ new \in LotBags /\ Len(new) = Len(b) /\ DOMAIN new = DOMAIN b
       /\ \A j \in DOMAIN b \ {i} : new[j] = b[j]
       /\ s.amount <= n => new[i].id = NoGood
  BY <1>6, <1>8 DEF LotChanges
<1>. QED  BY <1>1, <1>4, <1>9, <1>12, <1>13, <1>14 DEF Lesser

----------------------------------------------------------------------------
(* The bank: taking and adding.                                            *)

\* While n units of a kind are taken from bag b.
Takings(b, k, n) ==
  {f \in [b : LotBags, left : Nat] :
     /\ Len(f.b) = Len(b) /\ f.left <= n
     /\ \A g \in Goods :
          AmountIn(f.b, g) + (IF g = k THEN n - f.left ELSE 0) = AmountIn(b, g)
     /\ PlainAmount(f.b, k) + (n - f.left) = PlainAmount(b, k)}

\* No slot up to i has any left to take.
TakenTo(f, k, i) ==
  f.left # 0 => \A j \in 1..i : j \in DOMAIN f.b => ~Same(f.b[j], k, Plain)

\* A slot that is taken from has none left, or nothing is left to take.
LEMMA TakeAtKeeps ==
  ASSUME NEW b \in LotBags, NEW k \in Goods, NEW n \in Nat, NEW f \in Takings(b, k, n),
         NEW i \in DOMAIN f.b, Same(f.b[i], k, Plain)
  PROVE  /\ TakeAt(f, i) \in Takings(b, k, n)
         /\ TakeAt(f, i).left # 0 => ~Same(TakeAt(f, i).b[i], k, Plain)
         /\ TakeAt(f, i).left # 0 => f.left # 0
         /\ \A j \in DOMAIN f.b \ {i} : TakeAt(f, i).b[j] = f.b[j]
         /\ DOMAIN TakeAt(f, i).b = DOMAIN f.b
<1>1. PICK c, l : c = f.b /\ l = f.left
  OBVIOUS
<1>2. /\ c \in LotBags /\ l \in Nat /\ Len(c) = Len(b) /\ l <= n
      /\ \A g \in Goods : AmountIn(c, g) + (IF g = k THEN n - l ELSE 0) = AmountIn(b, g)
      /\ PlainAmount(c, k) + (n - l) = PlainAmount(b, k)
  BY <1>1 DEF Takings
<1>3. PICK a \in Nat : a = c[i].amount
  BY <1>1, <1>2, LotBagsAre
<1>4. PICK m : m = IF a < l THEN a ELSE l
  OBVIOUS
<1>5. m \in Nat /\ m <= l /\ m <= a
  BY <1>2, <1>4
<1>6. PICK new : new = Less(c, i, m)
  OBVIOUS
<1>7. Lesser(c, i, m, new)
  BY <1>1, <1>2, <1>5, <1>6, LessIs
<1>8. (IF c[i].amount < m THEN c[i].amount ELSE m) = m
  BY <1>3, <1>5
<1>9. c[i].id = k /\ Same(c[i], k, Plain)
  BY <1>1 DEF Same
<1>10. /\ new \in LotBags /\ Len(new) = Len(c) /\ DOMAIN new = DOMAIN c
       /\ \A j \in DOMAIN c \ {i} : new[j] = c[j]
       /\ a <= m => new[i].id = NoGood
       /\ \A g \in Goods :
            /\ AmountIn(c, g) \in Nat /\ AmountIn(new, g) \in Nat
            /\ AmountIn(new, g) + (IF k = g THEN m ELSE 0) = AmountIn(c, g)
       /\ PlainAmount(c, k) \in Nat /\ PlainAmount(new, k) \in Nat
       /\ PlainAmount(new, k) + m = PlainAmount(c, k)
  BY <1>3, <1>7, <1>8, <1>9 DEF Lesser
<1>11. PICK r : r = [b |-> new, left |-> l - m]
  OBVIOUS
<1>12. TakeAt(f, i) = r
  BY <1>1, <1>3, <1>4, <1>6, <1>11 DEF TakeAt
<1>13. r.b = new /\ r.left = l - m /\ l - m \in Nat /\ r \in [b : LotBags, left : Nat]
  BY <1>2, <1>5, <1>10, <1>11
<1>14. ASSUME NEW g \in Goods
       PROVE  AmountIn(new, g) + (IF g = k THEN n - (l - m) ELSE 0) = AmountIn(b, g)
  <2>1. PICK u, v, w : u = AmountIn(c, g) /\ v = AmountIn(new, g) /\ w = AmountIn(b, g)
    OBVIOUS
  <2>2. /\ u \in Nat /\ v \in Nat /\ v + (IF k = g THEN m ELSE 0) = u
        /\ u + (IF g = k THEN n - l ELSE 0) = w
    BY <1>2, <1>10, <2>1
  <2>3. CASE g = k
    BY <1>2, <1>5, <2>1, <2>2, <2>3
  <2>4. CASE g # k
    BY <2>1, <2>2, <2>4
  <2>. QED  BY <2>3, <2>4
<1>15. PlainAmount(new, k) + (n - (l - m)) = PlainAmount(b, k)
  <2>1. PICK u, v, w : u = PlainAmount(c, k) /\ v = PlainAmount(new, k) /\ w = PlainAmount(b, k)
    OBVIOUS
  <2>2. u \in Nat /\ v \in Nat /\ v + m = u /\ u + (n - l) = w
    BY <1>2, <1>10, <2>1
  <2>. QED  BY <1>2, <1>5, <2>1, <2>2
<1>16. r \in Takings(b, k, n)
  <2>1. Len(r.b) = Len(b) /\ r.left <= n
    <3>1. Len(new) = Len(b)
      BY <1>2, <1>10
    <3>2. n \in Nat /\ l \in Nat /\ l - m <= n
      BY <1>2, <1>5
    <3>. QED  BY <1>13, <3>1, <3>2
  <2>2. \A g \in Goods :
          AmountIn(r.b, g) + (IF g = k THEN n - r.left ELSE 0) = AmountIn(b, g)
    BY <1>13, <1>14
  <2>3. PlainAmount(r.b, k) + (n - r.left) = PlainAmount(b, k)
    BY <1>13, <1>15
  <2>. QED  BY <1>13, <2>1, <2>2, <2>3 DEF Takings
<1>17. l - m # 0 => a <= m /\ l # 0
  <2>1. m = a \/ (m = l /\ l - m = 0)
    BY <1>2, <1>3, <1>4
  <2>2. a <= a /\ (l = 0 => l - m = 0 \/ ~(m <= l))
    BY <1>2, <1>3, <1>5
  <2>. QED  BY <1>5, <2>1, <2>2
<1>18. l - m # 0 => ~Same(new[i], k, Plain)
  BY <1>10, <1>17, BankAssumption DEF Same
<1>. QED  BY <1>1, <1>10, <1>12, <1>13, <1>16, <1>17, <1>18

\* What taking from all slots, or from those that are not full, comes to.
LEMMA TakeFromIs ==
  ASSUME NEW b \in LotBags, NEW k \in Goods, NEW n \in Nat, NEW f \in Takings(b, k, n),
         NEW full \in BOOLEAN
  PROVE  /\ TakeFrom(f, k, full) \in Takings(b, k, n)
         /\ full => TakenTo(TakeFrom(f, k, full), k, Len(b))
<1>1. PICK len \in Nat : len = Len(b) /\ DOMAIN f.b = 1..len
  BY LotBagsAre DEF Takings
<1> DEFINE V == Takings(b, k, n)
           Step(g, i) == IF Same(g.b[i], k, Plain) /\ (full \/ g.b[i].amount < maxAmount[k])
                         THEN TakeAt(g, i) ELSE g
           F == [i \in 1..len |-> [g \in V |-> Step(g, i)]]
           Eq(g) == g = [s \in SUBSET (1..len) |->
                           IF s = {} THEN f ELSE Step(g[s \ {Max(s)}], Max(s))]
<1>2. TakeFrom(f, k, full) = (CHOOSE g : Eq(g))[1..len]
  <2> DEFINE seq == [x \in 1..len |-> x]
             Eq0(g) == g = [s \in SUBSET (1..len) |->
                              IF s = {} THEN f
                              ELSE Step(g[s \ {Max(s)}], seq[Max(s)])]
  <2>1. \A s \in SUBSET (1..len) : s # {} => seq[Max(s)] = Max(s)
    BY GreatestIsThere
  <2>2. TakeFrom(f, k, full) = (CHOOSE g : Eq0(g))[1..len]
    <3>1. DOMAIN seq = 1..len
      OBVIOUS
    <3>. QED  BY <1>1, <3>1 DEF TakeFrom, FoldLeft, MapThenFoldSet
  <2>3. \A g : Eq0(g) <=> Eq(g)
    <3>. HIDE DEF Step, seq
    <3>1. ASSUME NEW g
          PROVE  [s \in SUBSET (1..len) |->
                    IF s = {} THEN f ELSE Step(g[s \ {Max(s)}], seq[Max(s)])]
                   = [s \in SUBSET (1..len) |->
                        IF s = {} THEN f ELSE Step(g[s \ {Max(s)}], Max(s))]
      BY <2>1
    <3>. QED  BY <3>1
  <2>. HIDE DEF Eq0, Eq
  <2>. QED  BY <2>2, <2>3, Zenon
<1>3. ASSUME NEW i \in 1..len, NEW g \in V
      PROVE  /\ Step(g, i) \in V
             /\ full /\ TakenTo(g, k, i - 1) => TakenTo(Step(g, i), k, i)
  <2>1. g.b \in LotBags /\ DOMAIN g.b = 1..len
    BY <1>1, LotBagsAre DEF Takings
  <2>2. CASE Same(g.b[i], k, Plain) /\ (full \/ g.b[i].amount < maxAmount[k])
    <3>1. PICK h : h = TakeAt(g, i)
      OBVIOUS
    <3>2. /\ h \in V
          /\ h.left # 0 => ~Same(h.b[i], k, Plain)
          /\ h.left # 0 => g.left # 0
          /\ \A j \in DOMAIN g.b \ {i} : h.b[j] = g.b[j]
          /\ DOMAIN h.b = DOMAIN g.b
      BY <2>1, <2>2, <3>1, TakeAtKeeps
    <3>3. ASSUME TakenTo(g, k, i - 1), h.left # 0, NEW j \in 1..i
          PROVE  ~Same(h.b[j], k, Plain)
      <4>1. CASE j = i
        BY <3>2, <3>3, <4>1
      <4>2. CASE j # i
        <5>1. j \in 1..i - 1 /\ j \in DOMAIN g.b /\ h.b[j] = g.b[j]
          BY <1>1, <2>1, <3>2, <4>2
        <5>2. ~Same(g.b[j], k, Plain)
          BY <3>2, <3>3, <5>1 DEF TakenTo
        <5>. QED  BY <5>1, <5>2
      <4>. QED  BY <4>1, <4>2
    <3>4. TakenTo(g, k, i - 1) => TakenTo(h, k, i)
      BY <3>3 DEF TakenTo
    <3>. QED  BY <2>2, <3>1, <3>2, <3>4
  <2>3. CASE ~(Same(g.b[i], k, Plain) /\ (full \/ g.b[i].amount < maxAmount[k]))
    <3>1. Step(g, i) = g
      BY <2>3
    <3>2. full => ~Same(g.b[i], k, Plain)
      BY <2>3
    <3>3. ASSUME full, TakenTo(g, k, i - 1), g.left # 0, NEW j \in 1..i, j \in DOMAIN g.b
          PROVE  ~Same(g.b[j], k, Plain)
      <4>1. CASE j = i
        BY <3>2, <3>3, <4>1
      <4>2. CASE j # i
        BY <3>3, <4>2 DEF TakenTo
      <4>. QED  BY <4>1, <4>2
    <3>4. full /\ TakenTo(g, k, i - 1) => TakenTo(g, k, i)
      BY <3>3 DEF TakenTo
    <3>. HIDE DEF Step
    <3>. QED  BY <3>1, <3>4
  <2>. QED  BY <2>2, <2>3
<1>4. \A i \in 1..len : \A g \in V : F[i][g] = Step(g, i) /\ F[i][g] \in V
  BY <1>3
<1>. HIDE DEF V, F, Step
<1>5. PICK h \in [SUBSET (1..len) -> V] : Folded(len, F, f, h)
  BY <1>4, FoldExists DEF V
<1>6. Eq(h)
  <2>1. ASSUME NEW s \in SUBSET (1..len)
        PROVE  h[s] = IF s = {} THEN f ELSE Step(h[s \ {Max(s)}], Max(s))
    <3>1. CASE s = {}
      BY <1>5, <3>1 DEF Folded
    <3>2. CASE s # {}
      <4>1. Max(s) \in 1..len /\ h[s \ {Max(s)}] \in V
        BY <1>5, <3>2, GreatestIsThere
      <4>2. h[s] = F[Max(s)][h[s \ {Max(s)}]]
        BY <1>5, <3>2 DEF Folded
      <4>. QED  BY <1>4, <3>2, <4>1, <4>2
    <3>. QED  BY <3>1, <3>2
  <2>. QED  BY <1>5, <2>1
<1>7. PICK g : g = (CHOOSE e : Eq(e)) /\ Eq(g)
  BY <1>6
<1>8. Climbs(len, V, F, f, g)
  <2>1. ASSUME NEW s \in SUBSET (1..len), s # {}, g[s \ {Max(s)}] \in V
        PROVE  g[s] = F[Max(s)][g[s \ {Max(s)}]]
    <3>1. Max(s) \in 1..len
      BY <2>1, GreatestIsThere
    <3>2. g[s] = Step(g[s \ {Max(s)}], Max(s))
      BY <1>7, <2>1
    <3>. QED  BY <1>4, <2>1, <3>1, <3>2
  <2>2. \A s \in SUBSET (1..len) : s = {} => g[s] = f
    BY <1>7
  <2>. QED  BY <2>1, <2>2 DEF Climbs
<1>9. PICK W : W = [i \in 0..len |-> {e \in V : full => TakenTo(e, k, i)}]
  OBVIOUS
<1>10. g[1..len] \in W[len]
  <2>1. f \in W[0]
    <3>1. TakenTo(f, k, 0)
      BY DEF TakenTo
    <3>. QED  BY <1>9, <3>1 DEF V
  <2>2. \A i \in 0..len : W[i] \subseteq V
    BY <1>9
  <2>3. ASSUME NEW i \in 1..len, NEW v \in W[i - 1] PROVE F[i][v] \in W[i]
    <3>1. i - 1 \in 0..len /\ i \in 0..len
      OBVIOUS
    <3>2. v \in V /\ (full => TakenTo(v, k, i - 1))
      BY <1>9, <3>1
    <3>3. PICK e : e = F[i][v]
      OBVIOUS
    <3>4. e \in V /\ (full => TakenTo(e, k, i))
      BY <1>3, <1>4, <3>2, <3>3
    <3>. QED  BY <1>9, <3>1, <3>3, <3>4
  <2>. QED  BY <1>8, <2>1, <2>2, <2>3, FoldClimbs
<1>. QED  BY <1>1, <1>2, <1>7, <1>9, <1>10 DEF V

\* removeItem takes as many as it is asked for, if there are so many.
LEMMA TakePlainIs ==
  ASSUME NEW b \in LotBags, NEW k \in Goods, NEW n \in Nat, n <= PlainAmount(b, k)
  PROVE  /\ TakePlain(b, k, n) \in LotBags /\ Len(TakePlain(b, k, n)) = Len(b)
         /\ \A g \in Goods :
              /\ AmountIn(TakePlain(b, k, n), g) \in Nat
              /\ AmountIn(TakePlain(b, k, n), g) + (IF g = k THEN n ELSE 0) = AmountIn(b, g)
<1>1. PICK s : s = [b |-> b, left |-> n]
  OBVIOUS
<1>2. s \in Takings(b, k, n)
  <2>1. s \in [b : LotBags, left : Nat] /\ s.b = b /\ s.left = n
    BY <1>1
  <2>2. \A g \in Goods : AmountIn(b, g) \in Nat
    BY CountsAre
  <2>3. PlainAmount(b, k) \in Nat
    BY CountsAre
  <2>4. \A g \in Goods : AmountIn(b, g) + (IF g = k THEN n - n ELSE 0) = AmountIn(b, g)
    BY <2>2
  <2>. QED  BY <2>1, <2>3, <2>4 DEF Takings
<1>3. PICK t : t = TakeFrom(s, k, FALSE) /\ t \in Takings(b, k, n)
  BY <1>2, TakeFromIs
<1>4. PICK u : u = TakeFrom(t, k, TRUE) /\ u \in Takings(b, k, n) /\ TakenTo(u, k, Len(b))
  BY <1>3, TakeFromIs
<1>5. TakePlain(b, k, n) = u.b
  BY <1>1, <1>3, <1>4 DEF TakePlain
<1>6. PICK c, l : c = u.b /\ l = u.left
  OBVIOUS
<1>7. /\ c \in LotBags /\ l \in Nat /\ Len(c) = Len(b) /\ l <= n
      /\ \A g \in Goods : AmountIn(c, g) + (IF g = k THEN n - l ELSE 0) = AmountIn(b, g)
      /\ PlainAmount(c, k) + (n - l) = PlainAmount(b, k)
  BY <1>4, <1>6 DEF Takings
<1>8. l = 0
  <2>1. SUFFICES ASSUME l # 0 PROVE FALSE
    OBVIOUS
  <2>2. \A i \in DOMAIN c : ~Same(c[i], k, Plain)
    BY <1>4, <1>6, <1>7, <2>1, LotBagsAre DEF TakenTo
  <2>3. \A i \in DOMAIN c : PlainAt(c, k)[i] = 0
    BY <2>2 DEF PlainAt, OfPlain
  <2>4. PlainAmount(c, k) = 0
    BY <1>7, <2>3, CountsAre, SumOfNone
  <2>5. PICK p \in Nat : p = PlainAmount(b, k)
    BY CountsAre
  <2>. QED  BY <1>7, <2>1, <2>4, <2>5
<1>9. \A g \in Goods : AmountIn(c, g) \in Nat
  BY <1>7, CountsAre
<1>10. \A g \in Goods : AmountIn(c, g) + (IF g = k THEN n ELSE 0) = AmountIn(b, g)
  BY <1>7, <1>8
<1>. QED  BY <1>5, <1>6, <1>7, <1>9, <1>10

\* The least of a set of numbers, if it has one.
LEMMA FirstsIs ==
  ASSUME NEW S, S \subseteq Nat
  PROVE  /\ S = {} => Firsts(S) = {}
         /\ S # {} => \E i \in S : Firsts(S) = {i} /\ \A j \in S : i <= j
<1>1. ASSUME S # {} PROVE \E i \in S : Firsts(S) = {i} /\ \A j \in S : i <= j
  <2>1. PICK i \in S : \A j \in S : i <= j
    BY <1>1, LeastIsThere
  <2>2. \A j \in S : (\A h \in S : j <= h) => j = i
    <3>1. ASSUME NEW j \in S, \A h \in S : j <= h PROVE j = i
      <4>1. j <= i /\ i <= j /\ i \in Nat /\ j \in Nat
        BY <2>1, <3>1
      <4>. QED  BY <4>1
    <3>. QED  BY <3>1
  <2>. QED  BY <2>1, <2>2 DEF Firsts
<1>. QED  BY <1>1 DEF Firsts

\* Room is in a slot of the same kind and mark or in an empty one.
LEMMA RoomIs ==
  ASSUME NEW b \in LotBags, NEW it \in Lots, it.id \in Goods, NEW i \in RoomAt(b, it)
  PROVE  /\ i \in DOMAIN b
         /\ b[i].id \in {it.id, NoGood}
         /\ b[i].amount < maxAmount[it.id]
<1> DEFINE same == {j \in DOMAIN b : Same(b[j], it.id, it.mark) /\ b[j].amount < maxAmount[it.id]}
           free == {j \in DOMAIN b : b[j].id = NoGood}
<1>1. i \in same \/ i \in free
  BY DEF RoomAt, Firsts
<1>2. maxAmount[it.id] \in Nat \ {0}
  BY BankAssumption
<1>3. CASE i \in same
  BY <1>3 DEF Same
<1>4. CASE i \in free
  <2>1. i \in DOMAIN b /\ b[i].id = NoGood /\ b[i].amount = 0
    BY <1>4, LotBagsAre
  <2>. QED  BY <1>2, <2>1
<1>. QED  BY <1>1, <1>3, <1>4

\* While a lot is added to bag b: what the bag has and what is left of it.
Fillings(b, it) ==
  {f \in [b : LotBags, left : Nat] :
     /\ Len(f.b) = Len(b)
     /\ \A g \in Goods :
          AmountIn(f.b, g) + (IF g = it.id THEN f.left ELSE 0)
            = AmountIn(b, g) + (IF g = it.id THEN it.amount ELSE 0)}

\* Filling a slot neither loses nor adds any.
LEMMA FillStays ==
  ASSUME NEW b \in LotBags, NEW it \in Lots, it.id \in Goods, NEW f \in Fillings(b, it)
  PROVE  Fill(f, it) \in Fillings(b, it)
<1>1. PICK c, l, at : c = f.b /\ l = f.left /\ at = RoomAt(c, it)
  OBVIOUS
<1>2. /\ c \in LotBags /\ l \in Nat /\ Len(c) = Len(b)
      /\ \A g \in Goods : AmountIn(c, g) + (IF g = it.id THEN l ELSE 0)
                            = AmountIn(b, g) + (IF g = it.id THEN it.amount ELSE 0)
  BY <1>1 DEF Fillings
<1>3. CASE l = 0 \/ at = {}
  <2>1. Fill(f, it) = f
    BY <1>1, <1>3 DEF Fill
  <2>. QED  BY <2>1
<1>4. CASE ~(l = 0 \/ at = {})
  <2>1. PICK i : i = (CHOOSE j \in at : TRUE) /\ i \in at
    BY <1>4
  <2>2. /\ i \in DOMAIN c /\ c[i].id \in {it.id, NoGood}
        /\ c[i].amount < maxAmount[it.id]
    BY <1>1, <1>2, <2>1, RoomIs
  <2>3. PICK s, a, m : s = c[i] /\ a = s.amount /\ m = maxAmount[it.id]
    OBVIOUS
  <2>4. a \in Nat /\ m \in Nat /\ a < m /\ ((s.id = NoGood) <=> (a = 0))
    BY <1>2, <2>2, <2>3, LotBagsAre, BankAssumption
  <2>5. PICK n : n = IF l > m - a THEN m - a ELSE l
    OBVIOUS
  <2>6. n \in Nat /\ n <= l /\ n # 0
    BY <1>2, <1>4, <2>4, <2>5
  <2>7. PICK x : x = [id |-> it.id, mark |-> it.mark, amount |-> a + n]
    OBVIOUS
  <2>8. x \in Lots /\ x.id = it.id /\ x.amount = a + n
    BY <2>4, <2>6, <2>7 DEF Lots
  <2>9. (x.id = NoGood) <=> (x.amount = 0)
    <3>1. a + n # 0 /\ it.id # NoGood
      BY <2>4, <2>6, BankAssumption
    <3>. QED  BY <2>8, <3>1
  <2>10. PICK new : LotSet(c, i, x, new)
    BY DEF LotSet
  <2>11. LotChanges(c, i, x, new)
    BY <1>2, <2>2, <2>8, <2>9, <2>10, LotChange
  <2>12. PICK r : r = [b |-> new, left |-> l - n]
    OBVIOUS
  <2>13. Fill(f, it) = r
    <3>1. new = [c EXCEPT ![i] = x]
      BY <2>10 DEF LotSet
    <3>. QED  BY <1>1, <1>4, <2>1, <2>3, <2>5, <2>7, <2>12, <3>1 DEF Fill
  <2>14. /\ new \in LotBags /\ Len(new) = Len(b) /\ l - n \in Nat
         /\ r \in [b : LotBags, left : Nat] /\ r.b = new /\ r.left = l - n
    BY <1>2, <2>6, <2>11, <2>12 DEF LotChanges
  <2>15. ASSUME NEW g \in Goods
         PROVE  AmountIn(new, g) + (IF g = it.id THEN l - n ELSE 0)
                  = AmountIn(b, g) + (IF g = it.id THEN it.amount ELSE 0)
    <3>1. PICK u, v, w : /\ u = AmountIn(c, g) /\ v = AmountIn(new, g)
                         /\ w = AmountIn(b, g) + (IF g = it.id THEN it.amount ELSE 0)
      OBVIOUS
    <3>2. /\ u \in Nat /\ v \in Nat /\ v + OfKind(s, g) = u + OfKind(x, g)
          /\ u + (IF g = it.id THEN l ELSE 0) = w
      BY <1>2, <2>3, <2>11, <3>1 DEF LotChanges
    <3>3. CASE g = it.id
      <4>1. OfKind(s, g) = a /\ OfKind(x, g) = a + n
        BY <2>2, <2>3, <2>4, <2>8, <3>3 DEF OfKind
      <4>2. v + a = u + (a + n) /\ u + l = w
        BY <3>2, <3>3, <4>1
      <4>3. v + (l - n) = w
        BY <1>2, <2>4, <2>6, <3>2, <4>2
      <4>. QED  BY <3>1, <3>3, <4>3
    <3>4. CASE g # it.id
      <4>1. OfKind(s, g) = 0 /\ OfKind(x, g) = 0
        BY <2>2, <2>3, <2>8, <3>4, BankAssumption DEF OfKind
      <4>2. v + 0 = u + 0 /\ u + 0 = w
        BY <3>2, <3>4, <4>1
      <4>3. v + 0 = w
        BY <3>2, <4>2
      <4>. QED  BY <3>1, <3>4, <4>3
    <3>. QED  BY <3>3, <3>4
  <2>. QED  BY <2>13, <2>14, <2>15 DEF Fillings
<1>. QED  BY <1>3, <1>4

\* What is added is in the bag or left over.
LEMMA AddedIs ==
  ASSUME NEW b \in LotBags, NEW it \in Lots, it.id \in Goods
  PROVE  Added(b, it) \in Fillings(b, it)
<1>1. PICK len \in Nat : len = Len(b) /\ DOMAIN b = 1..len
  BY LotBagsAre
<1>2. PICK f : f = [b |-> b, left |-> it.amount]
  OBVIOUS
<1> DEFINE V == Fillings(b, it)
           Step(g, i) == Fill(g, it)
           F == [i \in 1..len |-> [g \in V |-> Step(g, i)]]
           Eq(g) == g = [s \in SUBSET (1..len) |->
                           IF s = {} THEN f ELSE Step(g[s \ {Max(s)}], Max(s))]
<1>3. f \in V
  <2>1. it.amount \in Nat
    BY DEF Lots
  <2>2. f \in [b : LotBags, left : Nat] /\ f.b = b /\ f.left = it.amount
    BY <1>2, <2>1
  <2>. QED  BY <2>2 DEF Fillings
<1>4. Added(b, it) = (CHOOSE g : Eq(g))[1..len]
  <2> DEFINE seq == [x \in 1..len |-> x]
             Eq0(g) == g = [s \in SUBSET (1..len) |->
                              IF s = {} THEN f
                              ELSE Step(g[s \ {Max(s)}], seq[Max(s)])]
  <2>1. Added(b, it) = (CHOOSE g : Eq0(g))[1..len]
    <3>1. DOMAIN seq = 1..len
      OBVIOUS
    <3>. QED  BY <1>1, <1>2, <3>1 DEF Added, FoldLeft, MapThenFoldSet
  <2>2. \A g : Eq0(g) <=> Eq(g)
    OBVIOUS
  <2>. HIDE DEF Eq0, Eq
  <2>. QED  BY <2>1, <2>2, Zenon
<1>5. \A i \in 1..len : \A g \in V : Step(g, i) \in V
  BY FillStays
<1>6. \A i \in 1..len : \A g \in V : F[i][g] = Step(g, i) /\ F[i][g] \in V
  BY <1>5
<1>. HIDE DEF V, F, Step
<1>7. PICK h \in [SUBSET (1..len) -> V] : Folded(len, F, f, h)
  BY <1>3, <1>6, FoldExists
<1>8. Eq(h)
  <2>1. ASSUME NEW s \in SUBSET (1..len)
        PROVE  h[s] = IF s = {} THEN f ELSE Step(h[s \ {Max(s)}], Max(s))
    <3>1. CASE s = {}
      BY <1>7, <3>1 DEF Folded
    <3>2. CASE s # {}
      <4>1. Max(s) \in 1..len /\ h[s \ {Max(s)}] \in V
        BY <1>7, <3>2, GreatestIsThere
      <4>2. h[s] = F[Max(s)][h[s \ {Max(s)}]]
        BY <1>7, <3>2 DEF Folded
      <4>. QED  BY <1>6, <3>2, <4>1, <4>2
    <3>. QED  BY <3>1, <3>2
  <2>. QED  BY <1>7, <2>1
<1>9. PICK g : g = (CHOOSE e : Eq(e)) /\ Eq(g)
  BY <1>8
<1>10. Climbs(len, V, F, f, g)
  <2>1. ASSUME NEW s \in SUBSET (1..len), s # {}, g[s \ {Max(s)}] \in V
        PROVE  g[s] = F[Max(s)][g[s \ {Max(s)}]]
    <3>1. Max(s) \in 1..len
      BY <2>1, GreatestIsThere
    <3>2. g[s] = Step(g[s \ {Max(s)}], Max(s))
      BY <1>9, <2>1
    <3>. QED  BY <1>6, <2>1, <3>1, <3>2
  <2>2. \A s \in SUBSET (1..len) : s = {} => g[s] = f
    BY <1>9
  <2>. QED  BY <2>1, <2>2 DEF Climbs
<1>11. PICK W : W = [i \in 0..len |-> V]
  OBVIOUS
<1>12. g[1..len] \in W[len]
  <2>1. f \in W[0] /\ \A i \in 0..len : W[i] \subseteq V
    BY <1>3, <1>11
  <2>2. \A i \in 1..len : \A v \in W[i - 1] : F[i][v] \in W[i]
    BY <1>6, <1>11
  <2>. QED  BY <1>10, <2>1, <2>2, FoldClimbs
<1>. QED  BY <1>4, <1>9, <1>11, <1>12 DEF V

----------------------------------------------------------------------------
(* The bank: sums over players, floor and parcels.                         *)

\* Fewer things have no larger a sum.
LEMMA SumOfFewer ==
  ASSUME NEW S, IsFiniteSet(S), NEW f, Amounts(f, S), NEW T \in SUBSET S
  PROVE  SumOf(f, T) \in Nat /\ SumOf(f, S) \in Nat /\ SumOf(f, T) <= SumOf(f, S)
<1>1. IsFiniteSet(T) /\ Amounts(f, T)
  BY FS_Subset DEF Amounts
<1>2. SumOf(f, T) = Cardinality(UnitsOf(f, T)) /\ SumOf(f, S) = Cardinality(UnitsOf(f, S))
  BY <1>1, SumIsCount
<1>3. UnitsOf(f, T) \subseteq UnitsOf(f, S) /\ IsFiniteSet(UnitsOf(f, S))
  BY UnitsAreFinite DEF UnitsOf
<1>4. SumOf(f, T) \in Nat /\ SumOf(f, S) \in Nat
  BY <1>1, SumSplit
<1>. QED  BY <1>2, <1>3, <1>4, FS_Subset

\* What is behind a place moves up by one, and the last place becomes 0.
LEMMA SumShift ==
  ASSUME NEW n \in Nat, NEW f, Amounts(f, 1..n), NEW h, Amounts(h, 1..n), NEW i \in 1..n,
         \A j \in 1..n : h[j] = IF j < i THEN f[j] ELSE IF j < n THEN f[j + 1] ELSE 0
  PROVE  /\ SumOf(f, 1..n) \in Nat /\ SumOf(h, 1..n) \in Nat /\ f[i] \in Nat
         /\ SumOf(h, 1..n) + f[i] = SumOf(f, 1..n)
<1>1. ASSUME NEW g, Amounts(g, 1..n), NEW m \in 1..n
      PROVE  /\ SumOf(g, 1..m) \in Nat /\ SumOf(g, 1..(m - 1)) \in Nat /\ g[m] \in Nat
             /\ SumOf(g, 1..m) = g[m] + SumOf(g, 1..(m - 1))
  <2>1. IsFiniteSet(1..m) /\ Amounts(g, 1..m) /\ m \in 1..m /\ 1..(m - 1) = (1..m) \ {m}
    BY <1>1, FS_Interval DEF Amounts
  <2>. QED  BY <2>1, SumSplit
<1> DEFINE Bad == {m \in i..n : SumOf(h, 1..(m - 1)) + f[i] # SumOf(f, 1..m)}
<1>2. Bad = {}
  <2>1. SUFFICES ASSUME Bad # {} PROVE FALSE
    OBVIOUS
  <2>2. Bad \subseteq Nat
    OBVIOUS
  <2>3. PICK m \in Bad : \A y \in Bad : m <= y
    BY <2>1, <2>2, LeastIsThere
  <2>4. m \in i..n /\ m \in 1..n
    OBVIOUS
  <2>5. PICK a, b, c : a = SumOf(h, 1..(m - 1)) /\ b = f[i] /\ c = SumOf(f, 1..m)
    OBVIOUS
  <2>6. a + b # c
    BY <2>5
  <2>7. CASE m = i
    <3>1. SumOf(h, 1..(m - 1)) = SumOf(f, 1..(m - 1))
      <4>1. IsFiniteSet(1..(m - 1)) /\ Amounts(h, 1..(m - 1))
        BY <2>4, FS_Interval DEF Amounts
      <4>2. \A j \in 1..(m - 1) : h[j] = f[j]
        BY <2>4, <2>7
      <4>. QED  BY <4>1, <4>2, SumSame
    <3>2. a \in Nat /\ b \in Nat /\ c = b + a
      BY <1>1, <2>4, <2>5, <2>7, <3>1
    <3>. QED  BY <2>6, <3>2
  <2>8. CASE m # i
    <3>1. m - 1 \in i..n /\ m - 1 \in 1..n /\ ~(m <= m - 1) /\ m - 1 < n /\ ~(m - 1 < i)
      BY <2>4, <2>8
    <3>2. m - 1 \notin Bad
      BY <2>3, <3>1
    <3>3. PICK d, e : d = SumOf(h, 1..((m - 1) - 1)) /\ e = SumOf(f, 1..(m - 1))
      OBVIOUS
    <3>4. d + b = e
      BY <2>5, <3>1, <3>2, <3>3
    <3>5. h[m - 1] = f[m]
      BY <3>1
    <3>6. a \in Nat /\ d \in Nat /\ f[m] \in Nat /\ a = f[m] + d
      BY <1>1, <2>5, <3>1, <3>3, <3>5
    <3>7. c \in Nat /\ e \in Nat /\ c = f[m] + e /\ b \in Nat
      BY <1>1, <2>4, <2>5, <3>3
    <3>8. PICK y : y = f[m]
      OBVIOUS
    <3>9. /\ a \in Nat /\ b \in Nat /\ c \in Nat /\ d \in Nat /\ e \in Nat /\ y \in Nat
          /\ a = y + d /\ c = y + e
      BY <3>6, <3>7, <3>8
    <3>10. a + b = y + (d + b)
      BY <3>9
    <3>. QED  BY <2>6, <3>4, <3>9, <3>10
  <2>. QED  BY <2>7, <2>8
<1>3. n \in 1..n /\ n \in i..n
  OBVIOUS
<1>4. SumOf(h, 1..(n - 1)) + f[i] = SumOf(f, 1..n)
  BY <1>2, <1>3
<1>5. h[n] = 0
  BY <1>3
<1>. QED  BY <1>1, <1>3, <1>4, <1>5

\* Of numbers up to a bound there is a greatest.
LEMMA MaxIs ==
  ASSUME NEW n \in Nat, NEW S \in SUBSET (0..n), S # {}
  PROVE  Max(S) \in S
<1> DEFINE T == {n - x : x \in S}
<1>1. T \subseteq Nat /\ T # {}
  <2>1. PICK z : z \in S
    OBVIOUS
  <2>2. n - z \in T
    BY <2>1
  <2>3. \A y \in S : n - y \in Nat
    <3>1. \A y \in S : y \in 0..n
      OBVIOUS
    <3>. QED  BY <3>1
  <2>. QED  BY <2>2, <2>3
<1>2. PICK t \in T : \A y \in T : t <= y
  BY <1>1, LeastIsThere
<1>3. PICK x \in S : t = n - x
  OBVIOUS
<1>4. \A y \in S : x >= y
  <2>1. ASSUME NEW y \in S PROVE x >= y
    <3>1. n - x <= n - y
      BY <1>2, <1>3
    <3>. QED  BY <3>1
  <2>. QED  BY <2>1
<1>. QED  BY <1>4 DEF Max

\* What lies on the floor, what players have and what is in parcels.
FloorOf(E, k) == Total([m \in Marks |-> E[k][m]])
HeldOf(H, B, k) == Total([c \in Clients |-> AmountIn(H[c], k) + AmountIn(B[c], k)])
LotOf(q, k) == IF q.lot.id = k THEN q.lot.amount ELSE 0
SentOf(P, k) == Total([q \in P |-> LotOf(q, k)])

FloorSet(E, k, m, x, new) == new = [E EXCEPT ![k] = [E[k] EXCEPT ![m] = x]]

\* Laying more of a kind on the floor adds to that kind alone.
LEMMA FloorChange ==
  ASSUME NEW E \in [Goods -> [Marks -> Nat]], NEW id \in Goods, NEW mark \in Marks,
         NEW x \in Nat, NEW new, FloorSet(E, id, mark, x, new)
  PROVE  /\ new \in [Goods -> [Marks -> Nat]] /\ E[id][mark] \in Nat
         /\ \A k \in Goods :
              /\ FloorOf(E, k) \in Nat /\ FloorOf(new, k) \in Nat
              /\ k = id => FloorOf(new, k) + E[id][mark] = FloorOf(E, k) + x
              /\ k # id => FloorOf(new, k) = FloorOf(E, k)
<1>1. PICK r : r = [E[id] EXCEPT ![mark] = x]
  OBVIOUS
<1>2. /\ r \in [Marks -> Nat] /\ r[mark] = x /\ \A m \in Marks \ {mark} : r[m] = E[id][m]
      /\ E[id][mark] \in Nat
  BY <1>1
<1>3. /\ new \in [Goods -> [Marks -> Nat]] /\ new[id] = r
      /\ \A k \in Goods \ {id} : new[k] = E[k]
  BY <1>1, <1>2 DEF FloorSet
<1> DEFINE SumAt(F, k) == [m \in Marks |-> F[k][m]]
<1>4. ASSUME NEW F \in [Goods -> [Marks -> Nat]], NEW k \in Goods
      PROVE  /\ FloorOf(F, k) = SumOf(SumAt(F, k), Marks) /\ Amounts(SumAt(F, k), Marks)
             /\ FloorOf(F, k) \in Nat
  <2>1. FloorOf(F, k) = SumOf(SumAt(F, k), Marks)
    BY TotalIs DEF FloorOf
  <2>2. Amounts(SumAt(F, k), Marks)
    BY DEF Amounts
  <2>. QED  BY <2>1, <2>2, SumSplit, BankAssumption
<1>5. ASSUME NEW k \in Goods, k # id PROVE FloorOf(new, k) = FloorOf(E, k)
  BY <1>3, <1>5 DEF FloorOf
<1>6. FloorOf(new, id) + E[id][mark] = FloorOf(E, id) + x
  <2>1. PICK f, h : f = SumAt(new, id) /\ h = SumAt(E, id)
    OBVIOUS
  <2>2. \A m \in Marks \ {mark} : f[m] = h[m]
    BY <1>2, <1>3, <2>1
  <2>3. f[mark] = x /\ h[mark] = E[id][mark]
    BY <1>2, <1>3, <2>1
  <2>4. Amounts(f, Marks) /\ Amounts(h, Marks)
    BY <1>3, <1>4, <2>1
  <2>5. SumOf(f, Marks) + h[mark] = SumOf(h, Marks) + f[mark]
    BY <2>2, <2>4, SumChange, BankAssumption
  <2>6. FloorOf(new, id) = SumOf(f, Marks) /\ FloorOf(E, id) = SumOf(h, Marks)
    BY <1>3, <1>4, <2>1
  <2>. QED  BY <2>3, <2>5, <2>6
<1>7. \A k \in Goods : FloorOf(E, k) \in Nat /\ FloorOf(new, k) \in Nat
  BY <1>3, <1>4
<1>. QED  BY <1>2, <1>3, <1>5, <1>6, <1>7

\* What changes with one player changes the sum of all as much.
LEMMA HeldChange ==
  ASSUME NEW H \in [Clients -> LotBags], NEW B \in [Clients -> LotBags],
         NEW c \in Clients, NEW h \in LotBags, NEW b \in LotBags, NEW k \in Goods,
         NEW H2, LotSet(H, c, h, H2), NEW B2, LotSet(B, c, b, B2)
  PROVE  /\ HeldOf(H, B, k) \in Nat /\ HeldOf(H2, B2, k) \in Nat
         /\ HeldOf(H2, B2, k) + (AmountIn(H[c], k) + AmountIn(B[c], k))
              = HeldOf(H, B, k) + (AmountIn(h, k) + AmountIn(b, k))
<1>1. /\ H2 \in [Clients -> LotBags] /\ B2 \in [Clients -> LotBags]
      /\ H2[c] = h /\ B2[c] = b
      /\ \A d \in Clients \ {c} : H2[d] = H[d] /\ B2[d] = B[d]
  BY DEF LotSet
<1> DEFINE SumAt(X, Y) == [d \in Clients |-> AmountIn(X[d], k) + AmountIn(Y[d], k)]
<1>2. ASSUME NEW X \in [Clients -> LotBags], NEW Y \in [Clients -> LotBags]
      PROVE  /\ HeldOf(X, Y, k) = SumOf(SumAt(X, Y), Clients) /\ Amounts(SumAt(X, Y), Clients)
             /\ HeldOf(X, Y, k) \in Nat
  <2>1. HeldOf(X, Y, k) = SumOf(SumAt(X, Y), Clients)
    BY TotalIs DEF HeldOf
  <2>2. \A d \in Clients : AmountIn(X[d], k) \in Nat /\ AmountIn(Y[d], k) \in Nat
    BY CountsAre
  <2>3. Amounts(SumAt(X, Y), Clients)
    BY <2>2 DEF Amounts
  <2>. QED  BY <2>1, <2>3, SumSplit, BankAssumption
<1>3. PICK f, g : f = SumAt(H2, B2) /\ g = SumAt(H, B)
  OBVIOUS
<1>4. \A d \in Clients \ {c} : f[d] = g[d]
  BY <1>1, <1>3
<1>5. f[c] = AmountIn(h, k) + AmountIn(b, k) /\ g[c] = AmountIn(H[c], k) + AmountIn(B[c], k)
  BY <1>1, <1>3
<1>6. Amounts(f, Clients) /\ Amounts(g, Clients)
  BY <1>1, <1>2, <1>3
<1>7. SumOf(f, Clients) + g[c] = SumOf(g, Clients) + f[c]
  BY <1>4, <1>6, SumChange, BankAssumption
<1>8. /\ HeldOf(H2, B2, k) = SumOf(f, Clients) /\ HeldOf(H, B, k) = SumOf(g, Clients)
      /\ HeldOf(H2, B2, k) \in Nat /\ HeldOf(H, B, k) \in Nat
  BY <1>1, <1>2, <1>3
<1>. QED  BY <1>5, <1>7, <1>8

\* What is in parcels is a sum, of which those that are taken out are a part.
LEMMA SentIs ==
  ASSUME NEW P, IsFiniteSet(P), \A q \in P : q.lot.amount \in Nat, NEW k
  PROVE  /\ SentOf(P, k) \in Nat
         /\ \A q \in P : LotOf(q, k) \in Nat /\ SentOf(P \ {q}, k) \in Nat
                         /\ SentOf(P, k) = LotOf(q, k) + SentOf(P \ {q}, k)
         /\ \A T \in SUBSET P : SentOf(T, k) \in Nat /\ SentOf(T, k) <= SentOf(P, k)
<1> DEFINE f == [q \in P |-> LotOf(q, k)]
<1>1. Amounts(f, P)
  BY DEF Amounts, LotOf
<1>2. \A T \in SUBSET P : SentOf(T, k) = SumOf(f, T)
  <2>1. ASSUME NEW T \in SUBSET P PROVE SentOf(T, k) = SumOf(f, T)
    <3>1. PICK g : g = [q \in T |-> LotOf(q, k)]
      OBVIOUS
    <3>2. SentOf(T, k) = SumOf(g, T)
      BY <3>1, TotalIs DEF SentOf
    <3>3. IsFiniteSet(T) /\ Amounts(f, T) /\ \A q \in T : f[q] = g[q]
      BY <1>1, <3>1, FS_Subset DEF Amounts
    <3>. QED  BY <3>2, <3>3, SumSame
  <2>. QED  BY <2>1
<1>3. \A q \in P : f[q] = LotOf(q, k)
  OBVIOUS
<1>. HIDE DEF f
<1>4. SentOf(P, k) = SumOf(f, P) /\ \A q \in P : SentOf(P \ {q}, k) = SumOf(f, P \ {q})
  BY <1>2
<1>5. \A T \in SUBSET P : SentOf(T, k) \in Nat /\ SentOf(T, k) <= SentOf(P, k)
  BY <1>1, <1>2, <1>4, SumOfFewer
<1>6. \A q \in P : /\ f[q] \in Nat /\ SumOf(f, P \ {q}) \in Nat
                   /\ SumOf(f, P) = f[q] + SumOf(f, P \ {q})
  BY <1>1, SumSplit
<1>. QED  BY <1>3, <1>4, <1>5, <1>6

\* A sum over no parcels is 0.
LEMMA NoneSent == ASSUME NEW k PROVE SentOf({}, k) = 0
<1>1. PICK f : f = [q \in {} |-> LotOf(q, k)]
  OBVIOUS
<1>2. SentOf({}, k) = SumOf(f, {}) 
  BY <1>1, TotalIs DEF SentOf
<1>3. IsFiniteSet({}) /\ Amounts(f, {}) /\ \A x \in {} : f[x] = 0
  BY FS_EmptySet DEF Amounts
<1>. QED  BY <1>2, <1>3, SumOfNone

----------------------------------------------------------------------------
(* The bank: depositing and withdrawing.                                   *)

\* A bank without gaps that has one slot for a kind and mark.
NoGaps(b) == \A i \in DOMAIN b : b[i].id # NoGood => i \in ListedSlots(b) /\ b[i].amount > 0
OneEach(b) ==
  \A i, j \in DOMAIN b :
    b[i].id # NoGood /\ Same(b[j], b[i].id, b[i].mark) => i = j
Ordered(b) == NoGaps(b) /\ OneEach(b)

\* Before a used slot there is no empty one.
LEMMA ListedAre ==
  ASSUME NEW b \in LotBags
  PROVE  /\ \A i \in ListedSlots(b) : /\ i \in DOMAIN b /\ b[i].id \in Goods
                                      /\ b[i].amount \in Nat \ {0}
                                      /\ \A j \in 1..i : j \in DOMAIN b /\ b[j].id # NoGood
         /\ NoGaps(b) <=> \A i \in DOMAIN b : b[i].id # NoGood =>
                             \A j \in 1..i : b[j].id # NoGood
<1>1. /\ DOMAIN b = 1..Len(b) /\ Len(b) \in Nat
      /\ \A i \in DOMAIN b : /\ b[i].id \in Goods \cup {NoGood} /\ b[i].amount \in Nat
                             /\ (b[i].id = NoGood) <=> (b[i].amount = 0)
  BY LotBagsAre
<1>2. \A i \in ListedSlots(b) : i \in DOMAIN b /\ \A j \in 1..i : b[j].id # NoGood
  BY DEF ListedSlots
<1>3. \A i \in DOMAIN b : i \in 1..i /\ \A j \in 1..i : j \in DOMAIN b
  BY <1>1
<1>4. \A i \in ListedSlots(b) : b[i].id # NoGood
  BY <1>2, <1>3
<1>5. \A i \in DOMAIN b : b[i].id # NoGood => b[i].amount > 0
  BY <1>1
<1>6. NoGaps(b) <=> \A i \in DOMAIN b : b[i].id # NoGood => i \in ListedSlots(b)
  BY <1>5 DEF NoGaps
<1>7. \A i \in DOMAIN b : i \in ListedSlots(b) <=> \A j \in 1..i : b[j].id # NoGood
  BY DEF ListedSlots
<1>. QED  BY <1>1, <1>2, <1>3, <1>4, <1>5, <1>6, <1>7

\* What depositing does to a bank.
Deposited(b, it, new) ==
  /\ new \in LotBags /\ Len(new) = Len(b) /\ Ordered(new)
  /\ \A i \in DOMAIN new : new[i].id \in {it.id, b[i].id}
  /\ \A k \in Goods :
       /\ AmountIn(b, k) \in Nat /\ AmountIn(new, k) \in Nat
       /\ AmountIn(new, k) = AmountIn(b, k)
            + (IF k = it.id /\ ~BankFull(b, it) THEN it.amount ELSE 0)

\* A slot that takes what is deposited, with the kind that it has or before
\* all the other empty ones.
LEMMA DepositSlot ==
  ASSUME NEW b \in LotBags, Ordered(b), NEW it \in Lots, it.id \in Goods, it.amount > 0,
         ~BankFull(b, it), NEW i \in DOMAIN b, NEW x \in Lots, NEW new, LotSet(b, i, x, new),
         x.id = it.id, x.mark = it.mark, x.amount = b[i].amount + it.amount,
         \/ Same(b[i], it.id, it.mark)
         \/ /\ b[i].id = NoGood /\ \A j \in DOMAIN b : b[j].id = NoGood => i <= j
            /\ \A j \in DOMAIN b : ~Same(b[j], it.id, it.mark)
  PROVE  Deposited(b, it, new)
<1>1. /\ DOMAIN b = 1..Len(b) /\ Len(b) \in Nat
      /\ \A j \in DOMAIN b : /\ b[j] \in Lots /\ b[j].amount \in Nat
                             /\ (b[j].id = NoGood) <=> (b[j].amount = 0)
  BY LotBagsAre
<1>2. it.amount \in Nat \ {0} /\ it.id # NoGood
  BY BankAssumption DEF Lots
<1>3. (x.id = NoGood) <=> (x.amount = 0)
  <2>1. x.amount # 0
    BY <1>1, <1>2
  <2>. QED  BY <1>2, <2>1
<1>4. LotChanges(b, i, x, new)
  BY <1>3, LotChange
<1>5. /\ new \in LotBags /\ Len(new) = Len(b) /\ DOMAIN new = DOMAIN b
      /\ new[i] = x /\ \A j \in DOMAIN b \ {i} : new[j] = b[j]
  BY <1>4 DEF LotChanges
<1>6. \A j \in DOMAIN new : new[j].id \in {it.id, b[j].id}
  BY <1>5
<1>7. NoGaps(new)
  <2>1. ASSUME NEW j \in DOMAIN new, new[j].id # NoGood, NEW h \in 1..j
        PROVE  new[h].id # NoGood
    <3>1. h \in DOMAIN b /\ j \in DOMAIN b /\ i \in Nat /\ h \in Nat
      BY <1>1, <1>5
    <3>2. CASE h = i
      BY <1>2, <1>5, <3>2
    <3>3. CASE h # i /\ b[j].id # NoGood
      <4>1. b[h].id # NoGood
        BY <1>5, <3>1, <3>3, ListedAre DEF Ordered
      <4>. QED  BY <1>5, <3>1, <3>3, <4>1
    <3>4. CASE h # i /\ b[j].id = NoGood
      <4>1. j = i
        BY <1>5, <2>1, <3>1, <3>4
      <4>2. h < i /\ ~(i <= h)
        BY <3>1, <3>4, <4>1
      <4>3. ~Same(b[i], it.id, it.mark)
        BY <1>2, <3>4, <4>1 DEF Same
      <4>4. b[h].id # NoGood
        BY <3>1, <4>2, <4>3
      <4>. QED  BY <1>5, <3>1, <3>4, <4>4
    <3>. QED  BY <3>2, <3>3, <3>4
  <2>. QED  BY <1>5, <2>1, ListedAre
<1>8. OneEach(new)
  <2>1. \A j \in DOMAIN b : j # i => ~Same(b[j], it.id, it.mark)
    <3>1. CASE Same(b[i], it.id, it.mark)
      <4>1. ASSUME NEW j \in DOMAIN b, Same(b[j], it.id, it.mark) PROVE j = i
        BY <1>2, <3>1, <4>1 DEF Ordered, OneEach, Same
      <4>. QED  BY <4>1
    <3>2. CASE \A j \in DOMAIN b : ~Same(b[j], it.id, it.mark)
      BY <3>2
    <3>. QED  BY <3>1, <3>2
  <2>2. ASSUME NEW p \in DOMAIN new, NEW q \in DOMAIN new, new[p].id # NoGood,
               Same(new[q], new[p].id, new[p].mark)
        PROVE  p = q
    <3>1. CASE p = i /\ q # i
      <4>1. new[p].id = it.id /\ new[p].mark = it.mark /\ new[q] = b[q] /\ q \in DOMAIN b
        BY <1>5, <3>1
      <4>. QED  BY <2>1, <2>2, <3>1, <4>1
    <3>2. CASE p # i /\ q = i
      <4>1. new[q].id = it.id /\ new[q].mark = it.mark /\ new[p] = b[p] /\ p \in DOMAIN b
        BY <1>5, <3>2
      <4>2. Same(b[p], it.id, it.mark)
        BY <2>2, <4>1 DEF Same
      <4>. QED  BY <2>1, <3>2, <4>1, <4>2
    <3>3. CASE p # i /\ q # i
      <4>1. new[q] = b[q] /\ new[p] = b[p] /\ p \in DOMAIN b /\ q \in DOMAIN b
        BY <1>5, <3>3
      <4>. QED  BY <2>2, <4>1 DEF Ordered, OneEach
    <3>. QED  BY <3>1, <3>2, <3>3
  <2>. QED  BY <2>2 DEF OneEach
<1>9. ASSUME NEW k \in Goods
      PROVE  /\ AmountIn(b, k) \in Nat /\ AmountIn(new, k) \in Nat
             /\ AmountIn(new, k) = AmountIn(b, k) + (IF k = it.id THEN it.amount ELSE 0)
  <2>1. PICK u, v, a, n : /\ u = AmountIn(b, k) /\ v = AmountIn(new, k)
                          /\ a = b[i].amount /\ n = it.amount
    OBVIOUS
  <2>2. /\ u \in Nat /\ v \in Nat /\ a \in Nat /\ n \in Nat
        /\ v + OfKind(b[i], k) = u + OfKind(x, k)
    BY <1>1, <1>2, <1>4, <2>1 DEF LotChanges
  <2>3. b[i].id \in {it.id, NoGood} /\ (b[i].id = NoGood => a = 0)
    BY <1>1, <2>1 DEF Same
  <2>4. CASE k = it.id
    <3>1. OfKind(x, k) = a + n /\ OfKind(b[i], k) = a
      BY <2>1, <2>3, <2>4 DEF OfKind
    <3>2. v + a = u + (a + n)
      BY <2>2, <3>1
    <3>. QED  BY <2>1, <2>2, <2>4, <3>2
  <2>5. CASE k # it.id
    <3>1. OfKind(x, k) = 0 /\ OfKind(b[i], k) = 0
      BY <2>3, <2>5, BankAssumption DEF OfKind
    <3>. QED  BY <2>1, <2>2, <2>5, <3>1
  <2>. QED  BY <2>4, <2>5
<1>10. \A k \in Goods :
         /\ AmountIn(b, k) \in Nat /\ AmountIn(new, k) \in Nat
         /\ AmountIn(new, k) = AmountIn(b, k)
              + (IF k = it.id /\ ~BankFull(b, it) THEN it.amount ELSE 0)
  BY <1>9
<1>. QED  BY <1>5, <1>6, <1>7, <1>8, <1>10 DEF Deposited, Ordered

\* A deposit adds to the slot of the kind and mark, or takes the first empty
\* one; without either, the bank stays as it is.
LEMMA DepositIs ==
  ASSUME NEW b \in LotBags, Ordered(b), NEW it \in Lots, it.id \in Goods, it.amount > 0
  PROVE  Deposited(b, it, bankdeposit(b, it))
<1> DEFINE S == {i \in DOMAIN b : Same(b[i], it.id, it.mark)}
           E == {i \in DOMAIN b : b[i].id = NoGood}
<1>1. /\ DOMAIN b = 1..Len(b) /\ Len(b) \in Nat /\ b \in Seq(Lots)
      /\ \A j \in DOMAIN b : /\ b[j] \in Lots /\ b[j].amount \in Nat
                             /\ (b[j].id = NoGood) <=> (b[j].amount = 0)
  BY LotBagsAre
<1>2. S \subseteq Nat /\ E \subseteq Nat
  BY <1>1
<1>3. PICK at, free, new :
        /\ at = Firsts(S) /\ free = Firsts(E) /\ at = SlotOf(b, it.id, it.mark)
        /\ new = [i \in DOMAIN b |->
                    IF i \in at THEN [b[i] EXCEPT !.amount = @ + it.amount]
                    ELSE IF at = {} /\ i \in free THEN it ELSE b[i]]
        /\ new = bankdeposit(b, it)
  BY DEF bankdeposit, SlotOf
<1>4. CASE S # {}
  <2>1. PICK i \in S : at = {i}
    BY <1>2, <1>3, <1>4, FirstsIs
  <2>2. i \in DOMAIN b /\ Same(b[i], it.id, it.mark) /\ b[i] \in Lots /\ b[i].amount \in Nat
    BY <1>1
  <2>3. PICK x : x = [b[i] EXCEPT !.amount = b[i].amount + it.amount]
    OBVIOUS
  <2>4. /\ x \in Lots /\ x.id = it.id /\ x.mark = it.mark
        /\ x.amount = b[i].amount + it.amount
    BY <2>2, <2>3 DEF Lots, Same
  <2>5. LotSet(b, i, x, new)
    BY <1>1, <1>3, <2>1, <2>3 DEF LotSet
  <2>6. ~BankFull(b, it)
    BY <1>3, <2>1 DEF BankFull
  <2>. QED  BY <1>3, <2>2, <2>4, <2>5, <2>6, DepositSlot
<1>5. CASE S = {} /\ E # {}
  <2>1. at = {}
    BY <1>2, <1>3, <1>5, FirstsIs
  <2>2. PICK i \in E : free = {i} /\ \A j \in E : i <= j
    BY <1>2, <1>3, <1>5, FirstsIs
  <2>3. /\ i \in DOMAIN b /\ b[i].id = NoGood /\ b[i].amount = 0
        /\ \A j \in DOMAIN b : b[j].id = NoGood => i <= j
        /\ \A j \in DOMAIN b : ~Same(b[j], it.id, it.mark)
    BY <1>1, <1>5, <2>2
  <2>4. LotSet(b, i, it, new)
    BY <1>1, <1>3, <2>1, <2>2 DEF LotSet
  <2>5. ~BankFull(b, it)
    BY <2>3 DEF BankFull
  <2>6. it.amount = b[i].amount + it.amount
    BY <2>3 DEF Lots
  <2>. QED  BY <1>3, <2>3, <2>4, <2>5, <2>6, DepositSlot
<1>6. CASE S = {} /\ E = {}
  <2>1. at = {} /\ free = {}
    BY <1>2, <1>3, <1>6, FirstsIs
  <2>2. new = b
    BY <1>1, <1>3, <2>1
  <2>3. BankFull(b, it)
    BY <1>3, <1>6, <2>1 DEF BankFull
  <2>4. \A k \in Goods : AmountIn(b, k) \in Nat
    BY CountsAre
  <2>. QED  BY <1>3, <2>2, <2>3, <2>4 DEF Deposited
<1>. QED  BY <1>4, <1>5, <1>6

\* What withdrawing does to a bank.
Withdrawn(b, it, new) ==
  /\ new \in LotBags /\ Len(new) = Len(b) /\ Ordered(new)
  /\ \A i \in DOMAIN new : new[i].id \in Goods => \E j \in DOMAIN b : b[j].id = new[i].id
  /\ \A k \in Goods :
       /\ AmountIn(b, k) \in Nat /\ AmountIn(new, k) \in Nat
       /\ AmountIn(new, k) + (IF k = it.id THEN it.amount ELSE 0) = AmountIn(b, k)

\* Taking part of what a slot has.
LEMMA WithdrawSome ==
  ASSUME NEW b \in LotBags, Ordered(b), NEW it \in Lots, NEW i \in ListedSlots(b),
         Same(b[i], it.id, it.mark), b[i].amount > it.amount,
         NEW x \in Lots, x.id = b[i].id, x.mark = b[i].mark, x.amount = b[i].amount - it.amount,
         NEW new, LotSet(b, i, x, new)
  PROVE  Withdrawn(b, it, new)
<1>1. /\ i \in DOMAIN b /\ b[i].id \in Goods /\ b[i].amount \in Nat
      /\ it.id = b[i].id /\ it.amount \in Nat
  BY ListedAre DEF Same, Lots
<1>2. (x.id = NoGood) <=> (x.amount = 0)
  <2>1. x.amount # 0 /\ x.id # NoGood
    BY <1>1, BankAssumption
  <2>. QED  BY <2>1
<1>3. LotChanges(b, i, x, new)
  BY <1>1, <1>2, LotChange
<1>4. /\ new \in LotBags /\ Len(new) = Len(b) /\ DOMAIN new = DOMAIN b
      /\ new[i] = x /\ \A j \in DOMAIN b \ {i} : new[j] = b[j]
  BY <1>3 DEF LotChanges
<1>5. \A j \in DOMAIN b : new[j].id = b[j].id /\ new[j].mark = b[j].mark
  BY <1>4
<1>6. NoGaps(new)
  <2>1. \A j \in DOMAIN b : \A h \in 1..j : h \in DOMAIN b
    BY LotBagsAre
  <2>2. \A j \in DOMAIN b : b[j].id # NoGood => \A h \in 1..j : b[h].id # NoGood
    BY ListedAre DEF Ordered
  <2>3. \A j \in DOMAIN new : new[j].id # NoGood => \A h \in 1..j : new[h].id # NoGood
    BY <1>4, <1>5, <2>1, <2>2
  <2>. QED  BY <1>4, <2>3, ListedAre
<1>7. OneEach(new)
  BY <1>4, <1>5 DEF Ordered, OneEach, Same
<1>8. ASSUME NEW k \in Goods
      PROVE  /\ AmountIn(b, k) \in Nat /\ AmountIn(new, k) \in Nat
             /\ AmountIn(new, k) + (IF k = it.id THEN it.amount ELSE 0) = AmountIn(b, k)
  <2>1. PICK u, v, a, n : /\ u = AmountIn(b, k) /\ v = AmountIn(new, k)
                          /\ a = b[i].amount /\ n = it.amount
    OBVIOUS
  <2>2. /\ u \in Nat /\ v \in Nat /\ a \in Nat /\ n \in Nat /\ n < a
        /\ v + OfKind(b[i], k) = u + OfKind(x, k)
    BY <1>1, <1>3, <2>1 DEF LotChanges
  <2>3. CASE k = it.id
    <3>1. OfKind(x, k) = a - n /\ OfKind(b[i], k) = a
      BY <1>1, <2>1, <2>3 DEF OfKind
    <3>2. v + a = u + (a - n)
      BY <2>2, <3>1
    <3>3. v + n = u
      BY <2>2, <3>2
    <3>. QED  BY <2>1, <2>2, <2>3, <3>3
  <2>4. CASE k # it.id
    <3>1. OfKind(x, k) = 0 /\ OfKind(b[i], k) = 0
      BY <1>1, <2>4 DEF OfKind
    <3>. QED  BY <2>1, <2>2, <2>4, <3>1
  <2>. QED  BY <2>3, <2>4
<1>. QED  BY <1>4, <1>5, <1>6, <1>7, <1>8 DEF Withdrawn, Ordered

\* Taking all that a slot has: those behind it move up.
LEMMA WithdrawAll ==
  ASSUME NEW b \in LotBags, Ordered(b), NEW it \in Lots, NEW i \in ListedSlots(b),
         Same(b[i], it.id, it.mark), b[i].amount = it.amount,
         NEW new, new = [j \in DOMAIN b |-> IF j < i THEN b[j]
                                            ELSE IF j < Len(b) THEN b[j + 1] ELSE NoLot]
  PROVE  Withdrawn(b, it, new)
<1>1. PICK n \in Nat : n = Len(b) /\ DOMAIN b = 1..n
  BY LotBagsAre
<1>2. /\ i \in 1..n /\ b[i].id \in Goods /\ b[i].amount \in Nat /\ it.id = b[i].id
  BY <1>1, ListedAre DEF Same
<1>3. NoLot \in Lots /\ NoLot.id = NoGood /\ NoLot.amount = 0
  BY BankAssumption DEF NoLot, Lots
<1>4. ASSUME NEW j \in 1..n
      PROVE  /\ j < i => new[j] = b[j]
             /\ ~(j < i) /\ j < n => j + 1 \in 1..n /\ new[j] = b[j + 1]
             /\ ~(j < i) /\ ~(j < n) => new[j] = NoLot
  <2>1. new[j] = IF j < i THEN b[j] ELSE IF j < n THEN b[j + 1] ELSE NoLot
    BY <1>1
  <2>2. j < n => j + 1 \in 1..n
    OBVIOUS
  <2>. QED  BY <2>1, <2>2
<1>5. \A j \in 1..n : b[j] \in Lots /\ ((b[j].id = NoGood) <=> (b[j].amount = 0))
  BY <1>1, LotBagsAre
<1>6. \A j \in 1..n : new[j] \in Lots /\ ((new[j].id = NoGood) <=> (new[j].amount = 0))
  <2>1. ASSUME NEW j \in 1..n
        PROVE  new[j] \in Lots /\ ((new[j].id = NoGood) <=> (new[j].amount = 0))
    <3>1. CASE j < i
      BY <1>4, <1>5, <3>1
    <3>2. CASE ~(j < i) /\ j < n
      <4>1. j + 1 \in 1..n /\ new[j] = b[j + 1]
        BY <1>2, <1>4, <3>2
      <4>. QED  BY <1>5, <4>1
    <3>3. CASE ~(j < i) /\ ~(j < n)
      <4>1. new[j] = NoLot
        BY <1>2, <1>4, <3>3
      <4>. QED  BY <1>3, <4>1
    <3>. QED  BY <3>1, <3>2, <3>3
  <2>. QED  BY <2>1
<1>7. DOMAIN new = 1..n /\ new \in Seq(Lots) /\ Len(new) = n
  <2>1. new = [j \in 1..n |-> new[j]]
    BY <1>1
  <2>2. new \in [1..n -> Lots]
    BY <1>6, <2>1
  <2>. QED  BY <2>2
<1>8. new \in LotBags
  BY <1>6, <1>7 DEF LotBags
\* What is used came from a used slot, another one for each.
<1>9. PICK src : src = [j \in 1..n |-> IF j < i THEN j ELSE j + 1]
  OBVIOUS
<1>10. \A j \in 1..n : new[j].id # NoGood =>
         src[j] \in 1..n /\ new[j] = b[src[j]] /\ src[j] # i
  <2>1. ASSUME NEW j \in 1..n, new[j].id # NoGood
        PROVE  src[j] \in 1..n /\ new[j] = b[src[j]] /\ src[j] # i
    <3>1. CASE j < i
      BY <1>2, <1>4, <1>9, <3>1
    <3>2. CASE ~(j < i)
      <4>1. j < n
        BY <1>3, <1>4, <2>1, <3>2
      <4>2. j + 1 \in 1..n /\ new[j] = b[j + 1]
        BY <1>4, <3>2, <4>1
      <4>3. src[j] = j + 1
        BY <1>9, <3>2
      <4>4. j + 1 # i
        <5>1. PICK z : z = i /\ z \in 1..n
          BY <1>2
        <5>. QED  BY <3>2, <5>1
      <4>. QED  BY <4>2, <4>3, <4>4
    <3>. QED  BY <3>1, <3>2
  <2>. QED  BY <2>1
<1>11. NoGaps(new)
  <2>1. ASSUME NEW j \in 1..n, new[j].id # NoGood, NEW h \in 1..j PROVE new[h].id # NoGood
    <3>1. src[j] \in 1..n /\ b[src[j]].id # NoGood
      BY <1>10, <2>1
    <3>2. \A g \in 1..src[j] : b[g].id # NoGood
      BY <1>1, <3>1, ListedAre DEF Ordered
    <3>3. h \in 1..n
      OBVIOUS
    <3>4. CASE h < i
      <4>1. h \in 1..src[j]
        BY <1>2, <1>9, <3>1
      <4>. QED  BY <1>4, <3>2, <3>3, <3>4, <4>1
    <3>5. CASE ~(h < i)
      <4>1. ~(j < i) /\ h >= i
        BY <1>2, <3>5
      <4>2. src[j] = j + 1 /\ j + 1 <= n
        BY <1>9, <3>1, <4>1
      <4>3. h < n /\ h + 1 \in 1..src[j]
        BY <4>2
      <4>4. new[h] = b[h + 1]
        BY <1>4, <3>3, <3>5, <4>3
      <4>. QED  BY <3>2, <4>3, <4>4
    <3>. QED  BY <3>4, <3>5
  <2>. QED  BY <1>7, <1>8, <2>1, ListedAre
<1>12. OneEach(new)
  <2>1. ASSUME NEW p \in 1..n, NEW q \in 1..n, new[p].id # NoGood,
               Same(new[q], new[p].id, new[p].mark)
        PROVE  p = q
    <3>1. new[q].id # NoGood
      BY <2>1 DEF Same
    <3>2. /\ src[p] \in 1..n /\ new[p] = b[src[p]] /\ src[q] \in 1..n /\ new[q] = b[src[q]]
      BY <1>10, <2>1, <3>1
    <3>3. src[p] = src[q]
      BY <1>1, <2>1, <3>2 DEF Ordered, OneEach
    <3>4. PICK z, v, w \in Int : z = i /\ v = p /\ w = q
      BY <1>1, <1>2
    <3>5. (IF v < z THEN v ELSE v + 1) = (IF w < z THEN w ELSE w + 1)
      BY <1>9, <3>3, <3>4
    <3>6. v = w
      BY <3>4, <3>5
    <3>. QED  BY <3>4, <3>6
  <2>. QED  BY <1>7, <2>1 DEF OneEach
<1>13. \A j \in DOMAIN new : new[j].id \in Goods => \E h \in DOMAIN b : b[h].id = new[j].id
  BY <1>1, <1>7, <1>10, BankAssumption
<1>14. ASSUME NEW k \in Goods
       PROVE  /\ AmountIn(b, k) \in Nat /\ AmountIn(new, k) \in Nat
              /\ AmountIn(new, k) + (IF k = it.id THEN it.amount ELSE 0) = AmountIn(b, k)
  <2>1. PICK f, h : f = KindAt(b, k) /\ h = KindAt(new, k)
    OBVIOUS
  <2>2. /\ Amounts(f, 1..n) /\ Amounts(h, 1..n)
        /\ AmountIn(b, k) = SumOf(f, 1..n) /\ AmountIn(b, k) \in Nat
        /\ AmountIn(new, k) = SumOf(h, 1..n) /\ AmountIn(new, k) \in Nat
    BY <1>1, <1>7, <1>8, <2>1, CountsAre
  <2>3. \A j \in 1..n : f[j] = OfKind(b[j], k) /\ h[j] = OfKind(new[j], k)
    BY <1>1, <1>7, <2>1 DEF KindAt
  <2>4. OfKind(NoLot, k) = 0
    BY <1>3, BankAssumption DEF OfKind
  <2>5. \A j \in 1..n : h[j] = IF j < i THEN f[j] ELSE IF j < n THEN f[j + 1] ELSE 0
    <3>1. ASSUME NEW j \in 1..n
          PROVE  h[j] = IF j < i THEN f[j] ELSE IF j < n THEN f[j + 1] ELSE 0
      <4>1. CASE j < i
        <5>1. new[j] = b[j]
          BY <1>4, <4>1
        <5>. QED  BY <2>3, <4>1, <5>1
      <4>2. CASE ~(j < i) /\ j < n
        <5>1. j + 1 \in 1..n /\ new[j] = b[j + 1]
          BY <1>2, <1>4, <4>2
        <5>. QED  BY <2>3, <4>2, <5>1
      <4>3. CASE ~(j < i) /\ ~(j < n)
        <5>1. new[j] = NoLot
          BY <1>2, <1>4, <4>3
        <5>. QED  BY <2>3, <2>4, <4>3, <5>1
      <4>. QED  BY <4>1, <4>2, <4>3
    <3>. QED  BY <3>1
  <2>6. SumOf(h, 1..n) + f[i] = SumOf(f, 1..n)
    BY <1>2, <2>2, <2>5, SumShift
  <2>7. f[i] = IF k = it.id THEN it.amount ELSE 0
    BY <1>2, <2>3 DEF OfKind
  <2>. QED  BY <2>2, <2>6, <2>7
<1>. QED  BY <1>1, <1>7, <1>8, <1>11, <1>12, <1>13, <1>14 DEF Withdrawn, Ordered

\* A withdrawal takes what it names from the one slot of the kind and mark.
LEMMA WithdrawIs ==
  ASSUME NEW b \in LotBags, Ordered(b), NEW it \in Lots, NEW i \in ListedSlots(b),
         Same(b[i], it.id, it.mark), it.amount <= b[i].amount
  PROVE  Withdrawn(b, it, bankwithdraw(b, it))
<1>1. /\ i \in DOMAIN b /\ b[i].id \in Goods /\ b[i].amount \in Nat /\ it.amount \in Nat
  BY ListedAre DEF Lots
<1>2. SlotOf(b, it.id, it.mark) = {i}
  <2>1. \A j \in DOMAIN b : Same(b[j], it.id, it.mark) => j = i
    BY <1>1, BankAssumption DEF Ordered, OneEach, Same
  <2>2. {j \in DOMAIN b : Same(b[j], it.id, it.mark)} = {i}
    BY <1>1, <2>1
  <2>3. i \in Nat
    BY <1>1, LotBagsAre
  <2>4. Firsts({i}) = {i}
    BY <2>3 DEF Firsts
  <2>. QED  BY <2>2, <2>4 DEF SlotOf
<1>3. (CHOOSE j \in {i} : TRUE) = i
  OBVIOUS
<1>4. PICK new : new = bankwithdraw(b, it)
  OBVIOUS
<1>7. /\ (CHOOSE j \in SlotOf(b, it.id, it.mark) : TRUE) = i
      /\ SlotOf(b, it.id, it.mark) # {} /\ ~(b[i].amount < it.amount)
      /\ b[i].amount = it.amount => ~(b[i].amount > it.amount)
  BY <1>1, <1>2, <1>3
<1>5. CASE b[i].amount > it.amount
  <2>1. PICK x : x = [b[i] EXCEPT !.amount = b[i].amount - it.amount]
    OBVIOUS
  <2>2. /\ x \in Lots /\ x.id = b[i].id /\ x.mark = b[i].mark
        /\ x.amount = b[i].amount - it.amount
    <3>1. b[i] \in Lots /\ b[i].amount - it.amount \in Nat
      BY <1>1, <1>5, LotBagsAre
    <3>. QED  BY <2>1, <3>1 DEF Lots
  <2>3. new = [b EXCEPT ![i] = x]
    BY <1>4, <1>5, <1>7, <2>1 DEF bankwithdraw
  <2>. QED  BY <1>4, <1>5, <2>2, <2>3, WithdrawSome DEF LotSet
<1>6. CASE b[i].amount = it.amount
  <2>1. new = [j \in DOMAIN b |-> IF j < i THEN b[j]
                                  ELSE IF j < Len(b) THEN b[j + 1] ELSE NoLot]
    BY <1>4, <1>6, <1>7 DEF bankwithdraw
  <2>. QED  BY <1>4, <1>6, <2>1, WithdrawAll
<1>. QED  BY <1>1, <1>5, <1>6

----------------------------------------------------------------------------
(* The bank: the inductive invariant and what a step does.                 *)

\* Kinds of dialogs, and what parcels, dialogs and posts are.
Asks == {"nothing", "deposit", "withdraw", "parcel"}
Talks == [ask : Asks, slot : Nat, id : Goods \cup {NoGood}, amount : Nat]
Posts == [to : Clients \cup {NoGood}, pos : Nat, amount : Nat]
ParcelRows == [nr : 1..MaxParcels, to : Clients, pos : Nat \ {0}, lot : Lots]
BankFaults == {"bankfull", "copied", "doubled", "switched"}

\* Parcels when n were sent: each has something, and no position above its
\* number.
ParcelsFit(P, n) ==
  /\ P \subseteq ParcelRows /\ IsFiniteSet(P)
  /\ \A q \in P : q.lot.id \in Goods /\ q.lot.amount > 0 /\ q.nr <= n /\ q.pos <= q.nr

\* What a dialog t of a player that has h and b in the bank knows is there;
\* while p is posted, the player keeps what is sent.
TalkFits(h, b, t) ==
  /\ t.ask \in {"deposit", "parcel"} => t.slot \in DOMAIN h
  /\ t.ask = "deposit" => t.id \in Goods \ Refused
  /\ t.ask = "withdraw" => t.slot \in ListedSlots(b)
PostFits(h, t, p, n) ==
  p # NotPosting =>
    /\ t.ask = "parcel" /\ h[t.slot].id \in Goods
    /\ p.to \in Clients /\ p.pos \in 1..(n + 1) /\ p.amount > 0
    /\ PlainAmount(h, h[t.slot].id) >= p.amount

\* All there is of a kind.
Everything(H, B, E, P, k) == FloorOf(E, k) + HeldOf(H, B, k) + SentOf(P, k)

BankTyped ==
  /\ hold \in [Clients -> LotBags] /\ banks \in [Clients -> LotBags]
  /\ \A c \in Clients : Len(banks[c]) = MAX_BANK_SLOTS
  /\ heap \in [Goods -> [Marks -> Nat]]
  /\ sent \in 0..MaxParcels /\ ParcelsFit(parcels, sent)
  /\ talk \in [Clients -> Talks] /\ posting \in [Clients -> Posts]
  /\ owing \in [Goods -> Nat] /\ faults \subseteq BankFaults

BankIInv ==
  /\ BankTyped
  /\ \A c \in Clients : /\ Ordered(banks[c])
                        /\ TalkFits(hold[c], banks[c], talk[c])
                        /\ PostFits(hold[c], talk[c], posting[c], sent)
  /\ GoodsStay /\ BankAccepts

\* A step of player c, to which these are what it has, its bank, the floor,
\* parcels and how many were sent, its dialog, its post and the faults.
BankTo(c, h, b, e, P, n, t, p, F) ==
  /\ hold' = [hold EXCEPT ![c] = h] /\ banks' = [banks EXCEPT ![c] = b]
  /\ heap' = e /\ parcels' = P /\ sent' = n
  /\ talk' = [talk EXCEPT ![c] = t] /\ posting' = [posting EXCEPT ![c] = p]
  /\ owing' = owing /\ faults' = F

Around(h, b, e, P, k) == FloorOf(e, k) + (AmountIn(h, k) + AmountIn(b, k)) + SentOf(P, k)
AmountsFit(c, h, b, e, P, F) ==
  \A k \in Goods :
    /\ Around(h, b, e, P, k) < Around(hold[c], banks[c], heap, parcels, k)
         => F \cap {"bankfull", "doubled"} # {}
    /\ Around(h, b, e, P, k) > Around(hold[c], banks[c], heap, parcels, k)
         => "copied" \in F
BankFits(c, h, b, e, P, n, t, p, F) ==
  /\ h \in LotBags /\ b \in LotBags /\ Len(b) = Len(banks[c]) /\ Ordered(b)
  /\ e \in [Goods -> [Marks -> Nat]] /\ n \in sent..MaxParcels /\ ParcelsFit(P, n)
  /\ t \in Talks /\ p \in Posts /\ TalkFits(h, b, t) /\ PostFits(h, t, p, n)
  /\ F \in SUBSET BankFaults /\ faults \subseteq F
  /\ AmountsFit(c, h, b, e, P, F)
  /\ "switched" \notin F =>
       \A i \in DOMAIN b :
         b[i].id \in Refused => \E j \in DOMAIN banks[c] : banks[c][j].id \in Refused

\* What there is of a kind is what is on the floor, had and sent.
LEMMA AllIsEverything ==
  ASSUME NEW k PROVE AllOf(k) = Everything(hold, banks, heap, parcels, k)
BY DEF AllOf, Everything, FloorOf, HeldOf, SentOf, LotOf

\* A step to what fits keeps the invariant.
LEMMA BankFitsIsEnough ==
  ASSUME BankIInv, NEW c \in Clients, NEW h, NEW b, NEW e, NEW P, NEW n, NEW t, NEW p, NEW F,
         BankFits(c, h, b, e, P, n, t, p, F), BankTo(c, h, b, e, P, n, t, p, F)
  PROVE  BankIInv'
<1>1. BankTyped /\ MaxParcels \in Nat
  BY BankAssumption DEF BankIInv
<1>2. /\ hold \in [Clients -> LotBags] /\ banks \in [Clients -> LotBags]
      /\ heap \in [Goods -> [Marks -> Nat]] /\ sent \in 0..MaxParcels
      /\ talk \in [Clients -> Talks] /\ posting \in [Clients -> Posts]
      /\ owing \in [Goods -> Nat]
  BY <1>1 DEF BankTyped
<1>3. /\ h \in LotBags /\ b \in LotBags /\ Len(b) = Len(banks[c]) /\ Ordered(b)
      /\ e \in [Goods -> [Marks -> Nat]] /\ n \in sent..MaxParcels /\ ParcelsFit(P, n)
      /\ t \in Talks /\ p \in Posts /\ TalkFits(h, b, t) /\ PostFits(h, t, p, n)
      /\ F \in SUBSET BankFaults /\ faults \subseteq F
  BY DEF BankFits
<1>4. /\ hold' = [hold EXCEPT ![c] = h] /\ banks' = [banks EXCEPT ![c] = b]
      /\ heap' = e /\ parcels' = P /\ sent' = n
      /\ talk' = [talk EXCEPT ![c] = t] /\ posting' = [posting EXCEPT ![c] = p]
      /\ owing' = owing /\ faults' = F
  BY DEF BankTo
<1>5. /\ hold'[c] = h /\ banks'[c] = b /\ talk'[c] = t /\ posting'[c] = p
      /\ \A d \in Clients \ {c} : /\ hold'[d] = hold[d] /\ banks'[d] = banks[d]
                                  /\ talk'[d] = talk[d] /\ posting'[d] = posting[d]
  BY <1>2, <1>4
<1>6. BankTyped'
  <2>1. /\ hold' \in [Clients -> LotBags] /\ banks' \in [Clients -> LotBags]
        /\ talk' \in [Clients -> Talks] /\ posting' \in [Clients -> Posts]
    BY <1>2, <1>3, <1>4
  <2>2. \A d \in Clients : Len(banks'[d]) = MAX_BANK_SLOTS
    BY <1>1, <1>3, <1>5 DEF BankTyped
  <2>3. sent' \in 0..MaxParcels
    BY <1>1, <1>2, <1>3, <1>4
  <2>. QED  BY <1>2, <1>3, <1>4, <2>1, <2>2, <2>3 DEF BankTyped
<1>7. ASSUME NEW d \in Clients
      PROVE  /\ Ordered(banks'[d]) /\ TalkFits(hold'[d], banks'[d], talk'[d])
             /\ PostFits(hold'[d], talk'[d], posting'[d], sent')
  <2>1. CASE d = c
    BY <1>3, <1>4, <1>5, <2>1
  <2>2. CASE d # c
    <3>1. /\ Ordered(banks[d]) /\ TalkFits(hold[d], banks[d], talk[d])
          /\ PostFits(hold[d], talk[d], posting[d], sent)
      BY DEF BankIInv
    <3>2. /\ hold'[d] = hold[d] /\ banks'[d] = banks[d]
          /\ talk'[d] = talk[d] /\ posting'[d] = posting[d]
      BY <1>5, <2>2
    <3>3. 1..(sent + 1) \subseteq 1..(n + 1)
      BY <1>1, <1>2, <1>3
    <3>4. PostFits(hold[d], talk[d], posting[d], n)
      BY <3>1, <3>3 DEF PostFits
    <3>. QED  BY <1>4, <3>1, <3>2, <3>4
  <2>. QED  BY <2>1, <2>2
<1>8. ASSUME NEW k \in Goods
      PROVE  /\ AllOf(k)' < owing[k] => F \cap {"bankfull", "doubled"} # {}
             /\ AllOf(k)' > owing[k] => "copied" \in F
  <2>1. PICK f, g, s : f = FloorOf(heap, k) /\ g = HeldOf(hold, banks, k) /\ s = SentOf(parcels, k)
    OBVIOUS
  <2>2. PICK f2, g2, s2 : f2 = FloorOf(e, k) /\ g2 = HeldOf(hold', banks', k) /\ s2 = SentOf(P, k)
    OBVIOUS
  <2>3. PICK x, x2 : x = AmountIn(hold[c], k) + AmountIn(banks[c], k)
                     /\ x2 = AmountIn(h, k) + AmountIn(b, k)
    OBVIOUS
  <2>4. f \in Nat /\ f2 \in Nat
    <3>1. ASSUME NEW E \in [Goods -> [Marks -> Nat]] PROVE FloorOf(E, k) \in Nat
      <4>1. PICK m : m \in Marks
        BY BankAssumption
      <4>2. PICK new : FloorSet(E, k, m, 0, new)
        BY DEF FloorSet
      <4>. QED  BY <4>1, <4>2, FloorChange
    <3>. QED  BY <1>2, <1>3, <2>1, <2>2, <3>1
  <2>5. s \in Nat /\ s2 \in Nat
    <3>1. ASSUME NEW Q, NEW m, ParcelsFit(Q, m) PROVE SentOf(Q, k) \in Nat
      <4>1. IsFiniteSet(Q) /\ \A q \in Q : q.lot.amount \in Nat
        BY <3>1 DEF ParcelsFit, ParcelRows, Lots
      <4>. QED  BY <4>1, SentIs
    <3>. QED  BY <1>1, <1>3, <2>1, <2>2, <3>1 DEF BankTyped
  <2>6. g \in Nat /\ g2 \in Nat /\ g2 + x = g + x2
    <3>1. PICK H, B, H2, B2 : H = hold /\ B = banks /\ H2 = hold' /\ B2 = banks'
      OBVIOUS
    <3>2. /\ H \in [Clients -> LotBags] /\ B \in [Clients -> LotBags]
          /\ LotSet(H, c, h, H2) /\ LotSet(B, c, b, B2)
          /\ h \in LotBags /\ b \in LotBags
      BY <1>2, <1>3, <1>4, <3>1 DEF LotSet
    <3>3. /\ HeldOf(H, B, k) \in Nat /\ HeldOf(H2, B2, k) \in Nat
          /\ HeldOf(H2, B2, k) + (AmountIn(H[c], k) + AmountIn(B[c], k))
               = HeldOf(H, B, k) + (AmountIn(h, k) + AmountIn(b, k))
      BY <3>2, HeldChange
    <3>. QED  BY <2>1, <2>2, <2>3, <3>1, <3>3
  <2>7. x \in Nat /\ x2 \in Nat
    <3>1. /\ AmountIn(hold[c], k) \in Nat /\ AmountIn(banks[c], k) \in Nat
          /\ AmountIn(h, k) \in Nat /\ AmountIn(b, k) \in Nat
      BY <1>2, <1>3, CountsAre
    <3>. QED  BY <2>3, <3>1
  <2>8. /\ f2 + x2 + s2 < f + x + s => F \cap {"bankfull", "doubled"} # {}
        /\ f2 + x2 + s2 > f + x + s => "copied" \in F
    BY <2>1, <2>2, <2>3 DEF BankFits, AmountsFit, Around
  <2>9. PICK o \in Nat : o = owing[k]
    BY <1>2
  <2>10. AllOf(k) = f + g + s
    BY <2>1, AllIsEverything DEF Everything
  <2>11. AllOf(k)' = f2 + g2 + s2
    <3>1. AllOf(k)' = Everything(hold', banks', heap', parcels', k)
      BY AllIsEverything DEF AllOf, Everything, FloorOf, HeldOf, SentOf, LotOf
    <3>. QED  BY <1>4, <2>2, <3>1 DEF Everything
  <2>12. /\ f + g + s < o => F \cap {"bankfull", "doubled"} # {}
         /\ f + g + s > o => "copied" \in F
    BY <1>3, <2>9, <2>10 DEF BankIInv, GoodsStay
  <2>13. f2 + g2 + s2 < o => f + g + s < o \/ f2 + x2 + s2 < f + x + s
    BY <2>4, <2>5, <2>6, <2>7, <2>9
  <2>14. f2 + g2 + s2 > o => f + g + s > o \/ f2 + x2 + s2 > f + x + s
    BY <2>4, <2>5, <2>6, <2>7, <2>9
  <2>. QED  BY <2>8, <2>9, <2>11, <2>12, <2>13, <2>14
<1>9. GoodsStay'
  BY <1>4, <1>8 DEF GoodsStay
<1>10. BankAccepts'
  <2>1. ASSUME "switched" \notin F, NEW d \in Clients, NEW i \in DOMAIN banks'[d],
               banks'[d][i].id \in Refused
        PROVE  FALSE
    <3>1. \A a \in Clients : \A j \in DOMAIN banks[a] : banks[a][j].id \notin Refused
      BY <1>3, <2>1 DEF BankIInv, BankAccepts
    <3>2. CASE d = c
      BY <1>5, <2>1, <3>1, <3>2 DEF BankFits
    <3>3. CASE d # c
      BY <1>5, <2>1, <3>1, <3>3
    <3>. QED  BY <3>2, <3>3
  <2>. QED  BY <1>4, <2>1 DEF BankAccepts
<1>. QED  BY <1>6, <1>7, <1>9, <1>10 DEF BankIInv

\* What the invariant says of a player.
BankOf(c) ==
  /\ hold[c] \in LotBags /\ banks[c] \in LotBags /\ Ordered(banks[c])
  /\ heap \in [Goods -> [Marks -> Nat]] /\ sent \in 0..MaxParcels /\ MaxParcels \in Nat
  /\ ParcelsFit(parcels, sent) /\ talk[c] \in Talks /\ posting[c] \in Posts
  /\ TalkFits(hold[c], banks[c], talk[c]) /\ PostFits(hold[c], talk[c], posting[c], sent)
  /\ faults \in SUBSET BankFaults
  /\ hold = [hold EXCEPT ![c] = hold[c]] /\ banks = [banks EXCEPT ![c] = banks[c]]
  /\ talk = [talk EXCEPT ![c] = talk[c]] /\ posting = [posting EXCEPT ![c] = posting[c]]
  /\ \A k \in Goods : /\ FloorOf(heap, k) \in Nat /\ SentOf(parcels, k) \in Nat
                      /\ AmountIn(hold[c], k) \in Nat /\ AmountIn(banks[c], k) \in Nat
\* The invariant says it of every player.
LEMMA BankOfIs ==
  ASSUME BankIInv, NEW c \in Clients PROVE BankOf(c)
<1>1. /\ hold \in [Clients -> LotBags] /\ banks \in [Clients -> LotBags]
      /\ heap \in [Goods -> [Marks -> Nat]] /\ sent \in 0..MaxParcels
      /\ ParcelsFit(parcels, sent)
      /\ talk \in [Clients -> Talks] /\ posting \in [Clients -> Posts]
      /\ faults \subseteq BankFaults /\ MaxParcels \in Nat
  BY BankAssumption DEF BankIInv, BankTyped
<1>2. /\ hold = [hold EXCEPT ![c] = hold[c]] /\ banks = [banks EXCEPT ![c] = banks[c]]
      /\ talk = [talk EXCEPT ![c] = talk[c]] /\ posting = [posting EXCEPT ![c] = posting[c]]
  BY <1>1
<1>3. hold[c] \in LotBags /\ banks[c] \in LotBags /\ talk[c] \in Talks /\ posting[c] \in Posts
  BY <1>1
<1>4. /\ Ordered(banks[c]) /\ TalkFits(hold[c], banks[c], talk[c])
      /\ PostFits(hold[c], talk[c], posting[c], sent)
  BY DEF BankIInv
<1>5. ASSUME NEW k \in Goods
      PROVE  /\ FloorOf(heap, k) \in Nat /\ SentOf(parcels, k) \in Nat
             /\ AmountIn(hold[c], k) \in Nat /\ AmountIn(banks[c], k) \in Nat
  <2>1. PICK m : m \in Marks
    BY BankAssumption
  <2>2. PICK new : FloorSet(heap, k, m, 0, new)
    BY DEF FloorSet
  <2>3. FloorOf(heap, k) \in Nat
    BY <1>1, <2>1, <2>2, FloorChange
  <2>4. IsFiniteSet(parcels) /\ \A q \in parcels : q.lot.amount \in Nat
    BY <1>1 DEF ParcelsFit, ParcelRows, Lots
  <2>. QED  BY <1>3, <2>3, <2>4, SentIs, CountsAre
<1>. QED  BY <1>1, <1>2, <1>3, <1>4, <1>5 DEF BankOf

\* Only the dialog or the post of a player changes.
LEMMA TalkStep ==
  ASSUME BankIInv, NEW c \in Clients, NEW t, NEW p,
         BankTo(c, hold[c], banks[c], heap, parcels, sent, t, p, faults),
         t \in Talks, p \in Posts, TalkFits(hold[c], banks[c], t),
         PostFits(hold[c], t, p, sent)
  PROVE  BankIInv'
<1>1. BankOf(c)
  BY BankOfIs
<1>2. AmountsFit(c, hold[c], banks[c], heap, parcels, faults)
  <2>1. ASSUME NEW k \in Goods
        PROVE  ~(Around(hold[c], banks[c], heap, parcels, k)
                   < Around(hold[c], banks[c], heap, parcels, k))
    <3>1. PICK x : x = Around(hold[c], banks[c], heap, parcels, k)
      OBVIOUS
    <3>2. x \in Nat
      BY <1>1, <3>1 DEF Around, BankOf
    <3>. QED  BY <3>1, <3>2
  <2>2. ASSUME NEW k \in Goods
        PROVE  ~(Around(hold[c], banks[c], heap, parcels, k)
                   > Around(hold[c], banks[c], heap, parcels, k))
    <3>1. PICK x : x = Around(hold[c], banks[c], heap, parcels, k)
      OBVIOUS
    <3>2. x \in Nat
      BY <1>1, <3>1 DEF Around, BankOf
    <3>. QED  BY <3>1, <3>2
  <2>. QED  BY <2>1, <2>2 DEF AmountsFit
<1>3. sent \in sent..MaxParcels
  BY <1>1 DEF BankOf
<1>4. BankFits(c, hold[c], banks[c], heap, parcels, sent, t, p, faults)
  BY <1>1, <1>2, <1>3 DEF BankFits, BankOf
<1>. QED  BY <1>4, BankFitsIsEnough

----------------------------------------------------------------------------
(* The bank: its actions.                                                  *)

\* A bag h takes what it can of a lot, whose rest lies on the floor E beside x.
AddsTo(h, E, it, x, got, new) ==
  /\ h \in LotBags /\ E \in [Goods -> [Marks -> Nat]] /\ it \in Lots /\ it.id \in Goods
  /\ x \in Nat /\ got = Added(h, it) /\ FloorSet(E, it.id, it.mark, x + got.left, new)

\* A bag and the floor have together what they had and the lot.
LEMMA AddsOnFloor ==
  ASSUME NEW h, NEW E, NEW it, NEW x, NEW got, NEW new, AddsTo(h, E, it, x, got, new)
  PROVE  /\ got.b \in LotBags /\ Len(got.b) = Len(h) /\ got.left \in Nat
         /\ new \in [Goods -> [Marks -> Nat]] /\ E[it.id][it.mark] \in Nat
         /\ \A k \in Goods :
              /\ FloorOf(E, k) \in Nat /\ FloorOf(new, k) \in Nat
              /\ AmountIn(h, k) \in Nat /\ AmountIn(got.b, k) \in Nat
              /\ FloorOf(new, k) + AmountIn(got.b, k)
                   + (IF k = it.id THEN E[it.id][it.mark] ELSE 0)
                 = FloorOf(E, k) + AmountIn(h, k)
                     + (IF k = it.id THEN x + it.amount ELSE 0)
<1>0. /\ h \in LotBags /\ E \in [Goods -> [Marks -> Nat]] /\ it \in Lots /\ it.id \in Goods
      /\ x \in Nat /\ got = Added(h, it)
  BY DEF AddsTo
<1>1. got \in Fillings(h, it)
  BY <1>0, AddedIs
<1>2. /\ got.b \in LotBags /\ got.left \in Nat /\ Len(got.b) = Len(h)
      /\ \A g \in Goods : AmountIn(got.b, g) + (IF g = it.id THEN got.left ELSE 0)
                            = AmountIn(h, g) + (IF g = it.id THEN it.amount ELSE 0)
  BY <1>1 DEF Fillings
<1>3. it.mark \in Marks /\ it.amount \in Nat
  BY <1>0 DEF Lots
<1>4. PICK id, mark, y : id = it.id /\ mark = it.mark /\ y = x + got.left
  OBVIOUS
<1>5. /\ id \in Goods /\ mark \in Marks /\ y \in Nat
      /\ FloorSet(E, id, mark, y, new)
  BY <1>0, <1>2, <1>3, <1>4 DEF AddsTo
<1>6. /\ new \in [Goods -> [Marks -> Nat]] /\ E[id][mark] \in Nat
      /\ \A k \in Goods :
           /\ FloorOf(E, k) \in Nat /\ FloorOf(new, k) \in Nat
           /\ k = id => FloorOf(new, k) + E[id][mark] = FloorOf(E, k) + y
           /\ k # id => FloorOf(new, k) = FloorOf(E, k)
  BY <1>0, <1>5, FloorChange
<1>7. ASSUME NEW k \in Goods
      PROVE  /\ AmountIn(h, k) \in Nat /\ AmountIn(got.b, k) \in Nat
             /\ FloorOf(new, k) + AmountIn(got.b, k)
                  + (IF k = it.id THEN E[it.id][it.mark] ELSE 0)
                = FloorOf(E, k) + AmountIn(h, k) + (IF k = it.id THEN x + it.amount ELSE 0)
  <2>1. AmountIn(h, k) \in Nat /\ AmountIn(got.b, k) \in Nat
    BY <1>0, <1>2, CountsAre
  <2>2. PICK f, f2, a, a2, l, z, n : /\ f = FloorOf(E, k) /\ f2 = FloorOf(new, k)
                                     /\ a = AmountIn(h, k) /\ a2 = AmountIn(got.b, k)
                                     /\ l = got.left /\ z = E[it.id][it.mark] /\ n = it.amount
    OBVIOUS
  <2>3. /\ f \in Nat /\ f2 \in Nat /\ a \in Nat /\ a2 \in Nat /\ l \in Nat /\ z \in Nat
        /\ n \in Nat
    BY <1>0, <1>2, <1>3, <1>4, <1>6, <2>1, <2>2
  <2>4. CASE k = it.id
    <3>1. a2 + l = a + n
      BY <1>2, <2>2, <2>4
    <3>2. f2 + z = f + (x + l)
      BY <1>4, <1>6, <2>2, <2>4
    <3>3. f2 + a2 + z = f + a + (x + n)
      BY <1>0, <2>3, <3>1, <3>2
    <3>. QED  BY <2>1, <2>2, <2>4, <3>3
  <2>5. CASE k # it.id
    <3>1. a2 + 0 = a + 0 /\ f2 = f
      BY <1>2, <1>4, <1>6, <2>2, <2>5
    <3>2. f2 + a2 + 0 = f + a + 0
      BY <2>3, <3>1
    <3>. QED  BY <2>1, <2>2, <2>5, <3>2
  <2>. QED  BY <2>4, <2>5
<1>. QED  BY <1>2, <1>4, <1>6, <1>7

\* Without a post or a dialog there is nothing to keep.
LEMMA QuietFits ==
  ASSUME NEW h, NEW b, NEW t, NEW n
  PROVE  TalkFits(h, b, Quiet) /\ PostFits(h, t, NotPosting, n) /\ Quiet \in Talks
         /\ NotPosting \in Posts
BY DEF TalkFits, PostFits, Quiet, NotPosting, Talks, Asks, Posts

\* A dialog is left.
LEMMA leaveKeeps ==
  ASSUME BankIInv, NEW c \in Clients, leave(c) PROVE BankIInv'
<1>1. BankOf(c)
  BY BankOfIs
<1>2. BankTo(c, hold[c], banks[c], heap, parcels, sent, Quiet, posting[c], faults)
  BY <1>1 DEF BankTo, BankOf, leave, Ends
<1>3. posting[c] = NotPosting
  BY DEF leave, Free
<1>. QED  BY <1>1, <1>2, <1>3, QuietFits, TalkStep DEF BankOf

\* Something to deposit is chosen.
LEMMA choose_depositKeeps ==
  ASSUME BankIInv, NEW c \in Clients, NEW s \in DOMAIN hold[c], choose_deposit(c, s)
  PROVE  BankIInv'
<1>1. BankOf(c)
  BY BankOfIs
<1>2. PICK k, n : /\ k = hold[c][s].id
                  /\ n = IF maxAmount[k] > 1 /\ hold[c][s].amount > 1 THEN 0 ELSE 1
  OBVIOUS
<1>3. k \in Goods \ Refused /\ posting[c] = NotPosting
  BY <1>2 DEF choose_deposit, Asked
<1>4. PICK t : t = [ask |-> "deposit", slot |-> s, id |-> k, amount |-> n]
  OBVIOUS
<1>5. t.ask = "deposit" /\ t.slot = s /\ t.id = k /\ t \in Talks
  <2>1. n \in Nat /\ s \in Nat
    BY <1>1, <1>2, LotBagsAre DEF BankOf
  <2>. QED  BY <1>3, <1>4, <2>1 DEF Talks, Asks
<1>6. TalkFits(hold[c], banks[c], t)
  BY <1>3, <1>5 DEF TalkFits
<1>7. BankTo(c, hold[c], banks[c], heap, parcels, sent, t, NotPosting, faults)
  BY <1>1, <1>2, <1>3, <1>4 DEF BankTo, BankOf, choose_deposit
<1>. QED  BY <1>5, <1>6, <1>7, QuietFits, TalkStep

\* The amount to deposit is said.
LEMMA amount_to_depositKeeps ==
  ASSUME BankIInv, NEW c \in Clients, NEW n \in 1..MaxAsked, amount_to_deposit(c, n)
  PROVE  BankIInv'
<1>1. BankOf(c)
  BY BankOfIs
<1>2. PICK has, m : /\ has = PlainAmount(hold[c], ChosenLot(c).id)
                    /\ m = IF n <= has THEN n ELSE has
  OBVIOUS
<1>3. m \in Nat
  <2>1. has \in Nat
    BY <1>1, <1>2, CountsAre DEF BankOf
  <2>. QED  BY <1>2, <2>1
<1>4. PICK t : t = IF m = 0 THEN Quiet ELSE [talk[c] EXCEPT !.amount = m]
  OBVIOUS
<1>5. talk[c].ask = "deposit" /\ posting[c] = NotPosting
  BY DEF amount_to_deposit, Asked
<1>6. t \in Talks /\ TalkFits(hold[c], banks[c], t)
  <2>1. CASE m = 0
    BY <1>4, <2>1, QuietFits
  <2>2. CASE m # 0
    <3>1. t = [talk[c] EXCEPT !.amount = m] /\ talk[c] \in Talks
      BY <1>1, <1>4, <2>2 DEF BankOf
    <3>2. t \in Talks /\ t.ask = talk[c].ask /\ t.slot = talk[c].slot /\ t.id = talk[c].id
      BY <1>3, <3>1 DEF Talks
    <3>. QED  BY <1>1, <3>2 DEF BankOf, TalkFits
  <2>. QED  BY <2>1, <2>2
<1>7. BankTo(c, hold[c], banks[c], heap, parcels, sent, t, NotPosting, faults)
  <2>1. talk' = [talk EXCEPT ![c] = t]
    BY <1>2, <1>4 DEF amount_to_deposit
  <2>. QED  BY <1>1, <1>5, <2>1 DEF BankTo, BankOf, amount_to_deposit
<1>. QED  BY <1>6, <1>7, QuietFits, TalkStep

\* Something to withdraw is chosen.
LEMMA choose_withdrawKeeps ==
  ASSUME BankIInv, NEW c \in Clients, NEW i \in DOMAIN banks[c], choose_withdraw(c, i)
  PROVE  BankIInv'
<1>1. BankOf(c)
  BY BankOfIs
<1>2. PICK b : b = banks[c]
  OBVIOUS
<1>3. PICK f \in Firsts({j \in ListedSlots(b) : b[j].id = b[i].id}) :
        talk' = [talk EXCEPT ![c] = [ask |-> "withdraw", slot |-> f, id |-> b[f].id, amount |-> 0]]
  BY <1>2 DEF choose_withdraw
<1>4. f \in ListedSlots(b) /\ b \in LotBags
  BY <1>1, <1>2 DEF Firsts, BankOf
<1>5. f \in Nat /\ b[f].id \in Goods
  BY <1>4, ListedAre, LotBagsAre
<1>6. PICK t : t = [ask |-> "withdraw", slot |-> f, id |-> b[f].id, amount |-> 0]
  OBVIOUS
<1>7. t.ask = "withdraw" /\ t.slot = f /\ t \in Talks
  BY <1>5, <1>6 DEF Talks, Asks
<1>8. TalkFits(hold[c], banks[c], t)
  BY <1>2, <1>4, <1>7 DEF TalkFits
<1>9. posting[c] = NotPosting
  BY DEF choose_withdraw, Asked
<1>10. BankTo(c, hold[c], banks[c], heap, parcels, sent, t, NotPosting, faults)
  BY <1>1, <1>3, <1>6, <1>9 DEF BankTo, BankOf, choose_withdraw
<1>. QED  BY <1>7, <1>8, <1>10, QuietFits, TalkStep

\* Something to send is chosen.
LEMMA choose_parcelKeeps ==
  ASSUME BankIInv, NEW c \in Clients, NEW s \in DOMAIN hold[c], choose_parcel(c, s)
  PROVE  BankIInv'
<1>1. BankOf(c)
  BY BankOfIs
<1>2. PICK t : t = [ask |-> "parcel", slot |-> s, id |-> hold[c][s].id, amount |-> 0]
  OBVIOUS
<1>3. t.ask = "parcel" /\ t.slot = s /\ t \in Talks
  <2>1. s \in Nat /\ hold[c][s].id \in Goods \cup {NoGood}
    BY <1>1, LotBagsAre DEF BankOf
  <2>. QED  BY <1>2, <2>1 DEF Talks, Asks
<1>4. TalkFits(hold[c], banks[c], t)
  BY <1>3 DEF TalkFits
<1>5. posting[c] = NotPosting
  BY DEF choose_parcel, Asked
<1>6. BankTo(c, hold[c], banks[c], heap, parcels, sent, t, NotPosting, faults)
  BY <1>1, <1>2, <1>5 DEF BankTo, BankOf, choose_parcel
<1>. QED  BY <1>3, <1>4, <1>6, QuietFits, TalkStep

\* The next position is above none that were ever given by more than one.
LEMMA NewPosIs ==
  ASSUME NEW to, NEW n \in Nat, n = sent, ParcelsFit(parcels, n)
  PROVE  NewPos(to) \in 1..(n + 1)
<1>1. PICK S : S = {0} \cup {q.pos : q \in ParcelsTo(to)}
  OBVIOUS
<1>2. ASSUME NEW q \in parcels PROVE q.pos \in 0..n
  <2>1. q.pos \in Nat /\ q.nr \in Nat /\ q.nr <= n /\ q.pos <= q.nr
    BY DEF ParcelsFit, ParcelRows
  <2>. QED  BY <2>1
<1>3. S \in SUBSET (0..n) /\ S # {}
  BY <1>1, <1>2 DEF ParcelsTo
<1>4. Max(S) \in 0..n
  BY <1>3, MaxIs
<1>5. NewPos(to) = 1 + Max(S)
  BY <1>1 DEF NewPos
<1>. QED  BY <1>4, <1>5

\* The first query of a parcel.
LEMMA sendparcelKeeps ==
  ASSUME BankIInv, NEW c \in Clients, NEW n \in 1..MaxAsked, NEW to \in Clients,
         sendparcel(c, to, n)
  PROVE  BankIInv'
<1>1. BankOf(c)
  BY BankOfIs
<1>2. PICK p : p = [to |-> to, pos |-> NewPos(to), amount |-> n]
  OBVIOUS
<1>3. NewPos(to) \in 1..(sent + 1)
  BY <1>1, NewPosIs DEF BankOf
<1>4. p \in Posts /\ p.to = to /\ p.pos = NewPos(to) /\ p.amount = n
  <2>1. NewPos(to) \in Nat
    BY <1>3
  <2>. QED  BY <1>2, <2>1 DEF Posts
<1>5. /\ talk[c].ask = "parcel" /\ ChosenLot(c).id \in Goods
      /\ PlainAmount(hold[c], ChosenLot(c).id) >= n
  BY DEF sendparcel, Asked
<1>6. PostFits(hold[c], talk[c], p, sent)
  BY <1>3, <1>4, <1>5 DEF PostFits, ChosenLot
<1>7. BankTo(c, hold[c], banks[c], heap, parcels, sent, talk[c], p, faults)
  BY <1>1, <1>2 DEF BankTo, BankOf, sendparcel
<1>. QED  BY <1>1, <1>4, <1>6, <1>7, TalkStep DEF BankOf

\* The same as there was around a player.
LEMMA AmountsStay ==
  ASSUME NEW c, NEW h, NEW b, NEW e, NEW P, NEW F,
         \A k \in Goods :
           /\ Around(h, b, e, P, k) \in Nat
           /\ Around(h, b, e, P, k) = Around(hold[c], banks[c], heap, parcels, k)
  PROVE  AmountsFit(c, h, b, e, P, F)
<1>1. ASSUME NEW k \in Goods
      PROVE  /\ ~(Around(h, b, e, P, k) < Around(hold[c], banks[c], heap, parcels, k))
             /\ ~(Around(h, b, e, P, k) > Around(hold[c], banks[c], heap, parcels, k))
  <2>1. PICK x \in Nat : /\ x = Around(h, b, e, P, k)
                         /\ x = Around(hold[c], banks[c], heap, parcels, k)
    OBVIOUS
  <2>. QED  BY <2>1
<1>. QED  BY <1>1 DEF AmountsFit

\* A bag of the same length has the slot of a dialog.
LEMMA TalkStays ==
  ASSUME NEW h \in LotBags, NEW h2 \in LotBags, Len(h2) = Len(h), NEW b, NEW t,
         TalkFits(h, b, t)
  PROVE  TalkFits(h2, b, t)
<1>1. DOMAIN h2 = DOMAIN h
  BY LotBagsAre
<1>. QED  BY <1>1 DEF TalkFits

\* Two amounts with the same sum stay so beside others.
LEMMA AddedElsewhere ==
  ASSUME NEW f \in Nat, NEW f2 \in Nat, NEW a \in Nat, NEW a2 \in Nat, NEW b \in Nat,
         NEW s \in Nat, f2 + a2 = f + a
  PROVE  f2 + (a2 + b) + s \in Nat /\ f2 + (a2 + b) + s = f + (a + b) + s
OBVIOUS

\* What a player does with its bag and the floor alone.
LEMMA FloorStep ==
  ASSUME BankIInv, NEW c \in Clients, NEW h \in LotBags, Len(h) = Len(hold[c]),
         NEW e \in [Goods -> [Marks -> Nat]], posting[c] = NotPosting,
         \A k \in Goods :
           /\ FloorOf(e, k) \in Nat /\ AmountIn(h, k) \in Nat
           /\ FloorOf(e, k) + AmountIn(h, k) = FloorOf(heap, k) + AmountIn(hold[c], k),
         BankTo(c, h, banks[c], e, parcels, sent, talk[c], posting[c], faults)
  PROVE  BankIInv'
<1>1. BankOf(c)
  BY BankOfIs
<1>2. TalkFits(h, banks[c], talk[c])
  BY <1>1, TalkStays DEF BankOf
<1>3. AmountsFit(c, h, banks[c], e, parcels, faults)
  <2>1. ASSUME NEW k \in Goods
        PROVE  /\ Around(h, banks[c], e, parcels, k) \in Nat
               /\ Around(h, banks[c], e, parcels, k) = Around(hold[c], banks[c], heap, parcels, k)
    <3>1. PICK f, f2, a, a2, b, s : /\ f = FloorOf(heap, k) /\ f2 = FloorOf(e, k)
                                    /\ a = AmountIn(hold[c], k) /\ a2 = AmountIn(h, k)
                                    /\ b = AmountIn(banks[c], k) /\ s = SentOf(parcels, k)
      OBVIOUS
    <3>2. /\ f \in Nat /\ f2 \in Nat /\ a \in Nat /\ a2 \in Nat /\ b \in Nat /\ s \in Nat
          /\ f2 + a2 = f + a
      BY <1>1, <3>1 DEF BankOf
    <3>3. f2 + (a2 + b) + s \in Nat /\ f2 + (a2 + b) + s = f + (a + b) + s
      BY ONLY <3>2, AddedElsewhere
    <3>. QED  BY <3>1, <3>3 DEF Around
  <2>. QED  BY <2>1, AmountsStay
<1>4. sent \in sent..MaxParcels
  BY <1>1 DEF BankOf
<1>5. BankFits(c, h, banks[c], e, parcels, sent, talk[c], posting[c], faults)
  BY <1>1, <1>2, <1>3, <1>4, QuietFits DEF BankFits, BankOf
<1>. QED  BY <1>5, BankFitsIsEnough

\* Something is laid on the floor.
LEMMA dropitemKeeps ==
  ASSUME BankIInv, NEW c \in Clients, NEW s \in DOMAIN hold[c], dropitem(c, s)
  PROVE  BankIInv'
<1>1. BankOf(c)
  BY BankOfIs
<1>2. PICK h, x : h = hold[c] /\ x = h[s]
  OBVIOUS
<1>3. /\ h \in LotBags /\ s \in DOMAIN h /\ x.id \in Goods /\ x.mark \in Marks
      /\ x.amount \in Nat /\ heap \in [Goods -> [Marks -> Nat]]
  BY <1>1, <1>2, LotBagsAre DEF BankOf, dropitem
<1>4. PICK new : LotSet(h, s, NoLot, new)
  BY DEF LotSet
<1>5. NoLot \in Lots /\ NoLot.id = NoGood /\ NoLot.amount = 0
  BY BankAssumption DEF NoLot, Lots
<1>6. LotChanges(h, s, NoLot, new)
  BY <1>3, <1>4, <1>5, LotChange
<1>7. PICK id, mark, n, y : id = x.id /\ mark = x.mark /\ n = x.amount /\ y = heap[id][mark] + n
  OBVIOUS
<1>8. id \in Goods /\ mark \in Marks /\ n \in Nat /\ y \in Nat
  BY <1>3, <1>7
<1>9. PICK E, e : E = heap /\ E \in [Goods -> [Marks -> Nat]] /\ FloorSet(E, id, mark, y, e)
  BY <1>3 DEF FloorSet
<1>10. /\ e \in [Goods -> [Marks -> Nat]] /\ E[id][mark] \in Nat
       /\ \A k \in Goods :
            /\ FloorOf(E, k) \in Nat /\ FloorOf(e, k) \in Nat
            /\ k = id => FloorOf(e, k) + E[id][mark] = FloorOf(E, k) + y
            /\ k # id => FloorOf(e, k) = FloorOf(E, k)
  BY <1>8, <1>9, FloorChange
<1>11. ASSUME NEW k \in Goods
       PROVE  /\ FloorOf(e, k) \in Nat /\ AmountIn(new, k) \in Nat
              /\ FloorOf(e, k) + AmountIn(new, k) = FloorOf(heap, k) + AmountIn(hold[c], k)
  <2>1. PICK f, f2, a, a2, z : /\ f = FloorOf(E, k) /\ f2 = FloorOf(e, k) /\ z = E[id][mark]
                               /\ a = AmountIn(h, k) /\ a2 = AmountIn(new, k)
    OBVIOUS
  <2>2. /\ f \in Nat /\ f2 \in Nat /\ a \in Nat /\ a2 \in Nat /\ z \in Nat
        /\ a2 + OfKind(x, k) = a + OfKind(NoLot, k)
    BY <1>2, <1>6, <1>10, <2>1 DEF LotChanges
  <2>3. OfKind(NoLot, k) = 0
    BY <1>5, BankAssumption DEF OfKind
  <2>4. CASE k = id
    <3>1. OfKind(x, k) = n
      BY <1>7, <2>4 DEF OfKind
    <3>2. f2 + z = f + (z + n)
      BY <1>7, <1>9, <1>10, <2>1, <2>4
    <3>3. f2 + a2 = f + a
      BY <1>8, <2>2, <2>3, <3>1, <3>2
    <3>. QED  BY <1>2, <1>9, <2>1, <2>2, <3>3
  <2>5. CASE k # id
    <3>1. OfKind(x, k) = 0
      BY <1>7, <2>5 DEF OfKind
    <3>2. f2 = f
      BY <1>10, <2>1, <2>5
    <3>3. f2 + a2 = f + a
      BY <2>2, <2>3, <3>1, <3>2
    <3>. QED  BY <1>2, <1>9, <2>1, <2>2, <3>3
  <2>. QED  BY <2>4, <2>5
<1>12. heap' = e
  BY <1>2, <1>7, <1>9 DEF dropitem, FloorSet
<1>13. hold' = [hold EXCEPT ![c] = new]
  BY <1>2, <1>4 DEF dropitem, LotSet
<1>14. BankTo(c, new, banks[c], e, parcels, sent, talk[c], posting[c], faults)
  BY <1>1, <1>12, <1>13 DEF BankTo, BankOf, dropitem
<1>15. new \in LotBags /\ Len(new) = Len(hold[c]) /\ posting[c] = NotPosting
  BY <1>2, <1>6 DEF LotChanges, dropitem, Free
<1>. QED  BY <1>10, <1>11, <1>14, <1>15, FloorStep

\* Something is picked up, as much as there is room for.
LEMMA getitemKeeps ==
  ASSUME BankIInv, NEW c \in Clients, NEW k \in Goods, NEW m \in Marks, getitem(c, k, m)
  PROVE  BankIInv'
<1>1. BankOf(c)
  BY BankOfIs
<1>2. PICK h, E : h = hold[c] /\ E = heap /\ h \in LotBags /\ E \in [Goods -> [Marks -> Nat]]
  BY <1>1 DEF BankOf
<1>3. PICK it : it = [id |-> k, mark |-> m, amount |-> E[k][m]]
  OBVIOUS
<1>4. it \in Lots /\ it.id = k /\ it.mark = m /\ it.amount = E[k][m]
  BY <1>2, <1>3 DEF Lots
<1>5. PICK got : got = Added(h, it)
  OBVIOUS
<1>6. PICK o, e : o = 0 /\ o \in Nat /\ FloorSet(E, it.id, it.mark, o + got.left, e)
  BY DEF FloorSet
<1>7. /\ got.b \in LotBags /\ Len(got.b) = Len(h) /\ got.left \in Nat
      /\ e \in [Goods -> [Marks -> Nat]] /\ E[it.id][it.mark] \in Nat
      /\ \A g \in Goods :
           /\ FloorOf(E, g) \in Nat /\ FloorOf(e, g) \in Nat
           /\ AmountIn(h, g) \in Nat /\ AmountIn(got.b, g) \in Nat
           /\ FloorOf(e, g) + AmountIn(got.b, g) + (IF g = it.id THEN E[it.id][it.mark] ELSE 0)
              = FloorOf(E, g) + AmountIn(h, g) + (IF g = it.id THEN o + it.amount ELSE 0)
  <2>1. AddsTo(h, E, it, o, got, e)
    BY <1>2, <1>4, <1>5, <1>6 DEF AddsTo
  <2>. QED  BY <2>1, AddsOnFloor
<1>8. ASSUME NEW g \in Goods
      PROVE  FloorOf(e, g) + AmountIn(got.b, g) = FloorOf(E, g) + AmountIn(h, g)
  <2>1. PICK f, f2, a, a2, z : /\ f = FloorOf(E, g) /\ f2 = FloorOf(e, g) /\ z = E[k][m]
                               /\ a = AmountIn(h, g) /\ a2 = AmountIn(got.b, g)
    OBVIOUS
  <2>2. /\ f \in Nat /\ f2 \in Nat /\ a \in Nat /\ a2 \in Nat /\ z \in Nat
        /\ f2 + a2 + (IF g = k THEN z ELSE 0) = f + a + (IF g = k THEN z ELSE 0)
    <3>1. z \in Nat /\ it.amount = z /\ o = 0
      BY <1>4, <1>6, <1>7, <2>1
    <3>2. o + it.amount = z
      BY <3>1
    <3>. QED  BY <1>4, <1>7, <2>1, <3>1, <3>2
  <2>3. f2 + a2 = f + a
    BY <2>2
  <2>. QED  BY <2>1, <2>3
<1>9. /\ hold' = [hold EXCEPT ![c] = got.b] /\ heap' = [E EXCEPT ![k][m] = got.left]
      /\ posting[c] = NotPosting
  BY <1>2, <1>3, <1>5 DEF getitem, Free
<1>10. o + got.left = got.left
  BY <1>6, <1>7
<1>11. heap' = e
  BY <1>4, <1>6, <1>9, <1>10 DEF FloorSet
<1>12. BankTo(c, got.b, banks[c], e, parcels, sent, talk[c], posting[c], faults)
  BY <1>1, <1>9, <1>11 DEF BankTo, BankOf, getitem
<1>13. PICK h2 : h2 = got.b
  OBVIOUS
<1>14. /\ h2 \in LotBags /\ Len(h2) = Len(hold[c]) /\ e \in [Goods -> [Marks -> Nat]]
       /\ \A g \in Goods :
            /\ FloorOf(e, g) \in Nat /\ AmountIn(h2, g) \in Nat
            /\ FloorOf(e, g) + AmountIn(h2, g) = FloorOf(heap, g) + AmountIn(hold[c], g)
  BY <1>2, <1>7, <1>8, <1>13
<1>. QED  BY <1>9, <1>12, <1>13, <1>14, FloorStep

\* Two slots change places.
LEMMA changeitemKeeps ==
  ASSUME BankIInv, NEW c \in Clients, NEW s \in DOMAIN hold[c], NEW t \in DOMAIN hold[c],
         changeitem(c, s, t)
  PROVE  BankIInv'
<1>1. BankOf(c)
  BY BankOfIs
<1>2. PICK b : b = hold[c] /\ b \in LotBags /\ DOMAIN b = 1..Len(b) /\ Len(b) \in Nat
  BY <1>1, LotBagsAre DEF BankOf
<1>3. s # t
  BY <1>2 DEF changeitem
<1>4. PICK x, y : x = b[s] /\ y = b[t]
  OBVIOUS
<1>5. /\ x \in Lots /\ ((x.id = NoGood) <=> (x.amount = 0))
      /\ y \in Lots /\ ((y.id = NoGood) <=> (y.amount = 0))
  BY <1>2, <1>4, LotBagsAre
<1>6. PICK b1 : LotSet(b, s, y, b1)
  BY DEF LotSet
<1>7. LotChanges(b, s, y, b1)
  BY <1>2, <1>5, <1>6, LotChange
<1>8. b1 \in LotBags /\ DOMAIN b1 = DOMAIN b /\ Len(b1) = Len(b) /\ b1[t] = y
  BY <1>2, <1>3, <1>4, <1>7 DEF LotChanges
<1>9. PICK b2 : LotSet(b1, t, x, b2)
  BY DEF LotSet
<1>10. LotChanges(b1, t, x, b2)
  BY <1>2, <1>5, <1>8, <1>9, LotChange
<1>11. hold' = [hold EXCEPT ![c] = b2]
  BY <1>2, <1>4, <1>6, <1>9 DEF changeitem, LotSet
<1>12. ASSUME NEW k \in Goods
       PROVE  /\ FloorOf(heap, k) \in Nat /\ AmountIn(b2, k) \in Nat
              /\ FloorOf(heap, k) + AmountIn(b2, k) = FloorOf(heap, k) + AmountIn(hold[c], k)
  <2>1. PICK f, a, a1, a2, p, q : /\ f = FloorOf(heap, k) /\ a = AmountIn(b, k)
                                  /\ a1 = AmountIn(b1, k) /\ a2 = AmountIn(b2, k)
                                  /\ p = OfKind(x, k) /\ q = OfKind(y, k)
    OBVIOUS
  <2>2. f \in Nat /\ a \in Nat /\ a1 \in Nat /\ p \in Nat /\ q \in Nat /\ a1 + p = a + q
    BY <1>1, <1>4, <1>7, <2>1 DEF LotChanges, BankOf
  <2>3. a2 \in Nat /\ a2 + q = a1 + p
    BY <1>8, <1>10, <2>1 DEF LotChanges
  <2>4. a2 = a
    BY <2>2, <2>3
  <2>. QED  BY <1>2, <2>1, <2>2, <2>3, <2>4
<1>13. BankTo(c, b2, banks[c], heap, parcels, sent, talk[c], posting[c], faults)
  BY <1>1, <1>11 DEF BankTo, BankOf, changeitem
<1>14. /\ b2 \in LotBags /\ Len(b2) = Len(hold[c]) /\ posting[c] = NotPosting
       /\ heap \in [Goods -> [Marks -> Nat]]
  BY <1>1, <1>2, <1>8, <1>10 DEF LotChanges, changeitem, Free, BankOf
<1>. QED  BY <1>12, <1>13, <1>14, FloorStep

\* A deposit: what the bag loses the bank gains, unless it is full.
LEMMA depositKeeps ==
  ASSUME BankIInv, NEW c \in Clients, deposit(c) PROVE BankIInv'
<1>1. BankOf(c)
  BY BankOfIs
<1>2. PICK h, b, s, n, x : h = hold[c] /\ b = banks[c] /\ s = talk[c].slot /\ n = talk[c].amount
                           /\ x = h[s]
  OBVIOUS
<1>3. PICK it : it = [x EXCEPT !.amount = n]
  OBVIOUS
<1>4. PICK h2, b2, F :
        /\ h2 = IF n = 1 THEN Less(h, s, 1) ELSE TakePlain(h, it.id, n)
        /\ b2 = bankdeposit(b, it)
        /\ F = faults \cup (IF BankFull(b, it) THEN {"bankfull"} ELSE {})
                      \cup (IF it.id # talk[c].id THEN {"switched"} ELSE {})
  OBVIOUS
<1>5. /\ talk[c].ask = "deposit" /\ posting[c] = NotPosting /\ n > 0
      /\ it.id \in Goods /\ PlainAmount(h, it.id) >= n
  BY <1>2, <1>3 DEF deposit, Asked, ChosenLot
<1>6. /\ banks' = [banks EXCEPT ![c] = b2] /\ hold' = [hold EXCEPT ![c] = h2]
      /\ faults' = F
  <2>1. it = [ChosenLot(c) EXCEPT !.amount = talk[c].amount]
    BY <1>2, <1>3 DEF ChosenLot
  <2>2. /\ banks' = [banks EXCEPT ![c] = bankdeposit(banks[c], it)]
        /\ hold' = [hold EXCEPT ![c] = IF talk[c].amount = 1 THEN Less(hold[c], talk[c].slot, 1)
                                       ELSE TakePlain(hold[c], it.id, talk[c].amount)]
        /\ faults' = faults \cup (IF BankFull(banks[c], it) THEN {"bankfull"} ELSE {})
                             \cup (IF it.id # talk[c].id THEN {"switched"} ELSE {})
    BY <2>1 DEF deposit
  <2>. QED  BY <1>2, <1>4, <2>2
<1>7. /\ h \in LotBags /\ b \in LotBags /\ Ordered(b) /\ s \in DOMAIN h
      /\ talk[c].id \in Goods \ Refused /\ n \in Nat
  BY <1>1, <1>2, <1>5 DEF BankOf, TalkFits, Talks
<1>8. /\ x \in Lots /\ x.amount \in Nat /\ it \in Lots /\ it.id = x.id /\ it.mark = x.mark
      /\ it.amount = n
  <2>1. x \in Lots
    BY <1>2, <1>7, LotBagsAre
  <2>. QED  BY <1>3, <1>7, <2>1 DEF Lots
<1>9. Deposited(b, it, b2)
  BY <1>4, <1>5, <1>7, <1>8, DepositIs
<1>10. /\ h2 \in LotBags /\ Len(h2) = Len(h)
       /\ \A k \in Goods : /\ AmountIn(h, k) \in Nat /\ AmountIn(h2, k) \in Nat
                           /\ AmountIn(h2, k) + (IF k = it.id THEN n ELSE 0) = AmountIn(h, k)
  <2>1. CASE n = 1
    <3>1. PICK o : o = 1 /\ o \in Nat
      OBVIOUS
    <3>2. Lesser(h, s, o, h2)
      BY <1>4, <1>7, <2>1, <3>1, LessIs
    <3>3. x.amount # 0
      BY <1>2, <1>5, <1>7, <1>8, BankAssumption, LotBagsAre
    <3>4. (IF h[s].amount < o THEN h[s].amount ELSE o) = n
      BY <1>2, <1>8, <2>1, <3>1, <3>3
    <3>. QED  BY <1>2, <1>8, <3>2, <3>4 DEF Lesser
  <2>2. CASE n # 1
    <3>1. PICK k : k = it.id /\ k \in Goods
      BY <1>5
    <3>2. n <= PlainAmount(h, k)
      BY <1>5, <1>7, <3>1, CountsAre
    <3>3. h2 = TakePlain(h, k, n)
      BY <1>4, <2>2, <3>1
    <3>4. \A g \in Goods : AmountIn(h, g) \in Nat
      BY <1>7, CountsAre
    <3>. QED  BY <1>7, <3>1, <3>2, <3>3, <3>4, TakePlainIs
  <2>. QED  BY <2>1, <2>2
<1>11. TalkFits(h2, b2, Quiet) /\ PostFits(h2, Quiet, NotPosting, sent) /\ Quiet \in Talks
  BY QuietFits
<1>12. F \in SUBSET BankFaults /\ faults \subseteq F
  BY <1>1, <1>4 DEF BankOf, BankFaults
<1>13. AmountsFit(c, h2, b2, heap, parcels, F)
  <2>1. ASSUME NEW k \in Goods
        PROVE  /\ Around(h2, b2, heap, parcels, k) < Around(h, b, heap, parcels, k)
                    => "bankfull" \in F
               /\ ~(Around(h2, b2, heap, parcels, k) > Around(h, b, heap, parcels, k))
    <3>1. PICK f, p, a, a2, d, d2, m :
            /\ f = FloorOf(heap, k) /\ p = SentOf(parcels, k)
            /\ a = AmountIn(h, k) /\ a2 = AmountIn(h2, k)
            /\ d = AmountIn(b, k) /\ d2 = AmountIn(b2, k)
            /\ m = IF k = it.id THEN n ELSE 0
      OBVIOUS
    <3>2. /\ f \in Nat /\ p \in Nat /\ a \in Nat /\ a2 \in Nat /\ d \in Nat /\ d2 \in Nat
          /\ m \in Nat /\ a2 + m = a
      BY <1>1, <1>7, <1>9, <1>10, <3>1 DEF BankOf, Deposited
    <3>3. /\ ~BankFull(b, it) => d2 = d + m
          /\ BankFull(b, it) => d2 = d + 0
      BY <1>8, <1>9, <3>1 DEF Deposited
    <3>4. CASE BankFull(b, it)
      <4>1. "bankfull" \in F
        BY <1>4, <3>4
      <4>2. ~(f + (a2 + d2) + p > f + (a + d) + p)
        BY <3>2, <3>3, <3>4
      <4>. QED  BY <3>1, <4>1, <4>2 DEF Around
    <3>5. CASE ~BankFull(b, it)
      <4>1. f + (a2 + d2) + p = f + (a + d) + p /\ f + (a + d) + p \in Nat
        BY <3>2, <3>3, <3>5
      <4>2. /\ ~(f + (a2 + d2) + p > f + (a + d) + p)
            /\ ~(f + (a2 + d2) + p < f + (a + d) + p)
        BY <4>1
      <4>. QED  BY <3>1, <4>2 DEF Around
    <3>. QED  BY <3>4, <3>5
  <2>. QED  BY <1>2, <2>1 DEF AmountsFit
<1>14. ASSUME "switched" \notin F, NEW i \in DOMAIN b2, b2[i].id \in Refused
       PROVE  \E j \in DOMAIN b : b[j].id \in Refused
  <2>1. it.id \notin Refused
    BY <1>4, <1>7, <1>14
  <2>2. b2[i].id \in {it.id, b[i].id} /\ i \in DOMAIN b
    <3>1. DOMAIN b2 = DOMAIN b
      BY <1>7, <1>9, LotBagsAre DEF Deposited
    <3>. QED  BY <1>9, <3>1 DEF Deposited
  <2>. QED  BY <1>14, <2>1, <2>2
<1>15. BankTo(c, h2, b2, heap, parcels, sent, Quiet, NotPosting, F)
  BY <1>1, <1>5, <1>6 DEF BankTo, BankOf, deposit, Ends
<1>16. BankFits(c, h2, b2, heap, parcels, sent, Quiet, NotPosting, F)
  <2>1. sent \in sent..MaxParcels
    BY <1>1 DEF BankOf
  <2>. QED  BY <1>1, <1>2, <1>9, <1>10, <1>11, <1>12, <1>13, <1>14, <2>1, QuietFits
            DEF BankFits, BankOf, Deposited
<1>. QED  BY <1>15, <1>16, BankFitsIsEnough

\* A withdrawal: what the bank loses the bag and the floor gain.
LEMMA withdrawKeeps ==
  ASSUME BankIInv, NEW c \in Clients, NEW n \in 1..MaxAsked, withdraw(c, n) PROVE BankIInv'
<1>1. BankOf(c)
  BY BankOfIs
<1>2. PICK h, b, i, E : h = hold[c] /\ b = banks[c] /\ i = talk[c].slot /\ E = heap
  OBVIOUS
<1>3. PICK it : it = [b[i] EXCEPT !.amount = n]
  OBVIOUS
<1>4. /\ talk[c].ask = "withdraw" /\ posting[c] = NotPosting /\ n <= b[i].amount
      /\ Receives(c, it) /\ banks' = [banks EXCEPT ![c] = bankwithdraw(b, it)]
  BY <1>2, <1>3 DEF withdraw, Asked
<1>5. PICK o, got, b2, e : /\ o = E[it.id][it.mark] /\ got = Added(h, it)
                           /\ b2 = bankwithdraw(b, it)
                           /\ FloorSet(E, it.id, it.mark, o + got.left, e)
  BY DEF FloorSet
<1>6. /\ h \in LotBags /\ b \in LotBags /\ Ordered(b) /\ i \in ListedSlots(b)
      /\ E \in [Goods -> [Marks -> Nat]]
  BY <1>1, <1>2, <1>4 DEF BankOf, TalkFits
<1>7. /\ it \in Lots /\ Same(b[i], it.id, it.mark) /\ it.id \in Goods /\ it.amount = n
      /\ it.mark \in Marks /\ n \in Nat
  <2>1. b[i] \in Lots /\ b[i].id \in Goods
    BY <1>6, ListedAre, LotBagsAre
  <2>. QED  BY <1>3, <2>1 DEF Lots, Same
<1>8. Withdrawn(b, it, b2)
  BY <1>4, <1>5, <1>6, <1>7, WithdrawIs
<1>9. o \in Nat
  BY <1>5, <1>6, <1>7
<1>10. AddsTo(h, E, it, o, got, e)
  BY <1>5, <1>6, <1>7, <1>9 DEF AddsTo
<1>11. /\ got.b \in LotBags /\ Len(got.b) = Len(h) /\ got.left \in Nat
       /\ e \in [Goods -> [Marks -> Nat]] /\ E[it.id][it.mark] \in Nat
       /\ \A k \in Goods :
            /\ FloorOf(E, k) \in Nat /\ FloorOf(e, k) \in Nat
            /\ AmountIn(h, k) \in Nat /\ AmountIn(got.b, k) \in Nat
            /\ FloorOf(e, k) + AmountIn(got.b, k) + (IF k = it.id THEN E[it.id][it.mark] ELSE 0)
               = FloorOf(E, k) + AmountIn(h, k) + (IF k = it.id THEN o + it.amount ELSE 0)
  BY <1>10, AddsOnFloor
<1>12. PICK h2 : h2 = got.b
  OBVIOUS
<1>13. hold' = [hold EXCEPT ![c] = h2] /\ heap' = e /\ banks' = [banks EXCEPT ![c] = b2]
  <2>1. /\ hold' = [hold EXCEPT ![c] = got.b]
        /\ heap' = [E EXCEPT ![it.id][it.mark] = E[it.id][it.mark] + got.left]
    BY <1>2, <1>4, <1>5 DEF Receives
  <2>. QED  BY <1>4, <1>5, <1>12, <2>1 DEF FloorSet
<1>14. AmountsFit(c, h2, b2, e, parcels, faults)
  <2>1. ASSUME NEW k \in Goods
        PROVE  /\ Around(h2, b2, e, parcels, k) \in Nat
               /\ Around(h2, b2, e, parcels, k) = Around(h, b, E, parcels, k)
    <3>1. PICK f, f2, p, a, a2, d, d2, m, z :
            /\ f = FloorOf(E, k) /\ f2 = FloorOf(e, k) /\ p = SentOf(parcels, k)
            /\ a = AmountIn(h, k) /\ a2 = AmountIn(h2, k)
            /\ d = AmountIn(b, k) /\ d2 = AmountIn(b2, k)
            /\ m = (IF k = it.id THEN n ELSE 0) /\ z = (IF k = it.id THEN o ELSE 0)
      OBVIOUS
    <3>2. /\ f \in Nat /\ f2 \in Nat /\ p \in Nat /\ a \in Nat /\ a2 \in Nat /\ d \in Nat
          /\ d2 \in Nat /\ m \in Nat /\ z \in Nat /\ d2 + m = d
      BY <1>1, <1>7, <1>8, <1>9, <1>11, <1>12, <3>1 DEF BankOf, Withdrawn
    <3>3. f2 + a2 + z = f + a + (z + m)
      <4>1. (IF k = it.id THEN o + n ELSE 0) = z + m
        BY <1>7, <1>9, <3>1
      <4>. QED  BY <1>5, <1>7, <1>11, <1>12, <3>1, <4>1
    <3>4. f2 + a2 = f + a + m
      BY <3>2, <3>3
    <3>5. f2 + (a2 + d2) + p \in Nat /\ f2 + (a2 + d2) + p = f + (a + d) + p
      BY <3>2, <3>4
    <3>. QED  BY <3>1, <3>5 DEF Around
  <2>. QED  BY <1>2, <2>1, AmountsStay
<1>15. \A j \in DOMAIN b2 : b2[j].id \in Refused => \E l \in DOMAIN b : b[l].id \in Refused
  BY <1>8, BankAssumption DEF Withdrawn
<1>16. BankTo(c, h2, b2, e, parcels, sent, Quiet, NotPosting, faults)
  BY <1>1, <1>4, <1>13 DEF BankTo, BankOf, withdraw, Ends
<1>17. BankFits(c, h2, b2, e, parcels, sent, Quiet, NotPosting, faults)
  <2>1. sent \in sent..MaxParcels
    BY <1>1 DEF BankOf
  <2>. QED  BY <1>1, <1>2, <1>8, <1>11, <1>12, <1>14, <1>15, <2>1, QuietFits
            DEF BankFits, BankOf, Withdrawn
<1>. QED  BY <1>16, <1>17, BankFitsIsEnough

\* The second query of a parcel: what is in the parcel is taken from the bag,
\* or is more than the slot had.
LEMMA sendparcel_sentKeeps ==
  ASSUME BankIInv, NEW c \in Clients, sendparcel_sent(c) PROVE BankIInv'
<1>1. BankOf(c)
  BY BankOfIs
<1>2. PICK p, s, h, x : p = posting[c] /\ s = talk[c].slot /\ h = hold[c] /\ x = h[s]
  OBVIOUS
<1>3. PICK n, m : n = p.amount /\ m = maxAmount[x.id]
  OBVIOUS
<1>4. PICK lot : lot = [x EXCEPT !.amount = n]
  OBVIOUS
<1>5. PICK row, P2, h2, F :
        /\ row = [nr |-> sent + 1, to |-> p.to, pos |-> p.pos, lot |-> lot]
        /\ P2 = parcels \cup {row}
        /\ h2 = IF n > m THEN TakePlain(h, x.id, n) ELSE Less(h, s, n)
        /\ F = faults \cup (IF n <= m /\ x.amount < n THEN {"copied"} ELSE {})
  OBVIOUS
<1>6. /\ p # NotPosting /\ sent < MaxParcels /\ sent' = sent + 1 /\ parcels' = P2
      /\ hold' = [hold EXCEPT ![c] = h2] /\ faults' = F
  <2>1. ChosenLot(c) = x
    BY <1>2 DEF ChosenLot
  <2>2. p # NotPosting /\ sent < MaxParcels /\ sent' = sent + 1
    BY <1>2 DEF sendparcel_sent
  <2>3. parcels' = P2
    BY <1>2, <1>3, <1>4, <1>5, <2>1 DEF sendparcel_sent
  <2>4. hold' = [hold EXCEPT ![c] = h2]
    BY <1>2, <1>3, <1>4, <1>5, <2>1 DEF sendparcel_sent
  <2>5. faults' = F
    BY <1>2, <1>3, <1>4, <1>5, <2>1 DEF sendparcel_sent
  <2>. QED  BY <2>2, <2>3, <2>4, <2>5
<1>7. /\ h \in LotBags /\ p \in Posts /\ talk[c].ask = "parcel" /\ s \in DOMAIN h
      /\ x.id \in Goods /\ p.to \in Clients /\ p.pos \in 1..(sent + 1) /\ n > 0
      /\ PlainAmount(h, x.id) >= n /\ sent \in 0..MaxParcels /\ MaxParcels \in Nat
      /\ ParcelsFit(parcels, sent)
  BY <1>1, <1>2, <1>3, <1>6 DEF BankOf, PostFits, TalkFits
<1>8. /\ n \in Nat /\ m \in Nat /\ x \in Lots /\ x.amount \in Nat
      /\ lot \in Lots /\ lot.id = x.id /\ lot.amount = n
  <2>1. n \in Nat
    BY <1>3, <1>7 DEF Posts
  <2>2. m \in Nat
    BY <1>3, <1>7, BankAssumption
  <2>3. x \in Lots
    BY <1>2, <1>7, LotBagsAre
  <2>. QED  BY <1>4, <2>1, <2>2, <2>3 DEF Lots
<1>9. PICK t \in Nat : t = sent
  BY <1>7
<1>10. row.nr = t + 1 /\ row.to = p.to /\ row.pos = p.pos /\ row.lot = lot
  BY <1>5, <1>9
<1>11. row \in ParcelRows
  <2>1. t + 1 \in 1..MaxParcels /\ p.pos \in Nat \ {0}
    BY <1>6, <1>7, <1>9
  <2>. QED  BY <1>5, <1>7, <1>8, <1>9, <2>1 DEF ParcelRows
<1>12. row \notin parcels
  <2>1. ASSUME row \in parcels PROVE FALSE
    <3>1. t + 1 <= t
      BY <1>7, <1>9, <1>10, <2>1 DEF ParcelsFit
    <3>. QED  BY <3>1
  <2>. QED  BY <2>1
<1>13. ParcelsFit(P2, t + 1)
  <2>1. P2 \subseteq ParcelRows /\ IsFiniteSet(P2)
    BY <1>5, <1>7, <1>11, FS_AddElement DEF ParcelsFit
  <2>2. ASSUME NEW q \in P2
        PROVE  q.lot.id \in Goods /\ q.lot.amount > 0 /\ q.nr <= t + 1 /\ q.pos <= q.nr
    <3>1. CASE q = row
      BY <1>7, <1>8, <1>9, <1>10, <3>1
    <3>2. CASE q \in parcels
      <4>1. q.lot.id \in Goods /\ q.lot.amount > 0 /\ q.nr <= t /\ q.pos <= q.nr /\ q.nr \in Nat
        BY <1>7, <1>9, <3>2 DEF ParcelsFit, ParcelRows
      <4>. QED  BY <4>1
    <3>. QED  BY <1>5, <3>1, <3>2
  <2>. QED  BY <2>1, <2>2 DEF ParcelsFit
<1>14. PICK y : y = IF n <= m /\ x.amount < n THEN x.amount ELSE n
  OBVIOUS
<1>15. y \in Nat /\ y <= n
  BY <1>8, <1>14
<1>16. /\ h2 \in LotBags /\ Len(h2) = Len(h)
       /\ \A k \in Goods : /\ AmountIn(h, k) \in Nat /\ AmountIn(h2, k) \in Nat
                           /\ AmountIn(h2, k) + (IF k = x.id THEN y ELSE 0) = AmountIn(h, k)
  <2>1. CASE n > m
    <3>1. PICK k : k = x.id /\ k \in Goods
      BY <1>7
    <3>2. n <= PlainAmount(h, k)
      BY <1>7, <1>8, <3>1, CountsAre
    <3>3. h2 = TakePlain(h, k, n) /\ y = n
      BY <1>5, <1>8, <1>14, <2>1, <3>1
    <3>4. \A g \in Goods : AmountIn(h, g) \in Nat
      BY <1>7, CountsAre
    <3>. QED  BY <1>7, <1>8, <3>1, <3>2, <3>3, <3>4, TakePlainIs
  <2>2. CASE ~(n > m)
    <3>1. n <= m
      BY <1>8, <2>2
    <3>2. Lesser(h, s, n, h2)
      BY <1>5, <1>7, <1>8, <2>2, LessIs
    <3>3. (IF h[s].amount < n THEN h[s].amount ELSE n) = y
      BY <1>2, <1>14, <3>1
    <3>. QED  BY <1>2, <3>2, <3>3 DEF Lesser
  <2>. QED  BY <2>1, <2>2
<1>17. F \in SUBSET BankFaults /\ faults \subseteq F
  BY <1>1, <1>5 DEF BankOf, BankFaults
<1>18. AmountsFit(c, h2, banks[c], heap, P2, F)
  <2>1. ASSUME NEW k \in Goods
        PROVE  /\ ~(Around(h2, banks[c], heap, P2, k) < Around(h, banks[c], heap, parcels, k))
               /\ Around(h2, banks[c], heap, P2, k) > Around(h, banks[c], heap, parcels, k)
                    => "copied" \in F
    <3>1. PICK f, v, v2, a, a2, d, l, z :
            /\ f = FloorOf(heap, k) /\ v = SentOf(parcels, k) /\ v2 = SentOf(P2, k)
            /\ a = AmountIn(h, k) /\ a2 = AmountIn(h2, k) /\ d = AmountIn(banks[c], k)
            /\ l = (IF k = x.id THEN n ELSE 0) /\ z = (IF k = x.id THEN y ELSE 0)
      OBVIOUS
    <3>2. /\ f \in Nat /\ v \in Nat /\ a \in Nat /\ a2 \in Nat /\ d \in Nat /\ l \in Nat
          /\ z \in Nat /\ z <= l /\ a2 + z = a
      BY <1>1, <1>2, <1>8, <1>15, <1>16, <3>1 DEF BankOf
    <3>3. v2 = l + v
      <4>1. IsFiniteSet(P2) /\ \A q \in P2 : q.lot.amount \in Nat
        BY <1>13 DEF ParcelsFit, ParcelRows, Lots
      <4>2. row \in P2 /\ P2 \ {row} = parcels
        BY <1>5, <1>12
      <4>3. v2 = LotOf(row, k) + v
        BY <3>1, <4>1, <4>2, SentIs
      <4>4. LotOf(row, k) = l
        BY <1>8, <1>10, <3>1 DEF LotOf
      <4>. QED  BY <4>3, <4>4
    <3>4. ~(f + (a2 + d) + v2 < f + (a + d) + v)
      BY <3>2, <3>3
    <3>5. f + (a2 + d) + v2 > f + (a + d) + v => z # l
      BY <3>2, <3>3
    <3>6. z # l => "copied" \in F
      BY <1>5, <1>14, <3>1
    <3>. QED  BY <3>1, <3>4, <3>5, <3>6 DEF Around
  <2>. QED  BY <1>2, <2>1 DEF AmountsFit
<1>19. BankTo(c, h2, banks[c], heap, P2, t + 1, Quiet, NotPosting, F)
  BY <1>1, <1>6, <1>9 DEF BankTo, BankOf, sendparcel_sent, Ends
<1>20. t + 1 \in sent..MaxParcels
  BY <1>6, <1>7, <1>9
<1>21. BankFits(c, h2, banks[c], heap, P2, t + 1, Quiet, NotPosting, F)
  BY <1>1, <1>13, <1>16, <1>17, <1>18, <1>20, QuietFits DEF BankFits, BankOf
<1>. QED  BY <1>19, <1>21, BankFitsIsEnough

\* A parcel is received, and all of its position are gone.
LEMMA removeparcelKeeps ==
  ASSUME BankIInv, NEW c \in Clients, NEW q \in parcels, removeparcel(c, q) PROVE BankIInv'
<1>1. BankOf(c)
  BY BankOfIs
<1>2. PICK h, E, it, P : h = hold[c] /\ E = heap /\ it = q.lot /\ P = parcels
  OBVIOUS
<1>3. PICK gone, P2, F :
        /\ gone = {r \in ParcelsTo(c) : r.pos = q.pos} /\ P2 = P \ gone
        /\ F = faults \cup (IF gone # {q} THEN {"doubled"} ELSE {})
  OBVIOUS
<1>4. /\ talk[c].ask = "nothing" /\ posting[c] = NotPosting /\ q \in ParcelsTo(c)
      /\ Receives(c, it) /\ parcels' = P2 /\ faults' = F
  BY <1>2, <1>3 DEF removeparcel, Asked
<1>5. /\ h \in LotBags /\ E \in [Goods -> [Marks -> Nat]] /\ ParcelsFit(P, sent)
      /\ it \in Lots /\ it.id \in Goods
  BY <1>1, <1>2 DEF BankOf, ParcelsFit, ParcelRows
<1>6. PICK o, got, e : /\ o = E[it.id][it.mark] /\ got = Added(h, it)
                       /\ FloorSet(E, it.id, it.mark, o + got.left, e)
  BY DEF FloorSet
<1>7. o \in Nat /\ it.amount \in Nat
  BY <1>5, <1>6 DEF Lots
<1>8. AddsTo(h, E, it, o, got, e)
  BY <1>5, <1>6, <1>7 DEF AddsTo
<1>9. /\ got.b \in LotBags /\ Len(got.b) = Len(h) /\ got.left \in Nat
      /\ e \in [Goods -> [Marks -> Nat]] /\ E[it.id][it.mark] \in Nat
      /\ \A k \in Goods :
           /\ FloorOf(E, k) \in Nat /\ FloorOf(e, k) \in Nat
           /\ AmountIn(h, k) \in Nat /\ AmountIn(got.b, k) \in Nat
           /\ FloorOf(e, k) + AmountIn(got.b, k) + (IF k = it.id THEN E[it.id][it.mark] ELSE 0)
              = FloorOf(E, k) + AmountIn(h, k) + (IF k = it.id THEN o + it.amount ELSE 0)
  BY <1>8, AddsOnFloor
<1>10. PICK h2 : h2 = got.b
  OBVIOUS
<1>11. hold' = [hold EXCEPT ![c] = h2] /\ heap' = e
  <2>1. /\ hold' = [hold EXCEPT ![c] = got.b]
        /\ heap' = [E EXCEPT ![it.id][it.mark] = E[it.id][it.mark] + got.left]
    BY <1>2, <1>4, <1>6 DEF Receives
  <2>. QED  BY <1>6, <1>10, <2>1 DEF FloorSet
<1>12. IsFiniteSet(P) /\ \A r \in P : r.lot.amount \in Nat
  BY <1>5 DEF ParcelsFit, ParcelRows, Lots
<1>13. P2 \subseteq P \ {q} /\ (gone = {q} => P2 = P \ {q}) /\ q \in P
  BY <1>2, <1>3, <1>4
<1>14. ParcelsFit(P2, sent)
  BY <1>5, <1>13, FS_Subset DEF ParcelsFit
<1>15. F \in SUBSET BankFaults /\ faults \subseteq F
  BY <1>1, <1>3 DEF BankOf, BankFaults
<1>16. AmountsFit(c, h2, banks[c], e, P2, F)
  <2>1. ASSUME NEW k \in Goods
        PROVE  /\ Around(h2, banks[c], e, P2, k) < Around(h, banks[c], E, P, k)
                    => "doubled" \in F
               /\ ~(Around(h2, banks[c], e, P2, k) > Around(h, banks[c], E, P, k))
    <3>1. PICK f, f2, v, v1, v2, a, a2, d, m, z :
            /\ f = FloorOf(E, k) /\ f2 = FloorOf(e, k)
            /\ v = SentOf(P, k) /\ v1 = SentOf(P \ {q}, k) /\ v2 = SentOf(P2, k)
            /\ a = AmountIn(h, k) /\ a2 = AmountIn(h2, k) /\ d = AmountIn(banks[c], k)
            /\ m = (IF k = it.id THEN it.amount ELSE 0) /\ z = (IF k = it.id THEN o ELSE 0)
      OBVIOUS
    <3>2. /\ f \in Nat /\ f2 \in Nat /\ a \in Nat /\ a2 \in Nat /\ d \in Nat
          /\ m \in Nat /\ z \in Nat
      BY <1>1, <1>7, <1>9, <1>10, <3>1 DEF BankOf
    <3>3. f2 + a2 + z = f + a + (z + m)
      <4>1. (IF k = it.id THEN o + it.amount ELSE 0) = z + m
        BY <1>7, <3>1
      <4>. QED  BY <1>6, <1>9, <1>10, <3>1, <4>1
    <3>4. v \in Nat /\ v1 \in Nat /\ v = m + v1
      <4>1. v1 \in Nat /\ v = LotOf(q, k) + v1 /\ v \in Nat
        BY <1>12, <1>13, <3>1, SentIs
      <4>2. LotOf(q, k) = m
        BY <1>2, <3>1 DEF LotOf
      <4>. QED  BY <4>1, <4>2
    <3>5. v2 \in Nat /\ v2 <= v1
      <4>1. PICK Q : Q = P \ {q}
        OBVIOUS
      <4>2. IsFiniteSet(Q) /\ (\A r \in Q : r.lot.amount \in Nat) /\ P2 \in SUBSET Q
        BY <1>12, <1>13, <4>1, FS_Subset
      <4>. QED  BY <3>1, <4>1, <4>2, SentIs
    <3>6. f2 + a2 = f + a + m
      BY <3>2, <3>3
    <3>7. ~(f2 + (a2 + d) + v2 > f + (a + d) + v)
      BY <3>2, <3>4, <3>5, <3>6
    <3>8. f2 + (a2 + d) + v2 < f + (a + d) + v => v2 # v1
      BY <3>2, <3>4, <3>5, <3>6
    <3>9. v2 # v1 => "doubled" \in F
      BY <1>3, <1>13, <3>1
    <3>. QED  BY <3>1, <3>7, <3>8, <3>9 DEF Around
  <2>. QED  BY <1>2, <2>1 DEF AmountsFit
<1>17. BankTo(c, h2, banks[c], e, P2, sent, talk[c], NotPosting, F)
  BY <1>1, <1>4, <1>11 DEF BankTo, BankOf, removeparcel
<1>18. TalkFits(h2, banks[c], talk[c])
  BY <1>1, <1>2, <1>9, <1>10, TalkStays DEF BankOf
<1>19. sent \in sent..MaxParcels
  BY <1>1 DEF BankOf
<1>20. BankFits(c, h2, banks[c], e, P2, sent, talk[c], NotPosting, F)
  BY <1>1, <1>9, <1>10, <1>14, <1>15, <1>16, <1>18, <1>19, QuietFits DEF BankFits, BankOf
<1>. QED  BY <1>17, <1>20, BankFitsIsEnough

----------------------------------------------------------------------------
(* The bank: the theorem.                                                  *)

\* The beginning: nothing lies on the floor, in banks or in parcels.
LEMMA BankStarts == ASSUME BankInit PROVE BankIInv
<1>1. /\ hold \in [Clients -> LotBags] /\ parcels = {} /\ sent = 0 /\ faults = {}
      /\ heap = [k \in Goods |-> [m \in Marks |-> 0]]
      /\ talk = [c \in Clients |-> Quiet] /\ posting = [c \in Clients |-> NotPosting]
  BY HoldAssumption DEF BankInit
<1>2. PICK B : B = [i \in 1..MAX_BANK_SLOTS |-> NoLot] /\ banks = [c \in Clients |-> B]
  BY DEF BankInit
<1>3. MAX_BANK_SLOTS \in Nat /\ MaxParcels \in Nat
  BY BankAssumption
<1>4. NoLot \in Lots /\ NoLot.id = NoGood /\ NoLot.amount = 0
  BY BankAssumption DEF NoLot, Lots
<1>5. /\ B \in LotBags /\ Len(B) = MAX_BANK_SLOTS /\ DOMAIN B = 1..MAX_BANK_SLOTS
      /\ \A i \in DOMAIN B : B[i] = NoLot
  <2>1. B \in Seq(Lots) /\ Len(B) = MAX_BANK_SLOTS /\ DOMAIN B = 1..MAX_BANK_SLOTS
    BY <1>2, <1>3, <1>4
  <2>. QED  BY <1>2, <1>4, <2>1 DEF LotBags
<1>6. Ordered(B)
  BY <1>4, <1>5 DEF Ordered, NoGaps, OneEach
<1>7. /\ banks \in [Clients -> LotBags] /\ \A c \in Clients : banks[c] = B
  BY <1>2, <1>5
<1>8. heap \in [Goods -> [Marks -> Nat]]
  BY <1>1
<1>9. ParcelsFit(parcels, sent)
  BY <1>1, FS_EmptySet DEF ParcelsFit
<1>10. talk \in [Clients -> Talks] /\ posting \in [Clients -> Posts]
  BY <1>1, QuietFits
<1>11. ASSUME NEW k \in Goods
       PROVE  owing[k] \in Nat /\ AllOf(k) = owing[k]
  <2>1. PICK f, g : /\ f = [c \in Clients |-> AmountIn(hold[c], k)]
                    /\ g = [c \in Clients |-> AmountIn(hold[c], k) + AmountIn(banks[c], k)]
    OBVIOUS
  <2>2. AmountIn(B, k) = 0
    <3>1. /\ IsFiniteSet(DOMAIN B) /\ Amounts(KindAt(B, k), DOMAIN B)
          /\ AmountIn(B, k) = SumOf(KindAt(B, k), DOMAIN B)
      BY <1>5, CountsAre
    <3>2. \A i \in DOMAIN B : KindAt(B, k)[i] = 0
      BY <1>4, <1>5, BankAssumption DEF KindAt, OfKind
    <3>. QED  BY <3>1, <3>2, SumOfNone
  <2>3. \A c \in Clients : AmountIn(hold[c], k) \in Nat
    BY <1>1, CountsAre
  <2>4. f = g
    <3>1. ASSUME NEW c \in Clients
          PROVE  AmountIn(hold[c], k) + AmountIn(banks[c], k) = AmountIn(hold[c], k)
      <4>1. PICK x \in Nat : x = AmountIn(hold[c], k)
        BY <2>3
      <4>2. AmountIn(banks[c], k) = 0
        BY <1>7, <2>2
      <4>. QED  BY <4>1, <4>2
    <3>. QED  BY <2>1, <3>1
  <2>5. HeldOf(hold, banks, k) = Total(f) /\ owing[k] = Total(f)
    BY <2>1, <2>4 DEF HeldOf, BankInit
  <2>6. Total(f) \in Nat
    <3>1. DOMAIN f = Clients /\ Amounts(f, Clients) /\ Total(f) = SumOf(f, Clients)
      BY <2>1, <2>3, TotalIs DEF Amounts
    <3>. QED  BY <3>1, SumSplit, BankAssumption
  <2>7. FloorOf(heap, k) = 0
    <3>1. PICK z : z = [m \in Marks |-> heap[k][m]]
      OBVIOUS
    <3>2. Total(z) = SumOf(z, Marks)
      BY <3>1, TotalIs
    <3>3. \A m \in Marks : z[m] = 0
      BY <1>1, <3>1
    <3>4. SumOf(z, Marks) = 0
      BY <3>3, SumOfNone, BankAssumption DEF Amounts
    <3>. QED  BY <3>1, <3>2, <3>4 DEF FloorOf
  <2>8. SentOf(parcels, k) = 0
    BY <1>1, NoneSent
  <2>9. AllOf(k) = 0 + Total(f) + 0
    BY <2>5, <2>7, <2>8, AllIsEverything DEF Everything
  <2>. QED  BY <2>5, <2>6, <2>9
<1>12. owing \in [Goods -> Nat]
  <2>1. owing = [k \in Goods |-> owing[k]]
    BY DEF BankInit
  <2>. QED  BY <1>11, <2>1
<1>13. BankTyped
  BY <1>1, <1>3, <1>5, <1>7, <1>8, <1>9, <1>10, <1>12 DEF BankTyped
<1>14. ASSUME NEW c \in Clients
       PROVE  /\ Ordered(banks[c]) /\ TalkFits(hold[c], banks[c], talk[c])
              /\ PostFits(hold[c], talk[c], posting[c], sent)
  BY <1>1, <1>6, <1>7, QuietFits
<1>15. GoodsStay
  <2>1. ASSUME NEW k \in Goods PROVE ~(AllOf(k) < owing[k]) /\ ~(AllOf(k) > owing[k])
    <3>1. PICK x \in Nat : x = AllOf(k) /\ x = owing[k]
      BY <1>11
    <3>. QED  BY <3>1
  <2>. QED  BY <2>1 DEF GoodsStay
<1>16. BankAccepts
  BY <1>4, <1>5, <1>7, BankAssumption DEF BankAccepts
<1>. QED  BY <1>13, <1>14, <1>15, <1>16 DEF BankIInv

\* Every step keeps the invariant.
LEMMA BankSteps == ASSUME BankIInv, [BankNext]_bankVars PROVE BankIInv'
<1>1. CASE UNCHANGED bankVars
  <2>1. /\ hold' = hold /\ banks' = banks /\ heap' = heap /\ parcels' = parcels /\ sent' = sent
        /\ talk' = talk /\ posting' = posting /\ owing' = owing /\ faults' = faults
    BY <1>1 DEF bankVars
  <2>2. \A k : AllOf(k)' = AllOf(k)
    BY <2>1 DEF AllOf
  <2>3. GoodsStay' /\ BankAccepts'
    BY <2>1, <2>2 DEF BankIInv, GoodsStay, BankAccepts
  <2>. QED  BY <2>1, <2>3 DEF BankIInv, BankTyped
<1>2. CASE BankNext
  <2>1. PICK c \in Clients :
          \/ leave(c) \/ deposit(c) \/ sendparcel_sent(c)
          \/ \E s \in DOMAIN hold[c] :
               \/ choose_deposit(c, s) \/ choose_parcel(c, s) \/ dropitem(c, s)
               \/ \E t \in DOMAIN hold[c] : changeitem(c, s, t)
          \/ \E i \in DOMAIN banks[c] : choose_withdraw(c, i)
          \/ \E k \in Goods, m \in Marks : getitem(c, k, m)
          \/ \E n \in 1..MaxAsked :
               \/ amount_to_deposit(c, n) \/ withdraw(c, n)
               \/ \E to \in Clients : sendparcel(c, to, n)
          \/ \E q \in parcels : removeparcel(c, q)
    BY <1>2 DEF BankNext
  <2>2. CASE leave(c) \/ deposit(c) \/ sendparcel_sent(c)
    BY <2>2, leaveKeeps, depositKeeps, sendparcel_sentKeeps
  <2>3. ASSUME NEW s \in DOMAIN hold[c],
               \/ choose_deposit(c, s) \/ choose_parcel(c, s) \/ dropitem(c, s)
               \/ \E t \in DOMAIN hold[c] : changeitem(c, s, t)
        PROVE  BankIInv'
    BY <2>3, choose_depositKeeps, choose_parcelKeeps, dropitemKeeps, changeitemKeeps
  <2>4. ASSUME NEW i \in DOMAIN banks[c], choose_withdraw(c, i) PROVE BankIInv'
    BY <2>4, choose_withdrawKeeps
  <2>5. ASSUME NEW k \in Goods, NEW m \in Marks, getitem(c, k, m) PROVE BankIInv'
    BY <2>5, getitemKeeps
  <2>6. ASSUME NEW n \in 1..MaxAsked,
               \/ amount_to_deposit(c, n) \/ withdraw(c, n)
               \/ \E to \in Clients : sendparcel(c, to, n)
        PROVE  BankIInv'
    BY <2>6, amount_to_depositKeeps, withdrawKeeps, sendparcelKeeps
  <2>7. ASSUME NEW q \in parcels, removeparcel(c, q) PROVE BankIInv'
    BY <2>7, removeparcelKeeps
  <2>. QED  BY <2>1, <2>2, <2>3, <2>4, <2>5, <2>6, <2>7
<1>. QED  BY <1>1, <1>2

\* The invariant has the order of banks.
LEMMA BankIsOrdered == ASSUME BankIInv PROVE BankTypeOK /\ BankInOrder
<1>1. BankTypeOK
  BY DEF BankIInv, BankTyped, BankTypeOK, ParcelsFit, ParcelRows, Talks, Asks, Posts, BankFaults
<1>2. BankInOrder
  BY DEF BankIInv, BankInOrder, Ordered, NoGaps, OneEach
<1>. QED  BY <1>1, <1>2

\* Whatever players do in and between their dialogs: goods are lost only to a
\* full bank or with a second parcel of one position and copied only by a
\* parcel larger than its slot, banks have no gaps and take nothing that they
\* refuse unless the slot was changed after it was chosen.
THEOREM SpecBankSound == BankSpec => [](BankTypeOK /\ BankSound)
<1>1. BankInit => BankIInv
  BY BankStarts
<1>2. BankIInv /\ [BankNext]_bankVars => BankIInv'
  BY BankSteps
<1>3. BankIInv => BankTypeOK /\ BankSound
  BY BankIsOrdered DEF BankIInv, BankSound
<1>. QED  BY <1>1, <1>2, <1>3, PTL DEF BankSpec
=============================================================================
