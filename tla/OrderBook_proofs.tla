--------------------------- MODULE OrderBook_proofs ---------------------------
(***************************************************************************)
(* Proofs about OrderBook: the inductive invariant of the book, the effect *)
(* of each call on the set of resting orders, the quantity that a level     *)
(* keeps, and the refinement of TimePriorityBook, for any ids, users,       *)
(* prices, sizes and bounds.                                               *)
(***************************************************************************)
EXTENDS OrderBookRefinement, Data_proofs, SequenceTheorems, TLAPS

-----------------------------------------------------------------------------
(* Lists: list::erase in the middle. *)

LEMMA RemoveAtFacts ==
    ASSUME NEW S, NEW s \in Seq(S), NEW k \in 1..Len(s)
    PROVE  /\ RemoveAt(s, k) \in Seq(S)
           /\ Len(RemoveAt(s, k)) = Len(s) - 1
           /\ \A i \in 1..(Len(s) - 1) :
                RemoveAt(s, k)[i] = IF i < k THEN s[i] ELSE s[i + 1]
<1> DEFINE a == SubSeq(s, 1, k - 1)
           b == SubSeq(s, k + 1, Len(s))
<1>1. /\ a \in Seq(S)
      /\ Len(a) = k - 1
      /\ \A i \in 1..(k - 1) : a[i] = s[i]
  OBVIOUS
<1>2. /\ b \in Seq(S)
      /\ Len(b) = Len(s) - k
      /\ \A i \in 1..(Len(s) - k) : b[i] = s[k + i]
  OBVIOUS
<1>3. RemoveAt(s, k) = a \o b
  BY DEF RemoveAt
<1>4. Len(s) \in Nat
  OBVIOUS
<1> HIDE DEF a, b
<1>5. /\ a \o b \in Seq(S)
      /\ Len(a \o b) = Len(a) + Len(b)
      /\ \A i \in 1..(Len(a) + Len(b)) :
           (a \o b)[i] = IF i <= Len(a) THEN a[i] ELSE b[i - Len(a)]
  BY <1>1, <1>2, ConcatProperties
<1>6. ASSUME NEW i \in 1..(Len(s) - 1)
      PROVE  (a \o b)[i] = IF i < k THEN s[i] ELSE s[i + 1]
  <2>1. CASE i < k
    BY <1>1, <1>2, <1>4, <1>5, <2>1
  <2>2. CASE ~(i < k)
    <3>1. i - Len(a) \in 1..(Len(s) - k) /\ k + (i - Len(a)) = i + 1
      BY <1>1, <1>4, <2>2
    <3>2. (a \o b)[i] = b[i - Len(a)]
      BY <1>1, <1>2, <1>4, <1>5, <2>2
    <3> QED  BY <3>1, <3>2, <1>2, <2>2
  <2> QED  BY <2>1, <2>2
<1> QED  BY <1>1, <1>2, <1>3, <1>4, <1>5, <1>6

-----------------------------------------------------------------------------
(* One price level. *)

GoodLevel(lvl, side, p, n) ==
    /\ lvl \in PriceLevel
    /\ lvl.orders # <<>>
    /\ \A i \in DOMAIN lvl.orders :
         lvl.orders[i].side = side /\ lvl.orders[i].price = p /\ lvl.orders[i].node <= n
    /\ \A i, j \in DOMAIN lvl.orders : i < j => lvl.orders[i].node < lvl.orders[j].node

LEMMA AppendToLevel ==
    ASSUME NEW side, NEW p, NEW n \in Nat, NEW lvl, NEW x \in Node,
           x.side = side, x.price = p, x.node = n + 1,
           \/ lvl = [orders |-> <<>>, qty |-> 0]
           \/ GoodLevel(lvl, side, p, n)
    PROVE  LET new == AppendTo(lvl, x)
           IN  /\ GoodLevel(new, side, p, n + 1)
               /\ DOMAIN new.orders = 1..(Len(lvl.orders) + 1)
               /\ \A i \in DOMAIN lvl.orders : new.orders[i] = lvl.orders[i]
               /\ new.orders[Len(lvl.orders) + 1] = x
<1> DEFINE os == lvl.orders
           ns == Append(os, x)
           new == [orders |-> ns, qty |-> lvl.qty + x.rem]
<1>1. os \in Seq(Node) /\ lvl.qty \in Int
  <2>1. CASE lvl = [orders |-> <<>>, qty |-> 0]
    BY <2>1, EmptySeq
  <2>2. CASE GoodLevel(lvl, side, p, n)
    BY <2>2 DEF GoodLevel, PriceLevel
  <2> QED  BY <2>1, <2>2
<1>2. /\ \A i \in DOMAIN os : os[i] \in Node
      /\ \A i \in DOMAIN os : os[i].side = side /\ os[i].price = p /\ os[i].node <= n
      /\ \A i, j \in DOMAIN os : i < j => os[i].node < os[j].node
  BY <1>1 DEF GoodLevel
<1>3. Len(os) \in Nat /\ DOMAIN os = 1..Len(os)
  BY <1>1
<1> HIDE DEF os
<1>4. /\ ns \in Seq(Node)
      /\ ns # <<>>
      /\ DOMAIN ns = 1..(Len(os) + 1)
      /\ \A i \in DOMAIN os : ns[i] = os[i]
      /\ ns[Len(os) + 1] = x
  BY <1>1, <1>3, AppendProperties, LenProperties
<1>5. new \in PriceLevel
  BY <1>1, <1>4 DEF PriceLevel, Node
<1> HIDE DEF ns
<1>6. ASSUME NEW i \in DOMAIN ns
      PROVE  ns[i].side = side /\ ns[i].price = p /\ ns[i].node <= n + 1
  <2>1. CASE i \in DOMAIN os
    <3>1. ns[i] = os[i] /\ os[i].node \in Nat
      BY <1>2, <1>4, <2>1 DEF Node
    <3> QED  BY <1>2, <2>1, <3>1
  <2>2. CASE i \notin DOMAIN os
    BY <1>3, <1>4, <2>2
  <2> QED  BY <2>1, <2>2
<1>7. ASSUME NEW i \in DOMAIN ns, NEW j \in DOMAIN ns, i < j
      PROVE  ns[i].node < ns[j].node
  <2>1. i \in DOMAIN os /\ ns[i] = os[i] /\ os[i].node \in Nat
    <3>1. i \in DOMAIN os
      BY <1>2, <1>3, <1>4, <1>7
    <3>2. ns[i] = os[i] /\ os[i] \in Node
      BY <1>2, <1>4, <3>1
    <3> QED  BY <3>1, <3>2 DEF Node
  <2>2. CASE j \in DOMAIN os
    BY <1>2, <1>4, <1>7, <2>1, <2>2
  <2>3. CASE j \notin DOMAIN os
    <3>1. ns[j] = x
      BY <1>3, <1>4, <2>3
    <3> QED  BY <1>2, <2>1, <3>1
  <2> QED  BY <2>2, <2>3
<1>8. GoodLevel(new, side, p, n + 1)
  BY <1>4, <1>5, <1>6, <1>7 DEF GoodLevel
<1>9. AppendTo(lvl, x) = new
  BY DEF AppendTo, ns, os
<1> QED  BY <1>4, <1>8, <1>9 DEF os, ns

LEMMA EraseFromLevel ==
    ASSUME NEW side, NEW p, NEW n \in Nat, NEW lvl, GoodLevel(lvl, side, p, n),
           NEW k \in DOMAIN lvl.orders, Len(lvl.orders) # 1
    PROVE  /\ GoodLevel(RemoveFrom(lvl, k), side, p, n)
           /\ ToSet(RemoveFrom(lvl, k).orders) = ToSet(lvl.orders) \ {lvl.orders[k]}
<1> DEFINE os == lvl.orders
           ns == RemoveAt(os, k)
           new == [orders |-> ns, qty |-> lvl.qty - os[k].rem]
<1>1. /\ os \in Seq(Node) /\ lvl.qty \in Int /\ Len(os) \in Nat /\ DOMAIN os = 1..Len(os)
      /\ \A i \in DOMAIN os : os[i] \in Node
  BY DEF GoodLevel, PriceLevel
<1>2. /\ \A i \in DOMAIN os : os[i].side = side /\ os[i].price = p /\ os[i].node <= n
      /\ \A i, j \in DOMAIN os : i < j => os[i].node < os[j].node
  BY DEF GoodLevel
<1>3. k \in 1..Len(os) /\ Len(os) > 1
  <2>1. k \in 1..Len(os) /\ Len(os) # 1 /\ Len(os) \in Nat
    BY <1>1
  <2>2. \A m \in Nat : \A l \in 1..m : m # 1 => m > 1
    OBVIOUS
  <2> QED  BY <2>1, <2>2
<1> HIDE DEF os
<1>4. /\ ns \in Seq(Node)
      /\ Len(ns) = Len(os) - 1
      /\ \A i \in 1..(Len(os) - 1) : ns[i] = IF i < k THEN os[i] ELSE os[i + 1]
  BY <1>1, <1>3, RemoveAtFacts
<1> HIDE DEF ns
<1>5. DOMAIN ns = 1..(Len(os) - 1)
  BY <1>4
<1>6. new \in PriceLevel /\ ns # <<>>
  <2>1. os[k].rem \in Int /\ lvl.qty - os[k].rem \in Int
    <3>1. os[k] \in Node
      BY <1>1, <1>3
    <3>2. os[k].rem \in Int
      BY <3>1 DEF Node
    <3> QED  BY <1>1, <3>2
  <2>2. Len(ns) > 0
    BY <1>1, <1>3, <1>4
  <2> QED  BY <1>4, <2>1, <2>2 DEF PriceLevel
<1>7. ASSUME NEW i \in DOMAIN ns
      PROVE  ns[i].side = side /\ ns[i].price = p /\ ns[i].node <= n
  <2> DEFINE ii == IF i < k THEN i ELSE i + 1
  <2>1. ii \in DOMAIN os
    BY <1>1, <1>3, <1>5
  <2>2. ns[i] = os[ii]
    BY <1>4, <1>5
  <2> HIDE DEF ii
  <2> QED  BY <1>2, <2>1, <2>2
<1>8. ASSUME NEW i \in DOMAIN ns, NEW j \in DOMAIN ns, i < j
      PROVE  ns[i].node < ns[j].node
  <2> DEFINE ii == IF i < k THEN i ELSE i + 1
             jj == IF j < k THEN j ELSE j + 1
  <2>1. ii \in DOMAIN os /\ jj \in DOMAIN os /\ ii < jj
    BY <1>1, <1>3, <1>5, <1>8
  <2>2. ns[i] = os[ii] /\ ns[j] = os[jj]
    BY <1>4, <1>5
  <2> QED  BY <1>2, <2>1, <2>2
<1>9. GoodLevel(new, side, p, n)
  BY <1>6, <1>7, <1>8 DEF GoodLevel
<1>10. ASSUME NEW x \in ToSet(ns)  PROVE x \in ToSet(os) \ {os[k]}
  <2>1. PICK i \in DOMAIN ns : x = ns[i]
    BY <1>10 DEF ToSet
  <2> DEFINE ii == IF i < k THEN i ELSE i + 1
  <2>2. ii \in DOMAIN os /\ ii # k /\ x = os[ii]
    BY <1>1, <1>3, <1>4, <1>5, <2>1
  <2>3. os[ii].node # os[k].node
    <3>1. os[ii].node \in Nat /\ os[k].node \in Nat
      BY <1>1, <1>3, <2>2 DEF Node
    <3>2. ii < k \/ k < ii
      BY <1>1, <1>3, <2>2
    <3> QED  BY <1>1, <1>2, <1>3, <2>2, <3>1, <3>2
  <2> QED  BY <2>2, <2>3 DEF ToSet
<1>11. ASSUME NEW x \in ToSet(os) \ {os[k]}  PROVE x \in ToSet(ns)
  <2>1. PICK i \in DOMAIN os : x = os[i] /\ i # k
    BY <1>11 DEF ToSet
  <2>2. CASE i < k
    <3>1. i \in DOMAIN ns /\ ns[i] = os[i]
      BY <1>1, <1>3, <1>4, <1>5, <2>1, <2>2
    <3> QED  BY <2>1, <3>1 DEF ToSet
  <2>3. CASE i > k
    <3>1. i - 1 \in DOMAIN ns /\ ns[i - 1] = os[i]
      BY <1>1, <1>3, <1>4, <1>5, <2>1, <2>3
    <3> QED  BY <2>1, <3>1 DEF ToSet
  <2> QED  BY <1>1, <1>3, <2>1, <2>2, <2>3
<1>12. ToSet(ns) = ToSet(os) \ {os[k]}
  BY <1>10, <1>11
<1>13. RemoveFrom(lvl, k) = new
  BY DEF RemoveFrom, os, ns
<1> QED  BY <1>9, <1>12, <1>13 DEF os

-----------------------------------------------------------------------------
(* The maps of levels. *)

LevelsInv ==
    /\ levels = [side \in Sides |-> levels[side]]
    /\ inserted \in Nat
    /\ \A side \in Sides :
         /\ IsMap(levels[side], Prices)
         /\ \A p \in DOMAIN levels[side] : GoodLevel(levels[side][p], side, p, inserted)

(* A node of the book is in the level of its own side and price. *)
LEMMA RestingInLevel ==
    ASSUME LevelsInv, NEW x
    PROVE  x \in Resting <=>
             \E side \in Sides : \E p \in DOMAIN levels[side] :
               \E i \in DOMAIN levels[side][p].orders :
                 /\ x = levels[side][p].orders[i]
                 /\ x \in Node /\ x.side = side /\ x.price = p /\ x.node <= inserted
<1>1. ASSUME NEW side \in Sides, NEW p \in DOMAIN levels[side],
             NEW i \in DOMAIN levels[side][p].orders
      PROVE  /\ levels[side][p].orders[i] \in Node
             /\ levels[side][p].orders[i].side = side
             /\ levels[side][p].orders[i].price = p
             /\ levels[side][p].orders[i].node <= inserted
  <2>1. GoodLevel(levels[side][p], side, p, inserted)
    BY DEF LevelsInv
  <2> QED  BY <2>1 DEF GoodLevel, PriceLevel
<1> QED  BY <1>1 DEF Resting, NodesOf, ToSet

(* No two nodes of the book have the same place and number. *)
LEMMA NodesDistinct ==
    ASSUME LevelsInv, NEW x \in Resting, NEW y \in Resting, RefTo(x) = RefTo(y)
    PROVE  x = y
<1>1. x.side = y.side /\ x.price = y.price /\ x.node = y.node
  BY DEF RefTo
<1>2. PICK side \in Sides : \E p \in DOMAIN levels[side] :
        /\ \E i \in DOMAIN levels[side][p].orders : x = levels[side][p].orders[i]
        /\ \E j \in DOMAIN levels[side][p].orders : y = levels[side][p].orders[j]
  BY <1>1, RestingInLevel
<1>2a. PICK p \in DOMAIN levels[side] :
        /\ \E i \in DOMAIN levels[side][p].orders : x = levels[side][p].orders[i]
        /\ \E j \in DOMAIN levels[side][p].orders : y = levels[side][p].orders[j]
  BY <1>2
<1> DEFINE os == levels[side][p].orders
<1>3. PICK i \in DOMAIN os, j \in DOMAIN os : x = os[i] /\ y = os[j]
  BY <1>2a
<1>4. GoodLevel(levels[side][p], side, p, inserted)
  BY DEF LevelsInv
<1>5. os \in Seq(Node) /\ \A k, l \in DOMAIN os : k < l => os[k].node < os[l].node
  BY <1>4 DEF GoodLevel, PriceLevel
<1> HIDE DEF os
<1>6. i \in Nat /\ j \in Nat /\ os[i].node \in Nat /\ os[j].node \in Nat
  <2>1. DOMAIN os = 1..Len(os) /\ Len(os) \in Nat
    BY <1>5, LenProperties
  <2>2. os[i] \in Node /\ os[j] \in Node
    BY <1>5, <2>1, ElementOfSeq
  <2> QED  BY <2>1, <2>2 DEF Node
<1> QED  BY <1>1, <1>3, <1>5, <1>6

(* map[price] = new, for a level that keeps the rules of its place. *)
LEMMA LevelSet ==
    ASSUME LevelsInv, NEW side \in Sides, NEW price \in Prices, NEW new,
           inserted' \in Nat, inserted <= inserted',
           GoodLevel(new, side, price, inserted'),
           SetLevel(side, price, new)
    PROVE  /\ LevelsInv'
           /\ Resting' = (Resting \ ToSet(LevelAt(side, price).orders)) \cup ToSet(new.orders)
<1>1. /\ levels' = [s \in Sides |-> levels'[s]]
      /\ \A s \in Sides : s # side => levels'[s] = levels[s]
      /\ levels'[side] = Put(levels[side], price, new)
  BY DEF LevelsInv, SetLevel
<1>2. /\ DOMAIN levels'[side] = DOMAIN levels[side] \cup {price}
      /\ levels'[side][price] = new
      /\ \A p \in DOMAIN levels[side] : p # price => levels'[side][p] = levels[side][p]
  BY <1>1 DEF Put
<1>3. ASSUME NEW s \in Sides  PROVE IsMap(levels'[s], Prices)
  <2>1. IsMap(levels[s], Prices) /\ IsMap(levels[side], Prices)
    BY DEF LevelsInv
  <2>2. IsMap(Put(levels[side], price, new), Prices)
    BY <2>1 DEF IsMap, Put
  <2> QED  BY <1>1, <2>1, <2>2
<1>4. ASSUME NEW s \in Sides, NEW p \in DOMAIN levels[s]
      PROVE  GoodLevel(levels[s][p], s, p, inserted')
  <2>1. GoodLevel(levels[s][p], s, p, inserted)
    BY DEF LevelsInv
  <2>2. \A i \in DOMAIN levels[s][p].orders : levels[s][p].orders[i].node <= inserted'
    <3>1. levels[s][p].orders \in Seq(Node) /\ inserted \in Nat
      BY <2>1 DEF GoodLevel, PriceLevel, LevelsInv
    <3>2. \A i \in DOMAIN levels[s][p].orders : levels[s][p].orders[i].node \in Nat
      <4>1. \A i \in DOMAIN levels[s][p].orders : levels[s][p].orders[i] \in Node
        BY <3>1
      <4> QED  BY <4>1 DEF Node
    <3> QED  BY <2>1, <3>1, <3>2 DEF GoodLevel
  <2> QED  BY <2>1, <2>2 DEF GoodLevel
<1>5. ASSUME NEW s \in Sides, NEW p \in DOMAIN levels'[s]
      PROVE  GoodLevel(levels'[s][p], s, p, inserted')
  <2>1. CASE s = side /\ p = price
    BY <1>2, <2>1
  <2>2. CASE ~(s = side /\ p = price)
    <3>1. p \in DOMAIN levels[s] /\ levels'[s][p] = levels[s][p]
      BY <1>1, <1>2, <2>2
    <3> QED  BY <1>4, <3>1
  <2> QED  BY <2>1, <2>2
<1>6. LevelsInv'
  BY <1>1, <1>3, <1>5 DEF LevelsInv
<1>7. LevelAt(side, price).orders =
        IF price \in DOMAIN levels[side] THEN levels[side][price].orders ELSE <<>>
  BY DEF LevelAt
<1>8. ToSet(<<>>) = {}
  BY DEF ToSet
<1>9. ASSUME NEW x \in Resting'
      PROVE  x \in (Resting \ ToSet(LevelAt(side, price).orders)) \cup ToSet(new.orders)
  <2>1a. PICK s \in Sides : \E p \in DOMAIN levels'[s] : x \in ToSet(levels'[s][p].orders)
    BY DEF Resting, NodesOf
  <2>1. PICK p \in DOMAIN levels'[s] : x \in ToSet(levels'[s][p].orders)
    BY <2>1a
  <2>2. CASE s = side /\ p = price
    BY <1>2, <2>1, <2>2
  <2>3. CASE ~(s = side /\ p = price)
    <3>1. p \in DOMAIN levels[s] /\ x \in ToSet(levels[s][p].orders)
      BY <1>1, <1>2, <2>1, <2>3
    <3>2. x \in Resting /\ x.side = s /\ x.price = p
      BY <3>1 DEF Resting, NodesOf, ToSet, LevelsInv, GoodLevel
    <3>3. ASSUME price \in DOMAIN levels[side]
          PROVE  x \notin ToSet(levels[side][price].orders)
      BY <2>3, <3>2, <3>3 DEF ToSet, LevelsInv, GoodLevel
    <3> QED  BY <1>7, <1>8, <3>2, <3>3
  <2> QED  BY <2>2, <2>3
<1>10. ASSUME NEW x \in (Resting \ ToSet(LevelAt(side, price).orders)) \cup ToSet(new.orders)
       PROVE  x \in Resting'
  <2>1. CASE x \in ToSet(new.orders)
    BY <1>2, <2>1 DEF Resting, NodesOf
  <2>2. CASE x \in Resting \ ToSet(LevelAt(side, price).orders)
    <3>1a. PICK s \in Sides : \E p \in DOMAIN levels[s] : x \in ToSet(levels[s][p].orders)
      BY <2>2 DEF Resting, NodesOf
    <3>1. PICK p \in DOMAIN levels[s] : x \in ToSet(levels[s][p].orders)
      BY <3>1a
    <3>2. ~(s = side /\ p = price)
      BY <1>7, <2>2, <3>1
    <3>3. p \in DOMAIN levels'[s] /\ levels'[s][p] = levels[s][p]
      BY <1>1, <1>2, <3>2
    <3> QED  BY <3>1, <3>3 DEF Resting, NodesOf
  <2> QED  BY <2>1, <2>2
<1> QED  BY <1>6, <1>9, <1>10

(* map.erase(price), when the last order of the level goes. *)
LEMMA LevelErased ==
    ASSUME LevelsInv, NEW side \in Sides, NEW price \in DOMAIN levels[side],
           inserted' = inserted, EraseLevel(side, price)
    PROVE  /\ LevelsInv'
           /\ Resting' = Resting \ ToSet(levels[side][price].orders)
<1>1. /\ levels' = [s \in Sides |-> levels'[s]]
      /\ \A s \in Sides : s # side => levels'[s] = levels[s]
      /\ levels'[side] = Erase(levels[side], price)
  BY DEF LevelsInv, EraseLevel
<1>2. /\ DOMAIN levels'[side] = DOMAIN levels[side] \ {price}
      /\ \A p \in DOMAIN levels'[side] : levels'[side][p] = levels[side][p]
  BY <1>1 DEF Erase, Restrict
<1>3. \A s \in Sides : IsMap(levels'[s], Prices)
  BY <1>1, <1>2 DEF LevelsInv, IsMap, Erase, Restrict
<1>4. \A s \in Sides : \A p \in DOMAIN levels'[s] :
         p \in DOMAIN levels[s] /\ levels'[s][p] = levels[s][p]
  BY <1>1, <1>2
<1>5. LevelsInv'
  BY <1>1, <1>3, <1>4 DEF LevelsInv
<1>6. ASSUME NEW x \in Resting'
      PROVE  x \in Resting \ ToSet(levels[side][price].orders)
  <2>1a. PICK s \in Sides : \E p \in DOMAIN levels'[s] : x \in ToSet(levels'[s][p].orders)
    BY DEF Resting, NodesOf
  <2>1. PICK p \in DOMAIN levels'[s] : x \in ToSet(levels'[s][p].orders)
    BY <2>1a
  <2>2. p \in DOMAIN levels[s] /\ x \in ToSet(levels[s][p].orders) /\ ~(s = side /\ p = price)
    BY <1>2, <1>4, <2>1
  <2>3. x \in Resting /\ x.side = s /\ x.price = p
    BY <2>2 DEF Resting, NodesOf, ToSet, LevelsInv, GoodLevel
  <2>4. x \notin ToSet(levels[side][price].orders)
    BY <2>2, <2>3 DEF ToSet, LevelsInv, GoodLevel
  <2> QED  BY <2>3, <2>4
<1>7. ASSUME NEW x \in Resting \ ToSet(levels[side][price].orders)
      PROVE  x \in Resting'
  <2>1a. PICK s \in Sides : \E p \in DOMAIN levels[s] : x \in ToSet(levels[s][p].orders)
    BY DEF Resting, NodesOf
  <2>1. PICK p \in DOMAIN levels[s] : x \in ToSet(levels[s][p].orders)
    BY <2>1a
  <2>2. p \in DOMAIN levels'[s] /\ levels'[s][p] = levels[s][p]
    BY <1>1, <1>2, <1>7, <2>1
  <2> QED  BY <2>1, <2>2 DEF Resting, NodesOf
<1> QED  BY <1>5, <1>6, <1>7

-----------------------------------------------------------------------------
(* The effect of each call on the levels and on the set of resting orders. *)

LEMMA AddLevels ==
    ASSUME LevelsInv, NEW o, o.id \in OrderIds, o.user \in Users, o.side \in Sides,
           o.price \in Prices, o.rem \in Nat \ {0}, AddOrder(o)
    PROVE  LevelsInv' /\ Resting' = Resting \cup {NewNode(o)}
<1> DEFINE lvl == LevelAt(o.side, o.price)
           x   == NewNode(o)
           new == AppendTo(lvl, x)
<1>1. /\ inserted \in Nat /\ inserted' = inserted + 1
      /\ SetLevel(o.side, o.price, new)
  BY DEF AddOrder, LevelsInv
<1>2. /\ x \in Node /\ x.side = o.side /\ x.price = o.price /\ x.node = inserted + 1
      /\ x.rem = o.rem
  BY <1>1 DEF NewNode, Node
<1>3. lvl = [orders |-> <<>>, qty |-> 0] \/ GoodLevel(lvl, o.side, o.price, inserted)
  BY DEF LevelAt, LevelsInv
<1>4. ToSet(lvl.orders) \subseteq Resting
  BY DEF LevelAt, Resting, NodesOf, ToSet
<1> HIDE DEF x, lvl
<1>5. /\ GoodLevel(new, o.side, o.price, inserted + 1)
      /\ DOMAIN new.orders = 1..(Len(lvl.orders) + 1)
      /\ \A i \in DOMAIN lvl.orders : new.orders[i] = lvl.orders[i]
      /\ new.orders[Len(lvl.orders) + 1] = x
  BY <1>1, <1>2, <1>3, AppendToLevel
<1>6. lvl.orders \in Seq(Node)
  <2>1. CASE lvl = [orders |-> <<>>, qty |-> 0]
    BY <2>1, EmptySeq
  <2>2. CASE GoodLevel(lvl, o.side, o.price, inserted)
    BY <2>2 DEF GoodLevel, PriceLevel
  <2> QED  BY <1>3, <2>1, <2>2
<1>7. Len(lvl.orders) \in Nat /\ DOMAIN lvl.orders = 1..Len(lvl.orders)
  BY <1>6, LenProperties
<1>8. ToSet(new.orders) = ToSet(lvl.orders) \cup {x}
  <2> DEFINE os == lvl.orders
             ns == new.orders
  <2>1. /\ DOMAIN ns = DOMAIN os \cup {Len(os) + 1}
        /\ \A i \in DOMAIN os : ns[i] = os[i]
        /\ ns[Len(os) + 1] = x
    BY <1>5, <1>7
  <2> HIDE DEF os, ns
  <2>2. ToSet(ns) = ToSet(os) \cup {x}
    BY <2>1 DEF ToSet
  <2> QED  BY <2>2 DEF os, ns
<1> HIDE DEF new
<1>9. /\ LevelsInv'
      /\ Resting' = (Resting \ ToSet(lvl.orders)) \cup ToSet(new.orders)
  BY <1>1, <1>5, LevelSet DEF lvl
<1> QED  BY <1>4, <1>8, <1>9 DEF x

LEMMA DropLevels ==
    ASSUME LevelsInv, NEW side \in Sides, NEW price \in DOMAIN levels[side],
           NEW k \in DOMAIN levels[side][price].orders, inserted' = inserted,
           DropOrder(side, price, k)
    PROVE  LevelsInv' /\ Resting' = Resting \ {levels[side][price].orders[k]}
<1> DEFINE lvl == levels[side][price]
           new == RemoveFrom(lvl, k)
<1>1. GoodLevel(lvl, side, price, inserted) /\ inserted \in Nat /\ price \in Prices
  BY DEF LevelsInv, IsMap
<1>2. lvl.orders \in Seq(Node) /\ DOMAIN lvl.orders = 1..Len(lvl.orders)
  BY <1>1 DEF GoodLevel, PriceLevel
<1>4. ToSet(lvl.orders) \subseteq Resting
  BY DEF Resting, NodesOf
<1>6. CASE Len(lvl.orders) = 1
  <2>1. EraseLevel(side, price)
    BY <1>6 DEF DropOrder
  <2>2. ToSet(lvl.orders) = {lvl.orders[k]}
    BY <1>2, <1>6 DEF ToSet
  <2> QED  BY <2>1, <2>2, LevelErased
<1>7. CASE Len(lvl.orders) # 1
  <2>2. SetLevel(side, price, new)
    BY <1>7 DEF DropOrder
  <2>3. /\ GoodLevel(new, side, price, inserted)
        /\ ToSet(new.orders) = ToSet(lvl.orders) \ {lvl.orders[k]}
    BY <1>1, <1>7, EraseFromLevel
  <2>4. LevelAt(side, price) = lvl
    BY DEF LevelAt
  <2> HIDE DEF new
  <2>5. /\ LevelsInv'
        /\ Resting' = (Resting \ ToSet(lvl.orders)) \cup ToSet(new.orders)
    BY <1>1, <2>2, <2>3, <2>4, LevelSet
  <2> QED  BY <1>2, <1>4, <2>3, <2>5 DEF ToSet
<1> QED  BY <1>6, <1>7

LEMMA RemoveLevels ==
    ASSUME LevelsInv, NEW x \in Resting, NEW id \in DOMAIN order_index,
           order_index[id] = RefTo(x), RemoveOrder(id)
    PROVE  LevelsInv' /\ Resting' = Resting \ {x}
<1> DEFINE os == levels[x.side][x.price].orders
           k  == PositionOf(os, x.node)
<1>1. /\ x \in Node /\ x.side \in Sides /\ x.price \in DOMAIN levels[x.side]
      /\ \E i \in DOMAIN os : x = os[i]
  BY RestingInLevel
<1>2. k \in DOMAIN os /\ os[k].node = x.node
  BY <1>1 DEF PositionOf
<1> HIDE DEF k
<1>3. os[k] = x
  <2>1. /\ os[k] \in Resting /\ os[k].side = x.side /\ os[k].price = x.price
    <3>1. os[k] \in Resting
      <4>1. os[k] \in ToSet(os)
        BY <1>2 DEF ToSet
      <4>2. ToSet(os) \subseteq NodesOf(x.side)
        BY <1>1 DEF NodesOf
      <4> QED  BY <1>1, <4>1, <4>2 DEF Resting
    <3>2. GoodLevel(levels[x.side][x.price], x.side, x.price, inserted)
      BY <1>1 DEF LevelsInv
    <3>3. os[k].side = x.side /\ os[k].price = x.price
      BY <1>2, <3>2 DEF GoodLevel
    <3> QED  BY <3>1, <3>3
  <2>2. RefTo(os[k]) = RefTo(x)
    BY <1>2, <2>1 DEF RefTo
  <2> QED  BY <2>1, <2>2, NodesDistinct
<1>4. DropOrder(x.side, x.price, k) /\ inserted' = inserted
  BY <1>1 DEF RemoveOrder, RefTo, k
<1> QED  BY <1>1, <1>2, <1>3, <1>4, DropLevels

LEMMA ConsumeLevels ==
    ASSUME LevelsInv, NEW side \in Sides, NEW price \in DOMAIN levels[side],
           NEW q \in Nat \ {0}, q <= FrontOrder(side, price).rem, ConsumeFront(side, price, q)
    PROVE  LET x == FrontOrder(side, price)
           IN  /\ LevelsInv'
               /\ x \in Resting /\ x \in Node /\ x.side = side /\ x.price = price
               /\ \A y \in Resting : y.side = side /\ y.price = price => x.node <= y.node
               /\ q = x.rem => Resting' = Resting \ {x}
               /\ q < x.rem => Resting' = (Resting \ {x}) \cup {[x EXCEPT !.rem = @ - q]}
<1> DEFINE lvl == levels[side][price]
           os  == lvl.orders
           x   == FrontOrder(side, price)
           y   == [x EXCEPT !.rem = @ - q]
           new == [orders |-> [os EXCEPT ![1] = y], qty |-> lvl.qty - q]
<1>1. GoodLevel(lvl, side, price, inserted) /\ inserted \in Nat /\ price \in Prices
  BY DEF LevelsInv, IsMap
<1>2. os \in Seq(Node) /\ DOMAIN os = 1..Len(os) /\ 1 \in DOMAIN os
  BY <1>1, EmptySeq, LenProperties DEF GoodLevel, PriceLevel
<1>3. x = os[1] /\ x \in Node /\ x.side = side /\ x.price = price /\ x \in Resting
  BY <1>1, <1>2, ElementOfSeq DEF FrontOrder, GoodLevel, Resting, NodesOf, ToSet
<1>4. ASSUME NEW z \in Resting, z.side = side, z.price = price
      PROVE  x.node <= z.node
  <2>1. PICK i \in DOMAIN os : z = os[i] /\ z \in Node
    BY <1>4, RestingInLevel
  <2>2. i = 1 \/ 1 < i
    BY <1>2
  <2>3. 1 < i => os[1].node < os[i].node
    BY <1>1, <1>2 DEF GoodLevel
  <2>4. x.node \in Nat /\ z.node \in Nat
    BY <1>3, <2>1 DEF Node
  <2> QED  BY <1>3, <2>1, <2>2, <2>3, <2>4
<1>5. CASE q = x.rem
  <2>1. DropOrder(side, price, 1) /\ inserted' = inserted
    BY <1>3, <1>5 DEF ConsumeFront, FrontOrder, Node
  <2>2. LevelsInv' /\ Resting' = Resting \ {x}
    BY <1>2, <1>3, <2>1, DropLevels
  <2>3. x.rem \in Nat /\ ~(q < x.rem)
    BY <1>3, <1>5 DEF Node
  <2> QED  BY <1>3, <1>4, <1>5, <2>2, <2>3
<1>6. CASE q < x.rem
  <2>1. y \in Node /\ y.side = side /\ y.price = price /\ y.node = x.node
    BY <1>3, <1>6 DEF Node
  <2>2. /\ [os EXCEPT ![1] = y] \in Seq(Node)
        /\ DOMAIN [os EXCEPT ![1] = y] = DOMAIN os
        /\ [os EXCEPT ![1] = y][1] = y
        /\ \A i \in DOMAIN os : i # 1 => [os EXCEPT ![1] = y][i] = os[i]
    BY <1>2, <2>1, ExceptSeq
  <2>3. GoodLevel(new, side, price, inserted)
    <3>1. new \in PriceLevel
      BY <1>1, <1>6, <2>2 DEF GoodLevel, PriceLevel
    <3> DEFINE ns == [os EXCEPT ![1] = y]
    <3> HIDE DEF ns, y
    <3>2. /\ DOMAIN ns = DOMAIN os /\ ns # <<>>
          /\ \A i \in DOMAIN ns : /\ ns[i].node = os[i].node
                                  /\ ns[i].side = side /\ ns[i].price = price
      <4>1. DOMAIN ns = DOMAIN os /\ ns # <<>>
        BY <1>2, <2>2 DEF ns
      <4>2. ASSUME NEW i \in DOMAIN ns
            PROVE  ns[i].node = os[i].node /\ ns[i].side = side /\ ns[i].price = price
        <5>1. os[i].side = side /\ os[i].price = price /\ i \in DOMAIN os
          BY <1>1, <4>1, <4>2 DEF GoodLevel
        <5>2. CASE i = 1
          BY <1>3, <2>1, <2>2, <5>2 DEF ns
        <5>3. CASE i # 1
          BY <2>2, <5>1, <5>3 DEF ns
        <5> QED  BY <5>2, <5>3
      <4> QED  BY <4>1, <4>2
    <3>3. new.orders = ns
      BY DEF ns, new
    <3>4. /\ \A i \in DOMAIN os : os[i].node <= inserted
          /\ \A i, j \in DOMAIN os : i < j => os[i].node < os[j].node
      BY <1>1 DEF GoodLevel
    <3> HIDE DEF new
    <3>5. /\ \A i \in DOMAIN ns :
               ns[i].side = side /\ ns[i].price = price /\ ns[i].node <= inserted
          /\ \A i, j \in DOMAIN ns : i < j => ns[i].node < ns[j].node
      BY <3>2, <3>4
    <3> QED  BY <3>1, <3>2, <3>3, <3>5 DEF GoodLevel
  <2>4. ToSet(new.orders) = (ToSet(os) \ {x}) \cup {y}
    <3>1. ASSUME NEW i \in DOMAIN os, i # 1  PROVE os[i] # x
      <4>1. 1 < i
        BY <1>2, <3>1
      <4>2. os[1].node < os[i].node /\ os[1].node \in Nat
        BY <1>1, <1>2, <1>3, <4>1 DEF GoodLevel, Node
      <4> QED  BY <1>3, <4>2
    <3> DEFINE ns == [os EXCEPT ![1] = y]
    <3> HIDE DEF ns, y
    <3>2. ToSet(ns) = (ToSet(os) \ {x}) \cup {y}
      BY <1>2, <1>3, <2>2, <3>1 DEF ToSet, ns
    <3> QED  BY <3>2 DEF ns
  <2>6. SetLevel(side, price, new) /\ inserted' = inserted
    BY <1>3, <1>6 DEF ConsumeFront, FrontOrder, ReduceFront
  <2>7. LevelAt(side, price) = lvl /\ ToSet(os) \subseteq Resting
    BY DEF LevelAt, Resting, NodesOf
  <2> HIDE DEF new, y
  <2>8. LevelsInv' /\ Resting' = (Resting \ ToSet(os)) \cup ToSet(new.orders)
    BY <1>1, <2>3, <2>6, <2>7, LevelSet
  <2>9. x \in ToSet(os)
    BY <1>2, <1>3 DEF ToSet
  <2>10. Resting' = (Resting \ {x}) \cup {y}
    BY <2>4, <2>7, <2>8, <2>9
  <2> QED  BY <1>3, <1>4, <1>6, <2>8, <2>10 DEF y, Node
<1>7. q \in Nat /\ x.rem \in Nat /\ q <= x.rem
  BY <1>3 DEF Node
<1> QED  BY <1>5, <1>6, <1>7

-----------------------------------------------------------------------------
(* The index. *)

IndexInv ==
    /\ IsMap(order_index, OrderIds)
    /\ \A id \in DOMAIN order_index : order_index[id] \in OrderRef
    /\ IndexSound

BookInv == LevelsInv /\ IndexInv

LEMMA AddPreserves ==
    ASSUME BookInv, NEW o, o.id \in OrderIds, o.user \in Users, o.side \in Sides,
           o.price \in Prices, o.rem \in Nat \ {0}, AddOrder(o)
    PROVE  /\ BookInv'
           /\ Resting' = Resting \cup {NewNode(o)}
           /\ IndexComplete /\ (\A n \in Resting : n.id # o.id) => IndexComplete'
<1> DEFINE x == NewNode(o)
<1>1. LevelsInv' /\ Resting' = Resting \cup {x}
  BY AddLevels DEF BookInv
<1>2. x.id = o.id /\ RefTo(x) \in OrderRef
  BY DEF NewNode, RefTo, OrderRef, BookInv, LevelsInv
<1>3. order_index' = IF o.id \in DOMAIN order_index THEN order_index
                     ELSE Put(order_index, o.id, RefTo(x))
  BY DEF AddOrder
<1> HIDE DEF x
<1>4. CASE o.id \in DOMAIN order_index
  <2>1. IndexInv'
    BY <1>1, <1>3, <1>4 DEF BookInv, IndexInv, IndexSound
  <2>2. ~(\A n \in Resting : n.id # o.id)
    BY <1>4 DEF BookInv, IndexInv, IndexSound
  <2> QED  BY <1>1, <2>1, <2>2 DEF BookInv, x
<1>5. CASE o.id \notin DOMAIN order_index
  <2>1. /\ DOMAIN order_index' = DOMAIN order_index \cup {o.id}
        /\ order_index'[o.id] = RefTo(x)
        /\ \A id \in DOMAIN order_index : order_index'[id] = order_index[id]
        /\ IsMap(order_index', OrderIds)
    BY <1>3, <1>5 DEF Put, BookInv, IndexInv, IsMap
  <2>2. IndexInv'
    BY <1>1, <1>2, <2>1 DEF BookInv, IndexInv, IndexSound
  <2>3. IndexComplete => IndexComplete'
    BY <1>1, <1>2, <1>5, <2>1 DEF IndexComplete
  <2> QED  BY <1>1, <2>2, <2>3 DEF BookInv, x
<1> QED  BY <1>4, <1>5

(* What leaves the book leaves the index. *)
LEMMA ErasePreserves ==
    ASSUME BookInv, NEW x \in Resting, LevelsInv', Resting' = Resting \ {x},
           order_index' = Erase(order_index, x.id)
    PROVE  BookInv' /\ (IndexComplete => IndexComplete')
<1>1. /\ DOMAIN order_index' = DOMAIN order_index \ {x.id}
      /\ \A id \in DOMAIN order_index' : order_index'[id] = order_index[id]
      /\ IsMap(order_index', OrderIds)
  BY DEF Erase, Restrict, BookInv, IndexInv, IsMap
<1>2. IndexSound'
  BY <1>1 DEF BookInv, IndexInv, IndexSound
<1>3. ASSUME IndexComplete, NEW y \in Resting, y # x  PROVE y.id # x.id
  BY <1>3, NodesDistinct DEF IndexComplete, BookInv
<1>4. IndexComplete => IndexComplete'
  BY <1>1, <1>3 DEF IndexComplete
<1> QED  BY <1>1, <1>2, <1>4 DEF BookInv, IndexInv

LEMMA RemovePreserves ==
    ASSUME BookInv, NEW id, RemoveOrder(id)
    PROVE  /\ BookInv'
           /\ IndexComplete => IndexComplete'
           /\ IndexComplete => Resting' = {n \in Resting : n.id # id}
           /\ inserted' = inserted
<1>1. CASE id \notin DOMAIN order_index
  <2>1. UNCHANGED bookVars
    BY <1>1 DEF RemoveOrder
  <2>2. Resting' = Resting
    BY <2>1 DEF bookVars, Resting, NodesOf
  <2>3. BookInv' /\ (IndexComplete => IndexComplete')
    BY <2>1, <2>2 DEF bookVars, BookInv, LevelsInv, IndexInv, IndexSound, IndexComplete
  <2> QED  BY <1>1, <2>1, <2>2, <2>3 DEF IndexComplete, bookVars
<1>2. CASE id \in DOMAIN order_index
  <2>1. PICK x \in Resting : x.id = id /\ order_index[id] = RefTo(x)
    BY <1>2 DEF BookInv, IndexInv, IndexSound
  <2>2. LevelsInv' /\ Resting' = Resting \ {x}
    BY <1>2, <2>1, RemoveLevels DEF BookInv
  <2>3. order_index' = Erase(order_index, x.id) /\ inserted' = inserted
    BY <1>2, <2>1 DEF RemoveOrder
  <2>4. ASSUME IndexComplete, NEW y \in Resting, y.id = id  PROVE y = x
    BY <2>1, <2>4, NodesDistinct DEF IndexComplete, BookInv
  <2> QED  BY <2>1, <2>2, <2>3, <2>4, ErasePreserves
<1> QED  BY <1>1, <1>2

LEMMA ConsumePreserves ==
    ASSUME BookInv, NEW side \in Sides, NEW price \in DOMAIN levels[side],
           NEW q \in Nat \ {0}, q <= FrontOrder(side, price).rem, ConsumeFront(side, price, q)
    PROVE  LET x == FrontOrder(side, price)
           IN  /\ BookInv'
               /\ IndexComplete => IndexComplete'
               /\ x \in Resting /\ x \in Node /\ x.side = side /\ x.price = price
               /\ \A y \in Resting : y.side = side /\ y.price = price => x.node <= y.node
               /\ q = x.rem => Resting' = Resting \ {x}
               /\ q < x.rem => Resting' = (Resting \ {x}) \cup {[x EXCEPT !.rem = @ - q]}
               /\ inserted' = inserted
<1> DEFINE x == FrontOrder(side, price)
           y == [x EXCEPT !.rem = @ - q]
<1>1. /\ LevelsInv' /\ inserted' = inserted
      /\ x \in Resting /\ x \in Node /\ x.side = side /\ x.price = price
      /\ \A z \in Resting : z.side = side /\ z.price = price => x.node <= z.node
      /\ q = x.rem => Resting' = Resting \ {x}
      /\ q < x.rem => Resting' = (Resting \ {x}) \cup {y}
  BY ConsumeLevels DEF BookInv, ConsumeFront
<1>2. order_index' = IF q < x.rem THEN order_index ELSE Erase(order_index, x.id)
  BY DEF ConsumeFront
<1>3. q \in Nat /\ x.rem \in Nat
  BY <1>1 DEF Node
<1> HIDE DEF x
<1>4. CASE q = x.rem
  BY <1>1, <1>2, <1>3, <1>4, ErasePreserves DEF x
<1>5. CASE q < x.rem
  <2>1. y.id = x.id /\ RefTo(y) = RefTo(x) /\ Resting' = (Resting \ {x}) \cup {y}
    BY <1>1, <1>5 DEF RefTo, Node
  <2>2. order_index' = order_index
    BY <1>2, <1>5
  <2> HIDE DEF y
  <2>3. IndexSound' /\ (IndexComplete => IndexComplete')
    BY <1>1, <2>1, <2>2 DEF BookInv, IndexInv, IndexSound, IndexComplete
  <2>4. BookInv'
    BY <1>1, <2>2, <2>3 DEF BookInv, IndexInv
  <2> QED  BY <1>1, <1>3, <1>5, <2>3, <2>4 DEF x, y
<1> QED  BY <1>3, <1>4, <1>5 DEF x

-----------------------------------------------------------------------------
(* The resting orders as a specification without lists sees them: each with *)
(* the number of its node as its time stamp.                                *)

Stamp(n) == [order |-> OrderOf(n), stamp |-> n.node]

Stamped == {Stamp(n) : n \in Resting}

LEMMA StampFacts ==
    ASSUME NEW n
    PROVE  /\ Stamp(n).stamp = n.node
           /\ Stamp(n).order.id = n.id /\ Stamp(n).order.user = n.user
           /\ Stamp(n).order.side = n.side /\ Stamp(n).order.price = n.price
           /\ Stamp(n).order.rem = n.rem
BY DEF Stamp, OrderOf

(* One order leaves. *)
LEMMA StampRemoved ==
    ASSUME BookInv, NEW x \in Resting
    PROVE  {Stamp(n) : n \in Resting \ {x}} = Stamped \ {Stamp(x)}
<1>1. ASSUME NEW n \in Resting, Stamp(n) = Stamp(x)  PROVE n = x
  <2>1. RefTo(n) = RefTo(x)
    BY <1>1 DEF Stamp, OrderOf, RefTo
  <2> QED  BY <2>1, NodesDistinct DEF BookInv
<1> QED  BY <1>1 DEF Stamped

(* q lots of one order leave, and the order with the last of them. *)
LEMMA StampTaken ==
    ASSUME BookInv, NEW x \in Resting, NEW q \in Nat \ {0}, q <= x.rem, x \in Node,
           q = x.rem => Resting' = Resting \ {x},
           q < x.rem => Resting' = (Resting \ {x}) \cup {[x EXCEPT !.rem = @ - q]}
    PROVE  Stamped' = (Stamped \ {Stamp(x)}) \cup
             (IF q = x.rem THEN {} ELSE {[Stamp(x) EXCEPT !.order.rem = @ - q]})
<1> DEFINE y == [x EXCEPT !.rem = @ - q]
<1>1. {Stamp(n) : n \in Resting \ {x}} = Stamped \ {Stamp(x)}
  BY StampRemoved
<1>2. Stamp(y) = [Stamp(x) EXCEPT !.order.rem = @ - q]
  BY DEF Stamp, OrderOf, Node
<1>3. x.rem \in Nat
  BY DEF Node
<1> HIDE DEF y
<1>4. CASE q = x.rem
  BY <1>1, <1>4 DEF Stamped
<1>5. CASE q < x.rem
  <2>1. Stamped' = {Stamp(n) : n \in Resting \ {x}} \cup {Stamp(y)}
    BY <1>5 DEF Stamped, y
  <2> QED  BY <1>1, <1>2, <1>3, <1>5, <2>1
<1> QED  BY <1>3, <1>4, <1>5

-----------------------------------------------------------------------------
(* The incremental quantity of a level. *)

Rems(orders) == [i \in DOMAIN orders |-> orders[i].rem]

ExactLevel(lvl) == lvl.qty = SumFunction(Rems(lvl.orders))

LEMMA LevelSum ==
    ASSUME NEW os \in Seq(Node)
    PROVE  /\ IsFiniteSet(DOMAIN os) /\ DOMAIN os = 1..Len(os) /\ Len(os) \in Nat
           /\ DOMAIN Rems(os) = DOMAIN os
           /\ \A i \in DOMAIN os : Rems(os)[i] = os[i].rem /\ os[i].rem \in Nat
           /\ SumFunction(Rems(os)) = SumFunctionOnSet(Rems(os), DOMAIN os)
           /\ SumFunction(Rems(os)) \in Nat
<1>1. DOMAIN os = 1..Len(os) /\ Len(os) \in Nat /\ IsFiniteSet(1..Len(os))
  BY FS_Interval
<1>2. /\ DOMAIN Rems(os) = DOMAIN os
      /\ \A i \in DOMAIN os : Rems(os)[i] = os[i].rem /\ os[i].rem \in Nat
  <2>1. ASSUME NEW i \in DOMAIN os  PROVE os[i].rem \in Nat
    <3>1. os[i] \in Node
      OBVIOUS
    <3> QED  BY <3>1 DEF Node
  <2> QED  BY <2>1 DEF Rems
<1>3. SumFunction(Rems(os)) = SumFunctionOnSet(Rems(os), DOMAIN os)
  BY <1>2 DEF SumFunction
<1> QED  BY <1>1, <1>2, <1>3, SumNat

LEMMA AppendExact ==
    ASSUME NEW lvl, NEW x \in Node, ExactLevel(lvl), lvl.orders \in Seq(Node)
    PROVE  ExactLevel(AppendTo(lvl, x))
<1> DEFINE os == lvl.orders
           ns == Append(os, x)
           n  == Len(os)
<1>1. /\ ns \in Seq(Node) /\ DOMAIN os = 1..n /\ n \in Nat /\ DOMAIN ns = 1..(n + 1)
      /\ ns[n + 1] = x /\ \A i \in 1..n : ns[i] = os[i]
  OBVIOUS
<1> HIDE DEF ns, n
<1>2. DOMAIN ns = DOMAIN os \cup {n + 1} /\ n + 1 \notin DOMAIN os
  BY <1>1
<1>3. SumFunctionOnSet(Rems(ns), DOMAIN ns)
        = Rems(ns)[n + 1] + SumFunctionOnSet(Rems(ns), DOMAIN os)
  <2>1. IsFiniteSet(DOMAIN os) /\ Rems(ns)[n + 1] \in Int /\ \A i \in DOMAIN os : Rems(ns)[i] \in Int
    BY <1>1, <1>2, LevelSum
  <2> QED  BY <1>2, <2>1, SumAdd
<1>4. SumFunctionOnSet(Rems(ns), DOMAIN os) = SumFunctionOnSet(Rems(os), DOMAIN os)
  <2>1. ASSUME NEW i \in DOMAIN os  PROVE Rems(os)[i] \in Int /\ Rems(ns)[i] = Rems(os)[i]
    <3>1. Rems(os)[i] = os[i].rem /\ os[i].rem \in Nat
      BY LevelSum
    <3>2. Rems(ns)[i] = ns[i].rem /\ ns[i] = os[i]
      BY <1>1, <1>2, LevelSum
    <3> QED  BY <3>1, <3>2
  <2>2. IsFiniteSet(DOMAIN os)
    BY LevelSum
  <2> QED  BY <2>1, <2>2, SumEqual
<1>5. Rems(ns)[n + 1] = x.rem
  BY <1>1, <1>2 DEF Rems
<1>6. SumFunction(Rems(ns)) = x.rem + SumFunction(Rems(os))
  BY <1>1, <1>3, <1>4, <1>5, LevelSum
<1>7. SumFunction(Rems(os)) \in Nat /\ x.rem \in Nat
  BY LevelSum DEF Node
<1>8. AppendTo(lvl, x).orders = ns /\ AppendTo(lvl, x).qty = lvl.qty + x.rem
  BY DEF AppendTo, ns
<1> QED  BY <1>6, <1>7, <1>8 DEF ExactLevel

LEMMA RemoveExact ==
    ASSUME NEW lvl, ExactLevel(lvl), lvl.orders \in Seq(Node), NEW k \in DOMAIN lvl.orders
    PROVE  ExactLevel(RemoveFrom(lvl, k))
<1> DEFINE os == lvl.orders
           ns == RemoveAt(os, k)
           n  == Len(os)
           S  == DOMAIN os \ {k}
           U  == 1..(n - 1)
           b  == [i \in U |-> IF i < k THEN i ELSE i + 1]
<1>1. /\ DOMAIN os = 1..n /\ n \in Nat /\ k \in 1..n /\ IsFiniteSet(DOMAIN os)
      /\ \A i \in DOMAIN os : Rems(os)[i] = os[i].rem /\ os[i].rem \in Nat
      /\ SumFunction(Rems(os)) = SumFunctionOnSet(Rems(os), DOMAIN os)
  BY LevelSum
<1>2. /\ ns \in Seq(Node) /\ Len(ns) = n - 1
      /\ \A i \in 1..(n - 1) : ns[i] = IF i < k THEN os[i] ELSE os[i + 1]
  BY <1>1, RemoveAtFacts
<1>3. DOMAIN ns = U
  BY <1>2
<1> HIDE DEF ns, n
<1>4. b \in [U -> S]
  BY <1>1
<1>5. \A i \in U : Rems(ns)[i] = Rems(os)[b[i]]
  BY <1>1, <1>2, <1>3 DEF Rems
<1>6. \A i, j \in U : b[i] = b[j] => i = j
  BY <1>1
<1>7. ASSUME NEW i \in S  PROVE \E j \in U : b[j] = i
  <2>1. CASE i < k
    BY <1>1, <2>1
  <2>2. CASE i > k
    <3>1. i - 1 \in U /\ b[i - 1] = i
      BY <1>1, <2>2
    <3> QED  BY <3>1
  <2> QED  BY <1>1, <2>1, <2>2
<1>8. IsFiniteSet(S) /\ \A i \in S : Rems(os)[i] \in Int
  BY <1>1, FS_RemoveElement
<1> HIDE DEF b, U, S
<1>9. SumFunctionOnSet(Rems(ns), U) = SumFunctionOnSet(Rems(os), S)
  BY <1>4, <1>5, <1>6, <1>7, <1>8, SumReindexed
<1>10. SumFunctionOnSet(Rems(os), DOMAIN os) = Rems(os)[k] + SumFunctionOnSet(Rems(os), S)
  <2>1. S = DOMAIN os \ {k} /\ k \in DOMAIN os /\ \A i \in DOMAIN os : Rems(os)[i] \in Int
    BY <1>1 DEF S
  <2> QED  BY <1>1, <2>1, SumTake
<1>11. SumFunctionOnSet(Rems(os), S) \in Int /\ Rems(os)[k] = os[k].rem /\ os[k].rem \in Nat
  BY <1>1, <1>8, SumInt
<1>12. SumFunction(Rems(ns)) = SumFunction(Rems(os)) - os[k].rem
  BY <1>1, <1>2, <1>3, <1>9, <1>10, <1>11, LevelSum
<1>13. RemoveFrom(lvl, k).orders = ns /\ RemoveFrom(lvl, k).qty = lvl.qty - os[k].rem
  BY DEF RemoveFrom, ns
<1> QED  BY <1>12, <1>13 DEF ExactLevel

LEMMA ReduceExact ==
    ASSUME NEW lvl, ExactLevel(lvl), lvl.orders \in Seq(Node), 1 \in DOMAIN lvl.orders,
           NEW q \in Nat, q < lvl.orders[1].rem
    PROVE  ExactLevel(ReduceFront(lvl, q))
<1> DEFINE os == lvl.orders
           ns == [os EXCEPT ![1].rem = @ - q]
<1>1. /\ IsFiniteSet(DOMAIN os)
      /\ \A i \in DOMAIN os : Rems(os)[i] = os[i].rem /\ os[i].rem \in Nat
      /\ SumFunction(Rems(os)) = SumFunctionOnSet(Rems(os), DOMAIN os)
  BY LevelSum
<1>2. os[1] \in Node
  OBVIOUS
<1>3. /\ DOMAIN ns = DOMAIN os /\ ns[1].rem = os[1].rem - q
      /\ \A i \in DOMAIN os : i # 1 => ns[i] = os[i]
  BY <1>2 DEF Node
<1> HIDE DEF ns
<1>4. /\ DOMAIN Rems(ns) = DOMAIN os /\ Rems(ns)[1] = os[1].rem - q
      /\ \A i \in DOMAIN os : i # 1 => Rems(ns)[i] = Rems(os)[i]
  BY <1>3 DEF Rems
<1>5. SumFunctionOnSet(Rems(ns), DOMAIN os)
        = SumFunctionOnSet(Rems(os), DOMAIN os) - Rems(os)[1] + Rems(ns)[1]
  <2>1. Rems(ns)[1] \in Int
    BY <1>1, <1>4
  <2>2. \A i \in DOMAIN os : Rems(os)[i] \in Int /\ (i # 1 => Rems(ns)[i] = Rems(os)[i])
    BY <1>1, <1>4
  <2> QED  BY <1>1, <2>1, <2>2, SumChanged
<1>6. SumFunction(Rems(os)) \in Nat
  BY LevelSum
<1>7. SumFunction(Rems(ns)) = SumFunction(Rems(os)) - q
  <2>1. SumFunction(Rems(ns)) = SumFunctionOnSet(Rems(ns), DOMAIN os)
    BY <1>4 DEF SumFunction
  <2> QED  BY <1>1, <1>4, <1>5, <1>6, <2>1
<1>8. ReduceFront(lvl, q).orders = ns /\ ReduceFront(lvl, q).qty = lvl.qty - q
  BY DEF ReduceFront, ns
<1> QED  BY <1>7, <1>8 DEF ExactLevel

(* A level with one order holds its lots. *)
LEMMA ExactOfOne ==
    ASSUME NEW lvl, ExactLevel(lvl), lvl.orders \in Seq(Node), Len(lvl.orders) = 1
    PROVE  lvl.qty = lvl.orders[1].rem
<1>1. DOMAIN lvl.orders = {1}
  OBVIOUS
<1>2. /\ SumFunction(Rems(lvl.orders)) = SumFunctionOnSet(Rems(lvl.orders), {1})
      /\ Rems(lvl.orders)[1] = lvl.orders[1].rem /\ lvl.orders[1].rem \in Nat
  BY <1>1, LevelSum
<1>3. SumFunctionOnSet(Rems(lvl.orders), {1}) = Rems(lvl.orders)[1]
  <2> DEFINE f == Rems(lvl.orders)
  <2>1. f[1] \in Int
    BY <1>2
  <2> HIDE DEF f
  <2>2. SumFunctionOnSet(f, {1}) = f[1]
    BY <2>1, SumOfOne
  <2> QED  BY <2>2 DEF f
<1> QED  BY <1>2, <1>3 DEF ExactLevel

ExactLevels == \A side \in Sides : \A p \in DOMAIN levels[side] : ExactLevel(levels[side][p])

LEMMA ExactIsExact == ExactLevels <=> LevelQtyExact
BY DEF ExactLevels, ExactLevel, Rems, LevelQtyExact

LEMMA SetExact ==
    ASSUME LevelsInv, ExactLevels, NEW side \in Sides, NEW price, NEW new, ExactLevel(new),
           SetLevel(side, price, new)
    PROVE  ExactLevels'
<1>1. /\ \A s \in Sides : s # side => levels'[s] = levels[s]
      /\ levels'[side] = Put(levels[side], price, new)
  BY DEF LevelsInv, SetLevel
<1>2. \A p \in DOMAIN levels'[side] :
        \/ levels'[side][p] = new
        \/ p \in DOMAIN levels[side] /\ levels'[side][p] = levels[side][p]
  BY <1>1 DEF Put
<1>3. ASSUME NEW s \in Sides, NEW p \in DOMAIN levels'[s]  PROVE ExactLevel(levels'[s][p])
  <2>1. CASE s = side
    BY <1>2, <1>3, <2>1 DEF ExactLevels
  <2>2. CASE s # side
    BY <1>1, <1>3, <2>2 DEF ExactLevels
  <2> QED  BY <2>1, <2>2
<1> QED  BY <1>3 DEF ExactLevels, ExactLevel

LEMMA EraseExact ==
    ASSUME LevelsInv, ExactLevels, NEW side \in Sides, NEW price, EraseLevel(side, price)
    PROVE  ExactLevels'
<1>1. /\ \A s \in Sides : s # side => levels'[s] = levels[s]
      /\ levels'[side] = Erase(levels[side], price)
  BY DEF LevelsInv, EraseLevel
<1>2. \A p \in DOMAIN levels'[side] :
        p \in DOMAIN levels[side] /\ levels'[side][p] = levels[side][p]
  BY <1>1 DEF Erase, Restrict
<1>3. ASSUME NEW s \in Sides, NEW p \in DOMAIN levels'[s]  PROVE ExactLevel(levels'[s][p])
  <2>1. CASE s = side
    BY <1>2, <1>3, <2>1 DEF ExactLevels
  <2>2. CASE s # side
    BY <1>1, <1>3, <2>2 DEF ExactLevels
  <2> QED  BY <2>1, <2>2
<1> QED  BY <1>3 DEF ExactLevels, ExactLevel

LEMMA AddExact ==
    ASSUME LevelsInv, ExactLevels, NEW o, o.id \in OrderIds, o.user \in Users,
           o.side \in Sides, o.price \in Prices, o.rem \in Nat \ {0}, AddOrder(o)
    PROVE  ExactLevels'
<1> DEFINE lvl == LevelAt(o.side, o.price)
           new == AppendTo(lvl, NewNode(o))
<1>1. SetLevel(o.side, o.price, new)
  BY DEF AddOrder
<1>2. NewNode(o) \in Node
  BY DEF LevelsInv, NewNode, Node
<1>3. ExactLevel(lvl) /\ lvl.orders \in Seq(Node)
  <2>1. CASE o.price \in DOMAIN levels[o.side]
    BY <2>1 DEF LevelAt, ExactLevels, LevelsInv, GoodLevel, PriceLevel
  <2>2. CASE o.price \notin DOMAIN levels[o.side]
    <3>1. lvl.orders = <<>> /\ lvl.qty = 0
      BY <2>2 DEF LevelAt
    <3>2. DOMAIN Rems(<<>>) = {}
      BY DEF Rems
    <3>3. SumFunction(Rems(<<>>)) = 0
      BY <3>2, SumOfNone DEF SumFunction
    <3> QED  BY <3>1, <3>3 DEF ExactLevel
  <2> QED  BY <2>1, <2>2
<1> HIDE DEF lvl
<1>4. ExactLevel(new)
  BY <1>2, <1>3, AppendExact
<1> HIDE DEF new
<1> QED  BY <1>1, <1>4, SetExact

LEMMA DropExact ==
    ASSUME LevelsInv, ExactLevels, NEW side \in Sides, NEW price \in DOMAIN levels[side],
           NEW k \in DOMAIN levels[side][price].orders, DropOrder(side, price, k)
    PROVE  ExactLevels'
<1> DEFINE lvl == levels[side][price]
           new == RemoveFrom(lvl, k)
<1>1. ExactLevel(lvl) /\ lvl.orders \in Seq(Node)
  BY DEF ExactLevels, LevelsInv, GoodLevel, PriceLevel
<1>2. ExactLevel(new)
  BY <1>1, RemoveExact
<1>3. EraseLevel(side, price) \/ SetLevel(side, price, new)
  BY DEF DropOrder
<1> HIDE DEF new
<1> QED  BY <1>2, <1>3, EraseExact, SetExact

LEMMA RemoveOrderExact ==
    ASSUME BookInv, ExactLevels, NEW id, RemoveOrder(id)
    PROVE  ExactLevels'
<1>1. CASE id \notin DOMAIN order_index
  BY <1>1 DEF RemoveOrder, bookVars, ExactLevels, ExactLevel
<1>2. CASE id \in DOMAIN order_index
  <2>1. PICK x \in Resting : order_index[id] = RefTo(x)
    BY <1>2 DEF BookInv, IndexInv, IndexSound
  <2> DEFINE os == levels[x.side][x.price].orders
             k  == PositionOf(os, x.node)
  <2>2. /\ x.side \in Sides /\ x.price \in DOMAIN levels[x.side]
        /\ \E i \in DOMAIN os : x = os[i]
    BY RestingInLevel DEF BookInv
  <2>3. k \in DOMAIN os
    BY <2>2 DEF PositionOf
  <2>4. DropOrder(x.side, x.price, k)
    BY <1>2, <2>1, <2>2 DEF RemoveOrder, RefTo
  <2> HIDE DEF k
  <2> QED  BY <2>2, <2>3, <2>4, DropExact DEF BookInv
<1> QED  BY <1>1, <1>2

LEMMA ConsumeExact ==
    ASSUME BookInv, ExactLevels, NEW side \in Sides, NEW price \in DOMAIN levels[side],
           NEW q \in Nat \ {0}, q <= FrontOrder(side, price).rem, ConsumeFront(side, price, q)
    PROVE  ExactLevels'
<1> DEFINE lvl == levels[side][price]
           new == ReduceFront(lvl, q)
<1>1. GoodLevel(lvl, side, price, inserted)
  BY DEF BookInv, LevelsInv
<1>2. ExactLevel(lvl) /\ lvl.orders \in Seq(Node) /\ 1 \in DOMAIN lvl.orders
  BY <1>1, EmptySeq, LenProperties DEF ExactLevels, GoodLevel, PriceLevel
<1>3. CASE q < FrontOrder(side, price).rem
  <2>1. SetLevel(side, price, new)
    BY <1>3 DEF ConsumeFront
  <2>2. ExactLevel(new)
    BY <1>2, <1>3, ReduceExact DEF FrontOrder
  <2> HIDE DEF new
  <2> QED  BY <2>1, <2>2, SetExact DEF BookInv
<1>4. CASE ~(q < FrontOrder(side, price).rem)
  <2>1. DropOrder(side, price, 1)
    BY <1>4 DEF ConsumeFront
  <2> QED  BY <1>2, <2>1, DropExact DEF BookInv
<1> QED  BY <1>3, <1>4

-----------------------------------------------------------------------------
(* The invariant of the specification. *)

Inv == BookInv /\ (ReuseIds = FALSE => IndexComplete)

LEMMA InvImplies ==
    ASSUME BookInv
    PROVE  TypeOK /\ NoEmptyLevel /\ WellPlaced /\ TimeOrdered /\ NodesInserted /\ IndexSound
<1>1. ASSUME NEW side \in Sides, NEW p \in DOMAIN levels[side]
      PROVE  GoodLevel(levels[side][p], side, p, inserted)
  BY DEF BookInv, LevelsInv
<1>2. TypeOK
  BY <1>1 DEF BookInv, LevelsInv, IndexInv, TypeOK, GoodLevel
<1> QED  BY <1>1, <1>2 DEF BookInv, IndexInv, GoodLevel, NoEmptyLevel, WellPlaced,
                           TimeOrdered, NodesInserted

LEMMA PruneKeeps ==
    ASSUME BookInv, NEW side \in Sides, NEW price, PruneEmpty(side, price)
    PROVE  UNCHANGED bookVars
BY InvImplies DEF PruneEmpty, bookVars, NoEmptyLevel

LEMMA StutterKeeps ==
    ASSUME Inv, UNCHANGED bookVars
    PROVE  Inv' /\ Resting' = Resting
<1>1. Resting' = Resting
  BY DEF bookVars, Resting, NodesOf
<1> QED  BY <1>1 DEF bookVars, Inv, BookInv, LevelsInv, IndexInv, IndexSound, IndexComplete

LEMMA InitInv == Init => Inv /\ Resting = {}
<1> SUFFICES ASSUME Init  PROVE Inv /\ Resting = {}
  OBVIOUS
<1>1. /\ levels = [side \in Sides |-> levels[side]]
      /\ \A side \in Sides : levels[side] = << >> /\ DOMAIN levels[side] = {}
      /\ order_index = << >> /\ DOMAIN order_index = {} /\ inserted = 0
  BY DEF Init
<1>2. Resting = {}
  BY <1>1 DEF Resting, NodesOf
<1>3. LevelsInv
  <2>1. IsMap(<< >>, Prices)
    BY DEF IsMap
  <2> QED  BY <1>1, <2>1 DEF LevelsInv
<1>4. IndexInv /\ IndexComplete
  BY <1>1, <1>2 DEF IndexInv, IsMap, IndexSound, IndexComplete
<1> QED  BY <1>2, <1>3, <1>4 DEF Inv, BookInv

LEMMA NextInv == Inv /\ [Next]_bookVars => Inv'
<1> SUFFICES ASSUME Inv, [Next]_bookVars  PROVE Inv'
  OBVIOUS
<1>1. ASSUME NEW o \in BookOrder, Add(o)
      PROVE  Inv'
  <2>1. /\ o.id \in OrderIds /\ o.user \in Users /\ o.side \in Sides
        /\ o.price \in Prices /\ o.rem \in Nat \ {0}
    BY BookAssumption DEF BookOrder
  <2> QED  BY <1>1, <2>1, AddPreserves DEF Inv, Add
<1>2. ASSUME NEW id \in OrderIds, RemoveOrder(id)  PROVE Inv'
  BY <1>2, RemovePreserves DEF Inv
<1>3. ASSUME NEW side \in Sides, NEW price \in Prices, NEW q \in 1..MaxQty,
             Consume(side, price, q)
      PROVE  Inv'
  <2>1. q \in Nat \ {0} /\ q <= FrontOrder(side, price).rem
    BY <1>3, BookAssumption DEF Consume
  <2> QED  BY <1>3, <2>1, ConsumePreserves DEF Inv, Consume
<1>4. ASSUME NEW side \in Sides, NEW price \in Prices, PruneEmpty(side, price)  PROVE Inv'
  BY <1>4, PruneKeeps, StutterKeeps DEF Inv
<1>5. CASE UNCHANGED bookVars
  BY <1>5, StutterKeeps
<1> QED  BY <1>1, <1>2, <1>3, <1>4, <1>5 DEF Next

THEOREM InvHolds == Spec => []Inv
BY InitInv, NextInv, PTL DEF Spec

(* Type correctness of the book. *)
THEOREM BookTypeOK == Spec => []TypeOK
<1>1. Inv => TypeOK
  BY InvImplies DEF Inv
<1> QED  BY <1>1, InvHolds, PTL

(* Under any sequence of calls, with ids unique or not: no empty level is  *)
(* left behind, every order is where its side and price say, and lists     *)
(* keep time priority.                                                     *)
THEOREM BookStructure == Spec => [](NoEmptyLevel /\ WellPlaced /\ TimeOrdered)
<1>1. Inv => NoEmptyLevel /\ WellPlaced /\ TimeOrdered
  BY InvImplies DEF Inv
<1> QED  BY <1>1, InvHolds, PTL

(* Under any sequence of calls, with ids unique or not: no index entry     *)
(* dangles, so remove_order never erases through a stale iterator.         *)
THEOREM BookIndexSound == Spec => []IndexSound
<1>1. Inv => IndexSound
  BY InvImplies DEF Inv
<1> QED  BY <1>1, InvHolds, PTL

LEMMA NextExact == Inv /\ ExactLevels /\ [Next]_bookVars => ExactLevels'
<1> SUFFICES ASSUME Inv, ExactLevels, [Next]_bookVars  PROVE ExactLevels'
  OBVIOUS
<1>1. BookInv /\ LevelsInv
  BY DEF Inv, BookInv
<1>2. ASSUME NEW o \in BookOrder, Add(o)  PROVE ExactLevels'
  <2>1. /\ o.id \in OrderIds /\ o.user \in Users /\ o.side \in Sides
        /\ o.price \in Prices /\ o.rem \in Nat \ {0}
    BY BookAssumption DEF BookOrder
  <2> QED  BY <1>1, <1>2, <2>1, AddExact DEF Add
<1>3. ASSUME NEW id \in OrderIds, RemoveOrder(id)  PROVE ExactLevels'
  BY <1>1, <1>3, RemoveOrderExact
<1>4. ASSUME NEW side \in Sides, NEW price \in Prices, NEW q \in 1..MaxQty,
             Consume(side, price, q)
      PROVE  ExactLevels'
  <2>1. /\ q \in Nat \ {0} /\ q <= FrontOrder(side, price).rem
        /\ price \in DOMAIN levels[side] /\ ConsumeFront(side, price, q)
    BY <1>4, BookAssumption DEF Consume
  <2> QED  BY <1>1, <2>1, ConsumeExact
<1>5. CASE UNCHANGED bookVars
  BY <1>5 DEF bookVars, ExactLevels, ExactLevel
<1>6. ASSUME NEW side \in Sides, NEW price \in Prices, PruneEmpty(side, price)  PROVE ExactLevels'
  BY <1>1, <1>5, <1>6, PruneKeeps
<1> QED  BY <1>2, <1>3, <1>4, <1>5, <1>6 DEF Next

(* Under any sequence of calls, with ids unique or not: the quantity that a  *)
(* level keeps incrementally is the sum over its list, so the FOK pre-check  *)
(* and the L2 snapshot never count lots that are not there.                  *)
THEOREM BookLevelQtyExact == Spec => []LevelQtyExact
<1>1. Init => ExactLevels
  BY DEF Init, ExactLevels
<1>2. ExactLevels => LevelQtyExact
  BY ExactIsExact
<1> QED  BY <1>1, <1>2, NextExact, InvHolds, PTL DEF Spec

(* Every resting order can be cancelled by its id when ids are unique. *)
THEOREM BookIndexComplete == ASSUME ReuseIds = FALSE PROVE Spec => []IndexComplete
<1>1. Inv => IndexComplete
  BY DEF Inv
<1> QED  BY <1>1, InvHolds, PTL

-----------------------------------------------------------------------------
(* The book implements TimePriorityBook, call by call. *)

LEMMA AddCorresponds ==
    ASSUME Inv, NEW o \in BookOrder, Add(o)
    PROVE  Abstract!Arrive(o)
<1>1. /\ o.id \in OrderIds /\ o.user \in Users /\ o.side \in Sides
      /\ o.price \in Prices /\ o.rem \in Nat \ {0}
  BY BookAssumption DEF BookOrder
<1>2. Resting' = Resting \cup {NewNode(o)} /\ inserted' = inserted + 1
  BY <1>1, AddPreserves DEF Inv, Add, AddOrder
<1>3. Stamp(NewNode(o)) = [order |-> o, stamp |-> inserted + 1]
  BY DEF Stamp, OrderOf, NewNode, BookOrder
<1>4. Stamped' = Stamped \cup {Stamp(NewNode(o))}
  BY <1>2 DEF Stamped
<1> QED  BY <1>2, <1>3, <1>4 DEF Abstract!Arrive, Stamped, Stamp

LEMMA RemoveCorresponds ==
    ASSUME Inv, ReuseIds = FALSE, NEW id \in OrderIds, RemoveOrder(id)
    PROVE  Abstract!Cancel(id)
<1>1. Resting' = {n \in Resting : n.id # id} /\ inserted' = inserted
  BY RemovePreserves DEF Inv
<1>2. \A n \in Resting : Stamp(n).order.id = n.id
  BY DEF Stamp, OrderOf
<1>3. Stamped' = {r \in Stamped : r.order.id # id}
  BY <1>1, <1>2 DEF Stamped
<1> QED  BY <1>1, <1>3 DEF Abstract!Cancel, Stamped, Stamp

LEMMA ConsumeCorresponds ==
    ASSUME Inv, NEW side \in Sides, NEW price \in Prices, NEW q \in 1..MaxQty,
           Consume(side, price, q)
    PROVE  Abstract!Take(side, price, q)
<1> DEFINE x == FrontOrder(side, price)
           r == Stamp(x)
<1>1. q \in Nat \ {0} /\ q <= x.rem /\ price \in DOMAIN levels[side]
  BY BookAssumption DEF Consume
<1>2. /\ x \in Resting /\ x \in Node /\ x.side = side /\ x.price = price
      /\ \A n \in Resting : n.side = side /\ n.price = price => x.node <= n.node
      /\ q = x.rem => Resting' = Resting \ {x}
      /\ q < x.rem => Resting' = (Resting \ {x}) \cup {[x EXCEPT !.rem = @ - q]}
      /\ inserted' = inserted
  BY <1>1, ConsumePreserves DEF Inv, Consume
<1> HIDE DEF x
<1>3. Stamped' = (Stamped \ {r}) \cup
        (IF q = x.rem THEN {} ELSE {[r EXCEPT !.order.rem = @ - q]})
  BY <1>1, <1>2, StampTaken DEF Inv
<1>4. /\ r.order.side = side /\ r.order.price = price /\ r.order.rem = x.rem
      /\ r.stamp = x.node /\ x.rem \in Nat /\ r \in Stamped
  BY <1>2, StampFacts DEF Stamped, Node
<1> HIDE DEF r
<1>5. ASSUME NEW s \in Stamped, s.order.side = side, s.order.price = price
      PROVE  r.stamp <= s.stamp
  <2>1. PICK n \in Resting : s = Stamp(n)
    BY DEF Stamped
  <2>2. n.side = side /\ n.price = price /\ s.stamp = n.node
    BY <1>5, <2>1, StampFacts
  <2> QED  BY <1>2, <1>4, <2>2
<1>6. q \in 1..r.order.rem
  BY <1>1, <1>4
<1>7. Stamped' = (Stamped \ {r}) \cup
        (IF q < r.order.rem THEN {[r EXCEPT !.order.rem = @ - q]} ELSE {})
  BY <1>1, <1>3, <1>4
<1> QED  BY <1>2, <1>4, <1>5, <1>6, <1>7 DEF Abstract!Take, Stamped, Stamp

(* Each call of the book is the call of the abstract book, when ids are     *)
(* unique: the stored iterators, the list surgery and the pruning of levels *)
(* of the C++ change nothing else.                                          *)
THEOREM BookCallsCorrespond == ASSUME ReuseIds = FALSE PROVE Spec => CallsCorrespond
<1>1. ASSUME Inv, Next
      PROVE  /\ \A o \in BookOrder : Add(o) => Abstract!Arrive(o)
             /\ \A id \in OrderIds : RemoveOrder(id) => Abstract!Cancel(id)
             /\ \A side \in Sides, price \in Prices, q \in 1..MaxQty :
                  Consume(side, price, q) => Abstract!Take(side, price, q)
  BY <1>1, AddCorresponds, RemoveCorresponds, ConsumeCorresponds
<1> QED  BY <1>1, InvHolds, PTL DEF Spec, CallsCorrespond

(* The specification of the book implements the abstract specification. *)
THEOREM BookRefines == ASSUME ReuseIds = FALSE PROVE Spec => ImplementsTimePriority
<1>1. Init => Abstract!Init
  BY InitInv DEF Init, Abstract!Init
<1>2. ASSUME Inv, [Next]_bookVars
      PROVE  [Abstract!Next]_(Abstract!vars)
  <2>1. ASSUME NEW o \in BookOrder, Add(o)  PROVE Abstract!Next
    BY <1>2, <2>1, AddCorresponds DEF Abstract!Next
  <2>2. ASSUME NEW id \in OrderIds, RemoveOrder(id)  PROVE Abstract!Next
    BY <1>2, <2>2, RemoveCorresponds DEF Abstract!Next
  <2>3. ASSUME NEW side \in Sides, NEW price \in Prices, NEW q \in 1..MaxQty,
               Consume(side, price, q)
        PROVE  Abstract!Next
    <3> DEFINE x == FrontOrder(side, price)
    <3>1. x \in Node
      <4>1. q \in Nat \ {0} /\ q <= x.rem /\ price \in DOMAIN levels[side]
        BY <2>3, BookAssumption DEF Consume
      <4> QED  BY <1>2, <2>3, <4>1, ConsumePreserves DEF Inv, Consume
    <3>2. PICK o \in BookOrder : o.side = side /\ o.price = price /\ o.rem = q
      <4>1. [id |-> x.id, user |-> x.user, side |-> side, price |-> price, rem |-> q]
              \in BookOrder
        BY <3>1 DEF Node, BookOrder
      <4> QED  BY <4>1
    <3>3. Abstract!Take(side, price, q)
      BY <1>2, <2>3, ConsumeCorresponds
    <3>4. Abstract!Take(o.side, o.price, o.rem)
      BY <3>2, <3>3
    <3> QED  BY <3>4 DEF Abstract!Next
  <2>4. ASSUME UNCHANGED bookVars  PROVE UNCHANGED Abstract!vars
    BY <1>2, <2>4, StutterKeeps DEF Abstract!vars, bookVars
  <2>5. ASSUME NEW side \in Sides, NEW price \in Prices, PruneEmpty(side, price)
        PROVE  UNCHANGED Abstract!vars
    BY <1>2, <2>4, <2>5, PruneKeeps DEF Inv
  <2> QED  BY <1>2, <2>1, <2>2, <2>3, <2>4, <2>5 DEF Next, BookOrder
<1> QED  BY <1>1, <1>2, InvHolds, PTL DEF Spec, ImplementsTimePriority, Abstract!Spec
=============================================================================
