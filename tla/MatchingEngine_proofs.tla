------------------------- MODULE MatchingEngine_proofs ------------------------
(***************************************************************************)
(* The matching engine: its invariants for any orders, users, prices,      *)
(* sizes and rates, and then what a step of it may do: who takes an order  *)
(* out of the book, that matching advances, when the book may come to      *)
(* cross, that every step is one of PriceTimeExchange, what margin stays   *)
(* reserved, and what stops a fill-or-kill order.  The second part holds   *)
(* where ids are unique among resting orders (ReuseIds = FALSE), as in the *)
(* run that checks these properties.                                       *)
(***************************************************************************)
EXTENDS MatchingRefinement, OrderBook_proofs, FiniteSetTheorems

-----------------------------------------------------------------------------
(* The margin formulas stay within the integers. *)

LEMMA CalcImType ==
    ASSUME NEW n \in Int
    PROVE  /\ CalcIm(n) \in Int
           /\ n >= 0 => CalcIm(n) \in Nat
<1>1. SquareRoot(n) \in Nat
  <2>1. IsFiniteSet(1..n)
    BY FS_Interval
  <2>2. IsFiniteSet({r \in 1..n : r * r <= n})
    BY <2>1, FS_Subset
  <2> QED  BY <2>2, FS_CardinalityType DEF SquareRoot
<1>2. BaseImf \in Nat /\ ImfFactor \in Nat
  BY EngineAssumption
<1>3. ImfFactor * SquareRoot(n) \in Nat
  BY <1>1, <1>2
<1>4. CalcImf(n) \in Nat
  BY <1>2, <1>3 DEF CalcImf, Larger
<1> QED  BY <1>4 DEF CalcIm

LEMMA ReleaseType ==
    ASSUME open_order_margin \in [Users -> Nat], NEW u \in Users,
           NEW price \in Nat, NEW qty \in Int, ReleaseMargin(u, price, qty)
    PROVE  open_order_margin' \in [Users -> Nat]
<1>1. qty * price \in Int
  OBVIOUS
<1>2. CalcIm(qty * price) \in Int
  BY <1>1, CalcImType
<1>3. Larger(0, open_order_margin[u] - CalcIm(qty * price)) \in Nat
  BY <1>2 DEF Larger
<1> QED  BY <1>3 DEF ReleaseMargin

LEMMA ReserveType ==
    ASSUME open_order_margin \in [Users -> Nat], NEW u \in Users, NEW o, NEW mark \in Nat,
           o.rem \in Nat, o.price \in Nat, ReserveMargin(u, o, mark)
    PROVE  open_order_margin' \in [Users -> Nat]
<1> DEFINE p == IF o.price > 0 THEN o.price ELSE mark
<1>1. p \in Nat
  OBVIOUS
<1> HIDE DEF p
<1>2. o.rem * p \in Nat
  BY <1>1
<1>3. CalcIm(o.rem * p) \in Nat
  BY <1>2, CalcImType
<1>4. open_order_margin' = [open_order_margin EXCEPT ![u] = @ + CalcIm(o.rem * p)]
  BY DEF ReserveMargin, p
<1> QED  BY <1>3, <1>4

-----------------------------------------------------------------------------
(* The accounts' maps of open orders. *)

OpenOrdersOK ==
    /\ open_orders = [u \in Users |-> open_orders[u]]
    /\ \A u \in Users :
        /\ IsMap(open_orders[u], OrderIds)
        /\ \A id \in DOMAIN open_orders[u] : open_orders[u][id] \in OpenOrder

(* One entry of one user is set, or erased. *)
LEMMA PutFacts ==
    ASSUME OpenOrdersOK, NEW u \in Users, NEW id \in OrderIds, NEW c \in OpenOrder,
           PutOpenOrder(u, id, c)
    PROVE  /\ OpenOrdersOK'
           /\ \A v \in Users : v # u => open_orders'[v] = open_orders[v]
           /\ DOMAIN open_orders'[u] = DOMAIN open_orders[u] \cup {id}
           /\ open_orders'[u][id] = c
           /\ \A k \in DOMAIN open_orders[u] : k # id => open_orders'[u][k] = open_orders[u][k]
<1>1. /\ open_orders' = [v \in Users |-> open_orders'[v]]
      /\ open_orders'[u] = Put(open_orders[u], id, c)
      /\ \A v \in Users : v # u => open_orders'[v] = open_orders[v]
  BY DEF OpenOrdersOK, PutOpenOrder
<1>2. /\ DOMAIN open_orders'[u] = DOMAIN open_orders[u] \cup {id}
      /\ \A k \in DOMAIN open_orders'[u] :
           open_orders'[u][k] = IF k = id THEN c ELSE open_orders[u][k]
      /\ open_orders'[u] = [k \in DOMAIN open_orders'[u] |-> open_orders'[u][k]]
  BY <1>1 DEF Put
<1>3. OpenOrdersOK'
  BY <1>1, <1>2 DEF OpenOrdersOK, IsMap
<1> QED  BY <1>1, <1>2, <1>3

LEMMA EraseFacts ==
    ASSUME OpenOrdersOK, NEW u \in Users, NEW id,
           EraseOpenOrder(u, id)
    PROVE  /\ OpenOrdersOK'
           /\ \A v \in Users : v # u => open_orders'[v] = open_orders[v]
           /\ DOMAIN open_orders'[u] = DOMAIN open_orders[u] \ {id}
           /\ \A k \in DOMAIN open_orders'[u] : open_orders'[u][k] = open_orders[u][k]
<1>1. /\ open_orders' = [v \in Users |-> open_orders'[v]]
      /\ open_orders'[u] = Erase(open_orders[u], id)
      /\ \A v \in Users : v # u => open_orders'[v] = open_orders[v]
  BY DEF OpenOrdersOK, EraseOpenOrder
<1>2. /\ DOMAIN open_orders'[u] = DOMAIN open_orders[u] \ {id}
      /\ \A k \in DOMAIN open_orders'[u] : open_orders'[u][k] = open_orders[u][k]
      /\ open_orders'[u] = [k \in DOMAIN open_orders'[u] |-> open_orders'[u][k]]
  BY <1>1 DEF Erase, Restrict
<1>3. OpenOrdersOK'
  BY <1>1, <1>2 DEF OpenOrdersOK, IsMap
<1> QED  BY <1>1, <1>2, <1>3

-----------------------------------------------------------------------------
(* The inductive invariant.  While an order is matched its id is not in the *)
(* book, which is what keeps ids unique when it comes to rest.              *)

UniqueIds ==
    /\ IndexComplete
    /\ OpenOrdersMirror
    /\ phase \in {"matching", "residual"} => \A n \in Resting : n.id # incoming.id

EngineInv ==
    /\ BookInv /\ AccountTypeOK /\ ProcessTypeOK
    /\ ReuseIds = FALSE => UniqueIds

LEMMA SameIdSameNode ==
    ASSUME BookInv, IndexComplete, NEW x \in Resting, NEW y \in Resting, x.id = y.id
    PROVE  x = y
<1>1. RefTo(x) = RefTo(y)
  BY DEF IndexComplete
<1> QED  BY <1>1, NodesDistinct DEF BookInv

LEMMA RestingNode ==
    ASSUME BookInv, NEW x \in Resting
    PROVE  x \in Node
BY RestingInLevel DEF BookInv

LEMMA NodeFields ==
    ASSUME NEW x \in Node
    PROVE  /\ x.id \in OrderIds /\ x.user \in Users /\ x.side \in Sides /\ x.price \in Prices
           /\ x.price \in Nat /\ x.rem \in Nat \ {0} /\ x.rem \in Int
<1>1. /\ x.id \in OrderIds /\ x.user \in Users /\ x.side \in Sides /\ x.price \in Prices
      /\ x.rem \in Nat \ {0}
  BY DEF Node
<1>2. x.price \in Nat
  <2> DEFINE p == x.price
  <2>1. p \in Prices
    BY <1>1
  <2> HIDE DEF p
  <2>2. p \in Nat
    BY <2>1, BookAssumption
  <2> QED  BY <2>2 DEF p
<1>3. x.rem \in Int
  <2> DEFINE r == x.rem
  <2>1. r \in Nat \ {0}
    BY <1>1
  <2> HIDE DEF r
  <2>2. r \in Int
    BY <2>1
  <2> QED  BY <2>2 DEF r
<1> QED  BY <1>1, <1>2, <1>3

(* The book and the orders' copies lose the orders of one id together. *)
LEMMA MirrorErase ==
    ASSUME BookInv, AccountTypeOK, IndexComplete, OpenOrdersMirror, NEW u \in Users,
           NEW x \in Resting, x.user = u,
           Resting' = {n \in Resting : n.id # x.id},
           EraseOpenOrder(u, x.id)
    PROVE  OpenOrdersMirror'
<1>1. OpenOrdersOK
  BY DEF AccountTypeOK, OpenOrdersOK
<1>2. /\ \A v \in Users : v # u => open_orders'[v] = open_orders[v]
      /\ DOMAIN open_orders'[u] = DOMAIN open_orders[u] \ {x.id}
      /\ \A k \in DOMAIN open_orders'[u] : open_orders'[u][k] = open_orders[u][k]
  BY <1>1, EraseFacts
<1>3. \A n \in Resting : n.id = x.id => n = x
  BY SameIdSameNode
<1>4. ASSUME NEW v \in Users
      PROVE  DOMAIN open_orders'[v] = {n.id : n \in {m \in Resting' : m.user = v}}
  <2>1. DOMAIN open_orders[v] = {n.id : n \in {m \in Resting : m.user = v}}
    BY DEF OpenOrdersMirror
  <2>2. CASE v = u
    BY <1>2, <2>1, <2>2
  <2>3. CASE v # u
    BY <1>2, <1>3, <2>1, <2>3
  <2> QED  BY <2>2, <2>3
<1>5. ASSUME NEW v \in Users, NEW n \in Resting', n.user = v
      PROVE  open_orders'[v][n.id] = OpenOrderOfNode(n)
  <2>1. n \in Resting /\ n.id # x.id
    OBVIOUS
  <2>2. open_orders[v][n.id] = OpenOrderOfNode(n)
    BY <1>5, <2>1 DEF OpenOrdersMirror
  <2>3. n.id \in DOMAIN open_orders'[v]
    BY <1>4, <1>5
  <2> QED  BY <1>2, <2>2, <2>3
<1> QED  BY <1>4, <1>5 DEF OpenOrdersMirror, OpenOrderOfNode

(* They gain an order of a new id together, or a node is exchanged for one  *)
(* of the same id and user.                                                  *)
LEMMA MirrorPut ==
    ASSUME BookInv, AccountTypeOK, IndexComplete, OpenOrdersMirror, NEW u \in Users,
           NEW x, x.user = u, x.id \in OrderIds, OpenOrderOfNode(x) \in OpenOrder,
           NEW S, Resting' = S \cup {x}, S \subseteq Resting,
           \A n \in S : n.id # x.id,
           \A n \in Resting \ S : n.id = x.id /\ n.user = u,
           PutOpenOrder(u, x.id, OpenOrderOfNode(x))
    PROVE  OpenOrdersMirror'
<1>1. OpenOrdersOK
  BY DEF AccountTypeOK, OpenOrdersOK
<1>2. /\ \A v \in Users : v # u => open_orders'[v] = open_orders[v]
      /\ DOMAIN open_orders'[u] = DOMAIN open_orders[u] \cup {x.id}
      /\ open_orders'[u][x.id] = OpenOrderOfNode(x)
      /\ \A k \in DOMAIN open_orders[u] : k # x.id => open_orders'[u][k] = open_orders[u][k]
  BY <1>1, PutFacts
<1>3. ASSUME NEW v \in Users
      PROVE  DOMAIN open_orders'[v] = {n.id : n \in {m \in Resting' : m.user = v}}
  <2>1. DOMAIN open_orders[v] = {n.id : n \in {m \in Resting : m.user = v}}
    BY DEF OpenOrdersMirror
  <2>2. CASE v = u
    BY <1>2, <2>1, <2>2
  <2>3. CASE v # u
    BY <1>2, <2>1, <2>3
  <2> QED  BY <2>2, <2>3
<1>4. ASSUME NEW v \in Users, NEW n \in Resting', n.user = v
      PROVE  open_orders'[v][n.id] = OpenOrderOfNode(n)
  <2>1. CASE n = x
    BY <1>2, <1>4, <2>1
  <2>2. CASE n # x
    <3>1. n \in S /\ n \in Resting /\ n.id # x.id
      BY <2>2
    <3>2. open_orders[v][n.id] = OpenOrderOfNode(n) /\ n.id \in DOMAIN open_orders[v]
      BY <1>4, <3>1 DEF OpenOrdersMirror
    <3> QED  BY <1>2, <3>1, <3>2
  <2> QED  BY <2>1, <2>2
<1> QED  BY <1>3, <1>4 DEF OpenOrdersMirror, OpenOrderOfNode

-----------------------------------------------------------------------------
(* One lemma per action. *)

LEMMA BookUnchanged ==
    ASSUME BookInv, UNCHANGED bookVars
    PROVE  /\ BookInv' /\ Resting' = Resting
           /\ IndexComplete => IndexComplete'
<1>1. Resting' = Resting
  BY DEF bookVars, Resting, NodesOf
<1> QED  BY <1>1 DEF bookVars, BookInv, LevelsInv, IndexInv, IndexSound, IndexComplete

(* A step that leaves the book and the accounts' copies alone, and takes no *)
(* new order in hand.                                                       *)
LEMMA MirrorUnchanged ==
    ASSUME BookInv, UniqueIds, UNCHANGED bookVars, UNCHANGED open_orders,
           phase' \in {"matching", "residual"} =>
              phase \in {"matching", "residual"} /\ incoming'.id = incoming.id
    PROVE  UniqueIds'
<1>1. Resting' = Resting /\ IndexComplete'
  BY BookUnchanged DEF UniqueIds
<1>2. OpenOrdersMirror'
  BY <1>1 DEF UniqueIds, OpenOrdersMirror
<1> QED  BY <1>1, <1>2 DEF UniqueIds

LEMMA SubmitKeeps ==
    ASSUME EngineInv, NEW o \in ClientOrder, Submit(o)
    PROVE  EngineInv'
<1>1. UNCHANGED bookVars /\ UNCHANGED open_orders
  BY DEF Submit, bookVars
<1>2. BookInv' /\ Resting' = Resting /\ (IndexComplete => IndexComplete')
  BY <1>1, BookUnchanged DEF EngineInv
<1>3. AccountTypeOK'
  BY DEF Submit, EngineInv, AccountTypeOK
<1>4. ProcessTypeOK'
  <2>1. o \in IncomingOrder
    BY BookAssumption DEF ClientOrder, IncomingOrder
  <2>2. arrival_best' \in Prices
    <3>1. \A side \in Sides : DOMAIN levels[side] \subseteq Prices
      BY DEF EngineInv, BookInv, LevelsInv, IsMap
    <3>2. Opposite(o.side) \in Sides
      BY DEF Opposite, Sides
    <3>3. ArrivalBest(o.side) \subseteq Prices
      BY <3>1, <3>2, EngineAssumption DEF ArrivalBest, BestPrices
    <3> QED  BY <3>3 DEF Submit
  <2> QED  BY <2>1, <2>2 DEF Submit, EngineInv, ProcessTypeOK, Phases
<1>5. ASSUME ReuseIds = FALSE  PROVE UniqueIds'
  <2>1. \A n \in Resting : n.id # o.id
    BY <1>5 DEF Submit
  <2>2. OpenOrdersMirror'
    BY <1>1, <1>2, <1>5 DEF EngineInv, UniqueIds, OpenOrdersMirror
  <2> QED  BY <1>2, <1>5, <2>1, <2>2 DEF Submit, EngineInv, UniqueIds
<1> QED  BY <1>2, <1>3, <1>4, <1>5 DEF EngineInv

(* StopMatching, StpCancelIncoming, DropResidual, Settle and Finish. *)
LEMMA QuietKeeps ==
    ASSUME EngineInv, UNCHANGED bookVars, UNCHANGED open_orders,
           UNCHANGED open_order_margin, position' \in [Users -> Int], ProcessTypeOK',
           phase' \in {"matching", "residual"} =>
              phase \in {"matching", "residual"} /\ incoming'.id = incoming.id
    PROVE  EngineInv'
<1>1. BookInv'
  BY BookUnchanged DEF EngineInv
<1>2. AccountTypeOK'
  BY DEF EngineInv, AccountTypeOK
<1>3. ASSUME ReuseIds = FALSE  PROVE UniqueIds'
  BY <1>3, MirrorUnchanged DEF EngineInv
<1> QED  BY <1>1, <1>2, <1>3 DEF EngineInv

LEMMA StopKeeps ==
    ASSUME EngineInv,
           StopMatching \/ DropResidual \/ Settle \/ Finish
             \/ \E price \in Prices : StpCancelIncoming(price)
    PROVE  EngineInv'
<1>1. CASE StopMatching
  BY <1>1, QuietKeeps DEF StopMatching, bookVars, EngineInv, AccountTypeOK, ProcessTypeOK, Phases
<1>2. CASE DropResidual
  <2>1. ProcessTypeOK'
    BY <1>2 DEF DropResidual, EngineInv, ProcessTypeOK, Phases, IncomingOrder
  <2> QED  BY <1>2, <2>1, QuietKeeps DEF DropResidual, bookVars, EngineInv, AccountTypeOK
<1>3. CASE Settle
  <2>1. Head(trades) \in Trade /\ Tail(trades) \in Seq(Trade)
    BY <1>3, HeadTailProperties DEF Settle, EngineInv, ProcessTypeOK
  <2>2. ProcessTypeOK'
    BY <1>3, <2>1 DEF Settle, EngineInv, ProcessTypeOK, Phases
  <2>3. position' \in [Users -> Int]
    <3> DEFINE t == Head(trades)
    <3>1. position' = [position EXCEPT ![t.buyer] = @ + t.qty, ![t.seller] = @ - t.qty]
      BY <1>3 DEF Settle
    <3>2. t \in Trade
      BY <2>1
    <3> HIDE DEF t
    <3>3. t.buyer \in Users /\ t.seller \in Users /\ t.qty \in Int
      BY <3>2 DEF Trade
    <3>4. position \in [Users -> Int]
      BY DEF EngineInv, AccountTypeOK
    <3> QED  BY <3>1, <3>3, <3>4
  <2> QED  BY <1>3, <2>2, <2>3, QuietKeeps DEF Settle, bookVars
<1>4. CASE Finish
  BY <1>4, QuietKeeps, EngineAssumption
     DEF Finish, bookVars, accountVars, EngineInv, AccountTypeOK, ProcessTypeOK, Phases
<1>5. ASSUME NEW price \in Prices, StpCancelIncoming(price)  PROVE EngineInv'
  <2>1. phase = "matching"
    BY <1>5 DEF StpCancelIncoming, Own, Matching
  <2>2. ProcessTypeOK'
    BY <1>5, <2>1 DEF StpCancelIncoming, EngineInv, ProcessTypeOK, Phases, IncomingOrder
  <2>3. incoming'.id = incoming.id
    BY <1>5, <2>1 DEF StpCancelIncoming, EngineInv, ProcessTypeOK, IncomingOrder
  <2> QED  BY <1>5, <2>1, <2>2, <2>3, QuietKeeps
           DEF StpCancelIncoming, bookVars, EngineInv, AccountTypeOK
<1> QED  BY <1>1, <1>2, <1>3, <1>4, <1>5

(* A resting order of user u leaves with her copy of it: the self-trade      *)
(* removals and cancel.                                                      *)
LEMMA WithdrawKeeps ==
    ASSUME EngineInv, NEW u \in Users, NEW id \in OrderIds, NEW price \in Nat, NEW qty \in Int,
           ReleaseMargin(u, price, qty), RemoveOrder(id), EraseOpenOrder(u, id),
           UNCHANGED position, ProcessTypeOK',
           phase' \in {"matching", "residual"} =>
              phase \in {"matching", "residual"} /\ incoming'.id = incoming.id,
           ReuseIds = FALSE => \E x \in Resting : x.id = id /\ x.user = u
    PROVE  EngineInv'
<1>1. /\ BookInv' /\ (IndexComplete => IndexComplete')
      /\ IndexComplete => Resting' = {n \in Resting : n.id # id}
  BY RemovePreserves DEF EngineInv
<1>2. OpenOrdersOK'
  BY EraseFacts DEF EngineInv, AccountTypeOK, OpenOrdersOK
<1>3. open_order_margin' \in [Users -> Nat]
  BY ReleaseType DEF EngineInv, AccountTypeOK
<1>4. AccountTypeOK'
  BY <1>2, <1>3 DEF EngineInv, AccountTypeOK, OpenOrdersOK
<1>5. ASSUME ReuseIds = FALSE  PROVE UniqueIds'
  <2>1. UniqueIds
    BY <1>5 DEF EngineInv
  <2>2. PICK x \in Resting : x.id = id /\ x.user = u
    BY <1>5
  <2>3. Resting' = {n \in Resting : n.id # x.id} /\ EraseOpenOrder(u, x.id)
    BY <1>1, <2>1, <2>2 DEF UniqueIds
  <2>4. OpenOrdersMirror'
    BY <2>1, <2>2, <2>3, MirrorErase DEF EngineInv, UniqueIds
  <2> QED  BY <1>1, <2>1, <2>3, <2>4 DEF UniqueIds
<1> QED  BY <1>1, <1>4, <1>5 DEF EngineInv

LEMMA CancelKeeps ==
    ASSUME EngineInv, NEW u \in Users, NEW id \in OrderIds, Cancel(u, id)
    PROVE  EngineInv'
<1>1. open_orders[u][id] \in OpenOrder
  BY DEF Cancel, EngineInv, AccountTypeOK
<1>2. open_orders[u][id].price \in Nat /\ open_orders[u][id].rem \in Int
  BY <1>1, BookAssumption DEF OpenOrder
<1>3. ProcessTypeOK' /\ phase' = "idle" /\ UNCHANGED position
  BY DEF Cancel, processVars, EngineInv, ProcessTypeOK
<1>4. ReuseIds = FALSE => \E x \in Resting : x.id = id /\ x.user = u
  BY DEF Cancel, EngineInv, UniqueIds, OpenOrdersMirror
<1> QED  BY <1>2, <1>3, <1>4, WithdrawKeeps DEF Cancel

(* The first order that incoming faces. *)
LEMMA HeadFacts ==
    ASSUME EngineInv, NEW price \in Prices, Matching(price)
    PROVE  /\ Opposite(incoming.side) \in Sides
           /\ price \in DOMAIN levels[Opposite(incoming.side)]
           /\ Head1(price) \in Resting /\ Head1(price) \in Node
<1>1. Opposite(incoming.side) \in Sides
  BY DEF Opposite, Sides
<1>2. price \in DOMAIN levels[Opposite(incoming.side)]
  BY DEF Matching, Facing, BestPrices
<1>3. GoodLevel(levels[Opposite(incoming.side)][price], Opposite(incoming.side), price, inserted)
  BY <1>1, <1>2 DEF EngineInv, BookInv, LevelsInv
<1>4. 1 \in DOMAIN levels[Opposite(incoming.side)][price].orders
  BY <1>3 DEF GoodLevel, PriceLevel
<1>5. Head1(price) \in Resting
  <2> DEFINE side == Opposite(incoming.side)
             x    == levels[side][price].orders[1]
  <2>1. x \in Node /\ x.side = side /\ x.price = price /\ x.node <= inserted
    BY <1>3, <1>4 DEF GoodLevel, PriceLevel
  <2>2. side \in Sides /\ price \in DOMAIN levels[side]
        /\ 1 \in DOMAIN levels[side][price].orders
    BY <1>1, <1>2, <1>4
  <2>3. LevelsInv
    BY DEF EngineInv, BookInv
  <2> HIDE DEF side
  <2>4. x \in Resting
    BY <2>1, <2>2, <2>3, RestingInLevel
  <2> QED  BY <2>4 DEF Head1, FrontOrder, side
<1>6. Head1(price) \in Node
  BY <1>5, RestingNode DEF EngineInv
<1> QED  BY <1>1, <1>2, <1>5, <1>6

LEMMA StpKeeps ==
    ASSUME EngineInv, NEW price \in Prices, StpCancelResting(price) \/ StpCancelBoth(price)
    PROVE  EngineInv'
<1> DEFINE x == Head1(price)
<1>1. phase = "matching" /\ Matching(price) /\ RemoveOwn(x) /\ UNCHANGED position
  BY DEF StpCancelResting, StpCancelBoth, Own, Matching
<1>2. x \in Resting /\ x \in Node
  BY <1>1, HeadFacts
<1>3. ProcessTypeOK' /\ incoming'.id = incoming.id
  BY <1>1 DEF StpCancelResting, StpCancelBoth, EngineInv, ProcessTypeOK, Phases, IncomingOrder
<1> HIDE DEF x
<1>4. x.user \in Users /\ x.id \in OrderIds /\ x.price \in Nat /\ x.rem \in Int
  BY <1>2, NodeFields
<1> QED  BY <1>1, <1>2, <1>3, <1>4, WithdrawKeeps DEF RemoveOwn

(* How much a fill takes: at least one lot, at most what either order has. *)
LEMMA FillQtyFacts ==
    ASSUME EngineInv, NEW x, x.rem \in Nat \ {0}, phase # "idle", MaxFill > 0
    PROVE  /\ FillQty(x) \in Nat \ {0} /\ FillQty(x) <= x.rem
           /\ incoming.rem - FillQty(x) \in Nat
<1>1. incoming.rem \in Nat /\ incoming.user \in Users
  BY DEF EngineInv, ProcessTypeOK, IncomingOrder
<1>2. position[incoming.user] \in Int
  BY <1>1 DEF EngineInv, AccountTypeOK
<1>3. MaxFill \in Nat /\ MaxFill <= incoming.rem
  BY <1>1, <1>2 DEF MaxFill, Smaller, Abs
<1> HIDE DEF MaxFill
<1> DEFINE r == x.rem
           q == FillQty(x)
<1>4. r \in Nat \ {0} /\ q = IF MaxFill <= r THEN MaxFill ELSE r
  BY DEF FillQty, Smaller
<1> HIDE DEF r, q
<1>5. q \in Nat \ {0} /\ q <= r /\ q <= MaxFill
  BY <1>3, <1>4
<1>6. incoming.rem - q \in Nat
  BY <1>1, <1>3, <1>5
<1> QED  BY <1>5, <1>6 DEF q, r

(* What a fill takes, from whom, and what it leaves in the book. *)
LEMMA FillFacts ==
    ASSUME EngineInv, NEW price \in Prices, Fill(price)
    PROVE  LET x    == Head1(price)
               q    == FillQty(x)
               side == Opposite(incoming.side)
           IN  /\ phase = "matching" /\ phase' = phase /\ incoming \in IncomingOrder
               /\ x \in Resting /\ x \in Node /\ x.user # incoming.user
               /\ side \in Sides /\ x.side = side /\ x.price = price
               /\ \A y \in Resting : y.side = side /\ y.price = price => x.node <= y.node
               /\ q \in Nat \ {0} /\ q <= x.rem /\ incoming.rem - q \in Nat
               /\ TradeOf(x, q) \in Trade /\ trades' = Append(trades, TradeOf(x, q))
               /\ incoming' = [incoming EXCEPT !.rem = @ - q] /\ incoming' \in IncomingOrder
               /\ BookInv' /\ (IndexComplete => IndexComplete') /\ inserted' = inserted
               /\ q = x.rem => Resting' = Resting \ {x}
               /\ q < x.rem => Resting' = (Resting \ {x}) \cup {[x EXCEPT !.rem = @ - q]}
<1> DEFINE x    == Head1(price)
           q    == FillQty(x)
           side == Opposite(incoming.side)
<1>1. /\ phase = "matching" /\ phase' = phase /\ MaxFill > 0 /\ Matching(price)
      /\ x.user # incoming.user
      /\ trades' = Append(trades, TradeOf(x, q))
      /\ ConsumeFront(side, price, q)
      /\ incoming' = [incoming EXCEPT !.rem = @ - q]
  BY DEF Fill, Matching
<1>2. side \in Sides /\ price \in DOMAIN levels[side] /\ x \in Resting /\ x \in Node
  BY <1>1, HeadFacts
<1>3. /\ x.user \in Users /\ x.price \in Prices /\ x.price \in Nat /\ x.rem \in Nat \ {0}
  BY <1>2, NodeFields
<1>4. q \in Nat \ {0} /\ q <= x.rem /\ incoming.rem - q \in Nat
  BY <1>1, <1>3, FillQtyFacts
<1>5. x = FrontOrder(side, price)
  BY DEF Head1
<1>6. incoming \in IncomingOrder
  BY <1>1 DEF EngineInv, ProcessTypeOK
<1>7. TradeOf(x, q) \in Trade
  BY <1>3, <1>4, <1>6 DEF TradeOf, Trade, IncomingOrder
<1>8. incoming' \in IncomingOrder
  BY <1>1, <1>4, <1>6 DEF IncomingOrder
<1> HIDE DEF x, q, side
<1>9. /\ BookInv' /\ (IndexComplete => IndexComplete') /\ inserted' = inserted
      /\ x.side = side /\ x.price = price
      /\ \A y \in Resting : y.side = side /\ y.price = price => x.node <= y.node
      /\ q = x.rem => Resting' = Resting \ {x}
      /\ q < x.rem => Resting' = (Resting \ {x}) \cup {[x EXCEPT !.rem = @ - q]}
  BY <1>1, <1>2, <1>4, <1>5, ConsumePreserves DEF EngineInv
<1> QED  BY <1>1, <1>2, <1>4, <1>6, <1>7, <1>8, <1>9 DEF x, q, side

LEMMA SyncType ==
    ASSUME AccountTypeOK, NEW x \in Node, NEW q \in Int, SyncOpenOrder(x, q)
    PROVE  OpenOrdersOK'
<1> DEFINE c == [OpenOrderOf(x.user, x.id) EXCEPT !.rem = @ - q]
<1>1. OpenOrdersOK /\ x.user \in Users /\ x.id \in OrderIds
  BY NodeFields DEF AccountTypeOK, OpenOrdersOK
<1>2. c \in OpenOrder
  <2>1. OpenOrderOf(x.user, x.id) \in OpenOrder
    BY <1>1, EngineAssumption DEF OpenOrderOf, Lookup, OpenOrdersOK, OpenOrder, Sides
  <2> QED  BY <2>1 DEF OpenOrder
<1>3. CASE q = x.rem
  BY <1>1, <1>3, EraseFacts DEF SyncOpenOrder
<1>4. CASE q # x.rem
  <2>1. PutOpenOrder(x.user, x.id, c)
    BY <1>4 DEF SyncOpenOrder
  <2> HIDE DEF c
  <2> QED  BY <1>1, <1>2, <2>1, PutFacts
<1> QED  BY <1>3, <1>4

(* The book and the copies follow a fill of the front order x alike. *)
LEMMA FillMirror ==
    ASSUME BookInv, AccountTypeOK, IndexComplete, OpenOrdersMirror,
           NEW x \in Resting, x \in Node, NEW q \in Nat \ {0}, q <= x.rem, SyncOpenOrder(x, q),
           q = x.rem => Resting' = Resting \ {x},
           q < x.rem => Resting' = (Resting \ {x}) \cup {[x EXCEPT !.rem = @ - q]}
    PROVE  /\ OpenOrdersMirror'
           /\ \A n \in Resting' : \E m \in Resting : n.id = m.id
<1>1. /\ x.user \in Users /\ x.id \in OrderIds /\ x.side \in Sides /\ x.price \in Prices
      /\ x.rem \in Nat \ {0}
  BY NodeFields
<1>2. \A n \in Resting : n.id = x.id => n = x
  BY SameIdSameNode
<1>3. CASE q = x.rem
  <2>1. Resting' = {n \in Resting : n.id # x.id} /\ EraseOpenOrder(x.user, x.id)
    BY <1>2, <1>3 DEF SyncOpenOrder
  <2> QED  BY <1>1, <2>1, MirrorErase
<1>4. CASE q < x.rem
  <2> DEFINE y == [x EXCEPT !.rem = @ - q]
             S == Resting \ {x}
  <2>1. /\ y.id = x.id /\ y.user = x.user /\ y.side = x.side /\ y.price = x.price
        /\ y.rem = x.rem - q
    BY DEF Node
  <2>2. OpenOrderOf(x.user, x.id) = OpenOrderOfNode(x)
    BY <1>1 DEF OpenOrdersMirror, OpenOrderOf, Lookup
  <2>3. OpenOrderOfNode(y) = [OpenOrderOf(x.user, x.id) EXCEPT !.rem = @ - q]
    BY <2>1, <2>2 DEF OpenOrderOfNode
  <2>4. PutOpenOrder(x.user, y.id, OpenOrderOfNode(y))
    BY <1>1, <1>4, <2>1, <2>3 DEF SyncOpenOrder
  <2>5. OpenOrderOfNode(y) \in OpenOrder
    BY <1>1, <2>1 DEF OpenOrderOfNode, OpenOrder
  <2>6. Resting' = S \cup {y} /\ S \subseteq Resting
    BY <1>4
  <2>7. (\A n \in S : n.id # y.id) /\ (\A n \in Resting \ S : n.id = y.id /\ n.user = x.user)
    BY <1>2, <2>1
  <2> HIDE DEF y, S
  <2>8. OpenOrdersMirror'
    BY <1>1, <2>1, <2>4, <2>5, <2>6, <2>7, MirrorPut
  <2>9. \A n \in Resting' : \E m \in Resting : n.id = m.id
    BY <2>1, <2>6
  <2> QED  BY <2>8, <2>9
<1> QED  BY <1>1, <1>3, <1>4

LEMMA FillKeeps ==
    ASSUME EngineInv, NEW price \in Prices, Fill(price)
    PROVE  EngineInv'
<1> DEFINE x == Head1(price)
           q == FillQty(x)
<1>1. /\ ReleaseMargin(x.user, x.price, q)
      /\ SyncOpenOrder(x, q)
      /\ UNCHANGED <<position, phase, arrival_best>>
  BY DEF Fill
<1>2. /\ phase = "matching" /\ x \in Resting /\ x \in Node
      /\ q \in Nat \ {0} /\ q <= x.rem
      /\ trades' = Append(trades, TradeOf(x, q)) /\ TradeOf(x, q) \in Trade
      /\ incoming' = [incoming EXCEPT !.rem = @ - q]
      /\ incoming \in IncomingOrder /\ incoming' \in IncomingOrder
      /\ BookInv' /\ (IndexComplete => IndexComplete')
      /\ q = x.rem => Resting' = Resting \ {x}
      /\ q < x.rem => Resting' = (Resting \ {x}) \cup {[x EXCEPT !.rem = @ - q]}
  BY FillFacts
<1> HIDE DEF x, q
<1>3. x.user \in Users /\ x.price \in Nat
  BY <1>2, NodeFields
<1>4. AccountTypeOK'
  <2>1. q \in Int
    BY <1>2
  <2>2. OpenOrdersOK'
    BY <1>1, <1>2, <2>1, SyncType DEF EngineInv
  <2>3. open_order_margin' \in [Users -> Nat]
    BY <1>1, <1>3, <2>1, ReleaseType DEF EngineInv, AccountTypeOK
  <2> QED  BY <1>1, <2>2, <2>3 DEF EngineInv, AccountTypeOK, OpenOrdersOK
<1>5. ProcessTypeOK' /\ incoming'.id = incoming.id
  <2>1. trades' \in Seq(Trade)
    BY <1>2, AppendProperties DEF EngineInv, ProcessTypeOK
  <2>2. incoming'.id = incoming.id
    BY <1>2 DEF IncomingOrder
  <2> QED  BY <1>1, <1>2, <2>1, <2>2 DEF EngineInv, ProcessTypeOK
<1>6. ASSUME ReuseIds = FALSE  PROVE UniqueIds'
  <2>1. UniqueIds
    BY <1>6 DEF EngineInv
  <2>2. OpenOrdersMirror' /\ \A n \in Resting' : \E m \in Resting : n.id = m.id
    BY <1>1, <1>2, <2>1, FillMirror DEF EngineInv, UniqueIds
  <2> QED  BY <1>1, <1>2, <1>5, <2>1, <2>2 DEF UniqueIds
<1> QED  BY <1>2, <1>4, <1>5, <1>6 DEF EngineInv

LEMMA RestKeeps ==
    ASSUME EngineInv, NEW mark \in Marks, Rest(mark)
    PROVE  EngineInv'
<1> DEFINE x == NewNode(incoming)
<1>1. /\ phase = "residual" /\ incoming \in IncomingOrder /\ AddOrder(incoming)
      /\ ReserveMargin(incoming.user, incoming, mark)
      /\ PutOpenOrder(incoming.user, incoming.id, OpenOrderOfNode(incoming))
      /\ incoming' = [incoming EXCEPT !.status = "OPEN"]
      /\ phase' = "settling" /\ UNCHANGED <<position, arrival_best, trades>>
  BY DEF Rest, EngineInv, ProcessTypeOK
<1>2. /\ incoming.id \in OrderIds /\ incoming.user \in Users /\ incoming.side \in Sides
      /\ incoming.price \in Prices /\ incoming.rem \in Nat \ {0}
  BY <1>1 DEF IncomingOrder, Rest
<1>3. incoming.price \in Nat /\ mark \in Nat /\ incoming.rem \in Nat /\ incoming.rem \in Int
  <2> DEFINE p == incoming.price
             r == incoming.rem
  <2>1. p \in Prices /\ r \in Nat \ {0}
    BY <1>2
  <2> HIDE DEF p, r
  <2>2. p \in Nat /\ r \in Nat /\ r \in Int
    BY <2>1, BookAssumption
  <2>3. mark \in Nat
    BY EngineAssumption
  <2> QED  BY <2>2, <2>3 DEF p, r
<1>4. /\ BookInv' /\ Resting' = Resting \cup {x}
      /\ IndexComplete /\ (\A n \in Resting : n.id # incoming.id) => IndexComplete'
  BY <1>1, <1>2, AddPreserves DEF EngineInv
<1>5. OpenOrderOfNode(incoming) \in OpenOrder
  BY <1>2, <1>3 DEF OpenOrderOfNode, OpenOrder
<1>6. OpenOrdersOK'
  BY <1>1, <1>2, <1>5, PutFacts DEF EngineInv, AccountTypeOK, OpenOrdersOK
<1>7. open_order_margin' \in [Users -> Nat]
  BY <1>1, <1>2, <1>3, ReserveType DEF EngineInv, AccountTypeOK
<1>8. AccountTypeOK'
  BY <1>1, <1>6, <1>7 DEF EngineInv, AccountTypeOK, OpenOrdersOK
<1>9. ProcessTypeOK'
  BY <1>1 DEF EngineInv, ProcessTypeOK, Phases, IncomingOrder
<1>10. ASSUME ReuseIds = FALSE  PROVE UniqueIds'
  <2>1. UniqueIds /\ \A n \in Resting : n.id # incoming.id
    BY <1>1, <1>10 DEF EngineInv, UniqueIds
  <2>2. /\ x.id = incoming.id /\ x.user = incoming.user
        /\ OpenOrderOfNode(x) = OpenOrderOfNode(incoming)
    BY DEF NewNode, OpenOrderOfNode
  <2> HIDE DEF x
  <2>3. OpenOrdersMirror'
    BY <1>1, <1>2, <1>4, <1>5, <2>1, <2>2, MirrorPut DEF EngineInv, UniqueIds
  <2> QED  BY <1>1, <1>4, <2>1, <2>3 DEF UniqueIds
<1> QED  BY <1>4, <1>8, <1>9, <1>10 DEF EngineInv

-----------------------------------------------------------------------------
(* The theorems. *)

LEMMA EngineInitInv == EngineInit => EngineInv
<1> SUFFICES ASSUME EngineInit  PROVE EngineInv
  OBVIOUS
<1>1. Inv /\ Resting = {} /\ IndexComplete
  BY InitInv DEF EngineInit, IndexComplete
<1>2. AccountTypeOK
  BY DEF EngineInit, AccountTypeOK, IsMap
<1>3. ProcessTypeOK
  BY EngineAssumption DEF EngineInit, ProcessTypeOK, Phases
<1>4. OpenOrdersMirror
  BY <1>1 DEF EngineInit, OpenOrdersMirror
<1> QED  BY <1>1, <1>2, <1>3, <1>4 DEF EngineInv, Inv, UniqueIds, EngineInit

LEMMA EngineNextInv == EngineInv /\ [EngineNext]_vars => EngineInv'
<1> SUFFICES ASSUME EngineInv, [EngineNext]_vars  PROVE EngineInv'
  OBVIOUS
<1>1. ASSUME NEW o \in ClientOrder, Submit(o)  PROVE EngineInv'
  BY <1>1, SubmitKeeps
<1>2. ASSUME NEW u \in Users, NEW id \in OrderIds, Cancel(u, id)  PROVE EngineInv'
  BY <1>2, CancelKeeps
<1>3. ASSUME NEW price \in Prices, Fill(price)  PROVE EngineInv'
  BY <1>3, FillKeeps
<1>4. ASSUME NEW price \in Prices, StpCancelResting(price) \/ StpCancelBoth(price)
      PROVE  EngineInv'
  BY <1>4, StpKeeps
<1>5. ASSUME NEW mark \in Marks, Rest(mark)  PROVE EngineInv'
  BY <1>5, RestKeeps
<1>6. CASE StopMatching \/ DropResidual \/ Settle \/ Finish
             \/ \E price \in Prices : StpCancelIncoming(price)
  BY <1>6, StopKeeps
<1>7. CASE UNCHANGED vars
  <2>1. /\ UNCHANGED bookVars /\ UNCHANGED open_orders /\ UNCHANGED open_order_margin
        /\ position' \in [Users -> Int] /\ ProcessTypeOK' /\ phase' = phase
        /\ incoming' = incoming
    BY <1>7 DEF vars, bookVars, EngineInv, AccountTypeOK, ProcessTypeOK
  <2> QED  BY <2>1, QuietKeeps
<1> QED  BY <1>1, <1>2, <1>3, <1>4, <1>5, <1>6, <1>7 DEF EngineNext, Process, Iterate

THEOREM EngineInvHolds == EngineSpec => []EngineInv
BY EngineInitInv, EngineNextInv, PTL DEF EngineSpec

(* Type correctness of the engine, its accounts and its book. *)
THEOREM EngineTypeCorrect == EngineSpec => []EngineTypeOK
<1>1. EngineInv => EngineTypeOK
  BY InvImplies DEF EngineInv, EngineTypeOK
<1> QED  BY <1>1, EngineInvHolds, PTL

(* The accounts' copies of the resting orders and the book never part, for *)
(* any users, prices, order kinds and margin rates, when ids are not reused *)
(* among resting orders.                                                    *)
THEOREM AccountsMirrorBook ==
    ASSUME ReuseIds = FALSE  PROVE EngineSpec => []OpenOrdersMirror
<1>1. EngineInv => OpenOrdersMirror
  BY DEF EngineInv, UniqueIds
<1> QED  BY <1>1, EngineInvHolds, PTL
-----------------------------------------------------------------------------
(* The margin formula: the whole needs no less than its parts. *)

LEMMA SquareRootGrows ==
    ASSUME NEW a \in Nat, NEW b \in Nat, a <= b
    PROVE  SquareRoot(a) <= SquareRoot(b) /\ SquareRoot(a) \in Nat /\ SquareRoot(b) \in Nat
<1> DEFINE A == {r \in 1..a : r * r <= a}
           B == {r \in 1..b : r * r <= b}
<1>1. IsFiniteSet(B)
  <2>1. IsFiniteSet(1..b) /\ B \subseteq 1..b
    BY FS_Interval
  <2> QED  BY <2>1, FS_Subset
<1>2. ASSUME NEW r \in A  PROVE r \in B
  <2>1. r \in 1..b /\ r * r \in Int /\ r * r <= a
    OBVIOUS
  <2> QED  BY <2>1
<1>3. A \subseteq B
  BY <1>2
<1> HIDE DEF A, B
<1>4. /\ Cardinality(A) <= Cardinality(B) /\ IsFiniteSet(A)
      /\ Cardinality(A) \in Nat /\ Cardinality(B) \in Nat
  BY <1>1, <1>3, FS_Subset, FS_CardinalityType
<1> QED  BY <1>4 DEF SquareRoot, A, B

LEMMA ProductGrows ==
    ASSUME NEW a \in Nat, NEW b \in Nat, NEW k \in Nat, a <= b
    PROVE  k * a <= k * b /\ k * a \in Nat /\ k * b \in Nat
<1>1. PICK d \in Nat : b = a + d
  <2>1. b - a \in Nat /\ b = a + (b - a)
    OBVIOUS
  <2> QED  BY <2>1
<1>2. k * b = k * a + k * d
  BY <1>1
<1>3. k * a \in Nat /\ k * d \in Nat /\ k * b \in Nat
  OBVIOUS
<1> QED  BY <1>2, <1>3

LEMMA CalcImfGrows ==
    ASSUME NEW a \in Nat, NEW b \in Nat, a <= b
    PROVE  CalcImf(a) <= CalcImf(b) /\ CalcImf(a) \in Nat /\ CalcImf(b) \in Nat
<1> DEFINE x == ImfFactor * SquareRoot(a)
           y == ImfFactor * SquareRoot(b)
<1>1. x <= y /\ x \in Nat /\ y \in Nat
  BY SquareRootGrows, ProductGrows, EngineAssumption
<1>2. CalcImf(a) = Larger(BaseImf, x) /\ CalcImf(b) = Larger(BaseImf, y)
  BY DEF CalcImf
<1> HIDE DEF x, y
<1> QED  BY <1>1, <1>2, EngineAssumption DEF Larger

LEMMA CalcImParts ==
    ASSUME NEW a \in Nat, NEW b \in Nat
    PROVE  /\ CalcIm(a) + CalcIm(b) <= CalcIm(a + b)
           /\ CalcIm(a) \in Nat /\ CalcIm(b) \in Nat /\ CalcIm(a + b) \in Nat
<1> DEFINE f == CalcImf(a)
           g == CalcImf(b)
           h == CalcImf(a + b)
<1>1. f <= h /\ g <= h /\ f \in Nat /\ g \in Nat /\ h \in Nat
  BY CalcImfGrows
<1>2. CalcIm(a) = f * a /\ CalcIm(b) = g * b /\ CalcIm(a + b) = h * (a + b)
  BY DEF CalcIm
<1> HIDE DEF f, g, h
<1>3. a * f <= a * h /\ b * g <= b * h
  BY <1>1, ProductGrows
<1>4. /\ f * a = a * f /\ g * b = b * g /\ h * (a + b) = a * h + b * h
      /\ a * f \in Nat /\ b * g \in Nat /\ a * h \in Nat /\ b * h \in Nat
  BY <1>1
<1> QED  BY <1>2, <1>3, <1>4

(* With a constant rate it needs no more either. *)
LEMMA CalcImLinear ==
    ASSUME ImfFactor = 0, NEW a \in Nat, NEW b \in Nat
    PROVE  CalcIm(a) + CalcIm(b) = CalcIm(a + b)
<1>1. ASSUME NEW n \in Nat  PROVE CalcIm(n) = BaseImf * n
  <2>1. 0 * SquareRoot(n) = 0
    BY SquareRootGrows
  <2>2. CalcImf(n) = Larger(BaseImf, 0)
    BY <2>1 DEF CalcImf
  <2>3. Larger(BaseImf, 0) = BaseImf
    BY EngineAssumption DEF Larger
  <2> QED  BY <2>2, <2>3 DEF CalcIm
<1>2. CalcIm(a) = BaseImf * a /\ CalcIm(b) = BaseImf * b /\ CalcIm(a + b) = BaseImf * (a + b)
  BY <1>1
<1>3. BaseImf * (a + b) = BaseImf * a + BaseImf * b
  BY EngineAssumption
<1> QED  BY <1>2, <1>3

-----------------------------------------------------------------------------
(* What a user's open orders need, when one of them changes. *)

Margins(f) == [id \in DOMAIN f |-> CalcIm(f[id].rem * f[id].price)]

GoodOrders(f) ==
    /\ IsFiniteSet(DOMAIN f)
    /\ \A id \in DOMAIN f : f[id].rem \in Nat /\ f[id].price \in Nat

LEMMA MarginsNat ==
    ASSUME NEW f, GoodOrders(f)
    PROVE  /\ DOMAIN Margins(f) = DOMAIN f
           /\ \A id \in DOMAIN f : /\ Margins(f)[id] = CalcIm(f[id].rem * f[id].price)
                                   /\ Margins(f)[id] \in Nat
           /\ SumFunction(Margins(f)) = SumFunctionOnSet(Margins(f), DOMAIN f)
           /\ SumFunction(Margins(f)) \in Nat
<1>1. /\ DOMAIN Margins(f) = DOMAIN f
      /\ \A id \in DOMAIN f : Margins(f)[id] = CalcIm(f[id].rem * f[id].price)
  BY DEF Margins
<1>2. ASSUME NEW id \in DOMAIN f  PROVE Margins(f)[id] \in Nat
  <2>1. PICK n \in Nat : n = f[id].rem * f[id].price
    BY DEF GoodOrders
  <2>2. CalcIm(n) \in Nat
    BY CalcImType
  <2> QED  BY <1>1, <2>1, <2>2
<1>3. SumFunction(Margins(f)) = SumFunctionOnSet(Margins(f), DOMAIN f)
  BY <1>1 DEF SumFunction
<1> QED  BY <1>1, <1>2, <1>3, SumNat DEF GoodOrders

LEMMA MarginsErased ==
    ASSUME NEW f, GoodOrders(f), NEW id \in DOMAIN f, NEW g,
           DOMAIN g = DOMAIN f \ {id}, \A k \in DOMAIN g : g[k] = f[k]
    PROVE  /\ GoodOrders(g)
           /\ SumFunction(Margins(f)) = SumFunction(Margins(g)) + CalcIm(f[id].rem * f[id].price)
           /\ SumFunction(Margins(g)) \in Nat
<1>1. GoodOrders(g)
  BY FS_RemoveElement DEF GoodOrders
<1>2. SumFunctionOnSet(Margins(f), DOMAIN f)
        = Margins(f)[id] + SumFunctionOnSet(Margins(f), DOMAIN g)
  <2>1. IsFiniteSet(DOMAIN f) /\ \A k \in DOMAIN f : Margins(f)[k] \in Int
    BY MarginsNat DEF GoodOrders
  <2> QED  BY <2>1, SumTake
<1>3. SumFunctionOnSet(Margins(g), DOMAIN g) = SumFunctionOnSet(Margins(f), DOMAIN g)
  <2>1. ASSUME NEW k \in DOMAIN g
        PROVE  Margins(f)[k] \in Int /\ Margins(g)[k] = Margins(f)[k]
    <3>1. Margins(f)[k] = CalcIm(f[k].rem * f[k].price) /\ Margins(f)[k] \in Nat
      BY MarginsNat
    <3>2. Margins(g)[k] = CalcIm(g[k].rem * g[k].price) /\ g[k] = f[k]
      BY <1>1, MarginsNat
    <3> QED  BY <3>1, <3>2
  <2>2. IsFiniteSet(DOMAIN g)
    BY <1>1 DEF GoodOrders
  <2> QED  BY <2>1, <2>2, SumEqual
<1>4. /\ SumFunction(Margins(g)) = SumFunctionOnSet(Margins(g), DOMAIN g)
      /\ SumFunction(Margins(g)) \in Nat
  BY <1>1, MarginsNat
<1>5. /\ SumFunction(Margins(f)) = SumFunctionOnSet(Margins(f), DOMAIN f)
      /\ Margins(f)[id] = CalcIm(f[id].rem * f[id].price) /\ Margins(f)[id] \in Nat
  BY MarginsNat
<1> QED  BY <1>1, <1>2, <1>3, <1>4, <1>5

(* An order comes: f is the map without it. *)
LEMMA MarginsAdded ==
    ASSUME NEW f, GoodOrders(f), NEW id, id \notin DOMAIN f, NEW g,
           DOMAIN g = DOMAIN f \cup {id}, \A k \in DOMAIN f : g[k] = f[k],
           g[id].rem \in Nat, g[id].price \in Nat
    PROVE  /\ GoodOrders(g)
           /\ SumFunction(Margins(g)) = SumFunction(Margins(f)) + CalcIm(g[id].rem * g[id].price)
           /\ SumFunction(Margins(f)) \in Nat
<1>1. GoodOrders(g)
  <2>1. IsFiniteSet(DOMAIN g)
    BY FS_AddElement DEF GoodOrders
  <2> QED  BY <2>1 DEF GoodOrders
<1>2. DOMAIN f = DOMAIN g \ {id} /\ id \in DOMAIN g /\ \A k \in DOMAIN f : f[k] = g[k]
  OBVIOUS
<1> QED  BY <1>1, <1>2, MarginsErased

(* An order changes. *)
LEMMA MarginsChanged ==
    ASSUME NEW f, GoodOrders(f), NEW id \in DOMAIN f, NEW g, DOMAIN g = DOMAIN f,
           \A k \in DOMAIN f : k # id => g[k] = f[k],
           g[id].rem \in Nat, g[id].price \in Nat
    PROVE  /\ GoodOrders(g)
           /\ SumFunction(Margins(g)) = SumFunction(Margins(f))
                - CalcIm(f[id].rem * f[id].price) + CalcIm(g[id].rem * g[id].price)
           /\ SumFunction(Margins(f)) >= CalcIm(f[id].rem * f[id].price)
<1> DEFINE h == [k \in DOMAIN f \ {id} |-> f[k]]
<1>1. DOMAIN h = DOMAIN f \ {id} /\ \A k \in DOMAIN h : h[k] = f[k]
  OBVIOUS
<1> HIDE DEF h
<1>2. /\ GoodOrders(h) /\ SumFunction(Margins(h)) \in Nat
      /\ SumFunction(Margins(f)) = SumFunction(Margins(h)) + CalcIm(f[id].rem * f[id].price)
  BY <1>1, MarginsErased
<1>3. DOMAIN g = DOMAIN h \cup {id} /\ id \notin DOMAIN h /\ \A k \in DOMAIN h : g[k] = h[k]
  BY <1>1
<1>4. /\ GoodOrders(g)
      /\ SumFunction(Margins(g)) = SumFunction(Margins(h)) + CalcIm(g[id].rem * g[id].price)
  <2>1. GoodOrders(g)
    BY DEF GoodOrders
  <2>2. id \in DOMAIN g /\ DOMAIN h = DOMAIN g \ {id} /\ \A k \in DOMAIN h : h[k] = g[k]
    BY <1>3
  <2> QED  BY <2>1, <2>2, MarginsErased
<1>5. CalcIm(f[id].rem * f[id].price) \in Nat /\ CalcIm(g[id].rem * g[id].price) \in Nat
  <2>1. Margins(f)[id] = CalcIm(f[id].rem * f[id].price) /\ Margins(f)[id] \in Nat
    BY MarginsNat
  <2>2. id \in DOMAIN g
    BY <1>3
  <2>3. Margins(g)[id] = CalcIm(g[id].rem * g[id].price) /\ Margins(g)[id] \in Nat
    BY <1>4, <2>2, MarginsNat
  <2> QED  BY <2>1, <2>3
<1> QED  BY <1>2, <1>4, <1>5

-----------------------------------------------------------------------------
(* The steps by what they do to the set of resting orders. *)

LEMMA QuietFacts ==
  ASSUME \/ \E o \in ClientOrder : Submit(o)
         \/ StopMatching \/ DropResidual \/ Settle \/ Finish
         \/ \E price \in Prices : StpCancelIncoming(price)
  PROVE  UNCHANGED bookVars /\ Resting' = Resting
<1>1. UNCHANGED bookVars
  BY DEF Submit, StopMatching, DropResidual, Settle, Finish, StpCancelIncoming, bookVars
<1> QED  BY <1>1 DEF bookVars, Resting, NodesOf

(* An order of an id leaves, and no other. *)
LEMMA RemoveFacts ==
  ASSUME BookInv, IndexComplete, NEW x \in Resting, RemoveOrder(x.id)
  PROVE  Resting' = Resting \ {x} /\ inserted' = inserted
<1>1. Resting' = {n \in Resting : n.id # x.id} /\ inserted' = inserted
  BY RemovePreserves
<1>2. \A n \in Resting : n.id = x.id => n = x
  BY SameIdSameNode
<1> QED  BY <1>1, <1>2

LEMMA OwnFacts ==
  ASSUME EngineInv, ReuseIds = FALSE, NEW price \in Prices,
         StpCancelResting(price) \/ StpCancelBoth(price)
  PROVE  /\ phase = "matching" /\ incoming \in IncomingOrder
         /\ Head1(price) \in Resting /\ Head1(price).user = incoming.user
         /\ Resting' = Resting \ {Head1(price)} /\ inserted' = inserted
<1>1. /\ phase = "matching" /\ Matching(price) /\ RemoveOwn(Head1(price))
      /\ Head1(price).user = incoming.user
  BY DEF StpCancelResting, StpCancelBoth, Own, Matching
<1>2. Head1(price) \in Resting
  BY <1>1, HeadFacts
<1>3. BookInv /\ IndexComplete /\ incoming \in IncomingOrder
  BY <1>1 DEF EngineInv, UniqueIds, ProcessTypeOK
<1> QED  BY <1>1, <1>2, <1>3, RemoveFacts DEF RemoveOwn

LEMMA CancelFacts ==
  ASSUME EngineInv, ReuseIds = FALSE, NEW u \in Users, NEW id \in OrderIds, Cancel(u, id)
  PROVE  \E x \in Resting :
            /\ x.id = id /\ x.user = u
            /\ Resting' = Resting \ {x} /\ inserted' = inserted
<1>1. BookInv /\ IndexComplete /\ OpenOrdersMirror
  BY DEF EngineInv, UniqueIds
<1>2. PICK x \in Resting : x.id = id /\ x.user = u
  BY <1>1 DEF Cancel, OpenOrdersMirror
<1> QED  BY <1>1, <1>2, RemoveFacts DEF Cancel

LEMMA RestFacts ==
  ASSUME EngineInv, NEW mark \in Marks, Rest(mark)
  PROVE  /\ phase = "residual" /\ incoming \in IncomingOrder /\ incoming.rem \in Nat \ {0}
         /\ Resting' = Resting \cup {NewNode(incoming)} /\ inserted' = inserted + 1
<1>1. phase = "residual" /\ incoming \in IncomingOrder /\ incoming.rem > 0 /\ AddOrder(incoming)
  BY DEF Rest, EngineInv, ProcessTypeOK
<1>2. /\ incoming.id \in OrderIds /\ incoming.user \in Users /\ incoming.side \in Sides
      /\ incoming.price \in Prices /\ incoming.rem \in Nat \ {0}
  BY <1>1 DEF IncomingOrder
<1>3. Resting' = Resting \cup {NewNode(incoming)}
  BY <1>1, <1>2, AddPreserves DEF EngineInv
<1> QED  BY <1>1, <1>2, <1>3 DEF AddOrder

LEMMA NodeOfOne ==
  ASSUME EngineInv, NEW x \in Resting
  PROVE  x \in Node /\ x.user \in Users
  BY RestingNode, NodeFields DEF EngineInv

-----------------------------------------------------------------------------
(* Who takes an order out of the book. *)

Leaves(n) == n.node \notin {m.node : m \in Resting'}

WithdrawnByOwner(n) ==
    \/ trades' # trades /\ n \in {Head1(p) : p \in {q \in Prices : Facing(q)}}
    \/ phase = "matching" /\ n.user = incoming.user
    \/ phase = "idle" /\ n.id \in DOMAIN open_orders[n.user]
                      /\ n.id \notin DOMAIN open_orders'[n.user]

LEMMA FillWithdraws ==
  ASSUME EngineInv, NEW price \in Prices, Fill(price), NEW n \in Resting, Leaves(n)
  PROVE  WithdrawnByOwner(n)
<1> DEFINE x == Head1(price)
           q == FillQty(x)
<1>1. /\ x \in Resting /\ x \in Node /\ q \in Nat \ {0} /\ q <= x.rem
      /\ trades' = Append(trades, TradeOf(x, q))
      /\ q = x.rem => Resting' = Resting \ {x}
      /\ q < x.rem => Resting' = (Resting \ {x}) \cup {[x EXCEPT !.rem = @ - q]}
  BY FillFacts
<1>2. Facing(price)
  BY DEF Fill, Matching
<1>3. trades' # trades
  <2>1. trades \in Seq(Trade)
    BY DEF EngineInv, ProcessTypeOK
  <2>2. Len(Append(trades, TradeOf(x, q))) = Len(trades) + 1 /\ Len(trades) \in Nat
    BY <2>1
  <2> QED  BY <1>1, <2>2
<1>4. Resting \ {x} \subseteq Resting'
  <2>1. x.rem \in Nat \ {0}
    BY <1>1, NodeFields
  <2> QED  BY <1>1, <2>1
<1>5. n = x
  BY <1>4 DEF Leaves
<1> QED  BY <1>2, <1>3, <1>5 DEF WithdrawnByOwner

LEMMA StepWithdraws ==
  ASSUME EngineInv, ReuseIds = FALSE, EngineNext, NEW n \in Resting, Leaves(n)
  PROVE  WithdrawnByOwner(n)
<1>1. ASSUME NEW price \in Prices, Fill(price)  PROVE WithdrawnByOwner(n)
  BY <1>1, FillWithdraws
<1>2. ASSUME NEW price \in Prices, StpCancelResting(price) \/ StpCancelBoth(price)
      PROVE  WithdrawnByOwner(n)
  <2>1. /\ phase = "matching" /\ Head1(price).user = incoming.user
        /\ Resting' = Resting \ {Head1(price)}
    BY <1>2, OwnFacts
  <2> QED  BY <2>1 DEF Leaves, WithdrawnByOwner
<1>3. ASSUME NEW u \in Users, NEW id \in OrderIds, Cancel(u, id)
      PROVE  WithdrawnByOwner(n)
  <2>1. PICK x \in Resting : x.id = id /\ x.user = u /\ Resting' = Resting \ {x}
    BY <1>3, CancelFacts
  <2>2. n = x
    BY <2>1 DEF Leaves
  <2>3. id \in DOMAIN open_orders[u] /\ phase = "idle" /\ EraseOpenOrder(u, id)
    BY <1>3 DEF Cancel
  <2>4. id \notin DOMAIN open_orders'[u]
    BY <2>3, EraseFacts DEF EngineInv, AccountTypeOK, OpenOrdersOK
  <2> QED  BY <2>1, <2>2, <2>3, <2>4 DEF WithdrawnByOwner
<1>4. ASSUME NEW mark \in Marks, Rest(mark)  PROVE WithdrawnByOwner(n)
  BY <1>4, RestFacts DEF Leaves
<1>5. CASE \/ \E o \in ClientOrder : Submit(o)
           \/ StopMatching \/ DropResidual \/ Settle \/ Finish
           \/ \E price \in Prices : StpCancelIncoming(price)
  BY <1>5, QuietFacts DEF Leaves
<1> QED  BY <1>1, <1>2, <1>3, <1>4, <1>5 DEF EngineNext, Process, Iterate

(* For any orders, prices and modes: an order leaves the book only as the   *)
(* first one that a taker faces, at the hands of its own user's incoming     *)
(* order, or because its user's copy of it is cancelled.                    *)
THEOREM EngineOnlyOwnersWithdraw ==
  ASSUME ReuseIds = FALSE  PROVE EngineSpec => OnlyOwnersWithdraw
<1>1. EngineInv /\ [EngineNext]_vars =>
        [\A n \in Resting : Leaves(n) => WithdrawnByOwner(n)]_vars
  BY StepWithdraws
<1> QED  BY <1>1, EngineInvHolds, PTL
         DEF EngineSpec, OnlyOwnersWithdraw, Leaves, WithdrawnByOwner

-----------------------------------------------------------------------------
(* Matching advances: the orders in the book are finitely many, and an       *)
(* iteration that goes on takes lots from the taker or an order from them.   *)

FiniteBook == IsFiniteSet(Resting)

(* A fill changes at most one order, and leaves no more of them than before. *)
LEMMA FillCount ==
  ASSUME EngineInv, FiniteBook, NEW price \in Prices, Fill(price)
  PROVE  /\ FiniteBook' /\ Cardinality(Resting') <= Cardinality(Resting)
         /\ incoming'.rem < incoming.rem /\ incoming'.rem \in Nat /\ incoming.rem \in Nat
<1> DEFINE x == Head1(price)
           q == FillQty(x)
           y == [x EXCEPT !.rem = @ - q]
<1>1. /\ x \in Resting /\ q \in Nat \ {0} /\ q <= x.rem /\ x \in Node
      /\ incoming \in IncomingOrder /\ incoming' = [incoming EXCEPT !.rem = @ - q]
      /\ incoming.rem - q \in Nat
      /\ q = x.rem => Resting' = Resting \ {x}
      /\ q < x.rem => Resting' = (Resting \ {x}) \cup {y}
  BY FillFacts
<1>2. x.rem \in Nat \ {0}
  BY <1>1, NodeFields
<1> HIDE DEF x, q, y
<1>3. /\ IsFiniteSet(Resting \ {x}) /\ Cardinality(Resting) \in Nat
      /\ Cardinality(Resting \ {x}) = Cardinality(Resting) - 1
  BY <1>1, FS_RemoveElement, FS_CardinalityType DEF FiniteBook
<1>4. /\ IsFiniteSet((Resting \ {x}) \cup {y})
      /\ Cardinality((Resting \ {x}) \cup {y}) <= Cardinality(Resting)
  BY <1>3, FS_AddElement
<1>5. FiniteBook' /\ Cardinality(Resting') <= Cardinality(Resting)
  <2>1. CASE q = x.rem
    <3>1. Resting' = Resting \ {x} /\ Cardinality(Resting') = Cardinality(Resting) - 1
      BY <1>1, <1>3, <2>1
    <3> QED  BY <1>3, <3>1 DEF FiniteBook
  <2>2. CASE q < x.rem
    BY <1>1, <1>4, <2>2 DEF FiniteBook
  <2> QED  BY <1>1, <1>2, <2>1, <2>2
<1>6. incoming.rem \in Nat /\ incoming'.rem = incoming.rem - q
  BY <1>1 DEF IncomingOrder
<1> QED  BY <1>1, <1>5, <1>6

(* A removal by self-trade prevention leaves one order fewer. *)
LEMMA OwnCount ==
  ASSUME EngineInv, FiniteBook, ReuseIds = FALSE, NEW price \in Prices,
         StpCancelResting(price) \/ StpCancelBoth(price)
  PROVE  FiniteBook' /\ Cardinality(Resting') < Cardinality(Resting)
<1>1. Head1(price) \in Resting /\ Resting' = Resting \ {Head1(price)}
  BY OwnFacts
<1>2. /\ IsFiniteSet(Resting \ {Head1(price)}) /\ Cardinality(Resting) \in Nat
      /\ Cardinality(Resting \ {Head1(price)}) = Cardinality(Resting) - 1
  BY <1>1, FS_RemoveElement, FS_CardinalityType DEF FiniteBook
<1> QED  BY <1>1, <1>2 DEF FiniteBook

LEMMA StepFiniteBook ==
  ASSUME EngineInv, FiniteBook, ReuseIds = FALSE, [EngineNext]_vars
  PROVE  FiniteBook'
<1>1. ASSUME NEW price \in Prices, Fill(price)  PROVE FiniteBook'
  BY <1>1, FillCount
<1>2. ASSUME NEW price \in Prices, StpCancelResting(price) \/ StpCancelBoth(price)
      PROVE  FiniteBook'
  BY <1>2, OwnCount
<1>3. ASSUME NEW u \in Users, NEW id \in OrderIds, Cancel(u, id)  PROVE FiniteBook'
  <2>1. PICK x \in Resting : Resting' = Resting \ {x}
    BY <1>3, CancelFacts
  <2> QED  BY <2>1, FS_RemoveElement DEF FiniteBook
<1>4. ASSUME NEW mark \in Marks, Rest(mark)  PROVE FiniteBook'
  BY <1>4, RestFacts, FS_AddElement DEF FiniteBook
<1>5. CASE \/ \E o \in ClientOrder : Submit(o)
           \/ StopMatching \/ DropResidual \/ Settle \/ Finish
           \/ \E price \in Prices : StpCancelIncoming(price)
  BY <1>5, QuietFacts DEF FiniteBook
<1>6. CASE UNCHANGED vars
  BY <1>6 DEF vars, FiniteBook, Resting, NodesOf
<1> QED  BY <1>1, <1>2, <1>3, <1>4, <1>5, <1>6 DEF EngineNext, Process, Iterate

LEMMA FiniteBookHolds ==
  ASSUME ReuseIds = FALSE  PROVE EngineSpec => []FiniteBook
<1>1. EngineInit => FiniteBook
  BY InitInv, FS_EmptySet DEF EngineInit, FiniteBook
<1>2. EngineInv /\ FiniteBook /\ [EngineNext]_vars => FiniteBook'
  BY StepFiniteBook
<1> QED  BY <1>1, <1>2, EngineInvHolds, PTL DEF EngineSpec

LEMMA StepAdvances ==
  ASSUME EngineInv, FiniteBook, ReuseIds = FALSE, EngineNext,
         phase = "matching", phase' = "matching"
  PROVE  Work' < Work
<1>1. Cardinality(Resting) \in Nat
  BY FS_CardinalityType DEF FiniteBook
<1>2. ASSUME NEW price \in Prices, Fill(price)  PROVE Work' < Work
  <2>1. /\ FiniteBook' /\ Cardinality(Resting') <= Cardinality(Resting)
        /\ incoming'.rem < incoming.rem /\ incoming'.rem \in Nat /\ incoming.rem \in Nat
    BY <1>2, FillCount
  <2>2. Cardinality(Resting') \in Nat
    BY <2>1, FS_CardinalityType DEF FiniteBook
  <2> QED  BY <1>1, <2>1, <2>2 DEF Work
<1>3. ASSUME NEW price \in Prices, StpCancelResting(price)  PROVE Work' < Work
  <2>1. incoming \in IncomingOrder /\ incoming' = incoming
    BY <1>3 DEF StpCancelResting, EngineInv, ProcessTypeOK
  <2>2. incoming.rem \in Nat
    BY <2>1 DEF IncomingOrder
  <2>3. FiniteBook' /\ Cardinality(Resting') < Cardinality(Resting)
    BY <1>3, OwnCount
  <2>4. Cardinality(Resting') \in Nat
    BY <2>3, FS_CardinalityType DEF FiniteBook
  <2> QED  BY <1>1, <2>1, <2>2, <2>3, <2>4 DEF Work
<1>4. CASE \/ \E price \in Prices : Fill(price)
           \/ \E price \in Prices : StpCancelResting(price)
  BY <1>2, <1>3, <1>4
<1>5. ASSUME ~ \E price \in Prices : Fill(price) \/ StpCancelResting(price)  PROVE FALSE
  BY <1>5 DEF EngineNext, Process, Iterate, Submit, Cancel, Rest, DropResidual, Settle, Finish,
              StopMatching, StpCancelIncoming, StpCancelBoth
<1> QED  BY <1>4, <1>5

(* For any book and any order: the loop of try_match cannot go on without    *)
(* taking lots from the order or an order from the book.                    *)
THEOREM EngineMatchingAdvances ==
  ASSUME ReuseIds = FALSE  PROVE EngineSpec => MatchingAdvances
<1>1. EngineInv /\ FiniteBook /\ [EngineNext]_vars =>
        [phase = "matching" /\ phase' = "matching" => Work' < Work]_vars
  BY StepAdvances
<1> QED  BY <1>1, EngineInvHolds, FiniteBookHolds, PTL DEF EngineSpec, MatchingAdvances

-----------------------------------------------------------------------------
(* Levels and best prices in terms of the resting orders. *)

(* A price is a key of a side exactly when an order rests there. *)
LEMMA LevelOfNode ==
  ASSUME BookInv, NEW side \in Sides, NEW p
  PROVE  p \in DOMAIN levels[side] <=> \E n \in Resting : n.side = side /\ n.price = p
<1>1. ASSUME NEW n \in Resting, n.side = side, n.price = p  PROVE p \in DOMAIN levels[side]
  BY <1>1, RestingInLevel DEF BookInv
<1>2. ASSUME p \in DOMAIN levels[side]
      PROVE  \E n \in Resting : n.side = side /\ n.price = p
  <2> DEFINE x == levels[side][p].orders[1]
  <2>1. GoodLevel(levels[side][p], side, p, inserted)
    BY <1>2 DEF BookInv, LevelsInv
  <2>2. 1 \in DOMAIN levels[side][p].orders
    BY <2>1 DEF GoodLevel, PriceLevel
  <2>3. x \in Node /\ x.side = side /\ x.price = p /\ x.node <= inserted
    BY <2>1, <2>2 DEF GoodLevel, PriceLevel
  <2>4. x \in Resting
    BY <1>2, <2>2, <2>3, RestingInLevel DEF BookInv
  <2> QED  BY <2>3, <2>4
<1> QED  BY <1>1, <1>2

LEMMA LevelsFinite ==
  ASSUME BookInv, FiniteBook, NEW side \in Sides
  PROVE  IsFiniteSet(DOMAIN levels[side]) /\ DOMAIN levels[side] \in SUBSET Nat
<1> DEFINE S == {n \in Resting : n.side = side}
           f == [n \in S |-> n.price]
<1>1. IsFiniteSet(S)
  BY FS_Subset DEF FiniteBook
<1>2. ASSUME NEW n \in Resting  PROVE n.price \in Nat
  BY RestingNode, NodeFields
<1>3. f \in [S -> Nat]
  BY <1>2
<1>4. /\ DOMAIN levels[side] \subseteq {f[n] : n \in S}
      /\ {f[n] : n \in S} \subseteq Nat
  <2>1. ASSUME NEW p \in DOMAIN levels[side]  PROVE p \in {f[n] : n \in S}
    <3>1. PICK n \in Resting : n.side = side /\ n.price = p
      BY LevelOfNode
    <3>2. n \in S /\ f[n] = p
      BY <3>1
    <3> QED  BY <3>2
  <2> QED  BY <1>3, <2>1
<1>5. IsFiniteSet({f[n] : n \in S})
  <2> HIDE DEF S, f
  <2> QED  BY <1>1, <1>3, FiniteImage
<1> HIDE DEF S, f
<1> QED  BY <1>4, <1>5, FS_Subset

(* So a side that is not empty has a best price. *)
LEMMA BestExists ==
  ASSUME BookInv, FiniteBook, NEW side \in Sides, DOMAIN levels[side] # {}
  PROVE  \E p \in BestPrices(side) : TRUE
<1>1. IsFiniteSet(DOMAIN levels[side]) /\ DOMAIN levels[side] \in SUBSET Nat
  BY LevelsFinite
<1>2. CASE side = "BUY"
  <2>1. \E m \in DOMAIN levels[side] : \A n \in DOMAIN levels[side] : n <= m
    BY <1>1, GreatestNat
  <2> QED  BY <1>1, <1>2, <2>1 DEF BestPrices, AtOrBetter
<1>3. CASE side = "SELL"
  <2>1. \E m \in DOMAIN levels[side] : \A n \in DOMAIN levels[side] : m <= n
    BY <1>1, SmallestNat
  <2> QED  BY <1>1, <1>3, <2>1 DEF BestPrices, AtOrBetter
<1> QED  BY <1>2, <1>3 DEF Sides

(* Each bid is below each ask, order by order. *)
Apart == \A m, n \in Resting : m.side = "BUY" /\ n.side = "SELL" => m.price < n.price

LEMMA UncrossedApart == BookInv /\ FiniteBook => (Uncrossed <=> Apart)
<1> SUFFICES ASSUME BookInv, FiniteBook  PROVE Uncrossed <=> Apart
  OBVIOUS
<1>1. \A side \in Sides : DOMAIN levels[side] \in SUBSET Nat
  BY LevelsFinite
<1>2. ASSUME Uncrossed, NEW m \in Resting, NEW n \in Resting, m.side = "BUY", n.side = "SELL"
      PROVE  m.price < n.price
  <2>1. m.price \in DOMAIN levels["BUY"] /\ n.price \in DOMAIN levels["SELL"]
    BY <1>2, LevelOfNode DEF Sides
  <2>2. PICK b \in BestPrices("BUY") : TRUE
    BY <2>1, BestExists DEF Sides
  <2>3. PICK a \in BestPrices("SELL") : TRUE
    BY <2>1, BestExists DEF Sides
  <2>4. b < a
    BY <1>2 DEF Uncrossed
  <2>5. b \in Nat /\ a \in Nat /\ m.price \in Nat /\ n.price \in Nat
    BY <1>1, <2>1 DEF BestPrices, Sides
  <2>6. m.price <= b /\ a <= n.price
    BY <2>1 DEF BestPrices, AtOrBetter
  <2> QED  BY <2>4, <2>5, <2>6
<1>3. ASSUME Apart, NEW b \in BestPrices("BUY"), NEW a \in BestPrices("SELL")
      PROVE  b < a
  <2>1. b \in DOMAIN levels["BUY"] /\ a \in DOMAIN levels["SELL"]
    BY DEF BestPrices
  <2>2. PICK m \in Resting : m.side = "BUY" /\ m.price = b
    BY <2>1, LevelOfNode DEF Sides
  <2>3. PICK n \in Resting : n.side = "SELL" /\ n.price = a
    BY <2>1, LevelOfNode DEF Sides
  <2> QED  BY <1>3, <2>2, <2>3 DEF Apart
<1> QED  BY <1>2, <1>3 DEF Uncrossed, Apart

(* Nothing on the other side is in reach of the order in hand. *)
OutOfReach ==
    \A p \in DOMAIN levels[Opposite(incoming.side)] :
        incoming.type # "MARKET" /\ ~AtOrBetter(Opposite(incoming.side), p, incoming.price)

LEMMA NotCrossing ==
  ASSUME BookInv, FiniteBook, NEW o \in IncomingOrder,
         ~Crosses(o.side, o.price, o.type = "MARKET")
  PROVE  \A p \in DOMAIN levels[Opposite(o.side)] :
           o.type # "MARKET" /\ ~AtOrBetter(Opposite(o.side), p, o.price)
<1> DEFINE side == Opposite(o.side)
<1>1. side \in Sides
  BY DEF Opposite, Sides
<1>2. SUFFICES ASSUME NEW p \in DOMAIN levels[side]
               PROVE  o.type # "MARKET" /\ ~AtOrBetter(side, p, o.price)
  OBVIOUS
<1>3. PICK best \in BestPrices(side) : TRUE
  BY <1>1, BestExists
<1>4. o.type # "MARKET" /\ ~AtOrBetter(side, best, o.price)
  BY DEF Crosses
<1>5. AtOrBetter(side, best, p) /\ best \in DOMAIN levels[side]
  BY DEF BestPrices
<1>6. best \in Nat /\ p \in Nat /\ o.price \in Nat
  <2>1. DOMAIN levels[side] \in SUBSET Nat
    BY <1>1, LevelsFinite
  <2>2. o.price \in Prices
    BY DEF IncomingOrder
  <2> QED  BY <1>5, <2>1, <2>2, BookAssumption
<1> HIDE DEF side
<1> QED  BY <1>4, <1>5, <1>6 DEF AtOrBetter
-----------------------------------------------------------------------------
(* When the book may come to cross. *)

(* The prices that clients send, and an impact band that none of them leaves. *)
SentPrices == {o.price : o \in ClientOrder}

BandWide ==
    \A p, best \in SentPrices :
        best > 0 => 100 * p <= best * (100 + BandPct) /\ 100 * p >= best * (100 - BandPct)

(* What the book and the thread hold are prices that clients sent. *)
SentInv ==
    /\ \A n \in Resting : n.price \in SentPrices
    /\ phase # "idle" => incoming.price \in SentPrices /\ incoming.reduce_only = FALSE
    /\ arrival_best \in SentPrices \cup {0}

(* An order that is left over with lots to fill has met no order it could     *)
(* still trade with, unless self-trade prevention cancelled it.               *)
ResidualFree ==
    phase = "residual" /\ incoming.rem > 0 /\ incoming.status # "CANCELLED" => OutOfReach

LEMMA SubmitSent ==
  ASSUME EngineInv, FiniteBook, SentInv, ReduceOnlyFlags \subseteq {FALSE},
         NEW o \in ClientOrder, Submit(o)
  PROVE  SentInv' /\ ResidualFree'
<1>1. /\ Resting' = Resting /\ levels' = levels /\ incoming' = o
      /\ arrival_best' \in ArrivalBest(o.side)
      /\ phase' = IF o.type = "POST_ONLY" THEN "residual" ELSE "matching"
      /\ ~RejectPostOnly(o)
  BY QuietFacts DEF Submit
<1>2. o \in IncomingOrder /\ o.reduce_only \in ReduceOnlyFlags
  BY BookAssumption DEF ClientOrder, IncomingOrder
<1>3. arrival_best' \in SentPrices \cup {0}
  <2>1. Opposite(o.side) \in Sides
    BY DEF Opposite, Sides
  <2>2. ASSUME NEW p \in DOMAIN levels[Opposite(o.side)]  PROVE p \in SentPrices
    <3>1. PICK n \in Resting : n.price = p
      BY <2>1, LevelOfNode DEF EngineInv
    <3> QED  BY <3>1 DEF SentInv
  <2> QED  BY <1>1, <2>2 DEF ArrivalBest, BestPrices
<1>4. SentInv'
  BY <1>1, <1>2, <1>3 DEF SentInv, SentPrices
<1>5. CASE o.type = "POST_ONLY"
  <2>1. ~Crosses(o.side, o.price, o.type = "MARKET")
    BY <1>1, <1>5 DEF RejectPostOnly
  <2>2. OutOfReach'
    BY <1>1, <1>2, <2>1, NotCrossing DEF OutOfReach, EngineInv
  <2> QED  BY <1>4, <2>2 DEF ResidualFree
<1>6. CASE o.type # "POST_ONLY"
  BY <1>1, <1>4, <1>6 DEF ResidualFree
<1> QED  BY <1>5, <1>6

LEMMA StopSent ==
  ASSUME EngineInv, FiniteBook, SentInv, BandWide, StopMatching
  PROVE  SentInv' /\ ResidualFree'
<1>1. /\ Resting' = Resting /\ levels' = levels /\ incoming' = incoming
      /\ arrival_best' = arrival_best /\ phase = "matching" /\ phase' = "residual"
  BY QuietFacts DEF StopMatching
<1>2. SentInv'
  BY <1>1 DEF SentInv
<1>3. SUFFICES ASSUME incoming.rem > 0  PROVE OutOfReach
  BY <1>1, <1>2 DEF ResidualFree, OutOfReach
<1>4. incoming \in IncomingOrder /\ incoming.reduce_only = FALSE
  BY <1>1 DEF EngineInv, ProcessTypeOK, SentInv
<1>5. MaxFill = incoming.rem
  BY <1>4 DEF MaxFill
<1>6. \A price \in Prices : ~Facing(price)
  BY <1>3, <1>4, <1>5 DEF StopMatching, IncomingOrder
<1>7. SUFFICES ASSUME Crosses(incoming.side, incoming.price, incoming.type = "MARKET")
               PROVE  FALSE
  BY <1>4, NotCrossing DEF OutOfReach, EngineInv
<1>8. PICK best \in BestPrices(Opposite(incoming.side)) :
        incoming.type = "MARKET" \/ AtOrBetter(Opposite(incoming.side), best, incoming.price)
  BY <1>7 DEF Crosses
<1>9. Opposite(incoming.side) \in Sides /\ best \in DOMAIN levels[Opposite(incoming.side)]
  BY DEF Opposite, Sides, BestPrices
<1>10. PICK n \in Resting : n.price = best
  BY <1>9, LevelOfNode DEF EngineInv
<1>11. best \in SentPrices /\ best \in Prices /\ best \in Nat
  <2>1. n \in Node
    BY NodeOfOne
  <2> QED  BY <1>10, <2>1, BookAssumption DEF SentInv, Node
<1>12. ~ViolatesImpactBand(best)
  <2>1. CASE arrival_best = 0
    BY <2>1 DEF ViolatesImpactBand
  <2>2. CASE arrival_best \in SentPrices
    <3>1. arrival_best \in Nat /\ BandPct \in Nat
      BY EngineAssumption, BookAssumption DEF EngineInv, ProcessTypeOK
    <3>2. arrival_best > 0 => /\ 100 * best <= arrival_best * (100 + BandPct)
                              /\ 100 * best >= arrival_best * (100 - BandPct)
      BY <1>11, <2>2 DEF BandWide
    <3> DEFINE high == arrival_best * (100 + BandPct)
               low  == arrival_best * (100 - BandPct)
    <3>3. high \in Int /\ low \in Int
      BY <3>1
    <3>4. arrival_best > 0 => 100 * best <= high /\ 100 * best >= low
      BY <3>2
    <3>5. ViolatesImpactBand(best) => arrival_best > 0 /\ (100 * best > high \/ 100 * best < low)
      BY DEF ViolatesImpactBand
    <3> HIDE DEF high, low
    <3> QED  BY <1>11, <3>3, <3>4, <3>5
  <2> QED  BY <2>1, <2>2 DEF SentInv
<1>13. Facing(best)
  BY <1>8, <1>12 DEF Facing
<1> QED  BY <1>6, <1>11, <1>13

(* The steps that leave orders where they are, or take some away. *)
LEMMA OtherSent ==
  ASSUME EngineInv, SentInv, ResidualFree, ReuseIds = FALSE,
         \/ \E price \in Prices :
              \/ Fill(price) \/ StpCancelIncoming(price)
              \/ StpCancelResting(price) \/ StpCancelBoth(price)
         \/ \E mark \in Marks : Rest(mark)
         \/ DropResidual \/ Settle \/ Finish
         \/ \E u \in Users, id \in OrderIds : Cancel(u, id)
  PROVE  SentInv' /\ ResidualFree'
<1>1. ASSUME NEW price \in Prices, Fill(price)  PROVE SentInv' /\ ResidualFree'
  <2> DEFINE x == Head1(price)
             q == FillQty(x)
             y == [x EXCEPT !.rem = @ - q]
  <2>1. /\ x \in Resting /\ x \in Node /\ q \in Nat \ {0} /\ q <= x.rem
        /\ incoming \in IncomingOrder /\ incoming' = [incoming EXCEPT !.rem = @ - q]
        /\ q = x.rem => Resting' = Resting \ {x}
        /\ q < x.rem => Resting' = (Resting \ {x}) \cup {y}
    BY <1>1, FillFacts
  <2>2. phase' = "matching" /\ phase = "matching" /\ arrival_best' = arrival_best
    BY <1>1 DEF Fill, Matching
  <2>3. incoming'.price = incoming.price /\ incoming'.reduce_only = incoming.reduce_only
    BY <2>1 DEF IncomingOrder
  <2>4. y.price = x.price /\ x.rem \in Nat
    BY <2>1 DEF Node
  <2> HIDE DEF x, q, y
  <2>5. \A n \in Resting' : n.price \in SentPrices
    <3>1. CASE q = x.rem
      BY <2>1, <3>1 DEF SentInv
    <3>2. CASE q < x.rem
      BY <2>1, <2>4, <3>2 DEF SentInv
    <3> QED  BY <2>1, <2>4, <3>1, <3>2
  <2> QED  BY <2>2, <2>3, <2>5 DEF SentInv, ResidualFree
<1>2. ASSUME NEW price \in Prices, StpCancelIncoming(price)  PROVE SentInv' /\ ResidualFree'
  <2>1. /\ Resting' = Resting /\ phase = "matching" /\ arrival_best' = arrival_best
        /\ incoming' = [incoming EXCEPT !.status = "CANCELLED"]
    BY <1>2, QuietFacts DEF StpCancelIncoming, Own, Matching
  <2>2. incoming \in IncomingOrder
    BY <2>1 DEF EngineInv, ProcessTypeOK
  <2>3. /\ incoming'.price = incoming.price /\ incoming'.reduce_only = incoming.reduce_only
        /\ incoming'.status = "CANCELLED"
    BY <2>1, <2>2 DEF IncomingOrder
  <2> QED  BY <2>1, <2>3 DEF SentInv, ResidualFree
<1>3. ASSUME NEW price \in Prices, StpCancelResting(price)  PROVE SentInv' /\ ResidualFree'
  <2>1. Resting' \subseteq Resting /\ phase = "matching"
    BY <1>3, OwnFacts
  <2>2. UNCHANGED <<phase, incoming, arrival_best>>
    BY <1>3 DEF StpCancelResting
  <2> QED  BY <2>1, <2>2 DEF SentInv, ResidualFree
<1>4. ASSUME NEW price \in Prices, StpCancelBoth(price)  PROVE SentInv' /\ ResidualFree'
  <2>1. Resting' \subseteq Resting /\ phase = "matching" /\ incoming \in IncomingOrder
    BY <1>4, OwnFacts
  <2>2. arrival_best' = arrival_best /\ incoming' = [incoming EXCEPT !.status = "CANCELLED"]
    BY <1>4 DEF StpCancelBoth
  <2>3. /\ incoming'.price = incoming.price /\ incoming'.reduce_only = incoming.reduce_only
        /\ incoming'.status = "CANCELLED"
    BY <2>1, <2>2 DEF IncomingOrder
  <2> QED  BY <2>1, <2>2, <2>3 DEF SentInv, ResidualFree
<1>5. ASSUME NEW mark \in Marks, Rest(mark)  PROVE SentInv' /\ ResidualFree'
  <2>1. /\ phase = "residual" /\ incoming \in IncomingOrder
        /\ Resting' = Resting \cup {NewNode(incoming)}
    BY <1>5, RestFacts
  <2>2. /\ arrival_best' = arrival_best /\ incoming' = [incoming EXCEPT !.status = "OPEN"]
        /\ phase' = "settling"
    BY <1>5 DEF Rest
  <2>3. incoming'.price = incoming.price /\ incoming'.reduce_only = incoming.reduce_only
    BY <2>1, <2>2 DEF IncomingOrder
  <2>4. NewNode(incoming).price = incoming.price
    BY DEF NewNode
  <2> QED  BY <2>1, <2>2, <2>3, <2>4 DEF SentInv, ResidualFree
<1>6. CASE DropResidual
  <2>1. /\ Resting' = Resting /\ phase = "residual" /\ phase' = "settling"
        /\ arrival_best' = arrival_best
        /\ \E s : incoming' = [incoming EXCEPT !.status = s]
    BY <1>6, QuietFacts DEF DropResidual
  <2>2. incoming \in IncomingOrder
    BY <2>1 DEF EngineInv, ProcessTypeOK
  <2>3. incoming'.price = incoming.price /\ incoming'.reduce_only = incoming.reduce_only
    BY <2>1, <2>2 DEF IncomingOrder
  <2> QED  BY <2>1, <2>3 DEF SentInv, ResidualFree
<1>7. CASE Settle
  BY <1>7, QuietFacts DEF Settle, SentInv, ResidualFree
<1>8. CASE Finish
  BY <1>8, QuietFacts DEF Finish, SentInv, ResidualFree
<1>9. ASSUME NEW u \in Users, NEW id \in OrderIds, Cancel(u, id)
      PROVE  SentInv' /\ ResidualFree'
  <2>1. Resting' \subseteq Resting
    BY <1>9, CancelFacts
  <2>2. phase = "idle" /\ UNCHANGED <<phase, incoming, arrival_best>>
    BY <1>9 DEF Cancel, processVars
  <2> QED  BY <2>1, <2>2 DEF SentInv, ResidualFree
<1> QED  BY <1>1, <1>2, <1>3, <1>4, <1>5, <1>6, <1>7, <1>8, <1>9

LEMMA SentInvHolds ==
  ASSUME ReuseIds = FALSE, ReduceOnlyFlags \subseteq {FALSE}, BandWide
  PROVE  EngineSpec => [](SentInv /\ ResidualFree)
<1>1. EngineInit => SentInv /\ ResidualFree
  BY InitInv DEF EngineInit, SentInv, ResidualFree
<1>2. EngineInv /\ FiniteBook /\ SentInv /\ ResidualFree /\ [EngineNext]_vars
        => (SentInv /\ ResidualFree)'
  <2>1. CASE UNCHANGED vars
    BY <2>1 DEF vars, SentInv, ResidualFree, OutOfReach, Resting, NodesOf
  <2> QED  BY <2>1, SubmitSent, StopSent, OtherSent DEF EngineNext, Process, Iterate
<1> QED  BY <1>1, <1>2, EngineInvHolds, FiniteBookHolds, PTL DEF EngineSpec

(* Fills and removals never bring a bid to an ask, and an order that rests    *)
(* does only when self-trade prevention had cancelled it.                     *)
LEMMA StepApart ==
  ASSUME EngineInv, SentInv, ResidualFree, ReuseIds = FALSE, EngineNext, Apart, ~Apart'
  PROVE  inserted' > inserted /\ incoming.status = "CANCELLED"
<1>1. ASSUME NEW price \in Prices, Fill(price)  PROVE FALSE
  <2> DEFINE x == Head1(price)
             q == FillQty(x)
             y == [x EXCEPT !.rem = @ - q]
  <2>1. /\ x \in Resting /\ x \in Node /\ q \in Nat \ {0} /\ q <= x.rem
        /\ q = x.rem => Resting' = Resting \ {x}
        /\ q < x.rem => Resting' = (Resting \ {x}) \cup {y}
    BY <1>1, FillFacts
  <2>2. y.price = x.price /\ y.side = x.side /\ x.rem \in Nat
    BY <2>1 DEF Node
  <2> HIDE DEF x, q, y
  <2>3. \A n \in Resting' : \E m \in Resting : m.side = n.side /\ m.price = n.price
    <3>1. CASE q = x.rem
      BY <2>1, <3>1
    <3>2. CASE q < x.rem
      BY <2>1, <2>2, <3>2
    <3> QED  BY <2>1, <2>2, <3>1, <3>2
  <2> QED  BY <2>3 DEF Apart
<1>2. ASSUME Resting' \subseteq Resting  PROVE FALSE
  BY <1>2 DEF Apart
<1>3. ASSUME NEW price \in Prices, StpCancelResting(price) \/ StpCancelBoth(price)
      PROVE  FALSE
  BY <1>2, <1>3, OwnFacts
<1>4. ASSUME NEW u \in Users, NEW id \in OrderIds, Cancel(u, id)  PROVE FALSE
  BY <1>2, <1>4, CancelFacts
<1>5. CASE \/ \E o \in ClientOrder : Submit(o)
           \/ StopMatching \/ DropResidual \/ Settle \/ Finish
           \/ \E price \in Prices : StpCancelIncoming(price)
  BY <1>2, <1>5, QuietFacts
<1>6. ASSUME NEW mark \in Marks, Rest(mark)
      PROVE  inserted' > inserted /\ incoming.status = "CANCELLED"
  <2>1. /\ phase = "residual" /\ incoming \in IncomingOrder /\ incoming.rem \in Nat \ {0}
        /\ Resting' = Resting \cup {NewNode(incoming)} /\ inserted' = inserted + 1
    BY <1>6, RestFacts
  <2>2. inserted \in Nat
    BY DEF EngineInv, BookInv, LevelsInv
  <2>3. ASSUME OutOfReach  PROVE Apart'
    <3> DEFINE z == NewNode(incoming)
    <3>1. /\ z.side = incoming.side /\ z.price = incoming.price
          /\ incoming.side \in Sides /\ incoming.price \in Nat
      BY <2>1, BookAssumption DEF NewNode, IncomingOrder
    <3>2. ASSUME NEW n \in Resting, n.side = Opposite(z.side)
          PROVE  ~AtOrBetter(n.side, n.price, z.price) /\ n.price \in Nat
      <4>1. n.price \in DOMAIN levels[n.side] /\ n.price \in Nat
        <5>1. n \in Node
          BY NodeOfOne
        <5> QED  BY <5>1, LevelOfNode, BookAssumption DEF Node, EngineInv
      <4> QED  BY <2>3, <3>1, <3>2, <4>1 DEF OutOfReach
    <3> HIDE DEF z
    <3>3. SUFFICES ASSUME NEW m \in Resting \cup {z}, NEW n \in Resting \cup {z},
                          m.side = "BUY", n.side = "SELL"
                   PROVE  m.price < n.price
      BY <2>1 DEF Apart, z
    <3>4. CASE m = z
      <4>1. n \in Resting /\ n.side = Opposite(z.side)
        BY <3>3, <3>4 DEF Opposite
      <4> QED  BY <3>1, <3>2, <3>3, <3>4, <4>1 DEF AtOrBetter
    <3>5. CASE n = z
      <4>1. m \in Resting /\ m.side = Opposite(z.side)
        BY <3>3, <3>5 DEF Opposite
      <4> QED  BY <3>1, <3>2, <3>3, <3>5, <4>1 DEF AtOrBetter
    <3>6. CASE m \in Resting /\ n \in Resting
      BY <3>3, <3>6 DEF Apart
    <3> QED  BY <3>4, <3>5, <3>6
  <2>4. ~OutOfReach
    BY <2>3
  <2> QED  BY <2>1, <2>2, <2>4 DEF ResidualFree
<1> QED  BY <1>1, <1>3, <1>4, <1>5, <1>6 DEF EngineNext, Process, Iterate

(* For any book and any prices inside one band, when nobody sends reduce-only *)
(* orders: the best bid reaches the best ask only by an order that self-trade *)
(* prevention cancelled and that comes to rest all the same.                  *)
THEOREM EngineCrossedOnlyByCancelled ==
  ASSUME ReuseIds = FALSE, ReduceOnlyFlags \subseteq {FALSE}, BandWide
  PROVE  EngineSpec => CrossedOnlyByCancelled
<1>1. EngineInv /\ SentInv /\ ResidualFree /\ [EngineNext]_vars =>
        [Apart /\ ~Apart' => inserted' > inserted /\ incoming.status = "CANCELLED"]_vars
  BY StepApart
<1>2. EngineInv /\ FiniteBook => (Uncrossed <=> Apart)
  BY UncrossedApart DEF EngineInv
<1>3. EngineInv' /\ FiniteBook' => (Uncrossed' <=> Apart')
  BY <1>2, PTL
<1>4. EngineInv /\ EngineInv' /\ FiniteBook /\ FiniteBook' /\ SentInv /\ ResidualFree
        /\ [EngineNext]_vars =>
      [Uncrossed /\ ~Uncrossed' => inserted' > inserted /\ incoming.status = "CANCELLED"]_vars
  BY <1>1, <1>2, <1>3
<1> QED  BY <1>4, EngineInvHolds, FiniteBookHolds, SentInvHolds, PTL
         DEF EngineSpec, CrossedOnlyByCancelled
-----------------------------------------------------------------------------
(* The engine implements PriceTimeExchange, step by step. *)

Taker == IF Taking THEN OrderOf(incoming) ELSE [none |-> TRUE]

Tape == IF Taking THEN [i \in DOMAIN trades |-> TapeOf(trades[i])] ELSE <<>>

ExchangeStep == [Exchange!Next]_(Exchange!exchangeVars)

(* Between two orders no trade is left to settle, and the orders without a  *)
(* price are the MARKET orders.                                             *)
HandInv ==
    /\ phase = "idle" => trades = <<>>
    /\ phase # "idle" => (incoming.type = "MARKET") = (incoming.price = 0)

LEMMA StepHand ==
  ASSUME EngineInv, HandInv, [EngineNext]_vars
  PROVE  HandInv'
<1>1. ASSUME NEW o \in ClientOrder, Submit(o)  PROVE HandInv'
  <2>1. incoming' = o /\ (o.type = "MARKET") = (o.price = 0) /\ phase' # "idle"
    BY <1>1 DEF Submit, ClientOrder
  <2> QED  BY <2>1 DEF HandInv
<1>2. ASSUME NEW price \in Prices, Fill(price)  PROVE HandInv'
  <2>1. /\ phase = "matching" /\ phase' = phase /\ incoming \in IncomingOrder
        /\ \E q : incoming' = [incoming EXCEPT !.rem = @ - q]
    BY <1>2, FillFacts
  <2> QED  BY <2>1 DEF HandInv, IncomingOrder
<1>3. ASSUME NEW price \in Prices, StpCancelIncoming(price) \/ StpCancelBoth(price)
      PROVE  HandInv'
  <2>1. /\ phase = "matching" /\ phase' = "residual"
        /\ incoming' = [incoming EXCEPT !.status = "CANCELLED"]
    BY <1>3 DEF StpCancelIncoming, StpCancelBoth, Own, Matching
  <2>2. incoming \in IncomingOrder
    BY <2>1 DEF EngineInv, ProcessTypeOK
  <2> QED  BY <2>1, <2>2 DEF HandInv, IncomingOrder
<1>4. ASSUME NEW price \in Prices, StpCancelResting(price)  PROVE HandInv'
  BY <1>4 DEF StpCancelResting, HandInv
<1>5. ASSUME NEW mark \in Marks, Rest(mark)  PROVE HandInv'
  <2>1. /\ incoming \in IncomingOrder /\ phase = "residual" /\ phase' = "settling"
        /\ incoming' = [incoming EXCEPT !.status = "OPEN"]
    BY <1>5, RestFacts DEF Rest
  <2> QED  BY <2>1 DEF HandInv, IncomingOrder
<1>6. CASE DropResidual
  <2>1. /\ phase = "residual" /\ phase' = "settling"
        /\ \E s : incoming' = [incoming EXCEPT !.status = s]
    BY <1>6 DEF DropResidual
  <2>2. incoming \in IncomingOrder
    BY <2>1 DEF EngineInv, ProcessTypeOK
  <2> QED  BY <2>1, <2>2 DEF HandInv, IncomingOrder
<1>7. CASE StopMatching \/ Settle \/ Finish
  BY <1>7 DEF StopMatching, Settle, Finish, HandInv
<1>8. ASSUME NEW u \in Users, NEW id \in OrderIds, Cancel(u, id)  PROVE HandInv'
  BY <1>8 DEF Cancel, processVars, HandInv
<1>9. CASE UNCHANGED vars
  BY <1>9 DEF vars, HandInv
<1> QED  BY <1>1, <1>2, <1>3, <1>4, <1>5, <1>6, <1>7, <1>8, <1>9
         DEF EngineNext, Process, Iterate

LEMMA HandInvHolds == EngineSpec => []HandInv
<1>1. EngineInit => HandInv
  BY DEF EngineInit, HandInv
<1>2. EngineInv /\ HandInv /\ [EngineNext]_vars => HandInv'
  BY StepHand
<1> QED  BY <1>1, <1>2, EngineInvHolds, PTL DEF EngineSpec

LEMMA TakerIsAnOrder ==
  ASSUME NEW n
  PROVE  OrderOf(n) # [none |-> TRUE]
<1>1. "none" \notin DOMAIN OrderOf(n)
  BY DEF OrderOf
<1>2. "none" \in DOMAIN [none |-> TRUE]
  OBVIOUS
<1> QED  BY <1>1, <1>2

(* What the exchange sees when the book, the taker and the tape stay. *)
LEMMA Stutters ==
  ASSUME Resting' = Resting, inserted' = inserted, Taker' = Taker, Tape' = Tape
  PROVE  ExchangeStep
BY DEF ExchangeStep, Exchange!exchangeVars, Taker, Tape

LEMMA TapeGrows ==
  ASSUME NEW s \in Seq(Trade), NEW t \in Trade
  PROVE  [i \in DOMAIN Append(s, t) |-> TapeOf(Append(s, t)[i])]
           = Append([i \in DOMAIN s |-> TapeOf(s[i])], TapeOf(t))
OBVIOUS

(* The order that faces the taker is the one price-time priority puts first. *)
LEMMA HeadIsFirst ==
  ASSUME EngineInv, FiniteBook, NEW price \in Prices, Fill(price)
  PROVE  Exchange!First(Stamp(Head1(price)))
<1> DEFINE x    == Head1(price)
           side == Opposite(incoming.side)
<1>1. /\ x \in Resting /\ x.side = side /\ x.price = price /\ side \in Sides
      /\ \A y \in Resting : y.side = side /\ y.price = price => x.node <= y.node
  BY FillFacts
<1>2. price \in BestPrices(side)
  BY DEF Fill, Matching, Facing
<1> HIDE DEF x, side
<1>3. ASSUME NEW n \in Resting, n.side = side
      PROVE  ~Exchange!Better(side, n.price, price)
  <2>1. n.price \in DOMAIN levels[side] /\ DOMAIN levels[side] \in SUBSET Nat
    BY <1>1, <1>3, LevelOfNode, LevelsFinite DEF EngineInv
  <2>2. AtOrBetter(side, price, n.price) /\ price \in DOMAIN levels[side]
    BY <1>2, <2>1 DEF BestPrices
  <2>3. n.price \in Nat /\ price \in Nat
    BY <2>1, <2>2
  <2> QED  BY <2>2, <2>3 DEF Exchange!Better, AtOrBetter
<1>4. ASSUME NEW n \in Resting, Stamp(n).order.side = Stamp(x).order.side
      PROVE  /\ ~Exchange!Better(Stamp(x).order.side, Stamp(n).order.price, Stamp(x).order.price)
             /\ Stamp(n).order.price = Stamp(x).order.price => Stamp(x).stamp <= Stamp(n).stamp
  <2>1. n.side = side
    BY <1>1, <1>4, StampFacts
  <2> QED  BY <1>1, <1>3, <2>1, StampFacts
<1> QED  BY <1>4 DEF Exchange!First, Stamp, x
LEMMA FillTrades ==
  ASSUME EngineInv, FiniteBook, HandInv, NEW price \in Prices, Fill(price)
  PROVE  ExchangeStep
<1> DEFINE x == Head1(price)
           q == FillQty(x)
           m == Stamp(x)
<1>1. /\ phase = "matching" /\ phase' = phase /\ incoming \in IncomingOrder
      /\ x \in Resting /\ x \in Node /\ x.user # incoming.user
      /\ x.side = Opposite(incoming.side) /\ x.price = price
      /\ q \in Nat \ {0} /\ q <= x.rem /\ incoming.rem - q \in Nat
      /\ trades' = Append(trades, TradeOf(x, q)) /\ TradeOf(x, q) \in Trade
      /\ incoming' = [incoming EXCEPT !.rem = @ - q] /\ inserted' = inserted
      /\ q = x.rem => Resting' = Resting \ {x}
      /\ q < x.rem => Resting' = (Resting \ {x}) \cup {[x EXCEPT !.rem = @ - q]}
  BY FillFacts
<1>2. Exchange!First(m)
  BY HeadIsFirst
<1>3. Facing(price)
  BY DEF Fill, Matching
<1> HIDE DEF x, q
<1>4. Stamped' = (Stamped \ {m}) \cup
        (IF q = x.rem THEN {} ELSE {[m EXCEPT !.order.rem = @ - q]})
  BY <1>1, StampTaken DEF EngineInv
<1>5. /\ m.order.side = x.side /\ m.order.user = x.user /\ m.order.price = price
      /\ m.order.rem = x.rem /\ m \in Stamped /\ x.rem \in Nat /\ x.side \in Sides
  BY <1>1, StampFacts DEF Stamped, Node
<1> HIDE DEF m
<1>6. Taking /\ Taking' /\ Taker = OrderOf(incoming) /\ Taker # [none |-> TRUE]
  BY <1>1, TakerIsAnOrder DEF Taking, Taker
<1>7. /\ Taker.side = incoming.side /\ Taker.user = incoming.user
      /\ Taker.price = incoming.price /\ Taker.rem = incoming.rem
  BY <1>6 DEF OrderOf
<1>8. Taker' = [Taker EXCEPT !.rem = @ - q]
  BY <1>1, <1>6 DEF Taker, OrderOf, IncomingOrder
<1>9. Tape' = Append(Tape, [maker |-> m.order.user, price |-> m.order.price, qty |-> q])
  <2>1. incoming'.side = incoming.side
    BY <1>1 DEF IncomingOrder
  <2>2. Tape' = [i \in DOMAIN Append(trades, TradeOf(x, q)) |->
                   TapeOf(Append(trades, TradeOf(x, q))[i])]
    BY <1>1, <1>6, <2>1 DEF Tape, TapeOf
  <2>3. Tape = [i \in DOMAIN trades |-> TapeOf(trades[i])] /\ trades \in Seq(Trade)
    BY <1>6 DEF Tape, EngineInv, ProcessTypeOK
  <2>4. Tape' = Append(Tape, TapeOf(TradeOf(x, q)))
    BY <1>1, <2>2, <2>3, TapeGrows
  <2>5. TapeOf(TradeOf(x, q)) = [maker |-> x.user, price |-> price, qty |-> q]
    BY <1>1 DEF TapeOf, TradeOf
  <2> QED  BY <1>5, <2>4, <2>5
<1>10. Exchange!WithinLimit(Taker, m.order.price)
  <2>1. \/ incoming.price = 0
        \/ AtOrBetter(Opposite(incoming.side), price, incoming.price)
    BY <1>1, <1>3 DEF Facing, HandInv
  <2>2. incoming.side \in Sides
    BY <1>1 DEF IncomingOrder
  <2> QED  BY <1>5, <1>7, <2>1, <2>2
           DEF Exchange!WithinLimit, AtOrBetter, Opposite, Sides
<1>11. m.order.side # Taker.side /\ m.order.user # Taker.user
  BY <1>1, <1>5, <1>7 DEF Opposite, IncomingOrder, Sides
<1>12. q <= Taker.rem /\ q <= m.order.rem /\ q \in 1..m.order.rem
  BY <1>1, <1>5, <1>7 DEF IncomingOrder
<1>13. PICK r : r = m
  OBVIOUS
<1>14. PICK k \in 1..r.order.rem : k = q
  BY <1>12, <1>13
<1>15. Exchange!Trade(r, k)
  BY <1>1, <1>2, <1>4, <1>5, <1>6, <1>8, <1>9, <1>10, <1>11, <1>12, <1>13, <1>14
     DEF Exchange!Trade, Exchange!Idle, Exchange!NoTaker, Taker, Tape, Stamped, Stamp
<1>16. r \in {[order |-> OrderOf(n), stamp |-> n.node] : n \in Resting}
  BY <1>5, <1>13 DEF Stamped, Stamp
<1>17. Exchange!Next
  BY <1>14, <1>15, <1>16 DEF Exchange!Next
<1> QED  BY <1>17 DEF ExchangeStep

(* An order that leaves untraded while the taker and its tape stay. *)
LEMMA Withdraws ==
  ASSUME EngineInv, NEW x \in Resting, Resting' = Resting \ {x}, inserted' = inserted,
         Taker' = Taker, Tape' = Tape, Taking => x.user = incoming.user
  PROVE  ExchangeStep
<1>1. Stamped' = Stamped \ {Stamp(x)} /\ Stamp(x) \in Stamped
  BY StampRemoved DEF Stamped, EngineInv
<1>2. ~Taking => Taker = [none |-> TRUE]
  BY DEF Taker
<1>3. Taking => Stamp(x).order.user = Taker.user
  BY StampFacts DEF Taker, OrderOf
<1>4. Exchange!Withdraw(Stamp(x))
  BY <1>1, <1>2, <1>3
     DEF Exchange!Withdraw, Exchange!Idle, Exchange!NoTaker, Taker, Tape, Stamped, Stamp
<1> QED  BY <1>1, <1>4 DEF ExchangeStep, Exchange!Next, Stamped, Stamp

LEMMA SubmitAccepts ==
  ASSUME EngineInv, HandInv, NEW o \in ClientOrder, Submit(o)
  PROVE  ExchangeStep
<1>1. /\ Resting' = Resting /\ inserted' = inserted /\ incoming' = o /\ trades' = trades
      /\ phase = "idle" /\ phase' \in {"matching", "residual"}
  BY QuietFacts DEF Submit
<1>2. OrderOf(o) \in BookOrder
  BY DEF ClientOrder, OrderOf, BookOrder
<1>3. Taker = [none |-> TRUE] /\ Taker' = OrderOf(o)
  BY <1>1 DEF Taker, Taking
<1>4. Tape' = <<>>
  <2>1. trades' = <<>>
    BY <1>1 DEF HandInv
  <2> QED  BY <1>1, <2>1 DEF Tape, Taking
<1>5. Stamped' = Stamped
  BY <1>1 DEF Stamped
<1>6. Exchange!Accept(OrderOf(o))
  BY <1>1, <1>3, <1>4, <1>5
     DEF Exchange!Accept, Exchange!Idle, Exchange!NoTaker, Taker, Tape, Stamped, Stamp
<1> QED  BY <1>2, <1>6 DEF ExchangeStep, Exchange!Next

(* The taker and the tape of a step that changes only the taker's status. *)
LEMMA StatusOnly ==
  ASSUME incoming \in IncomingOrder, Taking, Taking', trades' = trades,
         NEW s, incoming' \in {incoming, [incoming EXCEPT !.status = s]}
  PROVE  Taker' = Taker /\ Tape' = Tape
<1>1. OrderOf(incoming)' = OrderOf(incoming) /\ incoming'.side = incoming.side
  BY DEF OrderOf, IncomingOrder
<1> QED  BY <1>1 DEF Taker, Tape, TapeOf

LEMMA EndLeaves ==
  ASSUME Taking, ~Taking', UNCHANGED bookVars
  PROVE  ExchangeStep
<1>1. Stamped' = Stamped /\ inserted' = inserted
  BY DEF Stamped, bookVars, Resting, NodesOf
<1>2. Taker # [none |-> TRUE] /\ Taker' = [none |-> TRUE] /\ Tape' = <<>>
  BY TakerIsAnOrder DEF Taker, Tape
<1>3. Exchange!Leave
  BY <1>1, <1>2
     DEF Exchange!Leave, Exchange!Idle, Exchange!NoTaker, Taker, Tape, Stamped, Stamp
<1> QED  BY <1>3 DEF ExchangeStep, Exchange!Next

LEMMA RestRests ==
  ASSUME EngineInv, NEW mark \in Marks, Rest(mark)
  PROVE  ExchangeStep
<1>1. /\ phase = "residual" /\ incoming \in IncomingOrder /\ incoming.rem \in Nat \ {0}
      /\ Resting' = Resting \cup {NewNode(incoming)} /\ inserted' = inserted + 1
      /\ phase' = "settling"
  BY RestFacts DEF Rest
<1>2. /\ Taker = OrderOf(incoming) /\ Taker # [none |-> TRUE] /\ Taker.rem = incoming.rem
      /\ Taker' = [none |-> TRUE] /\ Tape' = <<>>
  BY <1>1, TakerIsAnOrder DEF Taker, Tape, Taking, OrderOf
<1>3. Stamp(NewNode(incoming)) = [order |-> Taker, stamp |-> inserted + 1]
  BY <1>2 DEF Stamp, OrderOf, NewNode
<1>4. Stamped' = Stamped \cup {[order |-> Taker, stamp |-> inserted + 1]}
  BY <1>1, <1>3 DEF Stamped
<1>5. Exchange!RestTaker
  BY <1>1, <1>2, <1>4
     DEF Exchange!RestTaker, Exchange!Idle, Exchange!NoTaker, Taker, Tape, Stamped, Stamp
<1> QED  BY <1>5 DEF ExchangeStep, Exchange!Next

LEMMA StepExchanges ==
  ASSUME EngineInv, FiniteBook, HandInv, ReuseIds = FALSE, [EngineNext]_vars
  PROVE  ExchangeStep
<1>1. ASSUME NEW o \in ClientOrder, Submit(o)  PROVE ExchangeStep
  BY <1>1, SubmitAccepts
<1>2. ASSUME NEW price \in Prices, Fill(price)  PROVE ExchangeStep
  BY <1>2, FillTrades
<1>3. ASSUME NEW price \in Prices, StpCancelResting(price) \/ StpCancelBoth(price)
      PROVE  ExchangeStep
  <2>1. /\ phase = "matching" /\ incoming \in IncomingOrder
        /\ Head1(price) \in Resting /\ Head1(price).user = incoming.user
        /\ Resting' = Resting \ {Head1(price)} /\ inserted' = inserted
    BY <1>3, OwnFacts
  <2>2. /\ phase' \in {"matching", "residual"} /\ trades' = trades
        /\ incoming' \in {incoming, [incoming EXCEPT !.status = "CANCELLED"]}
    BY <1>3, <2>1 DEF StpCancelResting, StpCancelBoth
  <2>3. Taker' = Taker /\ Tape' = Tape
    BY <2>1, <2>2, StatusOnly DEF Taking
  <2> QED  BY <2>1, <2>3, Withdraws
<1>4. CASE StopMatching \/ \E price \in Prices : StpCancelIncoming(price)
  <2>1. /\ Resting' = Resting /\ inserted' = inserted /\ trades' = trades
        /\ phase = "matching" /\ phase' = "residual"
        /\ incoming' \in {incoming, [incoming EXCEPT !.status = "CANCELLED"]}
    BY <1>4, QuietFacts DEF StopMatching, StpCancelIncoming, Own, Matching
  <2>2. incoming \in IncomingOrder
    BY <2>1 DEF EngineInv, ProcessTypeOK
  <2>3. Taker' = Taker /\ Tape' = Tape
    BY <2>1, <2>2, StatusOnly DEF Taking
  <2> QED  BY <2>1, <2>3, Stutters
<1>5. CASE DropResidual
  BY <1>5, EndLeaves, QuietFacts DEF DropResidual, Taking
<1>6. ASSUME NEW mark \in Marks, Rest(mark)  PROVE ExchangeStep
  BY <1>6, RestRests
<1>7. CASE Settle \/ Finish
  <2>1. Resting' = Resting /\ inserted' = inserted /\ ~Taking /\ ~Taking'
    BY <1>7, QuietFacts DEF Settle, Finish, Taking
  <2>2. Taker' = Taker /\ Tape' = Tape
    BY <2>1 DEF Taker, Tape
  <2> QED  BY <2>1, <2>2, Stutters
<1>8. ASSUME NEW u \in Users, NEW id \in OrderIds, Cancel(u, id)  PROVE ExchangeStep
  <2>1. PICK x \in Resting : Resting' = Resting \ {x} /\ inserted' = inserted
    BY <1>8, CancelFacts
  <2>2. ~Taking /\ ~Taking'
    BY <1>8 DEF Cancel, Taking, processVars
  <2>3. Taker' = Taker /\ Tape' = Tape
    BY <2>2 DEF Taker, Tape
  <2> QED  BY <2>1, <2>2, <2>3, Withdraws
<1>9. CASE UNCHANGED vars
  <2>1. Resting' = Resting /\ inserted' = inserted /\ Taker' = Taker /\ Tape' = Tape
    BY <1>9 DEF vars, Resting, NodesOf, Taker, Tape, TapeOf, Taking
  <2> QED  BY <2>1, Stutters
<1> QED  BY <1>1, <1>2, <1>3, <1>4, <1>5, <1>6, <1>7, <1>8, <1>9
         DEF EngineNext, Process, Iterate

(* For any orders, users, prices, sizes and margin rates, with ids unique     *)
(* among resting orders: every behaviour of the engine is one of the         *)
(* price-time exchange.                                                      *)
THEOREM EngineImplementsExchange ==
  ASSUME ReuseIds = FALSE  PROVE EngineSpec => ImplementsExchange
<1>1. EngineInit => Exchange!Init
  <2>1. EngineInit => Resting = {} /\ inserted = 0 /\ ~Taking
    BY InitInv DEF EngineInit, Init, Taking
  <2> QED  BY <2>1 DEF Exchange!Init, Exchange!NoTaker
<1>2. EngineInv /\ FiniteBook /\ HandInv /\ [EngineNext]_vars
        => [Exchange!Next]_(Exchange!exchangeVars)
  BY StepExchanges DEF ExchangeStep
<1> QED  BY <1>1, <1>2, EngineInvHolds, FiniteBookHolds, HandInvHolds, PTL
         DEF EngineSpec, ImplementsExchange, Exchange!Spec
-----------------------------------------------------------------------------
(* The reserved margin covers the open orders. *)

FiniteOrders == \A u \in Users : IsFiniteSet(DOMAIN open_orders[u])

(* The rate does not grow, and no order is reserved at a mark price. *)
ConstantRate == ImfFactor = 0 /\ "MARKET" \notin Types

MarginsKept ==
    /\ FiniteOrders'
    /\ MarginCovers => MarginCovers'
    /\ ConstantRate /\ MarginExact => MarginExact'

LEMMA AccountOrders ==
  ASSUME EngineInv, UniqueIds, FiniteOrders, NEW u \in Users
  PROVE  /\ GoodOrders(open_orders[u])
         /\ OrdersMargin(u) = SumFunction(Margins(open_orders[u]))
         /\ open_order_margin[u] \in Nat
         /\ \A n \in Resting : n.user = u =>
              /\ n.id \in DOMAIN open_orders[u]
              /\ open_orders[u][n.id].rem = n.rem /\ open_orders[u][n.id].price = n.price
<1>1. \A n \in Resting : n.user = u =>
        n.id \in DOMAIN open_orders[u] /\ open_orders[u][n.id] = OpenOrderOfNode(n)
  BY DEF UniqueIds, OpenOrdersMirror
<1>2. ASSUME NEW id \in DOMAIN open_orders[u]
      PROVE  open_orders[u][id].rem \in Nat /\ open_orders[u][id].price \in Nat
  <2>1. PICK n \in Resting : n.user = u /\ n.id = id
    BY DEF UniqueIds, OpenOrdersMirror
  <2>2. n.rem \in Nat /\ n.price \in Nat
    BY NodeOfOne, NodeFields
  <2>3. open_orders[u][id] = OpenOrderOfNode(n)
    BY <1>1, <2>1
  <2> QED  BY <2>2, <2>3 DEF OpenOrderOfNode
<1>3. OrdersMargin(u) = SumFunction(Margins(open_orders[u]))
  BY DEF OrdersMargin, Margins
<1>4. open_order_margin[u] \in Nat
  BY DEF EngineInv, AccountTypeOK
<1>5. GoodOrders(open_orders[u])
  BY <1>2 DEF GoodOrders, FiniteOrders
<1>6. ASSUME NEW n \in Resting, n.user = u
      PROVE  /\ n.id \in DOMAIN open_orders[u]
             /\ open_orders[u][n.id].rem = n.rem /\ open_orders[u][n.id].price = n.price
  <2>1. n.id \in DOMAIN open_orders[u] /\ open_orders[u][n.id] = OpenOrderOfNode(n)
    BY <1>1, <1>6
  <2> QED  BY <2>1 DEF OpenOrderOfNode
<1> QED  BY <1>3, <1>4, <1>5, <1>6

(* The account of one user changes, and the sum with it. *)
LEMMA OneAccount ==
  ASSUME EngineInv, UniqueIds, FiniteOrders, NEW u \in Users,
         \A v \in Users : v # u => /\ open_orders'[v] = open_orders[v]
                                   /\ open_order_margin'[v] = open_order_margin[v],
         GoodOrders(open_orders'[u]),
         LET s == SumFunction(Margins(open_orders[u]))
             t == SumFunction(Margins(open_orders'[u]))
         IN  /\ open_order_margin[u] >= s => open_order_margin'[u] >= t
             /\ ConstantRate /\ open_order_margin[u] = s => open_order_margin'[u] = t
  PROVE  MarginsKept
<1>1. FiniteOrders'
  BY DEF FiniteOrders, GoodOrders
<1>2. \A v \in Users : OrdersMargin(v) = SumFunction(Margins(open_orders[v]))
  BY DEF OrdersMargin, Margins
<1>3. \A v \in Users : OrdersMargin(v)' = SumFunction(Margins(open_orders'[v]))
  BY DEF OrdersMargin, Margins
<1>4. ASSUME MarginCovers, NEW v \in Users  PROVE open_order_margin'[v] >= OrdersMargin(v)'
  <2>1. open_order_margin[v] >= SumFunction(Margins(open_orders[v]))
    BY <1>2, <1>4 DEF MarginCovers
  <2>2. CASE v = u
    BY <1>3, <2>1, <2>2
  <2>3. CASE v # u
    BY <1>3, <2>1, <2>3
  <2> QED  BY <2>2, <2>3
<1>5. ASSUME ConstantRate, MarginExact, NEW v \in Users
      PROVE  open_order_margin'[v] = OrdersMargin(v)'
  <2>1. open_order_margin[v] = SumFunction(Margins(open_orders[v]))
    BY <1>2, <1>5 DEF MarginExact
  <2>2. CASE v = u
    BY <1>3, <1>5, <2>1, <2>2
  <2>3. CASE v # u
    BY <1>3, <2>1, <2>3
  <2> QED  BY <2>2, <2>3
<1> QED  BY <1>1, <1>4, <1>5 DEF MarginsKept, MarginCovers, MarginExact

(* Lots are released: what is left covers what is left to cover. *)
LEMMA ReleasedCovers ==
  ASSUME NEW m \in Nat, NEW s \in Nat, NEW r \in Nat, NEW q \in Nat, NEW p \in Nat, q <= r,
         s >= CalcIm(r * p)
  PROVE  LET t == s - CalcIm(r * p) + CalcIm((r - q) * p)
             n == Larger(0, m - CalcIm(q * p))
         IN  /\ m >= s => n >= t
             /\ ImfFactor = 0 /\ m = s => n = t
<1>1. PICK a \in Nat : a = q * p
  OBVIOUS
<1>2. PICK b \in Nat : b = (r - q) * p
  <2>1. r - q \in Nat
    OBVIOUS
  <2>2. (r - q) * p \in Nat
    BY <2>1
  <2> QED  BY <2>2
<1>3. r * p = a + b
  BY <1>1, <1>2
<1>4. /\ CalcIm(a) + CalcIm(b) <= CalcIm(a + b) /\ CalcIm(a) \in Nat /\ CalcIm(b) \in Nat
      /\ CalcIm(a + b) \in Nat
      /\ ImfFactor = 0 => CalcIm(a) + CalcIm(b) = CalcIm(a + b)
  BY CalcImParts, CalcImLinear
<1> QED  BY <1>1, <1>2, <1>3, <1>4 DEF Larger

LEMMA WithdrawMargins ==
  ASSUME EngineInv, UniqueIds, FiniteOrders, NEW x \in Resting,
         ReleaseMargin(x.user, x.price, x.rem), EraseOpenOrder(x.user, x.id)
  PROVE  MarginsKept
<1> DEFINE u == x.user
           f == open_orders[u]
           g == open_orders'[u]
<1>1. /\ u \in Users /\ x.rem \in Nat \ {0} /\ x.price \in Nat
  BY NodeOfOne, NodeFields
<1>2. /\ GoodOrders(f) /\ open_order_margin[u] \in Nat
      /\ x.id \in DOMAIN f /\ f[x.id].rem = x.rem /\ f[x.id].price = x.price
  BY <1>1, AccountOrders
<1>3. /\ \A v \in Users : v # u => open_orders'[v] = open_orders[v]
      /\ DOMAIN g = DOMAIN f \ {x.id}
      /\ \A k \in DOMAIN g : g[k] = f[k]
  BY <1>1, EraseFacts DEF EngineInv, AccountTypeOK, OpenOrdersOK
<1>4. /\ \A v \in Users : v # u => open_order_margin'[v] = open_order_margin[v]
      /\ open_order_margin'[u] = Larger(0, open_order_margin[u] - CalcIm(x.rem * x.price))
  BY <1>1 DEF ReleaseMargin, EngineInv, AccountTypeOK
<1>5. PICK r \in Nat, p \in Nat, m \in Nat : r = x.rem /\ p = x.price /\ m = open_order_margin[u]
  BY <1>1, <1>2
<1>6. /\ GoodOrders(g) /\ SumFunction(Margins(g)) \in Nat
      /\ SumFunction(Margins(f)) = SumFunction(Margins(g)) + CalcIm(r * p)
  <2>1. /\ GoodOrders(g) /\ SumFunction(Margins(g)) \in Nat
        /\ SumFunction(Margins(f))
             = SumFunction(Margins(g)) + CalcIm(f[x.id].rem * f[x.id].price)
    <3> HIDE DEF f, g
    <3> QED  BY <1>2, <1>3, MarginsErased
  <2> QED  BY <1>2, <1>5, <2>1
<1>7. CalcIm(r * p) \in Nat
  <2>1. r * p \in Int /\ r * p >= 0
    OBVIOUS
  <2> QED  BY <2>1, CalcImType
<1>8. PICK t \in Nat : t = SumFunction(Margins(g))
  BY <1>6
<1>9. PICK c \in Nat : c = CalcIm(r * p)
  BY <1>7
<1>10. /\ open_order_margin[u] >= SumFunction(Margins(f))
            => open_order_margin'[u] >= SumFunction(Margins(g))
       /\ open_order_margin[u] = SumFunction(Margins(f))
            => open_order_margin'[u] = SumFunction(Margins(g))
  <2>1. /\ SumFunction(Margins(f)) = t + c /\ open_order_margin[u] = m
        /\ open_order_margin'[u] = Larger(0, m - c)
    BY <1>4, <1>5, <1>6, <1>8, <1>9
  <2> QED  BY <1>8, <2>1 DEF Larger
<1> QED  BY <1>1, <1>3, <1>4, <1>6, <1>10, OneAccount

LEMMA FillMargins ==
  ASSUME EngineInv, UniqueIds, FiniteOrders, NEW price \in Prices, Fill(price)
  PROVE  MarginsKept
<1> DEFINE x == Head1(price)
           q == FillQty(x)
<1>1. x \in Resting /\ q \in Nat \ {0} /\ q <= x.rem
  BY FillFacts
<1>2. ReleaseMargin(x.user, x.price, q) /\ SyncOpenOrder(x, q)
  BY DEF Fill
<1> HIDE DEF x, q
<1>3. x.user \in Users /\ x.id \in OrderIds /\ x.rem \in Nat \ {0} /\ x.price \in Nat
      /\ x.side \in Sides /\ x.price \in Prices
  BY <1>1, NodeOfOne, NodeFields
<1>4. CASE q = x.rem
  <2>1. ReleaseMargin(x.user, x.price, x.rem) /\ EraseOpenOrder(x.user, x.id)
    BY <1>2, <1>4 DEF SyncOpenOrder
  <2> QED  BY <1>1, <2>1, WithdrawMargins
<1>5. CASE q < x.rem
  <2> DEFINE u == x.user
             f == open_orders[u]
             g == open_orders'[u]
             c == [OpenOrderOf(x.user, x.id) EXCEPT !.rem = @ - q]
  <2>1. /\ GoodOrders(f) /\ open_order_margin[u] \in Nat
        /\ x.id \in DOMAIN f /\ f[x.id].rem = x.rem /\ f[x.id].price = x.price
    BY <1>1, <1>3, AccountOrders
  <2>2. f[x.id] = OpenOrderOfNode(x)
    BY <1>1, <1>3 DEF UniqueIds, OpenOrdersMirror
  <2>3. c \in OpenOrder /\ c.rem = x.rem - q /\ c.price = x.price
    BY <1>1, <1>3, <2>1, <2>2 DEF OpenOrderOf, Lookup, OpenOrderOfNode, OpenOrder
  <2>4. PutOpenOrder(u, x.id, c)
    BY <1>2, <1>3, <1>5 DEF SyncOpenOrder
  <2> HIDE DEF c
  <2>5. /\ \A v \in Users : v # u => open_orders'[v] = open_orders[v]
        /\ DOMAIN g = DOMAIN f \cup {x.id} /\ g[x.id] = c
        /\ \A k \in DOMAIN f : k # x.id => g[k] = f[k]
    BY <1>3, <2>3, <2>4, PutFacts DEF EngineInv, AccountTypeOK, OpenOrdersOK
  <2>6. /\ \A v \in Users : v # u => open_order_margin'[v] = open_order_margin[v]
        /\ open_order_margin'[u] = Larger(0, open_order_margin[u] - CalcIm(q * x.price))
    BY <1>1, <1>2, <1>3 DEF ReleaseMargin, EngineInv, AccountTypeOK
  <2>7. PICK r \in Nat, p \in Nat, k \in Nat, m \in Nat :
          r = x.rem /\ p = x.price /\ k = q /\ m = open_order_margin[u]
    BY <1>1, <1>3, <2>1
  <2>8. DOMAIN g = DOMAIN f /\ g[x.id].rem \in Nat /\ g[x.id].price \in Nat
    BY <1>1, <1>3, <2>1, <2>3, <2>5
  <2>9. /\ GoodOrders(g)
        /\ SumFunction(Margins(g))
             = SumFunction(Margins(f)) - CalcIm(f[x.id].rem * f[x.id].price)
                 + CalcIm(g[x.id].rem * g[x.id].price)
        /\ SumFunction(Margins(f)) >= CalcIm(f[x.id].rem * f[x.id].price)
    BY <2>1, <2>5, <2>8, MarginsChanged
  <2>10. /\ f[x.id].rem = r /\ f[x.id].price = p
         /\ g[x.id].rem = r - k /\ g[x.id].price = p
    BY <2>1, <2>3, <2>5, <2>7
  <2>11. PICK s \in Nat : s = SumFunction(Margins(f))
    BY <2>1, MarginsNat
  <2>12. /\ SumFunction(Margins(g)) = s - CalcIm(r * p) + CalcIm((r - k) * p)
         /\ s >= CalcIm(r * p) /\ k <= r
         /\ open_order_margin'[u] = Larger(0, m - CalcIm(k * p))
    BY <1>1, <2>6, <2>7, <2>9, <2>10, <2>11
  <2>13. /\ m >= s => open_order_margin'[u] >= SumFunction(Margins(g))
         /\ ImfFactor = 0 /\ m = s => open_order_margin'[u] = SumFunction(Margins(g))
    BY <2>12, ReleasedCovers
  <2> HIDE DEF f, g
  <2>14. /\ open_order_margin[u] >= SumFunction(Margins(f))
              => open_order_margin'[u] >= SumFunction(Margins(g))
         /\ ConstantRate /\ open_order_margin[u] = SumFunction(Margins(f))
              => open_order_margin'[u] = SumFunction(Margins(g))
    BY <2>7, <2>11, <2>13 DEF ConstantRate
  <2> QED  BY <1>3, <2>5, <2>6, <2>9, <2>14, OneAccount DEF f, g
<1> QED  BY <1>1, <1>3, <1>4, <1>5

LEMMA RestMargins ==
  ASSUME EngineInv, UniqueIds, FiniteOrders, HandInv, NEW mark \in Marks, Rest(mark)
  PROVE  MarginsKept
<1> DEFINE u  == incoming.user
           id == incoming.id
           f  == open_orders[u]
           g  == open_orders'[u]
           c  == OpenOrderOfNode(incoming)
<1>1. /\ phase = "residual" /\ incoming \in IncomingOrder /\ incoming.rem \in Nat \ {0}
      /\ ReserveMargin(u, incoming, mark) /\ PutOpenOrder(u, id, c)
  BY RestFacts DEF Rest
<1>2. /\ u \in Users /\ id \in OrderIds /\ incoming.price \in Prices /\ incoming.price \in Nat
      /\ incoming.side \in Sides /\ incoming.type \in Types /\ mark \in Nat
  BY <1>1, BookAssumption, EngineAssumption DEF IncomingOrder
<1>3. c \in OpenOrder /\ c.rem = incoming.rem /\ c.price = incoming.price
  BY <1>1, <1>2 DEF OpenOrderOfNode, OpenOrder
<1>4. GoodOrders(f) /\ open_order_margin[u] \in Nat
  BY <1>2, AccountOrders
<1>5. id \notin DOMAIN f
  BY <1>1, <1>2 DEF UniqueIds, OpenOrdersMirror
<1> HIDE DEF c
<1>6. /\ \A v \in Users : v # u => open_orders'[v] = open_orders[v]
      /\ DOMAIN g = DOMAIN f \cup {id} /\ g[id] = c
      /\ \A k \in DOMAIN f : k # id => g[k] = f[k]
  BY <1>1, <1>2, <1>3, PutFacts DEF EngineInv, AccountTypeOK, OpenOrdersOK
<1>7. /\ GoodOrders(g) /\ SumFunction(Margins(f)) \in Nat
      /\ SumFunction(Margins(g)) = SumFunction(Margins(f)) + CalcIm(g[id].rem * g[id].price)
  <2>1. g[id].rem \in Nat /\ g[id].price \in Nat /\ \A k \in DOMAIN f : g[k] = f[k]
    BY <1>1, <1>2, <1>3, <1>5, <1>6
  <2>2. DOMAIN g = DOMAIN f \cup {id}
    BY <1>6
  <2> HIDE DEF f, g, id
  <2> QED  BY <1>4, <1>5, <2>1, <2>2, MarginsAdded
<1>8. PICK r \in Nat, p \in Nat, m \in Nat :
        r = incoming.rem /\ p = incoming.price /\ m = open_order_margin[u]
  BY <1>1, <1>2, <1>4
<1>9. /\ \A v \in Users : v # u => open_order_margin'[v] = open_order_margin[v]
      /\ open_order_margin'[u] = m + CalcIm(r * (IF p > 0 THEN p ELSE mark))
  <2>1. open_order_margin \in [Users -> Nat]
    BY DEF EngineInv, AccountTypeOK
  <2>2. open_order_margin' = [open_order_margin EXCEPT
          ![u] = @ + CalcIm(r * (IF p > 0 THEN p ELSE mark))]
    BY <1>1, <1>8 DEF ReserveMargin
  <2> QED  BY <1>2, <1>8, <2>1, <2>2
<1>10. SumFunction(Margins(g)) = SumFunction(Margins(f)) + CalcIm(r * p)
  BY <1>3, <1>6, <1>7, <1>8
<1>11. ConstantRate => p > 0
  BY <1>1, <1>2, <1>8 DEF ConstantRate, HandInv
<1>12. /\ CalcIm(r * p) \in Nat /\ CalcIm(r * mark) \in Nat
       /\ p = 0 => CalcIm(r * p) = 0
  <2>1. PICK a \in Nat : a = r * p
    OBVIOUS
  <2>2. PICK b \in Nat : b = r * mark
    BY <1>2
  <2>3. CalcIm(a) \in Nat /\ CalcIm(b) \in Nat
    BY CalcImType
  <2>4. p = 0 => CalcIm(r * p) = 0
    <3>1. CalcIm(0) = CalcImf(0) * 0 /\ CalcImf(0) \in Nat
      BY CalcImfGrows DEF CalcIm
    <3>2. p = 0 => r * p = 0
      OBVIOUS
    <3> QED  BY <3>1, <3>2
  <2> QED  BY <2>1, <2>2, <2>3, <2>4
<1>13. PICK s \in Nat : s = SumFunction(Margins(f))
  BY <1>7
<1> HIDE DEF f, g
<1>14. /\ open_order_margin[u] >= SumFunction(Margins(f))
            => open_order_margin'[u] >= SumFunction(Margins(g))
       /\ ConstantRate /\ open_order_margin[u] = SumFunction(Margins(f))
            => open_order_margin'[u] = SumFunction(Margins(g))
  <2>1. CASE p > 0
    <3>1. open_order_margin'[u] = m + CalcIm(r * p)
      BY <1>9, <2>1
    <3> QED  BY <1>8, <1>10, <1>12, <1>13, <3>1
  <2>2. CASE p = 0
    <3>1. open_order_margin'[u] = m + CalcIm(r * mark) /\ ~ConstantRate
      BY <1>9, <1>11, <2>2
    <3>2. SumFunction(Margins(g)) = s
      BY <1>10, <1>12, <1>13, <2>2
    <3> QED  BY <1>8, <1>12, <1>13, <3>1, <3>2
  <2> QED  BY <2>1, <2>2
<1> QED  BY <1>2, <1>6, <1>7, <1>9, <1>14, OneAccount DEF f, g

LEMMA StepMargins ==
  ASSUME EngineInv, FiniteOrders, HandInv, ReuseIds = FALSE, [EngineNext]_vars
  PROVE  MarginsKept
<1>1. UniqueIds /\ BookInv /\ IndexComplete
  BY DEF EngineInv, UniqueIds
<1>2. ASSUME NEW price \in Prices, Fill(price)  PROVE MarginsKept
  BY <1>1, <1>2, FillMargins
<1>3. ASSUME NEW price \in Prices, StpCancelResting(price) \/ StpCancelBoth(price)
      PROVE  MarginsKept
  <2>1. Head1(price) \in Resting /\ RemoveOwn(Head1(price))
    BY <1>3, OwnFacts DEF StpCancelResting, StpCancelBoth
  <2> QED  BY <1>1, <2>1, WithdrawMargins DEF RemoveOwn
<1>4. ASSUME NEW u \in Users, NEW id \in OrderIds, Cancel(u, id)  PROVE MarginsKept
  <2>1. PICK x \in Resting : x.id = id /\ x.user = u
    BY <1>4, CancelFacts
  <2>2. open_orders[u][id].rem = x.rem /\ open_orders[u][id].price = x.price
    BY <1>1, <2>1, AccountOrders
  <2>3. ReleaseMargin(x.user, x.price, x.rem) /\ EraseOpenOrder(x.user, x.id)
    BY <1>4, <2>1, <2>2 DEF Cancel
  <2> QED  BY <1>1, <2>3, WithdrawMargins
<1>5. ASSUME NEW mark \in Marks, Rest(mark)  PROVE MarginsKept
  BY <1>1, <1>5, RestMargins
<1>6. CASE \/ \E o \in ClientOrder : Submit(o)
           \/ StopMatching \/ DropResidual \/ Settle \/ Finish
           \/ \E price \in Prices : StpCancelIncoming(price)
           \/ UNCHANGED vars
  <2>1. UNCHANGED <<open_orders, open_order_margin>>
    BY <1>6 DEF Submit, StopMatching, DropResidual, Settle, Finish, StpCancelIncoming,
                accountVars, vars
  <2> QED  BY <2>1 DEF MarginsKept, FiniteOrders, MarginCovers, MarginExact, OrdersMargin
<1> QED  BY <1>2, <1>3, <1>4, <1>5, <1>6 DEF EngineNext, Process, Iterate

LEMMA InitMargins == EngineInit => FiniteOrders /\ MarginExact /\ MarginCovers
<1> SUFFICES ASSUME EngineInit  PROVE FiniteOrders /\ MarginExact /\ MarginCovers
  OBVIOUS
<1>1. ASSUME NEW u \in Users
      PROVE  /\ IsFiniteSet(DOMAIN open_orders[u])
             /\ OrdersMargin(u) = 0 /\ open_order_margin[u] = 0
  <2>1. DOMAIN open_orders[u] = {} /\ open_order_margin[u] = 0
    BY DEF EngineInit
  <2>2. OrdersMargin(u) = SumFunction(Margins(open_orders[u]))
    BY DEF OrdersMargin, Margins
  <2>3. DOMAIN Margins(open_orders[u]) = {}
    BY <2>1 DEF Margins
  <2>4. SumFunction(Margins(open_orders[u])) = 0
    BY <2>3, SumOfNone DEF SumFunction
  <2> QED  BY <2>1, <2>2, <2>4, FS_EmptySet
<1> QED  BY <1>1 DEF FiniteOrders, MarginExact, MarginCovers

(* For any margin rate, however it grows with the notional, and any fills,   *)
(* cancels and self-trade removals: what stays reserved covers the orders    *)
(* that still rest.                                                          *)
THEOREM EngineMarginCovers ==
  ASSUME ReuseIds = FALSE  PROVE EngineSpec => []MarginCovers
<1>1. EngineInv /\ HandInv /\ FiniteOrders /\ MarginCovers /\ [EngineNext]_vars
        => FiniteOrders' /\ MarginCovers'
  BY StepMargins DEF MarginsKept
<1> QED  BY <1>1, InitMargins, EngineInvHolds, HandInvHolds, PTL DEF EngineSpec

(* With a constant rate and no MARKET orders the reservation is exact: a     *)
(* user without open orders has all her margin back.                         *)
THEOREM EngineMarginExact ==
  ASSUME ReuseIds = FALSE, ImfFactor = 0, "MARKET" \notin Types
  PROVE  EngineSpec => []MarginExact
<1>1. EngineInv /\ HandInv /\ FiniteOrders /\ MarginExact /\ [EngineNext]_vars
        => FiniteOrders' /\ MarginExact'
  BY StepMargins DEF MarginsKept, ConstantRate
<1> QED  BY <1>1, InitMargins, EngineInvHolds, HandInvHolds, PTL DEF EngineSpec
-----------------------------------------------------------------------------
(* The depth that the FOK check counts is there when the order is matched. *)

LEMMA StepExact ==
  ASSUME EngineInv, ExactLevels, [EngineNext]_vars
  PROVE  ExactLevels'
<1>1. BookInv /\ LevelsInv
  BY DEF EngineInv, BookInv
<1>2. ASSUME NEW price \in Prices, Fill(price)  PROVE ExactLevels'
  <2> DEFINE side == Opposite(incoming.side)
             q    == FillQty(Head1(price))
  <2>1. q \in Nat \ {0} /\ q <= FrontOrder(side, price).rem
    BY <1>2, FillFacts DEF Head1
  <2>2. ConsumeFront(side, price, q) /\ Matching(price)
    BY <1>2 DEF Fill
  <2>3. side \in Sides /\ price \in DOMAIN levels[side]
    BY <2>2, HeadFacts
  <2> HIDE DEF side, q
  <2> QED  BY <1>1, <2>1, <2>2, <2>3, ConsumeExact
<1>3. ASSUME NEW price \in Prices, StpCancelResting(price) \/ StpCancelBoth(price)
      PROVE  ExactLevels'
  BY <1>1, <1>3, RemoveOrderExact DEF StpCancelResting, StpCancelBoth, RemoveOwn
<1>4. ASSUME NEW u \in Users, NEW id \in OrderIds, Cancel(u, id)  PROVE ExactLevels'
  BY <1>1, <1>4, RemoveOrderExact DEF Cancel
<1>5. ASSUME NEW mark \in Marks, Rest(mark)  PROVE ExactLevels'
  <2>1. incoming \in IncomingOrder /\ incoming.rem \in Nat \ {0} /\ AddOrder(incoming)
    BY <1>5, RestFacts DEF Rest
  <2>2. /\ incoming.id \in OrderIds /\ incoming.user \in Users /\ incoming.side \in Sides
        /\ incoming.price \in Prices
    BY <2>1 DEF IncomingOrder
  <2> QED  BY <1>1, <2>1, <2>2, AddExact
<1>6. CASE \/ \E o \in ClientOrder : Submit(o)
           \/ StopMatching \/ DropResidual \/ Settle \/ Finish
           \/ \E price \in Prices : StpCancelIncoming(price)
           \/ UNCHANGED vars
  <2>1. levels' = levels
    BY <1>6, QuietFacts DEF bookVars, vars
  <2> QED  BY <2>1 DEF ExactLevels, ExactLevel
<1> QED  BY <1>2, <1>3, <1>4, <1>5, <1>6 DEF EngineNext, Process, Iterate

LEMMA EngineExactLevels == EngineSpec => []ExactLevels
<1>1. EngineInit => ExactLevels
  BY DEF EngineInit, Init, ExactLevels
<1>2. EngineInv /\ ExactLevels /\ [EngineNext]_vars => ExactLevels'
  BY StepExact
<1> QED  BY <1>1, <1>2, EngineInvHolds, PTL DEF EngineSpec

(* What available_qty sums. *)
Quantities(side) == [p \in DOMAIN levels[side] |-> levels[side][p].qty]

Reachable(side, limit) == {p \in DOMAIN levels[side] : AtOrBetter(side, p, limit)}

LEMMA AvailableFacts ==
  ASSUME BookInv, FiniteBook, ExactLevels, NEW side \in Sides, NEW limit
  PROVE  LET opp == Opposite(side)
         IN  /\ opp \in Sides /\ IsFiniteSet(Reachable(opp, limit))
             /\ \A p \in Reachable(opp, limit) : Quantities(opp)[p] \in Nat
             /\ AvailableQty(side, limit)
                  = SumFunctionOnSet(Quantities(opp), Reachable(opp, limit))
             /\ AvailableQty(side, limit) \in Nat
<1> DEFINE opp == Opposite(side)
<1>1. opp \in Sides
  BY DEF Opposite, Sides
<1>2. AvailableQty(side, limit) = SumFunctionOnSet(Quantities(opp), Reachable(opp, limit))
  BY DEF AvailableQty, Quantities, Reachable
<1> HIDE DEF opp
<1>3. IsFiniteSet(Reachable(opp, limit))
  BY <1>1, LevelsFinite, FS_Subset DEF Reachable
<1>4. ASSUME NEW p \in Reachable(opp, limit)  PROVE Quantities(opp)[p] \in Nat
  <2>1. p \in DOMAIN levels[opp] /\ ExactLevel(levels[opp][p])
    BY <1>1 DEF Reachable, ExactLevels
  <2>2. levels[opp][p].orders \in Seq(Node)
    BY <1>1, <2>1 DEF BookInv, LevelsInv, GoodLevel, PriceLevel
  <2>3. levels[opp][p].qty \in Nat
    BY <2>1, <2>2, LevelSum DEF ExactLevel
  <2> QED  BY <2>1, <2>3 DEF Quantities
<1>5. SumFunctionOnSet(Quantities(opp), Reachable(opp, limit)) \in Nat
  BY <1>3, <1>4, SumNat
<1> QED  BY <1>1, <1>2, <1>3, <1>4, <1>5 DEF opp

(* Lots that leave a level in reach leave the depth. *)
LEMMA ConsumeAvailable ==
  ASSUME BookInv, FiniteBook, ExactLevels, NEW aggressor \in Sides, NEW limit,
         NEW price \in Reachable(Opposite(aggressor), limit), NEW q \in Nat \ {0},
         q <= FrontOrder(Opposite(aggressor), price).rem,
         ConsumeFront(Opposite(aggressor), price, q)
  PROVE  AvailableQty(aggressor, limit)' = AvailableQty(aggressor, limit) - q
<1> DEFINE side == Opposite(aggressor)
           lvl  == levels[side][price]
           A    == Reachable(side, limit)
           F    == Quantities(side)
<1>1. /\ side \in Sides /\ IsFiniteSet(A) /\ \A p \in A : F[p] \in Nat
      /\ AvailableQty(aggressor, limit) = SumFunctionOnSet(F, A)
      /\ AvailableQty(aggressor, limit) \in Nat
  BY AvailableFacts
<1>2. /\ AvailableQty(aggressor, limit)'
           = SumFunctionOnSet(Quantities(side)', Reachable(side, limit)')
  BY DEF AvailableQty, Quantities, Reachable
<1>3. /\ price \in DOMAIN levels[side] /\ lvl.orders \in Seq(Node) /\ ExactLevel(lvl)
      /\ 1 \in DOMAIN lvl.orders /\ q <= lvl.orders[1].rem
      /\ ConsumeFront(side, price, q) /\ levels = [s \in Sides |-> levels[s]]
  <2>1. price \in DOMAIN levels[side] /\ levels = [s \in Sides |-> levels[s]]
    BY DEF Reachable, BookInv, LevelsInv
  <2>2. GoodLevel(lvl, side, price, inserted) /\ ExactLevel(lvl)
    BY <1>1, <2>1 DEF BookInv, LevelsInv, ExactLevels
  <2>3. lvl.orders \in Seq(Node) /\ 1 \in DOMAIN lvl.orders
    BY <2>2, EmptySeq, LenProperties DEF GoodLevel, PriceLevel
  <2> QED  BY <2>1, <2>2, <2>3 DEF FrontOrder
<1>4. lvl.qty \in Nat /\ F[price] = lvl.qty /\ lvl.orders[1].rem \in Nat
  <2>1. F[price] = lvl.qty
    BY <1>3 DEF Quantities
  <2>2. lvl.orders[1] \in Node
    BY <1>3
  <2> QED  BY <1>1, <2>1, <2>2 DEF Node
<1> HIDE DEF side
<1>5. ASSUME NEW new, SetLevel(side, price, new), new.qty = lvl.qty - q
      PROVE  SumFunctionOnSet(Quantities(side)', Reachable(side, limit)')
               = SumFunctionOnSet(F, A) - q
  <2>1. levels'[side] = Put(levels[side], price, new)
    BY <1>1, <1>3, <1>5 DEF SetLevel
  <2>2. /\ DOMAIN levels'[side] = DOMAIN levels[side]
        /\ levels'[side][price] = new
        /\ \A p \in DOMAIN levels[side] : p # price => levels'[side][p] = levels[side][p]
    BY <1>3, <2>1 DEF Put
  <2> DEFINE G == Quantities(side)'
  <2>3. Reachable(side, limit)' = A
    BY <2>2 DEF Reachable, AtOrBetter
  <2>4. G[price] = lvl.qty - q /\ \A p \in A : p # price => G[p] = F[p]
    BY <1>3, <1>5, <2>2 DEF Quantities, Reachable
  <2> HIDE DEF F, G, A
  <2>5. SumFunctionOnSet(G, A) = SumFunctionOnSet(F, A) - F[price] + G[price]
    <3>1. price \in A /\ G[price] \in Int
      BY <1>4, <2>4 DEF A, side
    <3>2. \A p \in A : F[p] \in Int /\ (p # price => G[p] = F[p])
      BY <1>1, <2>4
    <3> QED  BY <1>1, <3>1, <3>2, SumChanged
  <2>6. SumFunctionOnSet(F, A) \in Nat
    BY <1>1
  <2> QED  BY <1>4, <2>3, <2>4, <2>5, <2>6 DEF G
<1>6. ASSUME EraseLevel(side, price), lvl.qty = q
      PROVE  SumFunctionOnSet(Quantities(side)', Reachable(side, limit)')
               = SumFunctionOnSet(F, A) - q
  <2>1. levels'[side] = Erase(levels[side], price)
    BY <1>1, <1>3, <1>6 DEF EraseLevel
  <2>2. /\ DOMAIN levels'[side] = DOMAIN levels[side] \ {price}
        /\ \A p \in DOMAIN levels'[side] : levels'[side][p] = levels[side][p]
    BY <2>1 DEF Erase, Restrict
  <2> DEFINE G == Quantities(side)'
  <2>3. Reachable(side, limit)' = A \ {price}
    BY <2>2 DEF Reachable, AtOrBetter
  <2>4. \A p \in A \ {price} : G[p] = F[p]
    BY <2>2 DEF Quantities, Reachable
  <2>5. price \in A
    BY DEF side
  <2> HIDE DEF F, G, A
  <2>6. SumFunctionOnSet(F, A) = F[price] + SumFunctionOnSet(F, A \ {price})
    BY <1>1, <2>5, SumTake
  <2>7. /\ SumFunctionOnSet(G, A \ {price}) = SumFunctionOnSet(F, A \ {price})
        /\ SumFunctionOnSet(F, A \ {price}) \in Nat
    <3>1. IsFiniteSet(A \ {price}) /\ \A p \in A \ {price} : F[p] \in Nat
      BY <1>1, <2>5, Smaller1
    <3> QED  BY <2>4, <3>1, SumEqual, SumNat
  <2> QED  BY <1>4, <1>6, <2>3, <2>6, <2>7 DEF G
<1>7. CASE q < lvl.orders[1].rem
  <2>1. SetLevel(side, price, ReduceFront(lvl, q))
    BY <1>3, <1>7 DEF ConsumeFront, FrontOrder
  <2>2. ReduceFront(lvl, q).qty = lvl.qty - q
    BY DEF ReduceFront
  <2> QED  BY <1>1, <1>2, <1>5, <2>1, <2>2
<1>8. CASE q = lvl.orders[1].rem
  <2>1. FrontOrder(side, price).rem = q /\ ~(q < FrontOrder(side, price).rem)
    <3>1. FrontOrder(side, price).rem = q /\ q \in Nat
      BY <1>3, <1>4, <1>8 DEF FrontOrder
    <3> QED  BY <3>1
  <2>2. DropOrder(side, price, 1)
    BY <1>3, <2>1 DEF ConsumeFront
  <2>3. CASE Len(lvl.orders) = 1
    <3>1. lvl.qty = q
      BY <1>3, <1>8, <2>3, ExactOfOne
    <3>2. EraseLevel(side, price)
      BY <2>2, <2>3 DEF DropOrder
    <3> QED  BY <1>1, <1>2, <1>6, <3>1, <3>2
  <2>4. CASE Len(lvl.orders) # 1
    <3>1. SetLevel(side, price, RemoveFrom(lvl, 1))
      BY <2>2, <2>4 DEF DropOrder
    <3>2. RemoveFrom(lvl, 1).qty = lvl.qty - q
      BY <1>8 DEF RemoveFrom
    <3> QED  BY <1>1, <1>2, <1>5, <3>1, <3>2
  <2> QED  BY <2>3, <2>4
<1> QED  BY <1>3, <1>4, <1>7, <1>8

(* While a fill-or-kill order is matched, what is left of it is on offer     *)
(* within its limit, unless orders of its own user have been removed.        *)
FokInv ==
    phase = "matching" /\ incoming.tif = "FOK" /\ incoming.stp # "CANCEL_RESTING"
        => incoming.rem <= AvailableQty(incoming.side, incoming.price)

LEMMA SubmitFok ==
  ASSUME EngineInv, FiniteBook, ExactLevels, NEW o \in ClientOrder, Submit(o)
  PROVE  FokInv' /\ FokStopsOnlyAtOwnOrder'
<1>1. /\ incoming' = o /\ levels' = levels /\ ~FokShort(o)
      /\ phase' = IF o.type = "POST_ONLY" THEN "residual" ELSE "matching"
  BY DEF Submit
<1>2. o.side \in Sides /\ o.rem \in Nat
  BY BookAssumption DEF ClientOrder
<1>3. AvailableQty(o.side, o.price)' = AvailableQty(o.side, o.price)
  BY <1>1 DEF AvailableQty, AtOrBetter
<1>4. AvailableQty(o.side, o.price) \in Nat
  BY <1>2, AvailableFacts DEF EngineInv
<1>5. o.tif = "FOK" => o.rem <= AvailableQty(o.side, o.price)'
  BY <1>1, <1>2, <1>3, <1>4 DEF FokShort
<1>6. FokInv'
  BY <1>1, <1>3, <1>5 DEF FokInv
<1> QED  BY <1>1, <1>6 DEF FokStopsOnlyAtOwnOrder

LEMMA FillFok ==
  ASSUME EngineInv, FiniteBook, ExactLevels, FokInv, NEW price \in Prices, Fill(price)
  PROVE  FokInv' /\ FokStopsOnlyAtOwnOrder'
<1> DEFINE q    == FillQty(Head1(price))
           side == Opposite(incoming.side)
<1>1. /\ phase = "matching" /\ phase' = phase /\ incoming \in IncomingOrder
      /\ q \in Nat \ {0} /\ q <= FrontOrder(side, price).rem /\ incoming.rem - q \in Nat
      /\ incoming' = [incoming EXCEPT !.rem = @ - q]
  BY FillFacts DEF Head1
<1>2. ConsumeFront(side, price, q) /\ Matching(price) /\ incoming.rem > 0
  BY DEF Fill, Matching
<1>3. side \in Sides /\ incoming.side \in Sides /\ incoming.rem \in Nat
  BY <1>1 DEF Opposite, Sides, IncomingOrder
<1>4. /\ incoming'.rem = incoming.rem - q /\ incoming'.side = incoming.side
      /\ incoming'.price = incoming.price /\ incoming'.tif = incoming.tif
      /\ incoming'.stp = incoming.stp
  BY <1>1 DEF IncomingOrder
<1>5. FokStopsOnlyAtOwnOrder'
  BY <1>1 DEF FokStopsOnlyAtOwnOrder
<1>6. PICK aggressor \in Sides, limit \in Nat :
        aggressor = incoming.side /\ limit = incoming.price
  BY <1>1, <1>3, BookAssumption DEF IncomingOrder
<1>7. SUFFICES ASSUME incoming.tif = "FOK", incoming.stp # "CANCEL_RESTING"
               PROVE  incoming'.rem <= AvailableQty(aggressor, limit)'
  <2>1. AvailableQty(incoming.side, incoming.price)' = AvailableQty(aggressor, limit)'
    BY <1>4, <1>6 DEF AvailableQty, AtOrBetter
  <2> QED  BY <1>4, <1>5, <2>1 DEF FokInv
<1>8. /\ incoming.rem <= AvailableQty(aggressor, limit) /\ side = Opposite(aggressor)
      /\ AvailableQty(aggressor, limit) \in Nat
      /\ AvailableQty(aggressor, limit)
           = SumFunctionOnSet(Quantities(side), Reachable(side, limit))
  BY <1>1, <1>6, <1>7, AvailableFacts DEF FokInv, EngineInv
<1>9. Reachable(side, limit) # {}
  BY <1>2, <1>3, <1>8, SumOfNone
<1>10. price \in Reachable(side, limit)
  <2>1. PICK p \in DOMAIN levels[side] : AtOrBetter(side, p, limit)
    BY <1>9 DEF Reachable
  <2>2. price \in DOMAIN levels[side] /\ AtOrBetter(side, price, p)
    BY <1>2, <2>1 DEF Matching, Facing, BestPrices
  <2>3. DOMAIN levels[side] \in SUBSET Nat
    BY <1>3, LevelsFinite DEF EngineInv
  <2>4. p \in Nat /\ price \in Nat
    BY <2>1, <2>2, <2>3
  <2>5. AtOrBetter(side, price, limit)
    BY <2>1, <2>2, <2>4 DEF AtOrBetter
  <2> QED  BY <2>2, <2>5 DEF Reachable
<1>11. PICK k \in Nat \ {0} : k = q
  BY <1>1
<1> HIDE DEF q, side
<1>12. AvailableQty(aggressor, limit)' = AvailableQty(aggressor, limit) - k
  BY <1>1, <1>2, <1>8, <1>10, <1>11, ConsumeAvailable DEF EngineInv
<1> QED  BY <1>1, <1>3, <1>4, <1>6, <1>8, <1>11, <1>12

LEMMA StopFok ==
  ASSUME EngineInv, FiniteBook, ExactLevels, FokInv, SentInv, BandWide, StopMatching
  PROVE  FokInv' /\ FokStopsOnlyAtOwnOrder'
<1>1. /\ phase = "matching" /\ phase' = "residual" /\ incoming' = incoming /\ levels' = levels
      /\ incoming \in IncomingOrder
  BY DEF StopMatching, EngineInv, ProcessTypeOK
<1>2. FokInv'
  BY <1>1 DEF FokInv
<1>3. ASSUME incoming.tif = "FOK", incoming.rem > 0, incoming.status # "CANCELLED",
             incoming.stp # "CANCEL_RESTING"
      PROVE  FALSE
  <2>1. OutOfReach
    <3>1. OutOfReach'
      BY <1>1, <1>3, StopSent DEF ResidualFree
    <3> QED  BY <1>1, <3>1 DEF OutOfReach, AtOrBetter
  <2>2. Reachable(Opposite(incoming.side), incoming.price) = {}
    BY <2>1 DEF OutOfReach, Reachable
  <2>3. incoming.side \in Sides /\ incoming.rem \in Nat
    BY <1>1 DEF IncomingOrder
  <2>4. AvailableQty(incoming.side, incoming.price) = 0
    BY <2>2, <2>3, AvailableFacts, SumOfNone DEF EngineInv
  <2> QED  BY <1>1, <1>3, <2>3, <2>4 DEF FokInv
<1> QED  BY <1>1, <1>2, <1>3 DEF FokStopsOnlyAtOwnOrder

LEMMA StepFok ==
  ASSUME EngineInv, FiniteBook, ExactLevels, FokInv, FokStopsOnlyAtOwnOrder, SentInv, BandWide,
         [EngineNext]_vars
  PROVE  FokInv' /\ FokStopsOnlyAtOwnOrder'
<1>1. ASSUME NEW price \in Prices, StpCancelIncoming(price) \/ StpCancelBoth(price)
      PROVE  FokInv' /\ FokStopsOnlyAtOwnOrder'
  <2>1. /\ phase = "matching" /\ phase' = "residual"
        /\ incoming' = [incoming EXCEPT !.status = "CANCELLED"]
    BY <1>1 DEF StpCancelIncoming, StpCancelBoth, Own, Matching
  <2>2. incoming'.status = "CANCELLED"
    BY <2>1 DEF EngineInv, ProcessTypeOK, IncomingOrder
  <2> QED  BY <2>1, <2>2 DEF FokInv, FokStopsOnlyAtOwnOrder
<1>2. ASSUME NEW price \in Prices, StpCancelResting(price)
      PROVE  FokInv' /\ FokStopsOnlyAtOwnOrder'
  BY <1>2 DEF StpCancelResting, Own, Matching, FokInv, FokStopsOnlyAtOwnOrder
<1>3. CASE (\E mark \in Marks : Rest(mark)) \/ DropResidual \/ Settle \/ Finish
  BY <1>3 DEF Rest, DropResidual, Settle, Finish, FokInv, FokStopsOnlyAtOwnOrder
<1>4. ASSUME NEW u \in Users, NEW id \in OrderIds, Cancel(u, id)
      PROVE  FokInv' /\ FokStopsOnlyAtOwnOrder'
  BY <1>4 DEF Cancel, processVars, FokInv, FokStopsOnlyAtOwnOrder
<1>5. CASE UNCHANGED vars
  <2>1. phase' = phase /\ incoming' = incoming /\ levels' = levels
    BY <1>5 DEF vars
  <2>2. AvailableQty(incoming.side, incoming.price)' = AvailableQty(incoming.side, incoming.price)
    BY <2>1 DEF AvailableQty, AtOrBetter
  <2> QED  BY <2>1, <2>2 DEF FokInv, FokStopsOnlyAtOwnOrder
<1> QED  BY <1>1, <1>2, <1>3, <1>4, <1>5, SubmitFok, FillFok, StopFok
         DEF EngineNext, Process, Iterate

(* For any book and any prices inside one band, when nobody sends reduce-only *)
(* orders: the depth that the FOK check counted from the incremental level    *)
(* quantities is really there, so an accepted FOK order that is not filled    *)
(* in full has met an order of its own user.                                  *)
THEOREM EngineFokStopsOnlyAtOwnOrder ==
  ASSUME ReuseIds = FALSE, ReduceOnlyFlags \subseteq {FALSE}, BandWide
  PROVE  EngineSpec => []FokStopsOnlyAtOwnOrder
<1>1. EngineInit => FokInv /\ FokStopsOnlyAtOwnOrder
  BY DEF EngineInit, FokInv, FokStopsOnlyAtOwnOrder
<1>2. EngineInv /\ FiniteBook /\ ExactLevels /\ SentInv /\ FokInv /\ FokStopsOnlyAtOwnOrder
        /\ [EngineNext]_vars => FokInv' /\ FokStopsOnlyAtOwnOrder'
  BY StepFok
<1> QED  BY <1>1, <1>2, EngineInvHolds, FiniteBookHolds, EngineExactLevels, SentInvHolds, PTL
         DEF EngineSpec
=============================================================================
