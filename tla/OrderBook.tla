------------------------------ MODULE OrderBook ------------------------------
(***************************************************************************)
(* The FIFO central limit order book of engine/orderbook.{hpp,cpp}.        *)
(*                                                                         *)
(* levels["BUY"] is bids_, levels["SELL"] is asks_: a map from price to    *)
(* PriceLevel, a FIFO list of resting orders and the quantity the level    *)
(* keeps incrementally.  order_index_ maps an order id to the list node    *)
(* that holds it; a list iterator is modelled by the number of its node,   *)
(* nodes being numbered in the order of their insertion.  The two maps     *)
(* have opposite orderings, so begin() is the best price on either side.   *)
(*                                                                         *)
(* Prices and quantities are integers (ticks and lots), which makes the    *)
(* code's 1e-9 tolerances exact comparisons.                               *)
(***************************************************************************)
EXTENDS Integers, Sequences, SequencesExt, Maps

CONSTANTS
    OrderIds,   \* order ids, chosen by the clients
    Users,
    Prices,     \* 0 is the price of a MARKET order
    MaxQty,     \* bound: largest order, in lots
    MaxNodes,   \* bound: insertions into the book in one behaviour
    ReuseIds    \* TRUE: two resting orders may carry one id

ASSUME BookAssumption ==
    /\ Prices \subseteq Nat
    /\ MaxQty \in Nat \ {0}
    /\ MaxNodes \in Nat
    /\ ReuseIds \in BOOLEAN

VARIABLES
    levels,      \* bids_ and asks_
    order_index, \* order_index_
    inserted     \* number of list nodes created so far

bookVars == <<levels, order_index, inserted>>

Sides == {"BUY", "SELL"}

Opposite(side) == IF side = "BUY" THEN "SELL" ELSE "BUY"

(* What the book reads of an Order, and a list node that holds one. *)
RestingOrder ==
    [id : OrderIds, user : Users, side : Sides, price : Prices, rem : Nat \ {0}]

Node ==
    [node : Nat \ {0}, id : OrderIds, user : Users, side : Sides, price : Prices,
     rem : Nat \ {0}]

OrderRef == [side : Sides, price : Prices, node : Nat \ {0}]

PriceLevel == [orders : Seq(Node), qty : Int]

TypeOK ==
    /\ levels = [side \in Sides |-> levels[side]]
    /\ \A side \in Sides :
        /\ IsMap(levels[side], Prices)
        /\ \A p \in DOMAIN levels[side] : levels[side][p] \in PriceLevel
    /\ IsMap(order_index, OrderIds)
    /\ \A id \in DOMAIN order_index : order_index[id] \in OrderRef
    /\ inserted \in Nat

-----------------------------------------------------------------------------
(* Queries *)

(* The price order of a side: bids descending, asks ascending. *)
AtOrBetter(side, p, q) == IF side = "BUY" THEN p >= q ELSE p <= q

(* The key of begin(); empty when the side is. *)
BestPrices(side) ==
    {p \in DOMAIN levels[side] : \A q \in DOMAIN levels[side] : AtOrBetter(side, p, q)}

FrontOrder(side, price) == levels[side][price].orders[1]

(* Mutant: the limit price is not looked at. *)
AvailableQtyAnyPrice(aggressor, limit) ==
    SumFunction([p \in DOMAIN levels[Opposite(aggressor)] |->
                    levels[Opposite(aggressor)][p].qty])

(* available_qty: what an aggressor with this limit finds on the other side, *)
(* from the incremental level quantities.                                    *)
AvailableQty(aggressor, limit) ==
    LET opp == Opposite(aggressor)
    IN  SumFunctionOnSet([p \in DOMAIN levels[opp] |-> levels[opp][p].qty],
                         {p \in DOMAIN levels[opp] : AtOrBetter(opp, p, limit)})

(* Mutant: meeting the best price exactly is not crossing. *)
CrossesStrictly(side, price, isMarket) ==
    \E best \in BestPrices(Opposite(side)) :
        isMarket \/ (best # price /\ AtOrBetter(Opposite(side), best, price))

(* would_cross, also the crossing test of the matching loop. *)
Crosses(side, price, isMarket) ==
    \E best \in BestPrices(Opposite(side)) :
        isMarket \/ AtOrBetter(Opposite(side), best, price)

(* Every list node of the book, and the nodes of one side. *)
NodesOf(side) == UNION {ToSet(levels[side][p].orders) : p \in DOMAIN levels[side]}
Resting == UNION {NodesOf(side) : side \in Sides}

-----------------------------------------------------------------------------
(* Mutating operations *)

LevelAt(side, price) ==
    IF price \in DOMAIN levels[side] THEN levels[side][price]
                                     ELSE [orders |-> <<>>, qty |-> 0]

NewNode(o) ==
    [node |-> inserted + 1, id |-> o.id, user |-> o.user, side |-> o.side,
     price |-> o.price, rem |-> o.rem]

RefTo(n) == [side |-> n.side, price |-> n.price, node |-> n.node]

(* Mutants: new orders go to the front of the list; a removal forgets the    *)
(* incremental quantity.                                                     *)
AppendToFront(lvl, n) == [orders |-> <<n>> \o lvl.orders, qty |-> lvl.qty + n.rem]
RemoveFromKeepsQty(lvl, i) == [orders |-> RemoveAt(lvl.orders, i), qty |-> lvl.qty]

(* A level's list and its incremental quantity change together. *)
AppendTo(lvl, n) == [orders |-> Append(lvl.orders, n), qty |-> lvl.qty + n.rem]

RemoveFrom(lvl, i) ==
    [orders |-> RemoveAt(lvl.orders, i), qty |-> lvl.qty - lvl.orders[i].rem]

ReduceFront(lvl, q) ==
    [orders |-> [lvl.orders EXCEPT ![1].rem = @ - q], qty |-> lvl.qty - q]

SetLevel(side, price, lvl) == levels' = [levels EXCEPT ![side] = Put(@, price, lvl)]

EraseLevel(side, price) == levels' = [levels EXCEPT ![side] = Erase(@, price)]

(* list::insert(end(), o); order_index_.emplace keeps an entry that exists. *)
AddOrder(o) ==
    /\ SetLevel(o.side, o.price, AppendTo(LevelAt(o.side, o.price), NewNode(o)))
    /\ order_index' = IF o.id \in DOMAIN order_index THEN order_index
                      ELSE Put(order_index, o.id, RefTo(NewNode(o)))
    /\ inserted' = inserted + 1

(* The i-th order of a list leaves; a level left empty is pruned. *)
DropOrder(side, price, i) ==
    LET lvl == levels[side][price]
    IN  IF Len(lvl.orders) = 1
        THEN EraseLevel(side, price)
        ELSE SetLevel(side, price, RemoveFrom(lvl, i))

(* Mutant: a removal takes the head of the list. *)
PositionOfHead(orders, node) == 1

(* Where in its list the node an iterator points to is. *)
PositionOf(orders, node) == CHOOSE i \in DOMAIN orders : orders[i].node = node

(* remove_order: false, and nothing changes, when the id is not indexed. *)
RemoveOrder(id) ==
    IF id \notin DOMAIN order_index
    THEN UNCHANGED bookVars
    ELSE LET ref == order_index[id]
         IN  /\ IF ref.price \in DOMAIN levels[ref.side]
                THEN DropOrder(ref.side, ref.price,
                               PositionOf(levels[ref.side][ref.price].orders, ref.node))
                ELSE UNCHANGED levels
             /\ order_index' = Erase(order_index, id)
             /\ UNCHANGED inserted

(* Mutants: an exact fill leaves an order of 0 lots; a full fill leaves its *)
(* index entry behind; a partial fill erases it.                            *)
ConsumeFrontOffByOne(side, price, q) ==
    LET front == FrontOrder(side, price)
    IN  /\ IF q <= front.rem
           THEN /\ SetLevel(side, price, ReduceFront(levels[side][price], q))
                /\ UNCHANGED order_index
           ELSE /\ DropOrder(side, price, 1)
                /\ order_index' = Erase(order_index, front.id)
        /\ UNCHANGED inserted

ConsumeFrontKeepsIndex(side, price, q) ==
    /\ IF q < FrontOrder(side, price).rem
       THEN SetLevel(side, price, ReduceFront(levels[side][price], q))
       ELSE DropOrder(side, price, 1)
    /\ UNCHANGED <<order_index, inserted>>

ConsumeFrontAlwaysErases(side, price, q) ==
    LET front == FrontOrder(side, price)
    IN  /\ IF q < front.rem
           THEN SetLevel(side, price, ReduceFront(levels[side][price], q))
           ELSE DropOrder(side, price, 1)
        /\ order_index' = Erase(order_index, front.id)
        /\ UNCHANGED inserted

(* consume_front and consume_level_front: q lots leave the front order of a *)
(* level; a full fill pops it, erases its id from the index and prunes the  *)
(* level.  The matching loop passes the best level of the side.             *)
ConsumeFront(side, price, q) ==
    LET front == FrontOrder(side, price)
    IN  /\ IF q < front.rem
           THEN /\ SetLevel(side, price, ReduceFront(levels[side][price], q))
                /\ UNCHANGED order_index
           ELSE /\ DropOrder(side, price, 1)
                /\ order_index' = Erase(order_index, front.id)
        /\ UNCHANGED inserted

(* prune_empty: erase a level whose list is empty. *)
PruneEmpty(side, price) ==
    /\ IF price \in DOMAIN levels[side] /\ levels[side][price].orders = <<>>
       THEN EraseLevel(side, price) ELSE UNCHANGED levels
    /\ UNCHANGED <<order_index, inserted>>

-----------------------------------------------------------------------------
(* The book on its own, under any sequence of calls its users may make. *)

BookOrder == [id : OrderIds, user : Users, side : Sides, price : Prices, rem : 1..MaxQty]

(* A node without its place in the lists. *)
OrderOf(n) ==
    [id |-> n.id, user |-> n.user, side |-> n.side, price |-> n.price, rem |-> n.rem]

Init ==
    /\ levels = [side \in Sides |-> << >>]
    /\ order_index = << >>
    /\ inserted = 0

Add(o) ==
    /\ inserted < MaxNodes
    /\ ReuseIds \/ \A n \in Resting : n.id # o.id
    /\ AddOrder(o)

Consume(side, price, q) ==
    /\ price \in DOMAIN levels[side]
    /\ q \in 1..FrontOrder(side, price).rem
    /\ ConsumeFront(side, price, q)

Next ==
    \/ \E o \in BookOrder : Add(o)
    \/ \E id \in OrderIds : RemoveOrder(id)
    \/ \E side \in Sides, price \in Prices, q \in 1..MaxQty : Consume(side, price, q)
    \/ \E side \in Sides, price \in Prices : PruneEmpty(side, price)

Spec == Init /\ [][Next]_bookVars

-----------------------------------------------------------------------------
(* Properties *)

(* A price is a key of bids_ or asks_ exactly when orders rest there:       *)
(* best_bid, best_ask and front() never meet an empty level.                *)
NoEmptyLevel ==
    \A side \in Sides : \A p \in DOMAIN levels[side] : levels[side][p].orders # <<>>

(* Every list node lies on the side and at the price of its order. *)
WellPlaced ==
    \A side \in Sides : \A p \in DOMAIN levels[side] :
        \A i \in DOMAIN levels[side][p].orders :
            /\ levels[side][p].orders[i].side = side
            /\ levels[side][p].orders[i].price = p

(* Time priority: a list is in the order of insertion, whatever was removed *)
(* from its middle.                                                         *)
TimeOrdered ==
    \A side \in Sides : \A p \in DOMAIN levels[side] :
        LET os == levels[side][p].orders
        IN  \A i, j \in DOMAIN os : i < j => os[i].node < os[j].node

(* Node numbers are those of past insertions. *)
NodesInserted ==
    \A side \in Sides : \A p \in DOMAIN levels[side] :
        \A i \in DOMAIN levels[side][p].orders : levels[side][p].orders[i].node <= inserted

(* No stored iterator dangles: an index entry points to a resting node that *)
(* carries the entry's id.  remove_order's erase through that iterator is    *)
(* undefined behaviour otherwise.                                            *)
IndexSound ==
    \A id \in DOMAIN order_index :
        \E n \in Resting : n.id = id /\ order_index[id] = RefTo(n)

(* Every resting order can be cancelled: its id leads to its own node.  It *)
(* needs ids that are unique among resting orders.                          *)
IndexComplete ==
    \A n \in Resting : n.id \in DOMAIN order_index /\ order_index[n.id] = RefTo(n)

(* The incremental quantity of a level is the sum over its list, the        *)
(* figure the FOK pre-check and the L2 snapshot read.                       *)
LevelQtyExact ==
    \A side \in Sides : \A p \in DOMAIN levels[side] :
        LET os == levels[side][p].orders
        IN  levels[side][p].qty = SumFunction([i \in DOMAIN os |-> os[i].rem])

=============================================================================
