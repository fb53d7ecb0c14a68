---------------------------- MODULE MatchingEngine ----------------------------
(***************************************************************************)
(* The matching engine of engine/matching.{hpp,cpp} over the order book,   *)
(* driven by the engine thread of main.cpp, for one instrument.            *)
(*                                                                         *)
(* process() is split where its loop iterates: Submit is its entry, Fill   *)
(* and the Stp actions are one iteration of try_match each, Rest or        *)
(* DropResidual is its end, and Settle applies one of the returned trades  *)
(* to the positions of both sides as main.cpp does before it takes the     *)
(* next order.  phase is the program counter: no step can be skipped.      *)
(***************************************************************************)
EXTENDS OrderBook, FiniteSets

CONSTANTS
    Types,            \* order types, execution conditions, self-trade prevention
    Tifs,             \*   modes and reduce_only flags that the clients of an
    StpModes,         \*   instance use: subsets of the enumerations of models.hpp
    ReduceOnlyFlags,
    Marks,            \* mark prices the engine thread may read
    BandPct,          \* impact_band_pct, in percent
    BaseImf,          \* base_imf and imf_factor, in integers of one unit
    ImfFactor

ASSUME EngineAssumption ==
    /\ Types \subseteq {"LIMIT", "MARKET", "POST_ONLY"}
    /\ Tifs \subseteq {"GTC", "IOC", "FOK"}
    /\ StpModes \subseteq {"CANCEL_INCOMING", "CANCEL_RESTING", "CANCEL_BOTH"}
    /\ ReduceOnlyFlags \subseteq BOOLEAN
    /\ 0 \in Prices
    /\ Marks \subseteq Nat \ {0}
    /\ BandPct \in 0..100 /\ BaseImf \in Nat /\ ImfFactor \in Nat

VARIABLES
    open_orders,        \* UserAccount::open_orders: user -> id -> copy of the order
    open_order_margin,  \* UserAccount::open_order_margin
    position,           \* net position: +size when LONG, -size when SHORT, 0 when none
    phase,              \* where the engine thread is
    incoming,           \* the Order process() works on
    arrival_best,       \* incoming.arrival_best
    trades              \* the trades try_match has emitted, not yet settled

accountVars == <<open_orders, open_order_margin, position>>
processVars == <<phase, incoming, arrival_best, trades>>
vars == <<levels, order_index, inserted, open_orders, open_order_margin, position,
          phase, incoming, arrival_best, trades>>

Phases == {"idle", "matching", "residual", "settling"}

(* Orders as clients send them: a price except for MARKET orders. *)
ClientOrder ==
    {o \in [id : OrderIds, user : Users, side : Sides, type : Types, price : Prices,
            rem : 1..MaxQty, tif : Tifs, reduce_only : ReduceOnlyFlags, stp : StpModes,
            status : {"NEW"}] :
        (o.type = "MARKET") = (o.price = 0)}

(* The copy of an order in open_orders: what release_order_margin reads. *)
OpenOrderOfNode(n) == [side |-> n.side, price |-> n.price, rem |-> n.rem]

NoOrder == [status |-> "NONE"]

OpenOrder == [side : Sides, price : Prices, rem : Int]

Trade == [buyer : Users, seller : Users, price : Prices, qty : Nat \ {0}]

IncomingOrder ==
    [id : OrderIds, user : Users, side : Sides, type : Types, price : Prices,
     rem : Nat, tif : Tifs, reduce_only : ReduceOnlyFlags, stp : StpModes,
     status : {"NEW", "CANCELLED", "OPEN", "PARTIAL", "FILLED"}]

AccountTypeOK ==
    /\ open_orders = [u \in Users |-> open_orders[u]]
    /\ \A u \in Users :
        /\ IsMap(open_orders[u], OrderIds)
        /\ \A id \in DOMAIN open_orders[u] : open_orders[u][id] \in OpenOrder
    /\ open_order_margin \in [Users -> Nat]
    /\ position \in [Users -> Int]

ProcessTypeOK ==
    /\ phase \in Phases
    /\ IF phase = "idle" THEN incoming = NoOrder ELSE incoming \in IncomingOrder
    /\ arrival_best \in Prices
    /\ trades \in Seq(Trade)

EngineTypeOK == TypeOK /\ AccountTypeOK /\ ProcessTypeOK

-----------------------------------------------------------------------------
(* margin.cpp: the initial margin of a notional grows with its square root  *)
(* above the base fraction.                                                  *)

Larger(a, b) == IF a >= b THEN a ELSE b
Smaller(a, b) == IF a <= b THEN a ELSE b
Abs(n) == IF n >= 0 THEN n ELSE -n

SquareRoot(n) == Cardinality({r \in 1..n : r * r <= n})

CalcImf(notional) == Larger(BaseImf, ImfFactor * SquareRoot(notional))

CalcIm(notional) == CalcImf(notional) * notional

(* Mutant: only the base fraction is reserved. *)
ReserveBaseMargin(u, o, mark) ==
    open_order_margin' = [open_order_margin EXCEPT
        ![u] = @ + BaseImf * o.rem * (IF o.price > 0 THEN o.price ELSE mark)]

(* reserve_order_margin takes the mark where the price is 0; release takes 0. *)
ReserveMargin(u, o, mark) ==
    open_order_margin' = [open_order_margin EXCEPT
        ![u] = @ + CalcIm(o.rem * (IF o.price > 0 THEN o.price ELSE mark))]

ReleaseMargin(u, price, qty) ==
    open_order_margin' = [open_order_margin EXCEPT
        ![u] = IF qty > 0 THEN Larger(0, @ - CalcIm(qty * price)) ELSE @]

-----------------------------------------------------------------------------
(* Entry of process() *)

(* check_reduce_only, before process(): the order is against a position. *)
CheckReduceOnly(o) ==
    o.reduce_only => IF o.side = "BUY" THEN position[o.user] < 0 ELSE position[o.user] > 0

(* Best price of the opposite side.  With none, the code stores 0 or         *)
(* DBL_MAX, and nothing reads it: an order that finds no opposite side meets *)
(* no fill.                                                                  *)
ArrivalBest(side) ==
    IF DOMAIN levels[Opposite(side)] = {} THEN {0} ELSE BestPrices(Opposite(side))

RejectPostOnly(o) == o.type = "POST_ONLY" /\ Crosses(o.side, o.price, FALSE)

(* The depth check of FOK counts every order at or better than the price. *)
FokShort(o) == o.tif = "FOK" /\ AvailableQty(o.side, o.price) < o.rem

Submit(o) ==
    /\ phase = "idle"
    /\ inserted < MaxNodes
    /\ ReuseIds \/ \A n \in Resting : n.id # o.id
    /\ CheckReduceOnly(o)
    /\ ~RejectPostOnly(o) /\ ~FokShort(o)   \* the order would leave, nothing changed
    /\ phase' = IF o.type = "POST_ONLY" THEN "residual" ELSE "matching"
    /\ incoming' = o
    /\ arrival_best' \in ArrivalBest(o.side)
    /\ UNCHANGED <<levels, order_index, inserted, open_orders, open_order_margin,
                   position, trades>>

-----------------------------------------------------------------------------
(* One iteration of try_match *)

ViolatesImpactBand(price) ==
    /\ arrival_best > 0
    /\ IF incoming.side = "BUY" THEN 100 * price > arrival_best * (100 + BandPct)
                                ELSE 100 * price < arrival_best * (100 - BandPct)

(* price is the best level of the other side, and incoming may trade there. *)
Facing(price) ==
    /\ price \in BestPrices(Opposite(incoming.side))
    /\ \/ incoming.type = "MARKET"
       \/ AtOrBetter(Opposite(incoming.side), price, incoming.price)
    /\ ~ViolatesImpactBand(price)

Head1(price) == FrontOrder(Opposite(incoming.side), price)

(* A reduce-only order fills at most the size of its user's position, as it *)
(* stands while the order is matched.                                       *)
MaxFill ==
    IF incoming.reduce_only THEN Smaller(incoming.rem, Abs(position[incoming.user]))
                            ELSE incoming.rem

Matching(price) == phase = "matching" /\ incoming.rem > 0 /\ Facing(price)

StopMatching ==
    /\ phase = "matching"
    /\ \/ incoming.rem = 0
       \/ \A price \in Prices : ~Facing(price)
       \/ \E price \in Prices :
            Facing(price) /\ Head1(price).user # incoming.user /\ MaxFill = 0
    /\ phase' = "residual"
    /\ UNCHANGED <<levels, order_index, inserted, open_orders, open_order_margin, position,
                   incoming, arrival_best, trades>>

TradeOf(x, q) ==
    [buyer  |-> IF incoming.side = "BUY" THEN incoming.user ELSE x.user,
     seller |-> IF incoming.side = "BUY" THEN x.user ELSE incoming.user,
     price  |-> x.price, qty |-> q]

(* user.open_orders[id] = c, and user.open_orders.erase(id). *)
PutOpenOrder(u, id, c) == open_orders' = [open_orders EXCEPT ![u] = Put(@, id, c)]
EraseOpenOrder(u, id) == open_orders' = [open_orders EXCEPT ![u] = Erase(@, id)]

(* unordered_map::operator[] makes an entry that is not there. *)
OpenOrderOf(u, id) ==
    Lookup(open_orders[u], id, [side |-> "BUY", price |-> 0, rem |-> 0])

(* Mutant: the copy of a filled order stays, with nothing left of it. *)
SyncOpenOrderKeeps(x, q) ==
    PutOpenOrder(x.user, x.id, [OpenOrderOf(x.user, x.id) EXCEPT !.rem = @ - q])

(* The resting user's copy of an order follows its fills. *)
SyncOpenOrder(x, q) ==
    IF q = x.rem
    THEN EraseOpenOrder(x.user, x.id)
    ELSE PutOpenOrder(x.user, x.id, [OpenOrderOf(x.user, x.id) EXCEPT !.rem = @ - q])

(* Mutant: the resting order is always taken whole. *)
FillQtyOfResting(x) == x.rem

FillQty(x) == Smaller(MaxFill, x.rem)

Fill(price) ==
    LET x == Head1(price)
        q == FillQty(x)
    IN  /\ Matching(price)
        /\ x.user # incoming.user
        /\ MaxFill > 0
        /\ trades' = Append(trades, TradeOf(x, q))
        /\ ReleaseMargin(x.user, x.price, q)
        /\ ConsumeFront(Opposite(incoming.side), price, q)
        /\ incoming' = [incoming EXCEPT !.rem = @ - q]
        /\ SyncOpenOrder(x, q)
        /\ UNCHANGED <<position, phase, arrival_best>>

(* Mutants: the order's margin stays reserved; the order stays in the book. *)
RemoveOwnKeepsMargin(x) ==
    /\ UNCHANGED open_order_margin
    /\ RemoveOrder(x.id)
    /\ EraseOpenOrder(x.user, x.id)

RemoveOwnCopyOnly(x) ==
    /\ ReleaseMargin(x.user, x.price, x.rem)
    /\ UNCHANGED bookVars
    /\ EraseOpenOrder(x.user, x.id)

(* handle_stp: what happens to the resting order of the same user. *)
RemoveOwn(x) ==
    /\ ReleaseMargin(x.user, x.price, x.rem)
    /\ RemoveOrder(x.id)
    /\ EraseOpenOrder(x.user, x.id)

Own(price, mode) ==
    Matching(price) /\ Head1(price).user = incoming.user /\ incoming.stp = mode

StpCancelIncoming(price) ==
    /\ Own(price, "CANCEL_INCOMING")
    /\ incoming' = [incoming EXCEPT !.status = "CANCELLED"]
    /\ phase' = "residual"
    /\ UNCHANGED <<levels, order_index, inserted, open_orders, open_order_margin, position,
                   arrival_best, trades>>

StpCancelResting(price) ==
    /\ Own(price, "CANCEL_RESTING")
    /\ RemoveOwn(Head1(price))
    /\ UNCHANGED <<position, phase, incoming, arrival_best, trades>>

StpCancelBoth(price) ==
    /\ Own(price, "CANCEL_BOTH")
    /\ RemoveOwn(Head1(price))
    /\ incoming' = [incoming EXCEPT !.status = "CANCELLED"]
    /\ phase' = "residual"
    /\ UNCHANGED <<position, arrival_best, trades>>

-----------------------------------------------------------------------------
(* End of process(): what is left of the order, by its time in force *)

Rest(mark) ==
    /\ phase = "residual" /\ incoming.rem > 0 /\ incoming.tif = "GTC"
    /\ AddOrder(incoming)
    /\ ReserveMargin(incoming.user, incoming, mark)
    /\ PutOpenOrder(incoming.user, incoming.id, OpenOrderOfNode(incoming))
    /\ incoming' = [incoming EXCEPT !.status = "OPEN"]
    /\ phase' = "settling"
    /\ UNCHANGED <<position, arrival_best, trades>>

DropResidual ==
    /\ phase = "residual"
    /\ incoming.rem = 0 \/ incoming.tif # "GTC"
    /\ incoming' = [incoming EXCEPT !.status =
         IF incoming.rem = 0 THEN "FILLED"
         ELSE IF trades = <<>> THEN "CANCELLED" ELSE "PARTIAL"]
    /\ phase' = "settling"
    /\ UNCHANGED <<levels, order_index, inserted, open_orders, open_order_margin, position,
                   arrival_best, trades>>

-----------------------------------------------------------------------------
(* main.cpp, after process(): apply_trade to both sides of each trade *)

Settle ==
    /\ phase = "settling" /\ trades # <<>>
    /\ LET t == Head(trades)
       IN  position' = [position EXCEPT ![t.buyer] = @ + t.qty, ![t.seller] = @ - t.qty]
    /\ trades' = Tail(trades)
    /\ UNCHANGED <<levels, order_index, inserted, open_orders, open_order_margin,
                   phase, incoming, arrival_best>>

Finish ==
    /\ phase = "settling" /\ trades = <<>>
    /\ phase' = "idle" /\ incoming' = NoOrder /\ arrival_best' = 0
    /\ UNCHANGED <<levels, order_index, inserted, accountVars, trades>>

(* cancel, of an order its user has: a cancel request, or liquidation. *)
Cancel(u, id) ==
    /\ phase = "idle"
    /\ id \in DOMAIN open_orders[u]
    /\ ReleaseMargin(u, open_orders[u][id].price, open_orders[u][id].rem)
    /\ RemoveOrder(id)
    /\ EraseOpenOrder(u, id)
    /\ UNCHANGED <<position, processVars>>

-----------------------------------------------------------------------------

EngineInit ==
    /\ Init
    /\ open_orders = [u \in Users |-> << >>]
    /\ open_order_margin = [u \in Users |-> 0]
    /\ position = [u \in Users |-> 0]
    /\ phase = "idle" /\ incoming = NoOrder /\ arrival_best = 0 /\ trades = <<>>

(* The steps of the engine thread once it has taken an order. *)
Iterate ==
    \/ StopMatching
    \/ \E price \in Prices :
        Fill(price) \/ StpCancelIncoming(price) \/ StpCancelResting(price) \/ StpCancelBoth(price)

Process ==
    Iterate \/ (\E mark \in Marks : Rest(mark)) \/ DropResidual \/ Settle \/ Finish

EngineNext ==
    \/ \E o \in ClientOrder : Submit(o)
    \/ \E u \in Users, id \in OrderIds : Cancel(u, id)
    \/ Process

EngineSpec == EngineInit /\ [][EngineNext]_vars

(* The engine thread runs on while it has an order in hand. *)
FairSpec == EngineSpec /\ WF_vars(Process)

-----------------------------------------------------------------------------
(* Properties *)

(* The two copies of a resting order never part: the orders in the book of  *)
(* a user are those of her open_orders, with the same price and the same    *)
(* remaining quantity, through partial fills, self-trade removals, cancels  *)
(* and rests.  It needs ids that are unique among resting orders.           *)
OpenOrdersMirror ==
    \A u \in Users :
        /\ DOMAIN open_orders[u] = {n.id : n \in {m \in Resting : m.user = u}}
        /\ \A n \in Resting :
             n.user = u => open_orders[u][n.id] = OpenOrderOfNode(n)

(* What the open orders of a user need, each margined on its own. *)
OrdersMargin(u) ==
    SumFunction([id \in DOMAIN open_orders[u] |->
                    CalcIm(open_orders[u][id].rem * open_orders[u][id].price)])

(* Margin is reserved once for a whole order and released fill by fill.     *)
(* Whatever the order of fills, cancels and self-trade removals, what stays *)
(* reserved covers the orders that still rest: the sum of the parts never   *)
(* releases more than the whole, although the rate grows with the notional. *)
MarginCovers == \A u \in Users : open_order_margin[u] >= OrdersMargin(u)

(* With a constant margin rate and no MARKET order at rest the reservation  *)
(* is exact, so a user without open orders has all her margin back.         *)
MarginExact == \A u \in Users : open_order_margin[u] = OrdersMargin(u)

Uncrossed == \A b \in BestPrices("BUY"), a \in BestPrices("SELL") : b < a

(* The best bid stays below the best ask: no fill, removal or cancel, and no *)
(* order that comes to rest crosses the book, but one that self-trade        *)
(* prevention has cancelled and that rests all the same.  Reduce-only orders *)
(* and the impact band also stop an order that crosses; not here.            *)
CrossedOnlyByCancelled ==
    [][Uncrossed /\ ~Uncrossed' => inserted' > inserted /\ incoming.status = "CANCELLED"]_vars

(* The depth that the FOK check counted is really there: an accepted FOK    *)
(* order is filled in full unless it met an order of its own user, which the *)
(* check had counted too.  CANCEL_RESTING leaves no trace of such a meeting. *)
FokStopsOnlyAtOwnOrder ==
    phase = "residual" /\ incoming.tif = "FOK" /\ incoming.rem > 0
        => \/ incoming.type = "POST_ONLY"
           \/ incoming.status = "CANCELLED" \/ incoming.stp = "CANCEL_RESTING"

(* Only its owner's actions or a fill take an order out of the book: an     *)
(* order that leaves is the first one facing the incoming order, or its     *)
(* user cancelled it, or its user's incoming order met it.                  *)
OnlyOwnersWithdraw ==
    [][\A n \in Resting :
        n.node \notin {m.node : m \in Resting'} =>
            \/ trades' # trades /\ n \in {Head1(p) : p \in {q \in Prices : Facing(q)}}
            \/ phase = "matching" /\ n.user = incoming.user
            \/ phase = "idle" /\ n.id \in DOMAIN open_orders[n.user]
                              /\ n.id \notin DOMAIN open_orders'[n.user]]_vars

(* Matching one order ends: an iteration that goes on has taken lots from   *)
(* the incoming order or an order from the book, also the one that continues *)
(* without a trade because self-trade prevention removed a resting order.    *)
Work == incoming.rem + Cardinality(Resting)

MatchingAdvances ==
    [][phase = "matching" /\ phase' = "matching" => Work' < Work]_vars

(* The engine thread returns to its queue: matching one order ends. *)
ProcessTerminates == phase # "idle" ~> phase = "idle"

(* Statements of the documentation and of comments in the code. *)

(* A reduce-only order never turns the position of its user around. *)
ReduceOnlyReduces ==
    [][phase = "settling" /\ phase' = "settling" /\ incoming.reduce_only =>
        IF incoming.side = "BUY" THEN position'[incoming.user] <= 0
                                 ELSE position'[incoming.user] >= 0]_vars
=============================================================================
