-------------------------- MODULE PriceTimeExchange --------------------------
(***************************************************************************)
(* What the matching engine promises, without levels, lists or iterators:  *)
(* a set of resting orders, each stamped with the turn in which it arrived, *)
(* and at most one taker at a time.  A taker trades only with the oldest    *)
(* order of the best price of the other side, at that order's price, within *)
(* its own limit and never with an order of its own user; what is left of   *)
(* it is dropped, or rests as the youngest order.                           *)
(***************************************************************************)
EXTENDS Integers, Sequences

CONSTANT Order   \* the orders clients may send: [id, user, side, price, rem]

VARIABLES
    book,      \* set of [order, stamp]
    arrivals,  \* number of orders that came to rest so far
    taker,     \* the order being matched, or NoTaker
    tape       \* the trades of the taker

exchangeVars == <<book, arrivals, taker, tape>>

NoTaker == [none |-> TRUE]

Idle == taker = NoTaker

Better(side, p, q) == IF side = "BUY" THEN p > q ELSE p < q

(* A taker without a price takes any. *)
WithinLimit(o, price) ==
    o.price = 0 \/ IF o.side = "BUY" THEN price <= o.price ELSE price >= o.price

(* m is the order that price-time priority puts first on its side. *)
First(m) ==
    \A n \in book : n.order.side = m.order.side =>
        /\ ~Better(m.order.side, n.order.price, m.order.price)
        /\ n.order.price = m.order.price => m.stamp <= n.stamp

Init == book = {} /\ arrivals = 0 /\ taker = NoTaker /\ tape = <<>>

Accept(o) ==
    /\ Idle
    /\ taker' = o /\ tape' = <<>>
    /\ UNCHANGED <<book, arrivals>>

(* q lots change hands between the taker and the first order facing it. *)
Trade(m, q) ==
    /\ ~Idle
    /\ m.order.side # taker.side /\ m.order.user # taker.user
    /\ First(m) /\ WithinLimit(taker, m.order.price)
    /\ q <= taker.rem /\ q <= m.order.rem
    /\ taker' = [taker EXCEPT !.rem = @ - q]
    /\ book' = (book \ {m}) \cup
               (IF q = m.order.rem THEN {} ELSE {[m EXCEPT !.order.rem = @ - q]})
    /\ tape' = Append(tape, [maker |-> m.order.user, price |-> m.order.price, qty |-> q])
    /\ UNCHANGED arrivals

(* A resting order leaves untraded; while a taker is matched, only its own *)
(* user's orders can (self-trade prevention).                               *)
Withdraw(m) ==
    /\ Idle \/ m.order.user = taker.user
    /\ book' = book \ {m}
    /\ UNCHANGED <<arrivals, taker, tape>>

(* What is left of the taker is dropped, or rests. *)
Leave ==
    /\ ~Idle
    /\ taker' = NoTaker /\ tape' = <<>>
    /\ UNCHANGED <<book, arrivals>>

RestTaker ==
    /\ ~Idle /\ taker.rem > 0
    /\ book' = book \cup {[order |-> taker, stamp |-> arrivals + 1]}
    /\ arrivals' = arrivals + 1
    /\ taker' = NoTaker /\ tape' = <<>>

Next ==
    \/ \E o \in Order : Accept(o)
    \/ \E m \in book : Withdraw(m) \/ \E q \in 1..m.order.rem : Trade(m, q)
    \/ Leave \/ RestTaker

Spec == Init /\ [][Next]_exchangeVars
=============================================================================
