-------------------------- MODULE TimePriorityBook --------------------------
(***************************************************************************)
(* What an order book promises, without levels, lists or an index: a set   *)
(* of orders stamped in their order of arrival.  An order can be cancelled *)
(* by its id, and what is taken at a price comes off the oldest order      *)
(* there.                                                                   *)
(***************************************************************************)
EXTENDS Integers

CONSTANTS Order, Id     \* orders: records with fields id, side, price and rem

VARIABLES
    resting,    \* [order, stamp] records
    arrivals    \* stamps given so far

vars == <<resting, arrivals>>

Init == resting = {} /\ arrivals = 0

Arrive(o) ==
    /\ arrivals' = arrivals + 1
    /\ resting' = resting \cup {[order |-> o, stamp |-> arrivals + 1]}

Cancel(id) ==
    /\ resting' = {r \in resting : r.order.id # id}
    /\ UNCHANGED arrivals

Take(side, price, q) ==
    \E r \in resting :
        /\ r.order.side = side /\ r.order.price = price /\ q \in 1..r.order.rem
        /\ \A s \in resting :
             s.order.side = side /\ s.order.price = price => r.stamp <= s.stamp
        /\ resting' = (resting \ {r}) \cup
                        (IF q < r.order.rem THEN {[r EXCEPT !.order.rem = @ - q]} ELSE {})
        /\ UNCHANGED arrivals

Next ==
    \/ \E o \in Order : Arrive(o) \/ Take(o.side, o.price, o.rem)
    \/ \E id \in Id : Cancel(id)

Spec == Init /\ [][Next]_vars
=============================================================================
