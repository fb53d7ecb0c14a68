------------------------- MODULE OrderBookRefinement -------------------------
(***************************************************************************)
(* OrderBook implements TimePriorityBook: the nodes of all its lists are   *)
(* the resting orders, a node's number is its arrival stamp.               *)
(***************************************************************************)
EXTENDS OrderBook

Abstract == INSTANCE TimePriorityBook
    WITH Order    <- BookOrder,
         Id       <- OrderIds,
         resting  <- {[order |-> OrderOf(n), stamp |-> n.node] : n \in Resting},
         arrivals <- inserted

(* Every behaviour of the book is one of the abstract book. *)
ImplementsTimePriority == Abstract!Spec

(* The correspondence call by call: add_order appends the newest order,    *)
(* remove_order takes out the order of that id and nothing else, and       *)
(* consume_front takes from the oldest order of the level, although the    *)
(* code finds the order through a stored iterator and the front of a list. *)
CallsCorrespond ==
    [][/\ \A o \in BookOrder : Add(o) => Abstract!Arrive(o)
       /\ \A id \in OrderIds : RemoveOrder(id) => Abstract!Cancel(id)
       /\ \A side \in Sides, price \in Prices, q \in 1..MaxQty :
            Consume(side, price, q) => Abstract!Take(side, price, q)]_bookVars
=============================================================================
