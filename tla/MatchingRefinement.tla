-------------------------- MODULE MatchingRefinement --------------------------
(***************************************************************************)
(* The engine implements PriceTimeExchange.  The incoming order is the      *)
(* taker while process() works on it; settling its trades afterwards is     *)
(* invisible to the exchange.                                               *)
(***************************************************************************)
EXTENDS MatchingEngine

Taking == phase \in {"matching", "residual"}

TapeOf(t) ==
    [maker |-> IF incoming.side = "BUY" THEN t.seller ELSE t.buyer,
     price |-> t.price, qty |-> t.qty]

Exchange == INSTANCE PriceTimeExchange
    WITH Order    <- BookOrder,
         book     <- {[order |-> OrderOf(n), stamp |-> n.node] : n \in Resting},
         arrivals <- inserted,
         taker    <- IF Taking THEN OrderOf(incoming) ELSE [none |-> TRUE],
         tape     <- IF Taking THEN [i \in DOMAIN trades |-> TapeOf(trades[i])] ELSE <<>>

(* Every behaviour of the engine is one of the exchange: fills follow price  *)
(* and then time, at the resting order's price, inside the taker's limit and *)
(* never between two orders of one user, and a removal by self-trade         *)
(* prevention or cancel touches no order but its user's.                     *)
ImplementsExchange == Exchange!Spec
=============================================================================
