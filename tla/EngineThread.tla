----------------------------- MODULE EngineThread -----------------------------
(***************************************************************************)
(* The loop of the engine thread of main.cpp: an order is taken from the   *)
(* queue, counted, checked by RiskEngine::check_all and handed to the       *)
(* matching engine, while the market thread moves the mark price and the    *)
(* state of the instrument.  The mark is read once per order; the state is  *)
(* read by the checks only.                                                 *)
(*                                                                         *)
(* check_margin weighs balances that this model does not carry: it may pass *)
(* or fail.  Sizes are whole lots from min_lot to max_lot, so check_size    *)
(* passes.                                                                  *)
(***************************************************************************)
EXTENDS MatchingEngine

CONSTANTS
    InstrumentStates, \* states the market thread may set
    PriceBandPct,     \* price_band_pct, in percent
    MaxPosition,      \* max_position_size
    RateLimit,        \* rate_limit of each user
    MaxMessages       \* bound: no message is taken from a user counted as often

ASSUME EngineThreadAssumption ==
    /\ InstrumentStates \subseteq {"TRADING", "COOLDOWN", "EMERGENCY"}
    /\ PriceBandPct \in 0..100 /\ MaxPosition \in Nat
    /\ RateLimit \in Nat /\ MaxMessages \in Nat

VARIABLES
    inst_state,   \* Instrument::state, written by the market thread
    mark_price,   \* mark_engine.mark(), written by the market thread
    mark,         \* the mark read for the order in hand
    messages,     \* messages_this_sec, by user
    accepted,     \* history, by user: orders that passed the checks this second
    seen          \* history: state and position the checks saw for the order in hand

loopVars == <<inst_state, mark_price, mark, messages, accepted, seen>>
threadVars == <<vars, loopVars>>

-----------------------------------------------------------------------------
(* RiskEngine, in the order of check_all *)

CheckInstrumentState == inst_state \in {"TRADING", "COOLDOWN"}

(* Mutant: FOK orders pass. *)
CheckCooldownModeFokPasses(o) == inst_state = "COOLDOWN" => o.type # "MARKET" /\ o.tif # "IOC"

CheckCooldownMode(o) ==
    inst_state = "COOLDOWN" => o.type # "MARKET" /\ o.tif \notin {"IOC", "FOK"}

(* Mutant: the ceiling is for sellers, the floor for buyers. *)
CheckPriceBandSwapped(o) ==
    o.type # "MARKET" =>
        IF o.side = "SELL" THEN 100 * o.price <= mark_price * (100 + PriceBandPct)
                           ELSE 100 * o.price >= mark_price * (100 - PriceBandPct)

CheckPriceBand(o) ==
    o.type # "MARKET" =>
        IF o.side = "BUY" THEN 100 * o.price <= mark_price * (100 + PriceBandPct)
                          ELSE 100 * o.price >= mark_price * (100 - PriceBandPct)

(* Mutant: no check. *)
CheckRateLimitNever(count) == TRUE

CheckRateLimit(count) == count < RateLimit

(* Mutant: the size of the order is left out. *)
CheckPositionLimitCurrent(o) == Abs(position[o.user]) <= MaxPosition

CheckPositionLimit(o) ==
    Abs(position[o.user] + (IF o.side = "BUY" THEN o.rem ELSE -o.rem)) <= MaxPosition

(* check_all of an order that is the count-th message of its user. *)
CheckAll(o, count, marginOk) ==
    /\ CheckInstrumentState
    /\ CheckCooldownMode(o)
    /\ CheckPriceBand(o)
    /\ CheckRateLimit(count)
    /\ CheckPositionLimit(o)
    /\ marginOk
    /\ CheckReduceOnly(o)

-----------------------------------------------------------------------------
(* One order through the loop *)

Taken(u) ==
    /\ phase = "idle"
    /\ messages[u] < MaxMessages
    /\ messages' = [messages EXCEPT ![u] = @ + 1]

(* The order passes the checks and enters process(). *)
TakeAccepted(o) ==
    /\ Taken(o.user)
    /\ \E marginOk \in BOOLEAN : CheckAll(o, messages[o.user] + 1, marginOk)
    /\ Submit(o)
    /\ mark' = mark_price
    /\ accepted' = [accepted EXCEPT ![o.user] = @ + 1]
    /\ seen' = [state |-> inst_state, position |-> position[o.user]]
    /\ UNCHANGED <<inst_state, mark_price>>

(* The checks reject it, or process() returns at once. *)
Rejected(o) ==
    \/ \E marginOk \in BOOLEAN : ~CheckAll(o, messages[o.user] + 1, marginOk)
    \/ RejectPostOnly(o) \/ FokShort(o)

(* Nothing but the count depends on which order of the user it is. *)
TakeRejected(u) ==
    /\ Taken(u)
    /\ {o \in ClientOrder : o.user = u /\ Rejected(o)} # {}
    /\ UNCHANGED <<vars, inst_state, mark_price, mark, accepted, seen>>

IterateOrder == Iterate /\ UNCHANGED loopVars

(* The end of process() counts the message of its user once more. *)
EndProcess ==
    /\ Rest(mark) \/ DropResidual
    /\ messages' = [messages EXCEPT ![incoming.user] = @ + 1]
    /\ UNCHANGED <<inst_state, mark_price, mark, accepted, seen>>

PostTrade == (Settle \/ Finish) /\ UNCHANGED loopVars

(* A cancel sentinel: it is neither counted nor checked. *)
TakeCancel(u, id) == Cancel(u, id) /\ UNCHANGED loopVars

(* The first iteration of the outer loop in a new second. *)
ResetRates ==
    /\ phase = "idle"
    /\ messages' = [u \in Users |-> 0]
    /\ accepted' = [u \in Users |-> 0]
    /\ UNCHANGED <<vars, inst_state, mark_price, mark, seen>>

(* The market thread, at any moment. *)
SetMark(m) ==
    /\ mark_price' = m
    /\ UNCHANGED <<vars, inst_state, mark, messages, accepted, seen>>

SetState(s) ==
    /\ inst_state' = s
    /\ UNCHANGED <<vars, mark_price, mark, messages, accepted, seen>>

-----------------------------------------------------------------------------

ThreadInit ==
    /\ EngineInit
    /\ inst_state = "TRADING"
    /\ mark_price \in Marks /\ mark \in Marks
    /\ messages = [u \in Users |-> 0]
    /\ accepted = [u \in Users |-> 0]
    /\ seen = [state |-> "TRADING", position |-> 0]

ThreadNext ==
    \/ \E o \in ClientOrder : TakeAccepted(o)
    \/ \E u \in Users : TakeRejected(u)
    \/ \E u \in Users, id \in OrderIds : TakeCancel(u, id)
    \/ IterateOrder \/ EndProcess \/ PostTrade \/ ResetRates
    \/ \E m \in Marks : SetMark(m)
    \/ \E s \in InstrumentStates : SetState(s)

ThreadSpec == ThreadInit /\ [][ThreadNext]_threadVars

-----------------------------------------------------------------------------
(* Properties *)

(* The position limit binds the taker: the trades of an order that passed   *)
(* the check leave its user within the limit, or nearer to it than before,   *)
(* however much of the order was filled.                                     *)
TakerKeepsLimit ==
    phase = "settling" =>
        Abs(position[incoming.user]) <= Larger(MaxPosition, Abs(seen.position))

(* A limit order trades inside the price band of the mark it was checked    *)
(* against, although the mark moves on while it is matched and the resting   *)
(* orders were checked against earlier marks.                                *)
TradesInBand ==
    phase # "idle" /\ incoming.type # "MARKET" =>
        \A i \in DOMAIN trades :
            IF incoming.side = "BUY"
            THEN 100 * trades[i].price <= mark * (100 + PriceBandPct)
            ELSE 100 * trades[i].price >= mark * (100 - PriceBandPct)

(* What an order admitted in COOLDOWN offers is not taken back: all of it   *)
(* is filled or rests in the book.                                           *)
CooldownOrdersStay ==
    phase = "settling" /\ seen.state = "COOLDOWN" => incoming.status \in {"FILLED", "OPEN"}

(* A message is counted when it is taken and, if it was accepted, again at  *)
(* the end of process(): no user has more than half of rate_limit orders     *)
(* accepted in one second, whatever else is rejected or cancelled meanwhile. *)
AcceptedWithinRate == \A u \in Users : 2 * accepted[u] <= RateLimit
=============================================================================
