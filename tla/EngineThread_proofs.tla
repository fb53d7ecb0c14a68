------------------------- MODULE EngineThread_proofs -------------------------
(***************************************************************************)
(* The loop of the engine thread implements the matching engine, so what is  *)
(* proved of MatchingEngine holds here; on top of it, the limits that        *)
(* check_all is there for.                                                  *)
(***************************************************************************)
EXTENDS EngineThread, MatchingEngine_proofs

(* EngineThread!mark is the mark of the order in hand. *)
MarkOK == mark \in Marks /\ mark_price \in Marks

LEMMA MarkInitially == ThreadInit => EngineInit /\ MarkOK
  BY DEF ThreadInit, MarkOK

(* Each step is one of the matching engine, or none of its business. *)
LEMMA StepImplements ==
  ASSUME MarkOK, [ThreadNext]_threadVars
  PROVE  [EngineNext]_vars /\ MarkOK'
<1>1. ASSUME NEW o \in ClientOrder, TakeAccepted(o)  PROVE [EngineNext]_vars /\ MarkOK'
  BY <1>1 DEF TakeAccepted, EngineNext, MarkOK
<1>2. ASSUME NEW u \in Users, TakeRejected(u)  PROVE [EngineNext]_vars /\ MarkOK'
  BY <1>2 DEF TakeRejected, MarkOK
<1>3. ASSUME NEW u \in Users, NEW id \in OrderIds, TakeCancel(u, id)
      PROVE [EngineNext]_vars /\ MarkOK'
  BY <1>3 DEF TakeCancel, EngineNext, loopVars, MarkOK
<1>4. CASE IterateOrder
  BY <1>4 DEF IterateOrder, EngineNext, Process, loopVars, MarkOK
<1>5. CASE EndProcess
  BY <1>5 DEF EndProcess, EngineNext, Process, MarkOK
<1>6. CASE PostTrade
  BY <1>6 DEF PostTrade, EngineNext, Process, loopVars, MarkOK
<1>7. CASE ResetRates
  BY <1>7 DEF ResetRates, MarkOK
<1>8. ASSUME NEW m \in Marks, SetMark(m)  PROVE [EngineNext]_vars /\ MarkOK'
  BY <1>8 DEF SetMark, MarkOK
<1>9. ASSUME NEW s \in InstrumentStates, SetState(s)  PROVE [EngineNext]_vars /\ MarkOK'
  BY <1>9 DEF SetState, MarkOK
<1>10. CASE UNCHANGED threadVars
  BY <1>10 DEF threadVars, loopVars, MarkOK
<1> QED  BY <1>1, <1>2, <1>3, <1>4, <1>5, <1>6, <1>7, <1>8, <1>9, <1>10 DEF ThreadNext

(* Taken with its checks, its counters and a market thread beside it, the   *)
(* loop does to the book and the accounts what process() and cancel() do.    *)
THEOREM ThreadImplementsEngine == ThreadSpec => EngineSpec
<1>1. MarkOK /\ [ThreadNext]_threadVars => [EngineNext]_vars /\ MarkOK'
  BY StepImplements
<1> QED  BY <1>1, MarkInitially, PTL DEF ThreadSpec, EngineSpec

(* So the invariant of the matching engine holds in the loop. *)
LEMMA EngineInvInThread == ThreadSpec => []EngineInv
  BY ThreadImplementsEngine, EngineInvHolds, PTL

-----------------------------------------------------------------------------
(* What the steps do to the order in hand. *)

InProcess == phase \in {"matching", "residual"}

LEMMA TakenFields ==
  ASSUME NEW o \in ClientOrder, TakeAccepted(o)
  PROVE  /\ phase = "idle" /\ InProcess' /\ incoming' = o /\ o.user \in Users
         /\ o.type \in Types /\ o.price \in Prices /\ o.tif \in Tifs
         /\ trades' = trades
  BY DEF TakeAccepted, Submit, ClientOrder, InProcess

(* An iteration only lessens the order in hand or cancels it; a trade it     *)
(* makes is at a price that the order may trade at.                         *)
LEMMA IterateStays ==
  ASSUME EngineInv, Iterate
  PROVE  /\ phase = "matching" /\ InProcess'
         /\ incoming'.user = incoming.user /\ incoming'.type = incoming.type
         /\ incoming'.side = incoming.side /\ incoming'.price = incoming.price
         /\ incoming'.tif = incoming.tif
         /\ \/ trades' = trades
            \/ \E t \in Trade :
                /\ trades' = Append(trades, t)
                /\ \/ incoming.type = "MARKET"
                   \/ AtOrBetter(Opposite(incoming.side), t.price, incoming.price)
<1>1. ASSUME phase = "matching"  PROVE incoming \in IncomingOrder
  BY <1>1 DEF EngineInv, ProcessTypeOK
<1>2. CASE StopMatching
  BY <1>2 DEF StopMatching, InProcess
<1>3. ASSUME NEW price \in Prices, Fill(price)
      PROVE  /\ phase = "matching" /\ InProcess'
             /\ incoming' = [incoming EXCEPT !.rem = @ - FillQty(Head1(price))]
             /\ \E t \in Trade :
                 /\ trades' = Append(trades, t)
                 /\ \/ incoming.type = "MARKET"
                    \/ AtOrBetter(Opposite(incoming.side), t.price, incoming.price)
  <2> DEFINE x == Head1(price)
             t == TradeOf(x, FillQty(x))
  <2>1. /\ phase = "matching" /\ phase' = phase /\ x.price = price
        /\ t \in Trade /\ trades' = Append(trades, t)
        /\ incoming' = [incoming EXCEPT !.rem = @ - FillQty(x)]
    BY <1>3, FillFacts
  <2>2. t.price = price
    BY <2>1 DEF TradeOf
  <2>3. incoming.type = "MARKET" \/ AtOrBetter(Opposite(incoming.side), price, incoming.price)
    BY <1>3 DEF Fill, Matching, Facing
  <2> HIDE DEF t
  <2> QED  BY <2>1, <2>2, <2>3 DEF InProcess
<1>4. ASSUME NEW price \in Prices,
             StpCancelIncoming(price) \/ StpCancelResting(price) \/ StpCancelBoth(price)
      PROVE  /\ phase = "matching" /\ InProcess' /\ trades' = trades
             /\ incoming' = incoming \/ incoming' = [incoming EXCEPT !.status = "CANCELLED"]
  BY <1>4 DEF StpCancelIncoming, StpCancelResting, StpCancelBoth, Own, Matching, InProcess
<1>5. ASSUME NEW price \in Prices, Fill(price)
      PROVE  /\ incoming'.user = incoming.user /\ incoming'.type = incoming.type
             /\ incoming'.side = incoming.side /\ incoming'.price = incoming.price
             /\ incoming'.tif = incoming.tif
  BY <1>1, <1>3, <1>5 DEF IncomingOrder
<1>6. ASSUME NEW price \in Prices,
             StpCancelIncoming(price) \/ StpCancelResting(price) \/ StpCancelBoth(price)
      PROVE  /\ incoming'.user = incoming.user /\ incoming'.type = incoming.type
             /\ incoming'.side = incoming.side /\ incoming'.price = incoming.price
             /\ incoming'.tif = incoming.tif
  BY <1>1, <1>4, <1>6 DEF IncomingOrder
<1>7. CASE \E price \in Prices : Fill(price)
  BY <1>3, <1>5, <1>7
<1>8. CASE \E price \in Prices :
             StpCancelIncoming(price) \/ StpCancelResting(price) \/ StpCancelBoth(price)
  BY <1>4, <1>6, <1>8
<1> QED  BY <1>2, <1>7, <1>8 DEF Iterate, StopMatching

-----------------------------------------------------------------------------
(* An accepted order is counted twice: while it is in process() it was once. *)

Pending(u) == IF InProcess /\ incoming.user = u THEN 1 ELSE 0

RateInv ==
    /\ messages \in [Users -> Nat] /\ accepted \in [Users -> Nat]
    /\ \A u \in Users :
        /\ 2 * accepted[u] <= messages[u] + Pending(u)
        /\ 2 * accepted[u] <= RateLimit

LEMMA RateInitially == ThreadInit => RateInv
  BY EngineThreadAssumption DEF ThreadInit, EngineInit, RateInv, Pending, InProcess

(* Steps that count nothing keep it when the order in hand stays in process(). *)
LEMMA UncountedKeepRate ==
  ASSUME RateInv, UNCHANGED <<messages, accepted>>,
         \A u \in Users : Pending(u)' = Pending(u)
  PROVE  RateInv'
  BY DEF RateInv

LEMMA TakeKeepsRate ==
  ASSUME RateInv, NEW o \in ClientOrder, TakeAccepted(o)
  PROVE  RateInv'
<1>1. /\ phase = "idle" /\ InProcess' /\ incoming' = o /\ o.user \in Users
  BY TakenFields
<1>2. /\ messages' = [messages EXCEPT ![o.user] = @ + 1]
      /\ accepted' = [accepted EXCEPT ![o.user] = @ + 1]
      /\ messages[o.user] + 1 < RateLimit
  BY DEF TakeAccepted, Taken, CheckAll, CheckRateLimit
<1>3. \A u \in Users : Pending(u) = 0 /\ Pending(u)' = IF u = o.user THEN 1 ELSE 0
  BY <1>1 DEF Pending, InProcess
<1>4. messages' \in [Users -> Nat] /\ accepted' \in [Users -> Nat]
  BY <1>1, <1>2 DEF RateInv
<1>5. ASSUME NEW u \in Users
      PROVE  2 * accepted'[u] <= messages'[u] + Pending(u)' /\ 2 * accepted'[u] <= RateLimit
  <2>1. /\ messages[u] \in Nat /\ accepted[u] \in Nat /\ RateLimit \in Nat
        /\ 2 * accepted[u] <= messages[u] /\ 2 * accepted[u] <= RateLimit
    BY <1>3, EngineThreadAssumption DEF RateInv
  <2>2. CASE u = o.user
    <3>1. messages'[u] = messages[u] + 1 /\ accepted'[u] = accepted[u] + 1
      BY <1>2, <2>2 DEF RateInv
    <3> QED  BY <1>2, <1>3, <2>1, <2>2, <3>1
  <2>3. CASE u # o.user
    <3>1. messages'[u] = messages[u] /\ accepted'[u] = accepted[u]
      BY <1>2, <2>3 DEF RateInv
    <3> QED  BY <1>3, <2>1, <2>3, <3>1
  <2> QED  BY <2>2, <2>3
<1> QED  BY <1>4, <1>5 DEF RateInv

LEMMA CountKeepsRate ==
  ASSUME RateInv, NEW v \in Users, messages' = [messages EXCEPT ![v] = @ + 1],
         accepted' = accepted,
         \A u \in Users : Pending(u)' = Pending(u) \/ (u = v /\ Pending(u)' = 0)
  PROVE  RateInv'
<1>1. messages' \in [Users -> Nat] /\ accepted' \in [Users -> Nat]
  BY DEF RateInv
<1>2. ASSUME NEW u \in Users
      PROVE  2 * accepted'[u] <= messages'[u] + Pending(u)' /\ 2 * accepted'[u] <= RateLimit
  <2>1. /\ messages[u] \in Nat /\ accepted[u] \in Nat /\ Pending(u) \in {0, 1}
        /\ 2 * accepted[u] <= messages[u] + Pending(u) /\ 2 * accepted[u] <= RateLimit
    BY DEF RateInv, Pending
  <2>2. messages'[u] = IF u = v THEN messages[u] + 1 ELSE messages[u]
    BY DEF RateInv
  <2>3. Pending(u)' = Pending(u) \/ (u = v /\ Pending(u)' = 0)
    OBVIOUS
  <2> QED  BY <2>1, <2>2, <2>3
<1> QED  BY <1>1, <1>2 DEF RateInv

LEMMA StepKeepsRate ==
  ASSUME EngineInv, RateInv, [ThreadNext]_threadVars
  PROVE  RateInv'
<1>1. ASSUME NEW o \in ClientOrder, TakeAccepted(o)  PROVE RateInv'
  BY <1>1, TakeKeepsRate
<1>2. ASSUME NEW u \in Users, TakeRejected(u)  PROVE RateInv'
  <2>1. \A v \in Users : Pending(v)' = Pending(v)
    BY <1>2 DEF TakeRejected, Taken, vars, Pending, InProcess
  <2> QED  BY <1>2, <2>1, CountKeepsRate DEF TakeRejected, Taken
<1>3. ASSUME NEW u \in Users, NEW id \in OrderIds, TakeCancel(u, id)  PROVE RateInv'
  <2>1. \A v \in Users : Pending(v)' = Pending(v)
    BY <1>3 DEF TakeCancel, Cancel, processVars, Pending, InProcess
  <2> QED  BY <1>3, <2>1, UncountedKeepRate DEF TakeCancel, loopVars
<1>4. CASE IterateOrder
  <2>1. phase = "matching" /\ InProcess' /\ incoming'.user = incoming.user
    BY <1>4, IterateStays DEF IterateOrder
  <2>2. \A v \in Users : Pending(v)' = Pending(v)
    BY <2>1 DEF Pending, InProcess
  <2> QED  BY <1>4, <2>2, UncountedKeepRate DEF IterateOrder, loopVars
<1>5. CASE EndProcess
  <2>1. phase = "residual" /\ phase' = "settling" /\ incoming \in IncomingOrder
    BY <1>5 DEF EndProcess, Rest, DropResidual, EngineInv, ProcessTypeOK
  <2>2. incoming.user \in Users /\ incoming.user = incoming.user
    BY <2>1 DEF IncomingOrder
  <2>3. \A v \in Users : Pending(v)' = Pending(v) \/ (v = incoming.user /\ Pending(v)' = 0)
    BY <2>1 DEF Pending, InProcess
  <2> QED  BY <1>5, <2>2, <2>3, CountKeepsRate DEF EndProcess
<1>6. CASE PostTrade
  <2>1. phase = "settling" /\ phase' \in {"settling", "idle"}
    BY <1>6 DEF PostTrade, Settle, Finish
  <2>2. \A v \in Users : Pending(v)' = Pending(v)
    BY <2>1 DEF Pending, InProcess
  <2> QED  BY <1>6, <2>2, UncountedKeepRate DEF PostTrade, loopVars
<1>7. CASE ResetRates
  <2>1. \A v \in Users : Pending(v)' = 0
    BY <1>7 DEF ResetRates, vars, Pending, InProcess
  <2> QED  BY <1>7, <2>1, EngineThreadAssumption DEF ResetRates, RateInv
<1>8. CASE \/ \E m \in Marks : SetMark(m)
           \/ \E s \in InstrumentStates : SetState(s)
           \/ UNCHANGED threadVars
  <2>1. UNCHANGED <<vars, messages, accepted>>
    BY <1>8 DEF SetMark, SetState, threadVars, loopVars
  <2>2. \A v \in Users : Pending(v)' = Pending(v)
    BY <2>1 DEF vars, Pending, InProcess
  <2> QED  BY <2>1, <2>2, UncountedKeepRate
<1> QED  BY <1>1, <1>2, <1>3, <1>4, <1>5, <1>6, <1>7, <1>8 DEF ThreadNext

(* However messages, rejections and cancels fall within a second, no user    *)
(* has more than half of the rate limit accepted, for any limit.            *)
THEOREM ThreadAcceptedWithinRate == ThreadSpec => []AcceptedWithinRate
<1>1. RateInv => AcceptedWithinRate
  BY DEF RateInv, AcceptedWithinRate
<1>2. EngineInv /\ RateInv /\ [ThreadNext]_threadVars => RateInv'
  BY StepKeepsRate
<1> QED  BY <1>1, <1>2, RateInitially, EngineInvInThread, PTL DEF ThreadSpec

-----------------------------------------------------------------------------
(* Limit orders in the band, and orders admitted in COOLDOWN. *)

InBand(side, price) ==
    IF side = "BUY" THEN 100 * price <= mark * (100 + PriceBandPct)
                    ELSE 100 * price >= mark * (100 - PriceBandPct)

(* The limit of the order was checked, and it trades no worse than that. *)
BandInv ==
    /\ phase = "idle" => trades = <<>>
    /\ phase # "idle" /\ incoming.type # "MARKET" =>
        /\ InBand(incoming.side, incoming.price)
        /\ \A i \in DOMAIN trades : InBand(incoming.side, trades[i].price)

(* What COOLDOWN admits is good till cancelled, so its rest is not dropped. *)
CooldownInv ==
    phase # "idle" /\ seen.state = "COOLDOWN" =>
        /\ incoming.tif = "GTC"
        /\ phase = "settling" => incoming.status \in {"FILLED", "OPEN"}

LimitInv == BandInv /\ CooldownInv

LEMMA LimitInitially == ThreadInit => LimitInv
  BY DEF ThreadInit, EngineInit, LimitInv, BandInv, CooldownInv

LEMMA TakeKeepsLimits ==
  ASSUME LimitInv, NEW o \in ClientOrder, TakeAccepted(o)
  PROVE  LimitInv'
<1>1. /\ phase = "idle" /\ InProcess' /\ incoming' = o /\ o.tif \in Tifs /\ trades' = trades
  BY TakenFields
<1>2. /\ mark' = mark_price /\ seen'.state = inst_state
      /\ CheckPriceBand(o) /\ CheckCooldownMode(o)
  BY DEF TakeAccepted, CheckAll
<1>3. BandInv'
  BY <1>1, <1>2 DEF LimitInv, BandInv, InBand, InProcess, CheckPriceBand
<1>4. CooldownInv'
  BY <1>1, <1>2, EngineAssumption DEF CooldownInv, InProcess, CheckCooldownMode
<1> QED  BY <1>3, <1>4 DEF LimitInv

LEMMA IterateKeepsLimits ==
  ASSUME EngineInv, MarkOK, LimitInv, IterateOrder
  PROVE  LimitInv'
<1>1. Iterate /\ UNCHANGED loopVars
  BY DEF IterateOrder
<1>2. /\ phase = "matching" /\ InProcess' /\ incoming'.type = incoming.type
      /\ incoming'.side = incoming.side /\ incoming'.price = incoming.price
      /\ incoming'.tif = incoming.tif
      /\ \/ trades' = trades
         \/ \E t \in Trade :
             /\ trades' = Append(trades, t)
             /\ \/ incoming.type = "MARKET"
                \/ AtOrBetter(Opposite(incoming.side), t.price, incoming.price)
  BY <1>1, IterateStays
<1>3. mark' = mark /\ seen' = seen
  BY <1>1 DEF loopVars
<1>4. CooldownInv'
  BY <1>2, <1>3 DEF LimitInv, CooldownInv, InProcess
<1>5. ASSUME incoming.type # "MARKET", NEW t \in Trade,
             AtOrBetter(Opposite(incoming.side), t.price, incoming.price)
      PROVE  InBand(incoming.side, t.price)
  <2>1. incoming \in IncomingOrder
    BY <1>2 DEF EngineInv, ProcessTypeOK
  <2>2. /\ incoming.side \in {"BUY", "SELL"} /\ incoming.price \in Nat /\ t.price \in Nat
    BY <2>1, BookAssumption DEF IncomingOrder, Sides, Trade
  <2>3. InBand(incoming.side, incoming.price)
    BY <1>2, <1>5 DEF LimitInv, BandInv
  <2>4. mark \in Nat /\ PriceBandPct \in Nat
    BY EngineAssumption, EngineThreadAssumption DEF MarkOK
  <2>5. mark * (100 + PriceBandPct) \in Int /\ mark * (100 - PriceBandPct) \in Int
    BY <2>4
  <2>6. CASE incoming.side = "BUY"
    <3>1. t.price <= incoming.price
      BY <1>5, <2>6 DEF AtOrBetter, Opposite
    <3> QED  BY <2>2, <2>3, <2>5, <2>6, <3>1 DEF InBand
  <2>7. CASE incoming.side = "SELL"
    <3>1. t.price >= incoming.price
      BY <1>5, <2>7 DEF AtOrBetter, Opposite
    <3> QED  BY <2>2, <2>3, <2>5, <2>7, <3>1 DEF InBand
  <2> QED  BY <2>2, <2>6, <2>7
<1>6. trades \in Seq(Trade)
  BY DEF EngineInv, ProcessTypeOK
<1>7. BandInv'
  <2> SUFFICES ASSUME incoming.type # "MARKET"
               PROVE  /\ InBand(incoming.side, incoming.price)'
                      /\ \A i \in DOMAIN trades' : InBand(incoming.side, trades'[i].price)
    BY <1>2, <1>3 DEF BandInv, InBand, InProcess
  <2>1. InBand(incoming.side, incoming.price)'
    BY <1>2, <1>3 DEF LimitInv, BandInv, InBand
  <2>2. \A i \in DOMAIN trades : InBand(incoming.side, trades[i].price)
    BY <1>2 DEF LimitInv, BandInv
  <2>3. ASSUME NEW t \in Trade, trades' = Append(trades, t),
               AtOrBetter(Opposite(incoming.side), t.price, incoming.price),
               NEW i \in DOMAIN trades'
        PROVE  InBand(incoming.side, trades'[i].price)
    <3>1. InBand(incoming.side, t.price)
      BY <1>5, <2>3
    <3>2. (i \in DOMAIN trades /\ trades'[i] = trades[i]) \/ trades'[i] = t
      BY <1>6, <2>3
    <3> QED  BY <2>2, <3>1, <3>2
  <2> QED  BY <1>2, <2>1, <2>2, <2>3
<1> QED  BY <1>4, <1>7 DEF LimitInv

LEMMA EndKeepsLimits ==
  ASSUME EngineInv, LimitInv, EndProcess
  PROVE  LimitInv'
<1>1. /\ phase = "residual" /\ phase' = "settling" /\ trades' = trades
      /\ mark' = mark /\ seen' = seen /\ incoming \in IncomingOrder
  BY DEF EndProcess, Rest, DropResidual, EngineInv, ProcessTypeOK
<1>2. \/ incoming' = [incoming EXCEPT !.status = "OPEN"]
      \/ /\ incoming.rem = 0 \/ incoming.tif # "GTC"
         /\ incoming' = [incoming EXCEPT !.status =
              IF incoming.rem = 0 THEN "FILLED"
              ELSE IF trades = <<>> THEN "CANCELLED" ELSE "PARTIAL"]
  BY DEF EndProcess, Rest, DropResidual
<1>3. /\ incoming'.type = incoming.type /\ incoming'.side = incoming.side
      /\ incoming'.price = incoming.price /\ incoming'.tif = incoming.tif
      /\ incoming.tif = "GTC" => incoming'.status \in {"FILLED", "OPEN"}
  BY <1>1, <1>2 DEF IncomingOrder
<1> QED  BY <1>1, <1>3 DEF LimitInv, BandInv, InBand, CooldownInv

LEMMA PostTradeKeepsLimits ==
  ASSUME EngineInv, LimitInv, PostTrade
  PROVE  LimitInv'
<1>1. phase = "settling" /\ mark' = mark /\ seen' = seen
  BY DEF PostTrade, Settle, Finish, loopVars
<1>2. CASE Settle
  <2>1. /\ phase' = phase /\ incoming' = incoming /\ trades # <<>> /\ trades' = Tail(trades)
        /\ trades \in Seq(Trade)
    BY <1>2 DEF Settle, EngineInv, ProcessTypeOK
  <2>2. \A i \in DOMAIN trades' : i + 1 \in DOMAIN trades /\ trades'[i] = trades[i + 1]
    BY <2>1
  <2> QED  BY <1>1, <2>1, <2>2 DEF LimitInv, BandInv, InBand, CooldownInv
<1>3. CASE Finish
  BY <1>3 DEF Finish, LimitInv, BandInv, CooldownInv
<1> QED  BY <1>2, <1>3 DEF PostTrade

LEMMA StepKeepsLimits ==
  ASSUME EngineInv, MarkOK, LimitInv, [ThreadNext]_threadVars
  PROVE  LimitInv'
<1>1. ASSUME NEW o \in ClientOrder, TakeAccepted(o)  PROVE LimitInv'
  BY <1>1, TakeKeepsLimits
<1>2. ASSUME NEW u \in Users, NEW id \in OrderIds, TakeCancel(u, id)  PROVE LimitInv'
  BY <1>2 DEF TakeCancel, Cancel, processVars, loopVars, LimitInv, BandInv, InBand, CooldownInv
<1>3. CASE IterateOrder \/ EndProcess \/ PostTrade
  BY <1>3, IterateKeepsLimits, EndKeepsLimits, PostTradeKeepsLimits
<1>4. CASE \/ \E u \in Users : TakeRejected(u)
           \/ ResetRates
           \/ \E m \in Marks : SetMark(m)
           \/ \E s \in InstrumentStates : SetState(s)
           \/ UNCHANGED threadVars
  <2>1. UNCHANGED <<vars, mark, seen>>
    BY <1>4 DEF TakeRejected, ResetRates, SetMark, SetState, threadVars, loopVars
  <2> QED  BY <2>1 DEF vars, LimitInv, BandInv, InBand, CooldownInv
<1> QED  BY <1>1, <1>2, <1>3, <1>4 DEF ThreadNext

LEMMA LimitsHold == ThreadSpec => [](EngineInv /\ MarkOK /\ LimitInv)
<1>1. MarkOK /\ [ThreadNext]_threadVars => MarkOK'
  BY StepImplements
<1>2. EngineInv /\ MarkOK /\ LimitInv /\ [ThreadNext]_threadVars => LimitInv'
  BY StepKeepsLimits
<1> QED  BY <1>1, <1>2, MarkInitially, LimitInitially, EngineInvInThread, PTL DEF ThreadSpec

(* No limit order trades outside the band of the mark it was checked         *)
(* against, whatever marks follow and whichever orders it meets.            *)
THEOREM ThreadTradesInBand == ThreadSpec => []TradesInBand
<1>1. LimitInv => TradesInBand
  BY DEF LimitInv, BandInv, InBand, TradesInBand
<1> QED  BY <1>1, LimitsHold, PTL

(* All of an order that COOLDOWN admitted is filled or rests in the book,    *)
(* also when the state changes while it is matched.                         *)
THEOREM ThreadCooldownOrdersStay == ThreadSpec => []CooldownOrdersStay
<1>1. LimitInv => CooldownOrdersStay
  BY DEF LimitInv, CooldownInv, CooldownOrdersStay
<1> QED  BY <1>1, LimitsHold, PTL

-----------------------------------------------------------------------------
(* The position limit and the trades that are still to be settled.  The sum *)
(* of their sizes is given by the sums of their first 0, 1, 2, ... sizes.    *)

PrefixSums(f) ==
    /\ f \in [0..Len(trades) -> Nat] /\ f[0] = 0
    /\ \A i \in 1..Len(trades) : f[i] = f[i - 1] + trades[i].qty
    /\ \A i, j \in 0..Len(trades) : i <= j => f[i] <= f[j]

(* The position of the taker, moved by n lots to the side of its order. *)
Moved(n) ==
    IF incoming.side = "BUY" THEN position[incoming.user] + n
                             ELSE position[incoming.user] - n

Allowed(n) == Abs(n) <= Larger(MaxPosition, Abs(seen.position))

(* The taker is on its own side of a trade, and only there. *)
TakenBy(t) ==
    IF incoming.side = "BUY"
    THEN t.buyer = incoming.user /\ t.seller # incoming.user
    ELSE t.seller = incoming.user /\ t.buyer # incoming.user

(* What process() may still trade of the order in hand. *)
Unfilled == IF InProcess THEN incoming.rem ELSE 0

(* The position is within the limit, or no further than the checks saw it,   *)
(* and will be so when all the trades are settled and the order is filled.   *)
PositionInv ==
    phase # "idle" =>
        /\ seen.position \in Int
        /\ \A i \in DOMAIN trades : TakenBy(trades[i])
        /\ Allowed(Moved(0))
        /\ \E f : PrefixSums(f) /\ Allowed(Moved(f[Len(trades)] + Unfilled))

LEMMA MovedOrder ==
  ASSUME position[incoming.user] \in Int, NEW n \in Nat, NEW r \in Nat
  PROVE  /\ Moved(0) \in Int /\ Moved(n) \in Int /\ Moved(n + r) \in Int
         /\ \/ Moved(0) <= Moved(n) /\ Moved(n) <= Moved(n + r)
            \/ Moved(n + r) <= Moved(n) /\ Moved(n) <= Moved(0)
<1>1. CASE incoming.side = "BUY"
  BY <1>1 DEF Moved
<1>2. CASE incoming.side # "BUY"
  BY <1>2 DEF Moved
<1> QED  BY <1>1, <1>2

(* What lies between two allowed positions is allowed. *)
LEMMA AllowedBetween ==
  ASSUME seen.position \in Int, NEW a \in Int, NEW b \in Int, NEW n \in Int,
         Allowed(a), Allowed(b), (a <= n /\ n <= b) \/ (b <= n /\ n <= a)
  PROVE  Allowed(n)
  BY EngineThreadAssumption DEF Allowed, Abs, Larger

LEMMA PositionOfTaker ==
  ASSUME EngineInv, phase # "idle"
  PROVE  /\ incoming \in IncomingOrder /\ incoming.user \in Users /\ incoming.rem \in Nat
         /\ position \in [Users -> Int] /\ position[incoming.user] \in Int
         /\ trades \in Seq(Trade) /\ Len(trades) \in Nat
         /\ \A i \in 1..Len(trades) : trades[i] \in Trade /\ trades[i].qty \in Nat
<1>1. incoming \in IncomingOrder /\ trades \in Seq(Trade) /\ position \in [Users -> Int]
  BY DEF EngineInv, AccountTypeOK, ProcessTypeOK
<1>2. \A t \in Trade : t.qty \in Nat
  BY DEF Trade
<1> QED  BY <1>1, <1>2 DEF IncomingOrder

(* An iteration emits at most one trade, of the taker with someone else, and *)
(* takes its size from the order in hand.                                   *)
LEMMA IterateTrades ==
  ASSUME EngineInv, Iterate
  PROVE  /\ phase = "matching" /\ InProcess' /\ UNCHANGED position
         /\ incoming'.user = incoming.user /\ incoming'.side = incoming.side
         /\ \/ trades' = trades /\ incoming'.rem = incoming.rem
            \/ \E t \in Trade :
                /\ trades' = Append(trades, t) /\ TakenBy(t)
                /\ incoming'.rem = incoming.rem - t.qty /\ incoming'.rem \in Nat
<1>1. /\ phase = "matching" /\ InProcess'
      /\ incoming'.user = incoming.user /\ incoming'.side = incoming.side
  BY IterateStays
<1>2. incoming \in IncomingOrder
  BY <1>1 DEF EngineInv, ProcessTypeOK
<1>3. ASSUME NEW price \in Prices, Fill(price)
      PROVE  /\ UNCHANGED position
             /\ \E t \in Trade :
                 /\ trades' = Append(trades, t) /\ TakenBy(t)
                 /\ incoming'.rem = incoming.rem - t.qty /\ incoming'.rem \in Nat
  <2> DEFINE x == Head1(price)
             q == FillQty(x)
             t == TradeOf(x, q)
  <2>1. /\ t \in Trade /\ trades' = Append(trades, t) /\ x.user # incoming.user
        /\ incoming.rem - q \in Nat /\ incoming' = [incoming EXCEPT !.rem = @ - q]
    BY <1>3, FillFacts
  <2>2. TakenBy(t) /\ t.qty = q
    BY <2>1 DEF TradeOf, TakenBy
  <2>3. incoming'.rem = incoming.rem - q
    BY <1>2, <2>1 DEF IncomingOrder
  <2>4. UNCHANGED position
    BY <1>3 DEF Fill
  <2> HIDE DEF t, q
  <2> QED  BY <2>1, <2>2, <2>3, <2>4
<1>4. ASSUME \/ StopMatching
             \/ \E price \in Prices : StpCancelIncoming(price)
                  \/ StpCancelResting(price) \/ StpCancelBoth(price)
      PROVE  UNCHANGED position /\ trades' = trades /\ incoming'.rem = incoming.rem
  <2>1. /\ UNCHANGED <<position, trades>>
        /\ incoming' = incoming \/ incoming' = [incoming EXCEPT !.status = "CANCELLED"]
    BY <1>4 DEF StopMatching, StpCancelIncoming, StpCancelResting, StpCancelBoth
  <2> QED  BY <1>2, <2>1 DEF IncomingOrder
<1> QED  BY <1>1, <1>3, <1>4 DEF Iterate

LEMMA TakeKeepsPosition ==
  ASSUME EngineInv, LimitInv, NEW o \in ClientOrder, TakeAccepted(o)
  PROVE  PositionInv'
<1>1. /\ phase = "idle" /\ InProcess' /\ incoming' = o /\ trades' = trades
      /\ o.user \in Users /\ trades = <<>>
  BY TakenFields DEF LimitInv, BandInv
<1>2. o.rem \in Nat
  BY BookAssumption DEF ClientOrder
<1>3. /\ position' = position /\ seen'.position = position[o.user]
      /\ CheckPositionLimit(o)
  BY DEF TakeAccepted, CheckAll, Submit
<1>4. position[o.user] \in Int
  BY <1>1 DEF EngineInv, AccountTypeOK
<1>5. Moved(0)' = position[o.user] /\ Allowed(position[o.user])'
  BY <1>1, <1>3, <1>4, EngineThreadAssumption DEF Moved, Allowed, Abs, Larger
<1>6. Moved(0 + o.rem)' = position[o.user] + (IF o.side = "BUY" THEN o.rem ELSE -o.rem)
  BY <1>1, <1>2, <1>3, <1>4 DEF Moved
<1>7. Allowed(Moved(0 + o.rem))'
  <2> DEFINE n == position[o.user] + (IF o.side = "BUY" THEN o.rem ELSE -o.rem)
  <2>1. n \in Int /\ Abs(n) <= MaxPosition
    BY <1>2, <1>3, <1>4 DEF CheckPositionLimit
  <2> HIDE DEF n
  <2>2. Abs(n) <= Larger(MaxPosition, Abs(position[o.user]))
    BY <1>4, <2>1, EngineThreadAssumption DEF Abs, Larger
  <2> QED  BY <1>3, <1>6, <2>2 DEF Allowed, n
<1> DEFINE f == [i \in 0..0 |-> 0]
<1>8. f \in [0..0 -> Nat] /\ f[0] = 0
  OBVIOUS
<1> HIDE DEF f
<1>9. Len(trades') = 0 /\ PrefixSums(f)'
  BY <1>1, <1>8 DEF PrefixSums
<1>10. (f[Len(trades)] + Unfilled)' = 0 + o.rem
  BY <1>1, <1>8, <1>9 DEF Unfilled
<1> QED  BY <1>1, <1>3, <1>4, <1>5, <1>7, <1>9, <1>10 DEF PositionInv, Moved

LEMMA IterateKeepsPosition ==
  ASSUME EngineInv, PositionInv, IterateOrder
  PROVE  PositionInv'
<1>1. /\ phase = "matching" /\ InProcess' /\ position' = position /\ seen' = seen
      /\ incoming'.user = incoming.user /\ incoming'.side = incoming.side
      /\ \/ trades' = trades /\ incoming'.rem = incoming.rem
         \/ \E t \in Trade :
             /\ trades' = Append(trades, t) /\ TakenBy(t)
             /\ incoming'.rem = incoming.rem - t.qty /\ incoming'.rem \in Nat
  BY IterateTrades DEF IterateOrder, loopVars
<1>2. PICK f : PrefixSums(f) /\ Allowed(Moved(f[Len(trades)] + Unfilled))
  BY <1>1 DEF PositionInv
<1>3. \A n : Moved(n)' = Moved(n) /\ Allowed(n)' = Allowed(n)
  BY <1>1 DEF Moved, Allowed
<1>4. \A t : TakenBy(t)' = TakenBy(t)
  BY <1>1 DEF TakenBy
<1>5. /\ seen'.position \in Int /\ Allowed(Moved(0))'
      /\ \A i \in DOMAIN trades : TakenBy(trades[i])
  BY <1>1, <1>3 DEF PositionInv
<1>6. Unfilled = incoming.rem /\ Unfilled' = incoming'.rem
  BY <1>1 DEF Unfilled, InProcess
<1>7. CASE trades' = trades /\ incoming'.rem = incoming.rem
  <2>1. PrefixSums(f)' /\ (f[Len(trades)] + Unfilled)' = f[Len(trades)] + Unfilled
    BY <1>2, <1>6, <1>7 DEF PrefixSums
  <2>2. \A i \in DOMAIN trades' : TakenBy(trades[i])'
    BY <1>4, <1>5, <1>7
  <2>3. Allowed(Moved(f[Len(trades)] + Unfilled))'
    BY <1>2, <1>3, <2>1 DEF Moved
  <2> QED  BY <1>5, <2>1, <2>2, <2>3 DEF PositionInv
<1>8. ASSUME NEW t \in Trade, trades' = Append(trades, t), TakenBy(t),
             incoming'.rem = incoming.rem - t.qty
      PROVE  PositionInv'
  <2>1. PICK n \in Nat : n = Len(trades)
    BY <1>1, PositionOfTaker
  <2>2. /\ trades \in Seq(Trade) /\ incoming.rem \in Nat
        /\ t.qty \in Nat /\ f \in [0..n -> Nat]
        /\ f[0] = 0 /\ \A i \in 1..n : f[i] = f[i - 1] + trades[i].qty
        /\ \A i, j \in 0..n : i <= j => f[i] <= f[j]
    BY <1>1, <1>2, <2>1, PositionOfTaker DEF PrefixSums, Trade
  <2>3. /\ Len(trades') = n + 1 /\ trades'[n + 1] = t /\ DOMAIN trades' = 1..(n + 1)
        /\ \A i \in 1..n : trades'[i] = trades[i]
    BY <1>8, <2>1, <2>2
  <2>4. PICK c \in Nat, r \in Nat : c = t.qty /\ r = incoming.rem
    BY <2>2
  <2>5. PICK g \in [0..(n + 1) -> Nat] :
          g[0] = 0 /\ g[n + 1] = f[n] + c /\ \A i \in 0..n : g[i] = f[i]
    <3> DEFINE h == [i \in 0..(n + 1) |-> IF i = n + 1 THEN f[n] + c ELSE f[i]]
    <3>1. ASSUME NEW i \in 0..(n + 1)
          PROVE  (IF i = n + 1 THEN f[n] + c ELSE f[i]) \in Nat
      <4>1. f[n] \in Nat /\ f[n] + c \in Nat
        BY <2>1, <2>2
      <4>2. i # n + 1 => f[i] \in Nat
        BY <2>1, <2>2
      <4> QED  BY <4>1, <4>2
    <3>2. h \in [0..(n + 1) -> Nat]
      BY <3>1
    <3>3. 0 \in 0..(n + 1) /\ n + 1 \in 0..(n + 1) /\ 0 # n + 1 /\ 0 \in 0..n
      BY <2>1
    <3>4. ASSUME NEW i \in 0..n  PROVE i \in 0..(n + 1) /\ i # n + 1
      BY <2>1
    <3>5. h[0] = 0 /\ h[n + 1] = f[n] + c /\ \A i \in 0..n : h[i] = f[i]
      BY <2>2, <3>3, <3>4
    <3> QED  BY <3>2, <3>5
  <2>6. ASSUME NEW i \in 1..(n + 1)  PROVE g[i] = g[i - 1] + trades'[i].qty
    <3>1. CASE i = n + 1
      <4>1. (n + 1) - 1 = n /\ n \in 0..n
        BY <2>1
      <4> QED  BY <2>3, <2>4, <2>5, <3>1, <4>1
    <3>2. CASE i \in 1..n
      <4>1. i - 1 \in 0..n /\ i \in 0..n
        BY <2>1, <3>2
      <4> QED  BY <2>2, <2>3, <2>5, <3>2, <4>1
    <3> QED  BY <2>1, <3>1, <3>2
  <2>7. PrefixSums(g)'
    <3>1. ASSUME NEW i \in 0..(n + 1), NEW j \in 0..(n + 1), i <= j  PROVE g[i] <= g[j]
      <4>1. CASE j = n + 1 /\ i = n + 1
        BY <2>5, <4>1
      <4>2. CASE j = n + 1 /\ i \in 0..n
        <5>1. f[i] <= f[n] /\ f[i] \in Nat /\ f[n] \in Nat
          BY <2>1, <2>2, <4>2
        <5> QED  BY <2>2, <2>5, <4>2, <5>1
      <4>3. CASE j \in 0..n /\ i \in 0..n
        BY <2>2, <2>5, <3>1, <4>3
      <4> QED  BY <2>1, <3>1, <4>1, <4>2, <4>3
    <3> QED  BY <2>3, <2>5, <2>6, <3>1 DEF PrefixSums
  <2>8. PICK k \in Nat : k = f[n] + r
    BY <2>1, <2>2
  <2>9. g[Len(trades')] + Unfilled' = k
    <3>1. g[Len(trades')] + Unfilled' = (f[n] + c) + (r - c)
      BY <1>6, <1>8, <2>3, <2>4, <2>5
    <3>2. PICK m \in Nat : m = f[n]
      BY <2>1, <2>2
    <3>3. (m + c) + (r - c) = m + r
      OBVIOUS
    <3> QED  BY <2>8, <3>1, <3>2, <3>3
  <2>10. Allowed(Moved(k))'
    <3>1. Allowed(Moved(k))
      BY <1>2, <1>6, <2>1, <2>4, <2>8
    <3> QED  BY <1>3, <3>1
  <2>11. Allowed(Moved(g[Len(trades)] + Unfilled))'
    BY <2>9, <2>10
  <2>12. \A i \in DOMAIN trades' : TakenBy(trades[i])'
    <3> SUFFICES ASSUME NEW i \in 1..(n + 1)  PROVE TakenBy(trades'[i])
      BY <1>4, <2>3
    <3>1. CASE i = n + 1
      BY <1>8, <2>3, <3>1
    <3>2. CASE i \in 1..n
      <4>1. i \in DOMAIN trades /\ trades'[i] = trades[i]
        BY <2>1, <2>2, <2>3, <3>2
      <4> QED  BY <1>5, <4>1
    <3> QED  BY <2>1, <3>1, <3>2
  <2> QED  BY <1>5, <2>7, <2>11, <2>12 DEF PositionInv
<1> QED  BY <1>1, <1>7, <1>8

LEMMA EndKeepsPosition ==
  ASSUME EngineInv, PositionInv, EndProcess
  PROVE  PositionInv'
<1>1. /\ phase = "residual" /\ phase' = "settling" /\ InProcess /\ ~InProcess'
      /\ trades' = trades /\ position' = position /\ seen' = seen
      /\ \E status : incoming' = [incoming EXCEPT !.status = status]
  BY DEF EndProcess, Rest, DropResidual, InProcess
<1>2. /\ incoming \in IncomingOrder /\ position[incoming.user] \in Int
      /\ incoming.rem \in Nat /\ Len(trades) \in Nat
  BY <1>1, PositionOfTaker
<1>3. incoming'.user = incoming.user /\ incoming'.side = incoming.side
  BY <1>1, <1>2 DEF IncomingOrder
<1>4. PICK f : PrefixSums(f) /\ Allowed(Moved(f[Len(trades)] + Unfilled))
  BY <1>1 DEF PositionInv
<1>5. \A n : Moved(n)' = Moved(n) /\ Allowed(n)' = Allowed(n) /\ TakenBy(n)' = TakenBy(n)
  BY <1>1, <1>3 DEF Moved, Allowed, TakenBy
<1>6. PrefixSums(f)' /\ f[Len(trades)] \in Nat
  BY <1>1, <1>2, <1>4 DEF PrefixSums
<1>7. Unfilled = incoming.rem /\ Unfilled' = 0
  BY <1>1 DEF Unfilled
<1>8. PICK n \in Nat : n = f[Len(trades)]
  BY <1>6
<1>9. Allowed(Moved(n))
  <2>1. seen.position \in Int /\ Allowed(Moved(0)) /\ Allowed(Moved(n + incoming.rem))
    BY <1>1, <1>4, <1>7, <1>8 DEF PositionInv
  <2>2. /\ Moved(0) \in Int /\ Moved(n) \in Int /\ Moved(n + incoming.rem) \in Int
        /\ \/ Moved(0) <= Moved(n) /\ Moved(n) <= Moved(n + incoming.rem)
           \/ Moved(n + incoming.rem) <= Moved(n) /\ Moved(n) <= Moved(0)
    BY <1>2, MovedOrder
  <2> QED  BY <2>1, <2>2, AllowedBetween
<1>10. f[Len(trades')] + Unfilled' = n
  BY <1>1, <1>7, <1>8
<1>11. Allowed(Moved(f[Len(trades)] + Unfilled))'
  BY <1>5, <1>9, <1>10
<1> QED  BY <1>1, <1>5, <1>6, <1>11 DEF PositionInv

LEMMA SettleKeepsPosition ==
  ASSUME EngineInv, PositionInv, Settle, seen' = seen
  PROVE  PositionInv'
<1>1. /\ phase = "settling" /\ phase' = phase /\ ~InProcess /\ ~InProcess'
      /\ incoming' = incoming /\ trades # <<>> /\ trades' = Tail(trades)
  BY DEF Settle, InProcess
<1>2. /\ incoming.user \in Users /\ position \in [Users -> Int]
      /\ position[incoming.user] \in Int /\ trades \in Seq(Trade)
      /\ \A i \in 1..Len(trades) : trades[i] \in Trade /\ trades[i].qty \in Nat
  BY <1>1, PositionOfTaker
<1>3. PICK n \in Nat : n = Len(trades) /\ n > 0
  BY <1>1, <1>2
<1>4. /\ Len(trades') = n - 1 /\ DOMAIN trades' = 1..(n - 1)
      /\ \A i \in 1..(n - 1) : trades'[i] = trades[i + 1]
  BY <1>1, <1>2, <1>3
<1>5. PICK q \in Nat : q = trades[1].qty
  BY <1>2, <1>3
<1>6. PICK f : PrefixSums(f) /\ Allowed(Moved(f[Len(trades)] + Unfilled))
  BY <1>1 DEF PositionInv
<1>7. /\ f \in [0..n -> Nat] /\ f[0] = 0
      /\ \A i \in 1..n : f[i] = f[i - 1] + trades[i].qty
      /\ \A i, j \in 0..n : i <= j => f[i] <= f[j]
  BY <1>3, <1>6 DEF PrefixSums
<1>8. f[1] = q /\ f[n] \in Nat /\ q <= f[n]
  BY <1>3, <1>5, <1>7
<1>9. Unfilled = 0 /\ Unfilled' = 0
  BY <1>1 DEF Unfilled
<1>10. TakenBy(trades[1]) /\ trades[1] \in Trade /\ Head(trades) = trades[1]
  BY <1>1, <1>2, <1>3 DEF PositionInv
<1>11. \A k \in Int : Moved(k)' = Moved(k + q)
  <2> DEFINE t == trades[1]
  <2>1. position' = [position EXCEPT ![t.buyer] = @ + t.qty, ![t.seller] = @ - t.qty]
    BY <1>10 DEF Settle
  <2>2. t.buyer \in Users /\ t.seller \in Users /\ t.qty = q /\ TakenBy(t)
    BY <1>5, <1>10 DEF Trade
  <2> HIDE DEF t
  <2>3. CASE incoming.side = "BUY"
    BY <1>1, <1>2, <2>1, <2>2, <2>3 DEF Moved, TakenBy
  <2>4. CASE incoming.side # "BUY"
    BY <1>1, <1>2, <2>1, <2>2, <2>4 DEF Moved, TakenBy
  <2> QED  BY <2>3, <2>4
<1>12. \A k : Allowed(k)' = Allowed(k) /\ TakenBy(k)' = TakenBy(k)
  BY <1>1 DEF Allowed, TakenBy
<1>13. seen.position \in Int /\ Allowed(Moved(0)) /\ Allowed(Moved(f[n]))
  BY <1>1, <1>3, <1>6, <1>8, <1>9 DEF PositionInv
<1>14. Allowed(Moved(0))'
  <2>1. /\ Moved(0) \in Int /\ Moved(q) \in Int /\ Moved(f[n]) \in Int
        /\ \/ Moved(0) <= Moved(q) /\ Moved(q) <= Moved(f[n])
           \/ Moved(f[n]) <= Moved(q) /\ Moved(q) <= Moved(0)
    <3>1. PICK r \in Nat : r = f[n] - q
      BY <1>5, <1>8
    <3>2. q + r = f[n]
      BY <1>5, <1>8, <3>1
    <3> QED  BY <1>2, <3>2, MovedOrder
  <2>2. Allowed(Moved(q))
    BY <1>13, <2>1, AllowedBetween
  <2>3. Moved(0)' = Moved(q)
    BY <1>11
  <2> QED  BY <1>12, <2>2, <2>3
<1>15. PICK g \in [0..(n - 1) -> Nat] : \A i \in 0..(n - 1) : g[i] = f[i + 1] - q
  <2> DEFINE h == [i \in 0..(n - 1) |-> f[i + 1] - q]
  <2>1. ASSUME NEW i \in 0..(n - 1)  PROVE f[i + 1] - q \in Nat
    <3>1. i + 1 \in 0..n /\ 1 \in 0..n /\ 1 <= i + 1
      BY <1>3
    <3>2. f[i + 1] \in Nat /\ f[1] <= f[i + 1]
      BY <1>7, <3>1
    <3> QED  BY <1>5, <1>8, <3>2
  <2>2. h \in [0..(n - 1) -> Nat] /\ \A i \in 0..(n - 1) : h[i] = f[i + 1] - q
    BY <2>1
  <2> QED  BY <2>2
<1>16. PrefixSums(g)'
  <2>1. g[0] = 0
    BY <1>3, <1>5, <1>8, <1>15
  <2>2. ASSUME NEW i \in 1..(n - 1)  PROVE g[i] = g[i - 1] + trades'[i].qty
    <3>1. i \in 0..(n - 1) /\ i - 1 \in 0..(n - 1) /\ i + 1 \in 1..n /\ i \in 0..n
      BY <1>3
    <3>2. g[i] = f[i + 1] - q /\ g[i - 1] = f[(i - 1) + 1] - q /\ (i - 1) + 1 = i
      BY <1>15, <3>1
    <3>3. f[i + 1] = f[(i + 1) - 1] + trades[i + 1].qty /\ (i + 1) - 1 = i
      BY <1>7, <3>1
    <3>4. f[i] \in Nat /\ trades[i + 1].qty \in Nat /\ trades'[i] = trades[i + 1]
      BY <1>2, <1>3, <1>4, <1>7, <3>1
    <3>5. PICK a \in Nat, b \in Nat : a = f[i] /\ b = trades[i + 1].qty
      BY <3>4
    <3>6. g[i] = (a + b) - q /\ g[i - 1] = a - q /\ trades'[i].qty = b
      BY <3>2, <3>3, <3>4, <3>5
    <3>7. (a + b) - q = (a - q) + b
      OBVIOUS
    <3> QED  BY <3>6, <3>7
  <2>3. ASSUME NEW i \in 0..(n - 1), NEW j \in 0..(n - 1), i <= j  PROVE g[i] <= g[j]
    <3>1. i + 1 \in 0..n /\ j + 1 \in 0..n /\ i + 1 <= j + 1
      BY <1>3, <2>3
    <3>2. f[i + 1] <= f[j + 1] /\ f[i + 1] \in Nat /\ f[j + 1] \in Nat
      BY <1>7, <3>1
    <3>3. PICK a \in Nat, b \in Nat : a = f[i + 1] /\ b = f[j + 1] /\ a <= b
      BY <3>2
    <3>4. g[i] = a - q /\ g[j] = b - q
      BY <1>15, <3>3
    <3>5. a - q <= b - q
      BY <3>3
    <3> QED  BY <3>4, <3>5
  <2> QED  BY <1>4, <1>15, <2>1, <2>2, <2>3 DEF PrefixSums
<1>17. Allowed(Moved(g[Len(trades)] + Unfilled))'
  <2>1. n - 1 \in 0..(n - 1) /\ (n - 1) + 1 = n
    BY <1>3
  <2>2. g[n - 1] = f[n] - q
    BY <1>15, <2>1
  <2>3. g[Len(trades')] + Unfilled' = f[n] - q
    <3>1. f[n] - q \in Int
      BY <1>5, <1>8
    <3>2. Len(trades') = n - 1 /\ Unfilled' = 0
      BY <1>4, <1>9
    <3>3. g[Len(trades')] = f[n] - q
      BY <2>2, <3>2
    <3> QED  BY <3>1, <3>2, <3>3
  <2>4. Moved(f[n] - q)' = Moved(f[n])
    <3>1. f[n] - q \in Int /\ (f[n] - q) + q = f[n]
      BY <1>5, <1>8
    <3> QED  BY <1>11, <3>1
  <2> QED  BY <1>12, <1>13, <2>3, <2>4
<1>18. \A i \in DOMAIN trades' : TakenBy(trades[i])'
  <2> SUFFICES ASSUME NEW i \in 1..(n - 1)  PROVE TakenBy(trades'[i])
    BY <1>4, <1>12
  <2>1. i + 1 \in DOMAIN trades /\ trades'[i] = trades[i + 1]
    <3>1. i + 1 \in 1..n
      OBVIOUS
    <3>2. DOMAIN trades = 1..n
      BY <1>2, <1>3
    <3> QED  BY <1>4, <3>1, <3>2
  <2> QED  BY <1>1, <2>1 DEF PositionInv
<1> QED  BY <1>13, <1>14, <1>16, <1>17, <1>18 DEF PositionInv

LEMMA StepKeepsPosition ==
  ASSUME EngineInv, LimitInv, PositionInv, [ThreadNext]_threadVars
  PROVE  PositionInv'
<1>1. ASSUME NEW o \in ClientOrder, TakeAccepted(o)  PROVE PositionInv'
  BY <1>1, TakeKeepsPosition
<1>2. ASSUME NEW u \in Users, NEW id \in OrderIds, TakeCancel(u, id)  PROVE PositionInv'
  BY <1>2 DEF TakeCancel, Cancel, processVars, PositionInv
<1>3. CASE IterateOrder \/ EndProcess
  BY <1>3, IterateKeepsPosition, EndKeepsPosition
<1>4. CASE PostTrade
  BY <1>4, SettleKeepsPosition DEF PostTrade, Finish, loopVars, PositionInv
<1>5. CASE \/ \E u \in Users : TakeRejected(u)
           \/ ResetRates
           \/ \E m \in Marks : SetMark(m)
           \/ \E s \in InstrumentStates : SetState(s)
           \/ UNCHANGED threadVars
  <2>1. UNCHANGED <<position, phase, incoming, trades, seen>>
    BY <1>5 DEF TakeRejected, ResetRates, SetMark, SetState, threadVars, loopVars, vars
  <2>2. \A f : PrefixSums(f)' = PrefixSums(f)
    BY <2>1 DEF PrefixSums
  <2> QED  BY <2>1, <2>2
           DEF PositionInv, TakenBy, Allowed, Moved, Unfilled, InProcess
<1> QED  BY <1>1, <1>2, <1>3, <1>4, <1>5 DEF ThreadNext

(* For any limit and any mix of fills: what the checks let through leaves    *)
(* its user within the limit after each of its trades, or no further from    *)
(* zero than the position the checks saw.                                   *)
THEOREM ThreadTakerKeepsLimit == ThreadSpec => []TakerKeepsLimit
<1>1. ThreadInit => PositionInv
  BY DEF ThreadInit, EngineInit, PositionInv
<1>2. EngineInv /\ LimitInv /\ PositionInv /\ [ThreadNext]_threadVars => PositionInv'
  BY StepKeepsPosition
<1>3. EngineInv /\ PositionInv => TakerKeepsLimit
  <2> SUFFICES ASSUME EngineInv, PositionInv, phase = "settling"
               PROVE  Abs(position[incoming.user]) <= Larger(MaxPosition, Abs(seen.position))
    BY DEF TakerKeepsLimit
  <2>1. position[incoming.user] \in Int /\ Allowed(Moved(0))
    BY PositionOfTaker DEF PositionInv
  <2> QED  BY <2>1 DEF Allowed, Moved
<1> QED  BY <1>1, <1>2, <1>3, LimitsHold, PTL DEF ThreadSpec
=============================================================================
