----------------------------- MODULE Liquidation -----------------------------
(***************************************************************************)
(* engine/risk_monitor.cpp, liquidation.cpp and the callbacks of main.cpp   *)
(* that join them: the market thread ticks the mark price, scans the users  *)
(* and liquidates, chunk by chunk, an account below its maintenance margin, *)
(* while the engine thread applies trades to the accounts of Ledger.        *)
(*                                                                         *)
(* The two threads take no lock.  They interleave here between any two      *)
(* steps, with one exception.  trigger() holds a reference into the map of   *)
(* positions of its user: what the code does has no meaning once a trade of  *)
(* the engine thread erases that position, or changes it while the order of  *)
(* a chunk is being filled, and such trades are left out.                    *)
(***************************************************************************)
EXTENDS Margin, Sequences, SequencesExt

CONSTANTS
    Marks,       \* mark prices of a tick
    PriceBand,   \* price_band_pct, in parts of FeeUnit
    LiqFee,      \* liq_fee_rate, in parts of FeeUnit
    LiqBand,     \* liq_band_pct, in parts of FeeUnit
    ChunkParts,  \* liq_chunk_pct is one of so many parts
    MinLot,      \* min_lot, in lots
    MaxChunks,   \* MAX_ITERATIONS of trigger
    MaxCalls     \* bound: calls of trigger() in one behaviour

ASSUME LiquidationAssumption ==
    /\ Marks \subseteq Nat \ {0}
    /\ PriceBand \in Nat /\ LiqFee \in Nat /\ LiqBand \in 0..FeeUnit
    /\ ChunkParts \in Nat \ {0} /\ MinLot \in Nat \ {0} /\ MaxChunks \in Nat \ {0}
    /\ MaxCalls \in Nat

VARIABLES
    mark,     \* MarkPriceEngine::mark_
    trigger,  \* trigger() in progress, as a set of at most one: its user, whose
              \* position is LIQUIDATING, chunks_executed, and what the order of
              \* the present chunk may still fill
    calls     \* history: number of calls of trigger()

marketVars == <<mark, trigger, calls>>
liqVars == <<vars, marketVars>>

Filling == {x \in trigger : x.chunk.n > 0}
BetweenChunks == {x \in trigger : x.chunk.n = 0}

Healthy(u) == Less(PositionMm(positions, u, mark), Equity(u, mark))

LiqTypeOK ==
    /\ TypeOK
    /\ mark \in Marks
    /\ \A x \in trigger :
        /\ x.user \in Users /\ x.chunks \in 0..MaxChunks
        /\ x.chunk \in Fraction /\ x.chunk.n >= 0
    /\ calls \in 0..MaxCalls

-----------------------------------------------------------------------------
(* Engine thread: a trade whose taker passed check_price_band, with a limit  *)
(* at the price of the trade, and check_margin.  The margin of the taker's   *)
(* other orders is not kept here; none is the least there is.                *)

TakerOf(t) == IF t.buyer_is_taker THEN t.buyer ELSE t.seller
TakerSide(t) == TradeSide(t.buyer_is_taker)

CheckPriceBand(side, price) ==
    FeeUnit * Direction(side) * (price - mark) <= PriceBand * mark

Admitted(t) ==
    /\ CheckPriceBand(TakerSide(t), t.price)
    /\ CheckMargin(TakerOf(t), TakerSide(t), t.qty, t.price, mark, Whole(0))

EngineTrade(t) ==
    /\ \A x \in Filling : x.user \notin {t.buyer, t.seller}
    /\ (ApplyToBuyer(t) /\ Admitted(t)) \/ ApplyToSeller(t)
    /\ \A x \in trigger : x.user \in DOMAIN positions'
    /\ UNCHANGED marketVars

-----------------------------------------------------------------------------
(* Market thread: RiskMonitor::scan *)

Tick(m) ==
    /\ trigger = {}
    /\ mark' = m
    /\ UNCHANGED <<vars, trigger, calls>>

(* The scan comes to a user below his margin; the one position is the worst  *)
(* there is.  A user it passes over, or only warns, is left as he is.        *)
Scan(u) ==
    /\ trigger = {}
    /\ u \in DOMAIN positions /\ ~Healthy(u)
    /\ trigger' = {[user |-> u, chunks |-> 0, chunk |-> Whole(0)]}
    /\ calls < MaxCalls /\ calls' = calls + 1
    /\ UNCHANGED <<vars, mark>>

-----------------------------------------------------------------------------
(* Market thread: LiquidationEngine::trigger *)

(* Step 2: the account is healthy again once the orders are cancelled; here *)
(* because of a trade since the scan.                                       *)
Abort ==
    \E x \in BetweenChunks :
        /\ x.chunks = 0 /\ Healthy(x.user)
        /\ trigger' = {}
        /\ UNCHANGED <<vars, mark, calls>>

(* Mutant: the chunk is not capped at the position. *)
ChunkOfUncapped(size) == Greatest(Whole(MinLot), Quotient(size, Whole(ChunkParts)))

ChunkOf(size) == Least(Greatest(Whole(MinLot), Quotient(size, Whole(ChunkParts))), size)

(* Mutant: a chunk that fills nothing is not counted. *)
StartChunkUncounted ==
    \E x \in BetweenChunks :
        /\ x.user \in DOMAIN positions /\ ~Healthy(x.user)
        /\ x.chunks < MaxChunks
        /\ trigger' = {[x EXCEPT !.chunk = ChunkOf(positions[x.user].size)]}
        /\ UNCHANGED <<vars, mark, calls>>

(* The loop goes on: a reduce-only IOC order for the next chunk. *)
StartChunk ==
    \E x \in BetweenChunks :
        /\ x.user \in DOMAIN positions /\ ~Healthy(x.user)
        /\ x.chunks < MaxChunks
        /\ trigger' = {[x EXCEPT !.chunks = @ + 1, !.chunk = ChunkOf(positions[x.user].size)]}
        /\ UNCHANGED <<vars, mark, calls>>

(* The order crosses what rests at its limit or better. *)
WithinLiqBand(side, price) ==
    IF side = "LONG" THEN FeeUnit * price >= mark * (FeeUnit - LiqBand)
    ELSE FeeUnit * price <= mark * (FeeUnit + LiqBand)

(* A chunk fills whole lots of resting orders, or what is left of it. *)
FillSizes(left) == {left} \cup {q \in {Whole(k) : k \in 1..MaxQty} : Less(q, left)}

(* rank_adl_candidates: the winners of the other side, by profit over margin *)
(* times effective leverage.                                               *)
Candidates(u) ==
    {v \in DOMAIN positions :
        positions[v].side # positions[u].side /\ Unrealized(v, mark).n > 0}

Score(v) ==
    LET size == positions[v].size
        im   == PositionIm(positions, v, mark)
        eq   == Equity(v, mark)
    IN  IF im.n <= 0 \/ eq.n <= 0 THEN Whole(0)
        ELSE Product(Quotient(Unrealized(v, mark), im), Quotient(Times(mark, size), eq))

(* Mutant: the lowest score comes first. *)
RankingsReversed(u) ==
    {r \in SetToSeqs(Candidates(u)) :
        \A i, j \in DOMAIN r : i < j => ~Less(Score(r[j]), Score(r[i]))}

(* The sort leaves the order of equal scores open. *)
Rankings(u) ==
    {r \in SetToSeqs(Candidates(u)) :
        \A i, j \in DOMAIN r : i < j => ~Less(Score(r[i]), Score(r[j]))}

AdlLots(v, remaining) == Least(positions[v].size, Quotient(remaining, Whole(mark)))

(* What run_adl has taken, once it has come to a candidate. *)
AdlFrom(acc, v) ==
    LET lots == AdlLots(v, acc.remaining)
    IN  [remaining |-> Minus(acc.remaining, Times(mark, lots)), lots |-> Put(acc.lots, v, lots)]

(* The lots that run_adl takes from each candidate, for a deficit. *)
AdlTaken(ranking, deficit) ==
    LET run[i \in 0..Len(ranking)] ==
          IF i = 0 THEN [remaining |-> deficit, lots |-> << >>]
          ELSE AdlFrom(run[i - 1], ranking[i])
    IN  run[Len(ranking)].lots

Deleveraged(taken) ==
    [v \in {w \in DOMAIN positions : w \in DOMAIN taken => Less(taken[w], positions[w].size)}
        |-> IF v \in DOMAIN taken THEN Reduced(positions[v], taken[v]) ELSE positions[v]]

(* Mutant: the profit on the whole position. *)
AdlProfitOfAll(v, lots) == Profit(positions[v], positions[v].size, mark)

(* A candidate is closed at the mark, and pays no fee. *)
AdlProfit(v, lots) == Profit(positions[v], lots, mark)

(* What a trade below the bankruptcy price of the position (above it, for a  *)
(* short) leaves uncovered.                                                 *)
DeficitOf(u, t) ==
    LET pos   == positions[u]
        bk    == BankruptcyPrice(pos, PositionIm(positions, u, mark))
        worse == Times(Direction(pos.side), Minus(bk, Whole(t.price)))
    IN  IF worse.n > 0 THEN Product(worse, t.qty) ELSE Whole(0)

(* Mutant: the fee is a part of the lots. *)
LiquidationFeeOnLots(t) == Product(t.qty, Rate(LiqFee))

LiquidationFee(t) == Product(Value(t), Rate(LiqFee))

(* The histories of a candidate take its forced close as a trade at the mark. *)
SettleFill(u, t, taken) ==
    LET isBuyer == positions[u].side = "SHORT"
        side    == TradeSide(isBuyer)
        fee     == Plus(Fee(t, isBuyer), LiquidationFee(t))
        Closes(v, f) == Times(Direction(positions[v].side), f)
    IN  /\ positions' = PositionsAfter(Deleveraged(taken), u, t, side)
        /\ wallet' = [v \in Users |->
             CASE v = u -> Minus(Plus(wallet[u], Realized(u, t, side)), fee)
               [] v \in DOMAIN taken -> Plus(wallet[v], AdlProfit(v, taken[v]))
               [] OTHER -> wallet[v]]
        /\ fees' = [fees EXCEPT ![u] = Plus(@, fee)]
        /\ traded' = [v \in Users |->
             CASE v = u -> Plus(traded[u], Times(Direction(side), t.qty))
               [] v \in DOMAIN taken -> Minus(traded[v], Closes(v, taken[v]))
               [] OTHER -> traded[v]]
        /\ cash' = [v \in Users |->
             CASE v = u -> Minus(cash[u], Times(Direction(side), Value(t)))
               [] v \in DOMAIN taken -> Plus(cash[v], Closes(v, Times(mark, taken[v])))
               [] OTHER -> cash[v]]

(* One trade of a chunk: the fee to the vault, the deficit from it, the rest *)
(* from the candidates, and apply_trade for the liquidated user.  Neither    *)
(* the other party of the trade nor fee_revenue is touched.                 *)
Fill(price, qty) ==
    \E x \in Filling :
        LET u   == x.user
            pos == positions[u]
            t   == [price |-> price, qty |-> qty, buyer_is_taker |-> pos.side = "SHORT"]
            credited == CreditFee(vault, LiquidationFee(t))
            deficit  == DeficitOf(u, t)
        IN  /\ qty \in FillSizes(x.chunk) /\ WithinLiqBand(pos.side, price)
            /\ vault' = AbsorbDeficit(credited, deficit)
            /\ \E ranking \in IF Less(credited.balance, deficit) THEN Rankings(u) ELSE {<<>>} :
                 SettleFill(u, t, AdlTaken(ranking, deficit))
            /\ trigger' = {[x EXCEPT !.chunk = Minus(@, qty)]}
            /\ UNCHANGED <<fee_revenue, half, count, mark, calls>>

(* What the book did not fill is dropped. *)
EndChunk ==
    \E x \in Filling :
        /\ trigger' = {[x EXCEPT !.chunk = Whole(0)]}
        /\ UNCHANGED <<vars, mark, calls>>

(* The loop ends; the vault pays what the wallet is short of, or the account *)
(* is forgiven it.                                                          *)
Finish ==
    \E x \in BetweenChunks :
        LET short == Greatest(Whole(0), Minus(Whole(0), wallet[x.user]))
        IN  /\ x.chunks > 0
            /\ x.user \notin DOMAIN positions \/ x.chunks = MaxChunks \/ Healthy(x.user)
            /\ vault' = AbsorbDeficit(vault, short)
            /\ wallet' = [wallet EXCEPT ![x.user] = Plus(@, short)]
            /\ fees' = [fees EXCEPT ![x.user] = Minus(@, short)]
            /\ trigger' = {}
            /\ UNCHANGED <<positions, fee_revenue, half, traded, cash, count, mark, calls>>

-----------------------------------------------------------------------------

LiqInit ==
    /\ Init
    /\ mark \in Marks
    /\ trigger = {} /\ calls = 0

Liquidate ==
    \/ Abort \/ StartChunk \/ EndChunk \/ Finish
    \/ \E x \in Filling : \E price \in Prices, qty \in FillSizes(x.chunk) : Fill(price, qty)

LiqNext ==
    \/ \E t \in Trade : EngineTrade(t)
    \/ \E m \in Marks : Tick(m)
    \/ \E u \in Users : Scan(u)
    \/ Liquidate

LiqSpec == LiqInit /\ [][LiqNext]_liqVars

-----------------------------------------------------------------------------
(* Properties *)

(* Only the engine thread's steps change half. *)
MarketStep == half' = half

Liquidated == {x.user : x \in trigger}

(* A liquidation only reduces: no step of it opens, enlarges or turns round  *)
(* a position, of the liquidated user or of one that is deleveraged.        *)
LiquidationReduces ==
    [][MarketStep => \A u \in Users :
        /\ Net(u)'.n * Net(u).n >= 0
        /\ ~Less(Times(Direction(IF Net(u).n >= 0 THEN "LONG" ELSE "SHORT"), Net(u)),
                 Times(Direction(IF Net(u).n >= 0 THEN "LONG" ELSE "SHORT"), Net(u)'))]_liqVars

(* Nobody else pays: a liquidation leaves the equity of every other user as *)
(* it was at the mark, also when it takes lots from winners; what the vault  *)
(* did not cover is recovered from no one.                                  *)
OthersKeepEquity ==
    [][MarketStep => \A u \in Users \ Liquidated :
        mark' = mark => Equity(u, mark)' = Equity(u, mark)]_liqVars

(* Lots are taken from winners only as a last resort, when the vault has     *)
(* been emptied, and from the one with the highest score first: while lots  *)
(* of a lower one are taken, nothing is left of his position.               *)
AdlLastAndInOrder ==
    [][MarketStep => \A v \in Users \ Liquidated : Net(v)' # Net(v) =>
        /\ vault.balance'.n = 0
        /\ \A x \in trigger : \A w \in Candidates(x.user) :
            Less(Score(v), Score(w)) => Net(w)'.n = 0]_liqVars

OnBaseRate(u) ==
    u \in DOMAIN positions =>
        MmfFactor * Sqrt(Times(mark, positions[u].size)) <= BaseMmf

Excess(u) == Minus(Equity(u, mark), PositionMm(positions, u, mark))

(* While the maintenance margin is at its base rate, which the fees of a     *)
(* liquidation trade exceed, no chunk filled at the mark or worse brings the *)
(* account nearer to health: gradual liquidation sells all of it.           *)
FillsNeverRestore ==
    [][\A x \in Filling : \A price \in Prices, qty \in FillSizes(x.chunk) :
        LET u == x.user
        IN  /\ Fill(price, qty) /\ OnBaseRate(u)
            /\ Direction(positions[u].side) * (price - mark) <= 0
            => Less(Excess(u)', Excess(u))]_liqVars

(* An order that needs margin and passes check_margin does not put its user  *)
(* up for liquidation: filled no worse than the mark, the account is above   *)
(* its maintenance margin after the trade and its fee.                       *)
AdmittedSurvives ==
    [][\A t \in half \cup half' :
        LET u == TakerOf(t)
            s == TakerSide(t)
        IN  /\ IF t.buyer_is_taker THEN half = {} /\ half' = {t} ELSE half = {t} /\ half' = {}
            /\ AdditionalIm(u, s, t.qty, t.price, mark).n > 0 /\ Admitted(t)
            /\ Direction(s) * (t.price - mark) <= 0
            => Healthy(u)']_liqVars

(* Whatever the book fills or does not fill, trigger() makes for its end:    *)
(* every step begins the next of at most MaxChunks chunks, or uses up the    *)
(* present one.                                                             *)
LiquidationAdvances ==
    [][MarketStep => \A x \in trigger, y \in trigger' :
        \/ y.chunks = x.chunks + 1
        \/ y.chunks = x.chunks /\ Less(y.chunk, x.chunk)]_liqVars

(* "V1 tech.md":1439: at all times the trading profits, realized and         *)
(* unrealized, of all users add up to nothing.                              *)
FuturesAreZeroSum ==
    half = {} => \A m \in Marks :
        SumOver(Users, LAMBDA u :
            Minus(Plus(Equity(u, m), fees[u]), Whole(Deposit))) = Whole(0)

(* Until the first liquidation, the zero-sum check of Ledger. *)
ZeroSumUntilLiquidation == calls = 0 => ZeroSumCheckIsVault
=============================================================================
