-------------------------------- MODULE Ledger --------------------------------
(***************************************************************************)
(* Positions and wallets: positions.{hpp,cpp} as the engine thread uses it, *)
(* one instrument, cross margin.  Each trade is applied to its buyer and    *)
(* then to its seller; the fees are booked to fee_revenue and to the vault. *)
(*                                                                         *)
(* The average entry price is a quotient, so sizes and money are fractions; *)
(* prices and fee rates are integers, the rates in parts of FeeUnit.         *)
(***************************************************************************)
EXTENDS Fractions, Maps, FiniteSetsExt

CONSTANTS
    Users,
    Prices,
    MaxQty,         \* bound: largest trade, in lots
    MaxTrades,      \* bound: trades in one behaviour
    MakerFee, TakerFee, FeeUnit,
    Deposit,        \* what each user has paid in
    VaultSeed       \* InsuranceVault::current_balance at the start

ASSUME LedgerAssumption ==
    /\ IsFiniteSet(Users)
    /\ Prices \subseteq Nat \ {0}
    /\ MaxQty \in Nat \ {0} /\ MaxTrades \in Nat
    /\ MakerFee \in Int /\ TakerFee \in Int /\ FeeUnit \in Nat \ {0}
    /\ Deposit \in Int /\ VaultSeed \in Nat

VARIABLES
    positions,    \* UserAccount::positions, by user: at most one, of the instrument
    wallet,       \* wallet_balance, by user
    fee_revenue,  \* fee_revenue of the engine thread
    vault,        \* the InsuranceVault
    half,         \* the trade applied to its buyer only, as a set of at most one
    traded,       \* history, by user: lots bought minus lots sold
    cash,         \* history, by user: proceeds of the sales minus cost of the purchases
    fees,         \* history, by user: fees charged
    count         \* history: number of trades

vars == <<positions, wallet, fee_revenue, vault, half, traded, cash, fees, count>>

Trade ==
    {t \in [buyer : Users, seller : Users, price : Prices, qty : {Whole(q) : q \in 1..MaxQty},
            buyer_is_taker : BOOLEAN] : t.buyer # t.seller}

-----------------------------------------------------------------------------
(* apply_trade *)

PositionSide == {"LONG", "SHORT"}

Position == [side : PositionSide, size : {x \in Fraction : x.n > 0}, entry : Fraction]

(* InsuranceVault: current_balance, total_losses_absorbed, fee_revenue. *)
Vault == [balance : Fraction, losses : Fraction, fees : Fraction]

TypeOK ==
    /\ IsMap(positions, Users) /\ \A u \in DOMAIN positions : positions[u] \in Position
    /\ wallet \in [Users -> Fraction]
    /\ fee_revenue \in Fraction /\ vault \in Vault
    /\ half \subseteq Trade
    /\ traded \in [Users -> Fraction] /\ cash \in [Users -> Fraction]
    /\ fees \in [Users -> Fraction]
    /\ count \in 0..MaxTrades

Direction(side) == IF side = "LONG" THEN 1 ELSE -1

(* The side of a position that a trade opens or increases. *)
TradeSide(isBuyer) == IF isBuyer THEN "LONG" ELSE "SHORT"

Opened(side, size, price) == [side |-> side, size |-> size, entry |-> Whole(price)]

Value(t) == Times(t.price, t.qty)

(* Mutant: the entry price is the mean of the two prices. *)
IncreasedUnweighted(pos, t) ==
    [pos EXCEPT !.size = Plus(@, t.qty), !.entry = Quotient(Plus(@, Whole(t.price)), Whole(2))]

(* The entry price becomes the average over the larger size. *)
Increased(pos, t) ==
    LET size == Plus(pos.size, t.qty)
    IN  [pos EXCEPT !.size = size,
                    !.entry = Quotient(Plus(Product(@, pos.size), Value(t)), size)]

Reduced(pos, qty) == [pos EXCEPT !.size = Minus(@, qty)]

(* Mutant: a trade against a smaller position closes it and opens nothing. *)
PositionsAfterNoFlip(ps, u, t, side) ==
    LET pos == ps[u]
    IN  CASE u \notin DOMAIN ps -> Put(ps, u, Opened(side, t.qty, t.price))
          [] u \in DOMAIN ps /\ pos.side = side -> Put(ps, u, Increased(pos, t))
          [] u \in DOMAIN ps /\ pos.side # side /\ Less(t.qty, pos.size) ->
                Put(ps, u, Reduced(pos, t.qty))
          [] OTHER -> Erase(ps, u)

(* Mutant: a closed position stays, with no lots. *)
PositionsAfterKeepsClosed(ps, u, t, side) ==
    LET pos == ps[u]
    IN  CASE u \notin DOMAIN ps -> Put(ps, u, Opened(side, t.qty, t.price))
          [] u \in DOMAIN ps /\ pos.side = side -> Put(ps, u, Increased(pos, t))
          [] u \in DOMAIN ps /\ pos.side # side /\ ~Less(pos.size, t.qty) ->
                Put(ps, u, Reduced(pos, t.qty))
          [] OTHER -> Put(ps, u, Opened(side, Minus(t.qty, pos.size), t.price))

(* Cases A, B, C, D: open, increase, reduce, close and perhaps flip; ps are  *)
(* the positions before the trade.                                          *)
PositionsAfter(ps, u, t, side) ==
    LET pos == ps[u]
    IN  CASE u \notin DOMAIN ps -> Put(ps, u, Opened(side, t.qty, t.price))
          [] u \in DOMAIN ps /\ pos.side = side -> Put(ps, u, Increased(pos, t))
          [] u \in DOMAIN ps /\ pos.side # side /\ Less(t.qty, pos.size) ->
                Put(ps, u, Reduced(pos, t.qty))
          [] u \in DOMAIN ps /\ pos.side # side /\ Less(pos.size, t.qty) ->
                Put(ps, u, Opened(side, Minus(t.qty, pos.size), t.price))
          [] OTHER -> Erase(ps, u)

(* The profit on qty lots of a position, closed at a price. *)
Profit(pos, qty, price) ==
    Times(Direction(pos.side), Product(qty, Minus(Whole(price), pos.entry)))

(* Mutant: a flip realizes the profit on the whole trade. *)
RealizedOnTrade(u, t, side) ==
    IF u \notin DOMAIN positions \/ positions[u].side = side THEN Whole(0)
    ELSE Profit(positions[u], t.qty, t.price)

(* Cases C and D realize the profit on the lots they close. *)
Realized(u, t, side) ==
    IF u \notin DOMAIN positions \/ positions[u].side = side THEN Whole(0)
    ELSE Profit(positions[u], Least(t.qty, positions[u].size), t.price)

Rate(part) == Frac(part, FeeUnit)

Fee(t, isBuyer) ==
    Product(Value(t), Rate(IF isBuyer = t.buyer_is_taker THEN TakerFee ELSE MakerFee))

Booked(u, t, isBuyer) ==
    LET side == TradeSide(isBuyer)
    IN  /\ traded' = [traded EXCEPT ![u] = Plus(@, Times(Direction(side), t.qty))]
        /\ cash' = [cash EXCEPT ![u] = Minus(@, Times(Direction(side), Value(t)))]

ApplyTrade(u, t, isBuyer) ==
    LET side == TradeSide(isBuyer)
    IN  /\ positions' = PositionsAfter(positions, u, t, side)
        /\ wallet' = [wallet EXCEPT ![u] =
             Minus(Plus(@, Realized(u, t, side)), Fee(t, isBuyer))]
        /\ fees' = [fees EXCEPT ![u] = Plus(@, Fee(t, isBuyer))]
        /\ Booked(u, t, isBuyer)

(* absorb_deficit: a deficit beyond the balance takes all of it. *)
AbsorbDeficit(v, deficit) ==
    LET paid == Least(deficit, v.balance)
    IN  [v EXCEPT !.balance = Minus(@, paid), !.losses = Plus(@, paid)]

CreditFee(v, amount) == [v EXCEPT !.balance = Plus(@, amount), !.fees = Plus(@, amount)]

-----------------------------------------------------------------------------
(* The engine thread, for each trade that process() returned *)

ApplyToBuyer(t) ==
    /\ half = {} /\ count < MaxTrades
    /\ ApplyTrade(t.buyer, t, TRUE)
    /\ half' = {t} /\ count' = count + 1
    /\ UNCHANGED <<fee_revenue, vault>>

(* Fees: all of both rates to fee_revenue, half of them again to the vault. *)
ApplyToSeller(t) ==
    LET charged == Product(Value(t), Rate(MakerFee + TakerFee))
    IN  /\ half = {t}
        /\ ApplyTrade(t.seller, t, FALSE)
        /\ fee_revenue' = Plus(fee_revenue, charged)
        /\ vault' = CreditFee(vault, Quotient(charged, Whole(2)))
        /\ half' = {}
        /\ UNCHANGED count

Init ==
    /\ positions = << >>
    /\ wallet = [u \in Users |-> Whole(Deposit)]
    /\ fee_revenue = Whole(0)
    /\ vault = [balance |-> Whole(VaultSeed), losses |-> Whole(0), fees |-> Whole(0)]
    /\ half = {} /\ count = 0
    /\ traded = [u \in Users |-> Whole(0)]
    /\ cash = [u \in Users |-> Whole(0)]
    /\ fees = [u \in Users |-> Whole(0)]

-----------------------------------------------------------------------------
(* zero_sum_check *)

SumOver(S, f(_)) == MapThenFoldSet(Plus, Whole(0), f, LAMBDA T : CHOOSE x \in T : TRUE, S)

Unrealized(u, mark) ==
    IF u \in DOMAIN positions THEN Profit(positions[u], positions[u].size, mark) ELSE Whole(0)

Equity(u, mark) == Plus(wallet[u], Unrealized(u, mark))

SumEquity(mark) == SumOver(Users, LAMBDA u : Equity(u, mark))

TotalDeposited == Times(Cardinality(Users), Whole(Deposit))

ZeroSumCheck(mark) ==
    Minus(Plus(Plus(SumEquity(mark), fee_revenue), vault.balance), TotalDeposited)

-----------------------------------------------------------------------------
(* Properties *)

(* The signed size of a user's position. *)
Net(u) ==
    IF u \in DOMAIN positions
    THEN Times(Direction(positions[u].side), positions[u].size) ELSE Whole(0)

(* Through any sequence of the four cases a position is the sum of the       *)
(* trades of its user, bought minus sold: this is the position the matching  *)
(* engine's model keeps.                                                     *)
NetPosition == \A u \in Users : Net(u) = traded[u]

EntryValue(u) ==
    IF u \in DOMAIN positions THEN Product(Net(u), positions[u].entry) ELSE Whole(0)

(* Averaging, partial reductions and flips lose no money: the wallet, with  *)
(* the fees added back and the open position at its entry price taken off,   *)
(* is the deposit plus the cash of the user's trades.                        *)
EntryAccountsForCash ==
    \A u \in Users :
        Minus(Plus(wallet[u], fees[u]), EntryValue(u)) = Plus(Whole(Deposit), cash[u])

(* Between two trades zero_sum_check reports exactly the balance of the      *)
(* vault, at any mark: realized and unrealized profits and fees cancel out,  *)
(* and the vault, which no user paid in and which is credited fees that      *)
(* fee_revenue holds already, is what remains.                               *)
ZeroSumCheckIsVault ==
    half = {} => \A mark \in Prices : ZeroSumCheck(mark) = vault.balance
=============================================================================
