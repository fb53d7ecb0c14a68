------------------------------- MODULE Margin -------------------------------
(***************************************************************************)
(* engine/margin.{hpp,cpp}: initial and maintenance margin, equity, the     *)
(* available balance and what a new order adds, over the accounts of        *)
(* Ledger.  Rates are in parts of FeeUnit, and the square root of the        *)
(* notional is rounded down to a whole number.                              *)
(***************************************************************************)
EXTENDS Ledger

CONSTANTS
    BaseImf, ImfFactor,   \* base_imf, imf_factor
    BaseMmf, MmfFactor    \* base_mmf, mmf_factor

ASSUME MarginAssumption ==
    /\ BaseImf \in Nat /\ ImfFactor \in Nat
    /\ BaseMmf \in Nat /\ MmfFactor \in Nat
    /\ BaseMmf <= BaseImf /\ MmfFactor <= ImfFactor

Sqrt(x) == LET whole == x.n \div x.d
           IN  CHOOSE r \in 0..whole : r * r <= whole /\ whole < (r + 1) * (r + 1)

MarginRate(base, factor, notional) ==
    LET scaled == factor * Sqrt(notional)
    IN  Rate(IF scaled > base THEN scaled ELSE base)

(* Mutant: the rate of the maintenance margin. *)
CalcImAsMm(notional) == Product(MarginRate(BaseMmf, MmfFactor, notional), notional)

CalcIm(notional) == Product(MarginRate(BaseImf, ImfFactor, notional), notional)
CalcMm(notional) == Product(MarginRate(BaseMmf, MmfFactor, notional), notional)

(* position_im, and with one instrument total_cross_im; position_mm. *)
PositionIm(ps, u, mark) ==
    IF u \in DOMAIN ps THEN CalcIm(Times(mark, ps[u].size)) ELSE Whole(0)
PositionMm(ps, u, mark) ==
    IF u \in DOMAIN ps THEN CalcMm(Times(mark, ps[u].size)) ELSE Whole(0)

(* available_balance, of an account with this much margin of open orders. *)
AvailableBalance(u, mark, openOrderMargin) ==
    Minus(Minus(Equity(u, mark), PositionIm(positions, u, mark)), openOrderMargin)

(* What an order of these lots adds: nothing when it reduces; when it flips, *)
(* what the new position needs beyond what the old one frees.               *)
AdditionalIm(u, side, qty, price, mark) ==
    LET pos == positions[u]
    IN  CASE u \notin DOMAIN positions -> CalcIm(Times(price, qty))
          [] u \in DOMAIN positions /\ pos.side = side -> CalcIm(Times(price, qty))
          [] u \in DOMAIN positions /\ pos.side # side /\ ~Less(pos.size, qty) -> Whole(0)
          [] OTHER -> Greatest(Whole(0), Minus(CalcIm(Times(price, Minus(qty, pos.size))),
                                               PositionIm(positions, u, mark)))

(* RiskEngine::check_margin *)
CheckMargin(u, side, qty, price, mark, openOrderMargin) ==
    LET added == AdditionalIm(u, side, qty, price, mark)
    IN  added.n <= 0 \/ ~Less(AvailableBalance(u, mark, openOrderMargin), added)

(* The price at which the margin of a position is used up. *)
BankruptcyPrice(pos, margin) ==
    Minus(pos.entry, Times(Direction(pos.side), Quotient(margin, pos.size)))
=============================================================================
