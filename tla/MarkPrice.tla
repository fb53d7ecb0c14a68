------------------------------ MODULE MarkPrice ------------------------------
(***************************************************************************)
(* engine/mark_price.hpp as the market thread of main.cpp drives it: on      *)
(* every tick the simulator gives an index and the book a mid, and the mark  *)
(* is the index and a smoothed basis, kept near the index.                   *)
(*                                                                         *)
(* Prices are whole units.  The weight of the smoothing is left open: the    *)
(* new average is any value from the old one to the sample.                 *)
(***************************************************************************)
EXTENDS Integers

CONSTANTS
    Prices,        \* values of the index: GBMSimulator::tick is never below 1
    Mids,          \* values of the book's mid, 0 when a side is empty
    InitialPrice,  \* GBMSimulator::price at the start
    MarkClamp      \* the mark is this near the index, in percent

ASSUME MarkPriceAssumption ==
    /\ Prices \subseteq Nat \ {0} /\ Mids \subseteq Nat
    /\ InitialPrice \in Prices /\ MarkClamp \in 0..100

VARIABLES
    mark,   \* mark_
    index,  \* index_
    ewma    \* ewma_

markVars == <<mark, index, ewma>>

(* Is p no further from the index i than the clamp allows? *)
NearIndex(p, i) == 100 * p \in (100 - MarkClamp) * i .. (100 + MarkClamp) * i

(* The basis of a book with two sides; main passes the index for another. *)
Basis(i, mid) == IF mid > 0 THEN mid - i ELSE 0

Smoothed(old, sample) == IF old <= sample THEN old..sample ELSE sample..old

(* Mutant: near the index of the tick before. *)
ClampedToOld(p, i) ==
    LET near == {m \in 0..(2 * index) : NearIndex(m, index)}
        Dist(m) == IF m < p THEN p - m ELSE m - p
    IN  CHOOSE m \in near : \A k \in near : Dist(m) <= Dist(k)

(* std::clamp: p, or the nearest price that is near the index. *)
Clamped(p, i) ==
    LET near == {m \in 0..(2 * i) : NearIndex(m, i)}
        Dist(m) == IF m < p THEN p - m ELSE m - p
    IN  CHOOSE m \in near : \A k \in near : Dist(m) <= Dist(k)

UpdateMark(i, mid) ==
    /\ ewma' \in Smoothed(ewma, Basis(i, mid))
    /\ mark' = Clamped(i + ewma', i)
    /\ index' = i

(* reset *)
InitMark == mark = InitialPrice /\ index = InitialPrice /\ ewma = 0
=============================================================================
