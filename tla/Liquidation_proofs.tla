-------------------------- MODULE Liquidation_proofs --------------------------
(***************************************************************************)
(* The accounts through trades, liquidations and deleveraging, for any     *)
(* users, prices, sizes, rates and marks, and however the steps of the     *)
(* engine thread and of the market thread interleave.  Every trade moves   *)
(* the lots, the value at entry, the wallet and the cash of a user by      *)
(* amounts that fit (Moves, Agree); LiqInv collects what that keeps true,  *)
(* and FlowInv adds up the users until the first liquidation.              *)
(***************************************************************************)
EXTENDS Liquidation, Data_proofs

-----------------------------------------------------------------------------
(* Products with a sum or a multiple, in terms of products. *)

LEMMA TimesProduct ==
  ASSUME NEW k \in Int, NEW a \in Rational, NEW b \in Rational
  PROVE  Product(Times(k, a), b) = Times(k, Product(a, b))
<1>1. Whole(k) \in Rational
  BY WholeRational
<1> QED  BY <1>1, ProductLaws DEF Times

LEMMA ProfitIs ==
  ASSUME NEW k \in Int, NEW q \in Rational, NEW p \in Int, NEW e \in Rational
  PROVE  Times(k, Product(q, Minus(Whole(p), e))) =
           Minus(Times(k, Times(p, q)), Times(k, Product(q, e)))
<1>1. Whole(p) \in Rational
  BY WholeRational
<1>2. PICK m : m = Minus(Whole(p), e) /\ m \in Rational
  BY <1>1, Closed
<1>3. Product(q, m) = Minus(Times(p, q), Product(q, e))
  <2>1. Product(q, m) = Product(m, q) /\ Product(e, q) = Product(q, e)
    BY <1>2, ProductLaws
  <2>2. Product(m, q) = Minus(Product(Whole(p), q), Product(e, q))
    BY <1>1, <1>2, ProductLaws
  <2> QED  BY <2>1, <2>2 DEF Times
<1>4. PICK a \in Rational, b \in Rational : a = Times(p, q) /\ b = Product(q, e)
  BY Closed
<1>5. Times(k, Minus(a, b)) = Minus(Times(k, a), Times(k, b))
  <2>1. Shared(a, b, a, a, a, a, a, a)
    BY Common
  <2>2. PICK D \in Nat \ {0} : HasOver(a, D) /\ HasOver(b, D)
    BY <2>1 DEF Shared
  <2>3. PICK m2 \in Int, n2 \in Int : m2 = Over(a, D) /\ n2 = Over(b, D)
    BY <2>2, OverFacts
  <2>4. PICK x, y, z : /\ x = Minus(a, b) /\ HasOver(x, D) /\ Over(x, D) = m2 - n2
                       /\ y = Times(k, a) /\ HasOver(y, D) /\ Over(y, D) = k * m2
                       /\ z = Times(k, b) /\ HasOver(z, D) /\ Over(z, D) = k * n2
    <3>1. /\ HasOver(Minus(a, b), D) /\ Over(Minus(a, b), D) = m2 - n2
      BY <2>2, <2>3, Linearly
    <3>2. /\ HasOver(Times(k, a), D) /\ Over(Times(k, a), D) = k * m2
      BY <2>2, <2>3, Multiples
    <3>3. /\ HasOver(Times(k, b), D) /\ Over(Times(k, b), D) = k * n2
      BY <2>2, <2>3, Multiples
    <3> QED  BY <3>1, <3>2, <3>3
  <2>5. HasOver(Times(k, x), D) /\ Over(Times(k, x), D) = k * Over(x, D)
    BY <2>4, Multiples
  <2>6. HasOver(Minus(y, z), D) /\ Over(Minus(y, z), D) = Over(y, D) - Over(z, D)
    BY <2>4, Linearly
  <2>7. k * (m2 - n2) = k * m2 - k * n2
    OBVIOUS
  <2>8. Over(Times(k, x), D) = Over(Minus(y, z), D)
    BY <2>4, <2>5, <2>6, <2>7
  <2> QED  BY <2>4, <2>5, <2>6, <2>8, Compared
<1> QED  BY <1>2, <1>3, <1>4, <1>5
-----------------------------------------------------------------------------
(* Positions in lowest terms. *)

Posn == [side : PositionSide, size : {x \in Rational : x.n > 0}, entry : Rational]

Holding(ps) == IsMap(ps, Users) /\ \A u \in DOMAIN ps : ps[u] \in Posn

(* Net and EntryValue, of any positions. *)
NetOf(ps, u) ==
    IF u \in DOMAIN ps THEN Times(Direction(ps[u].side), ps[u].size) ELSE Whole(0)
EntryOf(ps, u) ==
    IF u \in DOMAIN ps THEN Product(NetOf(ps, u), ps[u].entry) ELSE Whole(0)
RealizedOf(ps, u, t, side) ==
    IF u \notin DOMAIN ps \/ ps[u].side = side THEN Whole(0)
    ELSE Profit(ps[u], Least(t.qty, ps[u].size), t.price)

(* Two maps of positions that differ at u only. *)
SameBut(ps, qs, u) ==
    \A v \in Users \ {u} :
        /\ v \in DOMAIN qs <=> v \in DOMAIN ps
        /\ v \in DOMAIN ps => qs[v] = ps[v]

LEMMA PutFacts ==
  ASSUME NEW ps, Holding(ps), NEW u \in Users, NEW pos \in Posn
  PROVE  /\ Holding(Put(ps, u, pos)) /\ SameBut(ps, Put(ps, u, pos), u)
         /\ u \in DOMAIN Put(ps, u, pos) /\ Put(ps, u, pos)[u] = pos
BY DEF Holding, IsMap, Put, SameBut

LEMMA EraseFacts ==
  ASSUME NEW ps, Holding(ps), NEW u \in Users
  PROVE  /\ Holding(Erase(ps, u)) /\ SameBut(ps, Erase(ps, u), u)
         /\ u \notin DOMAIN Erase(ps, u)
BY DEF Holding, IsMap, Erase, Restrict, SameBut

LEMMA Directed ==
  ASSUME NEW D \in Nat \ {0}, NEW a, HasOver(a, D), NEW s \in PositionSide
  PROVE  /\ Direction(s) \in Int
         /\ HasOver(Times(Direction(s), a), D)
         /\ Over(Times(Direction(s), a), D) = IF s = "LONG" THEN Over(a, D) ELSE -Over(a, D)
<1>1. PICK m \in Int : m = Over(a, D)
  BY OverFacts
<1>2. /\ HasOver(Times(1, a), D) /\ Over(Times(1, a), D) = 1 * m
      /\ HasOver(Times(-1, a), D) /\ Over(Times(-1, a), D) = (-1) * m
  <2>1. PICK j \in Int, k \in Int : j = 1 /\ k = -1
    OBVIOUS
  <2>2. HasOver(Times(j, a), D) /\ Over(Times(j, a), D) = j * Over(a, D)
    BY Multiples
  <2>3. HasOver(Times(k, a), D) /\ Over(Times(k, a), D) = k * Over(a, D)
    BY Multiples
  <2> QED  BY <1>1, <2>1, <2>2, <2>3
<1>3. CASE s = "LONG"
  BY <1>1, <1>2, <1>3 DEF Direction
<1>4. CASE s = "SHORT"
  BY <1>1, <1>2, <1>4 DEF Direction
<1> QED  BY <1>3, <1>4 DEF PositionSide

LEMMA SumAndRest ==
  ASSUME NEW a \in Rational, a.n > 0, NEW b \in Rational, b.n > 0
  PROVE  /\ Plus(a, b).n > 0
         /\ Less(b, a) => Minus(a, b).n > 0
         /\ ~Less(b, a) /\ ~Less(a, b) => a = b
<1>1. Shared(a, b, a, a, a, a, a, a)
  BY Common
<1>2. PICK D \in Nat \ {0} : HasOver(a, D) /\ HasOver(b, D)
  BY <1>1 DEF Shared
<1>3. PICK m \in Int, n \in Int : m = Over(a, D) /\ n = Over(b, D) /\ m > 0 /\ n > 0
  BY <1>2, OverFacts, Signs
<1>4. /\ HasOver(Plus(a, b), D) /\ Over(Plus(a, b), D) = m + n
      /\ HasOver(Minus(a, b), D) /\ Over(Minus(a, b), D) = m - n
  BY <1>2, <1>3, Linearly
<1>5. (Plus(a, b).n > 0 <=> m + n > 0) /\ (Minus(a, b).n > 0 <=> m - n > 0)
  BY <1>4, Signs
<1>6. (Less(b, a) <=> n < m) /\ (Less(a, b) <=> m < n) /\ (a = b <=> m = n)
  BY <1>2, <1>3, Compared
<1> QED  BY <1>3, <1>5, <1>6

(* The value at entry of lots opened at a price. *)
LEMMA OpenedValue ==
  ASSUME NEW k \in Int, NEW q \in Rational, NEW p \in Int
  PROVE  Product(Times(k, q), Whole(p)) = Times(k, Times(p, q))
<1>1. Whole(p) \in Rational
  BY WholeRational
<1>2. Product(Times(k, q), Whole(p)) = Times(k, Product(q, Whole(p)))
  BY <1>1, TimesProduct
<1>3. Product(q, Whole(p)) = Times(p, q)
  BY <1>1, ProductLaws DEF Times
<1> QED  BY <1>2, <1>3

(* Trades, those of chunks too. *)
TradeFacts(t) == t.price \in Int /\ t.qty \in Rational /\ t.qty.n > 0

LEMMA OtherSide ==
  ASSUME NEW s \in PositionSide, NEW r \in PositionSide, r # s
  PROVE  r = "LONG" <=> s # "LONG"
BY DEF PositionSide

LEMMA SideIs ==
  ASSUME NEW s \in PositionSide
  PROVE  Direction(s) \in Int
BY DEF PositionSide, Direction

(* What a trade does to the lots and to the value at entry of a position. *)
Moves(ps, qs, u, t, side) ==
    /\ Holding(qs) /\ SameBut(ps, qs, u)
    /\ NetOf(qs, u) = Plus(NetOf(ps, u), Times(Direction(side), t.qty))
    /\ EntryOf(qs, u) = Plus(Plus(EntryOf(ps, u), Times(Direction(side), Value(t))),
                             RealizedOf(ps, u, t, side))
    /\ RealizedOf(ps, u, t, side) \in Rational

LEMMA OpeningMoves ==
  ASSUME NEW ps, Holding(ps), NEW u \in Users, u \notin DOMAIN ps,
         NEW t, TradeFacts(t), NEW side \in PositionSide
  PROVE  Moves(ps, Put(ps, u, Opened(side, t.qty, t.price)), u, t, side)
<1>1. PICK p \in Int, q \in Rational : p = t.price /\ q = t.qty /\ q.n > 0
  BY DEF TradeFacts
<1>2. PICK pos \in Posn : pos = Opened(side, q, p) /\ pos.side = side /\ pos.size = q
                          /\ pos.entry = Whole(p)
  <2>1. Whole(p) \in Rational
    BY WholeRational
  <2>2. Opened(side, q, p) = [side |-> side, size |-> q, entry |-> Whole(p)]
    BY DEF Opened
  <2>3. Opened(side, q, p) \in Posn
    BY <1>1, <2>1, <2>2 DEF Posn
  <2> QED  BY <2>2, <2>3
<1>3. PICK qs : qs = Put(ps, u, Opened(side, t.qty, t.price)) /\ qs = Put(ps, u, pos)
  BY <1>1, <1>2
<1>4. Holding(qs) /\ SameBut(ps, qs, u) /\ u \in DOMAIN qs /\ qs[u] = pos
  BY <1>3, PutFacts
<1>5. PICK v \in Rational : v = Value(t) /\ v = Times(p, q)
  BY <1>1, Closed DEF Value
<1>6. NetOf(qs, u) = Times(Direction(side), q)
  BY <1>2, <1>4 DEF NetOf
<1>7. EntryOf(qs, u) = Times(Direction(side), v)
  BY <1>2, <1>4, <1>5, <1>6, OpenedValue, SideIs DEF EntryOf
<1>8. /\ NetOf(ps, u) = Whole(0) /\ EntryOf(ps, u) = Whole(0)
      /\ RealizedOf(ps, u, t, side) = Whole(0)
  BY DEF NetOf, EntryOf, RealizedOf
<1>9. /\ Times(Direction(side), q) = Plus(Whole(0), Times(Direction(side), q))
      /\ Times(Direction(side), v) =
           Plus(Plus(Whole(0), Times(Direction(side), v)), Whole(0))
  <2>1. Shared(q, v, q, q, q, q, q, q)
    BY Common
  <2>2. PICK D \in Nat \ {0} : HasOver(q, D) /\ HasOver(v, D)
    BY <2>1 DEF Shared
  <2>3. HasOver(Whole(0), D) /\ Over(Whole(0), D) = 0
    BY Wholes
  <2> QED  BY <2>2, <2>3, Directed, Linearly, Compared, OverFacts
<1> QED  BY <1>1, <1>3, <1>4, <1>5, <1>6, <1>7, <1>8, <1>9, WholeRational DEF Moves

(* A position of the trade's user. *)
LEMMA PosnFacts ==
  ASSUME NEW pos \in Posn
  PROVE  /\ pos.side \in PositionSide /\ pos.entry \in Rational
         /\ pos.size \in Rational /\ pos.size.n > 0
         /\ \A x \in Rational : x.n > 0 => [pos EXCEPT !.size = x] \in Posn
         /\ \A x, e \in Rational : x.n > 0 => [pos EXCEPT !.size = x, !.entry = e] \in Posn
BY DEF Posn

LEMMA IncreasingMoves ==
  ASSUME NEW ps, Holding(ps), NEW u \in DOMAIN ps, NEW t, TradeFacts(t)
  PROVE  Moves(ps, Put(ps, u, Increased(ps[u], t)), u, t, ps[u].side)
<1>1. PICK p \in Int, q \in Rational : p = t.price /\ q = t.qty /\ q.n > 0
  BY DEF TradeFacts
<1>2. u \in Users /\ ps[u] \in Posn
  BY DEF Holding, IsMap
<1>3. PICK side \in PositionSide, z \in Rational, e \in Rational :
        side = ps[u].side /\ z = ps[u].size /\ e = ps[u].entry /\ z.n > 0
  BY <1>2, PosnFacts
<1>4. PICK v \in Rational : v = Value(t) /\ v = Times(p, q)
  BY <1>1, Closed DEF Value
<1>5. PICK s \in Rational : s = Plus(z, q) /\ s.n > 0
  <2>1. Plus(z, q) \in Rational
    BY Closed
  <2>2. Plus(z, q).n > 0
    BY <1>1, <1>3, SumAndRest
  <2> QED  BY <2>1, <2>2
<1>6. PICK w \in Rational, x \in Rational : w = Product(z, e) /\ w = Product(e, z) /\ x = Plus(w, v)
  <2>1. PICK w \in Rational : w = Product(z, e)
    BY Closed
  <2>2. w = Product(e, z)
    BY <2>1, ProductLaws
  <2>3. Plus(w, v) \in Rational
    BY Closed
  <2> QED  BY <2>1, <2>2, <2>3
<1>7. PICK r \in Rational : r = Quotient(x, s) /\ Product(r, s) = x
  BY <1>5, QuotientLaw
<1>8. PICK pos \in Posn : /\ pos = Increased(ps[u], t) /\ pos.side = side
                          /\ pos.size = s /\ pos.entry = r
  <2>1. Increased(ps[u], t) = [ps[u] EXCEPT !.size = s, !.entry = r]
    BY <1>1, <1>2, <1>3, <1>4, <1>5, <1>6, <1>7 DEF Increased, Posn
  <2>2. [ps[u] EXCEPT !.size = s, !.entry = r] \in Posn
    BY <1>2, <1>5, PosnFacts
  <2>3. /\ [ps[u] EXCEPT !.size = s, !.entry = r].side = side
        /\ [ps[u] EXCEPT !.size = s, !.entry = r].size = s
        /\ [ps[u] EXCEPT !.size = s, !.entry = r].entry = r
    BY <1>2, <1>3 DEF Posn
  <2> QED  BY <2>1, <2>2, <2>3
<1>9. PICK qs : qs = Put(ps, u, Increased(ps[u], t)) /\ qs = Put(ps, u, pos)
  BY <1>8
<1>10. Holding(qs) /\ SameBut(ps, qs, u) /\ u \in DOMAIN qs /\ qs[u] = pos
  BY <1>2, <1>9, PutFacts
<1>11. NetOf(qs, u) = Times(Direction(side), s) /\ NetOf(ps, u) = Times(Direction(side), z)
  BY <1>3, <1>8, <1>10 DEF NetOf
<1>12. EntryOf(qs, u) = Times(Direction(side), x) /\ EntryOf(ps, u) = Times(Direction(side), w)
  <2>1. Product(Times(Direction(side), s), r) = Times(Direction(side), Product(s, r))
    BY SideIs, TimesProduct
  <2>2. Product(s, r) = x
    BY <1>7, ProductLaws
  <2>3. Product(Times(Direction(side), z), e) = Times(Direction(side), Product(z, e))
    BY SideIs, TimesProduct
  <2> QED  BY <1>3, <1>6, <1>8, <1>10, <1>11, <2>1, <2>2, <2>3 DEF EntryOf
<1>13. RealizedOf(ps, u, t, side) = Whole(0)
  BY <1>3 DEF RealizedOf
<1>14. /\ Times(Direction(side), s) = Plus(Times(Direction(side), z), Times(Direction(side), q))
       /\ Times(Direction(side), x) =
            Plus(Plus(Times(Direction(side), w), Times(Direction(side), v)), Whole(0))
  <2>1. Shared(q, v, z, w, q, q, q, q)
    BY Common
  <2>2. PICK D \in Nat \ {0} : HasOver(q, D) /\ HasOver(v, D) /\ HasOver(z, D) /\ HasOver(w, D)
    BY <2>1 DEF Shared
  <2>3. HasOver(Whole(0), D) /\ Over(Whole(0), D) = 0
    BY Wholes
  <2> QED  BY <1>5, <1>6, <2>2, <2>3, Directed, Linearly, Compared, OverFacts
<1> QED  BY <1>1, <1>3, <1>4, <1>9, <1>10, <1>11, <1>12, <1>13, <1>14, WholeRational DEF Moves

(* A trade against a position, for the three outcomes. *)
LEMMA OpposingValues ==
  ASSUME NEW pos \in Posn, NEW t, TradeFacts(t), NEW c \in Rational
  PROVE  /\ Profit(pos, c, t.price) \in Rational
         /\ \A d \in PositionSide : d # pos.side =>
              /\ Product(Times(Direction(pos.side), pos.size), pos.entry) =
                   Times(Direction(pos.side), Product(pos.size, pos.entry))
              /\ Profit(pos, c, t.price) =
                   Minus(Times(Direction(d), Product(c, pos.entry)),
                         Times(Direction(d), Times(t.price, c)))
<1>1. PICK p \in Int : p = t.price
  BY DEF TradeFacts
<1>2. PICK s \in PositionSide, z \in Rational, e \in Rational :
        s = pos.side /\ z = pos.size /\ e = pos.entry
  BY PosnFacts
<1>3. PICK x \in Rational, y \in Rational : x = Times(p, c) /\ y = Product(c, e)
  BY Closed
<1>4. Profit(pos, c, p) = Minus(Times(Direction(s), x), Times(Direction(s), y))
  BY <1>2, <1>3, ProfitIs, SideIs DEF Profit
<1>5. PICK D \in Nat \ {0} : HasOver(x, D) /\ HasOver(y, D)
  <2>1. Shared(x, y, x, x, x, x, x, x)
    BY Common
  <2> QED  BY <2>1 DEF Shared
<1>6. Profit(pos, c, p) \in Rational
  BY <1>4, <1>5, Directed, Linearly, OverFacts
<1>7. ASSUME NEW d \in PositionSide, d # s
      PROVE  Profit(pos, c, p) = Minus(Times(Direction(d), y), Times(Direction(d), x))
  <2>1. s = "LONG" <=> d # "LONG"
    BY <1>7, OtherSide
  <2> QED  BY <1>4, <1>5, <2>1, Directed, Linearly, Compared, OverFacts
<1>8. Product(Times(Direction(s), z), e) = Times(Direction(s), Product(z, e))
  BY SideIs, TimesProduct
<1> QED  BY <1>1, <1>2, <1>3, <1>6, <1>7, <1>8

LEMMA NotBoth ==
  ASSUME NEW a \in Rational, NEW b \in Rational
  PROVE  ~(Less(a, b) /\ Less(b, a))
<1>1. Shared(a, b, a, a, a, a, a, a)
  BY Common
<1>2. PICK D \in Nat \ {0} : HasOver(a, D) /\ HasOver(b, D)
  BY <1>1 DEF Shared
<1> QED  BY <1>2, Compared, OverFacts

(* Opposite sides, over one denominator. *)
LEMMA Opposed ==
  ASSUME NEW D \in Nat \ {0}, NEW a, HasOver(a, D), NEW s \in PositionSide,
         NEW r \in PositionSide, r # s
  PROVE  /\ HasOver(Times(Direction(s), a), D) /\ HasOver(Times(Direction(r), a), D)
         /\ Over(a, D) \in Int
         /\ s = "LONG" => /\ Over(Times(Direction(s), a), D) = Over(a, D)
                          /\ Over(Times(Direction(r), a), D) = -Over(a, D)
         /\ s = "SHORT" => /\ Over(Times(Direction(s), a), D) = -Over(a, D)
                           /\ Over(Times(Direction(r), a), D) = Over(a, D)
BY Directed, OverFacts DEF PositionSide

LEMMA OpposedSums ==
  ASSUME NEW s \in PositionSide, NEW r \in PositionSide, r # s,
         NEW a \in Rational, NEW b \in Rational, NEW c \in Rational
  PROVE  /\ Times(Direction(s), Minus(a, b)) = Plus(Times(Direction(s), a), Times(Direction(r), b))
         /\ Times(Direction(s), Minus(a, b)) = Plus(Times(Direction(r), b), Times(Direction(s), a))
         /\ Times(Direction(s), Minus(a, b)) =
              Plus(Plus(Times(Direction(s), a), Times(Direction(r), c)),
                   Minus(Times(Direction(r), b), Times(Direction(r), c)))
         /\ Times(Direction(s), Minus(a, b)) =
              Plus(Plus(Times(Direction(r), c), Times(Direction(s), a)),
                   Minus(Times(Direction(s), c), Times(Direction(s), b)))
<1>1. Shared(a, b, c, a, a, a, a, a)
  BY Common
<1>2. PICK D \in Nat \ {0} : HasOver(a, D) /\ HasOver(b, D) /\ HasOver(c, D)
  BY <1>1 DEF Shared
<1>3. PICK m : m = Minus(a, b) /\ HasOver(m, D) /\ Over(m, D) = Over(a, D) - Over(b, D)
  BY <1>2, Linearly
<1>4. PICK sa, sb, sc, sm, ra, rb, rc :
        /\ sa = Times(Direction(s), a) /\ sb = Times(Direction(s), b)
        /\ sc = Times(Direction(s), c) /\ sm = Times(Direction(s), m)
        /\ ra = Times(Direction(r), a) /\ rb = Times(Direction(r), b)
        /\ rc = Times(Direction(r), c)
  OBVIOUS
<1>5. /\ HasOver(sa, D) /\ HasOver(sb, D) /\ HasOver(sc, D) /\ HasOver(sm, D)
      /\ HasOver(ra, D) /\ HasOver(rb, D) /\ HasOver(rc, D)
  BY <1>2, <1>3, <1>4, Opposed
<1>6. /\ Over(sm, D) = Over(sa, D) - Over(sb, D)
      /\ Over(rb, D) = -Over(sb, D) /\ Over(rc, D) = -Over(sc, D)
      /\ Over(sa, D) \in Int /\ Over(sb, D) \in Int /\ Over(sc, D) \in Int
  <2>1. CASE s = "LONG"
    BY <1>2, <1>3, <1>4, <2>1, Opposed
  <2>2. CASE s = "SHORT"
    BY <1>2, <1>3, <1>4, <2>2, Opposed
  <2> QED  BY <2>1, <2>2 DEF PositionSide
<1>7. /\ sm = Plus(sa, rb) /\ sm = Plus(rb, sa)
      /\ sm = Plus(Plus(sa, rc), Minus(rb, rc)) /\ sm = Plus(Plus(rc, sa), Minus(sc, sb))
  BY <1>5, <1>6, Linearly, Compared
<1> QED  BY <1>3, <1>4, <1>7

LEMMA NothingTimes ==
  ASSUME NEW s \in PositionSide, NEW a \in Rational
  PROVE  Times(Direction(s), Minus(a, a)) = Whole(0)
<1>1. Shared(a, a, a, a, a, a, a, a)
  BY Common
<1>2. PICK D \in Nat \ {0} : HasOver(a, D)
  BY <1>1 DEF Shared
<1>3. HasOver(Whole(0), D) /\ Over(Whole(0), D) = 0
  BY Wholes
<1>4. HasOver(Minus(a, a), D) /\ Over(Minus(a, a), D) = 0
  BY <1>2, Linearly, OverFacts
<1>5. /\ HasOver(Times(Direction(s), Minus(a, a)), D)
      /\ Over(Times(Direction(s), Minus(a, a)), D) = 0
  BY <1>4, Directed
<1> QED  BY <1>3, <1>5, Compared

LEMMA OpposingMoves ==
  ASSUME NEW ps, Holding(ps), NEW u \in DOMAIN ps, NEW t, TradeFacts(t),
         NEW side \in PositionSide, ps[u].side # side
  PROVE  /\ Less(t.qty, ps[u].size) =>
              Moves(ps, Put(ps, u, Reduced(ps[u], t.qty)), u, t, side)
         /\ Less(ps[u].size, t.qty) =>
              Moves(ps, Put(ps, u, Opened(side, Minus(t.qty, ps[u].size), t.price)), u, t, side)
         /\ ~Less(t.qty, ps[u].size) /\ ~Less(ps[u].size, t.qty) =>
              Moves(ps, Erase(ps, u), u, t, side)
<1>1. PICK p \in Int, q \in Rational : p = t.price /\ q = t.qty /\ q.n > 0
  BY DEF TradeFacts
<1>2. u \in Users /\ ps[u] \in Posn
  BY DEF Holding, IsMap
<1>3. PICK s \in PositionSide, z \in Rational, e \in Rational :
        s = ps[u].side /\ z = ps[u].size /\ e = ps[u].entry /\ z.n > 0
  BY <1>2, PosnFacts
<1>4. PICK v \in Rational, ze \in Rational, qe \in Rational, pz \in Rational :
        /\ v = Times(p, q) /\ v = Value(t)
        /\ ze = Product(z, e) /\ qe = Product(q, e) /\ pz = Times(p, z)
  BY <1>1, Closed DEF Value
<1>5. /\ NetOf(ps, u) = Times(Direction(s), z)
      /\ EntryOf(ps, u) = Times(Direction(s), ze)
  <2>1. Product(Times(Direction(s), z), e) = Times(Direction(s), Product(z, e))
    BY SideIs, TimesProduct
  <2> QED  BY <1>3, <1>4, <2>1 DEF NetOf, EntryOf
<1>6. /\ Profit(ps[u], q, p) = Minus(Times(Direction(side), qe), Times(Direction(side), v))
      /\ Profit(ps[u], z, p) = Minus(Times(Direction(side), ze), Times(Direction(side), pz))
      /\ Profit(ps[u], q, p) \in Rational /\ Profit(ps[u], z, p) \in Rational
  <2>1. /\ Profit(ps[u], q, p) = Minus(Times(Direction(side), qe), Times(Direction(side), v))
        /\ Profit(ps[u], q, p) \in Rational
    <3>1. \A d \in PositionSide : d # ps[u].side =>
            Profit(ps[u], q, t.price) =
              Minus(Times(Direction(d), Product(q, ps[u].entry)),
                    Times(Direction(d), Times(t.price, q)))
      BY <1>2, OpposingValues
    <3>2. Profit(ps[u], q, t.price) \in Rational
      BY <1>2, OpposingValues
    <3> QED  BY <1>1, <1>3, <1>4, <3>1, <3>2
  <2>2. /\ Profit(ps[u], z, p) = Minus(Times(Direction(side), ze), Times(Direction(side), pz))
        /\ Profit(ps[u], z, p) \in Rational
    <3>1. \A d \in PositionSide : d # ps[u].side =>
            Profit(ps[u], z, t.price) =
              Minus(Times(Direction(d), Product(z, ps[u].entry)),
                    Times(Direction(d), Times(t.price, z)))
      BY <1>2, <1>3, OpposingValues
    <3>2. Profit(ps[u], z, t.price) \in Rational
      BY <1>2, <1>3, OpposingValues
    <3> QED  BY <1>1, <1>3, <1>4, <3>1, <3>2
  <2> QED  BY <2>1, <2>2
<1>10. RealizedOf(ps, u, t, side) = Profit(ps[u], IF Less(z, q) THEN z ELSE q, p)
  BY <1>1, <1>3 DEF RealizedOf, Least
<1>11. ASSUME Less(q, z)
       PROVE  Moves(ps, Put(ps, u, Reduced(ps[u], t.qty)), u, t, side)
  <2>1. PICK x \in Rational : x = Minus(z, q) /\ x.n > 0
    <3>1. Minus(z, q) \in Rational
      BY Closed
    <3>2. Minus(z, q).n > 0
      BY <1>1, <1>3, <1>11, SumAndRest
    <3> QED  BY <3>1, <3>2
  <2>2. PICK pos \in Posn : /\ pos = Reduced(ps[u], t.qty) /\ pos.side = s
                            /\ pos.size = x /\ pos.entry = e
    <3>1. Reduced(ps[u], t.qty) = [ps[u] EXCEPT !.size = x]
      BY <1>1, <1>2, <1>3, <2>1 DEF Reduced, Posn
    <3>2. [ps[u] EXCEPT !.size = x] \in Posn
      BY <1>2, <2>1, PosnFacts
    <3>3. /\ [ps[u] EXCEPT !.size = x].side = s
          /\ [ps[u] EXCEPT !.size = x].size = x
          /\ [ps[u] EXCEPT !.size = x].entry = e
      BY <1>2, <1>3 DEF Posn
    <3> QED  BY <3>1, <3>2, <3>3
  <2>3. PICK qs : qs = Put(ps, u, Reduced(ps[u], t.qty)) /\ qs = Put(ps, u, pos)
    BY <2>2
  <2>4. Holding(qs) /\ SameBut(ps, qs, u) /\ u \in DOMAIN qs /\ qs[u] = pos
    BY <1>2, <2>3, PutFacts
  <2>5. NetOf(qs, u) = Times(Direction(s), x)
    BY <2>2, <2>4 DEF NetOf
  <2>6. EntryOf(qs, u) = Times(Direction(s), Minus(ze, qe))
    <3>1. Product(Times(Direction(s), x), e) = Times(Direction(s), Product(x, e))
      BY SideIs, TimesProduct
    <3>2. Product(x, e) = Minus(ze, qe)
      BY <1>4, <2>1, ProductLaws
    <3> QED  BY <2>2, <2>4, <2>5, <3>1, <3>2 DEF EntryOf
  <2>7. RealizedOf(ps, u, t, side) = Profit(ps[u], q, p)
    BY <1>10, <1>11, NotBoth
  <2>8. /\ Times(Direction(s), x) = Plus(Times(Direction(s), z), Times(Direction(side), q))
        /\ Times(Direction(s), Minus(ze, qe)) =
             Plus(Plus(Times(Direction(s), ze), Times(Direction(side), v)),
                  Minus(Times(Direction(side), qe), Times(Direction(side), v)))
    BY <1>3, <2>1, OpposedSums
  <2> QED  BY <1>1, <1>4, <1>5, <1>6, <2>3, <2>4, <2>5, <2>6, <2>7, <2>8 DEF Moves
<1>12. ASSUME Less(z, q)
       PROVE  Moves(ps, Put(ps, u, Opened(side, Minus(t.qty, ps[u].size), t.price)), u, t, side)
  <2>1. PICK x \in Rational : x = Minus(q, z) /\ x.n > 0
    <3>1. Minus(q, z) \in Rational
      BY Closed
    <3>2. Minus(q, z).n > 0
      BY <1>1, <1>3, <1>12, SumAndRest
    <3> QED  BY <3>1, <3>2
  <2>2. PICK pos \in Posn : /\ pos = Opened(side, x, p) /\ pos.side = side /\ pos.size = x
                            /\ pos.entry = Whole(p)
    <3>1. Whole(p) \in Rational
      BY WholeRational
    <3>2. Opened(side, x, p) = [side |-> side, size |-> x, entry |-> Whole(p)]
      BY DEF Opened
    <3>3. Opened(side, x, p) \in Posn
      BY <2>1, <3>1, <3>2 DEF Posn
    <3> QED  BY <3>2, <3>3
  <2>3. PICK qs : /\ qs = Put(ps, u, Opened(side, Minus(t.qty, ps[u].size), t.price))
                  /\ qs = Put(ps, u, pos)
    BY <1>1, <1>3, <2>1, <2>2
  <2>4. Holding(qs) /\ SameBut(ps, qs, u) /\ u \in DOMAIN qs /\ qs[u] = pos
    BY <1>2, <2>3, PutFacts
  <2>5. NetOf(qs, u) = Times(Direction(side), x)
    BY <2>2, <2>4 DEF NetOf
  <2>6. EntryOf(qs, u) = Times(Direction(side), Minus(v, pz))
    <3>1. Product(Times(Direction(side), x), Whole(p)) = Times(Direction(side), Times(p, x))
      BY SideIs, OpenedValue
    <3>2. Times(p, x) = Minus(v, pz)
      <4>1. Whole(p) \in Rational /\ Product(Whole(p), x) = Product(x, Whole(p))
            /\ Product(q, Whole(p)) = v /\ Product(z, Whole(p)) = pz
        BY <1>4, WholeRational, ProductLaws DEF Times
      <4>2. Product(Minus(q, z), Whole(p)) = Minus(Product(q, Whole(p)), Product(z, Whole(p)))
        BY <4>1, ProductLaws
      <4> QED  BY <2>1, <4>1, <4>2 DEF Times
    <3> QED  BY <2>2, <2>4, <2>5, <3>1, <3>2 DEF EntryOf
  <2>7. RealizedOf(ps, u, t, side) = Profit(ps[u], z, p)
    BY <1>10, <1>12
  <2>8. /\ Times(Direction(side), x) = Plus(Times(Direction(s), z), Times(Direction(side), q))
        /\ Times(Direction(side), Minus(v, pz)) =
             Plus(Plus(Times(Direction(s), ze), Times(Direction(side), v)),
                  Minus(Times(Direction(side), ze), Times(Direction(side), pz)))
    BY <1>3, <2>1, OpposedSums
  <2> QED  BY <1>1, <1>4, <1>5, <1>6, <2>3, <2>4, <2>5, <2>6, <2>7, <2>8 DEF Moves
<1>13. ASSUME ~Less(q, z), ~Less(z, q)
       PROVE  Moves(ps, Erase(ps, u), u, t, side)
  <2>1. q = z
    BY <1>1, <1>3, <1>13, SumAndRest
  <2>2. PICK qs : qs = Erase(ps, u)
    OBVIOUS
  <2>3. Holding(qs) /\ SameBut(ps, qs, u) /\ u \notin DOMAIN qs
    BY <1>2, <2>2, EraseFacts
  <2>4. NetOf(qs, u) = Whole(0) /\ EntryOf(qs, u) = Whole(0)
    BY <2>3 DEF NetOf, EntryOf
  <2>5. RealizedOf(ps, u, t, side) = Profit(ps[u], q, p)
    BY <1>10, <1>13
  <2>6. qe = ze
    BY <1>4, <2>1
  <2>7. /\ Whole(0) = Plus(Times(Direction(s), z), Times(Direction(side), q))
        /\ Whole(0) =
             Plus(Plus(Times(Direction(s), ze), Times(Direction(side), v)),
                  Minus(Times(Direction(side), qe), Times(Direction(side), v)))
    <3>1. /\ Times(Direction(s), Minus(z, z)) = Plus(Times(Direction(s), z), Times(Direction(side), z))
          /\ Times(Direction(s), Minus(ze, ze)) =
               Plus(Plus(Times(Direction(s), ze), Times(Direction(side), v)),
                    Minus(Times(Direction(side), ze), Times(Direction(side), v)))
      BY <1>3, OpposedSums
    <3>2. Times(Direction(s), Minus(z, z)) = Whole(0) /\ Times(Direction(s), Minus(ze, ze)) = Whole(0)
      BY NothingTimes
    <3> QED  BY <2>1, <2>6, <3>1, <3>2
  <2> QED  BY <1>1, <1>4, <1>5, <1>6, <2>2, <2>3, <2>4, <2>5, <2>7 DEF Moves
<1> QED  BY <1>1, <1>3, <1>11, <1>12, <1>13

LEMMA TradeMoves ==
  ASSUME NEW ps, Holding(ps), NEW u \in Users, NEW t, TradeFacts(t), NEW side \in PositionSide
  PROVE  Moves(ps, PositionsAfter(ps, u, t, side), u, t, side)
<1>1. CASE u \notin DOMAIN ps
  <2>1. PositionsAfter(ps, u, t, side) = Put(ps, u, Opened(side, t.qty, t.price))
    BY <1>1 DEF PositionsAfter
  <2> QED  BY <1>1, <2>1, OpeningMoves
<1>2. CASE u \in DOMAIN ps /\ ps[u].side = side
  <2>1. PositionsAfter(ps, u, t, side) = Put(ps, u, Increased(ps[u], t))
    BY <1>2 DEF PositionsAfter
  <2> QED  BY <1>2, <2>1, IncreasingMoves
<1>3. CASE u \in DOMAIN ps /\ ps[u].side # side
  <2>1. CASE Less(t.qty, ps[u].size)
    <3>1. ~Less(ps[u].size, t.qty)
      BY <1>3, <2>1, NotBoth, PosnFacts DEF Holding, TradeFacts
    <3>2. PositionsAfter(ps, u, t, side) = Put(ps, u, Reduced(ps[u], t.qty))
      BY <1>3, <2>1, <3>1 DEF PositionsAfter
    <3> QED  BY <1>3, <2>1, <3>2, OpposingMoves
  <2>2. CASE ~Less(t.qty, ps[u].size) /\ Less(ps[u].size, t.qty)
    <3>1. PositionsAfter(ps, u, t, side) =
            Put(ps, u, Opened(side, Minus(t.qty, ps[u].size), t.price))
      BY <1>3, <2>2 DEF PositionsAfter
    <3> QED  BY <1>3, <2>2, <3>1, OpposingMoves
  <2>3. CASE ~Less(t.qty, ps[u].size) /\ ~Less(ps[u].size, t.qty)
    <3>1. PositionsAfter(ps, u, t, side) = Erase(ps, u)
      BY <1>3, <2>3 DEF PositionsAfter
    <3> QED  BY <1>3, <2>3, <3>1, OpposingMoves
  <2> QED  BY <2>1, <2>2, <2>3
<1> QED  BY <1>1, <1>2, <1>3

-----------------------------------------------------------------------------
(* Trades and fees. *)

LEMMA Constants ==
  /\ IsFiniteSet(Users) /\ Prices \subseteq Nat \ {0} /\ MaxQty \in Nat \ {0}
  /\ MaxTrades \in Nat /\ MakerFee \in Int /\ TakerFee \in Int /\ FeeUnit \in Nat \ {0}
  /\ Deposit \in Int /\ VaultSeed \in Nat
BY LedgerAssumption

LEMMA WholeField ==
  ASSUME NEW k \in Int
  PROVE  Whole(k).n = k /\ Whole(k) \in Rational
BY WholeRational DEF Whole

LEMMA TradeIs ==
  ASSUME NEW t \in Trade
  PROVE  TradeFacts(t) /\ t.buyer \in Users /\ t.seller \in Users /\ t.buyer # t.seller
<1>1. t.price \in Prices /\ t.qty \in {Whole(q) : q \in 1..MaxQty}
  BY DEF Trade
<1>2. PICK q \in 1..MaxQty : t.qty = Whole(q)
  BY <1>1
<1>3. q \in Int /\ q > 0
  BY <1>2, Constants
<1> QED  BY <1>1, <1>2, <1>3, WholeField, Constants DEF TradeFacts, Trade

LEMMA MoneyOf ==
  ASSUME NEW t, TradeFacts(t)
  PROVE  /\ Value(t) \in Rational
         /\ \A part \in Int : Product(Value(t), Rate(part)) \in Rational
         /\ \A isBuyer \in BOOLEAN : Fee(t, isBuyer) \in Rational
<1>1. Value(t) \in Rational
  BY Closed DEF Value, TradeFacts
<1>2. ASSUME NEW part \in Int  PROVE Product(Value(t), Rate(part)) \in Rational
  <2>1. Rate(part) \in Rational
    BY Constants, FracRational DEF Rate
  <2> QED  BY <1>1, <2>1, Closed
<1> QED  BY <1>1, <1>2, Constants DEF Fee

-----------------------------------------------------------------------------
(* The accounts: what a step keeps of each user's. *)

(* A wallet, fees, the value at entry, a deposit and cash that agree. *)
Agree(w, f, ev, dep, c) == Minus(Plus(w, f), ev) = Plus(dep, c)

(* A user's position is the net of the trades, the wallet what they left. *)
Balanced(ps, tr, w, f, c, u) ==
    /\ NetOf(ps, u) = tr[u]
    /\ Agree(w[u], f[u], EntryOf(ps, u), Whole(Deposit), c[u])

Accounts(ps, tr, w, f, c) ==
    /\ Holding(ps)
    /\ w \in [Users -> Rational] /\ tr \in [Users -> Rational]
    /\ c \in [Users -> Rational] /\ f \in [Users -> Rational]
    /\ \A u \in Users : Balanced(ps, tr, w, f, c, u)

LEMMA EntryRational ==
  ASSUME NEW ps, Holding(ps), NEW u
  PROVE  NetOf(ps, u) \in Rational /\ EntryOf(ps, u) \in Rational
<1>1. CASE u \in DOMAIN ps
  <2>1. ps[u] \in Posn
    BY <1>1 DEF Holding
  <2>2. PICK s \in PositionSide, z \in Rational, e \in Rational :
          s = ps[u].side /\ z = ps[u].size /\ e = ps[u].entry
    BY <2>1, PosnFacts
  <2>3. Times(Direction(s), z) \in Rational
    BY SideIs, Closed
  <2> QED  BY <1>1, <2>2, <2>3, Closed DEF NetOf, EntryOf
<1>2. CASE u \notin DOMAIN ps
  BY <1>2, WholeRational DEF NetOf, EntryOf
<1> QED  BY <1>1, <1>2

LEMMA TradeAgrees ==
  ASSUME NEW w \in Rational, NEW f \in Rational, NEW ev \in Rational, NEW r \in Rational,
         NEW fee \in Rational, NEW v \in Rational, NEW dep \in Rational, NEW c \in Rational,
         Agree(w, f, ev, dep, c)
  PROVE  Agree(Minus(Plus(w, r), fee), Plus(f, fee), Plus(Plus(ev, v), r), dep, Minus(c, v))
<1>1. Shared(w, f, ev, r, fee, v, dep, c)
  BY Common
<1>2. PICK D \in Nat \ {0} : /\ HasOver(w, D) /\ HasOver(f, D) /\ HasOver(ev, D) /\ HasOver(r, D)
                             /\ HasOver(fee, D) /\ HasOver(v, D) /\ HasOver(dep, D) /\ HasOver(c, D)
  BY <1>1 DEF Shared
<1> QED  BY <1>2, Linearly, Compared, OverFacts DEF Agree

LEMMA OthersUnmoved ==
  ASSUME NEW ps, Holding(ps), NEW qs, Holding(qs), NEW u \in Users, SameBut(ps, qs, u),
         NEW v \in Users, v # u
  PROVE  NetOf(qs, v) = NetOf(ps, v) /\ EntryOf(qs, v) = EntryOf(ps, v)
BY DEF SameBut, NetOf, EntryOf

(* A fee and a trade of u, booked: the other accounts are as they were. *)
TradeOf(ps, tr, w, f, c, u, t, side, fee, qs, tr2, w2, f2, c2) ==
    /\ qs = PositionsAfter(ps, u, t, side)
    /\ tr2 = [tr EXCEPT ![u] = Plus(@, Times(Direction(side), t.qty))]
    /\ w2 = [w EXCEPT ![u] = Minus(Plus(@, RealizedOf(ps, u, t, side)), fee)]
    /\ f2 = [f EXCEPT ![u] = Plus(@, fee)]
    /\ c2 = [c EXCEPT ![u] = Minus(@, Times(Direction(side), Value(t)))]

LEMMA TradeBooked ==
  ASSUME NEW ps, NEW tr, NEW w, NEW f, NEW c, Accounts(ps, tr, w, f, c),
         NEW u \in Users, NEW t, TradeFacts(t), NEW side \in PositionSide,
         NEW fee \in Rational, NEW qs, NEW tr2, NEW w2, NEW f2, NEW c2,
         TradeOf(ps, tr, w, f, c, u, t, side, fee, qs, tr2, w2, f2, c2)
  PROVE  Accounts(qs, tr2, w2, f2, c2) /\ Moves(ps, qs, u, t, side)
<1> USE DEF TradeOf
<1>1. Holding(ps) /\ Balanced(ps, tr, w, f, c, u)
  BY DEF Accounts
<1>2. Moves(ps, qs, u, t, side)
  BY <1>1, TradeMoves
<1>3. PICK q \in Rational, v \in Rational, r \in Rational, ev \in Rational :
        /\ q = Times(Direction(side), t.qty) /\ v = Times(Direction(side), Value(t))
        /\ r = RealizedOf(ps, u, t, side) /\ ev = EntryOf(ps, u)
  <2>1. Times(Direction(side), t.qty) \in Rational /\ Times(Direction(side), Value(t)) \in Rational
    BY SideIs, MoneyOf, Closed DEF TradeFacts
  <2>2. RealizedOf(ps, u, t, side) \in Rational
    BY <1>2 DEF Moves
  <2> QED  BY <1>1, <2>1, <2>2, EntryRational
<1>4. PICK x \in Rational, y \in Rational, z \in Rational, n \in Rational :
        x = w[u] /\ y = f[u] /\ z = c[u] /\ n = tr[u]
  BY DEF Accounts
<1>5. /\ tr2[u] = Plus(n, q) /\ w2[u] = Minus(Plus(x, r), fee) /\ f2[u] = Plus(y, fee)
      /\ c2[u] = Minus(z, v)
      /\ \A o \in Users : o # u => tr2[o] = tr[o] /\ w2[o] = w[o] /\ f2[o] = f[o] /\ c2[o] = c[o]
  BY <1>3, <1>4 DEF Accounts
<1>6. /\ tr2 \in [Users -> Rational] /\ w2 \in [Users -> Rational]
      /\ f2 \in [Users -> Rational] /\ c2 \in [Users -> Rational]
  <2>1. /\ Plus(n, q) \in Rational /\ Minus(Plus(x, r), fee) \in Rational
        /\ Plus(y, fee) \in Rational /\ Minus(z, v) \in Rational
    BY Closed
  <2> QED  BY <1>3, <1>4, <2>1 DEF Accounts
<1>7. Holding(qs) /\ SameBut(ps, qs, u)
  BY <1>2 DEF Moves
<1>8. Balanced(qs, tr2, w2, f2, c2, u)
  <2>1. NetOf(qs, u) = Plus(NetOf(ps, u), q) /\ EntryOf(qs, u) = Plus(Plus(ev, v), r)
    BY <1>2, <1>3 DEF Moves
  <2>2. PICK dep \in Rational : dep = Whole(Deposit)
    BY WholeRational, Constants
  <2>3. NetOf(ps, u) = n /\ Agree(x, y, ev, dep, z)
    BY <1>1, <1>3, <1>4, <2>2 DEF Balanced
  <2>4. Agree(Minus(Plus(x, r), fee), Plus(y, fee), Plus(Plus(ev, v), r), dep, Minus(z, v))
    BY <2>3, TradeAgrees
  <2> QED  BY <1>5, <2>1, <2>2, <2>3, <2>4 DEF Balanced
<1>9. ASSUME NEW o \in Users, o # u  PROVE Balanced(qs, tr2, w2, f2, c2, o)
  <2>1. NetOf(qs, o) = NetOf(ps, o) /\ EntryOf(qs, o) = EntryOf(ps, o)
    BY <1>1, <1>7, <1>9, OthersUnmoved
  <2>2. Balanced(ps, tr, w, f, c, o)
    BY DEF Accounts
  <2> QED  BY <1>5, <1>9, <2>1, <2>2 DEF Balanced
<1> QED  BY <1>2, <1>6, <1>7, <1>8, <1>9 DEF Accounts

-----------------------------------------------------------------------------
(* Deleveraging. *)

(* What run_adl has taken, after each candidate of a ranking. *)
Running(ranking, deficit, n, run) ==
    run = [i \in 0..n |-> IF i = 0 THEN [remaining |-> deficit, lots |-> << >>]
                          ELSE AdlFrom(run[i - 1], ranking[i])]

LEMMA RunningExists ==
  ASSUME NEW ranking, NEW deficit, NEW n \in Nat
  PROVE  \E run : Running(ranking, deficit, n, run)
<1> DEFINE T == {m \in Nat : \E run : Running(ranking, deficit, m, run)}
           none == [remaining |-> deficit, lots |-> << >>]
<1>1. 0 \in T
  <2> DEFINE f == [i \in 0..0 |-> none]
  <2>1. Running(ranking, deficit, 0, f)
    BY DEF Running
  <2> QED  BY <2>1
<1>2. ASSUME NEW m \in Nat, m \in T  PROVE m + 1 \in T
  <2>1. PICK f : Running(ranking, deficit, m, f)
    BY <1>2
  <2> DEFINE last == AdlFrom(f[m], ranking[m + 1])
             g    == [i \in 0..(m + 1) |-> IF i = m + 1 THEN last ELSE f[i]]
  <2>2. \A i \in 0..(m + 1) : i = m + 1 \/ i \in 0..m
    OBVIOUS
  <2>3. \A i \in 0..m : f[i] = IF i = 0 THEN none ELSE AdlFrom(f[i - 1], ranking[i])
    BY <2>1 DEF Running
  <2>4. g[m + 1] = last /\ \A i \in 0..m : g[i] = f[i]
    OBVIOUS
  <2>5. ASSUME NEW i \in 0..(m + 1)
        PROVE  g[i] = IF i = 0 THEN none ELSE AdlFrom(g[i - 1], ranking[i])
    <3>1. CASE i = m + 1
      <4>1. i - 1 = m /\ i # 0 /\ m \in 0..m
        BY <3>1
      <4>2. g[i - 1] = f[m]
        BY <2>4, <4>1
      <4> QED  BY <2>4, <3>1, <4>1, <4>2
    <3>2. CASE i \in 0..m
      <4>1. i # 0 => i - 1 \in 0..m
        BY <3>2
      <4> HIDE DEF g
      <4> QED  BY <2>3, <2>4, <3>2, <4>1
    <3> QED  BY <2>2, <3>1, <3>2
  <2>6. g = [i \in 0..(m + 1) |-> g[i]]
    OBVIOUS
  <2> HIDE DEF g
  <2>7. Running(ranking, deficit, m + 1, g)
    BY <2>5, <2>6 DEF Running
  <2> QED  BY <2>7
<1> HIDE DEF T
<1>3. n \in T
  BY <1>1, <1>2, InductionOnNat
<1> QED  BY <1>3 DEF T

(* The lots taken so far from candidates C: no more than each holds. *)
TakenFrom(taken, C) ==
    /\ DOMAIN taken \subseteq C /\ taken = [v \in DOMAIN taken |-> taken[v]]
    /\ \A v \in DOMAIN taken :
         taken[v] \in Rational /\ taken[v].n >= 0 /\ ~Less(positions[v].size, taken[v])

LEMMA LeastFacts ==
  ASSUME NEW a \in Rational, NEW b \in Rational
  PROVE  /\ Least(a, b) \in {a, b} /\ Greatest(a, b) \in {a, b}
         /\ Least(a, b) \in Rational /\ Greatest(a, b) \in Rational
         /\ ~Less(a, Least(a, b)) /\ ~Less(b, Least(a, b))
<1>1. Shared(a, b, a, a, a, a, a, a)
  BY Common
<1>2. PICK D \in Nat \ {0} : HasOver(a, D) /\ HasOver(b, D)
  BY <1>1 DEF Shared
<1>3. ~Less(a, a) /\ ~Less(b, b) /\ ~(Less(a, b) /\ Less(b, a))
  BY <1>2, Compared, OverFacts
<1> QED  BY <1>3 DEF Least, Greatest

(* The lots taken for what remains of a deficit: all of them, or nothing remains. *)
LEMMA LotsFor ==
  ASSUME NEW k \in Nat \ {0}, NEW r \in Rational, r.n >= 0, NEW z \in Rational, z.n > 0,
         NEW q, q = Quotient(r, Whole(k)), NEW lots, lots = Least(z, q)
  PROVE  /\ lots \in Rational /\ lots.n >= 0 /\ ~Less(z, lots)
         /\ Minus(r, Times(k, lots)) \in Rational /\ Minus(r, Times(k, lots)).n >= 0
         /\ lots = z \/ Minus(r, Times(k, lots)) = Whole(0)
         /\ r = Whole(0) => lots = Whole(0)
<1>1. PICK m \in Rational : m = Whole(k) /\ m.n > 0
  BY WholeField
<1>2. q \in Rational /\ q.n >= 0 /\ Times(k, q) = r
  <2>1. q \in Rational /\ Product(q, m) = r /\ q.n >= 0
    BY <1>1, QuotientLaw, QuotientSign
  <2> QED  BY <1>1, <2>1, ProductLaws DEF Times
<1>3. lots \in {z, q} /\ lots \in Rational /\ ~Less(z, lots) /\ ~Less(q, lots)
  BY <1>2, LeastFacts
<1>4. Shared(r, z, q, lots, r, r, r, r)
  BY <1>2, <1>3, Common
<1>5. PICK D \in Nat \ {0} : HasOver(r, D) /\ HasOver(z, D) /\ HasOver(q, D) /\ HasOver(lots, D)
  BY <1>4 DEF Shared
<1>6. PICK a \in Int, b \in Int, c \in Int, l \in Int :
        a = Over(r, D) /\ b = Over(z, D) /\ c = Over(q, D) /\ l = Over(lots, D)
  BY <1>5, OverFacts
<1>7. a = k * c
  <2>1. Over(Times(k, q), D) = k * Over(q, D)
    BY <1>5, Multiples
  <2> QED  BY <1>2, <1>6, <2>1
<1>8. PICK x : x = Times(k, lots) /\ HasOver(x, D) /\ Over(x, D) = k * l
  <2>1. HasOver(Times(k, lots), D) /\ Over(Times(k, lots), D) = k * Over(lots, D)
    BY <1>5, Multiples
  <2> QED  BY <1>6, <2>1
<1>9. HasOver(Minus(r, x), D) /\ Over(Minus(r, x), D) = a - k * l
  BY <1>5, <1>6, <1>8, Linearly
<1>10. l <= c /\ (lots = q <=> l = c) /\ (lots = z <=> l = b) /\ b > 0
  BY <1>3, <1>5, <1>6, Compared, Signs
<1>11. HasOver(Whole(0), D) /\ Over(Whole(0), D) = 0
  BY Wholes
<1>12. /\ Minus(r, x).n >= 0 <=> a - k * l >= 0
       /\ Minus(r, x) = Whole(0) <=> a - k * l = 0
       /\ r = Whole(0) <=> a = 0
       /\ lots = Whole(0) <=> l = 0
       /\ Less(q, z) <=> c < b
  <2>1. Minus(r, x).n \in Int /\ (Minus(r, x).n < 0 <=> a - k * l < 0)
    BY <1>9, Signs
  <2>2. a - k * l \in Int
    OBVIOUS
  <2>3. Minus(r, x).n >= 0 <=> a - k * l >= 0
    BY <2>1, <2>2
  <2>4. /\ Minus(r, x) = Whole(0) <=> a - k * l = 0
        /\ r = Whole(0) <=> a = 0
        /\ lots = Whole(0) <=> l = 0
        /\ Less(q, z) <=> c < b
    BY <1>5, <1>6, <1>9, <1>11, Compared
  <2> QED  BY <2>3, <2>4
<1>13. a - k * l >= 0 /\ (l = c => a - k * l = 0) /\ (a = 0 => c = 0)
  <2>1. a - k * l = k * (c - l)
    BY <1>7
  <2>2. PICK e \in Nat : e = c - l
    BY <1>10
  <2>3. k * e >= 0 /\ (e = 0 => k * e = 0)
    OBVIOUS
  <2>4. k * c = 0 => c = 0
    OBVIOUS
  <2> QED  BY <1>7, <2>1, <2>2, <2>3, <2>4
<1>14. Less(q, z) => lots = q
  BY DEF Least
<1>15. Minus(r, x) \in Rational /\ lots.n >= 0
  <2>1. z.n >= 0
    BY RationalFacts
  <2> QED  BY <1>2, <1>3, <1>9, <2>1, OverFacts
<1>16. /\ Minus(r, x).n >= 0 /\ (lots = z \/ Minus(r, x) = Whole(0))
       /\ (r = Whole(0) => lots = Whole(0))
  BY <1>3, <1>10, <1>12, <1>13, <1>14
<1> QED  BY <1>3, <1>8, <1>15, <1>16

LEMMA AdlStep ==
  ASSUME Holding(positions), mark \in Nat \ {0}, NEW C \in SUBSET DOMAIN positions,
         NEW acc, acc.remaining \in Rational, acc.remaining.n >= 0, TakenFrom(acc.lots, C),
         NEW v \in C
  PROVE  \E lots : /\ AdlFrom(acc, v).lots = Put(acc.lots, v, lots)
                   /\ AdlFrom(acc, v).remaining \in Rational
                   /\ AdlFrom(acc, v).remaining.n >= 0
                   /\ TakenFrom(Put(acc.lots, v, lots), C)
                   /\ lots = positions[v].size \/ AdlFrom(acc, v).remaining = Whole(0)
                   /\ acc.remaining = Whole(0) => lots = Whole(0)
<1>1. PICK z \in Rational, r \in Rational :
        z = positions[v].size /\ z.n > 0 /\ r = acc.remaining /\ r.n >= 0
  BY PosnFacts DEF Holding
<1>2. PICK lots : lots = AdlLots(v, r)
  OBVIOUS
<1>3. PICK q : q = Quotient(r, Whole(mark)) /\ lots = Least(z, q)
  BY <1>1, <1>2 DEF AdlLots
<1>4. /\ lots \in Rational /\ lots.n >= 0 /\ ~Less(z, lots)
      /\ Minus(r, Times(mark, lots)) \in Rational /\ Minus(r, Times(mark, lots)).n >= 0
      /\ lots = z \/ Minus(r, Times(mark, lots)) = Whole(0)
      /\ r = Whole(0) => lots = Whole(0)
  BY <1>1, <1>3, LotsFor
<1>5. AdlFrom(acc, v) = [remaining |-> Minus(r, Times(mark, lots)), lots |-> Put(acc.lots, v, lots)]
  BY <1>1, <1>2 DEF AdlFrom
<1>6. TakenFrom(Put(acc.lots, v, lots), C)
  BY <1>1, <1>4 DEF TakenFrom, Put
<1> QED  BY <1>1, <1>4, <1>5, <1>6

(* The candidates come in order: once one keeps lots, no more are taken. *)
TakenInOrder(taken, ranking, k) ==
    /\ DOMAIN taken = {ranking[i] : i \in 1..k}
    /\ \A i, j \in 1..k :
         i < j => taken[ranking[i]] = positions[ranking[i]].size \/ taken[ranking[j]] = Whole(0)

(* All of the lots of every candidate so far, or nothing remains. *)
AllOrNothing(acc, ranking, k) ==
    \A i \in 1..k : \/ acc.lots[ranking[i]] = positions[ranking[i]].size
                    \/ acc.remaining = Whole(0)

(* What run_adl has at hand after k candidates. *)
AdlSoFar(acc, ranking, k, C) ==
    /\ acc.remaining \in Rational /\ acc.remaining.n >= 0
    /\ TakenFrom(acc.lots, C) /\ TakenInOrder(acc.lots, ranking, k)
    /\ AllOrNothing(acc, ranking, k)

(* No candidate comes twice. *)
Ranked(ranking, n, C) ==
    /\ \A i \in 1..n : ranking[i] \in C
    /\ \A i, j \in 1..n : i # j => ranking[i] # ranking[j]

LEMMA AdlNext ==
  ASSUME Holding(positions), mark \in Nat \ {0}, NEW C \in SUBSET DOMAIN positions,
         NEW n \in Nat, NEW ranking, Ranked(ranking, n, C), NEW k \in Nat, k + 1 <= n,
         NEW acc, AdlSoFar(acc, ranking, k, C)
  PROVE  AdlSoFar(AdlFrom(acc, ranking[k + 1]), ranking, k + 1, C)
<1>1. PICK v \in C : v = ranking[k + 1] /\ \A i \in 1..k : ranking[i] # v
  BY DEF Ranked
<1>2. PICK acc2 : acc2 = AdlFrom(acc, v)
  OBVIOUS
<1>3. PICK lots : /\ acc2.lots = Put(acc.lots, v, lots)
                  /\ acc2.remaining \in Rational /\ acc2.remaining.n >= 0
                  /\ TakenFrom(Put(acc.lots, v, lots), C)
                  /\ lots = positions[v].size \/ acc2.remaining = Whole(0)
                  /\ acc.remaining = Whole(0) => lots = Whole(0)
  BY <1>2, AdlStep DEF AdlSoFar
<1>4. /\ \A i \in 1..(k + 1) : i \in 1..k \/ i = k + 1
      /\ \A i \in 1..k : i \in 1..(k + 1) /\ i < k + 1
      /\ k + 1 \in 1..(k + 1)
  OBVIOUS
<1>5. /\ DOMAIN acc.lots = {ranking[i] : i \in 1..k}
      /\ \A i, j \in 1..k : i < j => \/ acc.lots[ranking[i]] = positions[ranking[i]].size
                                     \/ acc.lots[ranking[j]] = Whole(0)
      /\ AllOrNothing(acc, ranking, k)
  BY DEF AdlSoFar, TakenInOrder
<1>6. PICK put : put = acc2.lots
  OBVIOUS
<1>7. /\ DOMAIN put = DOMAIN acc.lots \cup {v} /\ put[v] = lots
      /\ \A i \in 1..k : put[ranking[i]] = acc.lots[ranking[i]]
  BY <1>1, <1>3, <1>5, <1>6 DEF Put
<1>8. DOMAIN put = {ranking[i] : i \in 1..(k + 1)}
  BY <1>1, <1>4, <1>5, <1>7
<1>9. ASSUME NEW i \in 1..k
      PROVE  put[ranking[i]] = positions[ranking[i]].size \/ acc.remaining = Whole(0)
  BY <1>5, <1>7 DEF AllOrNothing
<1>10. ASSUME acc.remaining = Whole(0)  PROVE acc2.remaining = Whole(0)
  <2>1. lots = Whole(0)
    BY <1>3, <1>10
  <2>2. acc2.remaining = Minus(acc.remaining, Times(mark, AdlLots(v, acc.remaining)))
    BY <1>2 DEF AdlFrom
  <2>3. AdlLots(v, acc.remaining) = lots
    <3>1. acc2.lots[v] = AdlLots(v, acc.remaining)
      BY <1>2 DEF AdlFrom, Put
    <3> QED  BY <1>6, <1>7, <3>1
  <2>4. HasOver(Whole(0), 1) /\ Over(Whole(0), 1) = 0
    BY Wholes
  <2>5. HasOver(Times(mark, Whole(0)), 1) /\ Over(Times(mark, Whole(0)), 1) = 0
    <3>1. /\ HasOver(Times(mark, Whole(0)), 1)
          /\ Over(Times(mark, Whole(0)), 1) = mark * Over(Whole(0), 1)
      BY <2>4, Multiples
    <3> QED  BY <2>4, <3>1
  <2>6. /\ HasOver(Minus(Whole(0), Times(mark, Whole(0))), 1)
        /\ Over(Minus(Whole(0), Times(mark, Whole(0))), 1) = 0
    BY <2>4, <2>5, Linearly
  <2>7. Minus(Whole(0), Times(mark, Whole(0))) = Whole(0)
    BY <2>4, <2>6, Compared
  <2> QED  BY <1>10, <2>1, <2>2, <2>3, <2>7
<1>11. TakenInOrder(put, ranking, k + 1)
  <2>1. ASSUME NEW i \in 1..(k + 1), NEW j \in 1..(k + 1), i < j
        PROVE  put[ranking[i]] = positions[ranking[i]].size \/ put[ranking[j]] = Whole(0)
    <3>1. i \in 1..k
      BY <2>1
    <3>2. CASE j \in 1..k
      BY <1>5, <1>7, <2>1, <3>1, <3>2
    <3>3. CASE j = k + 1
      BY <1>1, <1>3, <1>7, <1>9, <3>1, <3>3
    <3> QED  BY <1>4, <3>2, <3>3
  <2> QED  BY <1>8, <2>1 DEF TakenInOrder
<1>12. AllOrNothing(acc2, ranking, k + 1)
  <2>1. ASSUME NEW i \in 1..(k + 1)
        PROVE  put[ranking[i]] = positions[ranking[i]].size \/ acc2.remaining = Whole(0)
    <3>1. CASE i \in 1..k
      BY <1>9, <1>10, <3>1
    <3>2. CASE i = k + 1
      BY <1>1, <1>3, <1>7, <3>2
    <3> QED  BY <1>4, <3>1, <3>2
  <2> QED  BY <1>6, <2>1 DEF AllOrNothing
<1> QED  BY <1>1, <1>2, <1>3, <1>6, <1>11, <1>12 DEF AdlSoFar

LEMMA AdlFacts ==
  ASSUME Holding(positions), mark \in Nat \ {0}, NEW C \in SUBSET DOMAIN positions,
         NEW n \in Nat, NEW ranking, Len(ranking) = n, Ranked(ranking, n, C),
         NEW deficit \in Rational, deficit.n >= 0
  PROVE  /\ TakenFrom(AdlTaken(ranking, deficit), C)
         /\ TakenInOrder(AdlTaken(ranking, deficit), ranking, n)
<1> DEFINE run == CHOOSE f : Running(ranking, deficit, n, f)
           T == {k \in Nat : k <= n => AdlSoFar(run[k], ranking, k, C)}
<1>1. AdlTaken(ranking, deficit) = run[n].lots
  BY DEF AdlTaken, Running
<1>2. Running(ranking, deficit, n, run)
  BY RunningExists
<1> HIDE DEF run
<1>3. /\ run[0] = [remaining |-> deficit, lots |-> << >>]
      /\ \A i \in 1..n : run[i] = AdlFrom(run[i - 1], ranking[i])
  <2>1. 0 \in 0..n /\ \A i \in 1..n : i \in 0..n /\ i # 0
    OBVIOUS
  <2>2. run = [i \in 0..n |-> IF i = 0 THEN [remaining |-> deficit, lots |-> << >>]
                              ELSE AdlFrom(run[i - 1], ranking[i])]
    BY <1>2 DEF Running
  <2> QED  BY <2>1, <2>2
<1>4. 0 \in T
  <2>1. run[0].remaining = deficit /\ run[0].lots = << >> /\ 1..0 = {}
    BY <1>3
  <2>2. TakenFrom(run[0].lots, C) /\ TakenInOrder(run[0].lots, ranking, 0)
    BY <2>1 DEF TakenFrom, TakenInOrder
  <2>3. AllOrNothing(run[0], ranking, 0)
    BY <2>1 DEF AllOrNothing
  <2> QED  BY <2>1, <2>2, <2>3 DEF AdlSoFar
<1>5. ASSUME NEW k \in Nat, k \in T  PROVE k + 1 \in T
  <2> SUFFICES ASSUME k + 1 <= n  PROVE AdlSoFar(run[k + 1], ranking, k + 1, C)
    OBVIOUS
  <2>1. k + 1 \in 1..n /\ (k + 1) - 1 = k /\ k <= n
    OBVIOUS
  <2>2. run[k + 1] = AdlFrom(run[k], ranking[k + 1])
    BY <1>3, <2>1
  <2>3. AdlSoFar(run[k], ranking, k, C)
    BY <1>5, <2>1
  <2>4. AdlSoFar(AdlFrom(run[k], ranking[k + 1]), ranking, k + 1, C)
    BY <2>3, AdlNext
  <2> QED  BY <2>2, <2>4
<1> HIDE DEF T
<1>6. n \in T
  BY <1>4, <1>5, InductionOnNat
<1>7. AdlSoFar(run[n], ranking, n, C)
  BY <1>6 DEF T
<1> QED  BY <1>1, <1>7 DEF AdlSoFar

(* Forced closes of winners, at the mark. *)

LEMMA Differences ==
  ASSUME NEW a \in Rational, NEW b \in Rational
  PROVE  /\ Minus(a, b) \in Rational
         /\ Less(b, a) => Minus(a, b).n > 0
         /\ ~Less(b, a) /\ ~Less(a, b) => a = b
<1>1. Shared(a, b, a, a, a, a, a, a)
  BY Common
<1>2. PICK D \in Nat \ {0} : HasOver(a, D) /\ HasOver(b, D)
  BY <1>1 DEF Shared
<1>3. PICK m \in Int, n \in Int : m = Over(a, D) /\ n = Over(b, D)
  BY <1>2, OverFacts
<1>4. HasOver(Minus(a, b), D) /\ Over(Minus(a, b), D) = m - n
  BY <1>2, <1>3, Linearly
<1>5. Minus(a, b).n > 0 <=> m - n > 0
  BY <1>4, Signs
<1>6. (Less(b, a) <=> n < m) /\ (Less(a, b) <=> m < n) /\ (a = b <=> m = n)
  BY <1>2, <1>3, Compared
<1>7. Minus(a, b) \in Rational
  BY Closed
<1> QED  BY <1>3, <1>5, <1>6, <1>7

(* Differences multiplied by the direction of a side. *)
LEMMA DirectedDifference ==
  ASSUME NEW s \in PositionSide, NEW a \in Rational, NEW b \in Rational
  PROVE  /\ Times(Direction(s), a) \in Rational
         /\ Times(Direction(s), Minus(a, b)) = Minus(Times(Direction(s), a), Times(Direction(s), b))
         /\ a = b => Whole(0) = Minus(Times(Direction(s), a), Times(Direction(s), b))
<1>1. Shared(a, b, a, a, a, a, a, a)
  BY Common
<1>2. PICK D \in Nat \ {0} : HasOver(a, D) /\ HasOver(b, D)
  BY <1>1 DEF Shared
<1>3. HasOver(Whole(0), D) /\ Over(Whole(0), D) = 0
  BY Wholes
<1>4. CASE s = "LONG"
  BY <1>2, <1>3, <1>4, Directed, Linearly, Compared, OverFacts
<1>5. CASE s = "SHORT"
  BY <1>2, <1>3, <1>5, Directed, Linearly, Compared, OverFacts
<1> QED  BY <1>4, <1>5 DEF PositionSide

(* The lots and the value at entry that a forced close takes off. *)
Taken(ps, v, x) == Times(Direction(ps[v].side), x)
TakenValue(ps, v, x) == Times(Direction(ps[v].side), Product(x, ps[v].entry))

LEMMA DeleveragedHolds ==
  ASSUME Holding(positions), NEW C \in SUBSET DOMAIN positions, NEW taken, TakenFrom(taken, C)
  PROVE  /\ Holding(Deleveraged(taken))
         /\ \A v \in Users \ DOMAIN taken :
              /\ v \in DOMAIN Deleveraged(taken) <=> v \in DOMAIN positions
              /\ v \in DOMAIN positions => Deleveraged(taken)[v] = positions[v]
         /\ \A v \in DOMAIN taken :
              IF Less(taken[v], positions[v].size)
              THEN /\ v \in DOMAIN Deleveraged(taken)
                   /\ Deleveraged(taken)[v] = Reduced(positions[v], taken[v])
              ELSE v \notin DOMAIN Deleveraged(taken)
<1> DEFINE dom == {w \in DOMAIN positions : w \in DOMAIN taken => Less(taken[w], positions[w].size)}
           ds  == [v \in dom |-> IF v \in DOMAIN taken THEN Reduced(positions[v], taken[v])
                                 ELSE positions[v]]
<1>1. Deleveraged(taken) = ds
  BY DEF Deleveraged
<1>2. ASSUME NEW v \in DOMAIN taken, Less(taken[v], positions[v].size)
      PROVE  Reduced(positions[v], taken[v]) \in Posn
  <2>1. positions[v] \in Posn /\ taken[v] \in Rational
    BY DEF TakenFrom, Holding
  <2>2. PICK z \in Rational, x \in Rational : z = positions[v].size /\ x = taken[v]
    BY <2>1, PosnFacts
  <2>3. Minus(z, x) \in Rational /\ Minus(z, x).n > 0
    BY <1>2, <2>2, Differences
  <2>4. Reduced(positions[v], taken[v]) = [positions[v] EXCEPT !.size = Minus(z, x)]
    BY <2>1, <2>2 DEF Reduced, Posn
  <2> QED  BY <2>1, <2>3, <2>4, PosnFacts
<1>3. Holding(ds)
  BY <1>2 DEF Holding, IsMap
<1> QED  BY <1>1, <1>3 DEF TakenFrom, Holding, IsMap

LEMMA DeleveragedMoves ==
  ASSUME Holding(positions), NEW C \in SUBSET DOMAIN positions, NEW taken, TakenFrom(taken, C),
         NEW v \in DOMAIN taken
  PROVE  /\ Taken(positions, v, taken[v]) \in Rational
         /\ TakenValue(positions, v, taken[v]) \in Rational
         /\ NetOf(Deleveraged(taken), v) = Minus(NetOf(positions, v), Taken(positions, v, taken[v]))
         /\ EntryOf(Deleveraged(taken), v) =
              Minus(EntryOf(positions, v), TakenValue(positions, v, taken[v]))
<1>1. positions[v] \in Posn /\ taken[v] \in Rational /\ v \in DOMAIN positions
  BY DEF TakenFrom, Holding
<1>2. PICK s \in PositionSide, z \in Rational, e \in Rational, x \in Rational :
        /\ s = positions[v].side /\ z = positions[v].size /\ e = positions[v].entry
        /\ x = taken[v]
  BY <1>1, PosnFacts
<1>3. PICK ze \in Rational, xe \in Rational : ze = Product(z, e) /\ xe = Product(x, e)
  BY Closed
<1>4. /\ NetOf(positions, v) = Times(Direction(s), z)
      /\ EntryOf(positions, v) = Times(Direction(s), ze)
  <2>1. Product(Times(Direction(s), z), e) = Times(Direction(s), Product(z, e))
    BY SideIs, TimesProduct
  <2> QED  BY <1>1, <1>2, <1>3, <2>1 DEF NetOf, EntryOf
<1>5. /\ Taken(positions, v, taken[v]) = Times(Direction(s), x)
      /\ TakenValue(positions, v, taken[v]) = Times(Direction(s), xe)
  BY <1>2, <1>3 DEF Taken, TakenValue
<1> DEFINE ds == Deleveraged(taken)
<1>6. IF Less(x, z) THEN v \in DOMAIN ds /\ ds[v] = Reduced(positions[v], x)
      ELSE v \notin DOMAIN ds
  BY <1>2, DeleveragedHolds
<1> HIDE DEF ds
<1>7. CASE Less(x, z)
  <2>1. PICK y \in Rational : y = Minus(z, x)
    BY Closed
  <2>2. ds[v].side = s /\ ds[v].size = y /\ ds[v].entry = e
    BY <1>1, <1>2, <1>6, <1>7, <2>1 DEF Reduced, Posn
  <2>3. NetOf(ds, v) = Times(Direction(s), y)
    BY <1>6, <1>7, <2>2 DEF NetOf
  <2>4. EntryOf(ds, v) = Times(Direction(s), Minus(ze, xe))
    <3>1. Product(Times(Direction(s), y), e) = Times(Direction(s), Product(y, e))
      BY SideIs, TimesProduct
    <3>2. Product(y, e) = Minus(ze, xe)
      BY <1>3, <2>1, ProductLaws
    <3> QED  BY <1>6, <1>7, <2>2, <2>3, <3>1, <3>2 DEF EntryOf
  <2> QED  BY <1>4, <1>5, <2>1, <2>3, <2>4, DirectedDifference DEF ds
<1>8. CASE ~Less(x, z)
  <2>1. x = z
    <3>1. ~Less(z, x)
      BY <1>2 DEF TakenFrom
    <3> QED  BY <1>8, <3>1, Differences
  <2>2. NetOf(ds, v) = Whole(0) /\ EntryOf(ds, v) = Whole(0)
    BY <1>6, <1>8 DEF NetOf, EntryOf
  <2> QED  BY <1>3, <1>4, <1>5, <2>1, <2>2, DirectedDifference DEF ds
<1> QED  BY <1>7, <1>8

LEMMA ClosedAgrees ==
  ASSUME NEW w \in Rational, NEW f \in Rational, NEW ev \in Rational, NEW x \in Rational,
         NEW v \in Rational, NEW dep \in Rational, NEW c \in Rational,
         Agree(w, f, ev, dep, c)
  PROVE  Agree(Plus(w, Minus(v, x)), f, Minus(ev, x), dep, Plus(c, v))
<1>1. Shared(w, f, ev, x, v, dep, c, c)
  BY Common
<1>2. PICK D \in Nat \ {0} : /\ HasOver(w, D) /\ HasOver(f, D) /\ HasOver(ev, D) /\ HasOver(x, D)
                             /\ HasOver(v, D) /\ HasOver(dep, D) /\ HasOver(c, D)
  BY <1>1 DEF Shared
<1> QED  BY <1>2, Linearly, Compared, OverFacts DEF Agree

(* The accounts once the candidates are closed, before the trade of the      *)
(* liquidated user is booked.                                                *)
LEMMA DeleveragedAccounts ==
  ASSUME Accounts(positions, traded, wallet, fees, cash), mark \in Nat \ {0},
         NEW C \in SUBSET DOMAIN positions, NEW taken, TakenFrom(taken, C),
         NEW tr, tr = [v \in Users |-> IF v \in DOMAIN taken
                         THEN Minus(traded[v], Taken(positions, v, taken[v])) ELSE traded[v]],
         NEW w, w = [v \in Users |-> IF v \in DOMAIN taken
                         THEN Plus(wallet[v], AdlProfit(v, taken[v])) ELSE wallet[v]],
         NEW c, c = [v \in Users |-> IF v \in DOMAIN taken
                         THEN Plus(cash[v], Taken(positions, v, Times(mark, taken[v])))
                         ELSE cash[v]]
  PROVE  Accounts(Deleveraged(taken), tr, w, fees, c)
<1>1. Holding(positions)
  BY DEF Accounts
<1> DEFINE ds == Deleveraged(taken)
<1>2. /\ Holding(ds)
      /\ \A v \in Users \ DOMAIN taken :
              /\ v \in DOMAIN ds <=> v \in DOMAIN positions
              /\ v \in DOMAIN positions => ds[v] = positions[v]
  BY <1>1, DeleveragedHolds
<1>3. ASSUME NEW v \in Users
      PROVE  /\ tr[v] \in Rational /\ w[v] \in Rational /\ c[v] \in Rational
             /\ Balanced(ds, tr, w, fees, c, v)
  <2>1. PICK x \in Rational, y \in Rational, z \in Rational, n \in Rational :
          x = wallet[v] /\ y = fees[v] /\ z = cash[v] /\ n = traded[v]
    BY DEF Accounts
  <2>2. PICK dep \in Rational, ev \in Rational : dep = Whole(Deposit) /\ ev = EntryOf(positions, v)
    BY <1>1, WholeRational, Constants, EntryRational
  <2>3. NetOf(positions, v) = n /\ Agree(x, y, ev, dep, z)
    BY <2>1, <2>2 DEF Accounts, Balanced
  <2>4. CASE v \notin DOMAIN taken
    <3>1. NetOf(ds, v) = NetOf(positions, v) /\ EntryOf(ds, v) = EntryOf(positions, v)
      <4> HIDE DEF ds
      <4> QED  BY <1>2, <2>4 DEF NetOf, EntryOf
    <3> HIDE DEF ds
    <3> QED  BY <2>1, <2>2, <2>3, <2>4, <3>1 DEF Balanced
  <2>5. CASE v \in DOMAIN taken
    <3>1. PICK t \in Rational, tv \in Rational :
            /\ t = Taken(positions, v, taken[v]) /\ tv = TakenValue(positions, v, taken[v])
            /\ NetOf(ds, v) = Minus(n, t) /\ EntryOf(ds, v) = Minus(ev, tv)
      BY <1>1, <2>2, <2>3, <2>5, DeleveragedMoves
    <3>2. positions[v] \in Posn /\ taken[v] \in Rational
      BY <1>1, <2>5 DEF TakenFrom, Holding
    <3>3. PICK l \in Rational, s \in PositionSide, e \in Rational :
            l = taken[v] /\ s = positions[v].side /\ e = positions[v].entry
      BY <3>2, PosnFacts
    <3>4. PICK tm \in Rational : /\ tm = Taken(positions, v, Times(mark, taken[v]))
                                 /\ tm = Times(Direction(s), Times(mark, l))
      <4>1. Times(mark, l) \in Rational
        BY Closed
      <4>2. Times(Direction(s), Times(mark, l)) \in Rational
        BY <4>1, SideIs, Closed
      <4> QED  BY <3>3, <4>2 DEF Taken
    <3>5. AdlProfit(v, taken[v]) = Minus(tm, tv)
      <4>1. Times(Direction(s), Product(l, Minus(Whole(mark), e))) =
              Minus(Times(Direction(s), Times(mark, l)), Times(Direction(s), Product(l, e)))
        BY SideIs, ProfitIs
      <4> QED  BY <3>1, <3>3, <3>4, <4>1 DEF AdlProfit, Profit, TakenValue
    <3>6. Agree(Plus(x, Minus(tm, tv)), y, Minus(ev, tv), dep, Plus(z, tm))
      BY <2>3, ClosedAgrees
    <3>7. /\ tr[v] = Minus(n, t) /\ w[v] = Plus(x, Minus(tm, tv)) /\ c[v] = Plus(z, tm)
      BY <2>1, <2>5, <3>1, <3>4, <3>5
    <3>8. Minus(n, t) \in Rational /\ Plus(x, Minus(tm, tv)) \in Rational /\ Plus(z, tm) \in Rational
      BY Closed
    <3> HIDE DEF ds
    <3> QED  BY <2>1, <2>2, <3>1, <3>6, <3>7, <3>8 DEF Balanced
  <2> QED  BY <2>4, <2>5
<1> HIDE DEF ds
<1>4. tr \in [Users -> Rational] /\ w \in [Users -> Rational] /\ c \in [Users -> Rational]
  BY <1>3
<1>5. fees \in [Users -> Rational]
  BY DEF Accounts
<1> QED  BY <1>2, <1>3, <1>4, <1>5 DEF Accounts, ds

-----------------------------------------------------------------------------
(* Margins and the vault. *)

LEMMA MarginConstants ==
  /\ BaseImf \in Nat /\ ImfFactor \in Nat /\ BaseMmf \in Nat /\ MmfFactor \in Nat
BY MarginAssumption

LEMMA SqrtIs ==
  ASSUME NEW x \in Rational, x.n >= 0
  PROVE  \E w \in Nat, r \in Nat : /\ w = x.n \div x.d /\ r = Sqrt(x)
                                  /\ r * r <= w /\ w < (r + 1) * (r + 1)
<1>1. PICK w \in Nat : w = x.n \div x.d
  <2>1. x.n \in Nat /\ x.d \in Nat \ {0}
    BY RationalFacts
  <2> QED  BY <2>1, DivisionNat
<1> DEFINE T == {s \in Nat : w < (s + 1) * (s + 1)}
<1>2. w \in T
  <2>1. (w + 1) * (w + 1) = w * w + 2 * w + 1 /\ w * w >= 0
    OBVIOUS
  <2> QED  BY <2>1
<1>3. T \in SUBSET Nat /\ T # {}
  BY <1>2
<1>4. PICK r \in T : \A s \in T : r <= s
  <2> HIDE DEF T
  <2> QED  BY <1>3, SmallestNat
<1>5. r * r <= w
  <2>1. CASE r = 0
    BY <2>1
  <2>2. CASE r # 0
    <3>1. PICK s \in Nat : s = r - 1 /\ s \notin T
      BY <1>4, <2>2
    <3>2. ~(w < (s + 1) * (s + 1)) /\ s + 1 = r
      BY <3>1
    <3>3. ~(w < r * r)
      BY <3>2
    <3> QED  BY <3>3
  <2> QED  BY <2>1, <2>2
<1>6. r \in 0..w
  BY <1>2, <1>4
<1>7. \E s \in 0..w : s * s <= w /\ w < (s + 1) * (s + 1)
  BY <1>5, <1>6
<1>8. PICK o \in 0..w : o = Sqrt(x) /\ o * o <= w /\ w < (o + 1) * (o + 1)
  BY <1>1, <1>7 DEF Sqrt
<1>9. o \in Nat
  OBVIOUS
<1> QED  BY <1>1, <1>8, <1>9

LEMMA SqrtFacts ==
  ASSUME NEW x \in Rational, x.n >= 0
  PROVE  Sqrt(x) \in Nat
BY SqrtIs

LEMMA MarginFacts ==
  ASSUME NEW base \in Nat, NEW factor \in Nat, NEW x \in Rational, x.n >= 0
  PROVE  MarginRate(base, factor, x) \in Rational
<1>1. PICK r \in Nat : r = Sqrt(x)
  BY SqrtFacts
<1>2. PICK y \in Nat : y = factor * r
  OBVIOUS
<1>3. \A part \in Int : Rate(part) \in Rational
  BY Constants, FracRational DEF Rate
<1> QED  BY <1>1, <1>2, <1>3 DEF MarginRate

LEMMA TimesSign ==
  ASSUME NEW k \in Nat, NEW a \in Rational, a.n >= 0
  PROVE  Times(k, a) \in Rational /\ Times(k, a).n >= 0
<1>1. Whole(k) \in Rational /\ Whole(k).n = k
  BY WholeField
<1>2. PICK w \in Rational : w = Whole(k) /\ w.n >= 0
  BY <1>1
<1>3. Product(w, a) \in Rational /\ Product(w, a).n >= 0
  BY <1>2, ProductSign, Closed
<1> QED  BY <1>2, <1>3 DEF Times

LEMMA ImRational ==
  ASSUME Holding(positions), NEW u \in DOMAIN positions, mark \in Nat \ {0}
  PROVE  PositionIm(positions, u, mark) \in Rational
<1>1. PICK z \in Rational : z = positions[u].size /\ z.n > 0
  BY PosnFacts DEF Holding
<1>2. PICK x \in Rational : x = Times(mark, z) /\ x.n >= 0
  <2>1. z.n >= 0 /\ mark \in Nat
    BY <1>1, RationalFacts
  <2>2. Times(mark, z) \in Rational /\ Times(mark, z).n >= 0
    BY <2>1, TimesSign
  <2> QED  BY <2>2
<1>3. MarginRate(BaseImf, ImfFactor, x) \in Rational
  BY <1>2, MarginConstants, MarginFacts
<1>4. PositionIm(positions, u, mark) = Product(MarginRate(BaseImf, ImfFactor, x), x)
  BY <1>1, <1>2 DEF PositionIm, CalcIm
<1> QED  BY <1>3, <1>4, Closed

LEMMA DeficitRational ==
  ASSUME Holding(positions), NEW u \in DOMAIN positions, mark \in Nat \ {0},
         NEW t, TradeFacts(t)
  PROVE  DeficitOf(u, t) \in Rational /\ DeficitOf(u, t).n >= 0
<1>1. positions[u] \in Posn
  BY DEF Holding
<1>2. PICK s \in PositionSide, z \in Rational, e \in Rational :
        s = positions[u].side /\ z = positions[u].size /\ e = positions[u].entry /\ z.n > 0
  BY <1>1, PosnFacts
<1>3. z.n > 0
  BY <1>2
<1>4. PICK im \in Rational : im = PositionIm(positions, u, mark)
  BY ImRational
<1>5. PICK y \in Rational : y = Quotient(im, z)
  BY <1>2, QuotientLaw
<1>6. PICK bk \in Rational : bk = BankruptcyPrice(positions[u], im)
  <2>1. Times(Direction(s), y) \in Rational
    BY SideIs, Closed
  <2>2. Minus(e, Times(Direction(s), y)) \in Rational
    BY <2>1, Closed
  <2> QED  BY <1>2, <1>5, <2>2 DEF BankruptcyPrice
<1>7. PICK p \in Rational, q \in Rational : p = Whole(t.price) /\ q = t.qty /\ q.n > 0
  BY WholeRational DEF TradeFacts
<1>8. PICK worse \in Rational : worse = Times(Direction(s), Minus(bk, p))
  <2>1. Minus(bk, p) \in Rational
    BY Closed
  <2> QED  BY <2>1, SideIs, Closed
<1>9. DeficitOf(u, t) = IF worse.n > 0 THEN Product(worse, q) ELSE Whole(0)
  BY <1>2, <1>4, <1>6, <1>7, <1>8 DEF DeficitOf
<1>10. CASE worse.n > 0
  <2>1. PICK owed \in Rational : owed = Product(worse, q) /\ owed.n > 0
    BY <1>7, <1>10, Closed, ProductSign
  <2>2. owed.n >= 0
    BY <2>1, RationalFacts
  <2> QED  BY <1>9, <1>10, <2>1, <2>2
<1>11. CASE ~(worse.n > 0)
  BY <1>9, <1>11, WholeField
<1> QED  BY <1>10, <1>11

VaultOK(v) == v \in [balance : Rational, losses : Rational, fees : Rational]

LEMMA VaultFacts ==
  ASSUME NEW v, VaultOK(v)
  PROVE  /\ v.balance \in Rational /\ v.losses \in Rational /\ v.fees \in Rational
         /\ \A y, z \in Rational :
              /\ VaultOK([v EXCEPT !.balance = y, !.fees = z])
              /\ [v EXCEPT !.balance = y, !.fees = z].balance = y
              /\ VaultOK([v EXCEPT !.balance = y, !.losses = z])
BY DEF VaultOK

LEMMA VaultMoves ==
  ASSUME NEW v, VaultOK(v), NEW x \in Rational
  PROVE  /\ VaultOK(CreditFee(v, x)) /\ CreditFee(v, x).balance = Plus(v.balance, x)
         /\ VaultOK(AbsorbDeficit(v, x))
<1>1. v.balance \in Rational /\ v.losses \in Rational /\ v.fees \in Rational
  BY VaultFacts
<1>2. PICK y \in Rational, z \in Rational : y = Plus(v.balance, x) /\ z = Plus(v.fees, x)
  BY <1>1, Closed
<1>3. CreditFee(v, x) = [v EXCEPT !.balance = y, !.fees = z]
  BY <1>2 DEF CreditFee
<1>4. PICK p \in Rational : p = Least(x, v.balance)
  BY <1>1, LeastFacts
<1>5. PICK m \in Rational, n \in Rational : m = Minus(v.balance, p) /\ n = Plus(v.losses, p)
  BY <1>1, Closed
<1>6. AbsorbDeficit(v, x) = [v EXCEPT !.balance = m, !.losses = n]
  BY <1>4, <1>5 DEF AbsorbDeficit
<1>7. /\ VaultOK([v EXCEPT !.balance = y, !.fees = z])
      /\ [v EXCEPT !.balance = y, !.fees = z].balance = y
  BY VaultFacts
<1>8. VaultOK([v EXCEPT !.balance = m, !.losses = n])
  BY VaultFacts
<1> QED  BY <1>2, <1>3, <1>6, <1>7, <1>8

LEMMA Halved ==
  ASSUME NEW x \in Rational
  PROVE  Quotient(x, Whole(2)) \in Rational
BY WholeField, QuotientLaw

-----------------------------------------------------------------------------
(* The invariant: what the accounts hold, and what is being liquidated.       *)

(* The books: at most one trade is half applied. *)
Records ==
    /\ Accounts(positions, traded, wallet, fees, cash)
    /\ fee_revenue \in Rational /\ VaultOK(vault)
    /\ half \subseteq Trade /\ \A s, t \in half : s = t
    /\ count \in 0..MaxTrades

(* A chunk is filled from a position that holds as many lots. *)
Covered(x, ps) ==
    x.chunk.n > 0 => x.user \in DOMAIN ps /\ ~Less(ps[x.user].size, x.chunk)

(* At most one liquidation is under way. *)
Calls(tr, ps) ==
    /\ tr \subseteq [user : Users, chunks : 0..MaxChunks, chunk : Rational]
    /\ \A x, y \in tr : x = y
    /\ \A x \in tr : x.chunk.n >= 0 /\ Covered(x, ps)

(* NetPosition and EntryAccountsForCash are Accounts; they need the positions *)
(* to be in lowest terms, and a chunk to be no more than the position it is  *)
(* filled from, so that no step of a liquidation turns a position round.     *)
LiqInv ==
    /\ Records
    /\ mark \in Marks
    /\ Calls(trigger, positions)
    /\ calls \in 0..MaxCalls /\ (calls = 0 => trigger = {})

LEMMA LiqConstants ==
  /\ Marks \subseteq Nat \ {0} /\ LiqFee \in Nat /\ ChunkParts \in Nat \ {0}
  /\ MinLot \in Nat \ {0} /\ MaxChunks \in Nat \ {0} /\ MaxCalls \in Nat
BY LiquidationAssumption

LEMMA SidesOf ==
  ASSUME NEW b \in BOOLEAN
  PROVE  TradeSide(b) \in PositionSide
BY DEF TradeSide, PositionSide

(* apply_trade of one party. *)
LEMMA Applied ==
  ASSUME Accounts(positions, traded, wallet, fees, cash), NEW u \in Users,
         NEW t, TradeFacts(t), NEW b \in BOOLEAN, ApplyTrade(u, t, b)
  PROVE  /\ Accounts(positions', traded', wallet', fees', cash')
         /\ Moves(positions, positions', u, t, TradeSide(b))
<1>1. PICK fee \in Rational, side \in PositionSide : fee = Fee(t, b) /\ side = TradeSide(b)
  BY MoneyOf, SidesOf
<1>2. Realized(u, t, side) = RealizedOf(positions, u, t, side)
  BY DEF Realized, RealizedOf
<1>3. TradeOf(positions, traded, wallet, fees, cash, u, t, side, fee,
              positions', traded', wallet', fees', cash')
  BY <1>1, <1>2 DEF ApplyTrade, Booked, TradeOf
<1>4. /\ Accounts(positions', traded', wallet', fees', cash')
      /\ Moves(positions, positions', u, t, side)
  BY <1>3, TradeBooked
<1> QED  BY <1>1, <1>4

LEMMA CallsUnmoved ==
  ASSUME NEW tr, NEW ps, NEW qs, NEW u, Calls(tr, ps), Holding(ps), SameBut(ps, qs, u),
         \A x \in tr : x.chunk.n > 0 => x.user # u
  PROVE  Calls(tr, qs)
BY DEF Calls, Covered, SameBut

LEMMA LiqInitially == LiqInit => LiqInv
<1> SUFFICES ASSUME LiqInit  PROVE LiqInv
  OBVIOUS
<1> USE DEF LiqInit, Init
<1>1. Holding(positions)
  BY DEF Holding, IsMap
<1>2. Whole(0) \in Rational /\ Whole(Deposit) \in Rational /\ Whole(VaultSeed) \in Rational
  BY WholeRational, Constants
<1>3. ASSUME NEW u \in Users  PROVE Balanced(positions, traded, wallet, fees, cash, u)
  <2>1. NetOf(positions, u) = Whole(0) /\ EntryOf(positions, u) = Whole(0)
    BY DEF NetOf, EntryOf
  <2>2. PICK z \in Rational, dep \in Rational : z = Whole(0) /\ dep = Whole(Deposit)
    BY <1>2
  <2>3. Agree(dep, z, z, dep, z)
    <3>1. Shared(dep, dep, dep, dep, dep, dep, dep, dep)
      BY Common
    <3>2. PICK D \in Nat \ {0} : HasOver(dep, D)
      BY <3>1 DEF Shared
    <3>3. HasOver(z, D) /\ Over(z, D) = 0
      BY <2>2, Wholes
    <3> QED  BY <3>2, <3>3, Linearly, Compared, OverFacts DEF Agree
  <2> QED  BY <2>1, <2>2, <2>3 DEF Balanced
<1>4. Accounts(positions, traded, wallet, fees, cash)
  BY <1>1, <1>2, <1>3 DEF Accounts
<1>5. VaultOK(vault)
  BY <1>2 DEF VaultOK
<1> QED  BY <1>2, <1>4, <1>5, Constants, LiqConstants DEF LiqInv, Records, Calls

LEMMA BuyerStep ==
  ASSUME LiqInv, NEW t \in Trade, ApplyToBuyer(t)
  PROVE  Records' /\ Moves(positions, positions', t.buyer, t, "LONG") /\ t.buyer \in Users
<1>1. TradeFacts(t) /\ t.buyer \in Users
  BY TradeIs
<1>2. ApplyTrade(t.buyer, t, TRUE)
  BY DEF ApplyToBuyer
<1>3. Accounts(positions, traded, wallet, fees, cash)
  BY DEF LiqInv, Records
<1>4. /\ Accounts(positions', traded', wallet', fees', cash')
      /\ Moves(positions, positions', t.buyer, t, "LONG")
  <2>1. TradeSide(TRUE) = "LONG"
    BY DEF TradeSide
  <2> QED  BY <1>1, <1>2, <1>3, <2>1, Applied
<1>5. /\ fee_revenue' \in Rational /\ VaultOK(vault') /\ half' \subseteq Trade
      /\ (\A s, r \in half' : s = r) /\ count' \in 0..MaxTrades
  BY Constants DEF ApplyToBuyer, LiqInv, Records
<1> QED  BY <1>1, <1>4, <1>5 DEF Records

LEMMA SellerStep ==
  ASSUME LiqInv, NEW t \in Trade, ApplyToSeller(t)
  PROVE  Records' /\ Moves(positions, positions', t.seller, t, "SHORT") /\ t.seller \in Users
<1>1. TradeFacts(t) /\ t.seller \in Users
  BY TradeIs
<1>2. ApplyTrade(t.seller, t, FALSE)
  BY DEF ApplyToSeller
<1>3. Accounts(positions, traded, wallet, fees, cash) /\ VaultOK(vault) /\ fee_revenue \in Rational
  BY DEF LiqInv, Records
<1>4. /\ Accounts(positions', traded', wallet', fees', cash')
      /\ Moves(positions, positions', t.seller, t, "SHORT")
  <2>1. TradeSide(FALSE) = "SHORT"
    BY DEF TradeSide
  <2> QED  BY <1>1, <1>2, <1>3, <2>1, Applied
<1>5. PICK charged \in Rational : charged = Product(Value(t), Rate(MakerFee + TakerFee))
  <2>1. MakerFee + TakerFee \in Int
    BY Constants
  <2> QED  BY <1>1, <2>1, MoneyOf
<1>6. fee_revenue' \in Rational /\ VaultOK(vault')
  <2>1. PICK h \in Rational : h = Quotient(charged, Whole(2))
    BY Halved
  <2>2. fee_revenue' = Plus(fee_revenue, charged) /\ vault' = CreditFee(vault, h)
    BY <1>5, <2>1 DEF ApplyToSeller
  <2>3. VaultOK(CreditFee(vault, h)) /\ Plus(fee_revenue, charged) \in Rational
    BY <1>3, VaultMoves, Closed
  <2> QED  BY <2>2, <2>3
<1>7. half' = {} /\ count' = count /\ count \in 0..MaxTrades
  BY DEF ApplyToSeller, LiqInv, Records
<1> QED  BY <1>1, <1>4, <1>6, <1>7 DEF Records

LEMMA EngineStep ==
  ASSUME LiqInv, NEW t \in Trade, EngineTrade(t)
  PROVE  LiqInv'
<1>1. /\ \A x \in Filling : x.user \notin {t.buyer, t.seller}
      /\ ApplyToBuyer(t) \/ ApplyToSeller(t)
      /\ mark' = mark /\ trigger' = trigger /\ calls' = calls
  BY DEF EngineTrade, marketVars
<1>2. Records' /\ \E u \in {t.buyer, t.seller} : SameBut(positions, positions', u)
  BY <1>1, BuyerStep, SellerStep DEF Moves
<1>3. PICK u \in {t.buyer, t.seller} : SameBut(positions, positions', u)
  BY <1>2
<1>4. Calls(trigger, positions) /\ Holding(positions)
  BY DEF LiqInv, Records, Accounts
<1>5. \A x \in trigger : x.chunk.n > 0 => x.user # u
  BY <1>1 DEF Filling
<1>6. Calls(trigger, positions')
  BY <1>3, <1>4, <1>5, CallsUnmoved
<1> QED  BY <1>1, <1>2, <1>6 DEF LiqInv

-----------------------------------------------------------------------------
(* The market thread. *)

LEMMA TickStep ==
  ASSUME LiqInv, NEW m \in Marks, Tick(m)
  PROVE  LiqInv'
<1>1. /\ Accounts(positions', traded', wallet', fees', cash')
      /\ fee_revenue' = fee_revenue /\ vault' = vault /\ half' = half /\ count' = count
      /\ positions' = positions
  BY DEF Tick, vars, LiqInv, Records
<1>2. Records'
  BY <1>1 DEF LiqInv, Records
<1> QED  BY <1>1, <1>2 DEF LiqInv, Tick, Calls

LEMMA CallsOfOne ==
  ASSUME NEW x, NEW ps, x \in [user : Users, chunks : 0..MaxChunks, chunk : Rational],
         x.chunk.n >= 0, Covered(x, ps)
  PROVE  Calls({x}, ps)
BY DEF Calls

LEMMA Unchanged ==
  ASSUME LiqInv, UNCHANGED vars
  PROVE  Records' /\ positions' = positions
<1>1. /\ Accounts(positions', traded', wallet', fees', cash')
      /\ fee_revenue' = fee_revenue /\ vault' = vault /\ half' = half /\ count' = count
      /\ positions' = positions
  BY DEF vars, LiqInv, Records
<1> QED  BY <1>1 DEF LiqInv, Records

LEMMA ScanStep ==
  ASSUME LiqInv, NEW u \in Users, Scan(u)
  PROVE  LiqInv'
<1>1. Records' /\ positions' = positions
  BY Unchanged DEF Scan
<1>2. PICK z \in Rational : z = Whole(0) /\ z.n = 0
  BY WholeField
<1> DEFINE x == [user |-> u, chunks |-> 0, chunk |-> z]
<1>3. Calls({x}, positions)
  BY <1>2, LiqConstants DEF Calls, Covered
<1>4. trigger' = {x} /\ mark' = mark /\ calls' = calls + 1 /\ calls < MaxCalls
  BY <1>2 DEF Scan
<1>5. calls' \in 0..MaxCalls /\ calls' # 0
  BY <1>4, LiqConstants DEF LiqInv
<1> QED  BY <1>1, <1>3, <1>4, <1>5 DEF LiqInv

LEMMA ChunkFacts ==
  ASSUME NEW z \in Rational, z.n > 0
  PROVE  /\ ChunkOf(z) \in Rational /\ ChunkOf(z).n > 0 /\ ~Less(z, ChunkOf(z))
<1>1. PICK c \in Rational, l \in Rational :
        /\ c = Whole(ChunkParts) /\ c.n > 0 /\ l = Whole(MinLot) /\ l.n > 0
  BY WholeField, LiqConstants
<1>2. PICK q \in Rational : q = Quotient(z, c) /\ q.n > 0
  BY <1>1, QuotientLaw, QuotientSign
<1>3. PICK g \in Rational : g = Greatest(l, q) /\ g.n > 0
  BY <1>1, <1>2, LeastFacts
<1>4. PICK y \in Rational : y = Least(g, z) /\ y \in {g, z} /\ ~Less(z, y)
  BY LeastFacts
<1> QED  BY <1>1, <1>2, <1>3, <1>4 DEF ChunkOf

(* The call in progress. *)
LEMMA OneCall ==
  ASSUME LiqInv, NEW x \in trigger
  PROVE  /\ x.user \in Users /\ x.chunks \in 0..MaxChunks /\ x.chunk \in Rational
         /\ x.chunk.n >= 0 /\ Covered(x, positions) /\ calls \in 0..MaxCalls /\ calls # 0
         /\ \A k \in 0..MaxChunks, z \in Rational :
              /\ [x EXCEPT !.chunk = z] \in [user : Users, chunks : 0..MaxChunks, chunk : Rational]
              /\ [x EXCEPT !.chunks = k, !.chunk = z]
                   \in [user : Users, chunks : 0..MaxChunks, chunk : Rational]
              /\ [x EXCEPT !.chunk = z].chunk = z /\ [x EXCEPT !.chunk = z].user = x.user
              /\ [x EXCEPT !.chunks = k, !.chunk = z].chunk = z
              /\ [x EXCEPT !.chunks = k, !.chunk = z].user = x.user
<1>1. x \in [user : Users, chunks : 0..MaxChunks, chunk : Rational]
  BY DEF LiqInv, Calls
<1>2. x.chunk.n >= 0 /\ Covered(x, positions) /\ calls \in 0..MaxCalls /\ calls # 0
  BY DEF LiqInv, Calls
<1>3. ASSUME NEW k \in 0..MaxChunks, NEW z \in Rational
      PROVE  /\ [x EXCEPT !.chunk = z] \in [user : Users, chunks : 0..MaxChunks, chunk : Rational]
             /\ [x EXCEPT !.chunks = k, !.chunk = z]
                   \in [user : Users, chunks : 0..MaxChunks, chunk : Rational]
             /\ [x EXCEPT !.chunk = z].chunk = z /\ [x EXCEPT !.chunk = z].user = x.user
             /\ [x EXCEPT !.chunks = k, !.chunk = z].chunk = z
             /\ [x EXCEPT !.chunks = k, !.chunk = z].user = x.user
  BY <1>1
<1> QED  BY <1>1, <1>2, <1>3

LEMMA AbortStep ==
  ASSUME LiqInv, Abort
  PROVE  LiqInv'
<1>1. trigger' = {} /\ mark' = mark /\ calls' = calls /\ UNCHANGED vars
  BY DEF Abort
<1>2. Records' /\ positions' = positions
  BY <1>1, Unchanged
<1> QED  BY <1>1, <1>2 DEF LiqInv, Calls

LEMMA StartChunkStep ==
  ASSUME LiqInv, StartChunk
  PROVE  LiqInv'
<1>1. PICK x \in trigger :
        /\ x.user \in DOMAIN positions /\ x.chunks < MaxChunks
        /\ trigger' = {[x EXCEPT !.chunks = @ + 1, !.chunk = ChunkOf(positions[x.user].size)]}
        /\ mark' = mark /\ calls' = calls /\ UNCHANGED vars
  BY DEF StartChunk, BetweenChunks
<1>2. Records' /\ positions' = positions
  BY <1>1, Unchanged
<1>3. positions[x.user] \in Posn
  BY <1>1 DEF LiqInv, Records, Accounts, Holding
<1>4. PICK z \in Rational : z = positions[x.user].size /\ z.n > 0
  BY <1>3, PosnFacts
<1>5. PICK c \in Rational : c = ChunkOf(z) /\ c.n > 0 /\ ~Less(z, c)
  BY <1>4, ChunkFacts
<1>6. x.chunk \in Rational /\ x.user \in Users /\ x.chunks \in 0..MaxChunks /\ calls # 0
      /\ calls \in 0..MaxCalls
  BY OneCall
<1>7. PICK k \in 0..MaxChunks : k = x.chunks + 1
  BY <1>1, <1>6, LiqConstants
<1> DEFINE y == [x EXCEPT !.chunks = k, !.chunk = c]
<1>8. /\ y \in [user : Users, chunks : 0..MaxChunks, chunk : Rational]
      /\ y.chunk = c /\ y.user = x.user
  BY OneCall
<1>9. trigger' = {y}
  <2>1. c = ChunkOf(positions[x.user].size) /\ k = x.chunks + 1
    BY <1>4, <1>5, <1>7
  <2> QED  BY <1>1, <2>1
<1> HIDE DEF y
<1>10. Calls({y}, positions)
  <2>1. c.n >= 0
    BY <1>5, RationalFacts
  <2> QED  BY <1>1, <1>4, <1>5, <1>8, <2>1 DEF Calls, Covered
<1> QED  BY <1>1, <1>2, <1>6, <1>9, <1>10 DEF LiqInv

LEMMA EndChunkStep ==
  ASSUME LiqInv, EndChunk
  PROVE  LiqInv'
<1>1. PICK x \in trigger :
        /\ trigger' = {[x EXCEPT !.chunk = Whole(0)]}
        /\ mark' = mark /\ calls' = calls /\ UNCHANGED vars
  BY DEF EndChunk, Filling
<1>2. Records' /\ positions' = positions
  BY <1>1, Unchanged
<1>3. PICK z \in Rational : z = Whole(0) /\ z.n = 0
  BY WholeField
<1> DEFINE y == [x EXCEPT !.chunk = z]
<1>4. /\ y \in [user : Users, chunks : 0..MaxChunks, chunk : Rational]
      /\ y.chunk = z /\ trigger' = {y} /\ calls # 0 /\ calls \in 0..MaxCalls
  <2>1. 0 \in 0..MaxChunks
    BY LiqConstants
  <2> QED  BY <1>1, <1>3, <2>1, OneCall
<1> HIDE DEF y
<1>5. Calls({y}, positions)
  BY <1>3, <1>4 DEF Calls, Covered
<1> QED  BY <1>1, <1>2, <1>4, <1>5 DEF LiqInv

(* A wallet topped up, and the fees by so much less. *)
LEMMA ShortAgrees ==
  ASSUME NEW w \in Rational, NEW f \in Rational, NEW ev \in Rational, NEW s \in Rational,
         NEW dep \in Rational, NEW c \in Rational, Agree(w, f, ev, dep, c)
  PROVE  Agree(Plus(w, s), Minus(f, s), ev, dep, c)
<1>1. Shared(w, f, ev, s, dep, c, c, c)
  BY Common
<1>2. PICK D \in Nat \ {0} : /\ HasOver(w, D) /\ HasOver(f, D) /\ HasOver(ev, D)
                             /\ HasOver(s, D) /\ HasOver(dep, D) /\ HasOver(c, D)
  BY <1>1 DEF Shared
<1> QED  BY <1>2, Linearly, Compared, OverFacts DEF Agree

LEMMA FinishStep ==
  ASSUME LiqInv, Finish
  PROVE  LiqInv'
<1>1. PICK x \in trigger :
        /\ vault' = AbsorbDeficit(vault, Greatest(Whole(0), Minus(Whole(0), wallet[x.user])))
        /\ wallet' = [wallet EXCEPT ![x.user] =
             Plus(@, Greatest(Whole(0), Minus(Whole(0), wallet[x.user])))]
        /\ fees' = [fees EXCEPT ![x.user] =
             Minus(@, Greatest(Whole(0), Minus(Whole(0), wallet[x.user])))]
        /\ trigger' = {}
        /\ UNCHANGED <<positions, fee_revenue, half, traded, cash, count, mark, calls>>
  BY DEF Finish, BetweenChunks
<1>2. PICK u \in Users : u = x.user
  BY OneCall
<1>3. /\ Holding(positions) /\ wallet \in [Users -> Rational] /\ traded \in [Users -> Rational]
      /\ cash \in [Users -> Rational] /\ fees \in [Users -> Rational] /\ VaultOK(vault)
      /\ \A v \in Users : Balanced(positions, traded, wallet, fees, cash, v)
  BY DEF LiqInv, Records, Accounts
<1>4. PICK w \in Rational, f \in Rational, c \in Rational : w = wallet[u] /\ f = fees[u] /\ c = cash[u]
  BY <1>3
<1>5. PICK s \in Rational : s = Greatest(Whole(0), Minus(Whole(0), wallet[x.user]))
  <2>1. PICK z \in Rational : z = Whole(0)
    BY WholeField
  <2>2. PICK m \in Rational : m = Minus(z, w)
    BY Closed
  <2> QED  BY <1>2, <1>4, <2>1, <2>2, LeastFacts
<1>6. /\ wallet' = [wallet EXCEPT ![u] = Plus(w, s)] /\ fees' = [fees EXCEPT ![u] = Minus(f, s)]
      /\ vault' = AbsorbDeficit(vault, s)
  BY <1>1, <1>2, <1>3, <1>4, <1>5
<1>7. Plus(w, s) \in Rational /\ Minus(f, s) \in Rational /\ VaultOK(AbsorbDeficit(vault, s))
  BY <1>3, Closed, VaultMoves
<1>8. /\ wallet' \in [Users -> Rational] /\ fees' \in [Users -> Rational]
      /\ wallet'[u] = Plus(w, s) /\ fees'[u] = Minus(f, s)
      /\ \A v \in Users : v # u => wallet'[v] = wallet[v] /\ fees'[v] = fees[v]
  BY <1>3, <1>6, <1>7
<1>9. ASSUME NEW v \in Users  PROVE Balanced(positions, traded, wallet', fees', cash, v)
  <2>1. CASE v # u
    BY <1>3, <1>8, <2>1 DEF Balanced
  <2>2. CASE v = u
    <3>1. PICK dep \in Rational, ev \in Rational : dep = Whole(Deposit) /\ ev = EntryOf(positions, u)
      BY <1>3, WholeRational, Constants, EntryRational
    <3>2. Agree(w, f, ev, dep, c)
      BY <1>3, <1>4, <3>1 DEF Balanced
    <3>3. Agree(Plus(w, s), Minus(f, s), ev, dep, c)
      BY <3>2, ShortAgrees
    <3>4. NetOf(positions, u) = traded[u]
      BY <1>3 DEF Balanced
    <3> QED  BY <1>4, <1>8, <2>2, <3>1, <3>3, <3>4 DEF Balanced
  <2> QED  BY <2>1, <2>2
<1>10. Accounts(positions, traded, wallet', fees', cash)
  BY <1>3, <1>8, <1>9 DEF Accounts
<1>11. /\ positions' = positions /\ traded' = traded /\ cash' = cash /\ fee_revenue' = fee_revenue
       /\ half' = half /\ count' = count /\ mark' = mark /\ calls' = calls /\ trigger' = {}
  BY <1>1
<1>12. Records'
  BY <1>6, <1>7, <1>10, <1>11 DEF LiqInv, Records
<1> QED  BY <1>11, <1>12 DEF LiqInv, Calls

-----------------------------------------------------------------------------
(* The trade of a chunk. *)

(* A ranking holds every candidate, once. *)
LEMMA RankedFrom ==
  ASSUME Holding(positions), NEW u, NEW ranking,
         ranking = << >> \/ ranking \in Rankings(u)
  PROVE  /\ Len(ranking) \in Nat /\ Ranked(ranking, Len(ranking), Candidates(u))
         /\ ranking \in Rankings(u) =>
              \A w \in Candidates(u) : \E i \in 1..Len(ranking) : ranking[i] = w
<1>1. Candidates(u) \subseteq Users
  BY DEF Candidates, Holding, IsMap
<1>2. IsFiniteSet(Candidates(u))
  BY <1>1, Constants, FS_Subset
<1>3. CASE ranking \in Rankings(u)
  <2>1. PICK n \in Nat : n = Cardinality(Candidates(u))
    BY <1>2, FS_CardinalityType
  <2>2. /\ ranking \in [1..n -> Candidates(u)]
        /\ \A i, j \in 1..n : i # j => ranking[i] # ranking[j]
    BY <1>3, <2>1 DEF Rankings, SetToSeqs
  <2>3. Len(ranking) = n
    BY <2>2
  <2>4. ASSUME NEW w \in Candidates(u)  PROVE \E i \in 1..n : ranking[i] = w
    <3>1. SUFFICES ASSUME \A i \in 1..n : ranking[i] # w  PROVE FALSE
      OBVIOUS
    <3>2. IsFiniteSet(Candidates(u) \ {w}) /\ Cardinality(Candidates(u) \ {w}) = n - 1
      BY <1>2, <2>1, FS_RemoveElement
    <3>3. ranking \in [1..n -> Candidates(u) \ {w}]
      BY <2>2, <3>1
    <3>4. IsFiniteSet(1..n) /\ Cardinality(1..n) = n
      BY FS_Interval
    <3>5. \E i, j \in 1..n : i # j /\ ranking[i] = ranking[j]
      <4>1. n > n - 1
        OBVIOUS
      <4> QED  BY <3>2, <3>3, <3>4, <4>1, FS_PigeonHole
    <3> QED  BY <2>2, <3>5
  <2> QED  BY <1>3, <2>2, <2>3, <2>4 DEF Ranked
<1>4. CASE ranking = << >>
  <2>1. Len(ranking) = 0 /\ 1..0 = {}
    BY <1>4
  <2> QED  BY <1>3, <2>1 DEF Ranked
<1> QED  BY <1>3, <1>4

(* SettleFill is the forced closes, and then the trade. *)
LEMMA SettleStep ==
  ASSUME Accounts(positions, traded, wallet, fees, cash), mark \in Nat \ {0},
         NEW u \in DOMAIN positions, NEW t, TradeFacts(t), t.buyer_is_taker \in BOOLEAN,
         NEW C \in SUBSET DOMAIN positions, u \notin C,
         NEW taken, TakenFrom(taken, C), SettleFill(u, t, taken)
  PROVE  /\ Accounts(positions', traded', wallet', fees', cash')
         /\ positions' = PositionsAfter(Deleveraged(taken), u, t,
                                        TradeSide(positions[u].side = "SHORT"))
         /\ Deleveraged(taken)[u] = positions[u] /\ u \in DOMAIN Deleveraged(taken)
         /\ Holding(Deleveraged(taken)) /\ u \in Users
<1>1. Holding(positions) /\ u \in Users /\ u \notin DOMAIN taken
  BY DEF Accounts, Holding, IsMap, TakenFrom
<1> DEFINE tr == [v \in Users |-> IF v \in DOMAIN taken
                    THEN Minus(traded[v], Taken(positions, v, taken[v])) ELSE traded[v]]
           w  == [v \in Users |-> IF v \in DOMAIN taken
                    THEN Plus(wallet[v], AdlProfit(v, taken[v])) ELSE wallet[v]]
           c  == [v \in Users |-> IF v \in DOMAIN taken
                    THEN Plus(cash[v], Taken(positions, v, Times(mark, taken[v]))) ELSE cash[v]]
           isBuyer == positions[u].side = "SHORT"
<1>2. PICK ds : ds = Deleveraged(taken)
  OBVIOUS
<1>3. Accounts(ds, tr, w, fees, c)
  BY <1>2, DeleveragedAccounts
<1>4. Holding(ds) /\ u \in DOMAIN ds /\ ds[u] = positions[u]
  BY <1>1, <1>2, DeleveragedHolds
<1>5. PICK b \in BOOLEAN, side \in PositionSide : b = isBuyer /\ side = TradeSide(b)
  BY SidesOf
<1>6. PICK fee \in Rational : fee = Plus(Fee(t, b), LiquidationFee(t))
  <2>1. Fee(t, b) \in Rational
    BY MoneyOf
  <2>2. LiquidationFee(t) \in Rational
    BY MoneyOf, LiqConstants DEF LiquidationFee
  <2> QED  BY <2>1, <2>2, Closed
<1>7. Realized(u, t, side) = RealizedOf(ds, u, t, side)
  BY <1>4 DEF Realized, RealizedOf
<1>8. positions' = PositionsAfter(ds, u, t, side)
  BY <1>2, <1>5 DEF SettleFill
<1>9. fees' = [fees EXCEPT ![u] = Plus(@, fee)]
  BY <1>5, <1>6 DEF SettleFill
<1>10. wallet' = [w EXCEPT ![u] = Minus(Plus(@, RealizedOf(ds, u, t, side)), fee)]
  <2>1. wallet' = [v \in Users |->
             CASE v = u -> Minus(Plus(wallet[u], RealizedOf(ds, u, t, side)), fee)
               [] v \in DOMAIN taken -> Plus(wallet[v], AdlProfit(v, taken[v]))
               [] OTHER -> wallet[v]]
    BY <1>5, <1>6, <1>7 DEF SettleFill
  <2> QED  BY <1>1, <2>1
<1>11. traded' = [tr EXCEPT ![u] = Plus(@, Times(Direction(side), t.qty))]
  <2>1. traded' = [v \in Users |->
             CASE v = u -> Plus(traded[u], Times(Direction(side), t.qty))
               [] v \in DOMAIN taken -> Minus(traded[v], Taken(positions, v, taken[v]))
               [] OTHER -> traded[v]]
    BY <1>5 DEF SettleFill, Taken
  <2> QED  BY <1>1, <2>1
<1>12. cash' = [c EXCEPT ![u] = Minus(@, Times(Direction(side), Value(t)))]
  <2>1. cash' = [v \in Users |->
             CASE v = u -> Minus(cash[u], Times(Direction(side), Value(t)))
               [] v \in DOMAIN taken ->
                    Plus(cash[v], Taken(positions, v, Times(mark, taken[v])))
               [] OTHER -> cash[v]]
    BY <1>5 DEF SettleFill, Taken
  <2> QED  BY <1>1, <2>1
<1> HIDE DEF tr, w, c
<1>13. TradeOf(ds, tr, w, fees, c, u, t, side, fee, positions', traded', wallet', fees', cash')
  BY <1>8, <1>9, <1>10, <1>11, <1>12 DEF TradeOf
<1>14. Accounts(positions', traded', wallet', fees', cash')
  BY <1>1, <1>3, <1>13, TradeBooked
<1> QED  BY <1>1, <1>2, <1>4, <1>5, <1>8, <1>14

(* The lots of a trade, out of a chunk. *)
LEMMA FillFacts ==
  ASSUME NEW left \in Rational, left.n > 0, NEW qty \in FillSizes(left)
  PROVE  /\ qty \in Rational /\ qty.n > 0 /\ Minus(left, qty) \in Rational
         /\ Minus(left, qty).n >= 0
         /\ Minus(left, qty).n > 0 => Less(qty, left)
<1>1. qty \in Rational /\ qty.n > 0 /\ (qty = left \/ Less(qty, left))
  <2>1. \A k \in 1..MaxQty : Whole(k) \in Rational /\ Whole(k).n > 0
    BY Constants, WholeField
  <2> QED  BY <2>1 DEF FillSizes
<1>2. Shared(left, qty, left, left, left, left, left, left)
  BY <1>1, Common
<1>3. PICK D \in Nat \ {0} : HasOver(left, D) /\ HasOver(qty, D)
  BY <1>2 DEF Shared
<1>4. PICK m \in Int, n \in Int : m = Over(left, D) /\ n = Over(qty, D)
  BY <1>3, OverFacts
<1>5. HasOver(Minus(left, qty), D) /\ Over(Minus(left, qty), D) = m - n
  BY <1>3, <1>4, Linearly
<1>6. /\ Minus(left, qty).n \in Int
      /\ Minus(left, qty).n > 0 <=> m - n > 0
      /\ Minus(left, qty).n < 0 <=> m - n < 0
  BY <1>5, Signs
<1>7. (Less(qty, left) <=> n < m) /\ (qty = left <=> n = m)
  BY <1>3, <1>4, Compared
<1>8. Minus(left, qty) \in Rational
  BY <1>1, Closed
<1> QED  BY <1>1, <1>4, <1>6, <1>7, <1>8

(* What is left of a chunk is no more than what is left of a position. *)
LEMMA LeftCovered ==
  ASSUME NEW size \in Rational, NEW left \in Rational, NEW qty \in Rational,
         ~Less(size, left), Less(qty, left)
  PROVE  Less(qty, size) /\ ~Less(size, qty) /\ ~Less(Minus(size, qty), Minus(left, qty))
<1>1. Shared(size, left, qty, qty, qty, qty, qty, qty)
  BY Common
<1>2. PICK D \in Nat \ {0} : HasOver(size, D) /\ HasOver(left, D) /\ HasOver(qty, D)
  BY <1>1 DEF Shared
<1>3. PICK m \in Int, n \in Int, k \in Int :
        m = Over(size, D) /\ n = Over(left, D) /\ k = Over(qty, D)
  BY <1>2, OverFacts
<1>4. /\ HasOver(Minus(size, qty), D) /\ Over(Minus(size, qty), D) = m - k
      /\ HasOver(Minus(left, qty), D) /\ Over(Minus(left, qty), D) = n - k
  BY <1>2, <1>3, Linearly
<1>5. /\ Less(size, left) <=> m < n
      /\ Less(qty, left) <=> k < n
      /\ Less(qty, size) <=> k < m
      /\ Less(size, qty) <=> m < k
  BY <1>2, <1>3, Compared
<1>6. Less(Minus(size, qty), Minus(left, qty)) <=> m - k < n - k
  BY <1>4, Compared
<1> QED  BY <1>3, <1>5, <1>6

(* What a fill does: x is the call, t the trade, taken the forced closes. *)
FilledBy(x, t, ranking, taken) ==
    /\ x \in trigger /\ x.chunk \in Rational /\ x.chunk.n > 0
    /\ x.user \in DOMAIN positions /\ ~Less(positions[x.user].size, x.chunk)
    /\ TradeFacts(t) /\ t.buyer_is_taker \in BOOLEAN /\ t.qty \in FillSizes(x.chunk)
    /\ Fee(t, positions[x.user].side = "SHORT") = Product(Value(t), Rate(TakerFee))
    /\ VaultOK(CreditFee(vault, LiquidationFee(t))) /\ DeficitOf(x.user, t) \in Rational
    /\ vault' = AbsorbDeficit(CreditFee(vault, LiquidationFee(t)), DeficitOf(x.user, t))
    /\ \/ ranking = << >>
       \/ /\ ranking \in Rankings(x.user)
          /\ Less(CreditFee(vault, LiquidationFee(t)).balance, DeficitOf(x.user, t))
    /\ taken = AdlTaken(ranking, DeficitOf(x.user, t))
    /\ TakenFrom(taken, Candidates(x.user)) /\ TakenInOrder(taken, ranking, Len(ranking))
    /\ SettleFill(x.user, t, taken)
    /\ trigger' = {[x EXCEPT !.chunk = Minus(x.chunk, t.qty)]}
    /\ fee_revenue' = fee_revenue /\ half' = half /\ count' = count
    /\ mark' = mark /\ calls' = calls

(* The candidates do not include the liquidated user. *)
LEMMA CandidatesAre ==
  ASSUME NEW u
  PROVE  Candidates(u) \in SUBSET DOMAIN positions /\ u \notin Candidates(u)
<1>1. Candidates(u) \in SUBSET DOMAIN positions
  BY DEF Candidates
<1>2. u \notin Candidates(u)
  BY Zenon DEF Candidates
<1> QED  BY <1>1, <1>2

LEMMA FillIs ==
  ASSUME LiqInv, NEW price \in Prices, NEW qty, Fill(price, qty)
  PROVE  \E x, t, ranking, taken :
           FilledBy(x, t, ranking, taken) /\ t.price = price /\ t.qty = qty
<1>1. PICK x \in Filling :
        LET u   == x.user
            pos == positions[u]
            t   == [price |-> price, qty |-> qty, buyer_is_taker |-> pos.side = "SHORT"]
            credited == CreditFee(vault, LiquidationFee(t))
            deficit  == DeficitOf(u, t)
        IN  /\ qty \in FillSizes(x.chunk) /\ WithinLiqBand(pos.side, price)
            /\ vault' = AbsorbDeficit(credited, deficit)
            /\ \E ranking \in IF Less(credited.balance, deficit) THEN Rankings(u) ELSE {<<>>} :
                 SettleFill(u, t, AdlTaken(ranking, deficit))
            /\ trigger' = {[x EXCEPT !.chunk = Minus(@, qty)]}
            /\ UNCHANGED <<fee_revenue, half, count, mark, calls>>
  BY DEF Fill
<1>2. x \in trigger /\ x.chunk.n > 0
  BY DEF Filling
<1>3. PICK u, t, deficit : /\ u = x.user /\ deficit = DeficitOf(u, t)
                           /\ t = [price |-> price, qty |-> qty,
                                   buyer_is_taker |-> positions[x.user].side = "SHORT"]
  OBVIOUS
<1>4. PICK ranking :
        /\ \/ ranking = << >>
           \/ /\ ranking \in Rankings(u)
              /\ Less(CreditFee(vault, LiquidationFee(t)).balance, deficit)
        /\ SettleFill(u, t, AdlTaken(ranking, deficit))
  BY <1>1, <1>3
<1>5. /\ qty \in FillSizes(x.chunk)
      /\ vault' = AbsorbDeficit(CreditFee(vault, LiquidationFee(t)), deficit)
      /\ trigger' = {[x EXCEPT !.chunk = Minus(x.chunk, qty)]}
      /\ fee_revenue' = fee_revenue /\ half' = half /\ count' = count
      /\ mark' = mark /\ calls' = calls
  BY <1>1, <1>3
<1>6. x.chunk \in Rational /\ Covered(x, positions)
  BY <1>2, OneCall
<1>7. u \in DOMAIN positions /\ ~Less(positions[u].size, x.chunk)
  BY <1>2, <1>3, <1>6 DEF Covered
<1>8. qty \in Rational /\ qty.n > 0
  BY <1>2, <1>5, <1>6, FillFacts
<1>9. TradeFacts(t) /\ t.buyer_is_taker \in BOOLEAN /\ t.qty = qty
  BY <1>3, <1>8, Constants DEF TradeFacts
<1>10. Holding(positions) /\ mark \in Nat \ {0} /\ VaultOK(vault)
  BY LiqConstants DEF LiqInv, Records, Accounts
<1>11. deficit \in Rational /\ deficit.n >= 0
  BY <1>3, <1>7, <1>9, <1>10, DeficitRational
<1>12. PICK C \in SUBSET DOMAIN positions : C = Candidates(u)
  BY CandidatesAre
<1>13. PICK taken : /\ taken = AdlTaken(ranking, deficit) /\ TakenFrom(taken, C)
                     /\ TakenInOrder(taken, ranking, Len(ranking))
  <2>1. PICK n \in Nat : n = Len(ranking) /\ Ranked(ranking, n, C)
    BY <1>4, <1>10, <1>12, RankedFrom
  <2> QED  BY <1>10, <1>11, <2>1, AdlFacts
<1>14. VaultOK(CreditFee(vault, LiquidationFee(t)))
  <2>1. LiquidationFee(t) \in Rational
    BY <1>9, MoneyOf, LiqConstants DEF LiquidationFee
  <2> QED  BY <1>10, <2>1, VaultMoves
<1>15. Fee(t, positions[x.user].side = "SHORT") = Product(Value(t), Rate(TakerFee))
  <2>1. CASE positions[x.user].side = "SHORT"
    BY <1>3, <2>1 DEF Fee
  <2>2. CASE positions[x.user].side # "SHORT"
    BY <1>3, <2>2 DEF Fee
  <2> QED  BY <2>1, <2>2
<1>16. FilledBy(x, t, ranking, taken)
  BY <1>2, <1>3, <1>4, <1>5, <1>6, <1>7, <1>9, <1>11, <1>12, <1>13, <1>14, <1>15 DEF FilledBy
<1> QED  BY <1>3, <1>16

(* The positions after a fill: u's is reduced by the trade, or closed. *)
LEMMA FilledFacts ==
  ASSUME LiqInv, NEW x, NEW t, NEW ranking, NEW taken, FilledBy(x, t, ranking, taken)
  PROVE  /\ Accounts(positions', traded', wallet', fees', cash')
         /\ Holding(Deleveraged(taken)) /\ x.user \in Users
         /\ Minus(positions[x.user].size, t.qty) \in Rational
         /\ ~Less(positions[x.user].size, t.qty)
         /\ positions' = IF Less(t.qty, positions[x.user].size)
                         THEN Put(Deleveraged(taken), x.user, Reduced(positions[x.user], t.qty))
                         ELSE Erase(Deleveraged(taken), x.user)
<1>1. PICK u : u = x.user /\ u \in DOMAIN positions
  BY DEF FilledBy
<1>2. /\ Accounts(positions, traded, wallet, fees, cash) /\ Holding(positions)
      /\ mark \in Nat \ {0}
  BY LiqConstants DEF LiqInv, Records, Accounts
<1>3. PICK C \in SUBSET DOMAIN positions : C = Candidates(u) /\ u \notin C
  BY CandidatesAre
<1>4. /\ TradeFacts(t) /\ t.buyer_is_taker \in BOOLEAN /\ TakenFrom(taken, C)
      /\ SettleFill(u, t, taken)
  BY <1>1, <1>3 DEF FilledBy
<1>5. /\ Accounts(positions', traded', wallet', fees', cash')
      /\ positions' = PositionsAfter(Deleveraged(taken), u, t,
                                     TradeSide(positions[u].side = "SHORT"))
      /\ Deleveraged(taken)[u] = positions[u] /\ u \in DOMAIN Deleveraged(taken)
      /\ Holding(Deleveraged(taken)) /\ u \in Users
  BY <1>1, <1>2, <1>3, <1>4, SettleStep
<1>6. positions[u] \in Posn
  BY <1>1, <1>2 DEF Holding
<1>7. PICK z \in Rational, q \in Rational, left \in Rational :
        /\ z = positions[u].size /\ q = t.qty /\ left = x.chunk
        /\ ~Less(z, left) /\ q.n > 0 /\ (Minus(left, q).n > 0 => Less(q, left))
        /\ (q = left \/ Less(q, left))
  <2>1. t.qty = x.chunk \/ Less(t.qty, x.chunk)
    BY DEF FilledBy, FillSizes
  <2> QED  BY <1>1, <1>6, <2>1, PosnFacts, FillFacts DEF FilledBy
<1>8. ~Less(z, q) /\ ~(Less(q, z) /\ Less(z, q))
  BY <1>7, LeftCovered, NotBoth
<1>9. PICK side : side = TradeSide(positions[u].side = "SHORT") /\ side # positions[u].side
  <2>1. CASE positions[u].side = "SHORT"
    BY <2>1 DEF TradeSide
  <2>2. CASE positions[u].side = "LONG"
    BY <2>2 DEF TradeSide
  <2> QED  BY <1>6, <2>1, <2>2, PosnFacts DEF PositionSide
<1>10. PICK ds : ds = Deleveraged(taken) /\ ds[u] = positions[u] /\ u \in DOMAIN ds
  BY <1>5
<1>11. PositionsAfter(ds, u, t, side) = IF Less(q, z) THEN Put(ds, u, Reduced(positions[u], q))
                                        ELSE Erase(ds, u)
  <2>1. CASE Less(q, z)
    BY <1>7, <1>8, <1>9, <1>10, <2>1 DEF PositionsAfter
  <2>2. CASE ~Less(q, z)
    BY <1>7, <1>8, <1>9, <1>10, <2>2 DEF PositionsAfter
  <2> QED  BY <2>1, <2>2
<1>12. Minus(z, q) \in Rational
  BY Closed
<1> QED  BY <1>1, <1>5, <1>7, <1>8, <1>9, <1>10, <1>11, <1>12

LEMMA FillStep ==
  ASSUME LiqInv, NEW price \in Prices, NEW qty, Fill(price, qty)
  PROVE  LiqInv'
<1>1. PICK x, t, ranking, taken : FilledBy(x, t, ranking, taken)
  BY FillIs
<1>2. /\ x \in trigger /\ x.chunk \in Rational /\ x.chunk.n > 0
      /\ ~Less(positions[x.user].size, x.chunk) /\ x.user \in DOMAIN positions
      /\ t.qty \in FillSizes(x.chunk)
      /\ VaultOK(CreditFee(vault, LiquidationFee(t))) /\ DeficitOf(x.user, t) \in Rational
      /\ vault' = AbsorbDeficit(CreditFee(vault, LiquidationFee(t)), DeficitOf(x.user, t))
      /\ trigger' = {[x EXCEPT !.chunk = Minus(x.chunk, t.qty)]}
      /\ fee_revenue' = fee_revenue /\ half' = half /\ count' = count
      /\ mark' = mark /\ calls' = calls
  BY <1>1 DEF FilledBy
<1>3. /\ Accounts(positions', traded', wallet', fees', cash') /\ x.user \in Users
      /\ positions' = IF Less(t.qty, positions[x.user].size)
                      THEN Put(Deleveraged(taken), x.user, Reduced(positions[x.user], t.qty))
                      ELSE Erase(Deleveraged(taken), x.user)
  BY <1>1, FilledFacts
<1>4. VaultOK(vault')
  BY <1>2, VaultMoves
<1>5. Records'
  BY <1>2, <1>3, <1>4 DEF LiqInv, Records
<1>6. PICK left \in Rational, qty2 \in Rational, rest \in Rational :
        /\ left = x.chunk /\ qty2 = t.qty /\ rest = Minus(left, qty2)
        /\ rest.n >= 0 /\ (rest.n > 0 => Less(qty2, left))
  BY <1>2, FillFacts
<1> DEFINE y == [x EXCEPT !.chunk = rest]
<1>7. /\ y \in [user : Users, chunks : 0..MaxChunks, chunk : Rational]
      /\ y.chunk = rest /\ y.user = x.user /\ trigger' = {y}
      /\ calls # 0 /\ calls \in 0..MaxCalls
  <2>1. x.chunks \in 0..MaxChunks
    BY <1>2, OneCall
  <2> QED  BY <1>2, <1>6, <2>1, OneCall
<1> HIDE DEF y
<1>8. Covered(y, positions')
  <2> SUFFICES ASSUME rest.n > 0
               PROVE  x.user \in DOMAIN positions' /\ ~Less(positions'[x.user].size, rest)
    BY <1>7 DEF Covered
  <2>1. positions[x.user] \in Posn
    BY <1>2 DEF LiqInv, Records, Accounts, Holding
  <2>2. PICK z \in Rational : z = positions[x.user].size /\ ~Less(z, left)
    BY <1>2, <1>6, <2>1, PosnFacts
  <2>3. Less(qty2, z) /\ ~Less(Minus(z, qty2), Minus(left, qty2))
    BY <1>6, <2>2, LeftCovered
  <2>4. positions' = Put(Deleveraged(taken), x.user, Reduced(positions[x.user], qty2))
    BY <1>3, <1>6, <2>2, <2>3
  <2>5. Reduced(positions[x.user], qty2).size = Minus(z, qty2)
    BY <2>1, <2>2 DEF Reduced, Posn
  <2> QED  BY <1>6, <2>3, <2>4, <2>5 DEF Put
<1>9. Calls({y}, positions')
  BY <1>6, <1>7, <1>8, CallsOfOne
<1> QED  BY <1>2, <1>5, <1>7, <1>9 DEF LiqInv

-----------------------------------------------------------------------------
(* The accounts, for any run of the two threads. *)

LEMMA LiqPreserved == LiqInv /\ [LiqNext]_liqVars => LiqInv'
<1> SUFFICES ASSUME LiqInv, [LiqNext]_liqVars  PROVE LiqInv'
  OBVIOUS
<1>1. ASSUME NEW t \in Trade, EngineTrade(t)  PROVE LiqInv'
  BY <1>1, EngineStep
<1>2. ASSUME NEW m \in Marks, Tick(m)  PROVE LiqInv'
  BY <1>2, TickStep
<1>3. ASSUME NEW u \in Users, Scan(u)  PROVE LiqInv'
  BY <1>3, ScanStep
<1>4. CASE Liquidate
  <2>1. CASE \E x \in Filling : \E price \in Prices, qty \in FillSizes(x.chunk) : Fill(price, qty)
    BY <2>1, FillStep
  <2> QED  BY <1>4, <2>1, AbortStep, StartChunkStep, EndChunkStep, FinishStep DEF Liquidate
<1>5. CASE UNCHANGED liqVars
  <2>1. Records' /\ positions' = positions
    BY <1>5, Unchanged DEF liqVars
  <2> QED  BY <1>5, <2>1 DEF liqVars, marketVars, LiqInv
<1> QED  BY <1>1, <1>2, <1>3, <1>4, <1>5 DEF LiqNext

(* The invariant holds whatever the traders, the mark and the book do between *)
(* the steps of a liquidation.                                                *)
THEOREM LiquidationInvariant == LiqSpec => []LiqInv
<1>1. LiqInit => LiqInv
  BY LiqInitially
<1>2. LiqInv /\ [LiqNext]_liqVars => LiqInv'
  BY LiqPreserved
<1> QED  BY <1>1, <1>2, PTL DEF LiqSpec

(* Liquidations and accounts have their types: in particular the chunk that is *)
(* left to sell is never negative, and no call takes more than MaxChunks.      *)
THEOREM LiquidationTypeOK == LiqSpec => []LiqTypeOK
<1>1. LiqInv => LiqTypeOK
  <2> SUFFICES ASSUME LiqInv  PROVE LiqTypeOK
    OBVIOUS
  <2>1. Rational \subseteq Fraction
    BY DEF Rational
  <2>2. /\ Accounts(positions, traded, wallet, fees, cash) /\ Holding(positions)
        /\ VaultOK(vault) /\ fee_revenue \in Rational /\ half \subseteq Trade
        /\ count \in 0..MaxTrades
    BY DEF LiqInv, Records, Accounts
  <2>3. IsMap(positions, Users) /\ \A u \in DOMAIN positions : positions[u] \in Position
    <3>1. Posn \subseteq Position
      BY <2>1 DEF Posn, Position
    <3> QED  BY <2>2, <3>1 DEF Holding
  <2>4. /\ wallet \in [Users -> Fraction] /\ traded \in [Users -> Fraction]
        /\ cash \in [Users -> Fraction] /\ fees \in [Users -> Fraction]
    BY <2>1, <2>2 DEF Accounts
  <2>5. vault \in Vault
    BY <2>1, <2>2 DEF VaultOK, Vault
  <2>6. TypeOK
    BY <2>1, <2>2, <2>3, <2>4, <2>5 DEF TypeOK
  <2>7. \A x \in trigger : /\ x.user \in Users /\ x.chunks \in 0..MaxChunks
                           /\ x.chunk \in Fraction /\ x.chunk.n >= 0
    BY <2>1, OneCall
  <2> QED  BY <2>6, <2>7 DEF LiqInv, LiqTypeOK
<1> QED  BY <1>1, LiquidationInvariant, PTL

(* A position is the net of all trades of its user, the forced closes of    *)
(* deleveraging among them: no update is lost when the market thread writes *)
(* positions between two halves of a trade.                                 *)
THEOREM PositionIsNetOfTrades == LiqSpec => []NetPosition
<1>1. LiqInv => NetPosition
  BY DEF LiqInv, Records, Accounts, Balanced, NetPosition, Net, NetOf
<1> QED  BY <1>1, LiquidationInvariant, PTL

(* What a wallet holds is the deposit, less what was paid for the lots still *)
(* held and the fees: averaging entries, reducing, flipping, liquidating and *)
(* deleveraging neither make nor lose money.                                 *)
THEOREM TradingLosesNoMoney == LiqSpec => []EntryAccountsForCash
<1>1. ASSUME LiqInv, NEW u \in Users
      PROVE  Minus(Plus(wallet[u], fees[u]), EntryValue(u)) = Plus(Whole(Deposit), cash[u])
  <2>1. EntryValue(u) = EntryOf(positions, u)
    BY DEF EntryValue, EntryOf, Net, NetOf
  <2>2. Agree(wallet[u], fees[u], EntryOf(positions, u), Whole(Deposit), cash[u])
    BY <1>1 DEF LiqInv, Records, Accounts, Balanced
  <2> QED  BY <2>1, <2>2 DEF Agree
<1>2. LiqInv => EntryAccountsForCash
  BY <1>1 DEF EntryAccountsForCash
<1> QED  BY <1>2, LiquidationInvariant, PTL

-----------------------------------------------------------------------------
(* Until the first liquidation: what the users have traded, paid and been    *)
(* charged, added up.                                                        *)

LEMMA AddsMoved ==
  ASSUME NEW S, IsFiniteSet(S), NEW f, NEW g, NEW x, Adds(f, S, x), NEW v \in S,
         f[v] \in Rational, NEW d \in Rational, \A u \in S : u # v => g[u] = f[u]
  PROVE  /\ g[v] = Plus(f[v], d) => Adds(g, S, Plus(x, d))
         /\ g[v] = Minus(f[v], d) => Adds(g, S, Minus(x, d))
<1>1. PICK o \in Rational : o = f[v]
  OBVIOUS
<1>2. x \in Rational /\ Plus(o, d) \in Rational /\ Minus(o, d) \in Rational
  BY AddsRational, Closed
<1>3. Plus(x, Minus(Plus(o, d), o)) = Plus(x, d) /\ Plus(x, Minus(Minus(o, d), o)) = Minus(x, d)
  <2>1. Shared(x, o, d, d, d, d, d, d)
    BY <1>2, Common
  <2>2. PICK D \in Nat \ {0} : HasOver(x, D) /\ HasOver(o, D) /\ HasOver(d, D)
    BY <2>1 DEF Shared
  <2> QED  BY <2>2, Linearly, Compared, OverFacts
<1>4. ASSUME g[v] \in Rational  PROVE Adds(g, S, Plus(x, Minus(g[v], o)))
  BY <1>1, <1>4, AddsChanged
<1> QED  BY <1>1, <1>2, <1>3, <1>4

LEMMA Signed ==
  ASSUME NEW a \in Rational, NEW x \in Rational
  PROVE  /\ Times(Direction("LONG"), a) = a
         /\ Plus(x, Times(Direction("SHORT"), a)) = Minus(x, a)
         /\ Minus(x, Times(Direction("SHORT"), a)) = Plus(x, a)
         /\ Plus(Whole(0), a) = a /\ Minus(a, a) = Whole(0)
         /\ Plus(Minus(Whole(0), a), a) = Whole(0)
<1>1. Shared(a, x, x, x, x, x, x, x)
  BY Common
<1>2. PICK D \in Nat \ {0} : HasOver(a, D) /\ HasOver(x, D)
  BY <1>1 DEF Shared
<1>3. HasOver(Whole(0), D) /\ Over(Whole(0), D) = 0
  BY Wholes
<1>4. "LONG" \in PositionSide /\ "SHORT" \in PositionSide /\ "SHORT" # "LONG"
  BY DEF PositionSide
<1>5. PICK l, s : /\ l = Times(Direction("LONG"), a) /\ HasOver(l, D) /\ Over(l, D) = Over(a, D)
                  /\ s = Times(Direction("SHORT"), a) /\ HasOver(s, D) /\ Over(s, D) = -Over(a, D)
  BY <1>2, <1>4, Directed
<1>6. /\ l = a /\ Plus(x, s) = Minus(x, a) /\ Minus(x, s) = Plus(x, a)
  BY <1>2, <1>5, Linearly, Compared, OverFacts
<1>7. Plus(Whole(0), a) = a /\ Minus(a, a) = Whole(0) /\ Plus(Minus(Whole(0), a), a) = Whole(0)
  BY <1>2, <1>3, Linearly, Compared, OverFacts
<1> QED  BY <1>5, <1>6, <1>7

(* As many lots are long as short, as much was paid as received, and what the *)
(* users were charged is the fee revenue.                                   *)
Even(tr, c, f, fr) ==
    /\ Adds(tr, Users, Whole(0)) /\ Adds(c, Users, Whole(0)) /\ Adds(f, Users, fr)

(* The same between the two halves of a trade: the buyer's is booked.       *)
Bought(tr, c, f, fr, t) ==
    /\ Adds(tr, Users, t.qty) /\ Adds(c, Users, Minus(Whole(0), Value(t)))
    /\ Adds(f, Users, Plus(fr, Fee(t, TRUE)))

Flows(tr, c, f, fr, hf) ==
    /\ hf = {} => Even(tr, c, f, fr)
    /\ \A t \in hf : Bought(tr, c, f, fr, t)

FlowInv == LiqInv /\ (calls = 0 => Flows(traded, cash, fees, fee_revenue, half))

LEMMA FlowInitially == LiqInit => FlowInv
<1> SUFFICES ASSUME LiqInit  PROVE FlowInv
  OBVIOUS
<1>1. LiqInv
  BY LiqInitially
<1>2. PICK z \in Rational : z = Whole(0)
  BY WholeRational
<1>3. IsFiniteSet(Users) /\ Cardinality(Users) \in Int
  BY Constants, FS_CardinalityType
<1>4. Times(Cardinality(Users), z) = z
  <2>1. PICK n \in Int : n = Cardinality(Users)
    BY <1>3
  <2>2. HasOver(z, 1) /\ Over(z, 1) = 0
    BY <1>2, Wholes
  <2>3. HasOver(Times(n, z), 1) /\ Over(Times(n, z), 1) = 0
    BY <2>2, Multiples
  <2> QED  BY <2>1, <2>2, <2>3, Compared
<1>5. ASSUME NEW f, \A u \in Users : f[u] = z  PROVE Adds(f, Users, z)
  BY <1>3, <1>4, <1>5, AddsConstant
<1>6. /\ \A u \in Users : traded[u] = z /\ cash[u] = z /\ fees[u] = z
      /\ fee_revenue = z /\ half = {}
  BY <1>2 DEF LiqInit, Init
<1>7. Adds(traded, Users, z) /\ Adds(cash, Users, z) /\ Adds(fees, Users, z)
  BY <1>5, <1>6
<1> QED  BY <1>1, <1>2, <1>6, <1>7 DEF FlowInv, Flows, Even

(* Both fees are the sum of the rates, whoever is the taker. *)
LEMMA ChargedOnBoth ==
  ASSUME NEW t, TradeFacts(t), t.buyer_is_taker \in BOOLEAN
  PROVE  /\ Fee(t, TRUE) \in Rational /\ Fee(t, FALSE) \in Rational
         /\ \A x \in Rational : Plus(Plus(x, Fee(t, TRUE)), Fee(t, FALSE)) =
              Plus(x, Product(Value(t), Rate(MakerFee + TakerFee)))
<1>1. PICK m \in Rational, k \in Rational, v \in Rational :
        m = Rate(MakerFee) /\ k = Rate(TakerFee) /\ v = Value(t)
  BY Constants, FracRational, MoneyOf DEF Rate
<1>2. Rate(MakerFee + TakerFee) = Plus(m, k)
  <2>1. Plus(Frac(MakerFee, FeeUnit), Frac(TakerFee, FeeUnit)) = Frac(MakerFee + TakerFee, FeeUnit)
    BY Constants, OverPlus
  <2> QED  BY <1>1, <2>1 DEF Rate
<1>3. PICK vm \in Rational, vk \in Rational : vm = Product(v, m) /\ vk = Product(v, k)
  BY Closed
<1>4. Product(v, Plus(m, k)) = Plus(vm, vk)
  <2>1. PICK s \in Rational : s = Plus(m, k)
    BY Closed
  <2>2. Product(v, s) = Product(s, v) /\ Product(m, v) = vm /\ Product(k, v) = vk
    BY <1>3, ProductLaws
  <2>3. Product(Plus(m, k), v) = Plus(Product(m, v), Product(k, v))
    BY ProductLaws
  <2> QED  BY <2>1, <2>2, <2>3
<1>5. {Fee(t, TRUE), Fee(t, FALSE)} = {vm, vk} /\ (vm # vk => Fee(t, TRUE) # Fee(t, FALSE))
  <2>1. CASE t.buyer_is_taker = TRUE
    <3>1. Fee(t, TRUE) = vk /\ Fee(t, FALSE) = vm
      BY <1>1, <1>3, <2>1 DEF Fee
    <3> QED  BY <3>1
  <2>2. CASE t.buyer_is_taker = FALSE
    <3>1. Fee(t, TRUE) = vm /\ Fee(t, FALSE) = vk
      BY <1>1, <1>3, <2>2 DEF Fee
    <3> QED  BY <3>1
  <2> QED  BY <2>1, <2>2
<1>6. ASSUME NEW x \in Rational
      PROVE  /\ Plus(Plus(x, vm), vk) = Plus(x, Plus(vm, vk))
             /\ Plus(Plus(x, vk), vm) = Plus(x, Plus(vm, vk))
  <2>1. Shared(x, vm, vk, x, x, x, x, x)
    BY Common
  <2>2. PICK D \in Nat \ {0} : HasOver(x, D) /\ HasOver(vm, D) /\ HasOver(vk, D)
    BY <2>1 DEF Shared
  <2> QED  BY <2>2, Linearly, Compared, OverFacts
<1>7. CASE Fee(t, TRUE) = vm /\ Fee(t, FALSE) = vk
  BY <1>1, <1>2, <1>4, <1>6, <1>7
<1>8. CASE Fee(t, TRUE) = vk /\ Fee(t, FALSE) = vm
  BY <1>1, <1>2, <1>4, <1>6, <1>8
<1> QED  BY <1>5, <1>7, <1>8

LEMMA BuyerFlows ==
  ASSUME LiqInv, Flows(traded, cash, fees, fee_revenue, half), NEW t \in Trade, ApplyToBuyer(t)
  PROVE  Flows(traded', cash', fees', fee_revenue', half')
<1>1. TradeFacts(t) /\ t.buyer \in Users /\ t.buyer_is_taker \in BOOLEAN
  BY TradeIs DEF Trade
<1>2. /\ traded \in [Users -> Rational] /\ cash \in [Users -> Rational]
      /\ fees \in [Users -> Rational] /\ fee_revenue \in Rational
  BY DEF LiqInv, Records, Accounts
<1>3. Adds(traded, Users, Whole(0)) /\ Adds(cash, Users, Whole(0)) /\ Adds(fees, Users, fee_revenue)
  BY DEF ApplyToBuyer, Flows, Even
<1>4. PICK u \in Users, q \in Rational, v \in Rational, fee \in Rational, z \in Rational :
        u = t.buyer /\ q = t.qty /\ v = Value(t) /\ fee = Fee(t, TRUE) /\ z = Whole(0)
  <2>1. Value(t) \in Rational /\ Fee(t, TRUE) \in Rational /\ Fee(t, FALSE) \in Rational
    BY <1>1, ChargedOnBoth, MoneyOf
  <2>2. t.qty \in Rational /\ Whole(0) \in Rational
    BY <1>1, WholeRational DEF TradeFacts
  <2> QED  BY <1>1, <2>1, <2>2
<1>5. TradeSide(TRUE) = "LONG" /\ Times(Direction("LONG"), q) = q /\ Times(Direction("LONG"), v) = v
  BY Signed DEF TradeSide
<1>6. /\ traded' = [traded EXCEPT ![u] = Plus(@, q)] /\ cash' = [cash EXCEPT ![u] = Minus(@, v)]
      /\ fees' = [fees EXCEPT ![u] = Plus(@, fee)] /\ fee_revenue' = fee_revenue /\ half' = {t}
  BY <1>4, <1>5 DEF ApplyToBuyer, ApplyTrade, Booked
<1>7. IsFiniteSet(Users)
  BY Constants
<1>8. Adds(traded', Users, q)
  <2>1. traded'[u] = Plus(traded[u], q) /\ \A o \in Users : o # u => traded'[o] = traded[o]
    BY <1>2, <1>6
  <2>2. Adds(traded', Users, Plus(z, q))
    BY <1>2, <1>3, <1>4, <1>7, <2>1, AddsMoved
  <2> QED  BY <1>4, <2>2, Signed
<1>9. Adds(cash', Users, Minus(z, v))
  <2>1. cash'[u] = Minus(cash[u], v) /\ \A o \in Users : o # u => cash'[o] = cash[o]
    BY <1>2, <1>6
  <2> QED  BY <1>2, <1>3, <1>4, <1>7, <2>1, AddsMoved
<1>10. Adds(fees', Users, Plus(fee_revenue, fee))
  <2>1. fees'[u] = Plus(fees[u], fee) /\ \A o \in Users : o # u => fees'[o] = fees[o]
    BY <1>2, <1>6
  <2> QED  BY <1>2, <1>3, <1>7, <2>1, AddsMoved
<1>11. Bought(traded', cash', fees', fee_revenue', t)
  BY <1>4, <1>6, <1>8, <1>9, <1>10 DEF Bought
<1> QED  BY <1>6, <1>11 DEF Flows

LEMMA SellerFlows ==
  ASSUME LiqInv, Flows(traded, cash, fees, fee_revenue, half), NEW t \in Trade, ApplyToSeller(t)
  PROVE  Flows(traded', cash', fees', fee_revenue', half')
<1>1. TradeFacts(t) /\ t.seller \in Users /\ t.buyer_is_taker \in BOOLEAN
  BY TradeIs DEF Trade
<1>2. /\ traded \in [Users -> Rational] /\ cash \in [Users -> Rational]
      /\ fees \in [Users -> Rational] /\ fee_revenue \in Rational
  BY DEF LiqInv, Records, Accounts
<1>3. PICK u \in Users, q \in Rational, v \in Rational, fee \in Rational, z \in Rational,
           paid \in Rational :
        /\ u = t.seller /\ q = t.qty /\ v = Value(t) /\ fee = Fee(t, FALSE) /\ z = Whole(0)
        /\ paid = Fee(t, TRUE)
  <2>1. Value(t) \in Rational /\ Fee(t, TRUE) \in Rational /\ Fee(t, FALSE) \in Rational
    BY <1>1, ChargedOnBoth, MoneyOf
  <2>2. t.qty \in Rational /\ Whole(0) \in Rational
    BY <1>1, WholeRational DEF TradeFacts
  <2> QED  BY <1>1, <2>1, <2>2
<1>4. /\ Adds(traded, Users, q) /\ Adds(cash, Users, Minus(z, v))
      /\ Adds(fees, Users, Plus(fee_revenue, paid))
  BY <1>3 DEF ApplyToSeller, Flows, Bought
<1>5. /\ TradeSide(FALSE) = "SHORT"
      /\ \A x \in Rational : /\ Plus(x, Times(Direction("SHORT"), q)) = Minus(x, q)
                             /\ Minus(x, Times(Direction("SHORT"), v)) = Plus(x, v)
  BY Signed DEF TradeSide
<1>6. /\ traded' = [traded EXCEPT ![u] = Minus(@, q)] /\ cash' = [cash EXCEPT ![u] = Plus(@, v)]
  <2>1. /\ traded' = [traded EXCEPT ![u] = Plus(@, Times(Direction("SHORT"), q))]
        /\ cash' = [cash EXCEPT ![u] = Minus(@, Times(Direction("SHORT"), v))]
    BY <1>3, <1>5 DEF ApplyToSeller, ApplyTrade, Booked
  <2>2. traded[u] \in Rational /\ cash[u] \in Rational
    BY <1>2
  <2> QED  BY <1>5, <2>1, <2>2
<1>7. /\ fees' = [fees EXCEPT ![u] = Plus(@, fee)] /\ half' = {}
      /\ fee_revenue' = Plus(Plus(fee_revenue, paid), fee)
  BY <1>1, <1>2, <1>3, ChargedOnBoth DEF ApplyToSeller, ApplyTrade
<1>8. IsFiniteSet(Users)
  BY Constants
<1>9. Adds(traded', Users, z)
  <2>1. traded'[u] = Minus(traded[u], q) /\ \A o \in Users : o # u => traded'[o] = traded[o]
    BY <1>2, <1>6
  <2>2. Adds(traded', Users, Minus(q, q))
    BY <1>2, <1>4, <1>8, <2>1, AddsMoved
  <2> QED  BY <1>3, <2>2, Signed
<1>10. Adds(cash', Users, z)
  <2>1. cash'[u] = Plus(cash[u], v) /\ \A o \in Users : o # u => cash'[o] = cash[o]
    BY <1>2, <1>6
  <2>2. Adds(cash', Users, Plus(Minus(z, v), v))
    BY <1>2, <1>4, <1>8, <2>1, AddsMoved
  <2> QED  BY <1>3, <2>2, Signed
<1>11. Adds(fees', Users, Plus(Plus(fee_revenue, paid), fee))
  <2>1. fees'[u] = Plus(fees[u], fee) /\ \A o \in Users : o # u => fees'[o] = fees[o]
    BY <1>2, <1>7
  <2> QED  BY <1>2, <1>4, <1>8, <2>1, AddsMoved
<1>12. Even(traded', cash', fees', fee_revenue')
  BY <1>3, <1>7, <1>9, <1>10, <1>11 DEF Even
<1> QED  BY <1>7, <1>12 DEF Flows

LEMMA FlowPreserved == FlowInv /\ [LiqNext]_liqVars => FlowInv'
<1> SUFFICES ASSUME FlowInv, [LiqNext]_liqVars  PROVE FlowInv'
  OBVIOUS
<1>1. LiqInv /\ LiqInv'
  BY LiqPreserved DEF FlowInv
<1>2. SUFFICES ASSUME calls' = 0  PROVE Flows(traded', cash', fees', fee_revenue', half')
  BY <1>1 DEF FlowInv
<1>3. calls = 0 /\ trigger = {} => Flows(traded, cash, fees, fee_revenue, half)
  BY DEF FlowInv
<1>4. ASSUME NEW t \in Trade, EngineTrade(t)  PROVE Flows(traded', cash', fees', fee_revenue', half')
  <2>1. Flows(traded, cash, fees, fee_revenue, half)
    BY <1>2, <1>4 DEF EngineTrade, marketVars, FlowInv
  <2> QED  BY <1>1, <1>4, <2>1, BuyerFlows, SellerFlows DEF EngineTrade
<1>5. ASSUME NEW m \in Marks, Tick(m)  PROVE Flows(traded', cash', fees', fee_revenue', half')
  <2>1. calls = 0 /\ UNCHANGED <<traded, cash, fees, fee_revenue, half>>
    BY <1>2, <1>5 DEF Tick, vars
  <2> QED  BY <2>1 DEF FlowInv
<1>6. ASSUME NEW u \in Users, Scan(u)  PROVE FALSE
  <2>1. calls \in 0..MaxCalls /\ calls' = calls + 1
    BY <1>1, <1>6 DEF Scan, LiqInv
  <2> QED  BY <1>2, <2>1, LiqConstants
<1>7. CASE Liquidate
  <2>1. calls' = calls
    <3>1. CASE Abort \/ StartChunk \/ EndChunk \/ Finish
      BY <3>1 DEF Abort, StartChunk, EndChunk, Finish
    <3>2. CASE \E x \in Filling : \E price \in Prices, qty \in FillSizes(x.chunk) : Fill(price, qty)
      BY <3>2 DEF Fill
    <3> QED  BY <1>7, <3>1, <3>2 DEF Liquidate
  <2>2. trigger = {}
    BY <1>1, <1>2, <2>1 DEF LiqInv
  <2> QED  BY <1>7, <2>2 DEF Liquidate, Abort, StartChunk, EndChunk, Finish, Filling, BetweenChunks
<1>8. CASE UNCHANGED liqVars
  <2>1. calls = 0 /\ UNCHANGED <<traded, cash, fees, fee_revenue, half>>
    BY <1>2, <1>8 DEF liqVars, marketVars, vars
  <2> QED  BY <2>1 DEF FlowInv
<1> QED  BY <1>4, <1>5, <1>6, <1>7, <1>8 DEF LiqNext

-----------------------------------------------------------------------------
(* The sum of the equities. *)

(* The recursive function of SumEquity. *)
EquitySums(m, sum) ==
    sum = [s \in SUBSET Users |->
             IF s = {} THEN Whole(0) ELSE Plus(Equity(SomeOf(s), m), sum[s \ {SomeOf(s)}])]

LEMMA EquityExpanded ==
  ASSUME NEW m
  PROVE  SumEquity(m) = (CHOOSE sum : EquitySums(m, sum))[Users]
BY DEF SumEquity, SumOver, MapThenFoldSet, EquitySums, SomeOf

LEMMA EquitySummed ==
  ASSUME NEW m, NEW f, f = [u \in Users |-> Equity(u, m)], NEW x, Adds(f, Users, x)
  PROVE  SumEquity(m) = x
<1>1. IsFiniteSet(Users) /\ \A u \in Users : f[u] \in Rational
  <2>1. IsFiniteSet(Users)
    BY Constants
  <2>2. PICK D \in Nat \ {0} : \E F : OneDenominator(f, Users, F, D)
    BY DEF Adds
  <2> QED  BY <2>1, <2>2, FracRational DEF OneDenominator
<1>2. ASSUME NEW sum  PROVE EquitySums(m, sum) <=> FracSums(f, Users, sum)
  <2>1. \A s \in SUBSET Users : s # {} => f[SomeOf(s)] = Equity(SomeOf(s), m)
    BY AnyMember
  <2> QED  BY <2>1 DEF EquitySums, FracSums
<1>3. PICK sum : sum = CHOOSE g : EquitySums(m, g)
  OBVIOUS
<1>4. EquitySums(m, sum)
  BY <1>1, <1>2, <1>3, FracSumsExist
<1>5. sum[Users] = x
  BY <1>1, <1>2, <1>4, FracSumsAdd
<1> QED  BY <1>3, <1>5, EquityExpanded

(* Multiples of multiples, and of nothing. *)
LEMMA TimesTimes ==
  ASSUME NEW s \in PositionSide, NEW m \in Int, NEW a \in Rational
  PROVE  Times(Direction(s), Times(m, a)) = Times(m, Times(Direction(s), a))
<1>1. Shared(a, a, a, a, a, a, a, a)
  BY Common
<1>2. PICK D \in Nat \ {0} : HasOver(a, D)
  BY <1>1 DEF Shared
<1>3. PICK n \in Int : n = Over(a, D)
  BY <1>2, OverFacts
<1>4. HasOver(Times(m, a), D) /\ Over(Times(m, a), D) = m * n
  BY <1>2, <1>3, Multiples
<1>5. /\ HasOver(Times(Direction(s), a), D)
      /\ Over(Times(Direction(s), a), D) = IF s = "LONG" THEN n ELSE -n
  BY <1>2, <1>3, Directed
<1>6. PICK p, r : p = Times(m, a) /\ r = Times(Direction(s), a)
  OBVIOUS
<1>7. /\ HasOver(Times(Direction(s), p), D)
      /\ Over(Times(Direction(s), p), D) = IF s = "LONG" THEN m * n ELSE -(m * n)
  BY <1>4, <1>6, Directed
<1>8. HasOver(Times(m, r), D) /\ Over(Times(m, r), D) = m * Over(r, D)
  BY <1>5, <1>6, Multiples
<1>9. m * (-n) = -(m * n)
  OBVIOUS
<1>10. Over(Times(m, r), D) = IF s = "LONG" THEN m * n ELSE -(m * n)
  BY <1>5, <1>6, <1>8, <1>9
<1> QED  BY <1>6, <1>7, <1>8, <1>10, Compared

LEMMA EquityOf ==
  ASSUME NEW w \in Rational, NEW f \in Rational, NEW ev \in Rational, NEW dep \in Rational,
         NEW c \in Rational, NEW x \in Rational, Agree(w, f, ev, dep, c)
  PROVE  Plus(w, Minus(x, ev)) = Plus(Minus(Plus(dep, c), f), x)
<1>1. Shared(w, f, ev, dep, c, x, x, x)
  BY Common
<1>2. PICK D \in Nat \ {0} : /\ HasOver(w, D) /\ HasOver(f, D) /\ HasOver(ev, D)
                             /\ HasOver(dep, D) /\ HasOver(c, D) /\ HasOver(x, D)
  BY <1>1 DEF Shared
<1> QED  BY <1>2, Linearly, Compared, OverFacts DEF Agree

(* The equity of a user, in terms of what he has traded, paid and been charged. *)
LEMMA EquityIs ==
  ASSUME LiqInv, NEW m \in Int, NEW u \in Users
  PROVE  Equity(u, m) =
           Plus(Minus(Plus(Whole(Deposit), cash[u]), fees[u]), Times(m, traded[u]))
<1>1. /\ Holding(positions) /\ Balanced(positions, traded, wallet, fees, cash, u)
      /\ wallet[u] \in Rational /\ cash[u] \in Rational /\ fees[u] \in Rational
      /\ traded[u] \in Rational
  BY DEF LiqInv, Records, Accounts
<1>2. PICK w \in Rational, f \in Rational, c \in Rational, n \in Rational, ev \in Rational,
           dep \in Rational :
        /\ w = wallet[u] /\ f = fees[u] /\ c = cash[u] /\ n = NetOf(positions, u)
        /\ n = traded[u] /\ ev = EntryOf(positions, u) /\ dep = Whole(Deposit)
  BY <1>1, EntryRational, WholeRational, Constants DEF Balanced
<1>3. PICK x \in Rational : x = Times(m, n)
  BY Closed
<1>4. Unrealized(u, m) = Minus(x, ev)
  <2>1. CASE u \in DOMAIN positions
    <3>1. positions[u] \in Posn
      BY <1>1, <2>1 DEF Holding
    <3>2. PICK s \in PositionSide, z \in Rational, e \in Rational :
            s = positions[u].side /\ z = positions[u].size /\ e = positions[u].entry
      BY <3>1, PosnFacts
    <3>3. Unrealized(u, m) = Times(Direction(s), Product(z, Minus(Whole(m), e)))
      BY <2>1, <3>2 DEF Unrealized, Profit
    <3>4. Times(Direction(s), Product(z, Minus(Whole(m), e))) =
            Minus(Times(Direction(s), Times(m, z)), Times(Direction(s), Product(z, e)))
      BY SideIs, ProfitIs
    <3>5. n = Times(Direction(s), z)
      BY <1>2, <2>1, <3>2 DEF NetOf
    <3>6. ev = Times(Direction(s), Product(z, e))
      <4>1. Product(Times(Direction(s), z), e) = Times(Direction(s), Product(z, e))
        BY SideIs, TimesProduct
      <4> QED  BY <1>2, <2>1, <3>2, <3>5, <4>1 DEF EntryOf
    <3> QED  BY <1>3, <3>3, <3>4, <3>5, <3>6, TimesTimes
  <2>2. CASE u \notin DOMAIN positions
    <3>1. Unrealized(u, m) = Whole(0) /\ n = Whole(0) /\ ev = Whole(0)
      BY <1>2, <2>2 DEF Unrealized, NetOf, EntryOf
    <3>2. HasOver(Whole(0), 1) /\ Over(Whole(0), 1) = 0
      BY Wholes
    <3>3. HasOver(x, 1) /\ Over(x, 1) = 0
      BY <1>3, <3>1, <3>2, Multiples
    <3>4. HasOver(Minus(x, ev), 1) /\ Over(Minus(x, ev), 1) = 0
      BY <3>1, <3>2, <3>3, Linearly
    <3> QED  BY <3>1, <3>2, <3>4, Compared
  <2> QED  BY <2>1, <2>2
<1>5. Agree(w, f, ev, dep, c)
  BY <1>1, <1>2 DEF Balanced
<1>6. Plus(w, Minus(x, ev)) = Plus(Minus(Plus(dep, c), f), x)
  BY <1>5, EquityOf
<1> QED  BY <1>2, <1>3, <1>4, <1>6 DEF Equity

(* The same, as the linear combinations that AddsLinear takes. *)
LEMMA EquityCombined ==
  ASSUME NEW dep \in Rational, NEW c \in Rational, NEW f \in Rational, NEW n \in Rational,
         NEW m \in Int
  PROVE  /\ Plus(Minus(Plus(dep, c), f), Times(m, n)) =
              Plus(Times(1, Plus(Times(1, dep), Times(-1, f))), Times(1, Plus(Times(1, c), Times(m, n))))
<1>1. Shared(dep, c, f, n, n, n, n, n)
  BY Common
<1>2. PICK D \in Nat \ {0} : HasOver(dep, D) /\ HasOver(c, D) /\ HasOver(f, D) /\ HasOver(n, D)
  BY <1>1 DEF Shared
<1>3. PICK x : x = Times(m, n) /\ HasOver(x, D)
  BY <1>2, Multiples
<1>4. PICK j \in Int, k \in Int : j = 1 /\ k = -1
  OBVIOUS
<1>5. ASSUME NEW a, HasOver(a, D)  PROVE Times(1, a) = a
  <2>1. HasOver(Times(j, a), D) /\ Over(Times(j, a), D) = j * Over(a, D)
    BY <1>5, Multiples
  <2> QED  BY <1>4, <1>5, <2>1, Compared, OverFacts
<1>6. HasOver(Times(-1, f), D) /\ Over(Times(-1, f), D) = -Over(f, D)
  <2>1. HasOver(Times(k, f), D) /\ Over(Times(k, f), D) = k * Over(f, D)
    BY <1>2, Multiples
  <2> QED  BY <1>2, <1>4, <2>1, OverFacts
<1>7. PICK y : y = Times(-1, f) /\ HasOver(y, D) /\ Over(y, D) = -Over(f, D)
  BY <1>6
<1>8. HasOver(Plus(dep, y), D) /\ HasOver(Plus(c, x), D)
  BY <1>2, <1>3, <1>7, Linearly
<1>9. Plus(Minus(Plus(dep, c), f), x) = Plus(Plus(dep, y), Plus(c, x))
  BY <1>2, <1>3, <1>7, Linearly, Compared, OverFacts
<1> QED  BY <1>2, <1>3, <1>5, <1>7, <1>8, <1>9

LEMMA EquitiesAdd ==
  ASSUME LiqInv, Even(traded, cash, fees, fee_revenue), NEW m \in Int
  PROVE  SumEquity(m) =
           Plus(Minus(Plus(Times(Cardinality(Users), Whole(Deposit)), Whole(0)), fee_revenue),
                Times(m, Whole(0)))
<1>1. /\ traded \in [Users -> Rational] /\ cash \in [Users -> Rational]
      /\ fees \in [Users -> Rational] /\ fee_revenue \in Rational /\ IsFiniteSet(Users)
  BY Constants DEF LiqInv, Records, Accounts
<1>2. PICK dep \in Rational, z \in Rational, N \in Int :
        dep = Whole(Deposit) /\ z = Whole(0) /\ N = Cardinality(Users)
  BY <1>1, WholeRational, Constants, FS_CardinalityType
<1>3. Adds(traded, Users, z) /\ Adds(cash, Users, z) /\ Adds(fees, Users, fee_revenue)
  BY <1>2 DEF Even
<1>4. PICK paid : paid = [u \in Users |-> dep]
  OBVIOUS
<1>5. Adds(paid, Users, Times(N, dep))
  BY <1>1, <1>2, <1>4, AddsConstant
<1>6. PICK j \in Int, k \in Int : j = 1 /\ k = -1
  OBVIOUS
<1>7. PICK g : /\ g = [u \in Users |-> Plus(Times(j, paid[u]), Times(k, fees[u]))]
               /\ Adds(g, Users, Plus(Times(j, Times(N, dep)), Times(k, fee_revenue)))
  BY <1>1, <1>3, <1>5, AddsLinear
<1>8. PICK h : /\ h = [u \in Users |-> Plus(Times(j, cash[u]), Times(m, traded[u]))]
               /\ Adds(h, Users, Plus(Times(j, z), Times(m, z)))
  BY <1>1, <1>3, AddsLinear
<1>9. PICK e : /\ e = [u \in Users |-> Plus(Times(j, g[u]), Times(j, h[u]))]
               /\ Adds(e, Users, Plus(Times(j, Plus(Times(j, Times(N, dep)), Times(k, fee_revenue))),
                                      Times(j, Plus(Times(j, z), Times(m, z)))))
  BY <1>1, <1>7, <1>8, AddsLinear
<1>10. PICK total \in Rational : total = Times(N, dep)
  BY Closed
<1>11. Adds(e, Users, Plus(Minus(Plus(total, z), fee_revenue), Times(m, z)))
  <2>1. Plus(Minus(Plus(total, z), fee_revenue), Times(m, z)) =
          Plus(Times(1, Plus(Times(1, total), Times(-1, fee_revenue))),
               Times(1, Plus(Times(1, z), Times(m, z))))
    BY <1>1, EquityCombined
  <2> QED  BY <1>6, <1>9, <1>10, <2>1
<1>12. e = [u \in Users |-> Equity(u, m)]
  <2>1. ASSUME NEW u \in Users  PROVE Equity(u, m) = e[u]
    <3>1. PICK c \in Rational, f \in Rational, n \in Rational : c = cash[u] /\ f = fees[u] /\ n = traded[u]
      BY <1>1
    <3>2. Equity(u, m) = Plus(Minus(Plus(dep, c), f), Times(m, n))
      BY <1>2, <3>1, EquityIs
    <3>3. Plus(Minus(Plus(dep, c), f), Times(m, n)) =
            Plus(Times(1, Plus(Times(1, dep), Times(-1, f))), Times(1, Plus(Times(1, c), Times(m, n))))
      BY EquityCombined
    <3>4. e[u] = Plus(Times(j, g[u]), Times(j, h[u]))
      BY <1>9
    <3>5. g[u] = Plus(Times(j, dep), Times(k, f)) /\ h[u] = Plus(Times(j, c), Times(m, n))
      BY <1>4, <1>7, <1>8, <3>1
    <3> QED  BY <1>6, <3>2, <3>3, <3>4, <3>5
  <2> QED  BY <1>9, <2>1
<1>13. SumEquity(m) = Plus(Minus(Plus(total, z), fee_revenue), Times(m, z))
  BY <1>11, <1>12, EquitySummed
<1> QED  BY <1>2, <1>10, <1>13

LEMMA Cancelled ==
  ASSUME NEW total \in Rational, NEW fr \in Rational, NEW b \in Rational, NEW m \in Int
  PROVE  Minus(Plus(Plus(Plus(Minus(Plus(total, Whole(0)), fr), Times(m, Whole(0))), fr), b), total) = b
<1>1. Shared(total, fr, b, b, b, b, b, b)
  BY Common
<1>2. PICK D \in Nat \ {0} : HasOver(total, D) /\ HasOver(fr, D) /\ HasOver(b, D)
  BY <1>1 DEF Shared
<1>3. PICK z : z = Whole(0) /\ HasOver(z, D) /\ Over(z, D) = 0
  BY Wholes
<1>4. PICK x : x = Times(m, z) /\ HasOver(x, D) /\ Over(x, D) = 0
  BY <1>3, Multiples
<1>5. Minus(Plus(Plus(Plus(Minus(Plus(total, z), fr), x), fr), b), total) = b
  BY <1>2, <1>3, <1>4, Linearly, Compared, OverFacts
<1> QED  BY <1>3, <1>4, <1>5

(* check_zero_sum finds what the vault was seeded with, at every mark, between    *)
(* trades, until the first liquidation: after it the vault's payments are missed. *)
THEOREM ZeroSumCheckIsTheVault == LiqSpec => []ZeroSumUntilLiquidation
<1>1. LiqInit => FlowInv
  BY FlowInitially
<1>2. FlowInv /\ [LiqNext]_liqVars => FlowInv'
  BY FlowPreserved
<1>3. FlowInv => ZeroSumUntilLiquidation
  <2> SUFFICES ASSUME FlowInv, calls = 0, half = {}, NEW m \in Prices
               PROVE  ZeroSumCheck(m) = vault.balance
    BY DEF ZeroSumUntilLiquidation, ZeroSumCheckIsVault
  <2>1. LiqInv /\ Even(traded, cash, fees, fee_revenue) /\ m \in Int
    BY Constants DEF FlowInv, Flows
  <2>2. PICK total \in Rational, b \in Rational, fr \in Rational :
          /\ total = Times(Cardinality(Users), Whole(Deposit))
          /\ b = vault.balance /\ fr = fee_revenue
    <3>1. Whole(Deposit) \in Rational /\ Cardinality(Users) \in Int
      BY WholeRational, Constants, FS_CardinalityType
    <3>2. Times(Cardinality(Users), Whole(Deposit)) \in Rational
      BY <3>1, Closed
    <3> QED  BY <2>1, <3>2, VaultFacts DEF LiqInv, Records
  <2>3. SumEquity(m) = Plus(Minus(Plus(total, Whole(0)), fr), Times(m, Whole(0)))
    BY <2>1, <2>2, EquitiesAdd
  <2>4. ZeroSumCheck(m) = Minus(Plus(Plus(SumEquity(m), fr), b), total)
    BY <2>2 DEF ZeroSumCheck, TotalDeposited
  <2> QED  BY <2>1, <2>2, <2>3, <2>4, Cancelled
<1> QED  BY <1>1, <1>2, <1>3, PTL DEF LiqSpec

-----------------------------------------------------------------------------
(* What the market thread does. *)

LEMMA MarketSteps ==
  ASSUME LiqNext, MarketStep
  PROVE  (\E m \in Marks : Tick(m)) \/ (\E u \in Users : Scan(u)) \/ Liquidate
<1>1. ASSUME NEW t \in Trade, EngineTrade(t)  PROVE half' # half
  BY <1>1 DEF EngineTrade, ApplyToBuyer, ApplyToSeller
<1> QED  BY <1>1 DEF LiqNext, MarketStep

LEMMA LessLeft ==
  ASSUME NEW a \in Rational, NEW b \in Rational, b.n > 0
  PROVE  Less(Minus(a, b), a)
<1>1. Shared(a, b, a, a, a, a, a, a)
  BY Common
<1>2. PICK D \in Nat \ {0} : HasOver(a, D) /\ HasOver(b, D)
  BY <1>1 DEF Shared
<1>3. Over(b, D) > 0
  BY <1>2, Signs
<1>4. HasOver(Minus(a, b), D) /\ Over(Minus(a, b), D) = Over(a, D) - Over(b, D)
  BY <1>2, Linearly
<1> QED  BY <1>2, <1>3, <1>4, Compared, OverFacts

LEMMA LessWhole ==
  ASSUME NEW a \in Rational, a.n > 0
  PROVE  Less(Whole(0), a)
<1>1. Shared(a, a, a, a, a, a, a, a)
  BY Common
<1>2. PICK D \in Nat \ {0} : HasOver(a, D)
  BY <1>1 DEF Shared
<1> QED  BY <1>2, Signs, Wholes, Compared

(* However the book fills, every step of trigger() begins the next of its *)
(* chunks or uses up the present one: the loop ends.                      *)
THEOREM TriggerAdvances == LiqSpec => LiquidationAdvances
<1> DEFINE Forward(x, y) ==
             \/ y.chunks = x.chunks + 1
             \/ y.chunks = x.chunks /\ Less(y.chunk, x.chunk)
<1>1. ASSUME LiqInv, LiqNext, MarketStep, NEW x \in trigger, NEW y \in trigger'
      PROVE  Forward(x, y)
  <2>1. Liquidate
    BY <1>1, MarketSteps DEF Tick, Scan
  <2>2. /\ x.chunk \in Rational /\ x.chunks \in 0..MaxChunks
        /\ x \in [user : Users, chunks : 0..MaxChunks, chunk : Rational]
        /\ \A z \in trigger : z = x
    BY <1>1 DEF LiqInv, Calls
  <2>3. CASE StartChunk
    <3>1. y = [x EXCEPT !.chunks = @ + 1, !.chunk = ChunkOf(positions[x.user].size)]
      BY <1>1, <2>2, <2>3 DEF StartChunk, BetweenChunks
    <3> QED  BY <2>2, <3>1
  <2>4. CASE EndChunk
    <3>1. y = [x EXCEPT !.chunk = Whole(0)] /\ x.chunk.n > 0
      BY <1>1, <2>2, <2>4 DEF EndChunk, Filling
    <3> QED  BY <2>2, <3>1, LessWhole
  <2>5. CASE \E z \in Filling : \E price \in Prices, qty \in FillSizes(z.chunk) : Fill(price, qty)
    <3>1. PICK t, ranking, taken : FilledBy(x, t, ranking, taken)
      BY <1>1, <2>2, <2>5, FillIs DEF FilledBy
    <3>2. y = [x EXCEPT !.chunk = Minus(x.chunk, t.qty)] /\ t.qty \in Rational /\ t.qty.n > 0
      BY <1>1, <3>1 DEF FilledBy, TradeFacts
    <3>3. Less(Minus(x.chunk, t.qty), x.chunk)
      BY <2>2, <3>2, LessLeft
    <3> QED  BY <2>2, <3>2, <3>3
  <2> QED  BY <1>1, <2>1, <2>3, <2>4, <2>5 DEF Liquidate, Abort, Finish
<1>2. LiqInv /\ [LiqNext]_liqVars =>
        [MarketStep => \A x \in trigger, y \in trigger' : Forward(x, y)]_liqVars
  BY <1>1
<1> QED  BY <1>2, LiquidationInvariant, PTL DEF LiqSpec, LiquidationAdvances

-----------------------------------------------------------------------------
(* The equity of users who are not liquidated. *)

(* The equity of a user who has paid c and f and is n lots long, at the mark m. *)
Worth(c, f, n, m) == Plus(Minus(Plus(Whole(Deposit), c), f), Times(m, n))

EquityLaw == \A m \in Int, u \in Users : Equity(u, m) = Worth(cash[u], fees[u], traded[u], m)

(* Lots closed at the mark are worth there what is paid for them. *)
LEMMA ClosedAtMark ==
  ASSUME NEW c \in Rational, NEW f \in Rational, NEW n \in Rational, NEW m \in Int,
         NEW s \in PositionSide, NEW l \in Rational
  PROVE  Worth(Plus(c, Times(Direction(s), Times(m, l))), f, Minus(n, Times(Direction(s), l)), m)
           = Worth(c, f, n, m)
<1>1. PICK d \in Rational, dep \in Rational : d = Times(Direction(s), l) /\ dep = Whole(Deposit)
  BY SideIs, Closed, WholeRational, Constants
<1>2. Times(Direction(s), Times(m, l)) = Times(m, d)
  BY <1>1, TimesTimes
<1>3. Shared(c, f, n, d, dep, c, c, c)
  BY Common
<1>4. PICK D \in Nat \ {0} : HasOver(c, D) /\ HasOver(f, D) /\ HasOver(n, D) /\ HasOver(d, D)
                             /\ HasOver(dep, D)
  BY <1>3 DEF Shared
<1>5. PICK j \in Int, k \in Int : j = Over(n, D) /\ k = Over(d, D)
  BY <1>4, OverFacts
<1>6. PICK x, y, z, e :
        /\ x = Times(m, d) /\ HasOver(x, D) /\ Over(x, D) = m * k
        /\ y = Times(m, n) /\ HasOver(y, D) /\ Over(y, D) = m * j
        /\ e = Minus(n, d) /\ HasOver(e, D) /\ Over(e, D) = j - k
        /\ z = Times(m, e) /\ HasOver(z, D) /\ Over(z, D) = m * (j - k)
  <2>1. HasOver(Times(m, d), D) /\ Over(Times(m, d), D) = m * k
    BY <1>4, <1>5, Multiples
  <2>2. HasOver(Times(m, n), D) /\ Over(Times(m, n), D) = m * j
    BY <1>4, <1>5, Multiples
  <2>3. PICK e : e = Minus(n, d) /\ HasOver(e, D) /\ Over(e, D) = j - k
    BY <1>4, <1>5, Linearly
  <2>4. HasOver(Times(m, e), D) /\ Over(Times(m, e), D) = m * Over(e, D)
    BY <2>3, Multiples
  <2> QED  BY <2>1, <2>2, <2>3, <2>4
<1>7. m * (j - k) = m * j - m * k /\ m * j \in Int /\ m * k \in Int
  OBVIOUS
<1>8. Over(z, D) = Over(y, D) - Over(x, D) /\ Over(x, D) \in Int /\ Over(y, D) \in Int
  BY <1>6, <1>7
<1>9. HasOver(x, D) /\ HasOver(y, D) /\ HasOver(z, D)
  BY <1>6
<1>10. Plus(Minus(Plus(dep, Plus(c, x)), f), z) = Plus(Minus(Plus(dep, c), f), y)
  BY <1>4, <1>8, <1>9, Linearly, Compared, OverFacts
<1> QED  BY <1>1, <1>2, <1>6, <1>10 DEF Worth

(* A liquidation leaves every other user's equity as it was at the mark, also *)
(* those whose winning lots run_adl takes.                                    *)
THEOREM OthersAreLeftWhole == LiqSpec => OthersKeepEquity
<1>1. LiqInv => EquityLaw
  BY EquityIs DEF EquityLaw, Worth
<1>2. LiqInv' => EquityLaw'
  BY <1>1, PTL
<1>3. ASSUME LiqInv, LiqNext, MarketStep, NEW u \in Users \ Liquidated
      PROVE  Worth(cash'[u], fees'[u], traded'[u], mark) = Worth(cash[u], fees[u], traded[u], mark)
  <2>1. CASE (\E m \in Marks : Tick(m)) \/ (\E v \in Users : Scan(v))
             \/ Abort \/ StartChunk \/ EndChunk
    BY <2>1 DEF Tick, Scan, Abort, StartChunk, EndChunk, vars
  <2>2. CASE Finish
    <3>1. PICK x \in trigger : /\ cash' = cash /\ traded' = traded
                               /\ \E d : fees' = [fees EXCEPT ![x.user] = d]
      BY <2>2 DEF Finish, BetweenChunks
    <3>2. u # x.user
      BY <3>1, <1>3 DEF Liquidated
    <3>3. fees \in [Users -> Rational]
      BY <1>3 DEF LiqInv, Records, Accounts
    <3> QED  BY <3>1, <3>2, <3>3
  <2>3. CASE \E z \in Filling : \E price \in Prices, qty \in FillSizes(z.chunk) : Fill(price, qty)
    <3>1. PICK x, t, ranking, taken : FilledBy(x, t, ranking, taken)
      BY <1>3, <2>3, FillIs
    <3>2. /\ x \in trigger /\ SettleFill(x.user, t, taken)
          /\ TakenFrom(taken, Candidates(x.user))
      BY <3>1 DEF FilledBy
    <3>3. u # x.user
      BY <1>3, <3>2 DEF Liquidated
    <3>4. /\ fees \in [Users -> Rational] /\ traded \in [Users -> Rational]
          /\ cash \in [Users -> Rational] /\ Holding(positions) /\ mark \in Int
      BY <1>3, LiqConstants DEF LiqInv, Records, Accounts
    <3>5. fees'[u] = fees[u]
      BY <3>2, <3>3, <3>4 DEF SettleFill
    <3>6. CASE u \notin DOMAIN taken
      <4>1. traded'[u] = traded[u]
        BY <3>2, <3>3, <3>6 DEF SettleFill
      <4>2. cash'[u] = cash[u]
        BY <3>2, <3>3, <3>6 DEF SettleFill
      <4> QED  BY <3>5, <4>1, <4>2
    <3>7. CASE u \in DOMAIN taken
      <4>1. positions[u] \in Posn /\ taken[u] \in Rational
        <5>1. Candidates(x.user) \in SUBSET DOMAIN positions
          BY CandidatesAre
        <5> QED  BY <3>2, <3>4, <3>7, <5>1 DEF TakenFrom, Holding
      <4>2. PICK s \in PositionSide, l \in Rational : s = positions[u].side /\ l = taken[u]
        BY <4>1, PosnFacts
      <4>3. traded'[u] = Minus(traded[u], Times(Direction(s), l))
        BY <3>2, <3>3, <3>7, <4>2 DEF SettleFill
      <4>4. cash'[u] = Plus(cash[u], Times(Direction(s), Times(mark, l)))
        BY <3>2, <3>3, <3>7, <4>2 DEF SettleFill
      <4>5. cash[u] \in Rational /\ fees[u] \in Rational /\ traded[u] \in Rational
        BY <3>4
      <4> QED  BY <3>4, <3>5, <4>3, <4>4, <4>5, ClosedAtMark
    <3> QED  BY <3>6, <3>7
  <2> QED  BY <1>3, <2>1, <2>2, <2>3, MarketSteps DEF Liquidate
<1>4. ASSUME LiqInv, LiqInv', LiqNext, MarketStep, NEW u \in Users \ Liquidated, mark' = mark
      PROVE  Equity(u, mark)' = Equity(u, mark)
  <2>1. mark \in Int
    BY <1>4, LiqConstants DEF LiqInv
  <2>2. Equity(u, mark) = Worth(cash[u], fees[u], traded[u], mark)
    BY <1>1, <1>4, <2>1 DEF EquityLaw
  <2>3. Equity(u, mark)' = Worth(cash'[u], fees'[u], traded'[u], mark')
    BY <1>2, <1>4, <2>1 DEF EquityLaw
  <2> QED  BY <1>3, <1>4, <2>2, <2>3
<1>5. LiqInv /\ LiqInv' /\ [LiqNext]_liqVars =>
        [MarketStep => \A u \in Users \ Liquidated :
           mark' = mark => Equity(u, mark)' = Equity(u, mark)]_liqVars
  BY <1>4
<1> QED  BY <1>5, LiquidationInvariant, PTL DEF LiqSpec, OthersKeepEquity

-----------------------------------------------------------------------------
(* The positions under liquidation and deleveraging. *)

(* A position of b lots is one of a lots, or fewer of the same side. *)
ReducedTo(a, b) ==
    /\ b.n * a.n >= 0
    /\ ~Less(Times(Direction(IF a.n >= 0 THEN "LONG" ELSE "SHORT"), a),
             Times(Direction(IF a.n >= 0 THEN "LONG" ELSE "SHORT"), b))

LEMMA SameReduces ==
  ASSUME NEW a \in Rational
  PROVE  ReducedTo(a, a)
<1>1. a.n * a.n >= 0
  BY RationalFacts
<1>2. PICK s \in PositionSide : s = IF a.n >= 0 THEN "LONG" ELSE "SHORT"
  BY DEF PositionSide
<1>3. PICK b \in Rational : b = Times(Direction(s), a)
  BY SideIs, Closed
<1>4. ~Less(b, b)
  BY NotBoth
<1> QED  BY <1>1, <1>2, <1>3, <1>4 DEF ReducedTo

LEMMA FewerReduces ==
  ASSUME NEW s \in PositionSide, NEW z \in Rational, z.n > 0,
         NEW y \in Rational, y.n >= 0, ~Less(z, y)
  PROVE  ReducedTo(Times(Direction(s), z), Times(Direction(s), y))
<1>1. Shared(z, y, y, y, y, y, y, y)
  BY Common
<1>2. PICK D \in Nat \ {0} : HasOver(z, D) /\ HasOver(y, D)
  BY <1>1 DEF Shared
<1>3. PICK m \in Int, n \in Int :
        m = Over(z, D) /\ n = Over(y, D) /\ m > 0 /\ n <= m /\ n >= 0
  <2>1. Over(z, D) \in Int /\ Over(y, D) \in Int
    BY <1>2, OverFacts
  <2>2. Over(z, D) > 0 /\ ~(Over(y, D) < 0)
    BY <1>2, Signs
  <2>3. ~(Over(z, D) < Over(y, D))
    BY <1>2, Compared
  <2> QED  BY <2>1, <2>2, <2>3
<1>4. PICK a, b : /\ a = Times(Direction(s), z) /\ b = Times(Direction(s), y)
                  /\ HasOver(a, D) /\ HasOver(b, D)
                  /\ Over(a, D) = IF s = "LONG" THEN m ELSE -m
                  /\ Over(b, D) = IF s = "LONG" THEN n ELSE -n
  BY <1>2, <1>3, Directed
<1>5. /\ a.n \in Int /\ b.n \in Int
      /\ a.n > 0 <=> Over(a, D) > 0
      /\ a.n < 0 <=> Over(a, D) < 0
      /\ b.n > 0 <=> Over(b, D) > 0
      /\ b.n < 0 <=> Over(b, D) < 0
  BY <1>4, Signs
<1>6. a.n * b.n >= 0 /\ b.n * a.n = a.n * b.n
  <2>1. (a.n > 0 /\ b.n >= 0) \/ (a.n < 0 /\ b.n <= 0)
    BY <1>3, <1>4, <1>5
  <2>2. PICK i \in Int, j \in Int : i = a.n /\ j = b.n
    BY <1>5
  <2>3. (i > 0 /\ j >= 0) \/ (i < 0 /\ j <= 0) => i * j >= 0 /\ j * i = i * j
    OBVIOUS
  <2> QED  BY <2>1, <2>2, <2>3
<1>7. s = IF a.n >= 0 THEN "LONG" ELSE "SHORT"
  BY <1>3, <1>4, <1>5 DEF PositionSide
<1>8. PICK p, q : /\ p = Times(Direction(s), a) /\ q = Times(Direction(s), b)
                  /\ HasOver(p, D) /\ HasOver(q, D) /\ Over(p, D) = m /\ Over(q, D) = n
  <2>1. /\ HasOver(Times(Direction(s), a), D)
        /\ Over(Times(Direction(s), a), D) = IF s = "LONG" THEN Over(a, D) ELSE -Over(a, D)
    BY <1>4, Directed
  <2>2. /\ HasOver(Times(Direction(s), b), D)
        /\ Over(Times(Direction(s), b), D) = IF s = "LONG" THEN Over(b, D) ELSE -Over(b, D)
    BY <1>4, Directed
  <2>3. -(-m) = m /\ -(-n) = n
    OBVIOUS
  <2> QED  BY <1>4, <2>1, <2>2, <2>3
<1>9. ~Less(p, q)
  BY <1>3, <1>8, Compared
<1> QED  BY <1>4, <1>6, <1>7, <1>8, <1>9 DEF ReducedTo

LEMMA NoneOf ==
  ASSUME NEW s \in PositionSide
  PROVE  Times(Direction(s), Whole(0)) = Whole(0)
<1>1. HasOver(Whole(0), 1) /\ Over(Whole(0), 1) = 0
  BY Wholes
<1>2. HasOver(Times(Direction(s), Whole(0)), 1) /\ Over(Times(Direction(s), Whole(0)), 1) = 0
  BY <1>1, Directed
<1> QED  BY <1>1, <1>2, Compared

LEMMA FewerLeft ==
  ASSUME NEW z \in Rational, NEW x \in Rational, x.n >= 0
  PROVE  ~Less(z, Minus(z, x))
<1>1. Shared(z, x, x, x, x, x, x, x)
  BY Common
<1>2. PICK D \in Nat \ {0} : HasOver(z, D) /\ HasOver(x, D)
  BY <1>1 DEF Shared
<1>3. PICK m \in Int, n \in Int : m = Over(z, D) /\ n = Over(x, D) /\ n >= 0
  BY <1>2, OverFacts, Signs
<1>4. HasOver(Minus(z, x), D) /\ Over(Minus(z, x), D) = m - n
  BY <1>2, <1>3, Linearly
<1> QED  BY <1>2, <1>3, <1>4, Compared

(* Some lots off a position, or all of them. *)
LEMMA LotsOff ==
  ASSUME NEW ps, Holding(ps), NEW qs, NEW v \in DOMAIN ps, NEW x \in Rational, x.n >= 0,
         IF Less(x, ps[v].size) THEN v \in DOMAIN qs /\ qs[v] = Reduced(ps[v], x)
         ELSE v \notin DOMAIN qs
  PROVE  ReducedTo(NetOf(ps, v), NetOf(qs, v))
<1>1. ps[v] \in Posn
  BY DEF Holding
<1>2. PICK s \in PositionSide, z \in Rational :
        s = ps[v].side /\ z = ps[v].size /\ z.n > 0 /\ NetOf(ps, v) = Times(Direction(s), z)
  BY <1>1, PosnFacts DEF NetOf
<1>3. CASE Less(x, z)
  <2>1. PICK y \in Rational : y = Minus(z, x) /\ y.n > 0 /\ ~Less(z, y)
    BY <1>3, Differences, FewerLeft
  <2>2. qs[v].side = s /\ qs[v].size = y /\ v \in DOMAIN qs
    BY <1>1, <1>2, <1>3, <2>1 DEF Reduced, Posn
  <2>3. NetOf(qs, v) = Times(Direction(s), y)
    BY <2>2 DEF NetOf
  <2>4. y.n >= 0
    BY <2>1, RationalFacts
  <2> QED  BY <1>2, <2>1, <2>3, <2>4, FewerReduces
<1>4. CASE ~Less(x, z)
  <2>1. PICK y \in Rational : y = Whole(0) /\ y.n = 0 /\ ~Less(z, y)
    <3>1. Whole(0) \in Rational /\ Whole(0).n = 0 /\ Less(Whole(0), z)
      BY <1>2, WholeField, LessWhole
    <3> QED  BY <3>1, NotBoth
  <2>2. NetOf(qs, v) = Times(Direction(s), y)
    BY <1>2, <1>4, <2>1, NoneOf DEF NetOf
  <2> QED  BY <1>2, <2>1, <2>2, FewerReduces
<1> QED  BY <1>3, <1>4

LEMMA FilledReduces ==
  ASSUME LiqInv, NEW x, NEW t, NEW ranking, NEW taken, FilledBy(x, t, ranking, taken),
         NEW v \in Users
  PROVE  ReducedTo(NetOf(positions, v), NetOf(positions', v))
<1>1. Holding(positions)
  BY DEF LiqInv, Records, Accounts
<1>2. PICK u, ds : u \in Users /\ u = x.user /\ ds = Deleveraged(taken)
  BY FilledFacts
<1>3. /\ Holding(ds)
      /\ positions' = IF Less(t.qty, positions[u].size)
                      THEN Put(ds, u, Reduced(positions[u], t.qty)) ELSE Erase(ds, u)
  BY <1>2, FilledFacts
<1>4. PICK C \in SUBSET DOMAIN positions : C = Candidates(u) /\ u \notin C
  BY CandidatesAre
<1>5. /\ TakenFrom(taken, C) /\ u \in DOMAIN positions /\ t.qty \in Rational /\ t.qty.n > 0
  BY <1>2, <1>4 DEF FilledBy, TradeFacts
<1>6. CASE v = u
  <2>1. IF Less(t.qty, positions[u].size)
        THEN u \in DOMAIN positions' /\ positions'[u] = Reduced(positions[u], t.qty)
        ELSE u \notin DOMAIN positions'
    BY <1>3 DEF Put, Erase, Restrict
  <2>2. t.qty.n >= 0
    BY <1>5, RationalFacts
  <2> QED  BY <1>1, <1>5, <1>6, <2>1, <2>2, LotsOff
<1>7. CASE v # u
  <2>1. /\ v \in DOMAIN positions' <=> v \in DOMAIN ds
        /\ v \in DOMAIN ds => positions'[v] = ds[v]
    BY <1>3, <1>7 DEF Put, Erase, Restrict
  <2>2. CASE v \in DOMAIN taken
    <3>1. IF Less(taken[v], positions[v].size)
          THEN v \in DOMAIN ds /\ ds[v] = Reduced(positions[v], taken[v])
          ELSE v \notin DOMAIN ds
      BY <1>1, <1>2, <1>5, <2>2, DeleveragedHolds
    <3>2. taken[v] \in Rational /\ taken[v].n >= 0 /\ v \in DOMAIN positions
      BY <1>5, <2>2 DEF TakenFrom
    <3>3. IF Less(taken[v], positions[v].size)
          THEN v \in DOMAIN positions' /\ positions'[v] = Reduced(positions[v], taken[v])
          ELSE v \notin DOMAIN positions'
      BY <2>1, <3>1
    <3> QED  BY <1>1, <3>2, <3>3, LotsOff
  <2>3. CASE v \notin DOMAIN taken
    <3>1. /\ v \in DOMAIN ds <=> v \in DOMAIN positions
          /\ v \in DOMAIN positions => ds[v] = positions[v]
      BY <1>1, <1>2, <1>5, <2>3, DeleveragedHolds
    <3>2. NetOf(positions', v) = NetOf(positions, v)
      BY <2>1, <3>1 DEF NetOf
    <3> QED  BY <1>1, <3>2, EntryRational, SameReduces
  <2> QED  BY <2>2, <2>3
<1> QED  BY <1>6, <1>7

(* No step of a liquidation opens, enlarges or turns round a position. *)
THEOREM LiquidationOnlyReduces == LiqSpec => LiquidationReduces
<1>1. ASSUME LiqInv, LiqNext, MarketStep, NEW u \in Users
      PROVE  ReducedTo(NetOf(positions, u), NetOf(positions', u))
  <2>1. CASE \E z \in Filling : \E price \in Prices, qty \in FillSizes(z.chunk) : Fill(price, qty)
    <3>1. PICK x, t, ranking, taken : FilledBy(x, t, ranking, taken)
      BY <1>1, <2>1, FillIs
    <3> QED  BY <1>1, <3>1, FilledReduces
  <2>2. CASE (\E m \in Marks : Tick(m)) \/ (\E v \in Users : Scan(v))
             \/ Abort \/ StartChunk \/ EndChunk \/ Finish
    <3>1. positions' = positions
      BY <2>2 DEF Tick, Scan, Abort, StartChunk, EndChunk, Finish, vars
    <3>2. NetOf(positions, u) \in Rational
      BY <1>1, EntryRational DEF LiqInv, Records, Accounts
    <3> QED  BY <3>1, <3>2, SameReduces
  <2> QED  BY <1>1, <2>1, <2>2, MarketSteps DEF Liquidate
<1>2. ASSUME NEW u \in Users  PROVE Net(u) = NetOf(positions, u) /\ Net(u)' = NetOf(positions', u)
  BY DEF Net, NetOf
<1>3. LiqInv /\ [LiqNext]_liqVars =>
        [MarketStep => \A u \in Users :
          /\ Net(u)'.n * Net(u).n >= 0
          /\ ~Less(Times(Direction(IF Net(u).n >= 0 THEN "LONG" ELSE "SHORT"), Net(u)),
                   Times(Direction(IF Net(u).n >= 0 THEN "LONG" ELSE "SHORT"), Net(u)'))]_liqVars
  BY <1>1, <1>2 DEF ReducedTo
<1> QED  BY <1>3, LiquidationInvariant, PTL DEF LiqSpec, LiquidationReduces

-----------------------------------------------------------------------------
(* The order in which lots are taken. *)

LEMMA ScoreRational ==
  ASSUME LiqInv, NEW v \in DOMAIN positions
  PROVE  Score(v) \in Rational
<1>1. /\ Holding(positions) /\ wallet \in [Users -> Rational] /\ mark \in Nat \ {0}
      /\ mark \in Int /\ v \in Users
  BY LiqConstants DEF LiqInv, Records, Accounts, Holding, IsMap
<1>2. positions[v] \in Posn
  BY <1>1 DEF Holding
<1>3. PICK s \in PositionSide, z \in Rational, e \in Rational, w \in Rational, im \in Rational :
        /\ s = positions[v].side /\ z = positions[v].size /\ e = positions[v].entry
        /\ w = wallet[v] /\ im = PositionIm(positions, v, mark)
  BY <1>1, <1>2, PosnFacts, ImRational
<1>4. PICK pnl \in Rational : pnl = Unrealized(v, mark)
  <2>1. PICK d \in Rational : d = Minus(Whole(mark), e)
    BY <1>1, WholeRational, Closed
  <2>2. PICK p \in Rational : p = Product(z, d)
    BY Closed
  <2>3. Times(Direction(s), p) \in Rational
    BY SideIs, Closed
  <2>4. Unrealized(v, mark) = Times(Direction(s), p)
    BY <1>3, <2>1, <2>2 DEF Unrealized, Profit
  <2> QED  BY <2>3, <2>4
<1>5. PICK eq \in Rational : eq = Equity(v, mark)
  BY <1>3, <1>4, Closed DEF Equity
<1>6. PICK n \in Rational : n = Times(mark, z)
  BY <1>1, Closed
<1>7. Score(v) = IF im.n <= 0 \/ eq.n <= 0 THEN Whole(0)
                 ELSE Product(Quotient(pnl, im), Quotient(n, eq))
  BY <1>3, <1>4, <1>5, <1>6 DEF Score
<1>8. CASE ~(im.n <= 0 \/ eq.n <= 0)
  <2>1. im.n > 0 /\ eq.n > 0
    BY <1>8, RationalFacts
  <2>2. Quotient(pnl, im) \in Rational /\ Quotient(n, eq) \in Rational
    BY <2>1, QuotientLaw
  <2> QED  BY <1>7, <1>8, <2>2, Closed
<1> QED  BY <1>7, <1>8, WholeRational

(* A vault that is short of a deficit is left empty. *)
LEMMA Emptied ==
  ASSUME NEW v, VaultOK(v), NEW x, Less(v.balance, x)
  PROVE  AbsorbDeficit(v, x).balance.n = 0
<1>1. PICK b \in Rational : b = v.balance
  BY VaultFacts
<1>2. Least(x, b) = b
  BY <1>1 DEF Least
<1>3. Minus(b, b) = Whole(0) /\ Minus(b, b).n = 0
  BY Signed, WholeField
<1>4. AbsorbDeficit(v, x).balance = Minus(b, b)
  BY <1>1, <1>2 DEF AbsorbDeficit, VaultOK
<1> QED  BY <1>3, <1>4

(* The ranking that a fill takes lots by. *)
LEMMA TakenByRank ==
  ASSUME LiqInv, NEW x, NEW t, NEW ranking, NEW taken, FilledBy(x, t, ranking, taken),
         NEW v \in Users, v # x.user, NetOf(positions', v) # NetOf(positions, v)
  PROVE  /\ vault'.balance.n = 0
         /\ \A w \in Candidates(x.user) :
              Less(Score(v), Score(w)) => NetOf(positions', w) = Whole(0)
<1>1. Holding(positions)
  BY DEF LiqInv, Records, Accounts
<1>2. PICK u, ds : u \in Users /\ u = x.user /\ ds = Deleveraged(taken)
  BY FilledFacts
<1>3. /\ Holding(ds)
      /\ positions' = IF Less(t.qty, positions[u].size)
                      THEN Put(ds, u, Reduced(positions[u], t.qty)) ELSE Erase(ds, u)
  BY <1>2, FilledFacts
<1>4. PICK C \in SUBSET DOMAIN positions : C = Candidates(u) /\ u \notin C
  BY CandidatesAre
<1>5. PICK k : k = Len(ranking) /\ k \in Nat
  BY <1>1, RankedFrom DEF FilledBy
<1>6. /\ TakenFrom(taken, C) /\ TakenInOrder(taken, ranking, k)
      /\ ranking = << >> \/ ranking \in Rankings(u)
  BY <1>2, <1>4, <1>5 DEF FilledBy
<1>7. ASSUME NEW w \in Users, w # u  PROVE NetOf(positions', w) = NetOf(ds, w)
  BY <1>3, <1>7 DEF Put, Erase, Restrict, NetOf
<1>8. v \in DOMAIN taken
  <2>1. SUFFICES ASSUME v \notin DOMAIN taken  PROVE FALSE
    OBVIOUS
  <2>2. /\ v \in DOMAIN ds <=> v \in DOMAIN positions
        /\ v \in DOMAIN positions => ds[v] = positions[v]
    BY <1>1, <1>2, <1>6, <2>1, DeleveragedHolds
  <2>3. NetOf(ds, v) = NetOf(positions, v)
    BY <2>2 DEF NetOf
  <2> QED  BY <1>2, <1>7, <2>3
<1>9. taken[v] # Whole(0)
  <2>1. SUFFICES ASSUME taken[v] = Whole(0)  PROVE FALSE
    OBVIOUS
  <2>2. NetOf(ds, v) = Minus(NetOf(positions, v), Taken(positions, v, taken[v]))
    BY <1>1, <1>2, <1>6, <1>8, DeleveragedMoves
  <2>3. positions[v] \in Posn
    BY <1>1, <1>6, <1>8 DEF TakenFrom, Holding
  <2>4. Taken(positions, v, taken[v]) = Whole(0)
    BY <2>1, <2>3, PosnFacts, NoneOf DEF Taken
  <2>5. PICK a \in Rational : a = NetOf(positions, v)
    BY <1>1, EntryRational
  <2>6. Minus(a, Whole(0)) = a
    <3>1. Shared(a, a, a, a, a, a, a, a)
      BY Common
    <3>2. PICK D \in Nat \ {0} : HasOver(a, D)
      BY <3>1 DEF Shared
    <3>3. HasOver(Whole(0), D) /\ Over(Whole(0), D) = 0
      BY Wholes
    <3> QED  BY <3>2, <3>3, Linearly, Compared, OverFacts
  <2> QED  BY <1>2, <1>7, <2>2, <2>4, <2>5, <2>6
<1>10. PICK j \in 1..k : ranking[j] = v
  BY <1>6, <1>8 DEF TakenInOrder
<1>11. ranking \in Rankings(u)
  <2>1. ranking = << >> => k = 0
    BY <1>5
  <2> QED  BY <1>6, <1>10, <2>1
<1>12. vault'.balance.n = 0
  <2>1. /\ vault' = AbsorbDeficit(CreditFee(vault, LiquidationFee(t)), DeficitOf(x.user, t))
        /\ VaultOK(CreditFee(vault, LiquidationFee(t)))
        /\ Less(CreditFee(vault, LiquidationFee(t)).balance, DeficitOf(x.user, t))
    <3>1. ranking # << >>
      <4>1. ranking = << >> => k = 0
        BY <1>5
      <4> QED  BY <1>10, <4>1
    <3> QED  BY <3>1 DEF FilledBy
  <2> QED  BY <2>1, Emptied
<1>13. ASSUME NEW w \in C, Less(Score(v), Score(w))  PROVE NetOf(positions', w) = Whole(0)
  <2>1. PICK i \in 1..k : ranking[i] = w
    BY <1>1, <1>4, <1>5, <1>11, RankedFrom
  <2>2. i < j
    <3>1. CASE i = j
      <4>1. v \in DOMAIN positions /\ v = w
        BY <1>6, <1>8, <1>10, <2>1, <3>1 DEF TakenFrom
      <4>2. PICK a \in Rational : a = Score(v)
        BY <4>1, ScoreRational
      <4> QED  BY <1>13, <4>1, <4>2, NotBoth
    <3>2. CASE j < i
      <4>1. DOMAIN ranking = 1..k
        BY <1>5, <1>11 DEF Rankings, SetToSeqs
      <4>2. ~Less(Score(ranking[j]), Score(ranking[i]))
        BY <1>11, <2>1, <3>2, <4>1 DEF Rankings
      <4> QED  BY <1>10, <1>13, <2>1, <4>2
    <3> QED  BY <3>1, <3>2
  <2>3. taken[w] = positions[w].size /\ w \in DOMAIN taken
    BY <1>6, <1>9, <1>10, <2>1, <2>2 DEF TakenInOrder
  <2>4. w \notin DOMAIN ds
    <3>1. positions[w] \in Posn
      BY <1>1 DEF Holding
    <3>2. ~Less(taken[w], positions[w].size)
      BY <2>3, <3>1, PosnFacts, NotBoth
    <3> QED  BY <1>1, <1>2, <1>6, <2>3, <3>2, DeleveragedHolds
  <2>5. w \in Users /\ w # u
    BY <1>1, <1>4 DEF Holding, IsMap
  <2> QED  BY <1>7, <2>4, <2>5 DEF NetOf
<1> QED  BY <1>2, <1>4, <1>12, <1>13

(* Winners lose lots only when the vault is empty, and none while a candidate *)
(* of a higher score has lots left.                                           *)
THEOREM WinnersLastAndInOrder == LiqSpec => AdlLastAndInOrder
<1>1. ASSUME LiqInv, LiqNext, MarketStep, NEW v \in Users \ Liquidated,
             NetOf(positions', v) # NetOf(positions, v)
      PROVE  /\ vault'.balance.n = 0
             /\ \A x \in trigger : \A w \in Candidates(x.user) :
                  Less(Score(v), Score(w)) => NetOf(positions', w).n = 0
  <2>1. positions' # positions
    BY <1>1
  <2>2. \E z \in Filling : \E price \in Prices, qty \in FillSizes(z.chunk) : Fill(price, qty)
    <3>1. ~((\E m \in Marks : Tick(m)) \/ (\E u \in Users : Scan(u))
            \/ Abort \/ StartChunk \/ EndChunk \/ Finish)
      BY <2>1 DEF Tick, Scan, Abort, StartChunk, EndChunk, Finish, vars
    <3> QED  BY <1>1, <3>1, MarketSteps DEF Liquidate
  <2>3. PICK x, t, ranking, taken : FilledBy(x, t, ranking, taken)
    BY <1>1, <2>2, FillIs
  <2>4. x \in trigger /\ v # x.user /\ \A y \in trigger : y = x
    BY <1>1, <2>3 DEF FilledBy, Liquidated, LiqInv, Calls
  <2>5. /\ vault'.balance.n = 0
        /\ \A w \in Candidates(x.user) :
              Less(Score(v), Score(w)) => NetOf(positions', w) = Whole(0)
    BY <1>1, <2>3, <2>4, TakenByRank
  <2>6. Whole(0).n = 0
    BY WholeField
  <2> QED  BY <2>4, <2>5, <2>6
<1>2. ASSUME NEW u  PROVE Net(u) = NetOf(positions, u) /\ Net(u)' = NetOf(positions', u)
  BY DEF Net, NetOf
<1>3. ASSUME LiqInv, LiqNext, MarketStep, NEW v \in Users \ Liquidated, Net(v)' # Net(v)
      PROVE  /\ vault.balance'.n = 0
             /\ \A x \in trigger : \A w \in Candidates(x.user) :
                  Less(Score(v), Score(w)) => Net(w)'.n = 0
  <2>1. NetOf(positions', v) # NetOf(positions, v)
    BY <1>2, <1>3
  <2>2. /\ vault'.balance.n = 0
        /\ \A x \in trigger : \A w \in Candidates(x.user) :
             Less(Score(v), Score(w)) => NetOf(positions', w).n = 0
    BY <1>1, <1>3, <2>1
  <2> QED  BY <1>2, <2>2
<1>4. LiqInv /\ [LiqNext]_liqVars =>
        [MarketStep => \A v \in Users \ Liquidated : Net(v)' # Net(v) =>
           /\ vault.balance'.n = 0
           /\ \A x \in trigger : \A w \in Candidates(x.user) :
               Less(Score(v), Score(w)) => Net(w)'.n = 0]_liqVars
  BY <1>3
<1> QED  BY <1>4, LiquidationInvariant, PTL DEF LiqSpec, AdlLastAndInOrder

-----------------------------------------------------------------------------
(* A chunk and the health of its account: one integer inequality for each    *)
(* lot, carried over to the equity and to the maintenance margin.            *)

LEMMA LessIs ==
  ASSUME NEW x \in Rational, NEW y \in Rational
  PROVE  Less(y, x) <=> y.n * x.d < x.n * y.d
<1>1. PICK A \in Int, D \in Nat \ {0} : A = x.n /\ D = x.d /\ x = Frac(A, D)
  BY RationalFacts
<1>2. PICK B \in Int, E \in Nat \ {0} : B = y.n /\ E = y.d /\ y = Frac(B, E)
  BY RationalFacts
<1>3. PICK P \in Nat \ {0} : P = E * D /\ P = D * E
  <2>1. E * D > 0 /\ E * D = D * E
    OBVIOUS
  <2> QED  BY <2>1
<1>4. PICK k \in Int, l \in Int : k = E * A /\ l = D * B /\ k = A * E /\ l = B * D
  OBVIOUS
<1>5. Frac(k, P) = x
  <2>1. Frac(E * A, E * D) = Frac(A, D)
    BY FracScaled
  <2> QED  BY <1>1, <1>3, <1>4, <2>1
<1>6. Frac(l, P) = y
  <2>1. Frac(D * B, D * E) = Frac(B, E)
    BY FracScaled
  <2> QED  BY <1>2, <1>3, <1>4, <2>1
<1>7. Less(Frac(l, P), Frac(k, P)) <=> l < k
  BY OverLess
<1> QED  BY <1>1, <1>2, <1>4, <1>5, <1>6, <1>7

(* Integer parts keep the order. *)
LEMMA FloorGrows ==
  ASSUME NEW A \in Nat, NEW D \in Nat \ {0}, NEW B \in Nat, NEW E \in Nat \ {0},
         ~(B * D < A * E)
  PROVE  A \div D <= B \div E
<1>1. PICK w \in Int, a \in 0..(D - 1) : w = A \div D /\ A = D * w + a
  BY DivisionFacts
<1>2. PICK v \in Int, b \in 0..(E - 1) : v = B \div E /\ B = E * v + b
  BY DivisionFacts
<1>3. SUFFICES ASSUME w >= v + 1  PROVE FALSE
  BY <1>1, <1>2
<1>4. PICK k \in Nat : w = v + 1 + k
  <2>1. w - (v + 1) \in Nat
    BY <1>3
  <2> QED  BY <2>1
<1>5. PICK c \in Nat : c = E - b /\ c > 0
  BY <1>2
<1>6. A * E - B * D = k * (D * E) + a * E + c * D
  <2>1. A = D * (v + 1 + k) + a /\ B = E * v + b /\ b = E - c
    BY <1>1, <1>2, <1>4, <1>5
  <2> QED  BY <2>1
<1>7. k * (D * E) >= 0 /\ a * E >= 0 /\ c * D > 0
  <2>1. D * E \in Nat
    OBVIOUS
  <2>2. k * (D * E) \in Nat
    BY <2>1
  <2>3. a * E \in Nat
    OBVIOUS
  <2>4. c * D > 0
    BY <1>5
  <2> QED  BY <2>2, <2>3, <2>4
<1> QED  BY <1>6, <1>7

LEMMA SqrtGrows ==
  ASSUME NEW x \in Rational, x.n >= 0, NEW y \in Rational, y.n >= 0, ~Less(y, x)
  PROVE  Sqrt(x) \in Nat /\ Sqrt(y) \in Nat /\ Sqrt(x) <= Sqrt(y)
<1>1. PICK w \in Nat, r \in Nat : w = x.n \div x.d /\ r = Sqrt(x) /\ r * r <= w
  BY SqrtIs
<1>2. PICK v \in Nat, o \in Nat : v = y.n \div y.d /\ o = Sqrt(y) /\ v < (o + 1) * (o + 1)
  BY SqrtIs
<1>3. PICK A \in Nat, D \in Nat \ {0}, B \in Nat, E \in Nat \ {0} :
        A = x.n /\ D = x.d /\ B = y.n /\ E = y.d /\ ~(B * D < A * E)
  BY RationalFacts, LessIs
<1>4. w <= v
  BY <1>1, <1>2, <1>3, FloorGrows
<1>5. r <= o
  <2>1. SUFFICES ASSUME r >= o + 1  PROVE FALSE
    OBVIOUS
  <2>2. PICK k \in Nat : r = (o + 1) + k
    <3>1. r - (o + 1) \in Nat
      BY <2>1
    <3> QED  BY <3>1
  <2>3. r * r = (o + 1) * (o + 1) + (2 * (k * (o + 1)) + k * k)
    BY <2>2
  <2>4. k * (o + 1) >= 0 /\ k * k >= 0
    OBVIOUS
  <2> QED  BY <1>1, <1>2, <1>4, <2>3, <2>4
<1> QED  BY <1>1, <1>2, <1>5

LEMMA BaseMargin ==
  ASSUME NEW x \in Rational, x.n >= 0, MmfFactor * Sqrt(x) <= BaseMmf
  PROVE  CalcMm(x) = Product(Rate(BaseMmf), x)
<1>1. PICK r \in Nat : r = Sqrt(x)
  BY SqrtFacts
<1>2. PICK y \in Nat : y = MmfFactor * r
  BY MarginConstants
<1>3. ~(y > BaseMmf)
  BY <1>1, <1>2, MarginConstants
<1> QED  BY <1>1, <1>2, <1>3 DEF CalcMm, MarginRate

(* One integer inequality: what the order gains is less than what it costs. *)
LEMMA CostExceedsGain ==
  ASSUME NEW s \in PositionSide, NEW p \in Nat \ {0}, NEW m \in Nat \ {0}, NEW U \in Nat \ {0},
         NEW F \in Int, NEW B \in Nat, B < F, B <= U, Direction(s) * (p - m) <= 0
  PROVE  Direction(s) * ((p - m) * U) + B * m < F * p
<1>1. CASE s = "LONG"
  <2>1. Direction(s) = 1 /\ m - p \in Nat
    BY <1>1 DEF Direction
  <2>2. PICK k \in Nat : m = p + k
    BY <2>1
  <2>3. PICK g \in Nat \ {0}, h \in Nat : g = F - B /\ h = U - B
    <3>1. F - B \in Nat \ {0} /\ U - B \in Nat
      OBVIOUS
    <3> QED  BY <3>1
  <2>4. F * p - ((p - m) * U + B * m) = g * p + h * k
    <3>1. F = B + g /\ U = B + h /\ p - m = -k
      BY <2>2, <2>3
    <3>2. F * p = B * p + g * p /\ B * m = B * p + B * k /\ (p - m) * U = -(B * k) - h * k
      BY <2>2, <3>1
    <3> QED  BY <3>2
  <2>5. g * p > 0 /\ h * k >= 0
    OBVIOUS
  <2>6. Direction(s) * ((p - m) * U) = (p - m) * U
    BY <2>1
  <2> QED  BY <2>4, <2>5, <2>6
<1>2. CASE s = "SHORT"
  <2>1. Direction(s) = -1 /\ p - m \in Nat
    BY <1>2 DEF Direction
  <2>2. PICK k \in Nat : p = m + k
    BY <2>1
  <2>3. PICK g \in Nat \ {0} : F = B + g
    <3>1. F - B \in Nat \ {0}
      OBVIOUS
    <3> QED  BY <3>1
  <2>4. F * p - (B * m - (p - m) * U) = B * k + g * p + k * U
    <3>1. p - m = k /\ F * p = B * p + g * p /\ B * p = B * m + B * k
      BY <2>2, <2>3
    <3> QED  BY <3>1
  <2>5. g * p > 0 /\ B * k >= 0 /\ k * U >= 0
    OBVIOUS
  <2>6. Direction(s) * ((p - m) * U) = -((p - m) * U)
    BY <2>1
  <2> QED  BY <2>4, <2>5, <2>6
<1> QED  BY <1>1, <1>2 DEF PositionSide

(* What a trade at p brings over one at the mark m, and the margin it frees, *)
(* against its fees.                                                        *)
Gain(s, p, m, q) == Minus(Times(Direction(s), Times(p, q)), Times(Direction(s), Times(m, q)))
Cost(p, q) == Plus(Product(Times(p, q), Rate(TakerFee)), Product(Times(p, q), Rate(LiqFee)))
Freed(m, q) == Product(Rate(BaseMmf), Times(m, q))

Rated(D, Q, p, part) ==
    /\ D * FeeUnit \in Nat \ {0}
    /\ Product(Times(p, Frac(Q, D)), Rate(part)) = Frac((p * Q) * part, D * FeeUnit)
    /\ Product(Rate(part), Times(p, Frac(Q, D))) = Frac((p * Q) * part, D * FeeUnit)
    /\ Times(p, Frac(Q, D)) = Frac((p * Q) * FeeUnit, D * FeeUnit)

LEMMA RatesOver ==
  ASSUME NEW D \in Nat \ {0}, NEW Q \in Int, NEW p \in Int, NEW part \in Int
  PROVE  Rated(D, Q, p, part)
<1>1. PICK U \in Nat \ {0} : U = FeeUnit
  BY Constants
<1>2. PICK P \in Int : P = p * Q
  OBVIOUS
<1>3. Times(p, Frac(Q, D)) = Frac(P, D)
  <2>1. Times(p, Frac(Q, D)) = Frac(p * Q, D)
    BY OverTimes
  <2> QED  BY <1>2, <2>1
<1>4. Product(Frac(P, D), Frac(part, U)) = Frac(P * part, D * U) /\ D * U \in Nat \ {0}
  BY OverProduct
<1>5. Product(Frac(part, U), Frac(P, D)) = Product(Frac(P, D), Frac(part, U))
  <2>1. PICK a \in Rational, b \in Rational : a = Frac(P, D) /\ b = Frac(part, U)
    BY FracRational
  <2> QED  BY <2>1, ProductLaws
<1>6. Frac(P * U, D * U) = Frac(P, D)
  <2>1. Frac(U * P, U * D) = Frac(P, D)
    BY FracScaled
  <2>2. U * P = P * U /\ U * D = D * U
    OBVIOUS
  <2> QED  BY <2>1, <2>2
<1> QED  BY <1>1, <1>2, <1>3, <1>4, <1>5, <1>6 DEF Rate, Rated

LEMMA GainBelowCost ==
  ASSUME NEW s \in PositionSide, NEW p \in Nat \ {0}, NEW m \in Nat \ {0},
         NEW q \in Rational, q.n > 0,
         BaseMmf < TakerFee + LiqFee, BaseMmf <= FeeUnit, Direction(s) * (p - m) <= 0
  PROVE  Less(Plus(Gain(s, p, m, q), Freed(m, q)), Cost(p, q))
<1>1. PICK U \in Nat \ {0}, T \in Int, L \in Int, B \in Nat :
        U = FeeUnit /\ T = TakerFee /\ L = LiqFee /\ B = BaseMmf /\ B < T + L /\ B <= U
  BY Constants, LiqConstants, MarginConstants
<1>2. PICK Q \in Nat \ {0}, D \in Nat \ {0} : q = Frac(Q, D)
  <2>1. q.n \in Nat \ {0} /\ q.d \in Nat \ {0} /\ q = Frac(q.n, q.d)
    BY RationalFacts
  <2> QED  BY <2>1
<1>3. PICK E \in Nat \ {0} : E = D * U
  <2>1. D * U > 0
    OBVIOUS
  <2> QED  BY <2>1
<1>4. PICK P \in Int, M \in Int : P = p * Q /\ M = m * Q
  OBVIOUS
<1>5. /\ Product(Times(p, q), Rate(TakerFee)) = Frac(P * T, E)
      /\ Product(Times(p, q), Rate(LiqFee)) = Frac(P * L, E)
      /\ Freed(m, q) = Frac(M * B, E)
      /\ Times(p, q) = Frac(P * U, E) /\ Times(m, q) = Frac(M * U, E)
  <2>1. Q \in Int /\ p \in Int /\ m \in Int /\ B \in Int
    OBVIOUS
  <2>2. Rated(D, Q, p, T)
    BY <2>1, RatesOver
  <2>3. Rated(D, Q, p, L)
    BY <2>1, RatesOver
  <2>4. Rated(D, Q, m, B)
    BY <2>1, RatesOver
  <2> QED  BY <1>1, <1>2, <1>3, <1>4, <2>2, <2>3, <2>4 DEF Freed, Rated
<1>6. PICK a \in Int, b \in Int, c \in Int, f \in Int, g \in Int :
        a = P * T /\ b = P * L /\ c = M * B /\ f = P * U /\ g = M * U
  OBVIOUS
<1>7. Cost(p, q) = Frac(a + b, E)
  <2>1. Plus(Frac(a, E), Frac(b, E)) = Frac(a + b, E)
    BY OverPlus
  <2> QED  BY <1>5, <1>6, <2>1 DEF Cost
<1>8. PICK j \in Int : j = Direction(s)
  BY SideIs
<1>9. PICK h \in Int : h = j * f - j * g /\ Gain(s, p, m, q) = Frac(h, E)
  <2>1. PICK f2 \in Int, g2 \in Int : f2 = j * f /\ g2 = j * g
    OBVIOUS
  <2>2. Times(j, Frac(f, E)) = Frac(j * f, E)
    BY OverTimes
  <2>3. Times(j, Frac(g, E)) = Frac(j * g, E)
    BY OverTimes
  <2>4. Minus(Frac(f2, E), Frac(g2, E)) = Frac(f2 - g2, E)
    BY OverMinus
  <2>5. f2 - g2 \in Int
    OBVIOUS
  <2> QED  BY <1>5, <1>6, <1>8, <2>1, <2>2, <2>3, <2>4, <2>5 DEF Gain
<1>10. Plus(Gain(s, p, m, q), Freed(m, q)) = Frac(h + c, E)
  <2>1. Plus(Frac(h, E), Frac(c, E)) = Frac(h + c, E)
    BY OverPlus
  <2> QED  BY <1>5, <1>6, <1>9, <2>1
<1>11. h + c < a + b
  <2>1. j * ((p - m) * U) + B * m < (T + L) * p
    <3>1. PICK F \in Int : F = T + L
      OBVIOUS
    <3>2. Direction(s) * ((p - m) * U) + B * m < F * p
      BY <1>1, <3>1, CostExceedsGain
    <3> QED  BY <1>8, <3>1, <3>2
  <2>2. PICK l \in Int, r \in Int : l = j * ((p - m) * U) + B * m /\ r = (T + L) * p
    OBVIOUS
  <2>3. PICK k \in Nat \ {0} : r = l + k
    <3>1. r - l \in Nat \ {0}
      BY <2>1, <2>2
    <3> QED  BY <3>1
  <2>4. r * Q = l * Q + k * Q /\ k * Q > 0
    BY <2>3
  <2>5. r * Q = a + b
    BY <1>4, <1>6, <2>2
  <2>6. l * Q = h + c
    <3>1. f - g = ((p - m) * U) * Q
      BY <1>4, <1>6
    <3>2. PICK z \in Int : z = (p - m) * U
      OBVIOUS
    <3>3. j * f - j * g = (j * z) * Q
      <4>1. f = g + z * Q
        BY <3>1, <3>2
      <4> QED  BY <4>1
    <3>4. (B * m) * Q = c
      BY <1>4, <1>6
    <3>5. (j * z + B * m) * Q = (j * z) * Q + (B * m) * Q
      OBVIOUS
    <3> QED  BY <1>9, <2>2, <3>2, <3>3, <3>4, <3>5
  <2> QED  BY <2>4, <2>5, <2>6
<1>12. Less(Frac(h + c, E), Frac(a + b, E)) <=> h + c < a + b
  <2>1. PICK y \in Int, z \in Int : y = h + c /\ z = a + b
    OBVIOUS
  <2> QED  BY <2>1, OverLess
<1> QED  BY <1>7, <1>10, <1>11, <1>12

LEMMA CostIsRational ==
  ASSUME NEW p \in Int, NEW q \in Rational
  PROVE  Cost(p, q) \in Rational
<1>1. PICK v \in Rational : v = Times(p, q)
  BY Closed
<1>2. Rate(TakerFee) \in Rational /\ Rate(LiqFee) \in Rational
  BY Constants, LiqConstants, FracRational DEF Rate
<1>3. PICK y \in Rational, z \in Rational :
        y = Product(v, Rate(TakerFee)) /\ z = Product(v, Rate(LiqFee))
  BY <1>2, Closed
<1> QED  BY <1>1, <1>3, Closed DEF Cost

(* What a closing trade on the side r changes for the holder of a side s. *)
WorthMoves(c, f, n, m, p, q, cost, s, r) ==
    /\ Worth(c, f, n, m) \in Rational /\ Gain(s, p, m, q) \in Rational
    /\ Worth(Minus(c, Times(Direction(r), Times(p, q))), Plus(f, cost),
             Plus(n, Times(Direction(r), q)), m)
         = Minus(Plus(Worth(c, f, n, m), Gain(s, p, m, q)), cost)

LEMMA WorthAfter ==
  ASSUME NEW c \in Rational, NEW f \in Rational, NEW n \in Rational, NEW m \in Int, NEW p \in Int,
         NEW q \in Rational, NEW cost \in Rational,
         NEW s \in PositionSide, NEW r \in PositionSide, r # s
  PROVE  WorthMoves(c, f, n, m, p, q, cost, s, r)
<1>1. PICK dep \in Rational, v \in Rational : dep = Whole(Deposit) /\ v = Times(p, q)
  BY Closed, WholeRational, Constants
<1>2. Shared(c, f, n, q, cost, dep, v, v)
  BY Common
<1>3. PICK D \in Nat \ {0} : HasOver(c, D) /\ HasOver(f, D) /\ HasOver(n, D) /\ HasOver(q, D)
                             /\ HasOver(cost, D) /\ HasOver(dep, D) /\ HasOver(v, D)
  BY <1>2 DEF Shared
<1>4. PICK j \in Int, k \in Int : j = Over(n, D) /\ k = Over(q, D)
  BY <1>3, OverFacts
<1>5. PICK y : y = Times(m, q) /\ HasOver(y, D) /\ Over(y, D) = m * k
  BY <1>3, <1>4, Multiples
<1>6. PICK x : x = Times(m, n) /\ HasOver(x, D) /\ Over(x, D) = m * j
  BY <1>3, <1>4, Multiples
<1>7. PICK dr : dr = Times(Direction(r), q) /\ HasOver(dr, D)
                /\ Over(dr, D) = IF s = "LONG" THEN -k ELSE k
  <2>1. s = "LONG" <=> r # "LONG"
    BY OtherSide
  <2> QED  BY <1>3, <1>4, <2>1, Directed
<1>8. PICK e : e = Plus(n, dr) /\ HasOver(e, D) /\ Over(e, D) = j + Over(dr, D)
  BY <1>3, <1>4, <1>7, Linearly
<1>9. PICK z : z = Times(m, e) /\ HasOver(z, D)
               /\ Over(z, D) = IF s = "LONG" THEN Over(x, D) - Over(y, D)
                                ELSE Over(x, D) + Over(y, D)
  <2>1. HasOver(Times(m, e), D) /\ Over(Times(m, e), D) = m * Over(e, D)
    BY <1>8, Multiples
  <2>2. m * (j + -k) = m * j - m * k /\ m * (j + k) = m * j + m * k
    OBVIOUS
  <2> QED  BY <1>5, <1>6, <1>7, <1>8, <2>1, <2>2
<1>10. PICK vr : vr = Times(Direction(r), v) /\ HasOver(vr, D)
                 /\ Over(vr, D) = IF s = "LONG" THEN -Over(v, D) ELSE Over(v, D)
  <2>1. s = "LONG" <=> r # "LONG"
    BY OtherSide
  <2> QED  BY <1>3, <2>1, Directed
<1>11. PICK g : g = Gain(s, p, m, q) /\ HasOver(g, D)
                /\ Over(g, D) = IF s = "LONG" THEN Over(v, D) - Over(y, D)
                                 ELSE Over(y, D) - Over(v, D)
  <2>1. PICK a : a = Times(Direction(s), v) /\ HasOver(a, D)
                 /\ Over(a, D) = IF s = "LONG" THEN Over(v, D) ELSE -Over(v, D)
    BY <1>3, Directed
  <2>2. PICK b : b = Times(Direction(s), y) /\ HasOver(b, D)
                 /\ Over(b, D) = IF s = "LONG" THEN Over(y, D) ELSE -Over(y, D)
    BY <1>5, Directed
  <2>3. HasOver(Minus(a, b), D) /\ Over(Minus(a, b), D) = Over(a, D) - Over(b, D)
    BY <2>1, <2>2, Linearly
  <2>4. Over(v, D) \in Int /\ Over(y, D) \in Int
    BY <1>3, <1>5, OverFacts
  <2> QED  BY <1>1, <1>5, <2>1, <2>2, <2>3, <2>4 DEF Gain
<1>12. PICK w : w = Plus(Minus(Plus(dep, c), f), x) /\ HasOver(w, D)
               /\ Over(w, D) = Over(dep, D) + Over(c, D) - Over(f, D) + Over(x, D)
  BY <1>3, <1>6, Linearly, OverFacts
<1>13. PICK w2 : w2 = Plus(Minus(Plus(dep, Minus(c, vr)), Plus(f, cost)), z) /\ HasOver(w2, D)
               /\ Over(w2, D) = Over(dep, D) + (Over(c, D) - Over(vr, D))
                                 - (Over(f, D) + Over(cost, D)) + Over(z, D)
  BY <1>3, <1>9, <1>10, Linearly, OverFacts
<1>14. PICK w3 : w3 = Minus(Plus(w, g), cost) /\ HasOver(w3, D)
               /\ Over(w3, D) = Over(w, D) + Over(g, D) - Over(cost, D)
  BY <1>3, <1>11, <1>12, Linearly, OverFacts
<1>15. Over(w2, D) = Over(w3, D)
  <2>1. /\ Over(dep, D) \in Int /\ Over(c, D) \in Int /\ Over(f, D) \in Int
        /\ Over(cost, D) \in Int /\ Over(x, D) \in Int /\ Over(y, D) \in Int
        /\ Over(v, D) \in Int
    BY <1>3, <1>5, <1>6, OverFacts
  <2> QED  BY <1>9, <1>10, <1>11, <1>12, <1>13, <1>14, <2>1
<1>16. w2 = w3
  BY <1>13, <1>14, <1>15, Compared
<1>17. w \in Rational /\ g \in Rational
  BY <1>11, <1>12, OverFacts
<1> QED  BY <1>1, <1>6, <1>7, <1>8, <1>9, <1>10, <1>11, <1>12, <1>13, <1>14, <1>16, <1>17 DEF Worth, WorthMoves

LEMMA ExcessFalls ==
  ASSUME NEW w \in Rational, NEW g \in Rational, NEW cost \in Rational, NEW mm \in Rational,
         NEW f \in Rational, Less(Plus(g, f), cost)
  PROVE  Less(Minus(Minus(Plus(w, g), cost), Minus(mm, f)), Minus(w, mm))
<1>1. Shared(w, g, cost, mm, f, f, f, f)
  BY Common
<1>2. PICK D \in Nat \ {0} : HasOver(w, D) /\ HasOver(g, D) /\ HasOver(cost, D)
                             /\ HasOver(mm, D) /\ HasOver(f, D)
  BY <1>1 DEF Shared
<1>3. HasOver(Plus(g, f), D) /\ Over(Plus(g, f), D) = Over(g, D) + Over(f, D)
  BY <1>2, Linearly
<1>4. Over(g, D) + Over(f, D) < Over(cost, D)
  BY <1>2, <1>3, Compared
<1>5. PICK a : a = Minus(Minus(Plus(w, g), cost), Minus(mm, f)) /\ HasOver(a, D)
          /\ Over(a, D) = Over(w, D) + Over(g, D) - Over(cost, D) - (Over(mm, D) - Over(f, D))
  BY <1>2, Linearly, OverFacts
<1>6. PICK b : b = Minus(w, mm) /\ HasOver(b, D) /\ Over(b, D) = Over(w, D) - Over(mm, D)
  BY <1>2, Linearly, OverFacts
<1>7. /\ Over(w, D) \in Int /\ Over(g, D) \in Int /\ Over(cost, D) \in Int
      /\ Over(mm, D) \in Int /\ Over(f, D) \in Int
  BY <1>2, OverFacts
<1>8. Over(a, D) < Over(b, D)
  BY <1>4, <1>5, <1>6, <1>7
<1> QED  BY <1>5, <1>6, <1>8, Compared

LEMMA RestOf ==
  ASSUME NEW r \in Rational, NEW m \in Int, NEW z \in Rational, NEW q \in Rational
  PROVE  Product(r, Times(m, Minus(z, q))) = Minus(Product(r, Times(m, z)), Product(r, Times(m, q)))
<1>1. PICK w \in Rational, y \in Rational : w = Whole(m) /\ y = Minus(z, q)
  BY WholeRational, Closed
<1>2. PICK a \in Rational, b \in Rational, c \in Rational :
        a = Product(y, w) /\ b = Product(z, w) /\ c = Product(q, w)
  BY Closed
<1>3. a = Minus(b, c)
  BY <1>1, <1>2, ProductLaws
<1>4. Product(Minus(b, c), r) = Minus(Product(b, r), Product(c, r))
  BY ProductLaws
<1>5. Product(b, r) = Product(r, b) /\ Product(c, r) = Product(r, c)
  BY ProductLaws
<1>6. Product(a, r) = Product(r, a)
  BY ProductLaws
<1>7. Times(m, y) = a /\ Times(m, z) = b /\ Times(m, q) = c
  <2>1. Product(w, y) = Product(y, w) /\ Product(w, z) = Product(z, w)
    BY ProductLaws
  <2>2. Product(w, q) = Product(q, w)
    BY ProductLaws
  <2> QED  BY <1>1, <1>2, <2>1, <2>2 DEF Times
<1> QED  BY <1>1, <1>3, <1>4, <1>5, <1>6, <1>7

LEMMA TimesKeeps ==
  ASSUME NEW m \in Nat, NEW a \in Rational, NEW b \in Rational, ~Less(a, b)
  PROVE  ~Less(Times(m, a), Times(m, b))
<1>1. Shared(a, b, b, b, b, b, b, b)
  BY Common
<1>2. PICK D \in Nat \ {0} : HasOver(a, D) /\ HasOver(b, D)
  BY <1>1 DEF Shared
<1>3. PICK i \in Int, j \in Int : i = Over(a, D) /\ j = Over(b, D)
  BY <1>2, OverFacts
<1>4. j <= i
  BY <1>2, <1>3, Compared
<1>5. PICK k \in Nat : i = j + k
  <2>1. i - j \in Nat
    BY <1>4
  <2> QED  BY <2>1
<1>6. PICK x, y : /\ x = Times(m, a) /\ HasOver(x, D) /\ Over(x, D) = m * i
                  /\ y = Times(m, b) /\ HasOver(y, D) /\ Over(y, D) = m * j
  <2>1. m \in Int
    OBVIOUS
  <2>2. HasOver(Times(m, a), D) /\ Over(Times(m, a), D) = m * i
    BY <1>2, <1>3, <2>1, Multiples
  <2>3. HasOver(Times(m, b), D) /\ Over(Times(m, b), D) = m * j
    BY <1>2, <1>3, <2>1, Multiples
  <2> QED  BY <2>2, <2>3
<1>7. m * i = m * j + m * k /\ m * k >= 0 /\ m * j \in Int
  BY <1>5
<1>8. ~(Over(x, D) < Over(y, D))
  BY <1>6, <1>7
<1> QED  BY <1>6, <1>8, Compared

(* The maintenance margin of the liquidated user after a fill, at the base rate. *)
LEMMA MarginFreed ==
  ASSUME LiqInv, NEW x, NEW t, NEW ranking, NEW taken, FilledBy(x, t, ranking, taken),
         OnBaseRate(x.user)
  PROVE  /\ PositionMm(positions, x.user, mark) \in Rational
         /\ PositionMm(positions', x.user, mark) =
              Minus(PositionMm(positions, x.user, mark), Freed(mark, t.qty))
<1>1. PICK u : u = x.user /\ u \in DOMAIN positions /\ OnBaseRate(u)
  BY DEF FilledBy
<1>2. Holding(positions) /\ mark \in Nat /\ mark \in Int
  BY LiqConstants DEF LiqInv, Records, Accounts
<1>3. positions[u] \in Posn
  BY <1>1, <1>2 DEF Holding
<1>4. PICK z \in Rational : z = positions[u].size /\ z.n > 0 /\ z.n >= 0
  <2>1. PICK z \in Rational : z = positions[u].size /\ z.n > 0
    BY <1>3, PosnFacts
  <2>2. z.n >= 0
    BY <2>1, RationalFacts
  <2> QED  BY <2>1, <2>2
<1>5. PICK q \in Rational : q = t.qty /\ q.n > 0 /\ ~Less(z, q)
  BY <1>1, <1>4, FilledFacts DEF FilledBy, TradeFacts
<1>6. PICK r \in Rational : r = Rate(BaseMmf)
  BY Constants, MarginConstants, FracRational DEF Rate
<1>7. PICK a \in Rational : a = Times(mark, z) /\ a.n >= 0
  BY <1>2, <1>4, TimesSign
<1>8. MmfFactor * Sqrt(a) <= BaseMmf
  BY <1>1, <1>4, <1>7 DEF OnBaseRate
<1>9. PICK mm \in Rational : mm = Product(r, a) /\ mm = PositionMm(positions, u, mark)
  <2>1. CalcMm(a) = Product(r, a)
    BY <1>6, <1>7, <1>8, BaseMargin
  <2>2. Product(r, a) \in Rational
    BY Closed
  <2> QED  BY <1>1, <1>4, <1>7, <2>1, <2>2 DEF PositionMm
<1>10. positions' = IF Less(q, z) THEN Put(Deleveraged(taken), u, Reduced(positions[u], q))
                    ELSE Erase(Deleveraged(taken), u)
  BY <1>1, <1>4, <1>5, FilledFacts
<1>11. CASE Less(q, z)
  <2>1. PICK y \in Rational : y = Minus(z, q) /\ y.n > 0 /\ y.n >= 0
    <3>1. Minus(z, q) \in Rational /\ Minus(z, q).n > 0
      BY <1>11, Differences
    <3> QED  BY <3>1, RationalFacts
  <2>2. u \in DOMAIN positions' /\ positions'[u].size = y
    <3>1. Reduced(positions[u], q).size = y
      BY <1>3, <1>4, <2>1 DEF Reduced, Posn
    <3> QED  BY <1>10, <1>11, <3>1 DEF Put
  <2>3. PICK b \in Rational : b = Times(mark, y) /\ b.n >= 0
    BY <1>2, <2>1, TimesSign
  <2>4. ~Less(a, b)
    <3>1. q.n >= 0
      BY <1>5, RationalFacts
    <3>2. ~Less(z, y)
      BY <2>1, <3>1, FewerLeft
    <3> QED  BY <1>2, <1>7, <2>3, <3>2, TimesKeeps
  <2>5. MmfFactor * Sqrt(b) <= BaseMmf
    <3>1. PICK i \in Nat, j \in Nat : i = Sqrt(b) /\ j = Sqrt(a) /\ i <= j
      BY <1>7, <2>3, <2>4, SqrtGrows
    <3>2. PICK f \in Nat : f = MmfFactor
      BY MarginConstants
    <3>3. f * i <= f * j
      BY <3>1
    <3>4. f * i \in Int /\ f * j \in Int /\ BaseMmf \in Int /\ f * j <= BaseMmf
      BY <1>8, <3>1, <3>2, MarginConstants
    <3>5. f * i <= BaseMmf
      BY <3>3, <3>4
    <3> QED  BY <3>1, <3>2, <3>5
  <2>6. CalcMm(b) = Product(r, b)
    BY <1>6, <2>3, <2>5, BaseMargin
  <2>7. PositionMm(positions', u, mark) = Product(r, b)
    BY <2>2, <2>3, <2>6 DEF PositionMm
  <2>8. Product(r, Times(mark, Minus(z, q))) =
          Minus(Product(r, Times(mark, z)), Product(r, Times(mark, q)))
    BY <1>2, RestOf
  <2> QED  BY <1>1, <1>5, <1>6, <1>7, <1>9, <2>1, <2>3, <2>7, <2>8 DEF Freed
<1>12. CASE ~Less(q, z)
  <2>1. z = q
    BY <1>5, <1>12, Differences
  <2>2. u \notin DOMAIN positions'
    BY <1>10, <1>12 DEF Erase, Restrict
  <2>3. PositionMm(positions', u, mark) = Whole(0)
    BY <2>2 DEF PositionMm
  <2>4. Freed(mark, q) = mm
    BY <1>6, <1>7, <1>9, <2>1 DEF Freed
  <2>5. Minus(mm, mm) = Whole(0)
    BY Signed
  <2> QED  BY <1>1, <1>5, <1>9, <2>3, <2>4, <2>5
<1> QED  BY <1>11, <1>12

(* The accounts of the liquidated user after a fill. *)
SettledFor(u, t, side, cost) ==
    /\ cash'[u] = Minus(cash[u], Times(Direction(side), Value(t)))
    /\ fees'[u] = Plus(fees[u], cost)
    /\ traded'[u] = Plus(traded[u], Times(Direction(side), t.qty))

LEMMA Settled ==
  ASSUME NEW u \in Users, fees \in [Users -> Rational], NEW t, TradeFacts(t),
         NEW taken, u \notin DOMAIN taken,
         NEW b \in BOOLEAN, b = (positions[u].side = "SHORT"), SettleFill(u, t, taken)
  PROVE  SettledFor(u, t, TradeSide(b), Plus(Fee(t, b), LiquidationFee(t)))
<1>1. PICK side \in PositionSide : side = TradeSide(b)
  BY SidesOf
<1>2. PICK cost \in Rational : cost = Plus(Fee(t, b), LiquidationFee(t))
  <2>1. Fee(t, b) \in Rational
    BY MoneyOf
  <2>2. LiquidationFee(t) \in Rational
    BY MoneyOf, LiqConstants DEF LiquidationFee
  <2> QED  BY <2>1, <2>2, Closed
<1>3. cash'[u] = Minus(cash[u], Times(Direction(side), Value(t)))
  BY <1>1 DEF SettleFill
<1>4. fees'[u] = Plus(fees[u], cost)
  <2>1. fees' = [fees EXCEPT ![u] = Plus(@, cost)]
    BY <1>1, <1>2 DEF SettleFill
  <2> QED  BY <2>1
<1>5. traded'[u] = Plus(traded[u], Times(Direction(side), t.qty))
  BY <1>1 DEF SettleFill
<1> QED  BY <1>1, <1>2, <1>3, <1>4, <1>5 DEF SettledFor

(* What the liquidated user is worth after a fill. *)
LEMMA FilledWorth ==
  ASSUME LiqInv, NEW x, NEW t, NEW ranking, NEW taken, FilledBy(x, t, ranking, taken)
  PROVE  /\ Worth(cash[x.user], fees[x.user], traded[x.user], mark) \in Rational
         /\ Gain(positions[x.user].side, t.price, mark, t.qty) \in Rational
         /\ Cost(t.price, t.qty) \in Rational
         /\ Worth(cash'[x.user], fees'[x.user], traded'[x.user], mark) =
              Minus(Plus(Worth(cash[x.user], fees[x.user], traded[x.user], mark),
                         Gain(positions[x.user].side, t.price, mark, t.qty)),
                    Cost(t.price, t.qty))
<1>1. PICK u : u = x.user /\ u \in DOMAIN positions /\ SettleFill(u, t, taken)
  BY DEF FilledBy
<1>2. /\ Holding(positions) /\ mark \in Int /\ u \in Users
      /\ fees \in [Users -> Rational] /\ traded \in [Users -> Rational]
      /\ cash \in [Users -> Rational]
  BY <1>1, LiqConstants, FilledFacts DEF LiqInv, Records, Accounts
<1>3. positions[u] \in Posn
  BY <1>1, <1>2 DEF Holding
<1>4. PICK s \in PositionSide, b \in BOOLEAN, r \in PositionSide :
        /\ s = positions[u].side /\ b = (positions[u].side = "SHORT")
        /\ r = TradeSide(b) /\ r # s
  <2>1. PICK s \in PositionSide : s = positions[u].side
    BY <1>3, PosnFacts
  <2>2. PICK b \in BOOLEAN : b = (positions[u].side = "SHORT")
    OBVIOUS
  <2>3. TradeSide(b) \in PositionSide
    BY SidesOf
  <2>4. CASE s = "SHORT"
    BY <2>1, <2>2, <2>3, <2>4 DEF TradeSide
  <2>5. CASE s = "LONG"
    BY <2>1, <2>2, <2>3, <2>5 DEF TradeSide
  <2> QED  BY <2>4, <2>5 DEF PositionSide
<1>5. PICK p \in Int, q \in Rational : p = t.price /\ q = t.qty
  BY DEF FilledBy, TradeFacts
<1>6. PICK cost \in Rational : cost = Cost(p, q)
  BY CostIsRational
<1>7. cost = Plus(Fee(t, b), LiquidationFee(t)) /\ Value(t) = Times(p, q)
  <2>1. Value(t) = Times(p, q)
    BY <1>5 DEF Value
  <2>2. Fee(t, positions[u].side = "SHORT") = Product(Value(t), Rate(TakerFee))
    BY <1>1 DEF FilledBy
  <2> QED  BY <1>4, <1>6, <2>1, <2>2 DEF Cost, LiquidationFee
<1>8. /\ cash'[u] = Minus(cash[u], Times(Direction(r), Value(t)))
      /\ fees'[u] = Plus(fees[u], cost)
      /\ traded'[u] = Plus(traded[u], Times(Direction(r), t.qty))
  <2>1. SettledFor(u, t, TradeSide(b), Plus(Fee(t, b), LiquidationFee(t)))
    <3>1. u \notin DOMAIN taken
      BY <1>1, CandidatesAre DEF FilledBy, TakenFrom
    <3>2. TradeFacts(t)
      BY DEF FilledBy
    <3> QED  BY <1>1, <1>2, <1>4, <3>1, <3>2, Settled
  <2> QED  BY <1>4, <1>7, <2>1 DEF SettledFor
<1>9. PICK c \in Rational, f \in Rational, n \in Rational :
        c = cash[u] /\ f = fees[u] /\ n = traded[u]
  BY <1>2
<1>10. WorthMoves(c, f, n, mark, p, q, cost, s, r)
  <2>1. r # s /\ mark \in Int
    BY <1>2, <1>4
  <2> QED  BY <2>1, WorthAfter
<1> QED  BY <1>1, <1>4, <1>5, <1>6, <1>7, <1>8, <1>9, <1>10 DEF WorthMoves

(* Where the fees of a liquidation trade exceed the base maintenance rate, as *)
(* the source's defaults do, a chunk filled at the mark or worse always takes *)
(* the account further from health while that rate applies.                   *)
THEOREM LiquidationNeverRestores ==
  ASSUME BaseMmf < TakerFee + LiqFee, BaseMmf <= FeeUnit
  PROVE  LiqSpec => FillsNeverRestore
<1>1. LiqInv => EquityLaw
  BY EquityIs DEF EquityLaw, Worth
<1>2. LiqInv' => EquityLaw'
  BY <1>1, PTL
<1>3. ASSUME LiqInv, LiqInv', NEW x \in Filling, NEW price \in Prices, NEW qty,
             Fill(price, qty), OnBaseRate(x.user),
             Direction(positions[x.user].side) * (price - mark) <= 0
      PROVE  Less(Excess(x.user)', Excess(x.user))
  <2>1. PICK y, t, ranking, taken :
          FilledBy(y, t, ranking, taken) /\ t.price = price /\ t.qty = qty
    BY <1>3, FillIs
  <2>2. y = x /\ x.user \in DOMAIN positions /\ mark' = mark /\ TradeFacts(t)
    BY <1>3, <2>1 DEF FilledBy, Filling, LiqInv, Calls
  <2>3. PICK u : u = x.user /\ u \in Users
    BY <1>3, <2>1, <2>2, FilledFacts
  <2>4. mark \in Nat \ {0} /\ mark \in Int /\ price \in Nat \ {0}
    BY <1>3, LiqConstants, Constants DEF LiqInv
  <2>5. PICK w \in Rational, g \in Rational, cost \in Rational, s \in PositionSide :
          /\ s = positions[u].side /\ w = Worth(cash[u], fees[u], traded[u], mark)
          /\ g = Gain(s, price, mark, qty) /\ cost = Cost(price, qty)
          /\ Worth(cash'[u], fees'[u], traded'[u], mark) = Minus(Plus(w, g), cost)
    <3>1. positions[u] \in Posn
      BY <1>3, <2>2, <2>3 DEF LiqInv, Records, Accounts, Holding
    <3>2. PICK s \in PositionSide : s = positions[u].side
      BY <3>1, PosnFacts
    <3>3. FilledBy(x, t, ranking, taken)
      BY <2>1, <2>2
    <3>4. /\ Worth(cash[u], fees[u], traded[u], mark) \in Rational
          /\ Gain(s, price, mark, qty) \in Rational /\ Cost(price, qty) \in Rational
          /\ Worth(cash'[u], fees'[u], traded'[u], mark) =
               Minus(Plus(Worth(cash[u], fees[u], traded[u], mark), Gain(s, price, mark, qty)),
                     Cost(price, qty))
      BY <1>3, <2>1, <2>3, <3>2, <3>3, FilledWorth
    <3> QED  BY <3>2, <3>4
  <2>6. PICK mm \in Rational, f \in Rational :
          /\ mm = PositionMm(positions, u, mark) /\ f = Freed(mark, qty)
          /\ PositionMm(positions', u, mark) = Minus(mm, f)
    <3>1. Freed(mark, qty) \in Rational
      <4>1. PICK v \in Rational : v = Times(mark, qty)
        BY <2>1, <2>2, <2>4, Closed DEF TradeFacts
      <4>2. Rate(BaseMmf) \in Rational
        BY Constants, MarginConstants, FracRational DEF Rate
      <4> QED  BY <4>1, <4>2, Closed DEF Freed
    <3> QED  BY <1>3, <2>1, <2>2, <2>3, <3>1, MarginFreed
  <2>7. Less(Plus(g, f), cost)
    <3>1. qty \in Rational /\ qty.n > 0
      BY <2>1, <2>2 DEF TradeFacts
    <3>2. Direction(s) * (price - mark) <= 0
      BY <1>3, <2>3, <2>5
    <3>3. Less(Plus(Gain(s, price, mark, qty), Freed(mark, qty)), Cost(price, qty))
      BY <2>4, <3>1, <3>2, GainBelowCost
    <3> QED  BY <2>5, <2>6, <3>3
  <2>8. Less(Minus(Minus(Plus(w, g), cost), Minus(mm, f)), Minus(w, mm))
    BY <2>7, ExcessFalls
  <2>9. Equity(u, mark) = w
    BY <1>1, <1>3, <2>3, <2>4, <2>5 DEF EquityLaw
  <2>10. Equity(u, mark)' = Minus(Plus(w, g), cost)
    <3>1. \A m \in Int, v \in Users : Equity(v, m)' = Worth(cash'[v], fees'[v], traded'[v], m)
      BY <1>2, <1>3 DEF EquityLaw
    <3> QED  BY <2>2, <2>3, <2>4, <2>5, <3>1
  <2>11. Excess(u) = Minus(w, mm)
    BY <2>6, <2>9 DEF Excess
  <2>12. Excess(u)' = Minus(Minus(Plus(w, g), cost), Minus(mm, f))
    BY <2>2, <2>6, <2>10 DEF Excess
  <2> QED  BY <2>3, <2>8, <2>11, <2>12
<1>4. LiqInv /\ LiqInv' =>
        [\A x \in Filling : \A price \in Prices, qty \in FillSizes(x.chunk) :
          LET u == x.user
          IN  /\ Fill(price, qty) /\ OnBaseRate(u)
              /\ Direction(positions[u].side) * (price - mark) <= 0
              => Less(Excess(u)', Excess(u))]_liqVars
  BY <1>3
<1> QED  BY <1>4, LiquidationInvariant, PTL DEF LiqSpec, FillsNeverRestore

-----------------------------------------------------------------------------
(* Admission and health: a lot bought no worse than the mark, with its        *)
(* initial margin covered, covers its maintenance margin and its fee.         *)

(* An initial margin that covers the maintenance margin and the fees of both *)
(* parts of a flip.                                                         *)
InitialCovers == TakerFee >= 0 /\ BaseMmf + 2 * TakerFee < BaseImf /\ BaseImf <= FeeUnit

(* A higher rate of a larger value. *)
LEMMA RateGrows ==
  ASSUME NEW k \in Nat, NEW l \in Nat, k <= l, NEW x \in Rational, x.n >= 0, NEW y \in Rational,
         ~Less(y, x)
  PROVE  ~Less(Product(Rate(l), y), Product(Rate(k), x))
<1>1. Shared(x, y, y, y, y, y, y, y)
  BY Common
<1>2. PICK D \in Nat \ {0} : HasOver(x, D) /\ HasOver(y, D)
  BY <1>1 DEF Shared
<1>3. PICK X \in Int, Y \in Int :
        X = Over(x, D) /\ x = Frac(X, D) /\ Y = Over(y, D) /\ y = Frac(Y, D)
  BY <1>2, OverFacts
<1>4. X >= 0
  BY <1>2, <1>3, RationalFacts, Signs
<1>5. X <= Y
  BY <1>2, <1>3, Compared
<1>6. PICK U \in Nat \ {0} : U = FeeUnit
  BY Constants
<1>7. PICK E \in Nat \ {0}, a \in Int, b \in Int : E = U * D /\ a = l * Y /\ b = k * X
  <2>1. U * D \in Nat \ {0}
    OBVIOUS
  <2> QED  BY <2>1
<1>8. Product(Frac(l, U), Frac(Y, D)) = Frac(a, E)
  <2>1. l \in Int
    OBVIOUS
  <2>2. Product(Frac(l, U), Frac(Y, D)) = Frac(l * Y, U * D)
    BY <2>1, OverProduct
  <2> QED  BY <1>7, <2>2
<1>9. Product(Frac(k, U), Frac(X, D)) = Frac(b, E)
  <2>1. k \in Int
    OBVIOUS
  <2>2. Product(Frac(k, U), Frac(X, D)) = Frac(k * X, U * D)
    BY <2>1, OverProduct
  <2> QED  BY <1>7, <2>2
<1>10. b <= a
  <2>1. PICK c \in Nat, d \in Nat : l = k + c /\ Y = X + d
    <3>1. l - k \in Nat /\ Y - X \in Nat
      BY <1>5
    <3> QED  BY <3>1
  <2>2. PICK v \in Nat : v = X
    BY <1>4
  <2>3. (k + c) * (v + d) = k * v + (k * d + c * v + c * d)
    OBVIOUS
  <2>4. k * d >= 0 /\ c * v >= 0 /\ c * d >= 0
    OBVIOUS
  <2> QED  BY <1>7, <2>1, <2>2, <2>3, <2>4
<1>11. Less(Frac(a, E), Frac(b, E)) <=> a < b
  BY OverLess
<1> QED  BY <1>3, <1>6, <1>8, <1>9, <1>10, <1>11 DEF Rate

LEMMA NotLessItself ==
  ASSUME NEW x \in Rational
  PROVE  ~Less(x, x)
BY NotBoth

(* The initial margin is a rate of the notional, never below the base rate. *)
LEMMA ImIs ==
  ASSUME NEW x \in Rational, x.n >= 0
  PROVE  \E k \in Nat : /\ CalcIm(x) = Product(Rate(k), x) /\ BaseImf <= k
                        /\ ImfFactor * Sqrt(x) <= k
                        /\ k = BaseImf \/ k = ImfFactor * Sqrt(x)
<1>1. PICK r \in Nat, f \in Nat : r = Sqrt(x) /\ f = ImfFactor
  BY SqrtFacts, MarginConstants
<1>2. PICK i \in Nat, k \in Nat : i = f * r /\ k = IF i > BaseImf THEN i ELSE BaseImf
  BY MarginConstants
<1>3. CalcIm(x) = Product(Rate(k), x)
  BY <1>1, <1>2 DEF CalcIm, MarginRate
<1> QED  BY <1>1, <1>2, <1>3, MarginConstants

LEMMA ImAtLeast ==
  ASSUME NEW x \in Rational, x.n >= 0
  PROVE  /\ CalcIm(x) \in Rational /\ Product(Rate(BaseImf), x) \in Rational
         /\ ~Less(CalcIm(x), Product(Rate(BaseImf), x))
<1>1. PICK k \in Nat : CalcIm(x) = Product(Rate(k), x) /\ BaseImf <= k
  BY ImIs
<1>2. ~Less(x, x) /\ BaseImf \in Nat
  BY NotLessItself, MarginConstants
<1>3. ~Less(Product(Rate(k), x), Product(Rate(BaseImf), x))
  BY <1>1, <1>2, RateGrows
<1>4. \A l \in Nat : Product(Rate(l), x) \in Rational
  <2>1. \A l \in Nat : Rate(l) \in Rational
    BY Constants, FracRational DEF Rate
  <2> QED  BY <2>1, Closed
<1> QED  BY <1>1, <1>2, <1>3, <1>4

LEMMA ImGrows ==
  ASSUME NEW x \in Rational, x.n >= 0, NEW y \in Rational, y.n >= 0, ~Less(y, x)
  PROVE  ~Less(CalcIm(y), CalcIm(x))
<1>1. PICK k \in Nat : CalcIm(x) = Product(Rate(k), x)
                       /\ (k = BaseImf \/ k = ImfFactor * Sqrt(x))
  BY ImIs
<1>2. PICK l \in Nat : CalcIm(y) = Product(Rate(l), y) /\ BaseImf <= l
                       /\ ImfFactor * Sqrt(y) <= l
  BY ImIs
<1>3. k <= l
  <2>1. PICK r \in Nat, o \in Nat, f \in Nat :
          r = Sqrt(x) /\ o = Sqrt(y) /\ r <= o /\ f = ImfFactor
    BY SqrtGrows, MarginConstants
  <2>2. f * r <= f * o /\ f * r \in Nat /\ f * o \in Nat
    BY <2>1
  <2> QED  BY <1>1, <1>2, <2>1, <2>2
<1> QED  BY <1>1, <1>2, <1>3, RateGrows

(* What is left for less margin held, and less added. *)
LEMMA AvailableKeeps ==
  ASSUME NEW w \in Rational, NEW h \in Rational, NEW a \in Rational, NEW k \in Rational,
         NEW b \in Rational, ~Less(h, k), ~Less(a, b), ~Less(Minus(Minus(w, h), Whole(0)), a)
  PROVE  ~Less(Minus(Minus(w, k), Whole(0)), b)
<1>1. Shared(w, h, a, k, b, b, b, b)
  BY Common
<1>2. PICK D \in Nat \ {0} : HasOver(w, D) /\ HasOver(h, D) /\ HasOver(a, D)
                             /\ HasOver(k, D) /\ HasOver(b, D)
  BY <1>1 DEF Shared
<1>3. HasOver(Whole(0), D) /\ Over(Whole(0), D) = 0
  BY Wholes
<1>4. PICK x : x = Minus(Minus(w, h), Whole(0)) /\ HasOver(x, D)
               /\ Over(x, D) = Over(w, D) - Over(h, D) - 0
  BY <1>2, <1>3, Linearly, OverFacts
<1>5. PICK y : y = Minus(Minus(w, k), Whole(0)) /\ HasOver(y, D)
               /\ Over(y, D) = Over(w, D) - Over(k, D) - 0
  BY <1>2, <1>3, Linearly, OverFacts
<1>6. /\ ~(Over(h, D) < Over(k, D)) /\ ~(Over(a, D) < Over(b, D)) /\ ~(Over(x, D) < Over(a, D))
      /\ Over(w, D) \in Int /\ Over(h, D) \in Int /\ Over(a, D) \in Int
      /\ Over(k, D) \in Int /\ Over(b, D) \in Int
  BY <1>2, <1>4, Compared, OverFacts
<1>7. ~(Over(y, D) < Over(b, D))
  BY <1>4, <1>5, <1>6
<1> QED  BY <1>2, <1>5, <1>7, Compared

(* What covers the margin that a flip adds covers that of the new position. *)
LEMMA FlipNeeds ==
  ASSUME NEW w \in Rational, NEW h \in Rational, NEW c \in Rational, NEW b \in Rational,
         ~Less(c, b), ~Less(Minus(Minus(w, h), Whole(0)), Minus(c, h))
  PROVE  ~Less(w, b)
<1>1. Shared(w, h, c, b, b, b, b, b)
  BY Common
<1>2. PICK D \in Nat \ {0} : HasOver(w, D) /\ HasOver(h, D) /\ HasOver(c, D) /\ HasOver(b, D)
  BY <1>1 DEF Shared
<1>3. HasOver(Whole(0), D) /\ Over(Whole(0), D) = 0
  BY Wholes
<1>4. PICK x : x = Minus(Minus(w, h), Whole(0)) /\ HasOver(x, D)
               /\ Over(x, D) = Over(w, D) - Over(h, D) - 0
  BY <1>2, <1>3, Linearly, OverFacts
<1>5. PICK y : y = Minus(c, h) /\ HasOver(y, D) /\ Over(y, D) = Over(c, D) - Over(h, D)
  BY <1>2, Linearly
<1>6. /\ ~(Over(c, D) < Over(b, D)) /\ ~(Over(x, D) < Over(y, D))
      /\ Over(w, D) \in Int /\ Over(h, D) \in Int /\ Over(c, D) \in Int /\ Over(b, D) \in Int
  BY <1>2, <1>4, <1>5, Compared, OverFacts
<1>7. ~(Over(w, D) < Over(b, D))
  BY <1>4, <1>5, <1>6
<1> QED  BY <1>2, <1>7, Compared

(* A lot is covered by F parts of its price and by what it gains. *)
Lot(r, p, m, U, F, B) ==
    \E k \in Nat, g \in Nat \ {0} :
        /\ k = Direction(r) * (m - p) /\ (p = m + k \/ m = p + k)
        /\ F * p + k * U = B * m + g

LEMMA LotCovered ==
  ASSUME NEW r \in PositionSide, NEW p \in Nat \ {0}, NEW m \in Nat \ {0}, NEW U \in Nat \ {0},
         NEW F \in Int, NEW B \in Nat, B < F, B <= U, Direction(r) * (p - m) <= 0
  PROVE  Lot(r, p, m, U, F, B)
<1>1. PICK j \in {1, -1} : j = Direction(r)
  BY DEF Direction
<1>2. PICK k \in Nat : k = j * (m - p) /\ (p = m + k \/ m = p + k)
  <2>1. CASE j = 1
    <3>1. j * (m - p) = m - p /\ j * (p - m) = p - m
      BY <2>1
    <3> QED  BY <1>1, <3>1
  <2>2. CASE j = -1
    <3>1. j * (m - p) = p - m /\ j * (p - m) = m - p
      BY <2>2
    <3> QED  BY <1>1, <3>1
  <2> QED  BY <2>1, <2>2
<1>3. j * ((p - m) * U) = -(k * U)
  <2>1. CASE j = 1
    <3>1. p - m = -k
      BY <1>2, <2>1
    <3>2. (p - m) * U = -(k * U)
      BY <3>1
    <3> QED  BY <2>1, <3>2
  <2>2. CASE j = -1
    <3>1. p - m = k
      BY <1>2, <2>2
    <3>2. (p - m) * U = k * U
      BY <3>1
    <3> QED  BY <2>2, <3>2
  <2> QED  BY <2>1, <2>2
<1>4. Direction(r) * ((p - m) * U) + B * m < F * p
  BY CostExceedsGain
<1>5. PICK a \in Int, b \in Int, c \in Int : a = k * U /\ b = B * m /\ c = F * p
  OBVIOUS
<1>6. -a + b < c
  BY <1>1, <1>3, <1>4, <1>5
<1>7. c + a - b \in Nat \ {0} /\ c + a = b + (c + a - b)
  BY <1>6
<1> QED  BY <1>1, <1>2, <1>5, <1>7 DEF Lot

LEMMA IncreaseCovered ==
  ASSUME NEW I \in Nat, NEW M \in Nat, NEW T \in Nat, NEW U \in Nat \ {0}, M <= I,
         NEW p \in Nat \ {0}, NEW m \in Nat \ {0}, NEW k \in Nat, NEW g \in Nat \ {0},
         (I - T) * p + k * U = M * m + g,
         NEW X \in Int, NEW Z \in Nat, NEW Q \in Nat \ {0},
         X - (m * Z) * I >= (p * Q) * I
  PROVE  (m * (Z + Q)) * M < X + (k * Q) * U - (p * Q) * T
<1>1. PICK h \in Nat : I = M + h
  <2>1. I - M \in Nat
    OBVIOUS
  <2> QED  BY <2>1
<1>2. (p * Q) * I - (p * Q) * T + (k * Q) * U = (m * Q) * M + g * Q
  <2>1. ((I - T) * p + k * U) * Q = (M * m + g) * Q
    OBVIOUS
  <2>2. ((I - T) * p + k * U) * Q = (p * Q) * I - (p * Q) * T + (k * Q) * U
    OBVIOUS
  <2>3. (M * m + g) * Q = (m * Q) * M + g * Q
    OBVIOUS
  <2> QED  BY <2>1, <2>2, <2>3
<1>3. (m * Z) * I = (m * Z) * M + (m * Z) * h /\ (m * Z) * h >= 0
  <2>1. PICK y \in Nat : y = m * Z
    OBVIOUS
  <2>2. y * I = y * M + y * h /\ y * h >= 0
    BY <1>1
  <2> QED  BY <2>1, <2>2
<1>4. (m * (Z + Q)) * M = (m * Z) * M + (m * Q) * M
  OBVIOUS
<1>5. g * Q > 0
  OBVIOUS
<1> QED  BY <1>2, <1>3, <1>4, <1>5

LEMMA FlipCovered ==
  ASSUME NEW I \in Nat \ {0}, NEW M \in Nat, NEW T \in Nat, NEW U \in Nat \ {0}, T <= U,
         NEW p \in Nat \ {0}, NEW m \in Nat \ {0}, NEW k \in Nat, NEW g \in Nat \ {0},
         p = m + k \/ m = p + k, (I - 2 * T) * p + k * U = M * m + g,
         NEW X \in Int, NEW Z \in Nat, NEW Y \in Nat \ {0},
         p * Y >= m * Z, X >= (p * Y) * I
  PROVE  (m * Y) * M < X + (k * (Y + Z)) * U - (p * (Y + Z)) * T
<1>2. (p * Z) * T <= (p * Y) * T + (k * Z) * U
  <2>1. PICK a \in Nat, b \in Nat, c \in Nat : a = p * Y /\ b = m * Z /\ c = k * Z
    OBVIOUS
  <2>2. PICK e \in Nat : a = b + e
    <3>1. a - b \in Nat
      BY <2>1
    <3> QED  BY <3>1
  <2>3. a * T = b * T + e * T /\ e * T >= 0 /\ b * T \in Int
    BY <2>2
  <2>4. PICK f \in Nat : U = T + f
    <3>1. U - T \in Nat
      OBVIOUS
    <3> QED  BY <3>1
  <2>5. c * U = c * T + c * f /\ c * f >= 0 /\ c * T >= 0
    BY <2>4
  <2>6. p * Z <= b + c
    <3>1. CASE p = m + k
      BY <2>1, <3>1
    <3>2. CASE m = p + k
      <4>1. b = p * Z + c
        BY <2>1, <3>2
      <4> QED  BY <4>1
    <3> QED  BY <3>1, <3>2
  <2>7. (p * Z) * T <= b * T + c * T
    <3>1. PICK x \in Nat, y \in Nat : x = p * Z /\ b + c = x + y
      <4>1. p * Z \in Nat /\ b + c - p * Z \in Nat
        BY <2>6
      <4> QED  BY <4>1
    <3>2. (b + c) * T = x * T + y * T /\ y * T >= 0 /\ (b + c) * T = b * T + c * T
      BY <3>1
    <3> QED  BY <3>1, <3>2
  <2> QED  BY <2>1, <2>3, <2>5, <2>7
<1>3. (p * Y) * I - 2 * ((p * Y) * T) + (k * Y) * U = (m * Y) * M + g * Y
  <2>1. ((I - 2 * T) * p + k * U) * Y = (M * m + g) * Y
    OBVIOUS
  <2>2. ((I - 2 * T) * p + k * U) * Y = (p * Y) * I - 2 * ((p * Y) * T) + (k * Y) * U
    OBVIOUS
  <2>3. (M * m + g) * Y = (m * Y) * M + g * Y
    OBVIOUS
  <2> QED  BY <2>1, <2>2, <2>3
<1>4. /\ (k * (Y + Z)) * U = (k * Y) * U + (k * Z) * U
      /\ (p * (Y + Z)) * T = (p * Y) * T + (p * Z) * T
  OBVIOUS
<1>5. g * Y > 0
  OBVIOUS
<1> QED  BY <1>2, <1>3, <1>4, <1>5

Opposite(r) == IF r = "LONG" THEN "SHORT" ELSE "LONG"

(* The equity w after a trade on the side r, at the mark m. *)
AfterTrade(w, r, p, m, q) ==
    Minus(Plus(w, Gain(Opposite(r), p, m, q)), Product(Times(p, q), Rate(TakerFee)))

(* An equity, lots held and lots traded, in whole numbers. *)
Numerators(w, z, q, D, X, Z, Q) ==
    /\ w = Frac(X, D * FeeUnit) /\ z = Frac(Z, D) /\ q = Frac(Q, D)

LEMMA NumeratorsExist ==
  ASSUME NEW w \in Rational, NEW z \in Rational, NEW q \in Rational
  PROVE  \E D \in Nat \ {0}, X \in Int, Z \in Int, Q \in Int :
           /\ Numerators(w, z, q, D, X, Z, Q)
           /\ (z.n >= 0 => Z >= 0) /\ (q.n > 0 => Q > 0)
<1>1. Shared(w, z, q, q, q, q, q, q)
  BY Common
<1>2. PICK D \in Nat \ {0} : HasOver(w, D) /\ HasOver(z, D) /\ HasOver(q, D)
  BY <1>1 DEF Shared
<1>3. PICK W \in Int, Z \in Int, Q \in Int :
        /\ W = Over(w, D) /\ w = Frac(W, D) /\ Z = Over(z, D) /\ z = Frac(Z, D)
        /\ Q = Over(q, D) /\ q = Frac(Q, D)
  BY <1>2, OverFacts
<1>4. (z.n >= 0 => Z >= 0) /\ (q.n > 0 => Q > 0)
  <2>1. z.n \in Int /\ q.n \in Int
    BY RationalFacts
  <2> QED  BY <1>2, <1>3, <2>1, Signs
<1>5. PICK U \in Nat \ {0} : U = FeeUnit
  BY Constants
<1>6. PICK X \in Int : X = W * U /\ Frac(X, D * U) = w
  <2>1. Frac(U * W, U * D) = Frac(W, D)
    BY FracScaled
  <2>2. U * W = W * U /\ U * D = D * U /\ W * U \in Int
    OBVIOUS
  <2> QED  BY <1>3, <2>1, <2>2
<1> QED  BY <1>3, <1>4, <1>5, <1>6 DEF Numerators

LEMMA AfterOver ==
  ASSUME NEW D \in Nat \ {0}, NEW X \in Int, NEW Q \in Int, NEW r \in PositionSide,
         NEW p \in Int, NEW m \in Int, NEW k \in Int, k = Direction(r) * (m - p)
  PROVE  AfterTrade(Frac(X, D * FeeUnit), r, p, m, Frac(Q, D)) =
           Frac(X + (k * Q) * FeeUnit - (p * Q) * TakerFee, D * FeeUnit)
<1>1. PICK U \in Nat \ {0}, T \in Int : U = FeeUnit /\ T = TakerFee
  BY Constants
<1>2. PICK E \in Nat \ {0} : E = D * U
  <2>1. D * U > 0
    OBVIOUS
  <2> QED  BY <2>1
<1>3. /\ Times(p, Frac(Q, D)) = Frac((p * Q) * U, E)
      /\ Product(Times(p, Frac(Q, D)), Rate(T)) = Frac((p * Q) * T, E)
      /\ Times(m, Frac(Q, D)) = Frac((m * Q) * U, E)
  <2>1. Rated(D, Q, p, T)
    BY RatesOver
  <2>2. Rated(D, Q, m, T)
    BY RatesOver
  <2> QED  BY <1>1, <1>2, <2>1, <2>2 DEF Rated
<1>4. PICK a \in Int, b \in Int, c \in Int, e \in Int :
        a = (p * Q) * U /\ b = (m * Q) * U /\ c = (p * Q) * T /\ e = (k * Q) * U
  OBVIOUS
<1>5. Gain(Opposite(r), p, m, Frac(Q, D)) = Frac(e, E)
  <2>1. PICK s \in PositionSide, j \in Int : s = Opposite(r) /\ j = Direction(s)
                                            /\ j = -Direction(r)
    <3>1. CASE r = "LONG"
      BY <3>1 DEF Opposite, Direction, PositionSide
    <3>2. CASE r = "SHORT"
      BY <3>2 DEF Opposite, Direction, PositionSide
    <3> QED  BY <3>1, <3>2 DEF PositionSide
  <2>2. PICK f \in Int, g \in Int : f = j * a /\ g = j * b
    OBVIOUS
  <2>3. Times(j, Frac(a, E)) = Frac(j * a, E)
    BY OverTimes
  <2>4. Times(j, Frac(b, E)) = Frac(j * b, E)
    BY OverTimes
  <2>5. Minus(Frac(f, E), Frac(g, E)) = Frac(f - g, E)
    BY OverMinus
  <2>6. f - g = e
    <3>1. PICK i \in Int : i = Direction(r)
      BY SideIs
    <3>2. j = -i /\ k = i * (m - p)
      BY <2>1, <3>1
    <3>3. a - b = ((p - m) * Q) * U
      BY <1>4
    <3>4. PICK y \in Int : y = (m - p) * Q
      OBVIOUS
    <3>5. a - b = -(y * U) /\ k * Q = i * y
      <4>1. (p - m) * Q = -y
        BY <3>4
      <4>2. (-y) * U = -(y * U)
        OBVIOUS
      <4>3. (i * (m - p)) * Q = i * ((m - p) * Q)
        OBVIOUS
      <4> QED  BY <3>2, <3>3, <3>4, <4>1, <4>2, <4>3
    <3>6. e = i * (y * U)
      <4>1. (i * y) * U = i * (y * U)
        OBVIOUS
      <4> QED  BY <1>4, <3>5, <4>1
    <3>7. f - g = j * (a - b)
      BY <2>2
    <3>8. PICK x \in Int : x = y * U
      OBVIOUS
    <3>9. (-i) * (-x) = i * x
      OBVIOUS
    <3> QED  BY <3>2, <3>5, <3>6, <3>7, <3>8, <3>9
  <2> QED  BY <1>3, <1>4, <2>1, <2>2, <2>3, <2>4, <2>5, <2>6 DEF Gain
<1>6. Plus(Frac(X, E), Frac(e, E)) = Frac(X + e, E)
  BY OverPlus
<1>7. PICK y \in Int : y = X + e
  OBVIOUS
<1>8. Minus(Frac(y, E), Frac(c, E)) = Frac(y - c, E)
  BY OverMinus
<1> QED  BY <1>1, <1>2, <1>3, <1>4, <1>5, <1>6, <1>7, <1>8 DEF AfterTrade

(* The available balance, without open orders, over one denominator. *)
LEMMA AvailableOver ==
  ASSUME NEW E \in Nat \ {0}, NEW X \in Int, NEW H \in Int
  PROVE  Minus(Minus(Frac(X, E), Frac(H, E)), Whole(0)) = Frac(X - H, E)
<1>1. Minus(Frac(X, E), Frac(H, E)) = Frac(X - H, E)
  BY OverMinus
<1>2. Whole(0) = Frac(0, E)
  <2>1. PICK z \in Int : z = 0
    OBVIOUS
  <2>2. Whole(z) = Frac(z * E, E) /\ z * E = 0
    BY <2>1, OverWhole
  <2> QED  BY <2>1, <2>2
<1>3. PICK y \in Int, z \in Int : y = X - H /\ z = 0
  OBVIOUS
<1>4. Minus(Frac(y, E), Frac(z, E)) = Frac(y - z, E)
  BY OverMinus
<1> QED  BY <1>1, <1>2, <1>3, <1>4

LEMMA IncreaseSurvives ==
  ASSUME InitialCovers, NEW r \in PositionSide, NEW p \in Nat \ {0}, NEW m \in Nat \ {0},
         Direction(r) * (p - m) <= 0,
         NEW w \in Rational, NEW z \in Rational, z.n >= 0, NEW q \in Rational, q.n > 0,
         ~Less(Minus(Minus(w, Product(Rate(BaseImf), Times(m, z))), Whole(0)),
               Product(Rate(BaseImf), Times(p, q)))
  PROVE  Less(Product(Rate(BaseMmf), Times(m, Plus(z, q))), AfterTrade(w, r, p, m, q))
<1>1. PICK I \in Nat, M \in Nat, T \in Nat, U \in Nat \ {0} :
        /\ I = BaseImf /\ M = BaseMmf /\ T = TakerFee /\ U = FeeUnit
        /\ M < I - T /\ M <= U /\ M <= I
  <2>1. BaseImf \in Nat /\ BaseMmf \in Nat /\ TakerFee \in Int /\ FeeUnit \in Nat \ {0}
    BY Constants, MarginConstants
  <2> QED  BY <2>1 DEF InitialCovers
<1>2. p \in Int /\ m \in Int
  OBVIOUS
<1>3. PICK k \in Nat, g \in Nat \ {0} :
        k = Direction(r) * (m - p) /\ (I - T) * p + k * U = M * m + g
  <2>1. PICK F \in Int : F = I - T
    OBVIOUS
  <2>2. M < F /\ M <= U
    BY <1>1, <2>1
  <2>3. Lot(r, p, m, U, F, M)
    BY <2>2, LotCovered
  <2> QED  BY <2>1, <2>3 DEF Lot
<1>4. PICK D \in Nat \ {0}, X \in Int, Z \in Nat, Q \in Nat \ {0} :
        Numerators(w, z, q, D, X, Z, Q)
  <2>1. PICK D \in Nat \ {0}, X \in Int, Z \in Int, Q \in Int :
           /\ Numerators(w, z, q, D, X, Z, Q) /\ Z >= 0 /\ Q > 0
    BY NumeratorsExist
  <2> QED  BY <2>1
<1>5. /\ w = Frac(X, D * FeeUnit) /\ z = Frac(Z, D) /\ q = Frac(Q, D)
      /\ Z \in Int /\ Q \in Int /\ I \in Int /\ M \in Int /\ k \in Int
  BY <1>4 DEF Numerators
<1>6. PICK E \in Nat \ {0} : E = D * U /\ E = D * FeeUnit
  <2>1. D * U > 0
    OBVIOUS
  <2> QED  BY <1>1, <2>1
<1>7. Product(Rate(BaseImf), Times(m, z)) = Frac((m * Z) * I, E)
  <2>1. Rated(D, Z, m, I)
    BY <1>2, <1>5, RatesOver
  <2> QED  BY <1>1, <1>5, <1>6, <2>1 DEF Rated
<1>8. Product(Rate(BaseImf), Times(p, q)) = Frac((p * Q) * I, E)
  <2>1. Rated(D, Q, p, I)
    BY <1>2, <1>5, RatesOver
  <2> QED  BY <1>1, <1>5, <1>6, <2>1 DEF Rated
<1>9. PICK h \in Int, a \in Int : h = (m * Z) * I /\ a = (p * Q) * I
  OBVIOUS
<1>10. X - h >= a
  <2>1. Minus(Minus(w, Frac(h, E)), Whole(0)) = Frac(X - h, E)
    BY <1>5, <1>6, AvailableOver
  <2>2. ~Less(Frac(X - h, E), Frac(a, E))
    BY <1>7, <1>8, <1>9, <2>1
  <2>3. PICK y \in Int : y = X - h
    OBVIOUS
  <2>4. Less(Frac(y, E), Frac(a, E)) <=> y < a
    BY OverLess
  <2> QED  BY <2>2, <2>3, <2>4
<1>11. (m * (Z + Q)) * M < X + (k * Q) * U - (p * Q) * T
  BY <1>1, <1>2, <1>3, <1>9, <1>10, IncreaseCovered
<1>12. Product(Rate(BaseMmf), Times(m, Plus(z, q))) = Frac((m * (Z + Q)) * M, E)
  <2>1. PICK K \in Int : K = Z + Q /\ Plus(z, q) = Frac(K, D)
    <3>1. Plus(Frac(Z, D), Frac(Q, D)) = Frac(Z + Q, D)
      BY <1>5, OverPlus
    <3> QED  BY <1>5, <3>1
  <2>2. Rated(D, K, m, M)
    BY <1>2, <1>5, RatesOver
  <2> QED  BY <1>1, <1>6, <2>1, <2>2 DEF Rated
<1>13. AfterTrade(w, r, p, m, q) = Frac(X + (k * Q) * U - (p * Q) * T, E)
  <2>1. AfterTrade(Frac(X, D * FeeUnit), r, p, m, Frac(Q, D)) =
          Frac(X + (k * Q) * FeeUnit - (p * Q) * TakerFee, D * FeeUnit)
    BY <1>2, <1>3, <1>5, AfterOver
  <2> QED  BY <1>1, <1>5, <1>6, <2>1
<1>14. PICK x \in Int, y \in Int :
         x = (m * (Z + Q)) * M /\ y = X + (k * Q) * U - (p * Q) * T
  OBVIOUS
<1> QED  BY <1>11, <1>12, <1>13, <1>14, OverLess

LEMMA FlipSurvives ==
  ASSUME InitialCovers, NEW r \in PositionSide, NEW p \in Nat \ {0}, NEW m \in Nat \ {0},
         Direction(r) * (p - m) <= 0,
         NEW w \in Rational, NEW z \in Rational, z.n >= 0, NEW q \in Rational, Less(z, q),
         ~Less(Times(p, Minus(q, z)), Times(m, z)),
         ~Less(w, Product(Rate(BaseImf), Times(p, Minus(q, z))))
  PROVE  Less(Product(Rate(BaseMmf), Times(m, Minus(q, z))), AfterTrade(w, r, p, m, q))
<1>1. PICK I \in Nat \ {0}, M \in Nat, T \in Nat, U \in Nat \ {0} :
        /\ I = BaseImf /\ M = BaseMmf /\ T = TakerFee /\ U = FeeUnit
        /\ M < I - 2 * T /\ M <= U /\ T <= U
  <2>1. BaseImf \in Nat /\ BaseMmf \in Nat /\ TakerFee \in Int /\ FeeUnit \in Nat \ {0}
    BY Constants, MarginConstants
  <2> QED  BY <2>1 DEF InitialCovers
<1>2. p \in Int /\ m \in Int
  OBVIOUS
<1>3. PICK k \in Nat, g \in Nat \ {0} :
        /\ k = Direction(r) * (m - p) /\ (p = m + k \/ m = p + k)
        /\ (I - 2 * T) * p + k * U = M * m + g
  <2>1. PICK F \in Int : F = I - 2 * T
    OBVIOUS
  <2>2. M < F /\ M <= U
    BY <1>1, <2>1
  <2>3. Lot(r, p, m, U, F, M)
    BY <2>2, LotCovered
  <2> QED  BY <2>1, <2>3 DEF Lot
<1>4. PICK D \in Nat \ {0}, X \in Int, Z \in Nat, Q \in Int :
        Numerators(w, z, q, D, X, Z, Q)
  <2>1. PICK D \in Nat \ {0}, X \in Int, Z \in Int, Q \in Int :
           Numerators(w, z, q, D, X, Z, Q) /\ Z >= 0
    BY NumeratorsExist
  <2> QED  BY <2>1
<1>5. /\ w = Frac(X, D * FeeUnit) /\ z = Frac(Z, D) /\ q = Frac(Q, D)
      /\ Z \in Int /\ Q \in Int /\ I \in Int /\ M \in Int /\ k \in Int
  BY <1>4 DEF Numerators
<1>6. PICK E \in Nat \ {0} : E = D * U /\ E = D * FeeUnit
  <2>1. D * U > 0
    OBVIOUS
  <2> QED  BY <1>1, <2>1
<1>7. PICK Y \in Nat \ {0} : Y = Q - Z /\ Q = Y + Z /\ Minus(q, z) = Frac(Y, D)
  <2>1. Less(Frac(Z, D), Frac(Q, D)) <=> Z < Q
    BY <1>5, OverLess
  <2>2. Minus(Frac(Q, D), Frac(Z, D)) = Frac(Q - Z, D)
    BY <1>5, OverMinus
  <2>3. Q - Z \in Nat \ {0} /\ Q = (Q - Z) + Z
    BY <1>5, <2>1
  <2> QED  BY <1>5, <2>2, <2>3
<1>8. p * Y >= m * Z
  <2>1. Times(p, Frac(Y, D)) = Frac(p * Y, D)
    <3>1. Y \in Int
      OBVIOUS
    <3> QED  BY <1>2, <3>1, OverTimes
  <2>2. Times(m, Frac(Z, D)) = Frac(m * Z, D)
    BY <1>2, <1>5, OverTimes
  <2>3. PICK a \in Int, b \in Int : a = p * Y /\ b = m * Z
    OBVIOUS
  <2>4. Less(Frac(a, D), Frac(b, D)) <=> a < b
    BY OverLess
  <2> QED  BY <1>5, <1>7, <2>1, <2>2, <2>3, <2>4
<1>9. Product(Rate(BaseImf), Times(p, Minus(q, z))) = Frac((p * Y) * I, E)
  <2>1. Y \in Int
    OBVIOUS
  <2>2. Rated(D, Y, p, I)
    BY <1>2, <1>5, <2>1, RatesOver
  <2> QED  BY <1>1, <1>6, <1>7, <2>2 DEF Rated
<1>10. X >= (p * Y) * I
  <2>1. PICK a \in Int : a = (p * Y) * I
    OBVIOUS
  <2>2. Less(Frac(X, E), Frac(a, E)) <=> X < a
    BY OverLess
  <2> QED  BY <1>5, <1>6, <1>9, <2>1, <2>2
<1>14. (m * Y) * M < X + (k * Q) * U - (p * Q) * T
  <2>1. (m * Y) * M < X + (k * (Y + Z)) * U - (p * (Y + Z)) * T
    BY <1>1, <1>2, <1>3, <1>8, <1>10, FlipCovered
  <2> QED  BY <1>7, <2>1
<1>15. Product(Rate(BaseMmf), Times(m, Minus(q, z))) = Frac((m * Y) * M, E)
  <2>1. Y \in Int
    OBVIOUS
  <2>2. Rated(D, Y, m, M)
    BY <1>2, <1>5, <2>1, RatesOver
  <2> QED  BY <1>1, <1>6, <1>7, <2>2 DEF Rated
<1>16. AfterTrade(w, r, p, m, q) = Frac(X + (k * Q) * U - (p * Q) * T, E)
  <2>1. AfterTrade(Frac(X, D * FeeUnit), r, p, m, Frac(Q, D)) =
          Frac(X + (k * Q) * FeeUnit - (p * Q) * TakerFee, D * FeeUnit)
    BY <1>2, <1>3, <1>5, AfterOver
  <2> QED  BY <1>1, <1>5, <1>6, <2>1
<1>17. PICK x \in Int, y \in Int :
         x = (m * Y) * M /\ y = X + (k * Q) * U - (p * Q) * T
  OBVIOUS
<1> QED  BY <1>14, <1>15, <1>16, <1>17, OverLess

LEMMA NotAbove ==
  ASSUME NEW a \in Rational, NEW b \in Rational
  PROVE  Less(b, a) \/ Minus(a, b).n <= 0
<1>1. Shared(a, b, b, b, b, b, b, b)
  BY Common
<1>2. PICK D \in Nat \ {0} : HasOver(a, D) /\ HasOver(b, D)
  BY <1>1 DEF Shared
<1>3. PICK x \in Rational : x = Minus(a, b) /\ HasOver(x, D) /\ Over(x, D) = Over(a, D) - Over(b, D)
  BY <1>2, Linearly, Differences
<1>4. x.n > 0 <=> Over(x, D) > 0
  BY <1>3, Signs
<1>5. x.n \in Int
  BY RationalFacts
<1>6. Over(a, D) \in Int /\ Over(b, D) \in Int /\ (Less(b, a) <=> Over(b, D) < Over(a, D))
  BY <1>2, OverFacts, Compared
<1> QED  BY <1>3, <1>4, <1>5, <1>6

LEMMA NothingHeld ==
  ASSUME NEW m \in Int, NEW part \in Int
  PROVE  Product(Rate(part), Times(m, Whole(0))) = Whole(0)
<1>1. PICK D \in Nat \ {0}, z \in Int : D = 1 /\ z = 0
  OBVIOUS
<1>2. \A E \in Nat \ {0} : Whole(0) = Frac(z, E)
  <2>1. SUFFICES ASSUME NEW E \in Nat \ {0}  PROVE Whole(0) = Frac(z, E)
    OBVIOUS
  <2>2. Whole(z) = Frac(z * E, E) /\ z * E = 0
    BY <1>1, OverWhole
  <2> QED  BY <1>1, <2>2
<1>3. Rated(D, z, m, part)
  BY RatesOver
<1>4. (m * z) * part = z
  BY <1>1
<1> QED  BY <1>1, <1>2, <1>3, <1>4 DEF Rated

(* What the taker of a trade is worth once it is applied to him. *)
LEMMA TakerWorth ==
  ASSUME LiqInv, NEW u \in Users, NEW t, TradeFacts(t), NEW b \in BOOLEAN,
         b = t.buyer_is_taker, ApplyTrade(u, t, b)
  PROVE  /\ Worth(cash[u], fees[u], traded[u], mark) \in Rational
         /\ Worth(cash'[u], fees'[u], traded'[u], mark) =
              AfterTrade(Worth(cash[u], fees[u], traded[u], mark), TradeSide(b),
                         t.price, mark, t.qty)
<1>1. /\ mark \in Int /\ fees \in [Users -> Rational] /\ traded \in [Users -> Rational]
      /\ cash \in [Users -> Rational]
  BY LiqConstants DEF LiqInv, Records, Accounts
<1>2. PICK r \in PositionSide, s \in PositionSide : r = TradeSide(b) /\ s = Opposite(r) /\ r # s
  <2>1. TradeSide(b) \in PositionSide
    BY SidesOf
  <2> QED  BY <2>1 DEF Opposite, PositionSide
<1>3. PICK p \in Int, q \in Rational : p = t.price /\ q = t.qty
  BY DEF TradeFacts
<1>4. PICK cost \in Rational : cost = Product(Times(p, q), Rate(TakerFee)) /\ cost = Fee(t, b)
  <2>1. Fee(t, b) = Product(Times(p, q), Rate(TakerFee))
    BY <1>3 DEF Fee, Value
  <2>2. Fee(t, b) \in Rational
    BY MoneyOf
  <2> QED  BY <2>1, <2>2
<1>5. /\ cash'[u] = Minus(cash[u], Times(Direction(r), Times(p, q)))
      /\ fees'[u] = Plus(fees[u], cost)
      /\ traded'[u] = Plus(traded[u], Times(Direction(r), q))
  <2>1. /\ cash' = [cash EXCEPT ![u] = Minus(@, Times(Direction(r), Times(p, q)))]
        /\ fees' = [fees EXCEPT ![u] = Plus(@, cost)]
        /\ traded' = [traded EXCEPT ![u] = Plus(@, Times(Direction(r), q))]
    BY <1>2, <1>3, <1>4 DEF ApplyTrade, Booked, Value
  <2> QED  BY <1>1, <2>1
<1>6. PICK c \in Rational, f \in Rational, n \in Rational :
        c = cash[u] /\ f = fees[u] /\ n = traded[u]
  BY <1>1
<1>7. WorthMoves(c, f, n, mark, p, q, cost, s, r)
  BY <1>1, <1>2, WorthAfter
<1> QED  BY <1>2, <1>3, <1>4, <1>5, <1>6, <1>7 DEF WorthMoves, AfterTrade

(* The maintenance margin of the taker of an admitted order, after the trade. *)
LEMMA AdmittedCovers ==
  ASSUME InitialCovers, Holding(positions), mark \in Nat \ {0}, NEW u \in Users,
         NEW t, TradeFacts(t), t.price \in Nat \ {0}, NEW r \in PositionSide,
         Direction(r) * (t.price - mark) <= 0, Equity(u, mark) \in Rational,
         AdditionalIm(u, r, t.qty, t.price, mark).n > 0,
         CheckMargin(u, r, t.qty, t.price, mark, Whole(0)),
         NEW qs, qs = PositionsAfter(positions, u, t, r),
         u \in DOMAIN qs => MmfFactor * Sqrt(Times(mark, qs[u].size)) <= BaseMmf
  PROVE  Less(PositionMm(qs, u, mark), AfterTrade(Equity(u, mark), r, t.price, mark, t.qty))
<1>1. PICK p \in Nat \ {0}, q \in Rational, m \in Nat \ {0}, w \in Rational :
        /\ p = t.price /\ q = t.qty /\ q.n > 0 /\ m = mark /\ w = Equity(u, mark)
  BY DEF TradeFacts
<1>2. PICK added : added = AdditionalIm(u, r, q, p, mark) /\ added.n > 0
  BY <1>1
<1>3. added.n <= 0 \/ ~Less(Minus(Minus(w, PositionIm(positions, u, mark)), Whole(0)), added)
  BY <1>1, <1>2 DEF CheckMargin, AvailableBalance
<1>4. m \in Int /\ p \in Nat /\ m \in Nat /\ q.n >= 0 /\ BaseImf \in Int
  BY <1>1, MarginConstants, RationalFacts
<1>5. \A k \in Nat, x \in Rational : x.n >= 0 => Times(k, x) \in Rational /\ Times(k, x).n >= 0
  BY TimesSign
<1>6. ASSUME added \in Rational
      PROVE  ~Less(Minus(Minus(w, PositionIm(positions, u, mark)), Whole(0)), added)
  <2>1. added.n \in Int
    BY <1>6, RationalFacts
  <2> QED  BY <1>2, <1>3, <2>1
<1>7. PICK a \in Rational, c \in Rational, i \in Rational :
        /\ a = Times(p, q) /\ a.n >= 0 /\ c = CalcIm(a) /\ i = Product(Rate(BaseImf), Times(p, q))
        /\ ~Less(c, i)
  <2>1. PICK a \in Rational : a = Times(p, q) /\ a.n >= 0
    BY <1>1, <1>4, <1>5
  <2>2. CalcIm(a) \in Rational /\ Product(Rate(BaseImf), a) \in Rational
        /\ ~Less(CalcIm(a), Product(Rate(BaseImf), a))
    BY <2>1, ImAtLeast
  <2> QED  BY <2>1, <2>2
<1>8. ASSUME NEW y \in Rational, y.n >= 0, u \in DOMAIN qs, qs[u].size = y
      PROVE  PositionMm(qs, u, mark) = Product(Rate(BaseMmf), Times(m, y))
  <2>1. PICK b \in Rational : b = Times(m, y) /\ b.n >= 0
    BY <1>4, <1>5, <1>8
  <2>2. MmfFactor * Sqrt(b) <= BaseMmf
    BY <1>1, <1>8, <2>1
  <2>3. CalcMm(b) = Product(Rate(BaseMmf), b)
    BY <2>1, <2>2, BaseMargin
  <2> QED  BY <1>1, <1>8, <2>1, <2>3 DEF PositionMm
<1>9. CASE u \notin DOMAIN positions
  <2>1. PICK h \in Rational :
          h = Product(Rate(BaseImf), Times(m, Whole(0))) /\ h = PositionIm(positions, u, mark)
    BY <1>4, <1>9, NothingHeld, WholeField DEF PositionIm
  <2>2. added = c
    BY <1>1, <1>2, <1>7, <1>9 DEF AdditionalIm
  <2>3. ~Less(Minus(Minus(w, h), Whole(0)), c) /\ ~Less(h, h)
    BY <1>6, <2>1, <2>2, NotLessItself
  <2>4. ~Less(Minus(Minus(w, h), Whole(0)), i)
    BY <1>7, <2>3, AvailableKeeps
  <2>5. Whole(0) \in Rational /\ Whole(0).n >= 0
    BY WholeField
  <2>6. Less(Product(Rate(BaseMmf), Times(m, Plus(Whole(0), q))), AfterTrade(w, r, p, m, q))
    BY <1>1, <1>7, <2>1, <2>4, <2>5, IncreaseSurvives
  <2>7. Plus(Whole(0), q) = q
    BY Signed
  <2>8. u \in DOMAIN qs /\ qs[u].size = q
    <3>1. qs = Put(positions, u, Opened(r, q, p))
      BY <1>1, <1>9 DEF PositionsAfter
    <3> QED  BY <3>1 DEF Put, Opened
  <2> QED  BY <1>1, <1>4, <1>8, <2>6, <2>7, <2>8
<1>10. CASE u \in DOMAIN positions
  <2>1. positions[u] \in Posn
    BY <1>10 DEF Holding
  <2>2. PICK z \in Rational, s \in PositionSide :
          z = positions[u].size /\ s = positions[u].side /\ z.n > 0 /\ z.n >= 0
    <3>1. PICK z \in Rational, s \in PositionSide :
            z = positions[u].size /\ s = positions[u].side /\ z.n > 0
      BY <2>1, PosnFacts
    <3>2. z.n >= 0
      BY <3>1, RationalFacts
    <3> QED  BY <3>1, <3>2
  <2>3. PICK d \in Rational, h \in Rational, j \in Rational :
          /\ d = Times(m, z) /\ d.n >= 0 /\ h = CalcIm(d) /\ h = PositionIm(positions, u, mark)
          /\ j = Product(Rate(BaseImf), Times(m, z)) /\ ~Less(h, j)
    <3>1. PICK d \in Rational : d = Times(m, z) /\ d.n >= 0
      BY <1>4, <1>5, <2>2
    <3>2. CalcIm(d) \in Rational /\ Product(Rate(BaseImf), d) \in Rational
          /\ ~Less(CalcIm(d), Product(Rate(BaseImf), d))
      BY <3>1, ImAtLeast
    <3>3. PositionIm(positions, u, mark) = CalcIm(d)
      BY <1>1, <1>10, <2>2, <3>1 DEF PositionIm
    <3> QED  BY <3>1, <3>2, <3>3
  <2>4. CASE s = r
    <3>1. added = c
      BY <1>1, <1>2, <1>7, <1>10, <2>2, <2>4 DEF AdditionalIm
    <3>2. ~Less(Minus(Minus(w, h), Whole(0)), c)
      BY <1>6, <2>3, <3>1
    <3>3. ~Less(Minus(Minus(w, j), Whole(0)), i)
      BY <1>7, <2>3, <3>2, AvailableKeeps
    <3>4. Less(Product(Rate(BaseMmf), Times(m, Plus(z, q))), AfterTrade(w, r, p, m, q))
      BY <1>1, <1>7, <2>2, <2>3, <3>3, IncreaseSurvives
    <3>5. PICK y \in Rational : y = Plus(z, q) /\ y.n > 0 /\ y.n >= 0
      <4>1. Plus(z, q).n > 0 /\ Plus(z, q) \in Rational
        BY <1>1, <2>2, SumAndRest, Closed
      <4> QED  BY <4>1, RationalFacts
    <3>6. u \in DOMAIN qs /\ qs[u].size = y
      <4>1. qs = Put(positions, u, Increased(positions[u], t))
        BY <1>10, <2>2, <2>4 DEF PositionsAfter
      <4>2. Increased(positions[u], t).size = y
        BY <1>1, <2>1, <2>2, <3>5 DEF Increased, Posn
      <4> QED  BY <4>1, <4>2 DEF Put
    <3> QED  BY <1>1, <1>8, <3>4, <3>5, <3>6
  <2>5. CASE s # r
    <3>1. Less(z, q)
      <4>1. SUFFICES ASSUME ~Less(z, q)  PROVE FALSE
        OBVIOUS
      <4>2. added = Whole(0)
        BY <1>1, <1>2, <1>10, <2>2, <2>5, <4>1 DEF AdditionalIm
      <4> QED  BY <1>2, <4>2, WholeField
    <3>2. PICK y \in Rational : y = Minus(q, z) /\ y.n > 0 /\ y.n >= 0
      <4>1. Minus(q, z) \in Rational /\ Minus(q, z).n > 0
        BY <3>1, Differences
      <4> QED  BY <4>1, RationalFacts
    <3>3. PICK e \in Rational, f \in Rational, g \in Rational :
            /\ e = Times(p, y) /\ e.n >= 0 /\ f = CalcIm(e)
            /\ g = Product(Rate(BaseImf), Times(p, y)) /\ ~Less(f, g)
      <4>1. PICK e \in Rational : e = Times(p, y) /\ e.n >= 0
        BY <1>4, <1>5, <3>2
      <4>2. CalcIm(e) \in Rational /\ Product(Rate(BaseImf), e) \in Rational
            /\ ~Less(CalcIm(e), Product(Rate(BaseImf), e))
        BY <4>1, ImAtLeast
      <4> QED  BY <4>1, <4>2
    <3>4. added = Minus(f, h) /\ added \in Rational
      <4>1. PICK x \in Rational : x = Minus(f, h)
        BY Differences
      <4>2. added = Greatest(Whole(0), x)
        BY <1>1, <1>2, <1>10, <2>2, <2>3, <2>5, <3>1, <3>2, <3>3, <4>1 DEF AdditionalIm
      <4>3. Whole(0).n = 0
        BY WholeField
      <4> QED  BY <1>2, <4>1, <4>2, <4>3 DEF Greatest
    <3>5. ~Less(Minus(Minus(w, h), Whole(0)), Minus(f, h))
      BY <1>6, <2>3, <3>4
    <3>6. ~Less(w, g)
      BY <3>3, <3>5, FlipNeeds
    <3>7. ~Less(e, d)
      <4>1. SUFFICES ASSUME Less(e, d)  PROVE FALSE
        OBVIOUS
      <4>2. ~Less(d, e)
        BY <4>1, NotBoth
      <4>3. ~Less(h, f)
        BY <2>3, <3>3, <4>2, ImGrows
      <4>4. Less(h, f) \/ Minus(f, h).n <= 0
        BY NotAbove
      <4> QED  BY <1>2, <3>4, <4>3, <4>4, RationalFacts
    <3>8. Less(Product(Rate(BaseMmf), Times(m, Minus(q, z))), AfterTrade(w, r, p, m, q))
      BY <1>1, <2>2, <2>3, <3>1, <3>2, <3>3, <3>6, <3>7, FlipSurvives
    <3>9. u \in DOMAIN qs /\ qs[u].size = y
      <4>1. ~Less(q, z)
        BY <3>1, NotBoth
      <4>2. qs = Put(positions, u, Opened(r, y, p))
        BY <1>1, <1>10, <2>2, <2>5, <3>1, <3>2, <4>1 DEF PositionsAfter
      <4> QED  BY <4>2 DEF Put, Opened
    <3> QED  BY <1>1, <1>8, <3>2, <3>8, <3>9
  <2> QED  BY <2>4, <2>5
<1> QED  BY <1>9, <1>10

(* The taker's account after an order that needs margin and passed            *)
(* check_margin, filled no worse than the mark, while the maintenance margin  *)
(* of what he then holds is at its base rate.                                 *)
Survives(t) ==
    LET u == TakerOf(t)
        s == TakerSide(t)
    IN  /\ IF t.buyer_is_taker THEN half = {} /\ half' = {t} ELSE half = {t} /\ half' = {}
        /\ AdditionalIm(u, s, t.qty, t.price, mark).n > 0 /\ Admitted(t)
        /\ Direction(s) * (t.price - mark) <= 0
        /\ OnBaseRate(u)'
        => Healthy(u)'

(* Where the initial margin covers the maintenance margin and the fees, as the *)
(* source's defaults do, such an order does not put its user up for            *)
(* liquidation, whether it opens, enlarges or turns round a position.          *)
THEOREM AdmittedStaysHealthy ==
  ASSUME TakerFee >= 0, BaseMmf + 2 * TakerFee < BaseImf, BaseImf <= FeeUnit
  PROVE  LiqSpec => [][\A t \in half \cup half' : Survives(t)]_liqVars
<1>1. LiqInv => EquityLaw
  BY EquityIs DEF EquityLaw, Worth
<1>2. LiqInv' => EquityLaw'
  BY <1>1, PTL
<1>3. ASSUME LiqInv, LiqInv', LiqNext, NEW t \in half \cup half',
             IF t.buyer_is_taker THEN half = {} /\ half' = {t} ELSE half = {t} /\ half' = {},
             AdditionalIm(TakerOf(t), TakerSide(t), t.qty, t.price, mark).n > 0, Admitted(t),
             Direction(TakerSide(t)) * (t.price - mark) <= 0,
             OnBaseRate(TakerOf(t))'
      PROVE  Healthy(TakerOf(t))'
  <2>1. t \in Trade
    BY <1>3 DEF LiqInv, Records
  <2>2. TradeFacts(t) /\ t.price \in Nat \ {0} /\ t.buyer_is_taker \in BOOLEAN
    BY <2>1, TradeIs, Constants DEF Trade
  <2>3. PICK b \in BOOLEAN, u \in Users :
          b = t.buyer_is_taker /\ u = TakerOf(t) /\ TakerSide(t) = TradeSide(b)
    BY <2>1, <2>2, TradeIs DEF TakerOf, TakerSide
  <2>4. half' # half
    BY <1>3
  <2>5. PICK s \in Trade : EngineTrade(s)
    <3>1. ASSUME Liquidate  PROVE half' = half
      <4>1. ASSUME \E x \in Filling : \E price \in Prices, qty \in FillSizes(x.chunk) : Fill(price, qty)
            PROVE  half' = half
        BY <1>3, <4>1, FillIs DEF FilledBy
      <4> QED  BY <3>1, <4>1 DEF Liquidate, Abort, StartChunk, EndChunk, Finish, vars
    <3> QED  BY <1>3, <2>4, <3>1 DEF LiqNext, Tick, Scan, vars
  <2>6. mark' = mark /\ (ApplyToBuyer(s) \/ ApplyToSeller(s))
    BY <2>5 DEF EngineTrade, marketVars
  <2>7. ApplyTrade(u, t, b)
    <3>1. CASE b = TRUE
      <4>1. ApplyToBuyer(s) /\ s = t
        BY <1>3, <2>3, <2>6, <3>1 DEF ApplyToBuyer, ApplyToSeller
      <4> QED  BY <2>3, <3>1, <4>1 DEF ApplyToBuyer, TakerOf
    <3>2. CASE b = FALSE
      <4>1. ApplyToSeller(s) /\ s = t
        BY <1>3, <2>3, <2>6, <3>2 DEF ApplyToBuyer, ApplyToSeller
      <4> QED  BY <2>3, <3>2, <4>1 DEF ApplyToSeller, TakerOf
    <3> QED  BY <3>1, <3>2
  <2>8. mark \in Nat \ {0} /\ mark \in Int /\ Holding(positions)
    BY <1>3, LiqConstants DEF LiqInv, Records, Accounts
  <2>9. PICK r \in PositionSide : r = TradeSide(b) /\ Direction(r) * (t.price - mark) <= 0
    BY <1>3, <2>3, SidesOf
  <2>10. PICK w \in Rational :
           /\ w = Worth(cash[u], fees[u], traded[u], mark) /\ w = Equity(u, mark)
           /\ Worth(cash'[u], fees'[u], traded'[u], mark) = AfterTrade(w, r, t.price, mark, t.qty)
    <3>1. Equity(u, mark) = Worth(cash[u], fees[u], traded[u], mark)
      BY <1>1, <1>3, <2>8 DEF EquityLaw
    <3>2. /\ Worth(cash[u], fees[u], traded[u], mark) \in Rational
          /\ Worth(cash'[u], fees'[u], traded'[u], mark) =
               AfterTrade(Worth(cash[u], fees[u], traded[u], mark), TradeSide(b),
                          t.price, mark, t.qty)
      BY <1>3, <2>2, <2>3, <2>7, TakerWorth
    <3> QED  BY <2>9, <3>1, <3>2
  <2>12. PICK qs : qs = PositionsAfter(positions, u, t, r) /\ qs = positions'
    BY <2>7, <2>9 DEF ApplyTrade
  <2>11. Less(PositionMm(qs, u, mark), AfterTrade(Equity(u, mark), r, t.price, mark, t.qty))
    <3>1. /\ AdditionalIm(u, r, t.qty, t.price, mark).n > 0
          /\ CheckMargin(u, r, t.qty, t.price, mark, Whole(0))
      BY <1>3, <2>3, <2>9 DEF Admitted
    <3>2. Equity(u, mark) \in Rational /\ InitialCovers
      BY <2>10 DEF InitialCovers
    <3>3. u \in DOMAIN qs => MmfFactor * Sqrt(Times(mark, qs[u].size)) <= BaseMmf
      BY <1>3, <2>3, <2>6, <2>12 DEF OnBaseRate
    <3> QED  BY <2>2, <2>8, <2>9, <2>12, <3>1, <3>2, <3>3, AdmittedCovers
  <2>13. Equity(u, mark)' = AfterTrade(w, r, t.price, mark, t.qty)
    <3>1. \A m \in Int, v \in Users : Equity(v, m)' = Worth(cash'[v], fees'[v], traded'[v], m)
      BY <1>2, <1>3 DEF EquityLaw
    <3> QED  BY <2>6, <2>8, <2>10, <3>1
  <2>14. PositionMm(positions, u, mark)' = PositionMm(qs, u, mark)
    BY <2>6, <2>12
  <2>15. Healthy(u)'
    BY <2>10, <2>11, <2>13, <2>14 DEF Healthy
  <2> QED  BY <2>3, <2>15
<1>4. ASSUME LiqInv, LiqInv', [LiqNext]_liqVars, ~UNCHANGED liqVars
      PROVE  \A t \in half \cup half' : Survives(t)
  BY <1>3, <1>4 DEF Survives
<1>5. LiqInv /\ LiqInv' /\ [LiqNext]_liqVars =>
        [\A t \in half \cup half' : Survives(t)]_liqVars
  BY <1>4
<1> QED  BY <1>5, LiquidationInvariant, PTL DEF LiqSpec

(* Where the maintenance margin does not grow, no order that check_margin     *)
(* admitted, filled no worse than the mark, puts its user up for liquidation. *)
THEOREM AdmittedNeverLiquidated ==
  ASSUME MmfFactor = 0, TakerFee >= 0, BaseMmf + 2 * TakerFee < BaseImf, BaseImf <= FeeUnit
  PROVE  LiqSpec => AdmittedSurvives
<1>1. LiqInv => \A u \in Users : OnBaseRate(u)
  <2>1. SUFFICES ASSUME LiqInv, NEW u \in DOMAIN positions
                 PROVE  MmfFactor * Sqrt(Times(mark, positions[u].size)) <= BaseMmf
    BY DEF OnBaseRate
  <2>2. positions[u] \in Posn /\ mark \in Nat
    BY <2>1, LiqConstants DEF LiqInv, Records, Accounts, Holding
  <2>3. PICK z \in Rational : z = positions[u].size /\ z.n >= 0
    <3>1. PICK z \in Rational : z = positions[u].size /\ z.n > 0
      BY <2>2, PosnFacts
    <3> QED  BY <3>1, RationalFacts
  <2>4. PICK r \in Nat : r = Sqrt(Times(mark, z))
    BY <2>2, <2>3, TimesSign, SqrtFacts
  <2> QED  BY <2>3, <2>4, MarginConstants
<1>2. LiqInv' => (\A u \in Users : OnBaseRate(u))'
  BY <1>1, PTL
<1>3. ASSUME LiqInv, LiqInv', NEW t \in half \cup half', Survives(t)
      PROVE  LET u == TakerOf(t)
                 s == TakerSide(t)
             IN  /\ IF t.buyer_is_taker THEN half = {} /\ half' = {t} ELSE half = {t} /\ half' = {}
                 /\ AdditionalIm(u, s, t.qty, t.price, mark).n > 0 /\ Admitted(t)
                 /\ Direction(s) * (t.price - mark) <= 0
                 => Healthy(u)'
  <2>1. t \in Trade
    BY <1>3 DEF LiqInv, Records
  <2>2. TakerOf(t) \in Users
    BY <2>1, TradeIs DEF TakerOf
  <2>3. OnBaseRate(TakerOf(t))'
    BY <1>2, <1>3, <2>2
  <2> QED  BY <1>3, <2>3 DEF Survives
<1>4. LiqInv /\ LiqInv' /\ [\A t \in half \cup half' : Survives(t)]_liqVars =>
      [\A t \in half \cup half' :
        LET u == TakerOf(t)
            s == TakerSide(t)
        IN  /\ IF t.buyer_is_taker THEN half = {} /\ half' = {t} ELSE half = {t} /\ half' = {}
            /\ AdditionalIm(u, s, t.qty, t.price, mark).n > 0 /\ Admitted(t)
            /\ Direction(s) * (t.price - mark) <= 0
            => Healthy(u)']_liqVars
  BY <1>3
<1> QED  BY <1>4, AdmittedStaysHealthy, LiquidationInvariant, PTL DEF AdmittedSurvives
=============================================================================
