------------------------------ MODULE Fractions ------------------------------
(* The doubles of the source that hold money, quotients and parts of lots:   *)
(* fractions [n, d] with a positive denominator, in lowest terms.            *)
EXTENDS Integers

Fraction == [n : Int, d : Nat \ {0}]

(* Gcd[b][a] is the greatest common divisor of a and b. *)
Gcd[b \in Nat] == [a \in Nat |-> IF b = 0 THEN a ELSE Gcd[a % b][b]]

Magnitude(n) == IF n < 0 THEN -n ELSE n

Lowest[f \in Fraction] ==
    LET g == Gcd[f.d][Magnitude(f.n)] IN [n |-> f.n \div g, d |-> f.d \div g]

Frac(n, d) == Lowest[[n |-> n, d |-> d]]

Whole(n) == [n |-> n, d |-> 1]

SumOf[p \in Fraction \X Fraction] ==
    LET a == p[1]
        b == p[2]
        g == Gcd[b.d][a.d]
    IN  Frac(a.n * (b.d \div g) + b.n * (a.d \div g), (a.d \div g) * b.d)

ProductOf[p \in Fraction \X Fraction] ==
    LET a == p[1]
        b == p[2]
        x == Frac(a.n, b.d)
        y == Frac(b.n, a.d)
    IN  Frac(x.n * y.n, x.d * y.d)

Plus(a, b) == SumOf[<<a, b>>]

Minus(a, b) == Plus(a, [b EXCEPT !.n = -@])

Product(a, b) == ProductOf[<<a, b>>]

(* a / b, for a positive b. *)
Quotient(a, b) == Product(a, [n |-> b.d, d |-> b.n])

Times(k, a) == Product(Whole(k), a)

Less(a, b) == Minus(a, b).n < 0

Least(a, b) == IF Less(b, a) THEN b ELSE a
Greatest(a, b) == IF Less(a, b) THEN b ELSE a
=============================================================================
