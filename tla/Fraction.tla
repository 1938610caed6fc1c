------------------------------ MODULE Fraction ------------------------------
(***************************************************************************)
(* Exact fractions, for unit costs: a record of a numerator and a positive *)
(* denominator, the least there is, so that equal fractions are equal      *)
(* records.                                                                *)
(***************************************************************************)
EXTENDS Integers

Abs(n) == IF n < 0 THEN -n ELSE n

\* n / d is a multiple of 1 / q.
IsDenominator(q, n, d) == (n * q) % d = 0

LeastDenominator(n, d) ==
    CHOOSE q \in 1 .. d : /\ IsDenominator(q, n, d)
                          /\ \A h \in 1 .. q - 1 : ~IsDenominator(h, n, d)

\* The fraction n / d.
Frac(n, d) ==
    LET sign == IF d < 0 THEN -1 ELSE 1
        q == LeastDenominator(n, Abs(d))
    IN  [num |-> (sign * n * q) \div Abs(d), den |-> q]

Zero == Frac(0, 1)

Plus(a, b) == Frac(a.num * b.den + b.num * a.den, a.den * b.den)
Times(k, a) == Frac(k * a.num, a.den)
Over(a, k) == Frac(a.num, a.den * k)
IsNegative(a) == a.num < 0

(* Rounding to multiples of 1 / scale, halves up. *)
Round(a, scale) == Frac((2 * a.num * scale + a.den) \div (2 * a.den), scale)

=============================================================================
