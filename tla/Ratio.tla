------------------------------- MODULE Ratio -------------------------------
(***************************************************************************)
(* Rational numbers for the scoring arithmetic: <<numerator, denominator>> *)
(* in lowest terms, the denominator positive; None stands for a number    *)
(* that is missing.                                                        *)
(***************************************************************************)
CONSTANT None  \* no number

LOCAL INSTANCE Integers
LOCAL INSTANCE Sequences
LOCAL INSTANCE FiniteSetsExt

LOCAL Gcd[a \in Nat, b \in Nat] == IF b = 0 THEN a ELSE Gcd[b, a % b]

LOCAL Abs(n) == IF n < 0 THEN -n ELSE n

Ratio(n, d) ==
    LET g == Gcd[Abs(n), Abs(d)]
    IN  IF d > 0 THEN <<n \div g, d \div g>> ELSE <<(-n) \div g, (-d) \div g>>

Integer(n) == <<n, 1>>
Zero == Integer(0)
One  == Integer(1)

Plus(x, y)  == Ratio(x[1] * y[2] + y[1] * x[2], x[2] * y[2])
Minus(x, y) == Ratio(x[1] * y[2] - y[1] * x[2], x[2] * y[2])
Times(x, y) == Ratio(x[1] * y[1], x[2] * y[2])
Over(x, y)  == Ratio(x[1] * y[2], x[2] * y[1])

Leq(x, y)  == x[1] * y[2] =< y[1] * x[2]
Less(x, y) == x[1] * y[2] < y[1] * x[2]

Larger(x, y)  == IF Leq(x, y) THEN y ELSE x
Lesser(x, y)  == IF Leq(x, y) THEN x ELSE y
Clamp(x) == Larger(Zero, Lesser(One, x))

\* The sum, or the product, of f over a finite set.
Total(f(_), S) == MapThenFoldSet(Plus, Zero, f, LAMBDA T : CHOOSE t \in T : TRUE, S)
Product(f(_), S) == MapThenFoldSet(Times, One, f, LAMBDA T : CHOOSE t \in T : TRUE, S)
=============================================================================
