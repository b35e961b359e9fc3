---- MODULE Fractions ----
(***************************************************************************)
(* Fractions <<numerator, denominator>> in lowest terms with positive      *)
(* denominators: what the program keeps in floating point, unrounded.      *)
(***************************************************************************)
EXTENDS Integers

Gcd[p \in Nat \X Nat] == IF p[2] = 0 THEN p[1] ELSE Gcd[<<p[2], p[1] % p[2]>>]
Size(n) == IF n < 0 THEN -n ELSE n
Fraction(n, d) ==
    LET g == IF d < 0 THEN -Gcd[<<Size(n), Size(d)>>] ELSE Gcd[<<Size(n), Size(d)>>]
    IN  <<IF g < 0 THEN (-n) \div (-g) ELSE n \div g, IF g < 0 THEN (-d) \div (-g) ELSE d \div g>>

Whole(n) == <<n, 1>>
Plus(a, b) == Fraction(a[1] * b[2] + b[1] * a[2], a[2] * b[2])
Minus(a, b) == Fraction(a[1] * b[2] - b[1] * a[2], a[2] * b[2])
Times(n, a) == Fraction(n * a[1], a[2])
Less(a, b) == a[1] * b[2] < b[1] * a[2]
AtMost(a, b) == a[1] * b[2] <= b[1] * a[2]
====
