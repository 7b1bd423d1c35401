------------------------------- MODULE Doubles -------------------------------
(* The double of C and the f64 of Rust: fractions whose numerator has at most  *)
(* Precision bits and whose denominator, or a factor of the numerator, is a    *)
(* power of two. What is read or computed is rounded to the nearest of them.   *)
EXTENDS Integers

CONSTANTS
    Precision,      \* bits of the significand: 53
    MinExponent,    \* of its lowest bit: -1074
    MaxExponent     \* 971

ASSUME DoublesAssumption ==
    /\ Precision \in Nat /\ Precision >= 3
    /\ MinExponent \in Int /\ MinExponent < 0 /\ MaxExponent \in Nat

Two[k \in Nat] == IF k = 0 THEN 1 ELSE 2 * Two[k - 1]

(* Doubles are whole numbers times Above(e), over Below(e).                    *)
Above(e) == IF e < 0 THEN 1 ELSE Two[e]
Below(e) == IF e < 0 THEN Two[-e] ELSE 1

(* n/d is less than Two[Precision] of the units of e.                          *)
Fits(n, d, e) ==
    IF e < 0 THEN n <= (Two[Precision] * d - 1) \div Below(e)
    ELSE n \div (d * Above(e)) < Two[Precision]

Exponent(n, d) ==
    CHOOSE e \in MinExponent..MaxExponent :
        Fits(n, d, e) /\ (e = MinExponent \/ ~Fits(n, d, e - 1))

(* a/b to the nearest integer, to the even one of two.                         *)
RoundedEven(a, b) ==
    LET low == a \div b
        rest == 2 * (a % b)
    IN  IF rest > b \/ (rest = b /\ low % 2 = 1) THEN low + 1 ELSE low

(* The double nearest to n/d, which is not too large for one: <<n', d'>>.      *)
Nearest(n, d) ==
    LET e == Exponent(n, d)
    IN  <<RoundedEven(n * Below(e), d * Above(e)) * Above(e), Below(e)>>

Exceeds(x, y) == x[1] * y[2] > y[1] * x[2]
Floor(x) == x[1] \div x[2]
Times(x, k) == Nearest(x[1] * k, x[2])
PlusHalf(x) == Nearest(2 * x[1] + x[2], 2 * x[2])
=============================================================================
