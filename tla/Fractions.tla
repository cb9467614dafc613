------------------------------ MODULE Fractions ------------------------------
(***************************************************************************)
(* Prices, averages and profits are C++ `double`s and Python floats.  The  *)
(* specifications idealise them as exact fractions: what they say of the   *)
(* arithmetic is what the formulas of the code compute, and rounding is    *)
(* left out.  A fraction is a record with a positive denominator and is    *)
(* not kept in lowest terms, so two fractions are compared with Same and   *)
(* never with =.                                                           *)
(***************************************************************************)
EXTENDS Integers

Fraction == [num : Int, den : Nat \ {0}]

Whole(n) == [num |-> n, den |-> 1]

Zero == Whole(0)

Plus(a, b) ==
  IF a.den = b.den
    THEN [num |-> a.num + b.num, den |-> a.den]
    ELSE [num |-> a.num * b.den + b.num * a.den, den |-> a.den * b.den]

Negated(a) == [num |-> -a.num, den |-> a.den]

Minus(a, b) == Plus(a, Negated(b))

(* An integer times a fraction. *)
Times(k, a) == [num |-> k * a.num, den |-> a.den]

(* A fraction divided by an integer other than zero. *)
Over(a, k) ==
  IF k > 0
    THEN [num |-> a.num, den |-> a.den * k]
    ELSE [num |-> -a.num, den |-> a.den * (-k)]

Same(a, b) == a.num * b.den = b.num * a.den

AtMost(a, b) == a.num * b.den <= b.num * a.den
=============================================================================
