--------------------------- MODULE ArithmeticProofs ---------------------------
(***************************************************************************)
(* Lemmas about the arithmetic of the components.  Fractions: the          *)
(* operators stay among the fractions, a weighted average lies between     *)
(* bounds of what it averages, and fractions that share a unit add up like *)
(* whole numbers.  Sums: what a total over a finite set is, and how it     *)
(* changes with one of its parts.  Sequences: what a fold along one is,    *)
(* and how it goes on by an element.  They are proved by induction over    *)
(* finite sets, numbers and sequences, with a set of good arguments in the *)
(* place of a predicate.                                                   *)
(***************************************************************************)
EXTENDS Fractions, Sums, SequencesExt, FiniteSetTheorems, SequenceTheorems,
        WellFoundedInduction, TLAPS

------------------------------------------------------------------------------
(* Fractions *)

(* Products of integers are integers, and of positive numbers positive. *)
LEMMA ProductType ==
  /\ \A a, b \in Int : a * b \in Int
  /\ \A a, b \in Nat \ {0} : a * b \in Nat \ {0}
  BY SMT

LEMMA WholeType == \A n \in Int : Whole(n) \in Fraction
  BY SMT DEF Whole, Fraction

LEMMA ZeroType == Zero \in Fraction
  BY WholeType DEF Zero

(* The sum of two fractions is a fraction. *)
LEMMA PlusType ==
  ASSUME NEW a \in Fraction, NEW b \in Fraction
  PROVE  Plus(a, b) \in Fraction
<1>1. /\ a.num \in Int /\ a.den \in Nat \ {0}
      /\ b.num \in Int /\ b.den \in Nat \ {0}
  BY DEF Fraction
<1>2. a.num * b.den \in Int /\ b.num * a.den \in Int /\ a.den * b.den \in Nat \ {0}
  BY <1>1, ProductType
<1>3. /\ a.num * b.den + b.num * a.den \in Int
      /\ a.num + b.num \in Int
  BY <1>1, <1>2
<1> QED
  BY <1>1, <1>2, <1>3 DEF Plus, Fraction

LEMMA NegatedType ==
  ASSUME NEW a \in Fraction
  PROVE  Negated(a) \in Fraction
  BY SMT DEF Negated, Fraction

LEMMA MinusType ==
  ASSUME NEW a \in Fraction, NEW b \in Fraction
  PROVE  Minus(a, b) \in Fraction
  BY PlusType, NegatedType DEF Minus

LEMMA TimesType ==
  ASSUME NEW k \in Int, NEW a \in Fraction
  PROVE  Times(k, a) \in Fraction
  BY ProductType DEF Times, Fraction

LEMMA OverType ==
  ASSUME NEW a \in Fraction, NEW k \in Int, k # 0
  PROVE  Over(a, k) \in Fraction
<1>1. a.num \in Int /\ a.den \in Nat \ {0} /\ -a.num \in Int
  BY DEF Fraction
<1>2. CASE k > 0
  <2>1. a.den * k \in Nat \ {0}
    BY <1>1, <1>2, ProductType
  <2> QED
    BY <1>1, <1>2, <2>1 DEF Over, Fraction
<1>3. CASE ~(k > 0)
  <2>1. -k \in Nat \ {0}
    BY <1>3
  <2>2. a.den * (-k) \in Nat \ {0}
    BY <1>1, <2>1, ProductType
  <2> QED
    BY <1>1, <1>3, <2>2 DEF Over, Fraction
<1> QED
  BY <1>2, <1>3

(* Multiplying by a natural number keeps an inequality. *)
LEMMA ProductMonotone ==
  ASSUME NEW a \in Int, NEW b \in Int, NEW k \in Nat, a <= b
  PROVE  k * a <= k * b
  BY SMT

(* A sum of m parts at least l and n parts at least l is at least m + n    *)
(* times l; here the first part is given with the denominator d.           *)
LEMMA AverageAbove ==
  ASSUME NEW m \in Nat, NEW n \in Nat, NEW x \in Int, NEW p \in Int,
         NEW d \in Nat, NEW l \in Int, l * d <= x, l <= p
  PROVE  l * (d * (m + n)) <= m * x + (n * p) * d
<1>1. m * (l * d) <= m * x
  BY ProductMonotone, ProductType
<1>2. n * (d * l) <= n * (d * p)
  <2>1. d * l <= d * p
    BY ProductMonotone
  <2> QED
    BY <2>1, ProductMonotone, ProductType
<1>3. l * (d * (m + n)) = m * (l * d) + n * (d * l)
  BY SMT
<1>4. n * (d * p) = (n * p) * d
  BY SMT
<1> QED
  BY <1>1, <1>2, <1>3, <1>4, ProductType

LEMMA AverageBelow ==
  ASSUME NEW m \in Nat, NEW n \in Nat, NEW x \in Int, NEW p \in Int,
         NEW d \in Nat, NEW h \in Int, x <= h * d, p <= h
  PROVE  m * x + (n * p) * d <= h * (d * (m + n))
<1>1. m * x <= m * (h * d)
  BY ProductMonotone, ProductType
<1>2. n * (d * p) <= n * (d * h)
  <2>1. d * p <= d * h
    BY ProductMonotone
  <2> QED
    BY <2>1, ProductMonotone, ProductType
<1>3. h * (d * (m + n)) = m * (h * d) + n * (d * h)
  BY SMT
<1>4. n * (d * p) = (n * p) * d
  BY SMT
<1> QED
  BY <1>1, <1>2, <1>3, <1>4, ProductType

------------------------------------------------------------------------------
(* Fractions in common units: a is x parts of a whole split into d.  Sums  *)
(* and products of fractions are those of their parts, so that an equation *)
(* between fractions becomes one between integers.                         *)
InUnits(a, d, x) == a.num * d = x * a.den

LEMMA Cancel ==
  ASSUME NEW m \in Int, NEW n \in Int, NEW k \in Nat \ {0}, m * k = n * k
  PROVE  m = n
  BY SMT

LEMMA UnitsExist ==
  ASSUME NEW a \in Fraction, NEW k \in Nat \ {0}
  PROVE  /\ a.den * k \in Nat \ {0} /\ a.num * k \in Int
         /\ InUnits(a, a.den * k, a.num * k)
<1>1. a.num \in Int /\ a.den \in Nat \ {0}
  BY DEF Fraction
<1>2. a.den * k \in Nat \ {0} /\ a.num * k \in Int
  BY <1>1, ProductType
<1>3. a.num * (a.den * k) = (a.num * k) * a.den
  BY <1>1, SMT
<1> QED
  BY <1>2, <1>3 DEF InUnits

(* A finer split has more parts. *)
LEMMA UnitsRefine ==
  ASSUME NEW a \in Fraction, NEW d \in Nat \ {0}, NEW x \in Int,
         NEW k \in Nat \ {0}, InUnits(a, d, x)
  PROVE  InUnits(a, d * k, x * k)
<1>1. a.num \in Int /\ a.den \in Nat \ {0} /\ a.num * d = x * a.den
  BY DEF Fraction, InUnits
<1>2. a.num * (d * k) = (a.num * d) * k /\ (x * k) * a.den = (x * a.den) * k
  BY <1>1, SMT
<1> QED
  BY <1>1, <1>2 DEF InUnits

LEMMA UnitsWhole ==
  ASSUME NEW n \in Int, NEW d \in Nat \ {0}
  PROVE  InUnits(Whole(n), d, n * d)
<1>1. n * d \in Int
  BY ProductType
<1> QED
  BY <1>1 DEF InUnits, Whole

LEMMA UnitsPlus ==
  ASSUME NEW a \in Fraction, NEW b \in Fraction, NEW d \in Nat \ {0},
         NEW x \in Int, NEW y \in Int, InUnits(a, d, x), InUnits(b, d, y)
  PROVE  InUnits(Plus(a, b), d, x + y)
<1> DEFINE m == a.num
           p == a.den
           n == b.num
           q == b.den
<1>1. /\ m \in Int /\ p \in Nat \ {0} /\ n \in Int /\ q \in Nat \ {0}
      /\ m * d = x * p /\ n * d = y * q
  BY DEF Fraction, InUnits
<1>2. Plus(a, b) = IF p = q THEN [num |-> m + n, den |-> p]
                   ELSE [num |-> m * q + n * p, den |-> p * q]
  BY DEF Plus
<1> HIDE DEF m, n, p, q
<1>3. (m * q + n * p) * d = (x + y) * (p * q)
  <2>1. (m * q + n * p) * d = (m * d) * q + (n * d) * p
    BY <1>1, SMT
  <2>2. (x + y) * (p * q) = (x * p) * q + (y * q) * p
    BY <1>1, SMT
  <2> QED
    BY <1>1, <2>1, <2>2
<1>4. p = q => (m + n) * d = (x + y) * p
  BY <1>1, SMT
<1> QED
  BY <1>2, <1>3, <1>4 DEF InUnits

LEMMA UnitsNegated ==
  ASSUME NEW a \in Fraction, NEW d \in Nat \ {0}, NEW x \in Int, InUnits(a, d, x)
  PROVE  InUnits(Negated(a), d, -x)
<1>1. a.num \in Int /\ a.den \in Nat \ {0} /\ a.num * d = x * a.den
  BY DEF Fraction, InUnits
<1>2. (-a.num) * d = -(a.num * d) /\ (-x) * a.den = -(x * a.den)
  BY <1>1, SMT
<1> QED
  BY <1>1, <1>2 DEF InUnits, Negated

LEMMA UnitsMinus ==
  ASSUME NEW a \in Fraction, NEW b \in Fraction, NEW d \in Nat \ {0},
         NEW x \in Int, NEW y \in Int, InUnits(a, d, x), InUnits(b, d, y)
  PROVE  InUnits(Minus(a, b), d, x - y)
<1>1. Negated(b) \in Fraction /\ InUnits(Negated(b), d, -y) /\ -y \in Int
  BY NegatedType, UnitsNegated
<1>2. InUnits(Plus(a, Negated(b)), d, x + (-y))
  BY <1>1, UnitsPlus
<1>3. x + (-y) = x - y
  OBVIOUS
<1> QED
  BY <1>2, <1>3 DEF Minus

LEMMA UnitsTimes ==
  ASSUME NEW a \in Fraction, NEW d \in Nat \ {0}, NEW x \in Int, InUnits(a, d, x),
         NEW k \in Int
  PROVE  InUnits(Times(k, a), d, k * x)
<1>1. a.num \in Int /\ a.den \in Nat \ {0} /\ a.num * d = x * a.den
  BY DEF Fraction, InUnits
<1>2. (k * a.num) * d = k * (a.num * d) /\ (k * x) * a.den = k * (x * a.den)
  BY <1>1, SMT
<1> QED
  BY <1>1, <1>2 DEF InUnits, Times

(* A fraction has k times the parts of what it is when divided by k. *)
LEMMA UnitsOver ==
  ASSUME NEW a \in Fraction, NEW d \in Nat \ {0}, NEW k \in Int, k # 0,
         NEW x \in Int, NEW y \in Int, InUnits(a, d, x), InUnits(Over(a, k), d, y)
  PROVE  x = k * y
<1> DEFINE m == a.num
           p == a.den
<1>1. m \in Int /\ p \in Nat \ {0} /\ m * d = x * p
  BY DEF Fraction, InUnits
<1>2. Over(a, k) = IF k > 0 THEN [num |-> m, den |-> p * k]
                   ELSE [num |-> -m, den |-> p * (-k)]
  BY DEF Over
<1> HIDE DEF m, p
<1>3. /\ y * (p * k) = (k * y) * p /\ y * (p * (-k)) = -((k * y) * p)
      /\ (-m) * d = -(m * d) /\ k * y \in Int
      /\ x * p \in Int /\ (k * y) * p \in Int
  BY <1>1, SMT
<1>4. CASE k > 0
  <2>1. m * d = y * (p * k)
    BY <1>2, <1>4 DEF InUnits
  <2> QED
    BY <1>1, <1>3, <2>1, Cancel
<1>5. CASE ~(k > 0)
  <2>1. (-m) * d = y * (p * (-k))
    BY <1>2, <1>5 DEF InUnits
  <2>2. x * p = (k * y) * p
    BY <1>1, <1>3, <2>1
  <2> QED
    BY <1>1, <1>3, <2>2, Cancel
<1> QED
  BY <1>4, <1>5

LEMMA UnitsSame ==
  ASSUME NEW a \in Fraction, NEW b \in Fraction, NEW d \in Nat \ {0},
         NEW x \in Int, NEW y \in Int, InUnits(a, d, x), InUnits(b, d, y)
  PROVE  Same(a, b) <=> x = y
<1> DEFINE m == a.num
           p == a.den
           n == b.num
           q == b.den
<1>1. /\ m \in Int /\ p \in Nat \ {0} /\ n \in Int /\ q \in Nat \ {0}
      /\ m * d = x * p /\ n * d = y * q
      /\ Same(a, b) <=> m * q = n * p
  BY DEF Fraction, InUnits, Same
<1> HIDE DEF m, n, p, q
<1>2. /\ m * q \in Int /\ n * p \in Int /\ p * q \in Nat \ {0}
  BY <1>1, ProductType
<1>3. /\ (m * q) * d = (m * d) * q
      /\ (n * p) * d = (n * d) * p
      /\ (x * p) * q = x * (p * q)
      /\ (y * q) * p = y * (p * q)
  BY <1>1, SMT
<1>4. (m * q) * d = x * (p * q) /\ (n * p) * d = y * (p * q)
  BY <1>1, <1>3
<1>5. ASSUME m * q = n * p PROVE x = y
  BY <1>2, <1>4, <1>5, Cancel
<1>6. ASSUME x = y PROVE m * q = n * p
  BY <1>2, <1>4, <1>6, Cancel
<1> QED
  BY <1>1, <1>5, <1>6

(* Common units for two fractions. *)
LEMMA CommonUnits ==
  ASSUME NEW a \in Fraction, NEW b \in Fraction
  PROVE  \E d \in Nat \ {0} : \E x, y \in Int : InUnits(a, d, x) /\ InUnits(b, d, y)
<1>1. a.den \in Nat \ {0} /\ b.den \in Nat \ {0}
  BY DEF Fraction
<1>2. /\ a.den * b.den \in Nat \ {0} /\ a.num * b.den \in Int
      /\ InUnits(a, a.den * b.den, a.num * b.den)
  BY <1>1, UnitsExist
<1>3. b.num * a.den \in Int /\ InUnits(b, b.den * a.den, b.num * a.den)
  BY <1>1, UnitsExist
<1>4. b.den * a.den = a.den * b.den
  BY <1>1, SMT
<1> QED
  BY <1>2, <1>3, <1>4

LEMMA FourCommonUnits ==
  ASSUME NEW a \in Fraction, NEW b \in Fraction, NEW c \in Fraction, NEW e \in Fraction
  PROVE  \E d \in Nat \ {0} : \E x, y, z, w \in Int :
           /\ InUnits(a, d, x) /\ InUnits(b, d, y)
           /\ InUnits(c, d, z) /\ InUnits(e, d, w)
<1>1. PICK d1 \in Nat \ {0}, u1 \in Int, v1 \in Int : InUnits(a, d1, u1) /\ InUnits(b, d1, v1)
  BY CommonUnits
<1>2. PICK d2 \in Nat \ {0}, u2 \in Int, v2 \in Int : InUnits(c, d2, u2) /\ InUnits(e, d2, v2)
  BY CommonUnits
<1>3. /\ d1 * d2 \in Nat \ {0} /\ d1 * d2 = d2 * d1
      /\ u1 * d2 \in Int /\ v1 * d2 \in Int /\ u2 * d1 \in Int /\ v2 * d1 \in Int
  BY ProductType, SMT
<1>4. /\ InUnits(a, d1 * d2, u1 * d2) /\ InUnits(b, d1 * d2, v1 * d2)
      /\ InUnits(c, d2 * d1, u2 * d1) /\ InUnits(e, d2 * d1, v2 * d1)
  BY <1>1, <1>2, UnitsRefine
<1> QED
  BY <1>3, <1>4

LEMMA SameTrans ==
  ASSUME NEW a \in Fraction, NEW b \in Fraction, NEW c \in Fraction,
         Same(a, b), Same(b, c)
  PROVE  Same(a, c)
<1>1. PICK d \in Nat \ {0}, x \in Int, y \in Int, z \in Int :
        InUnits(a, d, x) /\ InUnits(b, d, y) /\ InUnits(c, d, z)
  BY FourCommonUnits
<1>2. x = y /\ y = z
  BY <1>1, UnitsSame
<1> QED
  BY <1>1, <1>2, UnitsSame

(* Fractions that are the same are worth the same in sums. *)
LEMMA UnitsOfSame ==
  ASSUME NEW a \in Fraction, NEW b \in Fraction, Same(a, b),
         NEW d \in Nat \ {0}, NEW x \in Int, InUnits(a, d, x)
  PROVE  InUnits(b, d, x)
<1> DEFINE m == a.num
           p == a.den
           n == b.num
           t == b.den
<1>1. /\ m \in Int /\ p \in Nat \ {0} /\ n \in Int /\ t \in Nat \ {0}
      /\ m * d = x * p /\ m * t = n * p
  BY DEF Fraction, InUnits, Same
<1> HIDE DEF m, p, n, t
<1>2. /\ (n * d) * p = (n * p) * d
      /\ (m * t) * d = (m * d) * t
      /\ (x * p) * t = (x * t) * p
      /\ n * d \in Int /\ x * t \in Int
  BY <1>1, SMT
<1>3. (n * d) * p = (x * t) * p
  BY <1>1, <1>2
<1>4. n * d = x * t
  BY <1>1, <1>2, <1>3, Cancel
<1> QED
  BY <1>4 DEF InUnits, n, t

LEMMA SamePlusZero ==
  ASSUME NEW a \in Fraction
  PROVE  Same(a, Plus(a, Zero))
<1>1. a.num \in Int /\ a.den \in Nat \ {0}
  BY DEF Fraction
<1>2. InUnits(a, a.den, a.num) /\ InUnits(Zero, a.den, 0)
  BY <1>1 DEF InUnits, Zero, Whole
<1>3. InUnits(Plus(a, Zero), a.den, a.num + 0) /\ a.num + 0 = a.num
  BY <1>1, <1>2, ZeroType, UnitsPlus
<1> QED
  BY <1>1, <1>2, <1>3, ZeroType, PlusType, UnitsSame

LEMMA SameZeroPlus ==
  ASSUME NEW a \in Fraction
  PROVE  Same(Plus(Zero, a), a)
<1>1. a.num \in Int /\ a.den \in Nat \ {0}
  BY DEF Fraction
<1>2. InUnits(a, a.den, a.num) /\ InUnits(Zero, a.den, 0)
  BY <1>1 DEF InUnits, Zero, Whole
<1>3. InUnits(Plus(Zero, a), a.den, 0 + a.num) /\ 0 + a.num = a.num
  BY <1>1, <1>2, ZeroType, UnitsPlus
<1> QED
  BY <1>1, <1>2, <1>3, ZeroType, PlusType, UnitsSame

(* Sums regrouped. *)
LEMMA PlusRegroups ==
  ASSUME NEW a \in Fraction, NEW b \in Fraction, NEW c \in Fraction, NEW e \in Fraction,
         Same(a, Plus(b, c))
  PROVE  Same(Plus(a, e), Plus(b, Plus(c, e)))
<1>1. PICK d \in Nat \ {0}, x \in Int, y \in Int, z \in Int, w \in Int :
        InUnits(a, d, x) /\ InUnits(b, d, y) /\ InUnits(c, d, z) /\ InUnits(e, d, w)
  BY FourCommonUnits
<1>2. /\ Plus(b, c) \in Fraction /\ Plus(c, e) \in Fraction /\ Plus(a, e) \in Fraction
      /\ y + z \in Int /\ z + w \in Int /\ x + w \in Int /\ y + (z + w) \in Int
  BY PlusType
<1>3. Plus(b, Plus(c, e)) \in Fraction
  BY <1>2, PlusType
<1>4. /\ InUnits(Plus(b, c), d, y + z) /\ InUnits(Plus(a, e), d, x + w)
      /\ InUnits(Plus(c, e), d, z + w)
  BY <1>1, UnitsPlus
<1>5. InUnits(Plus(b, Plus(c, e)), d, y + (z + w))
  BY <1>1, <1>2, <1>4, UnitsPlus
<1>6. x = y + z
  BY <1>1, <1>2, <1>4, UnitsSame
<1>7. x + w = y + (z + w)
  BY <1>6
<1> QED
  BY <1>2, <1>3, <1>4, <1>5, <1>7, UnitsSame

LEMMA SwappedSum ==
  ASSUME NEW a \in Fraction, NEW b \in Fraction, NEW c \in Fraction, NEW e \in Fraction,
         Same(a, Plus(Plus(Zero, e), b)), Same(b, c)
  PROVE  Same(a, Plus(c, e))
<1>1. PICK d \in Nat \ {0}, x \in Int, y \in Int, z \in Int, w \in Int :
        InUnits(a, d, x) /\ InUnits(b, d, y) /\ InUnits(c, d, z) /\ InUnits(e, d, w)
  BY FourCommonUnits
<1>2. InUnits(Zero, d, 0)
  BY DEF InUnits, Zero, Whole
<1>3. /\ Zero \in Fraction /\ Plus(Zero, e) \in Fraction /\ Plus(c, e) \in Fraction
      /\ Plus(Plus(Zero, e), b) \in Fraction
      /\ 0 + w \in Int /\ (0 + w) + y \in Int /\ z + w \in Int
  BY ZeroType, PlusType
<1>4. InUnits(Plus(Zero, e), d, 0 + w) /\ InUnits(Plus(c, e), d, z + w)
  BY <1>1, <1>2, <1>3, UnitsPlus
<1>5. InUnits(Plus(Plus(Zero, e), b), d, (0 + w) + y)
  BY <1>1, <1>3, <1>4, UnitsPlus
<1>6. x = (0 + w) + y /\ y = z
  BY <1>1, <1>3, <1>5, UnitsSame
<1>7. x = z + w
  BY <1>6
<1> QED
  BY <1>1, <1>3, <1>4, <1>7, UnitsSame

------------------------------------------------------------------------------
(* Induction over the natural numbers and over finite sets *)

(* A set of numbers that holds 0 and the successor of each of its members. *)
LEMMA CountingUp ==
  ASSUME NEW Good, 0 \in Good, \A n \in Nat : n \in Good => n + 1 \in Good
  PROVE  Nat \subseteq Good
<1> DEFINE Bad == Nat \ Good
           R == OpToRel(<, Nat)
<1> SUFFICES ASSUME Bad # {} PROVE FALSE
  OBVIOUS
<1>1. PICK m \in Bad : \A y \in Bad : ~(<<y, m>> \in R)
  <2>1. IsWellFoundedOn(R, Nat)
    BY NatLessThanWellFounded
  <2>2. Bad \subseteq Nat
    OBVIOUS
  <2> HIDE DEF Bad, R
  <2> QED
    BY <2>1, <2>2, WFMin
<1>2. /\ m \in Nat /\ m \notin Good
      /\ m # 0 /\ m - 1 \in Nat /\ (m - 1) + 1 = m
  <2>1. m \in Nat /\ m \notin Good
    OBVIOUS
  <2> HIDE DEF Bad, R
  <2> QED
    BY <2>1
<1>3. <<m - 1, m>> \in R
  BY <1>2 DEF R, OpToRel
<1>4. m - 1 \in Good
  <2>1. m - 1 \notin Bad
    BY <1>1, <1>3
  <2> QED
    BY <1>2, <2>1
<1> HIDE DEF Bad, R
<1> QED
  BY <1>2, <1>4

(* A set of subsets that holds a subset when it holds all smaller ones. *)
LEMMA SubsetInduction ==
  ASSUME NEW S, IsFiniteSet(S), NEW Good,
         \A T \in SUBSET S : (\A U \in SUBSET T : U # T => U \in Good) => T \in Good
  PROVE  SUBSET S \subseteq Good
<1> DEFINE Bad == (SUBSET S) \ Good
           R == StrictSubsetOrdering(S)
<1> SUFFICES ASSUME Bad # {} PROVE FALSE
  OBVIOUS
<1>1. PICK T \in Bad : \A U \in Bad : ~(<<U, T>> \in R)
  <2>1. IsWellFoundedOn(R, SUBSET S)
    <3>1. IsWellFoundedOn(R, FiniteSubsetsOf(S))
      BY FS_StrictSubsetOrderingWellFounded
    <3>2. FiniteSubsetsOf(S) = SUBSET S
      BY FS_FiniteSubsetsOfFinite
    <3> HIDE DEF Bad, R
    <3> QED
      BY <3>1, <3>2
  <2>2. Bad \subseteq SUBSET S
    OBVIOUS
  <2> HIDE DEF Bad, R
  <2> QED
    BY <2>1, <2>2, WFMin
<1>2. ASSUME NEW U \in SUBSET T, U # T PROVE U \in Good
  <2>1. <<U, T>> \in R
    BY <1>1, <1>2 DEF R, StrictSubsetOrdering
  <2> QED
    BY <1>1, <1>2, <2>1
<1>3. T \in SUBSET S /\ T \notin Good
  OBVIOUS
<1> HIDE DEF Bad, R
<1> QED
  BY <1>2, <1>3

------------------------------------------------------------------------------
(* Folds over finite sets.  A fold of the library is the value, at the     *)
(* whole set, of a function defined by recursion over its subsets.         *)

Chosen(s) == CHOOSE x \in s : TRUE

LEMMA ChosenMember == \A s : s # {} => Chosen(s) \in s
  BY DEF Chosen

(* pick says which element of a set comes first. *)
Folds(step, base, pick, D, g) ==
  g = [s \in D |-> IF s = {} THEN base
                   ELSE step[<<pick[s], g[s \ {pick[s]}]>>]]

(* There is such a function for every finite set. *)
LEMMA FoldExists ==
  ASSUME NEW step, NEW base, NEW S, IsFiniteSet(S),
         NEW pick, \A s \in SUBSET S : s # {} => pick[s] \in s
  PROVE  \E g : Folds(step, base, pick, SUBSET S, g)
<1> DEFINE Small(n) == {s \in SUBSET S : Cardinality(s) <= n}
           Good == {n \in Nat : \E g : Folds(step, base, pick, Small(n), g)}
<1>1. \A s \in SUBSET S : IsFiniteSet(s) /\ Cardinality(s) \in Nat
                            /\ Cardinality(s) <= Cardinality(S)
  BY FS_Subset, FS_CardinalityType
<1>2. 0 \in Good
  <2> DEFINE g == [s \in Small(0) |-> base]
  <2>1. \A s \in Small(0) : s = {}
    BY <1>1, FS_EmptySet
  <2>2. Folds(step, base, pick, Small(0), g)
    BY <2>1 DEF Folds
  <2> QED
    BY <2>2
<1>3. ASSUME NEW n \in Nat, n \in Good PROVE n + 1 \in Good
  <2>1. PICK g : Folds(step, base, pick, Small(n), g)
    BY <1>3
  <2> DEFINE next == [s \in Small(n + 1) |->
           IF s = {} THEN base ELSE step[<<pick[s], g[s \ {pick[s]}]>>]]
  <2>2. ASSUME NEW s \in Small(n + 1), s # {}
        PROVE  s \ {pick[s]} \in Small(n) /\ s \ {pick[s]} \in Small(n + 1)
    <3>1. Cardinality(s \ {pick[s]}) = Cardinality(s) - 1
      BY <1>1, <2>2, FS_RemoveElement
    <3> QED
      BY <1>1, <2>2, <3>1
  <2>3. \A t \in Small(n) : t \in Small(n + 1)
    BY <1>1
  <2>4. ASSUME NEW t \in Small(n) PROVE next[t] = g[t]
    <3>1. g[t] = IF t = {} THEN base ELSE step[<<pick[t], g[t \ {pick[t]}]>>]
      <4> HIDE DEF Small
      <4> QED
        BY <2>1 DEF Folds
    <3> HIDE DEF Small
    <3> QED
      BY <2>3, <3>1
  <2>5. Folds(step, base, pick, Small(n + 1), next)
    <3> HIDE DEF Small
    <3>1. \A s \in Small(n + 1) :
            next[s] = IF s = {} THEN base
                      ELSE step[<<pick[s], next[s \ {pick[s]}]>>]
      BY <2>2, <2>4
    <3>2. next = [s \in Small(n + 1) |-> next[s]]
      OBVIOUS
    <3> HIDE DEF next
    <3> QED
      BY <3>1, <3>2 DEF Folds
  <2> HIDE DEF Small, next
  <2> QED
    BY <2>5
<1>4. Nat \subseteq Good
  <2> HIDE DEF Good
  <2> QED
    BY <1>2, <1>3, CountingUp
<1>5. Small(Cardinality(S)) = SUBSET S
  BY <1>1
<1>6. Cardinality(S) \in Nat
  BY FS_CardinalityType
<1>7. Cardinality(S) \in Good
  BY <1>4, <1>6
<1>8. \E g : Folds(step, base, pick, Small(Cardinality(S)), g)
  BY <1>7
<1> QED
  BY <1>5, <1>8

(* Its values are of the type that the steps keep. *)
LEMMA FoldType ==
  ASSUME NEW step, NEW base, NEW S, IsFiniteSet(S), NEW g,
         NEW pick, \A s \in SUBSET S : s # {} => pick[s] \in s,
         Folds(step, base, pick, SUBSET S, g), NEW V, base \in V,
         \A x \in S, v \in V : step[<<x, v>>] \in V
  PROVE  \A s \in SUBSET S : g[s] \in V
<1> DEFINE Good == {s \in SUBSET S : g[s] \in V}
<1>1. ASSUME NEW s \in SUBSET S, \A u \in SUBSET s : u # s => u \in Good
      PROVE  s \in Good
  <2>1. g[s] = IF s = {} THEN base ELSE step[<<pick[s], g[s \ {pick[s]}]>>]
    BY DEF Folds
  <2>2. s # {} => pick[s] \in S /\ g[s \ {pick[s]}] \in V
    BY <1>1
  <2> QED
    BY <2>1, <2>2
<1>2. SUBSET S \subseteq Good
  <2> HIDE DEF Good
  <2> QED
    BY <1>1, SubsetInduction
<1> QED
  BY <1>2

------------------------------------------------------------------------------
(* Sums of integers over finite sets *)

SumOver(h, S) == MapThenSumSet(LAMBDA k : h[k], S)

(* The function by which the library defines the sum. *)
Tallies(h, S, g) ==
  g = [s \in S |-> IF s = {} THEN 0 ELSE h[Chosen(s)] + g[s \ {Chosen(s)}]]

LEMMA TallyExists ==
  ASSUME NEW h, NEW S, IsFiniteSet(S), \A x \in S : h[x] \in Int
  PROVE  \E g : Tallies(h, SUBSET S, g)
<1> DEFINE step == [p \in S \X Int |-> h[p[1]] + p[2]]
           first == [s \in SUBSET S |-> Chosen(s)]
<1>0. /\ \A s \in SUBSET S : first[s] = Chosen(s)
      /\ \A s \in SUBSET S : s # {} => first[s] \in s
  BY ChosenMember
<1>1. PICK g : Folds(step, 0, first, SUBSET S, g)
  BY <1>0, FoldExists
<1>2. \A x \in S, v \in Int : step[<<x, v>>] = h[x] + v /\ h[x] + v \in Int
  OBVIOUS
<1> HIDE DEF step, first
<1>3. \A s \in SUBSET S : g[s] \in Int
  <2>1. 0 \in Int /\ \A x \in S, v \in Int : step[<<x, v>>] \in Int
    BY <1>2
  <2> QED
    BY <1>0, <1>1, <2>1, FoldType
<1>4. \A s \in SUBSET S :
        g[s] = IF s = {} THEN 0 ELSE h[Chosen(s)] + g[s \ {Chosen(s)}]
  <2> SUFFICES ASSUME NEW s \in SUBSET S
               PROVE  g[s] = IF s = {} THEN 0 ELSE h[Chosen(s)] + g[s \ {Chosen(s)}]
    OBVIOUS
  <2>1. g[s] = IF s = {} THEN 0 ELSE step[<<Chosen(s), g[s \ {Chosen(s)}]>>]
    BY <1>0, <1>1 DEF Folds
  <2>2. s # {} => Chosen(s) \in S /\ g[s \ {Chosen(s)}] \in Int
    BY <1>3, ChosenMember
  <2> QED
    BY <1>2, <2>1, <2>2
<1>5. g = [s \in SUBSET S |-> g[s]]
  BY <1>1 DEF Folds
<1>6. Tallies(h, SUBSET S, g)
  BY <1>4, <1>5 DEF Tallies
<1> QED
  BY <1>6

(* The sum is the value of that function at the whole set. *)
LEMMA SumIsTally ==
  ASSUME NEW h, NEW S, IsFiniteSet(S), \A x \in S : h[x] \in Int
  PROVE  \E g : Tallies(h, SUBSET S, g) /\ SumOver(h, S) = g[S]
<1> DEFINE g == CHOOSE g : Tallies(h, SUBSET S, g)
<1>1. Tallies(h, SUBSET S, g)
  BY TallyExists
<1>2. SumOver(h, S) = g[S]
  BY Zenon DEF SumOver, MapThenSumSet, MapThenFoldSet, Tallies, Chosen
<1> QED
  BY <1>1, <1>2

(* The functions of a set and of a larger one agree on the smaller one. *)
LEMMA TalliesAgree ==
  ASSUME NEW h, NEW S, IsFiniteSet(S), NEW T \in SUBSET S, NEW f, NEW g,
         Tallies(h, SUBSET S, f), Tallies(h, SUBSET T, g)
  PROVE  f[T] = g[T]
<1> DEFINE Good == {s \in SUBSET T : f[s] = g[s]}
<1>1. IsFiniteSet(T)
  BY FS_Subset
<1>2. ASSUME NEW s \in SUBSET T, \A u \in SUBSET s : u # s => u \in Good
      PROVE  s \in Good
  <2>1. /\ f[s] = IF s = {} THEN 0 ELSE h[Chosen(s)] + f[s \ {Chosen(s)}]
        /\ g[s] = IF s = {} THEN 0 ELSE h[Chosen(s)] + g[s \ {Chosen(s)}]
    BY DEF Tallies
  <2>2. s # {} => f[s \ {Chosen(s)}] = g[s \ {Chosen(s)}]
    BY <1>2, ChosenMember
  <2> QED
    BY <2>1, <2>2
<1>3. SUBSET T \subseteq Good
  <2> HIDE DEF Good
  <2> QED
    BY <1>1, <1>2, SubsetInduction
<1> QED
  BY <1>3

(* What the sum of a set is, in terms of that of a smaller one. *)
LEMMA SumUnfolds ==
  ASSUME NEW h, NEW S, IsFiniteSet(S), \A x \in S : h[x] \in Int
  PROVE  SumOver(h, S) =
           IF S = {} THEN 0 ELSE h[Chosen(S)] + SumOver(h, S \ {Chosen(S)})
<1> DEFINE T == S \ {Chosen(S)}
<1>1. PICK f : Tallies(h, SUBSET S, f) /\ SumOver(h, S) = f[S]
  BY SumIsTally
<1>2. f[S] = IF S = {} THEN 0 ELSE h[Chosen(S)] + f[T]
  BY <1>1 DEF Tallies
<1>3. IsFiniteSet(T) /\ T \in SUBSET S
  BY FS_Subset
<1>4. PICK g : Tallies(h, SUBSET T, g) /\ SumOver(h, T) = g[T]
  BY <1>3, SumIsTally
<1>5. f[T] = g[T]
  <2> HIDE DEF T
  <2> QED
    BY <1>1, <1>3, <1>4, TalliesAgree
<1> QED
  BY <1>1, <1>2, <1>4, <1>5

LEMMA SumOfNothing == \A h : SumOver(h, {}) = 0
  BY SumUnfolds, FS_EmptySet

(* A sum of integers is an integer, and of natural numbers a natural one. *)
LEMMA SumType ==
  ASSUME NEW h, NEW S, IsFiniteSet(S), NEW Numbers \in SUBSET Int, 0 \in Numbers,
         \A m, n \in Numbers : m + n \in Numbers, \A x \in S : h[x] \in Numbers
  PROVE  SumOver(h, S) \in Numbers
<1> DEFINE Good == {T \in SUBSET S : SumOver(h, T) \in Numbers}
<1>1. ASSUME NEW T \in SUBSET S, \A U \in SUBSET T : U # T => U \in Good
      PROVE  T \in Good
  <2>1. SumOver(h, T) =
          IF T = {} THEN 0 ELSE h[Chosen(T)] + SumOver(h, T \ {Chosen(T)})
    BY FS_Subset, SumUnfolds
  <2>2. T # {} => /\ h[Chosen(T)] \in Numbers
                  /\ SumOver(h, T \ {Chosen(T)}) \in Numbers
    BY <1>1, ChosenMember
  <2> QED
    BY <2>1, <2>2
<1>2. SUBSET S \subseteq Good
  <2> HIDE DEF Good
  <2> QED
    BY <1>1, SubsetInduction
<1> QED
  BY <1>2

LEMMA SumIsInteger ==
  ASSUME NEW h, NEW S, IsFiniteSet(S), \A x \in S : h[x] \in Int
  PROVE  SumOver(h, S) \in Int
<1>1. \A m, n \in Int : m + n \in Int
  OBVIOUS
<1> QED
  BY <1>1, SumType

(* Only the parts count. *)
LEMMA SumOfSame ==
  ASSUME NEW h, NEW k, NEW S, IsFiniteSet(S),
         \A x \in S : h[x] \in Int /\ h[x] = k[x]
  PROVE  SumOver(h, S) = SumOver(k, S)
<1> DEFINE Good == {T \in SUBSET S : SumOver(h, T) = SumOver(k, T)}
<1>1. ASSUME NEW T \in SUBSET S, \A U \in SUBSET T : U # T => U \in Good
      PROVE  T \in Good
  <2>1. /\ SumOver(h, T) =
             IF T = {} THEN 0 ELSE h[Chosen(T)] + SumOver(h, T \ {Chosen(T)})
        /\ SumOver(k, T) =
             IF T = {} THEN 0 ELSE k[Chosen(T)] + SumOver(k, T \ {Chosen(T)})
    BY FS_Subset, SumUnfolds
  <2>2. T # {} => /\ h[Chosen(T)] = k[Chosen(T)]
                  /\ SumOver(h, T \ {Chosen(T)}) = SumOver(k, T \ {Chosen(T)})
    BY <1>1, ChosenMember
  <2> QED
    BY <2>1, <2>2
<1>2. SUBSET S \subseteq Good
  <2> HIDE DEF Good
  <2> QED
    BY <1>1, SubsetInduction
<1> QED
  BY <1>2

(* A sum is that of any one part and of the others. *)
LEMMA SumWithout ==
  ASSUME NEW h, NEW S, IsFiniteSet(S), \A x \in S : h[x] \in Int
  PROVE  \A x \in S : SumOver(h, S) = h[x] + SumOver(h, S \ {x})
<1> DEFINE Good == {T \in SUBSET S :
                      \A x \in T : SumOver(h, T) = h[x] + SumOver(h, T \ {x})}
<1>1. ASSUME NEW T \in SUBSET S, \A U \in SUBSET T : U # T => U \in Good
      PROVE  T \in Good
  <2> SUFFICES ASSUME NEW x \in T
               PROVE  SumOver(h, T) = h[x] + SumOver(h, T \ {x})
    OBVIOUS
  <2> DEFINE y == Chosen(T)
  <2>1. y \in T /\ SumOver(h, T) = h[y] + SumOver(h, T \ {y})
    BY FS_Subset, SumUnfolds, ChosenMember
  <2>2. CASE x = y
    BY <2>1, <2>2
  <2>3. CASE x # y
    <3> DEFINE rest == (T \ {x}) \ {y}
    <3>1. /\ x \in T \ {y} /\ T \ {y} \in SUBSET T /\ T \ {y} # T
          /\ y \in T \ {x} /\ T \ {x} \in SUBSET T /\ T \ {x} # T
          /\ (T \ {y}) \ {x} = rest
      BY <2>1, <2>3
    <3>2. SumOver(h, T \ {y}) = h[x] + SumOver(h, rest)
      BY <1>1, <3>1
    <3>3. SumOver(h, T \ {x}) = h[y] + SumOver(h, rest)
      BY <1>1, <3>1
    <3>4. SumOver(h, rest) \in Int /\ h[x] \in Int /\ h[y] \in Int
      <4>1. IsFiniteSet(rest) /\ \A z \in rest : h[z] \in Int
        BY FS_Subset
      <4> HIDE DEF rest
      <4> QED
        BY <2>1, <4>1, SumIsInteger
    <3> HIDE DEF rest, y
    <3> QED
      BY <2>1, <3>2, <3>3, <3>4
  <2> QED
    BY <2>2, <2>3
<1>2. SUBSET S \subseteq Good
  <2> HIDE DEF Good
  <2> QED
    BY <1>1, SubsetInduction
<1>3. S \in Good
  BY <1>2
<1> QED
  BY <1>3

(* A sum changes by as much as the one part of it that changes. *)
LEMMA SumChanges ==
  ASSUME NEW h, NEW k, NEW S, IsFiniteSet(S),
         \A y \in S : h[y] \in Int /\ k[y] \in Int,
         NEW x \in S, \A y \in S \ {x} : h[y] = k[y]
  PROVE  SumOver(k, S) = SumOver(h, S) + (k[x] - h[x])
<1> DEFINE rest == S \ {x}
<1>1. IsFiniteSet(rest) /\ \A y \in rest : h[y] = k[y] /\ h[y] \in Int
  BY FS_Subset
<1>2. SumOver(h, S) = h[x] + SumOver(h, rest) /\ SumOver(k, S) = k[x] + SumOver(k, rest)
  BY SumWithout
<1>3. SumOver(h, rest) = SumOver(k, rest) /\ SumOver(h, rest) \in Int
  <2> HIDE DEF rest
  <2> QED
    BY <1>1, SumOfSame, SumIsInteger
<1> HIDE DEF rest
<1> QED
  BY <1>2, <1>3

(* What is nothing everywhere sums up to nothing. *)
LEMMA SumOfZeros ==
  ASSUME NEW h, NEW S, IsFiniteSet(S), \A x \in S : h[x] = 0
  PROVE  SumOver(h, S) = 0
<1> DEFINE Numbers == {0}
<1>1. /\ Numbers \in SUBSET Int
      /\ 0 \in Numbers /\ \A m, n \in Numbers : m + n \in Numbers
      /\ \A x \in S : h[x] \in Numbers
  OBVIOUS
<1>2. SumOver(h, S) \in Numbers
  <2> HIDE DEF Numbers
  <2> QED
    BY <1>1, SumType
<1> QED
  BY <1>2

------------------------------------------------------------------------------
(* Sums of fractions over finite sets *)

FractionSum(h, S) == FoldSet(LAMBDA k, sum : Plus(h[k], sum), Zero, S)

FractionTallies(h, S, g) ==
  g = [s \in S |-> IF s = {} THEN Zero ELSE Plus(h[Chosen(s)], g[s \ {Chosen(s)}])]

LEMMA FractionTallyExists ==
  ASSUME NEW h, NEW S, IsFiniteSet(S), \A x \in S : h[x] \in Fraction
  PROVE  \E g : FractionTallies(h, SUBSET S, g)
<1> DEFINE step == [p \in S \X Fraction |-> Plus(h[p[1]], p[2])]
           first == [s \in SUBSET S |-> Chosen(s)]
<1>0. /\ \A s \in SUBSET S : first[s] = Chosen(s)
      /\ \A s \in SUBSET S : s # {} => first[s] \in s
  BY ChosenMember
<1>1. PICK g : Folds(step, Zero, first, SUBSET S, g)
  BY <1>0, FoldExists
<1>2. \A x \in S, v \in Fraction : step[<<x, v>>] = Plus(h[x], v)
  OBVIOUS
<1> HIDE DEF step, first
<1>3. \A s \in SUBSET S : g[s] \in Fraction
  <2>1. \A x \in S, v \in Fraction : step[<<x, v>>] \in Fraction
    BY <1>2, PlusType
  <2> QED
    BY <1>0, <1>1, <2>1, ZeroType, FoldType
<1>4. \A s \in SUBSET S :
        g[s] = IF s = {} THEN Zero ELSE Plus(h[Chosen(s)], g[s \ {Chosen(s)}])
  <2> SUFFICES ASSUME NEW s \in SUBSET S
               PROVE  g[s] = IF s = {} THEN Zero
                             ELSE Plus(h[Chosen(s)], g[s \ {Chosen(s)}])
    OBVIOUS
  <2>1. g[s] = IF s = {} THEN Zero ELSE step[<<Chosen(s), g[s \ {Chosen(s)}]>>]
    BY <1>0, <1>1 DEF Folds
  <2>2. s # {} => Chosen(s) \in S /\ g[s \ {Chosen(s)}] \in Fraction
    BY <1>3, ChosenMember
  <2> QED
    BY <1>2, <2>1, <2>2
<1>5. g = [s \in SUBSET S |-> g[s]]
  BY <1>1 DEF Folds
<1>6. FractionTallies(h, SUBSET S, g)
  BY <1>4, <1>5 DEF FractionTallies
<1> QED
  BY <1>6

LEMMA FractionSumIsTally ==
  ASSUME NEW h, NEW S, IsFiniteSet(S), \A x \in S : h[x] \in Fraction
  PROVE  \E g : FractionTallies(h, SUBSET S, g) /\ FractionSum(h, S) = g[S]
<1> DEFINE g == CHOOSE g : FractionTallies(h, SUBSET S, g)
<1>1. FractionTallies(h, SUBSET S, g)
  BY FractionTallyExists
<1>2. FractionSum(h, S) = g[S]
  BY Zenon DEF FractionSum, FoldSet, MapThenFoldSet, FractionTallies, Chosen
<1> QED
  BY <1>1, <1>2

LEMMA FractionTalliesAgree ==
  ASSUME NEW h, NEW S, IsFiniteSet(S), NEW T \in SUBSET S, NEW f, NEW g,
         FractionTallies(h, SUBSET S, f), FractionTallies(h, SUBSET T, g)
  PROVE  f[T] = g[T]
<1> DEFINE Good == {s \in SUBSET T : f[s] = g[s]}
<1>1. IsFiniteSet(T)
  BY FS_Subset
<1>2. ASSUME NEW s \in SUBSET T, \A u \in SUBSET s : u # s => u \in Good
      PROVE  s \in Good
  <2>1. /\ f[s] = IF s = {} THEN Zero ELSE Plus(h[Chosen(s)], f[s \ {Chosen(s)}])
        /\ g[s] = IF s = {} THEN Zero ELSE Plus(h[Chosen(s)], g[s \ {Chosen(s)}])
    BY DEF FractionTallies
  <2>2. s # {} => f[s \ {Chosen(s)}] = g[s \ {Chosen(s)}]
    BY <1>2, ChosenMember
  <2> QED
    BY <2>1, <2>2
<1>3. SUBSET T \subseteq Good
  <2> HIDE DEF Good
  <2> QED
    BY <1>1, <1>2, SubsetInduction
<1>4. T \in Good
  BY <1>3
<1> QED
  BY <1>4

(* A sum is one of its parts and the sum of the others. *)
LEMMA FractionSumUnfolds ==
  ASSUME NEW h, NEW S, IsFiniteSet(S), \A x \in S : h[x] \in Fraction
  PROVE  FractionSum(h, S) =
           IF S = {} THEN Zero
           ELSE Plus(h[Chosen(S)], FractionSum(h, S \ {Chosen(S)}))
<1> DEFINE T == S \ {Chosen(S)}
<1>1. PICK f : FractionTallies(h, SUBSET S, f) /\ FractionSum(h, S) = f[S]
  BY FractionSumIsTally
<1>2. f[S] = IF S = {} THEN Zero ELSE Plus(h[Chosen(S)], f[T])
  BY <1>1 DEF FractionTallies
<1>3. IsFiniteSet(T) /\ T \in SUBSET S
  BY FS_Subset
<1>4. PICK g : FractionTallies(h, SUBSET T, g) /\ FractionSum(h, T) = g[T]
  BY <1>3, FractionSumIsTally
<1>5. f[T] = g[T]
  <2> HIDE DEF T
  <2> QED
    BY <1>1, <1>3, <1>4, FractionTalliesAgree
<1> QED
  BY <1>1, <1>2, <1>4, <1>5

(* A sum of fractions is a fraction, and one of zeros is zero. *)
LEMMA FractionSumType ==
  ASSUME NEW h, NEW S, IsFiniteSet(S), NEW V \in SUBSET Fraction, Zero \in V,
         \A a, b \in V : Plus(a, b) \in V, \A x \in S : h[x] \in V
  PROVE  FractionSum(h, S) \in V
<1> DEFINE Good == {T \in SUBSET S : FractionSum(h, T) \in V}
<1>1. ASSUME NEW T \in SUBSET S, \A U \in SUBSET T : U # T => U \in Good
      PROVE  T \in Good
  <2>1. FractionSum(h, T) =
          IF T = {} THEN Zero
          ELSE Plus(h[Chosen(T)], FractionSum(h, T \ {Chosen(T)}))
    BY FS_Subset, FractionSumUnfolds
  <2>2. T # {} => h[Chosen(T)] \in V /\ FractionSum(h, T \ {Chosen(T)}) \in V
    BY <1>1, ChosenMember
  <2> QED
    BY <2>1, <2>2
<1>2. SUBSET S \subseteq Good
  <2> HIDE DEF Good
  <2> QED
    BY <1>1, SubsetInduction
<1> QED
  BY <1>2

LEMMA FractionSumIsFraction ==
  ASSUME NEW h, NEW S, IsFiniteSet(S), \A x \in S : h[x] \in Fraction
  PROVE  FractionSum(h, S) \in Fraction
<1>1. \A a, b \in Fraction : Plus(a, b) \in Fraction
  BY PlusType
<1> QED
  BY <1>1, ZeroType, FractionSumType

LEMMA FractionSumOfZeros ==
  ASSUME NEW h, NEW S, IsFiniteSet(S), \A x \in S : h[x] = Zero
  PROVE  FractionSum(h, S) = Zero
<1> DEFINE V == {Zero}
<1>1. /\ V \in SUBSET Fraction /\ Zero \in V /\ \A x \in S : h[x] \in V
  BY ZeroType
<1>2. \A a, b \in V : Plus(a, b) \in V
  BY DEF Plus, Zero, Whole
<1>3. FractionSum(h, S) \in V
  <2> HIDE DEF V
  <2> QED
    BY <1>1, <1>2, FractionSumType
<1> QED
  BY <1>3

(* Two sums of fractions are worth the sum of what their parts are worth.  *)
LEMMA PairAdds ==
  ASSUME NEW a \in Fraction, NEW b \in Fraction, NEW m \in Int, Same(Plus(a, b), Whole(m)),
         NEW c \in Fraction, NEW e \in Fraction, NEW n \in Int, Same(Plus(c, e), Whole(n))
  PROVE  Same(Plus(Plus(a, c), Plus(b, e)), Whole(m + n))
<1>1. PICK d \in Nat \ {0}, x \in Int, y \in Int, z \in Int, w \in Int :
        /\ InUnits(a, d, x) /\ InUnits(b, d, y)
        /\ InUnits(c, d, z) /\ InUnits(e, d, w)
  BY FourCommonUnits
<1>2. /\ Plus(a, b) \in Fraction /\ Plus(c, e) \in Fraction
      /\ Plus(a, c) \in Fraction /\ Plus(b, e) \in Fraction
      /\ Plus(Plus(a, c), Plus(b, e)) \in Fraction
      /\ Whole(m) \in Fraction /\ Whole(n) \in Fraction /\ Whole(m + n) \in Fraction
      /\ m + n \in Int /\ x + y \in Int /\ z + w \in Int /\ x + z \in Int /\ y + w \in Int
      /\ (x + z) + (y + w) \in Int
      /\ m * d \in Int /\ n * d \in Int /\ (m + n) * d \in Int
  BY <1>1, PlusType, WholeType, ProductType
<1>3. x + y = m * d
  <2>1. InUnits(Plus(a, b), d, x + y) /\ InUnits(Whole(m), d, m * d)
    BY <1>1, UnitsPlus, UnitsWhole
  <2> QED
    BY <1>1, <1>2, <2>1, UnitsSame
<1>4. z + w = n * d
  <2>1. InUnits(Plus(c, e), d, z + w) /\ InUnits(Whole(n), d, n * d)
    BY <1>1, UnitsPlus, UnitsWhole
  <2> QED
    BY <1>1, <1>2, <2>1, UnitsSame
<1>5. (x + z) + (y + w) = (m + n) * d
  BY <1>1, <1>3, <1>4, SMT
<1>6. InUnits(Plus(Plus(a, c), Plus(b, e)), d, (x + z) + (y + w))
  <2>1. InUnits(Plus(a, c), d, x + z) /\ InUnits(Plus(b, e), d, y + w)
    BY <1>1, UnitsPlus
  <2> QED
    BY <1>1, <1>2, <2>1, UnitsPlus
<1>7. InUnits(Whole(m + n), d, (m + n) * d)
  BY <1>1, <1>2, UnitsWhole
<1> QED
  BY <1>1, <1>2, <1>5, <1>6, <1>7, UnitsSame

LEMMA SumsOfPairs ==
  ASSUME NEW h, NEW k, NEW w, NEW S, IsFiniteSet(S),
         \A x \in S : /\ h[x] \in Fraction /\ k[x] \in Fraction /\ w[x] \in Int
                      /\ Same(Plus(h[x], k[x]), Whole(w[x]))
  PROVE  Same(Plus(FractionSum(h, S), FractionSum(k, S)), Whole(SumOver(w, S)))
<1> DEFINE Good == {T \in SUBSET S : Same(Plus(FractionSum(h, T), FractionSum(k, T)),
                                          Whole(SumOver(w, T)))}
<1>1. ASSUME NEW T \in SUBSET S, \A U \in SUBSET T : U # T => U \in Good
      PROVE  T \in Good
  <2> DEFINE c == Chosen(T)
             U == T \ {c}
  <2>1. /\ IsFiniteSet(T) /\ IsFiniteSet(U) /\ U \in SUBSET T
        /\ \A x \in T : h[x] \in Fraction /\ k[x] \in Fraction /\ w[x] \in Int
        /\ \A x \in U : h[x] \in Fraction /\ k[x] \in Fraction /\ w[x] \in Int
    BY FS_Subset
  <2>2. /\ FractionSum(h, T) = IF T = {} THEN Zero ELSE Plus(h[c], FractionSum(h, U))
        /\ FractionSum(k, T) = IF T = {} THEN Zero ELSE Plus(k[c], FractionSum(k, U))
        /\ SumOver(w, T) = IF T = {} THEN 0 ELSE w[c] + SumOver(w, U)
    BY <2>1, FractionSumUnfolds, SumUnfolds
  <2>3. CASE T = {}
    BY <2>2, <2>3 DEF Same, Plus, Zero, Whole
  <2>4. CASE T # {}
    <3>1. c \in T /\ c \in S /\ U # T
      BY <2>4, ChosenMember
    <3>2. Same(Plus(FractionSum(h, U), FractionSum(k, U)), Whole(SumOver(w, U)))
      BY <1>1, <2>1, <3>1
    <3>3. /\ FractionSum(h, U) \in Fraction /\ FractionSum(k, U) \in Fraction
          /\ SumOver(w, U) \in Int
      BY <2>1, FractionSumIsFraction, SumIsInteger
    <3> HIDE DEF c, U
    <3>4. Same(Plus(Plus(h[c], FractionSum(h, U)), Plus(k[c], FractionSum(k, U))),
               Whole(w[c] + SumOver(w, U)))
      BY <3>1, <3>2, <3>3, PairAdds
    <3> QED
      BY <2>2, <2>4, <3>4
  <2> QED
    BY <2>3, <2>4
<1>2. SUBSET S \subseteq Good
  <2> HIDE DEF Good
  <2> QED
    BY <1>1, SubsetInduction
<1>3. S \in Good
  BY <1>2
<1> QED
  BY <1>3

LEMMA TotalIsSum == \A f : Total(f) = SumOver(f, DOMAIN f)
  BY DEF Total, SumOver

(* A sum is that over any part of the set and that over the rest. *)
LEMMA SumSplits ==
  ASSUME NEW h, NEW A, NEW S, IsFiniteSet(S), \A x \in S : h[x] \in Int
  PROVE  SumOver(h, S) = SumOver(h, S \cap A) + SumOver(h, S \ A)
<1> DEFINE Good == {T \in SUBSET S :
                      SumOver(h, T) = SumOver(h, T \cap A) + SumOver(h, T \ A)}
<1>1. ASSUME NEW T \in SUBSET S, \A U \in SUBSET T : U # T => U \in Good
      PROVE  T \in Good
  <2> DEFINE c == Chosen(T)
             U == T \ {c}
  <2>1. CASE T = {}
    <3>1. T \cap A = {} /\ T \ A = {}
      BY <2>1
    <3> QED
      BY <2>1, <3>1, SumOfNothing
  <2>2. CASE T # {}
    <3>1. c \in T /\ c \in S /\ U \in SUBSET T /\ U # T /\ h[c] \in Int
      BY <2>2, ChosenMember
    <3>2. SumOver(h, U) = SumOver(h, U \cap A) + SumOver(h, U \ A)
      BY <1>1, <3>1
    <3>3. /\ IsFiniteSet(T) /\ IsFiniteSet(T \cap A) /\ IsFiniteSet(T \ A)
          /\ IsFiniteSet(U) /\ IsFiniteSet(U \cap A) /\ IsFiniteSet(U \ A)
      BY FS_Subset
    <3>4. /\ \A x \in T : h[x] \in Int
          /\ \A x \in U : h[x] \in Int
          /\ SumOver(h, U \cap A) \in Int /\ SumOver(h, U \ A) \in Int
      <4>1. /\ \A x \in T : h[x] \in Int
            /\ \A x \in U \cap A : h[x] \in Int
            /\ \A x \in U \ A : h[x] \in Int
        OBVIOUS
      <4> HIDE DEF U
      <4> QED
        BY <3>1, <3>3, <4>1, SumIsInteger
    <3>5. SumOver(h, T) = h[c] + SumOver(h, U)
      BY <3>1, <3>3, SumWithout
    <3>6. CASE c \in A
      <4>1. (T \cap A) \ {c} = U \cap A /\ T \ A = U \ A /\ c \in T \cap A
        BY <3>1, <3>6
      <4>2. SumOver(h, T \cap A) = h[c] + SumOver(h, (T \cap A) \ {c})
        BY <3>3, <4>1, SumWithout
      <4>3. /\ SumOver(h, T \cap A) = h[c] + SumOver(h, U \cap A)
            /\ SumOver(h, T \ A) = SumOver(h, U \ A)
        BY <4>1, <4>2
      <4> HIDE DEF U, c
      <4>4. SumOver(h, T) = SumOver(h, T \cap A) + SumOver(h, T \ A)
        BY <3>1, <3>2, <3>4, <3>5, <4>3
      <4> QED
        BY <4>4
    <3>7. CASE c \notin A
      <4>1. (T \ A) \ {c} = U \ A /\ T \cap A = U \cap A /\ c \in T \ A
        BY <3>1, <3>7
      <4>2. SumOver(h, T \ A) = h[c] + SumOver(h, (T \ A) \ {c})
        BY <3>3, <4>1, SumWithout
      <4>3. /\ SumOver(h, T \ A) = h[c] + SumOver(h, U \ A)
            /\ SumOver(h, T \cap A) = SumOver(h, U \cap A)
        BY <4>1, <4>2
      <4> HIDE DEF U, c
      <4>4. SumOver(h, T) = SumOver(h, T \cap A) + SumOver(h, T \ A)
        BY <3>1, <3>2, <3>4, <3>5, <4>3
      <4> QED
        BY <4>4
    <3> QED
      BY <3>6, <3>7
  <2> QED
    BY <2>1, <2>2
<1>2. SUBSET S \subseteq Good
  <2> HIDE DEF Good
  <2> QED
    BY <1>1, SubsetInduction
<1> QED
  BY <1>2

(* A sum of opposite parts is the opposite sum. *)
LEMMA SumNegated ==
  ASSUME NEW h, NEW k, NEW S, IsFiniteSet(S),
         \A x \in S : h[x] \in Int /\ k[x] = -h[x]
  PROVE  SumOver(k, S) = -SumOver(h, S)
<1> DEFINE Good == {T \in SUBSET S : SumOver(k, T) = -SumOver(h, T)}
<1>1. ASSUME NEW T \in SUBSET S, \A U \in SUBSET T : U # T => U \in Good
      PROVE  T \in Good
  <2> DEFINE c == Chosen(T)
             U == T \ {c}
  <2>1. /\ IsFiniteSet(T) /\ IsFiniteSet(U) /\ U \in SUBSET T
        /\ \A x \in T : h[x] \in Int /\ k[x] \in Int
        /\ \A x \in U : h[x] \in Int
    BY FS_Subset
  <2>2. /\ SumOver(h, T) = IF T = {} THEN 0 ELSE h[c] + SumOver(h, U)
        /\ SumOver(k, T) = IF T = {} THEN 0 ELSE k[c] + SumOver(k, U)
        /\ SumOver(h, U) \in Int
    BY <2>1, SumUnfolds, SumIsInteger
  <2>3. T # {} => /\ c \in T /\ h[c] \in Int /\ k[c] = -h[c]
                  /\ SumOver(k, U) = -SumOver(h, U)
    BY <1>1, <2>1, ChosenMember
  <2> HIDE DEF c, U
  <2> QED
    BY <2>2, <2>3
<1>2. SUBSET S \subseteq Good
  <2> HIDE DEF Good
  <2> QED
    BY <1>1, SubsetInduction
<1> QED
  BY <1>2

(* A sum of natural numbers is one, and no part of it exceeds it. *)
LEMMA SumOfNaturals ==
  ASSUME NEW h, NEW S, IsFiniteSet(S), \A x \in S : h[x] \in Nat
  PROVE  SumOver(h, S) \in Nat /\ \A x \in S : h[x] <= SumOver(h, S)
<1>1. Nat \in SUBSET Int /\ 0 \in Nat /\ \A m, n \in Nat : m + n \in Nat
  OBVIOUS
<1>2. \A T \in SUBSET S : SumOver(h, T) \in Nat
  <2> SUFFICES ASSUME NEW T \in SUBSET S PROVE SumOver(h, T) \in Nat
    OBVIOUS
  <2>1. IsFiniteSet(T) /\ \A x \in T : h[x] \in Nat
    BY FS_Subset
  <2> QED
    BY <1>1, <2>1, SumType
<1>3. ASSUME NEW x \in S PROVE h[x] <= SumOver(h, S)
  <2>1. SumOver(h, S) = h[x] + SumOver(h, S \ {x})
    BY SumWithout
  <2>2. S \ {x} \in SUBSET S
    OBVIOUS
  <2>3. SumOver(h, S \ {x}) \in Nat /\ h[x] \in Nat
    BY <1>2, <2>2
  <2> QED
    BY <2>1, <2>3
<1> QED
  BY <1>2, <1>3

LEMMA SquareSteps ==
  ASSUME NEW a \in Nat, NEW g \in Nat, NEW q \in Nat, NEW n \in Nat,
         q <= g * g, g * g <= n * q
  PROVE  /\ a * a + q \in Nat /\ (a + g) * (a + g) \in Nat
         /\ a * a + q <= (a + g) * (a + g)
         /\ (a + g) * (a + g) <= (n + 1) * (a * a + q)
<1>1. /\ a * a \in Nat /\ a * g \in Nat /\ g * g \in Nat
      /\ n * q \in Nat /\ n * (a * a) \in Nat
  BY ProductType
<1>2. (a + g) * (a + g) = a * a + 2 * (a * g) + g * g
  BY SMT
<1>3. (n + 1) * (a * a + q) = n * (a * a) + n * q + a * a + q
  BY SMT
<1>4. 2 * (a * g) <= n * (a * a) + q
  <2>1. CASE n = 0
    <3>1. g * g = 0
      BY <1>1, <2>1
    <3>2. g = 0
      BY <3>1, SMT
    <3>3. a * g = 0
      BY <3>2
    <3> QED
      BY <1>1, <2>1, <3>3
  <2>2. CASE n > 0
    <3> DEFINE d == n * a - g
               z == n * (a * a) + q - 2 * (a * g)
    <3>1. d \in Int /\ z \in Int /\ n * (a * g) \in Int /\ n * (n * (a * a)) \in Int
      BY <1>1, ProductType
    <3>2. d * d >= 0
      <4> HIDE DEF d
      <4> QED
        BY <3>1, SMT
    <3>3. d * d = n * (n * (a * a)) - 2 * (n * (a * g)) + g * g
      BY SMT
    <3>4. n * z = n * (n * (a * a)) + n * q - 2 * (n * (a * g))
      BY SMT
    <3>5. n * z >= 0
      <4> HIDE DEF d, z
      <4> QED
        BY <1>1, <3>1, <3>2, <3>3, <3>4
    <3>6. z >= 0
      <4> HIDE DEF z
      <4> QED
        BY <2>2, <3>1, <3>5, SMT
    <3> QED
      BY <1>1, <3>6
  <2> QED
    BY <2>1, <2>2
<1> QED
  BY <1>1, <1>2, <1>3, <1>4

(* The square of a sum lies between the sum of the squares and as many     *)
(* times it as there are parts.                                            *)
LEMMA SquaresOfSum ==
  ASSUME NEW h, NEW k, NEW S, IsFiniteSet(S),
         \A x \in S : h[x] \in Nat /\ k[x] = h[x] * h[x]
  PROVE  /\ SumOver(k, S) <= SumOver(h, S) * SumOver(h, S)
         /\ SumOver(h, S) * SumOver(h, S) <= Cardinality(S) * SumOver(k, S)
<1> DEFINE Good == {T \in SUBSET S :
                      /\ SumOver(k, T) <= SumOver(h, T) * SumOver(h, T)
                      /\ SumOver(h, T) * SumOver(h, T) <= Cardinality(T) * SumOver(k, T)}
<1>1. ASSUME NEW T \in SUBSET S, \A U \in SUBSET T : U # T => U \in Good
      PROVE  T \in Good
  <2> DEFINE c == Chosen(T)
             U == T \ {c}
  <2>1. CASE T = {}
    <3>1. SumOver(k, T) = 0 /\ SumOver(h, T) = 0 /\ Cardinality(T) = 0
      BY <2>1, SumOfNothing, FS_EmptySet
    <3> QED
      BY <3>1
  <2>2. CASE T # {}
    <3>1. c \in T /\ c \in S /\ U \in SUBSET T /\ U # T
      BY <2>2, ChosenMember
    <3>2. IsFiniteSet(T) /\ IsFiniteSet(U)
      BY FS_Subset
    <3>3. /\ \A x \in T : h[x] \in Nat /\ h[x] \in Int /\ k[x] \in Nat /\ k[x] \in Int
          /\ \A x \in U : h[x] \in Nat /\ k[x] \in Nat
      BY ProductType
    <3>4. /\ SumOver(h, T) = h[c] + SumOver(h, U)
          /\ SumOver(k, T) = k[c] + SumOver(k, U)
      <4>1. SumOver(h, T) = h[c] + SumOver(h, U)
        BY <3>1, <3>2, <3>3, SumWithout
      <4>2. SumOver(k, T) = k[c] + SumOver(k, U)
        <5>1. \A x \in T : k[x] \in Int
          BY <3>3
        <5>2. \A x \in T : SumOver(k, T) = k[x] + SumOver(k, T \ {x})
          BY <3>2, <5>1, SumWithout, Zenon
        <5> QED
          BY <3>1, <5>2
      <4> QED
        BY <4>1, <4>2
    <3>5. SumOver(h, U) \in Nat /\ SumOver(k, U) \in Nat
      BY <3>2, <3>3, SumOfNaturals
    <3>6. Cardinality(T) = Cardinality(U) + 1 /\ Cardinality(U) \in Nat
      <4>1. Cardinality(U) = Cardinality(T) - 1 /\ Cardinality(T) \in Nat
              /\ Cardinality(U) \in Nat
        BY <3>1, <3>2, FS_RemoveElement, FS_CardinalityType
      <4> QED
        BY <4>1
    <3>7. /\ SumOver(k, U) <= SumOver(h, U) * SumOver(h, U)
          /\ SumOver(h, U) * SumOver(h, U) <= Cardinality(U) * SumOver(k, U)
      BY <1>1, <3>1
    <3>8. k[c] = h[c] * h[c] /\ h[c] \in Nat
      BY <3>1
    <3> HIDE DEF U, c
    <3> QED
      BY <3>4, <3>5, <3>6, <3>7, <3>8, SquareSteps
  <2> QED
    BY <2>1, <2>2
<1>2. SUBSET S \subseteq Good
  <2> HIDE DEF Good
  <2> QED
    BY <1>1, SubsetInduction
<1> QED
  BY <1>2

(* A set of natural numbers has a least one. *)
LEMMA LeastExists ==
  ASSUME NEW S \in SUBSET Nat, S # {}
  PROVE  Min(S) \in S /\ \A y \in S : Min(S) <= y
<1> DEFINE R == OpToRel(<, Nat)
<1>1. PICK m \in S : \A y \in S : ~(<<y, m>> \in R)
  <2>1. IsWellFoundedOn(R, Nat)
    BY NatLessThanWellFounded
  <2> HIDE DEF R
  <2> QED
    BY <2>1, WFMin
<1>2. \A y \in S : m <= y
  <2> SUFFICES ASSUME NEW y \in S PROVE ~(y < m)
    OBVIOUS
  <2> QED
    BY <1>1 DEF R, OpToRel
<1> HIDE DEF R
<1> QED
  BY <1>2 DEF Min

------------------------------------------------------------------------------
(* Sequences *)

(* A set of sequences that holds the empty one, and with each of its       *)
(* members every sequence that is longer by one.                           *)
LEMMA SequenceInduction ==
  ASSUME NEW E, NEW Good, << >> \in Good,
         \A q \in Seq(E), x \in E : q \in Good => Append(q, x) \in Good
  PROVE  Seq(E) \subseteq Good
<1> DEFINE Lengths == {n \in Nat : \A q \in Seq(E) : Len(q) = n => q \in Good}
<1>1. 0 \in Lengths
  <2>1. \A q \in Seq(E) : Len(q) = 0 => q = << >>
    BY EmptySeq
  <2> QED
    BY <2>1
<1>2. ASSUME NEW n \in Nat, n \in Lengths PROVE n + 1 \in Lengths
  <2> SUFFICES ASSUME NEW q \in Seq(E), Len(q) = n + 1 PROVE q \in Good
    OBVIOUS
  <2>1. q # << >>
    BY EmptySeq
  <2>2. PICK r \in Seq(E), x \in E : q = Append(r, x)
    BY <2>1, SequenceEmptyOrAppend
  <2>3. Len(r) = n
    BY <2>2, AppendProperties, LenProperties
  <2> QED
    BY <1>2, <2>2, <2>3
<1>3. Nat \subseteq Lengths
  <2> HIDE DEF Lengths
  <2> QED
    BY <1>1, <1>2, CountingUp
<1> QED
  BY <1>3, LenProperties

------------------------------------------------------------------------------

(* The greatest of some indices. *)
LEMMA GreatestExists ==
  ASSUME NEW n \in Nat, NEW s \in SUBSET (1 .. n), s # {}
  PROVE  Max(s) \in s /\ \A y \in s : Max(s) >= y
<1> DEFINE Good == {k \in Nat : \A t \in SUBSET (1 .. k) :
                      t # {} => \E x \in t : \A y \in t : x >= y}
<1>1. 0 \in Good
  <2>1. 1 .. 0 = {}
    OBVIOUS
  <2> QED
    BY <2>1
<1>2. ASSUME NEW k \in Nat, k \in Good PROVE k + 1 \in Good
  <2> SUFFICES ASSUME NEW t \in SUBSET (1 .. k + 1), t # {}
               PROVE  \E x \in t : \A y \in t : x >= y
    OBVIOUS
  <2>1. CASE k + 1 \in t
    BY <2>1
  <2>2. CASE k + 1 \notin t
    <3>1. t \in SUBSET (1 .. k)
      BY <2>2
    <3> QED
      BY <1>2, <3>1
  <2> QED
    BY <2>1, <2>2
<1>3. Nat \subseteq Good
  <2> HIDE DEF Good
  <2> QED
    BY <1>1, <1>2, CountingUp
<1>4. \E x \in s : \A y \in s : x >= y
  BY <1>3
<1> QED
  BY <1>4 DEF Max

LEMMA GreatestOfAll ==
  ASSUME NEW n \in Nat
  PROVE  Max(1 .. n + 1) = n + 1 /\ (1 .. n + 1) \ {n + 1} = 1 .. n
<1>1. n + 1 \in Nat /\ 1 .. n + 1 \in SUBSET (1 .. n + 1) /\ 1 .. n + 1 # {}
  OBVIOUS
<1>2. Max(1 .. n + 1) \in 1 .. n + 1 /\ \A y \in 1 .. n + 1 : Max(1 .. n + 1) >= y
  BY <1>1, GreatestExists
<1> QED
  BY <1>2

------------------------------------------------------------------------------
(* Folds over sequences.  FoldLeft is a fold over the indices that takes   *)
(* the greatest of them first, with the element it stands for.             *)

(* A fold along a sequence: from its first element to its last. *)
FoldsAlong(step, base, q, g) ==
  g = [s \in SUBSET DOMAIN q |->
         IF s = {} THEN base ELSE step[<<g[s \ {Max(s)}], q[Max(s)]>>]]

FoldValue(step, base, q, v) ==
  \E g : FoldsAlong(step, base, q, g) /\ v = g[DOMAIN q]

LEMMA IndicesAreFinite ==
  ASSUME NEW E, NEW q \in Seq(E)
  PROVE  /\ IsFiniteSet(DOMAIN q)
         /\ \A s \in SUBSET DOMAIN q : s # {} => Max(s) \in s
<1>1. Len(q) \in Nat /\ DOMAIN q = 1 .. Len(q)
  BY LenProperties
<1>2. IsFiniteSet(1 .. Len(q))
  BY <1>1, FS_Interval
<1>3. \A s \in SUBSET (1 .. Len(q)) : s # {} => Max(s) \in s
  BY <1>1, GreatestExists
<1> QED
  BY <1>1, <1>2, <1>3

(* A step that stays within V folds along every sequence. *)
LEMMA FoldAlongExists ==
  ASSUME NEW E, NEW q \in Seq(E), NEW V, NEW base \in V, NEW step,
         \A v \in V, x \in E : step[<<v, x>>] \in V
  PROVE  \E g : FoldsAlong(step, base, q, g) /\ \A s \in SUBSET DOMAIN q : g[s] \in V
<1> DEFINE S == DOMAIN q
           turned == [p \in S \X V |-> step[<<p[2], q[p[1]]>>]]
           last == [s \in SUBSET S |-> Max(s)]
<1>1. /\ IsFiniteSet(S)
      /\ \A s \in SUBSET S : last[s] = Max(s)
      /\ \A s \in SUBSET S : s # {} => last[s] \in s
      /\ \A i \in S : q[i] \in E
  BY IndicesAreFinite, ElementOfSeq, LenProperties
<1>2. \A i \in S, v \in V : turned[<<i, v>>] = step[<<v, q[i]>>] /\ turned[<<i, v>>] \in V
  BY <1>1
<1> HIDE DEF S, turned, last
<1>3. PICK g : Folds(turned, base, last, SUBSET S, g)
  BY <1>1, FoldExists
<1>4. \A s \in SUBSET S : g[s] \in V
  <2>1. \A i \in S, v \in V : turned[<<i, v>>] \in V
    BY <1>2
  <2> QED
    BY <1>1, <1>3, <2>1, FoldType
<1>5. ASSUME NEW s \in SUBSET S
      PROVE  g[s] = IF s = {} THEN base ELSE step[<<g[s \ {Max(s)}], q[Max(s)]>>]
  <2>1. g[s] = IF s = {} THEN base ELSE turned[<<last[s], g[s \ {last[s]}]>>]
    BY <1>3 DEF Folds
  <2>2. s # {} => last[s] = Max(s) /\ last[s] \in S /\ g[s \ {last[s]}] \in V
    BY <1>1, <1>4
  <2> QED
    BY <1>2, <2>1, <2>2
<1>6. g = [s \in SUBSET S |-> g[s]]
  BY <1>3 DEF Folds
<1>7. FoldsAlong(step, base, q, g)
  BY <1>5, <1>6 DEF FoldsAlong, S
<1> QED
  BY <1>4, <1>7 DEF S

(* A function over the subsets of the indices has values of a type that    *)
(* its value at each of them inherits from that without the greatest.      *)
LEMMA TypeAlong ==
  ASSUME NEW E, NEW q \in Seq(E), NEW V, NEW g, g[{}] \in V,
         \A s \in SUBSET DOMAIN q : s # {} /\ g[s \ {Max(s)}] \in V => g[s] \in V
  PROVE  \A s \in SUBSET DOMAIN q : g[s] \in V
<1> DEFINE S == DOMAIN q
           Good == {s \in SUBSET S : g[s] \in V}
<1>1. IsFiniteSet(S)
  BY IndicesAreFinite
<1>2. ASSUME NEW s \in SUBSET S, \A u \in SUBSET s : u # s => u \in Good
      PROVE  s \in Good
  <2>1. s # {} => Max(s) \in s
    BY IndicesAreFinite
  <2>2. s # {} => g[s \ {Max(s)}] \in V
    BY <1>2, <2>1
  <2> QED
    BY <2>2
<1>3. SUBSET S \subseteq Good
  <2> HIDE DEF Good, S
  <2> QED
    BY <1>1, <1>2, SubsetInduction
<1> QED
  BY <1>3

(* The functions of a sequence and of a longer one agree where both are.   *)
LEMMA FoldsAgree ==
  ASSUME NEW E, NEW q \in Seq(E), NEW r \in Seq(E), Len(q) <= Len(r),
         \A i \in 1 .. Len(q) : q[i] = r[i], NEW step, NEW base,
         NEW f, FoldsAlong(step, base, q, f), NEW g, FoldsAlong(step, base, r, g)
  PROVE  f[DOMAIN q] = g[DOMAIN q]
<1> DEFINE S == DOMAIN q
           Good == {s \in SUBSET S : f[s] = g[s]}
<1>0. IsFiniteSet(S)
  BY IndicesAreFinite
<1>1. /\ S = 1 .. Len(q) /\ SUBSET S \subseteq SUBSET DOMAIN r
      /\ \A i \in S : q[i] = r[i]
  BY LenProperties
<1>2. ASSUME NEW s \in SUBSET S, \A u \in SUBSET s : u # s => u \in Good
      PROVE  s \in Good
  <2>1. f[s] = IF s = {} THEN base ELSE step[<<f[s \ {Max(s)}], q[Max(s)]>>]
    BY DEF FoldsAlong
  <2>2. g[s] = IF s = {} THEN base ELSE step[<<g[s \ {Max(s)}], r[Max(s)]>>]
    BY <1>1 DEF FoldsAlong
  <2>3. s # {} => Max(s) \in s
    BY IndicesAreFinite
  <2>4. s # {} => f[s \ {Max(s)}] = g[s \ {Max(s)}] /\ q[Max(s)] = r[Max(s)]
    BY <1>1, <1>2, <2>3
  <2> QED
    BY <2>1, <2>2, <2>4
<1>3. SUBSET S \subseteq Good
  <2> HIDE DEF Good, S
  <2> QED
    BY <1>0, <1>2, SubsetInduction
<1> QED
  BY <1>3

(* What a fold comes to, from the front of the sequence to its end. *)
LEMMA FoldOfNothing ==
  ASSUME NEW step, NEW base, NEW v, FoldValue(step, base, << >>, v)
  PROVE  v = base
<1>1. DOMAIN << >> = {}
  OBVIOUS
<1>2. PICK g : FoldsAlong(step, base, << >>, g) /\ v = g[DOMAIN << >>]
  BY DEF FoldValue
<1>3. g[{}] = base
  BY <1>1, <1>2 DEF FoldsAlong
<1> QED
  BY <1>1, <1>2, <1>3

LEMMA FoldOfAppend ==
  ASSUME NEW E, NEW q \in Seq(E), NEW x \in E, NEW step, NEW base,
         NEW v, FoldValue(step, base, q, v),
         NEW w, FoldValue(step, base, Append(q, x), w)
  PROVE  w = step[<<v, x>>]
<1> DEFINE r == Append(q, x)
           n == Len(q)
<1>1. /\ n \in Nat /\ DOMAIN q = 1 .. n /\ r \in Seq(E) /\ Len(r) = n + 1
      /\ DOMAIN r = 1 .. n + 1 /\ r[n + 1] = x /\ \A i \in 1 .. n : r[i] = q[i]
  BY AppendProperties, LenProperties
<1>2. PICK f : FoldsAlong(step, base, q, f) /\ v = f[DOMAIN q]
  BY DEF FoldValue
<1>3. PICK g : FoldsAlong(step, base, r, g) /\ w = g[DOMAIN r]
  BY DEF FoldValue
<1> HIDE DEF r, n
<1>4. Max(1 .. n + 1) = n + 1 /\ (1 .. n + 1) \ {n + 1} = 1 .. n
  BY <1>1, GreatestOfAll
<1>5. 1 .. n + 1 # {} /\ n <= n + 1
  BY <1>1
<1>6. w = step[<<g[1 .. n], x>>]
  <2>1. \A s \in SUBSET DOMAIN r :
          g[s] = IF s = {} THEN base ELSE step[<<g[s \ {Max(s)}], r[Max(s)]>>]
    BY <1>3 DEF FoldsAlong
  <2>2. 1 .. n + 1 \in SUBSET DOMAIN r
    BY <1>1
  <2>3. g[1 .. n + 1] = step[<<g[(1 .. n + 1) \ {n + 1}], r[n + 1]>>]
    BY <1>4, <1>5, <2>1, <2>2
  <2> QED
    BY <1>1, <1>3, <1>4, <2>3
<1>7. f[DOMAIN q] = g[DOMAIN q]
  BY <1>1, <1>2, <1>3, <1>5, FoldsAgree DEF n
<1> QED
  BY <1>1, <1>2, <1>6, <1>7

(* Sequences end to end, and turned round. *)
LEMMA ConcatAppend ==
  ASSUME NEW E, NEW p \in Seq(E), NEW q \in Seq(E), NEW x \in E
  PROVE  /\ p \o << >> = p
         /\ p \o Append(q, x) = Append(p \o q, x)
         /\ Append(<< >>, x) = <<x>>
         /\ p \o <<x>> = Append(p, x)
<1>1. <<x>> \in Seq(E) /\ << >> \in Seq(E) /\ p \o q \in Seq(E)
  BY EmptySeq, ConcatProperties
<1>2. Append(q, x) = q \o <<x>> /\ Append(p \o q, x) = (p \o q) \o <<x>>
      /\ Append(<< >>, x) = << >> \o <<x>> /\ Append(p, x) = p \o <<x>>
  BY <1>1, AppendIsConcat
<1>3. p \o (q \o <<x>>) = (p \o q) \o <<x>> /\ << >> \o <<x>> = <<x>>
  BY <1>1, ConcatAssociative, ConcatEmptySeq
<1> QED
  BY <1>2, <1>3, ConcatEmptySeq

(* Sequences turned around. *)
LEMMA ReverseOf ==
  ASSUME NEW E, NEW q \in Seq(E)
  PROVE  /\ Reverse(q) \in Seq(E) /\ Len(Reverse(q)) = Len(q)
         /\ \A i \in 1 .. Len(q) : Reverse(q)[i] = q[(Len(q) - i) + 1]
         /\ Reverse(Reverse(q)) = q
<1> DEFINE n == Len(q)
<1>1. n \in Nat /\ \A i \in 1 .. n : q[i] \in E
  BY LenProperties, ElementOfSeq
<1>2. \A i \in 1 .. n : (n - i) + 1 \in 1 .. n /\ (n - ((n - i) + 1)) + 1 = i
  BY <1>1
<1> HIDE DEF n
<1>3. Reverse(q) = [i \in 1 .. n |-> q[(n - i) + 1]]
  BY DEF Reverse, n
<1>4. Reverse(q) \in [1 .. n -> E]
  BY <1>1, <1>2, <1>3
<1>5. Reverse(q) \in Seq(E)
  BY <1>1, <1>4, SeqDef
<1>6. Len(Reverse(q)) = n
  BY <1>1, <1>4, <1>5, LenProperties
<1>7. Reverse(Reverse(q)) = q
  <2>1. Reverse(Reverse(q)) = [i \in 1 .. n |-> Reverse(q)[(n - i) + 1]]
    BY <1>6 DEF Reverse
  <2>2. \A i \in 1 .. n : Reverse(q)[(n - i) + 1] = q[i]
    BY <1>2, <1>3
  <2>3. q = [i \in 1 .. n |-> q[i]]
    BY LenProperties DEF n
  <2> QED
    BY <2>1, <2>2, <2>3
<1> QED
  BY <1>3, <1>5, <1>6, <1>7 DEF n

LEMMA ReverseConcat ==
  ASSUME NEW E, NEW p \in Seq(E), NEW q \in Seq(E)
  PROVE  Reverse(p \o q) = Reverse(q) \o Reverse(p)
<1> DEFINE m == Len(p)
           k == Len(q)
           r == p \o q
           t == Reverse(q)
           u == Reverse(p)
<1>1. /\ m \in Nat /\ k \in Nat /\ r \in Seq(E) /\ Len(r) = m + k
      /\ \A i \in 1 .. m + k : r[i] = IF i <= m THEN p[i] ELSE q[i - m]
  BY LenProperties, ConcatProperties
<1>2. /\ u \in Seq(E) /\ Len(u) = m /\ \A i \in 1 .. m : u[i] = p[(m - i) + 1]
      /\ t \in Seq(E) /\ Len(t) = k /\ \A i \in 1 .. k : t[i] = q[(k - i) + 1]
  BY ReverseOf
<1> HIDE DEF m, k, r, t, u
<1>3. /\ Reverse(r) \in Seq(E) /\ Len(Reverse(r)) = m + k
      /\ \A i \in 1 .. m + k : Reverse(r)[i] = r[((m + k) - i) + 1]
  <2>1. /\ Reverse(r) \in Seq(E) /\ Len(Reverse(r)) = Len(r)
        /\ \A i \in 1 .. Len(r) : Reverse(r)[i] = r[(Len(r) - i) + 1]
    BY <1>1, ReverseOf
  <2> QED
    BY <1>1, <2>1
<1>4. /\ t \o u \in Seq(E) /\ Len(t \o u) = k + m
      /\ \A i \in 1 .. k + m : (t \o u)[i] = IF i <= k THEN t[i] ELSE u[i - k]
  BY <1>2, ConcatProperties
<1>5. ASSUME NEW i \in 1 .. m + k PROVE Reverse(r)[i] = (t \o u)[i]
  <2> DEFINE j == ((m + k) - i) + 1
  <2>1. j \in 1 .. m + k
    BY <1>1
  <2>2. Reverse(r)[i] = r[j]
    BY <1>3
  <2> HIDE DEF j
  <2>3. Reverse(r)[i] = IF j <= m THEN p[j] ELSE q[j - m]
    BY <1>1, <2>1, <2>2
  <2>4. CASE i <= k
    <3>1. ~(j <= m) /\ j - m = (k - i) + 1 /\ i \in 1 .. k /\ i \in 1 .. k + m
      BY <1>1, <2>4 DEF j
    <3>2. (t \o u)[i] = q[(k - i) + 1]
      BY <1>2, <1>4, <2>4, <3>1
    <3> QED
      BY <2>3, <3>1, <3>2
  <2>5. CASE ~(i <= k)
    <3>1. j <= m /\ j = (m - (i - k)) + 1 /\ i - k \in 1 .. m /\ i \in 1 .. k + m
      BY <1>1, <2>5 DEF j
    <3>2. (t \o u)[i] = p[(m - (i - k)) + 1]
      BY <1>2, <1>4, <2>5, <3>1
    <3> QED
      BY <2>3, <3>1, <3>2
  <2> QED
    BY <2>4, <2>5
<1>6. Reverse(r) = t \o u
  <2> DEFINE v == Reverse(r)
             w == t \o u
  <2>1. v \in Seq(E) /\ w \in Seq(E) /\ Len(v) = Len(w) /\ \A i \in 1 .. Len(v) : v[i] = w[i]
    BY <1>1, <1>3, <1>4, <1>5
  <2> HIDE DEF v, w
  <2>2. v = w
    BY <2>1, SeqEqual
  <2> QED
    BY <2>2 DEF v, w
<1> QED
  BY <1>6 DEF r, t, u

LEMMA ReverseAppend ==
  ASSUME NEW E, NEW q \in Seq(E), NEW x \in E
  PROVE  Reverse(Append(q, x)) = <<x>> \o Reverse(q)
<1> DEFINE one == <<x>>
<1>1. one \in Seq(E) /\ Len(one) = 1 /\ one[1] = x
  OBVIOUS
<1>2. Append(q, x) = q \o one
  BY AppendIsConcat
<1> HIDE DEF one
<1>3. Reverse(one) = one
  <2> DEFINE v == Reverse(one)
  <2>1. v \in Seq(E) /\ Len(v) = 1 /\ \A i \in 1 .. 1 : v[i] = one[(1 - i) + 1]
    BY <1>1, ReverseOf
  <2>2. \A i \in 1 .. 1 : (1 - i) + 1 = i
    OBVIOUS
  <2> HIDE DEF v
  <2>3. v = one
    BY <1>1, <2>1, <2>2, SeqEqual
  <2> QED
    BY <2>3 DEF v
<1>4. Reverse(q \o one) = Reverse(one) \o Reverse(q)
  BY <1>1, ReverseConcat
<1> QED
  BY <1>2, <1>3, <1>4 DEF one

LEMMA ReverseOfNothing == Reverse(<< >>) = << >>
  BY DEF Reverse

------------------------------------------------------------------------------
=============================================================================
