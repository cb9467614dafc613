------------------------------- MODULE Trading -------------------------------
(***************************************************************************)
(* The trade every component ingests (include/risk/types.h).  Identifiers, *)
(* timestamps, strategy, account and fill_id take part in no decision of   *)
(* the components that extend this module and are left out.                *)
(***************************************************************************)
EXTENDS Fractions, Instruments

CONSTANTS
  Quantities,   \* traded quantities
  Prices,       \* traded and quoted prices, in ticks
  Fees          \* fees of a trade, in ticks

ASSUME QuantitiesAssumption == Quantities \subseteq Nat \ {0}

ASSUME PricesAssumption == Prices \subseteq Nat \ {0}

ASSUME FeesAssumption == Fees \subseteq Nat

Sides == {"Buy", "Sell"}

Trade == [symbol : Symbols, side : Sides, quantity : Quantities,
          price : Prices, fees : Fees]

side_sign(side) == IF side = "Buy" THEN 1 ELSE -1

SignedQuantity(trade) == side_sign(trade.side) * trade.quantity

Abs(n) == IF n < 0 THEN -n ELSE n

Sign(n) == IF n > 0 THEN 1 ELSE -1

SameSign(a, b) == (a > 0 /\ b > 0) \/ (a < 0 /\ b < 0)

Smaller(a, b) == IF a <= b THEN a ELSE b
=============================================================================
