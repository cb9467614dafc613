-------------------------- MODULE TrackerParameters --------------------------
(***************************************************************************)
(* What the position tracker and lot matching, and every module that       *)
(* composes them, are parameterised by besides the trades.                 *)
(***************************************************************************)
EXTENDS Trading

CONSTANTS
  LotMethods,   \* the values of enum LotMatchMethod
  MaxTrades     \* bound: trades of one symbol

ASSUME LotMethodsAssumption ==
  /\ "FIFO" \in LotMethods
  /\ LotMethods \subseteq {"FIFO", "LIFO", "AverageCost"}

ASSUME MaxTradesAssumption == MaxTrades \in Nat
=============================================================================
