------------------------------- MODULE MCBooks -------------------------------
(***************************************************************************)
(* Two instruments, and quantities that open, add, reduce by less and by   *)
(* more than half, close and flip a position.                              *)
(***************************************************************************)
EXTENDS Books, TLC

CONSTANTS EUR, USD

Instruments == {EUR, USD}

MCQuantities == {1, 2, 3}

MCPrices == {1, 2}

MCFees == {1}

MCLotMethods == {"FIFO", "AverageCost"}

MCSymmetry == Permutations(Instruments)
=============================================================================
