-------------------------------- MODULE MCLots --------------------------------
(***************************************************************************)
(* One instrument, lots that are split, used up and oversold, and methods  *)
(* switched between trades.                                                *)
(***************************************************************************)
EXTENDS LotAudit

CONSTANT EUR

MCSymbols == {EUR}

MCQuantities == {1, 2, 3}

MCPrices == {1, 2}

MCFees == {0}

MCLotMethods == {"FIFO", "LIFO", "AverageCost"}
=============================================================================
