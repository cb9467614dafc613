-------------------------------- MODULE MCPnL --------------------------------
(***************************************************************************)
(* Two instruments, profits and losses, hours of different days that share *)
(* a bucket, and a trade whose entry price is not known.                   *)
(***************************************************************************)
EXTENDS PnLAudit, TLC

CONSTANTS EUR, USD, Momentum, Carry

MCSymbols == {EUR, USD}

MCStrategies == {Momentum, Carry}

MCHours == {1, 25, 26}

MCQuantities == {1}

MCPrices == {1, 3}

MCFees == {1}

MCEntryPrices == {0, 2}

MCNetQuantities == {-1, 0, 2}

MCSymmetry == Permutations(MCSymbols) \cup Permutations(MCStrategies)
=============================================================================
