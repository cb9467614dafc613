------------------------------- MODULE MCAlerts -------------------------------
(***************************************************************************)
(* Readings on both sides of the thresholds of position, loss and drawdown *)
(* and an exposure that is always too large, a clock that jumps forwards   *)
(* and back by more than the longer cooldown, and two cooldowns.           *)
(***************************************************************************)
EXTENDS AlertManager

CONSTANT EUR

MCSymbols == {EUR}

MCNetQuantities == {-3, 2}

MCPrices == {1}

MCDailyPnLs == {-5, -4, 0}

MCDrawdowns == {1, 2}

MCExposures == {9}

MCOperatorIds == {2}

MCCooldowns == {1, 2}

MCClockReadings == {0, 3}
=============================================================================
