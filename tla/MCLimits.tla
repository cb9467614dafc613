------------------------------- MODULE MCLimits -------------------------------
(***************************************************************************)
(* Two symbols; position bounds that differ on the long and on the short   *)
(* side, and in being hard; up to three position limits, so that one is    *)
(* added next to two others.  The thresholds of the two judges overlap,    *)
(* and readings lie below, at and above every one of them.                 *)
(***************************************************************************)
EXTENDS LimitDesk

CONSTANTS EUR, USD

MCSymbols == {EUR, USD}

MCPositionBounds ==
  {[max_long |-> 1, max_short |-> 2, hard |-> TRUE],
   [max_long |-> 2, max_short |-> 0, hard |-> FALSE]}

MCLossLimits ==
  {[daily_stop_loss |-> 0, max_drawdown |-> 2],
   [daily_stop_loss |-> 2, max_drawdown |-> 1]}

MCExposureLimits ==
  {[max_gross |-> 3, max_net |-> 3, max_concentration |-> 60],
   [max_gross |-> 2, max_net |-> 0, max_concentration |-> 0]}

MCValues == {-2, 0, 1, 3}

Parameters(gross, loss, drawdown) ==
  [max_gross |-> gross, daily_stop_loss |-> loss, max_drawdown |-> drawdown]

MCDefaultParams == Parameters(3, 2, 2)

MCRiskParams == {Parameters(2, 0, 0)}
=============================================================================
