----------------------------- MODULE MetricsEngine -----------------------------
(***************************************************************************)
(* The exposure ledger of MetricsEngine (include/risk/metrics_engine.h,    *)
(* src/metrics_engine.cpp) and its own checks of limits: market values per *)
(* symbol, with the gross and net exposure that update_position adds up    *)
(* again and compute_exposure reports with a split and a concentration.    *)
(*                                                                         *)
(* Left out: the totals of update_pnl, which no operation reads, and the   *)
(* numerics (value at risk, Greeks).  set_risk_params takes no mutex; it   *)
(* is one step here, as every check loads a single parameter.              *)
(***************************************************************************)
EXTENDS Integers, Instruments, Sums

CONSTANTS
  NoValue,         \* the symbol has no market value yet
  Values,          \* market values that are reported
  DefaultParams,   \* the parameters of the constructor
  RiskParams       \* parameters that are set

Params == [max_gross : Nat, daily_stop_loss : Nat, max_drawdown : Nat]

VARIABLES
  symbol_values,    \* symbol_values_
  gross_exposure,   \* gross_exposure_
  net_exposure,     \* net_exposure_
  params            \* max_gross_, daily_stop_loss_, max_drawdown_limit_

Init ==
  /\ symbol_values = [s \in Symbols |-> NoValue]
  /\ gross_exposure = 0 /\ net_exposure = 0
  /\ params = DefaultParams

Magnitude(v) == IF v < 0 THEN -v ELSE v

Known(values) == {s \in Symbols : values[s] # NoValue}

Sizes(values, S) == [s \in S |-> Magnitude(values[s])]

\* Mutant: the sum goes on from the exposure before.
Gross_NotReset(values) == gross_exposure + Total(Sizes(values, Known(values)))

Gross(values) == Total(Sizes(values, Known(values)))

Net(values) == Total([s \in Known(values) |-> values[s]])

update_position(s, market_value) ==
  /\ symbol_values' = [symbol_values EXCEPT ![s] = market_value]
  /\ gross_exposure' = Gross(symbol_values')
  /\ net_exposure' = Net(symbol_values')
  /\ UNCHANGED params

set_risk_params(p) ==
  /\ params' = p
  /\ UNCHANGED <<symbol_values, gross_exposure, net_exposure>>

Next ==
  \/ \E s \in Symbols, v \in Values : update_position(s, v)
  \/ \E p \in RiskParams : set_risk_params(p)

-----------------------------------------------------------------------------
(* Queries *)

\* The concentration is the fraction squares / gross^2.
compute_exposure ==
  LET known == Known(symbol_values)
      long == {s \in known : symbol_values[s] > 0}
  IN [gross_exposure |-> gross_exposure,
      net_exposure |-> net_exposure,
      long_exposure |-> Total(Sizes(symbol_values, long)),
      short_exposure |-> Total(Sizes(symbol_values, known \ long)),
      squares |-> Total([s \in known |-> symbol_values[s] * symbol_values[s]])]

\* The symbol plays no role.
check_position_limit(market_value) == Magnitude(market_value) <= params.max_gross

\* Mutant: the stop loss itself is let pass.
check_daily_stop_loss_Inclusive(daily_pnl) == daily_pnl >= -params.daily_stop_loss

check_daily_stop_loss(daily_pnl) == daily_pnl > -params.daily_stop_loss

check_drawdown(current_drawdown) == current_drawdown < params.max_drawdown
=============================================================================
