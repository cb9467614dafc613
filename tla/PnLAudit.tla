------------------------------- MODULE PnLAudit -------------------------------
(***************************************************************************)
(* The PnL calculator with what an auditor would write down beside it: the *)
(* curve of its running profit, the marks the day began with and the       *)
(* profit of every symbol, strategy and hour.  None of it is in the code.  *)
(***************************************************************************)
EXTENDS PnLCalculator, Sums

(* What is totalled over keys is finite, as the maps are. *)
ASSUME KeysAssumption ==
  IsFiniteSet(Symbols) /\ IsFiniteSet(Strategies) /\ IsFiniteSet(Hours)

VARIABLES
  curve,    \* current_pnl after every trade and mark, from 0
  opening,  \* unrealized_map at the last daily reset
  booked    \* profit realised under each key

vars == <<calculatorVars, curve, opening, booked>>

Keys == Symbols \X Strategies \X Hours

AuditInit ==
  Init /\ curve = <<0>> /\ opening = Nothing(Symbols) /\ booked = Nothing(Keys)

Record(trade, entry_price) ==
  /\ Len(curve) <= MaxCalls
  /\ record_trade(trade, entry_price)
  /\ curve' = Append(curve, current_pnl')
  /\ booked' = [booked EXCEPT ![<<trade.symbol, trade.strategy, trade.hour>>] =
                   @ + Realized(trade, entry_price)]
  /\ UNCHANGED opening

Mark(symbol, net_qty, avg_entry, price) ==
  /\ Len(curve) <= MaxCalls
  /\ update_unrealized(symbol, net_qty, avg_entry, price)
  /\ curve' = Append(curve, current_pnl')
  /\ UNCHANGED <<opening, booked>>

StartDay ==
  /\ daily_pnl_reset
  /\ opening' = unrealized_map
  /\ UNCHANGED <<curve, booked>>

StartOver ==
  /\ reset_all
  /\ curve' = <<0>>
  /\ opening' = Nothing(Symbols)
  /\ booked' = Nothing(Keys)

AuditNext ==
  \/ \E trade \in RecordedTrade, entry_price \in EntryPrices :
       Record(trade, entry_price)
  \/ \E symbol \in Symbols, net_qty \in NetQuantities,
        avg_entry \in EntryPrices \ {0}, price \in Prices :
       Mark(symbol, net_qty, avg_entry, price)
  \/ StartDay
  \/ StartOver

AuditSpec == AuditInit /\ [][AuditNext]_vars

------------------------------------------------------------------------------
AccountPromise ==
  INSTANCE Account WITH
    booked <- cumulative_realized,
    paid <- total_fees,
    marks <- unrealized_map,
    openBooked <- cum_realized,
    openPaid <- cum_fees,
    openMarks <- opening

(* The figures of the day and since inception, read together, are those of *)
(* an account that starts every day where the last one ended: resetting    *)
(* the day neither loses nor invents profit, fees or marks.                *)
KeepsAccount == AccountPromise!Spec

(* Today's unrealised profit is what the marks of all symbols have gained  *)
(* since the day began, whatever marks and resets came before: a mark that *)
(* was made before the reset is not counted again after it.                *)
DayGainsSinceReset ==
  /\ TypeOK
  /\ day_unrealized = Total(unrealized_map) - Total(opening)

(* README.md:58 of the total: what is realised and unrealised, less fees.  *)
TotalAsDocumented ==
  total_pnl = cumulative_realized + Total(unrealized_map) - total_fees

Booked(keys) == Total([k \in keys |-> booked[k]])

OfSymbol(symbol) == {k \in Keys : k[1] = symbol}

OfStrategy(strategy) == {k \in Keys : k[2] = strategy}

AtHour(hour) == {k \in Keys : \E day \in 0 .. k[3] : k[3] = 24 * day + hour}

(* Each attribution gives a symbol, a strategy and an hour of the day the  *)
(* profit of its own trades, of whatever day, and the parts add up to what *)
(* was realised since inception, across daily resets.                      *)
AttributionConserves ==
  LET bySymbol == attribute_by(realized_by_symbol)
      byStrategy == attribute_by(realized_by_strategy)
      byHour == attribute_by(realized_by_hour)
  IN /\ \A s \in Symbols : Entry(bySymbol, s) = Booked(OfSymbol(s))
     /\ \A s \in Strategies : Entry(byStrategy, s) = Booked(OfStrategy(s))
     /\ \A h \in Buckets : Entry(byHour, h) = Booked(AtHour(h))
     /\ Total(bySymbol) = cumulative_realized
     /\ Total(byStrategy) = cumulative_realized
     /\ Total(byHour) = cumulative_realized

(* The drawdown kept trade by trade is the one computed afterwards from    *)
(* the whole curve: no fall from an earlier point to a later one is        *)
(* deeper, and some fall is as deep.                                       *)
DrawdownIsDeepestFall ==
  /\ \A i, j \in DOMAIN curve : i <= j => curve[i] - curve[j] <= max_drawdown
  /\ \E i, j \in DOMAIN curve : i <= j /\ curve[i] - curve[j] = max_drawdown
  /\ current_drawdown <= max_drawdown
=============================================================================
