---------------------------- MODULE PnLCalculator ----------------------------
(***************************************************************************)
(* The PnL calculator (src/pnl_calculator.cpp): profit of the account      *)
(* since inception and since the last daily reset, its attribution, and    *)
(* the drawdown of its running profit.  Every method holds the mutex, so   *)
(* every method is one action.  Entry prices are whole ticks here: the     *)
(* calculator only multiplies them by a quantity and adds the results.     *)
(***************************************************************************)
EXTENDS Integers, Sequences, Instruments

CONSTANTS
  Strategies,
  Hours,          \* timestamps of trades, in whole hours
  Quantities, Prices, Fees,
  EntryPrices,    \* entry_price arguments; 0 stands for "not known"
  NetQuantities,  \* net_qty arguments
  MaxCalls        \* bound: trades and marks recorded between two reset_all

ASSUME AmountsAssumption ==
  /\ Quantities \subseteq Nat \ {0}
  /\ Prices \subseteq Nat \ {0}
  /\ Fees \subseteq Nat
  /\ EntryPrices \subseteq Nat
  /\ NetQuantities \subseteq Int

ASSUME HoursAssumption == Hours \subseteq Nat

ASSUME MaxCallsAssumption == MaxCalls \in Nat

VARIABLES
  cum_realized, cum_unrealized, cum_fees,
  day_realized, day_unrealized, day_fees,
  peak_pnl, current_pnl, max_drawdown,
  realized_by_symbol, realized_by_strategy, realized_by_hour,
                      \* maps that grow by the keys they meet
  unrealized_map,     \* a symbol without an entry counts as 0
  snapshots           \* history_

cumulative == <<cum_realized, cum_unrealized, cum_fees>>
daily == <<day_realized, day_unrealized, day_fees>>
drawdown == <<peak_pnl, current_pnl, max_drawdown>>
attribution == <<realized_by_symbol, realized_by_strategy, realized_by_hour>>

calculatorVars ==
  <<cumulative, daily, drawdown, attribution, unrealized_map, snapshots>>

RecordedTrade ==
  [symbol : Symbols, strategy : Strategies, hour : Hours,
   side : {"Buy", "Sell"}, quantity : Quantities, price : Prices, fees : Fees]

Buckets == 0 .. 23

Nothing(keys) == [k \in keys |-> 0]

Entry(map, key) == IF key \in DOMAIN map THEN map[key] ELSE 0

(* map[key] += amount: operator[] creates an entry that is missing. *)
Added(map, key, amount) ==
  [k \in DOMAIN map \cup {key} |->
     IF k = key THEN Entry(map, key) + amount ELSE map[k]]

IsMap(map, keys) ==
  /\ map = [k \in DOMAIN map |-> map[k]]
  /\ DOMAIN map \subseteq keys
  /\ \A k \in DOMAIN map : map[k] \in Int

Init ==
  /\ cum_realized = 0 /\ cum_unrealized = 0 /\ cum_fees = 0
  /\ day_realized = 0 /\ day_unrealized = 0 /\ day_fees = 0
  /\ peak_pnl = 0 /\ current_pnl = 0 /\ max_drawdown = 0
  /\ realized_by_symbol = Nothing({})
  /\ realized_by_strategy = Nothing({})
  /\ realized_by_hour = Nothing({})
  /\ unrealized_map = Nothing(Symbols)
  /\ snapshots = << >>

------------------------------------------------------------------------------
realized_pnl(trade, entry_price) ==
  (IF trade.side = "Sell" THEN 1 ELSE -1)
    * trade.quantity * (trade.price - entry_price)

(* sign * abs(net_qty), which is net_qty again. *)
unrealized_pnl(net_qty, avg_entry, current_price) ==
  net_qty * (current_price - avg_entry)

(* Mutant: the drawdown of the moment overwrites the deepest one. *)
update_peak_Forgets(current) ==
  LET peak == IF current > peak_pnl THEN current ELSE peak_pnl
  IN /\ current_pnl' = current
     /\ peak_pnl' = peak
     /\ max_drawdown' = peak - current

(* The running profit leaves out what was realised and charged today. *)
update_peak(current) ==
  LET peak == IF current > peak_pnl THEN current ELSE peak_pnl
      dd == peak - current
  IN /\ current_pnl' = current
     /\ peak_pnl' = peak
     /\ max_drawdown' = IF dd > max_drawdown THEN dd ELSE max_drawdown

(* Mutant: the hour is not reduced to the hour of the day. *)
HourBucket_Absolute(hour) == hour

HourBucket(hour) == hour % 24

Realized(trade, entry_price) ==
  IF entry_price > 0 THEN realized_pnl(trade, entry_price) ELSE 0

record_trade(trade, entry_price) ==
  LET rpnl == Realized(trade, entry_price)
  IN /\ Len(snapshots) < MaxCalls
     /\ day_realized' = day_realized + rpnl
     /\ day_fees' = day_fees + trade.fees
     /\ update_peak(cum_realized + cum_unrealized - cum_fees)
     /\ realized_by_symbol' = Added(realized_by_symbol, trade.symbol, rpnl)
     /\ realized_by_strategy' = Added(realized_by_strategy, trade.strategy, rpnl)
     /\ realized_by_hour' = Added(realized_by_hour, HourBucket(trade.hour), rpnl)
     /\ snapshots' =
          Append(snapshots,
                 [realized |-> day_realized', unrealized |-> day_unrealized,
                  total |-> day_realized' + day_unrealized - day_fees',
                  fees |-> day_fees'])
     /\ UNCHANGED <<cumulative, day_unrealized, unrealized_map>>

(* Mutant: the previous mark of the symbol is not taken off. *)
MarkChange_NoOldMark(symbol, upnl) == upnl

MarkChange(symbol, upnl) == upnl - unrealized_map[symbol]

(* The change of a mark goes into the day's figure and the cumulative one. *)
update_unrealized(symbol, net_qty, avg_entry, current_price) ==
  LET upnl == unrealized_pnl(net_qty, avg_entry, current_price)
      change == MarkChange(symbol, upnl)
  IN /\ unrealized_map' = [unrealized_map EXCEPT ![symbol] = upnl]
     /\ cum_unrealized' = cum_unrealized + change
     /\ day_unrealized' = day_unrealized + change
     /\ update_peak(cum_realized + cum_unrealized' - cum_fees)
     /\ UNCHANGED <<cum_realized, cum_fees, day_realized, day_fees,
                    attribution, snapshots>>

(* Mutant: the fees of the day are cleared but not carried over. *)
daily_pnl_reset_DropsFees ==
  /\ cum_realized' = cum_realized + day_realized
  /\ cum_unrealized' = cum_unrealized + day_unrealized
  /\ day_realized' = 0
  /\ day_unrealized' = 0
  /\ day_fees' = 0
  /\ UNCHANGED <<cum_fees, drawdown, attribution, unrealized_map, snapshots>>

daily_pnl_reset ==
  /\ cum_realized' = cum_realized + day_realized
  /\ cum_unrealized' = cum_unrealized + day_unrealized
  /\ cum_fees' = cum_fees + day_fees
  /\ day_realized' = 0
  /\ day_unrealized' = 0
  /\ day_fees' = 0
  /\ UNCHANGED <<drawdown, attribution, unrealized_map, snapshots>>

reset_all ==
  /\ cum_realized' = 0 /\ cum_unrealized' = 0 /\ cum_fees' = 0
  /\ day_realized' = 0 /\ day_unrealized' = 0 /\ day_fees' = 0
  /\ peak_pnl' = 0 /\ current_pnl' = 0 /\ max_drawdown' = 0
  /\ realized_by_symbol' = Nothing({})
  /\ realized_by_strategy' = Nothing({})
  /\ realized_by_hour' = Nothing({})
  /\ unrealized_map' = Nothing(Symbols)
  /\ snapshots' = << >>

Next ==
  \/ \E trade \in RecordedTrade, entry_price \in EntryPrices :
       record_trade(trade, entry_price)
  \/ \E symbol \in Symbols, net_qty \in NetQuantities,
        avg_entry \in EntryPrices, price \in Prices :
       update_unrealized(symbol, net_qty, avg_entry, price)
  \/ daily_pnl_reset
  \/ reset_all

Spec == Init /\ [][Next]_calculatorVars

------------------------------------------------------------------------------
total_pnl ==
  cum_realized + day_realized + cum_unrealized + day_unrealized
    - cum_fees - day_fees

cumulative_realized == cum_realized + day_realized

cumulative_unrealized == cum_unrealized + day_unrealized

total_fees == cum_fees + day_fees

current_drawdown ==
  IF peak_pnl <= 0 \/ peak_pnl < current_pnl THEN 0 ELSE peak_pnl - current_pnl

(* attribute_by_symbol, _strategy and _hour: the total of each entry.  The  *)
(* maps of unrealised profit they add to it are never written.              *)
attribute_by(realized) == [k \in DOMAIN realized |-> realized[k] + 0]

TypeOK ==
  /\ {cum_realized, cum_unrealized, day_realized, day_unrealized,
      current_pnl} \subseteq Int
  /\ {cum_fees, day_fees, peak_pnl, max_drawdown} \subseteq Nat
  /\ IsMap(realized_by_symbol, Symbols)
  /\ IsMap(realized_by_strategy, Strategies)
  /\ IsMap(realized_by_hour, Buckets)
  /\ unrealized_map \in [Symbols -> Int]
  /\ snapshots \in Seq([realized : Int, unrealized : Int, total : Int, fees : Nat])
=============================================================================
