--------------------------- MODULE PositionTracker ---------------------------
(***************************************************************************)
(* The C++ position tracker (src/position_tracker.cpp): a mutex-protected  *)
(* map from symbols to positions and the snapshots kept for the audit      *)
(* trail.  Every method holds the mutex for its whole body, so every       *)
(* method is one action.  The subscriber that update_position calls before *)
(* it unlocks is modelled, with the mutex, in CallbackLocks.               *)
(***************************************************************************)
EXTENDS Positions, Sequences

VARIABLES
  positions,    \* positions_: a symbol without trades has no entry in the map
  history,      \* history_
  lot_method    \* lot_method_, which no other method reads

trackerVars == <<positions, history, lot_method>>

Init ==
  /\ positions = [s \in Symbols |-> EmptyPosition]
  /\ history = [s \in Symbols |-> << >>]
  /\ lot_method = "FIFO"

------------------------------------------------------------------------------
(* Mutant: the snapshot is taken before the position is updated. *)
update_position_SnapshotFirst(trade) ==
  LET s == trade.symbol
      pos == PositionAfter(positions[s], trade)
  IN /\ positions[s].trade_count < MaxTrades
     /\ positions' = [positions EXCEPT ![s] = pos]
     /\ history' = [history EXCEPT ![s] = Append(@, positions[s])]
     /\ UNCHANGED lot_method

update_position(trade) ==
  LET s == trade.symbol
      pos == PositionAfter(positions[s], trade)
  IN /\ positions[s].trade_count < MaxTrades
     /\ positions' = [positions EXCEPT ![s] = pos]
     /\ history' = [history EXCEPT ![s] = Append(@, pos)]
     /\ UNCHANGED lot_method

(* A price for a symbol that was never traded is dropped. *)
set_price(s, price) ==
  /\ positions[s].trade_count > 0
  /\ positions' = [positions EXCEPT ![s] = Marked([@ EXCEPT !.current_price = price])]
  /\ UNCHANGED <<history, lot_method>>

set_lot_match_method(method) ==
  /\ lot_method' = method
  /\ UNCHANGED <<positions, history>>

Next ==
  \/ \E trade \in Trade : update_position(trade)
  \/ \E s \in Symbols, price \in Prices : set_price(s, price)
  \/ \E method \in LotMethods : set_lot_match_method(method)

Spec == Init /\ [][Next]_trackerVars

------------------------------------------------------------------------------
TypeOK ==
  /\ positions \in [Symbols -> PositionDetail]
  /\ history \in [Symbols -> Seq(PositionDetail)]
  /\ lot_method \in LotMethods

WithinPrices(avg) ==
  \E low, high \in Prices : AtMost(Whole(low), avg) /\ AtMost(avg, Whole(high))

(* The entry price of an open position is an average of prices that were   *)
(* traded, whatever sequence of opens, adds, reductions, flips and closes  *)
(* led to it: it lies between two prices of the instrument.                *)
EntryWithinPrices ==
  \A s \in Symbols :
    IF positions[s].net_quantity = 0
      THEN positions[s].avg_entry_price = Zero
      ELSE WithinPrices(positions[s].avg_entry_price)

(* The audit trail of a symbol has one snapshot per trade, in order, and   *)
(* the last one still agrees with the live position on everything a price  *)
(* update leaves alone.                                                    *)
AuditTrail ==
  \A s \in Symbols :
    LET pos == positions[s]
        trail == history[s]
    IN /\ Len(trail) = pos.trade_count
       /\ \A i \in DOMAIN trail : trail[i].trade_count = i
       /\ trail # << >> =>
            LET last == trail[Len(trail)]
            IN /\ last.net_quantity = pos.net_quantity
               /\ last.avg_entry_price = pos.avg_entry_price
               /\ last.realized_pnl = pos.realized_pnl

(* Neither a trade nor a price ever rewrites a snapshot of the trail. *)
TrailAppendOnly ==
  [][\A s \in Symbols :
       \A i \in DOMAIN history[s] :
         i \in DOMAIN history'[s] /\ history'[s][i] = history[s][i]]_trackerVars
=============================================================================
