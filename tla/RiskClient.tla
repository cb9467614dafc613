------------------------------ MODULE RiskClient ------------------------------
(***************************************************************************)
(* RiskEngineClient (python/risk/client.py): the position keeper of the    *)
(* Python side, which the replay engine and the dashboard read.  It is     *)
(* meant to follow the same trades as the C++ tracker with its own         *)
(* arithmetic.  ingest_trade runs in one thread and is one action, with    *)
(* the refresh of every position and of the PnL snapshot it ends in.       *)
(***************************************************************************)
EXTENDS Trading, FiniteSetsExt

CONSTANT MaxTrades   \* bound: trades of one symbol

VARIABLES
  client_positions,  \* _positions
  pnl                \* _pnl

clientVars == <<client_positions, pnl>>

\* Not an entry of _positions yet.
Unknown == [known |-> FALSE, net_quantity |-> 0, avg_entry_price |-> Zero,
            realized_pnl |-> Zero, unrealized_pnl |-> Zero,
            current_price |-> 0, trade_count |-> 0]

Position ==
  [known : BOOLEAN, net_quantity : Int, avg_entry_price : Fraction,
   realized_pnl : Fraction, unrealized_pnl : Fraction, current_price : Nat,
   trade_count : Nat]

PnLSnapshot ==
  [realized : Fraction, unrealized : Fraction, total : Fraction, fees : Nat]

Init ==
  /\ client_positions = [s \in Symbols |-> Unknown]
  /\ pnl = [realized |-> Zero, unrealized |-> Zero, total |-> Zero, fees |-> 0]

(* The first trade of a symbol creates the position with a trade count of 0. *)
Opened(trade) ==
  [Unknown EXCEPT !.known = TRUE,
                  !.net_quantity = SignedQuantity(trade),
                  !.avg_entry_price = Whole(trade.price),
                  !.current_price = trade.price]

(* Mutant: the direction of the closed position is ignored. *)
ClosedGain_Undirected(pos, trade) ==
  LET close_qty == Smaller(trade.quantity, Abs(pos.net_quantity))
  IN Times(close_qty, Minus(Whole(trade.price), pos.avg_entry_price))

(* Whatever the two directions are, the smaller of the two quantities is   *)
(* taken to be closed at the trade's price.                                *)
ClosedGain(pos, trade) ==
  LET close_qty == Smaller(trade.quantity, Abs(pos.net_quantity))
  IN IF close_qty > 0
       THEN Times(Sign(pos.net_quantity) * close_qty,
                  Minus(Whole(trade.price), pos.avg_entry_price))
       ELSE Zero

(* Mutant: a position that was closed and is opened again is not noticed. *)
AverageEntry_NoReopen(pos, trade) ==
  LET old_net == pos.net_quantity
      new_qty == SignedQuantity(trade)
      net == old_net + new_qty
  IN CASE net = 0 -> Zero
       [] net # 0 /\ SameSign(old_net, new_qty) ->
            Over(Plus(Times(Abs(old_net), pos.avg_entry_price),
                      Whole(trade.quantity * trade.price)),
                 Abs(net))
       [] OTHER -> pos.avg_entry_price

AverageEntry(pos, trade) ==
  LET old_net == pos.net_quantity
      new_qty == SignedQuantity(trade)
      net == old_net + new_qty
  IN CASE net = 0 -> Zero
       [] net # 0 /\ old_net = 0 -> Whole(trade.price)
       [] net # 0 /\ old_net # 0 /\ SameSign(old_net, new_qty) ->
            Over(Plus(Times(Abs(old_net), pos.avg_entry_price),
                      Whole(trade.quantity * trade.price)),
                 Abs(net))
       [] OTHER -> pos.avg_entry_price

Updated(pos, trade) ==
  [pos EXCEPT !.net_quantity = @ + SignedQuantity(trade),
              !.trade_count = @ + 1,
              !.realized_pnl = Plus(@, ClosedGain(pos, trade)),
              !.avg_entry_price = AverageEntry(pos, trade),
              !.current_price = trade.price]

Refreshed(pos) ==
  [pos EXCEPT !.unrealized_pnl =
     IF pos.net_quantity = 0
       THEN Zero
       ELSE Times(Sign(pos.net_quantity) * Abs(pos.net_quantity),
                  Minus(Whole(pos.current_price), pos.avg_entry_price))]

TotalOver(book, value(_)) ==
  FoldSet(LAMBDA s, sum : Plus(value(book[s]), sum), Zero, Symbols)

Snapshot(book, fees) ==
  LET realized == TotalOver(book, LAMBDA p : p.realized_pnl)
      unrealized == TotalOver(book, LAMBDA p : p.unrealized_pnl)
  IN [realized |-> realized,
      unrealized |-> unrealized,
      total |-> Minus(Plus(realized, unrealized), Whole(fees)),
      fees |-> fees]

(* Mutant: the snapshot is refreshed before the position is stored. *)
ingest_trade_StaleSnapshot(trade) ==
  LET s == trade.symbol
      pos == client_positions[s]
      next == IF pos.known THEN Updated(pos, trade) ELSE Opened(trade)
  IN /\ pos.trade_count < MaxTrades
     /\ client_positions' = [client_positions EXCEPT ![s] = Refreshed(next)]
     /\ pnl' = Snapshot(client_positions, pnl.fees + trade.fees)

ingest_trade(trade) ==
  LET s == trade.symbol
      pos == client_positions[s]
      next == IF pos.known THEN Updated(pos, trade) ELSE Opened(trade)
      book == [r \in Symbols |->
                 Refreshed(IF r = s THEN next ELSE client_positions[r])]
  IN /\ pos.trade_count < MaxTrades
     /\ client_positions' = book
     /\ pnl' = Snapshot(book, pnl.fees + trade.fees)

Next == \E trade \in Trade : ingest_trade(trade)

Spec == Init /\ [][Next]_clientVars

TypeOK ==
  /\ client_positions \in [Symbols -> Position]
  /\ pnl \in PnLSnapshot
=============================================================================
