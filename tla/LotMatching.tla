----------------------------- MODULE LotMatching -----------------------------
(***************************************************************************)
(* Lot matching (src/lot_matching.cpp): the lots of a symbol, and three    *)
(* methods to match a trade against them.  A lot does not record whether   *)
(* it was bought or sold.  match, clear and clear_all hold the mutex;      *)
(* set_method does not, and falls between two of their calls here.         *)
(***************************************************************************)
EXTENDS TrackerParameters, SequencesExt

VARIABLES
  lots,      \* lots_: the deque of every symbol, front first
  method,    \* method_
  trades,    \* environment: trades matched so far, the source of trade_id
  last       \* environment: the last trade of each symbol, the lots it found
             \* and the result it was handed

lotsVars == <<lots, method, trades, last>>

Lot == [trade_id : Nat \ {0}, quantity : Nat \ {0}, price : Fraction,
        remaining : Nat \ {0}]

Result == [realized_pnl : Fraction, matched_pairs : Seq(Fraction \X Nat)]

NoResult == [realized_pnl |-> Zero, matched_pairs |-> << >>]

NewLot(id, quantity, price) ==
  [trade_id |-> id, quantity |-> quantity, price |-> price,
   remaining |-> quantity]

TotalRemaining(queue) == FoldLeft(LAMBDA sum, lot : sum + lot.remaining, 0, queue)

TotalCost(queue) ==
  FoldLeft(LAMBDA sum, lot : Plus(sum, Times(lot.remaining, lot.price)),
           Zero, queue)

LotsInit ==
  /\ lots = [s \in Symbols |-> << >>]
  /\ method \in LotMethods
  /\ trades = 0
  /\ last = [s \in Symbols |-> << >>]

------------------------------------------------------------------------------
(* Mutant: sales are priced as purchases. *)
Gain_SideIgnored(trade, lot, qty) ==
  Times(qty, Minus(lot.price, Whole(trade.price)))

Gain(trade, lot, qty) ==
  Times(-side_sign(trade.side) * qty, Minus(Whole(trade.price), lot.price))

(* The matching loop: lots are consumed in the order of the queue until    *)
(* the trade or the queue is used up, whatever side the lots came from.    *)
Untouched(trade) ==
  [left |-> trade.quantity, pnl |-> Zero, pairs |-> << >>, kept |-> << >>]

Consume(trade, acc, lot) ==
  LET qty == Smaller(acc.left, lot.remaining)
  IN IF acc.left = 0
       THEN [acc EXCEPT !.kept = Append(@, lot)]
       ELSE [left |-> acc.left - qty,
             pnl |-> Plus(acc.pnl, Gain(trade, lot, qty)),
             pairs |-> Append(acc.pairs, <<lot.price, qty>>),
             kept |-> IF qty = lot.remaining
                        THEN acc.kept
                        ELSE Append(acc.kept, [lot EXCEPT !.remaining = @ - qty])]

Consumed(trade, queue) ==
  FoldLeft(LAMBDA acc, lot : Consume(trade, acc, lot), Untouched(trade), queue)

(* What the loop leaves over becomes a lot; a purchase that was matched    *)
(* completely is stored once more with its whole quantity.                 *)
Residual(trade, id, left) ==
  CASE left > 0 -> <<NewLot(id, left, Whole(trade.price))>>
    [] left = 0 /\ trade.side = "Buy" ->
         <<NewLot(id, trade.quantity, Whole(trade.price))>>
    [] OTHER -> << >>

(* Mutant: whatever is stored goes to the front. *)
match_fifo_PushesFront(trade, id, queue) ==
  LET done == Consumed(trade, queue)
  IN [lots |-> Residual(trade, id, done.left) \o done.kept,
      result |-> [realized_pnl |-> done.pnl, matched_pairs |-> done.pairs]]

match_fifo(trade, id, queue) ==
  LET done == Consumed(trade, queue)
      new == Residual(trade, id, done.left)
  IN [lots |-> IF done.left > 0 THEN new \o done.kept ELSE done.kept \o new,
      result |-> [realized_pnl |-> done.pnl, matched_pairs |-> done.pairs]]

(* Mutant: LIFO takes from the front, too. *)
match_lifo_FromFront(trade, id, queue) ==
  LET done == Consumed(trade, queue)
  IN [lots |-> done.kept \o Residual(trade, id, done.left),
      result |-> [realized_pnl |-> done.pnl, matched_pairs |-> done.pairs]]

match_lifo(trade, id, queue) ==
  LET done == Consumed(trade, Reverse(queue))
  IN [lots |-> Reverse(done.kept) \o Residual(trade, id, done.left),
      result |-> [realized_pnl |-> done.pnl, matched_pairs |-> done.pairs]]

(* Mutant: what a partial sale leaves is carried at the price of the sale. *)
RemainderPrice_Traded(trade, avg) == Whole(trade.price)

RemainderPrice(trade, avg) == avg

(* All lots are folded into one at their average price.  A sale of more    *)
(* than the lots hold leaves a lot of the difference at that old average.  *)
match_avg_cost(trade, id, queue) ==
  LET total == TotalRemaining(queue)
      cost == TotalCost(queue)
      combined == total + SignedQuantity(trade)
      avg == Over(cost, total)
      matched == Smaller(trade.quantity, total)
      one(quantity, price) == <<NewLot(id, quantity, price)>>
      sold(quantity) ==
        [realized_pnl |-> Times(quantity, Minus(Whole(trade.price), avg)),
         matched_pairs |-> <<<<avg, quantity>>>>]
  IN CASE total = 0 ->
            [lots |-> one(trade.quantity, Whole(trade.price)),
             result |-> NoResult]
       [] total > 0 /\ combined = 0 ->
            [lots |-> << >>, result |-> sold(trade.quantity)]
       [] total > 0 /\ combined # 0 /\ trade.side = "Buy" ->
            [lots |-> one(combined,
                          Over(Plus(cost, Whole(trade.quantity * trade.price)),
                               combined)),
             result |-> NoResult]
       [] OTHER ->
            [lots |-> one(Abs(combined), RemainderPrice(trade, avg)),
             result |-> sold(matched)]

Matched(trade, id, queue) ==
  CASE method = "FIFO" -> match_fifo(trade, id, queue)
    [] method = "LIFO" -> match_lifo(trade, id, queue)
    [] method = "AverageCost" -> match_avg_cost(trade, id, queue)

------------------------------------------------------------------------------
match(trade) ==
  LET s == trade.symbol
      id == trades + 1
      outcome == Matched(trade, id, lots[s])
  IN /\ trades < MaxTrades
     /\ lots' = [lots EXCEPT ![s] = outcome.lots]
     /\ trades' = id
     /\ last' = [last EXCEPT ![s] = <<[trade |-> trade, method |-> method,
                                      before |-> lots[s], after |-> outcome.lots,
                                      result |-> outcome.result]>>]
     /\ UNCHANGED method

clear(s) ==
  /\ lots' = [lots EXCEPT ![s] = << >>]
  /\ UNCHANGED <<method, trades, last>>

clear_all ==
  /\ lots' = [s \in Symbols |-> << >>]
  /\ UNCHANGED <<method, trades, last>>

set_method(m) ==
  /\ method' = m
  /\ UNCHANGED <<lots, trades, last>>

LotsNext ==
  \/ \E trade \in Trade : match(trade)
  \/ \E s \in Symbols : clear(s)
  \/ clear_all
  \/ \E m \in LotMethods : set_method(m)

LotsSpec == LotsInit /\ [][LotsNext]_lotsVars
=============================================================================
