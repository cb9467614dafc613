------------------------------- MODULE Positions -------------------------------
(***************************************************************************)
(* A position and what a trade or a price does to it                       *)
(* (include/risk/position.h and the arithmetic of                          *)
(* src/position_tracker.cpp).                                              *)
(***************************************************************************)
EXTENDS TrackerParameters

CONSTANT Word   \* 2^64: the modulus of uint64_t

ASSUME WordAssumption == Word \in Nat \ {0}

PositionDetail ==
  [net_quantity : Int, avg_entry_price : Fraction, realized_pnl : Fraction,
   unrealized_pnl : Fraction, current_price : Nat, trade_count : Nat]

EmptyPosition ==
  [net_quantity |-> 0, avg_entry_price |-> Zero, realized_pnl |-> Zero,
   unrealized_pnl |-> Zero, current_price |-> 0, trade_count |-> 0]

------------------------------------------------------------------------------
(* The profit of a trade, against the position after its quantity was      *)
(* added but before its entry price was touched.                           *)

(* static_cast<uint64_t> of a 64-bit signed integer. *)
AsUnsigned(n) == n % Word

(* Mutant: the price of the trade is taken off the entry price. *)
PriceGain_Swapped(trade, avg) == Minus(avg, Whole(trade.price))

PriceGain(trade, avg) == Minus(Whole(trade.price), avg)

(* Reducing a position: the quantity taken to be closed is bounded by what *)
(* is left of the position, and for a short by what is left of it read as  *)
(* an unsigned number.                                                     *)
ReducedQuantity(trade, net) == Smaller(trade.quantity, AsUnsigned(net))

realized_pnl_for_trade(trade, net, avg) ==
  LET signed == SignedQuantity(trade)
  IN CASE net = signed -> Zero
       [] net # signed /\ net = 0 ->
            Minus(Times(-Sign(signed) * trade.quantity, PriceGain(trade, avg)),
                  Whole(trade.fees))
       [] net # signed /\ SameSign(signed, net) -> Whole(-trade.fees)
       [] OTHER ->
            Minus(Times(Sign(net) * ReducedQuantity(trade, net),
                        PriceGain(trade, avg)),
                  Whole(trade.fees))

(* Mutant: closing a position does not clear its entry price. *)
EntryPrice_NotCleared(trade, old_net, net, avg) ==
  LET signed == SignedQuantity(trade)
  IN CASE old_net = 0 -> Whole(trade.price)
       [] old_net # 0 /\ SameSign(old_net, signed) ->
            Over(Plus(Times(old_net, avg), Whole(signed * trade.price)), net)
       [] OTHER -> avg

(* The entry price after a trade: a flip through zero keeps the old one. *)
EntryPrice(trade, old_net, net, avg) ==
  LET signed == SignedQuantity(trade)
  IN CASE net = 0 -> Zero
       [] net # 0 /\ old_net = 0 -> Whole(trade.price)
       [] net # 0 /\ old_net # 0 /\ SameSign(old_net, signed) ->
            Over(Plus(Times(old_net, avg), Whole(signed * trade.price)), net)
       [] OTHER -> avg

PositionAfter(pos, trade) ==
  LET net == pos.net_quantity + SignedQuantity(trade)
      avg == pos.avg_entry_price
  IN [pos EXCEPT
        !.net_quantity = net,
        !.trade_count = @ + 1,
        !.realized_pnl = Plus(@, realized_pnl_for_trade(trade, net, avg)),
        !.avg_entry_price = EntryPrice(trade, pos.net_quantity, net, avg)]

(* PositionDetail::update_unrealized.  The code multiplies the signed       *)
(* quantity by its own sign.                                                *)
Marked(pos) ==
  [pos EXCEPT !.unrealized_pnl =
     IF pos.net_quantity = 0
       THEN Zero
       ELSE Times(Sign(pos.net_quantity) * pos.net_quantity,
                  Minus(Whole(pos.current_price), pos.avg_entry_price))]
=============================================================================
