------------------------------- MODULE LotAudit -------------------------------
(***************************************************************************)
(* What lot matching must get right, with two things an auditor keeps      *)
(* beside it: the net quantity traded in every symbol since its lots were  *)
(* last cleared, and what those trades earned against the cash they moved. *)
(***************************************************************************)
EXTENDS LotMatching

VARIABLE books   \* per symbol: net, cash, earned, and whether it stayed long
                 \* and was matched at average cost throughout

auditVars == <<lotsVars, books>>

NothingTraded == [net |-> 0, cash |-> 0, earned |-> Zero, longAtAverage |-> TRUE]

AuditInit == LotsInit /\ books = [s \in Symbols |-> NothingTraded]

AfterTrade(book, trade, earned) ==
  LET net == book.net + SignedQuantity(trade)
  IN [net |-> net,
      cash |-> book.cash - SignedQuantity(trade) * trade.price,
      earned |-> Plus(book.earned, earned),
      longAtAverage |-> book.longAtAverage /\ net >= 0
                          /\ method = "AverageCost"]

Match(trade) ==
  /\ match(trade)
  /\ books' = [books EXCEPT ![trade.symbol] =
                 AfterTrade(@, trade,
                            last'[trade.symbol][1].result.realized_pnl)]

Clear(s) == clear(s) /\ books' = [books EXCEPT ![s] = NothingTraded]

ClearAll == clear_all /\ books' = [s \in Symbols |-> NothingTraded]

SetMethod(m) == set_method(m) /\ UNCHANGED books

AuditNext ==
  \/ \E trade \in Trade : Match(trade)
  \/ \E s \in Symbols : Clear(s)
  \/ ClearAll
  \/ \E m \in LotMethods : SetMethod(m)

AuditSpec == AuditInit /\ [][AuditNext]_auditVars

------------------------------------------------------------------------------
LotsTypeOK ==
  /\ lots \in [Symbols -> Seq(Lot)]
  /\ method \in LotMethods
  /\ trades \in 0 .. MaxTrades

(* Between calls no lot is empty or larger than it was, and lots stand in  *)
(* the order of the trades they came from: "oldest" and "newest" mean the  *)
(* ends of the deque although FIFO pushes its residual to the front, and   *)
(* however often the method is switched.                                   *)
LotsInTradeOrder ==
  /\ LotsTypeOK
  /\ \A s \in Symbols :
       LET queue == lots[s]
       IN /\ \A i \in DOMAIN queue :
               queue[i].remaining \in 1 .. queue[i].quantity
          /\ \A i, j \in DOMAIN queue :
               i < j => queue[i].trade_id < queue[j].trade_id

(* A queue of lots as its single units, each by its price. *)
Units(pairs) ==
  FoldLeft(LAMBDA units, pair : units \o [k \in 1 .. pair[2] |-> pair[1]],
           << >>, pairs)

AsPairs(queue) ==
  [i \in DOMAIN queue |-> <<queue[i].price, queue[i].remaining>>]

(* The reference definition of README.md:69-70: FIFO consumes the oldest   *)
(* units one by one and LIFO the newest, as many as the trade asks for.    *)
ConsumesInMethodOrder ==
  \A s \in Symbols : \A i \in DOMAIN last[s] :
    LET m == last[s][i]
        units == Units(AsPairs(m.before))
        order == IF m.method = "FIFO" THEN units ELSE Reverse(units)
        taken == Smaller(m.trade.quantity, Len(units))
    IN m.method # "AverageCost" =>
         Units(m.result.matched_pairs) = SubSeq(order, 1, taken)

(* A sale that the lots cover earns its proceeds less the cost of the lots *)
(* it used up, under every method: cost leaves the lots only as profit.    *)
CoveredSaleEarnsMargin ==
  \A s \in Symbols : \A i \in DOMAIN last[s] :
    LET m == last[s][i]
        used == Minus(TotalCost(m.before), TotalCost(m.after))
    IN m.trade.side = "Sell" /\ m.trade.quantity <= TotalRemaining(m.before) =>
         /\ Same(m.result.realized_pnl,
                 Minus(Whole(m.trade.quantity * m.trade.price), used))
         /\ TotalRemaining(m.after) =
              TotalRemaining(m.before) - m.trade.quantity

(* At average cost, and as long as no more is sold than was bought, the    *)
(* lots hold exactly the net quantity, and the profit taken so far is the  *)
(* cash of the trades plus the cost of what is left.                       *)
AverageCostBalances ==
  \A s \in Symbols :
    books[s].longAtAverage =>
      /\ TotalRemaining(lots[s]) = books[s].net
      /\ Same(books[s].earned,
              Plus(Whole(books[s].cash), TotalCost(lots[s])))
=============================================================================
