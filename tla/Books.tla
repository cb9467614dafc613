-------------------------------- MODULE Books --------------------------------
(***************************************************************************)
(* Two keepers of one book: the C++ tracker and the Python client are fed  *)
(* the same trades, and a ledger records what was really paid and received *)
(* for them.  The ledger is not in the code; it is what a position and its *)
(* profit are accounted against.                                           *)
(***************************************************************************)
EXTENDS PositionTracker, FiniteSetsExt

CONSTANT MaxIngested   \* bound: trades of all symbols

\* The keys of a map are finitely many.
ASSUME SymbolsAssumption == IsFiniteSet(Symbols)

\* No position outgrows the word it is cast to.
ASSUME PositionsFitAssumption == \A q \in Quantities : MaxTrades * q < Word

VARIABLES
  client_positions, pnl,  \* RiskClient
  ledger                  \* per symbol: what the trades cost, and what they did

Client == INSTANCE RiskClient

booksVars == <<trackerVars, client_positions, pnl, ledger>>

(* cash: received for sales less paid for purchases, fees apart.           *)
(* charged: the fees of the trades that did not open a position.           *)
(* flipped, overreduced, added: whether a trade has crossed zero, has left *)
(* a long smaller than the trade that reduced it, or has added to a        *)
(* position at a price other than its average.                             *)
EmptyLedger == [cash |-> 0, charged |-> 0, flipped |-> FALSE,
                overreduced |-> FALSE, added |-> FALSE]

Recorded(entry, trade) ==
  LET net == positions[trade.symbol].net_quantity
      signed == SignedQuantity(trade)
  IN [cash |-> entry.cash - signed * trade.price,
      charged |-> entry.charged + (IF net = 0 THEN 0 ELSE trade.fees),
      flipped |-> entry.flipped \/ SameSign(-net, net + signed),
      overreduced |-> entry.overreduced
                        \/ (signed < 0 /\ net + signed > 0
                              /\ net + signed < trade.quantity),
      added |-> entry.added
                  \/ (SameSign(net, signed)
                        /\ ~Same(Whole(trade.price),
                                 positions[trade.symbol].avg_entry_price))]

BooksInit ==
  /\ Init
  /\ Client!Init
  /\ ledger = [s \in Symbols |-> EmptyLedger]

Ingested == MapThenSumSet(LAMBDA s : positions[s].trade_count, Symbols)

Ingest(trade) ==
  /\ Ingested < MaxIngested
  /\ update_position(trade)
  /\ Client!ingest_trade(trade)
  /\ ledger' = [ledger EXCEPT ![trade.symbol] = Recorded(@, trade)]

SetPrice(s, price) ==
  /\ set_price(s, price)
  /\ UNCHANGED <<client_positions, pnl, ledger>>

SetLotMatchMethod(method) ==
  /\ set_lot_match_method(method)
  /\ UNCHANGED <<client_positions, pnl, ledger>>

BooksNext ==
  \/ \E trade \in Trade : Ingest(trade)
  \/ \E s \in Symbols, price \in Prices : SetPrice(s, price)
  \/ \E method \in LotMethods : SetLotMatchMethod(method)

BooksSpec == BooksInit /\ [][BooksNext]_booksVars

------------------------------------------------------------------------------
BooksTypeOK ==
  /\ TypeOK
  /\ Client!TypeOK
  /\ ledger \in [Symbols -> [cash : Int, charged : Nat, flipped : BOOLEAN,
                             overreduced : BOOLEAN, added : BOOLEAN]]

CostBasis(pos) == Times(pos.net_quantity, pos.avg_entry_price)

(* The accounting identity: what a position cost is what is still held at  *)
(* its entry price less what was realised.                                 *)
Balances(pos, entry, realized) ==
  Same(realized, Plus(Whole(entry.cash), CostBasis(pos)))

(* As long as no trade flipped a position through zero or left a long      *)
(* smaller than the sale that reduced it, the tracker's realised profit is *)
(* exactly the cash of the trades plus the cost of what is held, less the  *)
(* fees of the trades that did not open a position.                        *)
LedgerIdentity ==
  \A s \in Symbols :
    LET pos == positions[s]
        entry == ledger[s]
    IN ~entry.flipped /\ ~entry.overreduced =>
         Balances(pos, entry, Plus(pos.realized_pnl, Whole(entry.charged)))

(* The two keepers hold the same position at the same entry price after    *)
(* the same trades, flips included, although they compute it differently.  *)
KeepersAgree ==
  /\ BooksTypeOK
  /\ \A s \in Symbols :
       /\ positions[s].net_quantity = client_positions[s].net_quantity
       /\ Same(positions[s].avg_entry_price, client_positions[s].avg_entry_price)
       /\ client_positions[s].known =>
            positions[s].trade_count = client_positions[s].trade_count + 1

(* The Python client balances until a trade flips a position or adds to    *)
(* one away from its average price; a sale that leaves a long smaller than *)
(* itself, which the tracker misprices, does not disturb it.               *)
ClientIdentity ==
  \A s \in Symbols :
    LET pos == client_positions[s]
        entry == ledger[s]
    IN ~entry.flipped /\ ~entry.added => Balances(pos, entry, pos.realized_pnl)

(* The total the client reports is the value of the account: the cash of   *)
(* all trades, and every position at its last traded price, less all fees. *)
ClientTotal ==
  (\A s \in Symbols : ~ledger[s].flipped /\ ~ledger[s].added) =>
    LET worth(s) == ledger[s].cash
          + client_positions[s].net_quantity * client_positions[s].current_price
        gross == MapThenSumSet(worth, Symbols)
    IN Same(pnl.total, Whole(gross - pnl.fees))

------------------------------------------------------------------------------
(* README.md:56 and :49: the realised profit of a trade is its exit price  *)
(* less its entry price, times the quantity and the direction.  Once a     *)
(* position is flat, that is the cash its trades brought in, whichever     *)
(* lots they were matched to.                                              *)
FlatRealizesCash ==
  \A s \in Symbols :
    positions[s].net_quantity = 0 =>
      Same(Plus(positions[s].realized_pnl, Whole(ledger[s].charged)),
           Whole(ledger[s].cash))
=============================================================================
