------------------------------- MODULE MCReplay -------------------------------
(***************************************************************************)
(* Two replays of one file, and a third start after one of them ended or   *)
(* was killed.  The files: two trades of a book that is opened and flipped,*)
(* the same trade twice, and a line that does not parse.                   *)
(***************************************************************************)
EXTENDS Replay

CONSTANTS p1, p2, EUR

MCConnections == {p1, p2}

MCTradeIds == {1, 2}

MCSymbols == {EUR}

MCQuantities == {1, 3}

MCPrices == {2}

MCFees == {1}

Bought == [symbol |-> EUR, side |-> "Buy", quantity |-> 1, price |-> 2, fees |-> 1]

Sold == [Bought EXCEPT !.side = "Sell", !.quantity = 3]

Line(n, t) == [id |-> n, trade |-> t]

MCFiles ==
  {<<Line(1, Bought), Line(2, Sold)>>,
   <<Line(1, Bought), Line(1, Bought)>>,
   <<Line(1, Bought), Malformed>>}

MCLotMethods == {"FIFO"}
=============================================================================
