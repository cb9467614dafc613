------------------------------ MODULE MCJournal ------------------------------
(***************************************************************************)
(* Two processes, batches that overlap each other and the single trades,   *)
(* and one that contains a duplicate itself.                               *)
(***************************************************************************)
EXTENDS TradeJournal

CONSTANTS p1, p2

MCConnections == {p1, p2}

MCTradeIds == 1 .. 3

MCBatches == {<< >>, <<1, 2>>, <<3, 2>>, <<1, 1>>}
=============================================================================
