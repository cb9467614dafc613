------------------------------- MODULE MCMarket -------------------------------
(***************************************************************************)
(* Two symbols and three ticks, two of them at the same time.  A session   *)
(* that overlaps the one of the constructor, and times of the next day     *)
(* before, in and at the end of both.  The files: out of order with an     *)
(* equal time, and a line that does not parse behind two that are out of   *)
(* order.                                                                  *)
(***************************************************************************)
EXTENDS MarketData

CONSTANTS EUR, USD

MCSymbols == {EUR, USD}

Early == [timestamp_ns |-> 0, symbol |-> EUR, last |-> 1]

Late == [timestamp_ns |-> 2, symbol |-> EUR, last |-> 2]

Other == [timestamp_ns |-> 2, symbol |-> USD, last |-> 1]

MCTicks == {Early, Late, Other}

MCFiles == {<<Late, Early, Other>>, <<Late, Early, Malformed>>}

Between(open, close) == [b \in Bounds |-> IF b = "open" THEN open ELSE close]

MCSessions == {Between(12, 20)}

MCQuestions == {24 + 8, 24 + 13, 24 + 20}
=============================================================================
