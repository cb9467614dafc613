------------------------------- MODULE MCSocket -------------------------------
(***************************************************************************)
(* Two connections, one after the other or at once, two subscribers, and   *)
(* four messages of which one does not parse.                              *)
(***************************************************************************)
EXTENDS RiskWebSocket

CONSTANTS c1, c2, panel, ticker

MCTasks == {c1, c2}

MCSubscribers == {panel, ticker}

MCMalformed == {3}
=============================================================================
