------------------------------- MODULE MCLocks -------------------------------
(***************************************************************************)
(* Subscribers that call in one direction (a price reaches the tracker, a  *)
(* position reaches the alerts), one that calls the component that called  *)
(* it (an alert is acknowledged as it is raised), and two that call each   *)
(* other's component.                                                      *)
(***************************************************************************)
EXTENDS CallbackLocks, TLC

CONSTANTS t1, t2, t3

MCThreads == {t1, t2, t3}

MCComponents == {"market", "tracker", "alerts"}

Query(k) == [component |-> k, kind |-> "query"]

Notify(k) == [component |-> k, kind |-> "notify"]

Upward ==
  ("market" :> <<Query("tracker"), Notify("tracker")>>)
  @@ ("tracker" :> <<Notify("alerts")>>)
  @@ ("alerts" :> << >>)

MCWirings ==
  {Upward,
   [Upward EXCEPT !["alerts"] = <<Query("alerts")>>],
   [Upward EXCEPT !["alerts"] = <<Query("tracker")>>]}

=============================================================================
