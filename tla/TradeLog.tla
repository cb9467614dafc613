------------------------------- MODULE TradeLog -------------------------------
(***************************************************************************)
(* What a trade journal promises (README.md:122,125 of the repository):    *)
(* an append-only log keyed by trade id.  Calls offer sets of trades.  A   *)
(* set enters the log whole or not at all, and only while none of its      *)
(* trades is in it; what entered stays as it is.  A call may be refused,   *)
(* and then never enters, or be confirmed, and then has entered; a call    *)
(* that is neither may enter late, or together with others.                *)
(***************************************************************************)
EXTENDS Naturals, FiniteSets, SequencesExt

CONSTANTS TradeIds

VARIABLES
  log,        \* the call that entered each trade of the log
  offered,    \* the trades of every call made
  refused,    \* calls that will not enter
  confirmed   \* calls whose caller was told that they entered

vars == <<log, offered, refused, confirmed>>

Init ==
  /\ DOMAIN log = {}
  /\ offered = << >>
  /\ refused = {} /\ confirmed = {}

Offer ==
  /\ \E ids \in SUBSET TradeIds : offered' = Append(offered, ids)
  /\ UNCHANGED <<log, refused, confirmed>>

Calls == DOMAIN offered

Entered(n) == \A id \in offered[n] : id \in DOMAIN log /\ log[id] = n

Refuse ==
  /\ \E n \in Calls \ confirmed :
       (Entered(n) => offered[n] = {}) /\ refused' = refused \cup {n}
  /\ UNCHANGED <<log, offered, confirmed>>

\* The calls ns enter in one step, each trade by exactly one of them.
Enter(ns) ==
  LET new == UNION {offered[n] : n \in ns}
  IN /\ \A id \in new : id \notin DOMAIN log
     /\ \A m, n \in ns : m # n => offered[m] \cap offered[n] = {}
     /\ log' = [id \in DOMAIN log \cup new |->
                  IF id \in new THEN CHOOSE n \in ns : id \in offered[n]
                  ELSE log[id]]

Grow ==
  /\ \E ns \in SUBSET (Calls \ refused) :
       /\ Enter(ns)
       /\ \E told \in SUBSET ns : confirmed' = confirmed \cup told
  /\ UNCHANGED <<offered, refused>>

Next == Offer \/ Refuse \/ Grow

Spec == Init /\ [][Next]_vars
=============================================================================
