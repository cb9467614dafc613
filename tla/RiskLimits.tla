------------------------------ MODULE RiskLimits ------------------------------
(***************************************************************************)
(* RiskLimits (include/risk/risk_limits.h, src/risk_limits.cpp): a list of *)
(* position limits, one loss limit and one exposure limit, and the checks  *)
(* that compare a reading with them.  A limit without a symbol applies to  *)
(* all of them, next to a limit of the symbol's own.  add_position_limit   *)
(* appends without looking; set_position_limit changes the first entry of  *)
(* its symbol, and only that.  A threshold of 0 is off.                    *)
(*                                                                         *)
(* A list of breaches is the set of its entries without their messages.    *)
(* max_drawdown_duration_minutes, which nothing reads, is left out.        *)
(***************************************************************************)
EXTENDS Integers, SequencesExt, FiniteSetsExt, Instruments

CONSTANTS
  AnySymbol,        \* the empty symbol
  PositionBounds,   \* max_long, max_short and hard of the limits that are set
  LossLimits,
  ExposureLimits,
  MaxLimits,        \* bound: position limits in the list
  MaxReading        \* bound: quantities, values and profits that are checked

PositionBound == [max_long : Nat, max_short : Nat, hard : BOOLEAN]

ASSUME LimitsAssumption ==
  /\ AnySymbol \notin Symbols
  /\ PositionBounds \subseteq PositionBound
  /\ LossLimits \subseteq [daily_stop_loss : Nat, max_drawdown : Nat]
  /\ ExposureLimits \subseteq
       [max_gross : Nat, max_net : Nat, max_concentration : Nat]
  /\ MaxLimits \in Nat /\ MaxReading \in Nat

Named == Symbols \cup {AnySymbol}

PositionLimit == [symbol : Named, bound : PositionBound]

VARIABLES
  position_limits,   \* position_limits_
  loss_limit,        \* loss_limit_
  exposure_limit,    \* exposure_limit_; the concentration in percent
  book,              \* audit: the bound last set for a symbol, or first added
  doubled            \* audit: symbols that were added although they had a limit

limitVars == <<position_limits, loss_limit, exposure_limit, book, doubled>>

NoBound == [hard |-> FALSE]

LimitsInit ==
  /\ position_limits = << >>
  /\ loss_limit = [daily_stop_loss |-> 0, max_drawdown |-> 0]
  /\ exposure_limit = [max_gross |-> 0, max_net |-> 0, max_concentration |-> 0]
  /\ book = [s \in Named |-> NoBound]
  /\ doubled = {}

-----------------------------------------------------------------------------
Appended(s, bound) ==
  /\ Len(position_limits) < MaxLimits
  /\ position_limits' = Append(position_limits, [symbol |-> s, bound |-> bound])

add_position_limit(s, bound) ==
  /\ Appended(s, bound)
  /\ IF book[s] = NoBound
       THEN book' = [book EXCEPT ![s] = bound] /\ UNCHANGED doubled
       ELSE doubled' = doubled \cup {s} /\ UNCHANGED book
  /\ UNCHANGED <<loss_limit, exposure_limit>>

\* Mutant: the search takes what applies to a symbol, as the check does.
Found_Applies(s) ==
  SelectInSeq(position_limits, LAMBDA l : l.symbol \in {AnySymbol, s})

\* The first entry of the symbol, or 0.
Found(s) == SelectInSeq(position_limits, LAMBDA l : l.symbol = s)

set_position_limit(s, bound) ==
  /\ IF Found(s) = 0 THEN Appended(s, bound)
     ELSE position_limits' = [position_limits EXCEPT ![Found(s)].bound = bound]
  /\ book' = [book EXCEPT ![s] = bound]
  /\ UNCHANGED <<loss_limit, exposure_limit, doubled>>

set_loss_limit(limit) ==
  /\ loss_limit' = limit
  /\ UNCHANGED <<position_limits, exposure_limit, book, doubled>>

set_daily_stop_loss(amount) ==
  set_loss_limit([loss_limit EXCEPT !.daily_stop_loss = amount])

set_max_drawdown(amount) ==
  set_loss_limit([loss_limit EXCEPT !.max_drawdown = amount])

set_exposure_limit(limit) ==
  /\ exposure_limit' = limit
  /\ UNCHANGED <<position_limits, loss_limit, book, doubled>>

LimitsNext ==
  \/ \E s \in Named, bound \in PositionBounds :
       add_position_limit(s, bound) \/ set_position_limit(s, bound)
  \/ \E limit \in LossLimits :
       \/ set_loss_limit(limit)
       \/ set_daily_stop_loss(limit.daily_stop_loss)
       \/ set_max_drawdown(limit.max_drawdown)
  \/ \E limit \in ExposureLimits : set_exposure_limit(limit)

-----------------------------------------------------------------------------
(* Checks *)

Breach(type, value, limit, hard) ==
  [limit_type |-> type, current_value |-> value, limit_value |-> limit,
   is_hard |-> hard]

Magnitude(n) == IF n < 0 THEN -n ELSE n

Breached(bound, net_qty) ==
  LET side == IF net_qty > 0 THEN bound.max_long ELSE bound.max_short
  IN IF Magnitude(net_qty) > side
       THEN {Breach("position", Magnitude(net_qty), side, bound.hard)}
       ELSE {}

check_position(net_qty, s) ==
  UNION {Breached(l.bound, net_qty) :
           l \in {k \in ToSet(position_limits) : k.symbol \in {AnySymbol, s}}}

\* Breaches of a threshold that is on.
Exceeds(type, value, limit, hard) ==
  IF limit > 0 /\ value > limit THEN {Breach(type, value, limit, hard)} ELSE {}

\* Breaches of a floor that is on: a loss counts down from 0.
FallsBelow(type, value, floor, hard) ==
  IF floor < 0 /\ value < floor THEN {Breach(type, value, floor, hard)} ELSE {}

check_loss(daily_pnl, drawdown) ==
  FallsBelow("daily_stop_loss", daily_pnl, -loss_limit.daily_stop_loss, TRUE)
    \cup Exceeds("max_drawdown", drawdown, loss_limit.max_drawdown, TRUE)

\* The concentration is the fraction squares / gross^2, and soft.
check_exposure(gross, net, squares) ==
  Exceeds("gross_exposure", gross, exposure_limit.max_gross, TRUE)
    \cup Exceeds("net_exposure", Magnitude(net), exposure_limit.max_net, TRUE)
    \cup Exceeds("concentration", 100 * squares,
              exposure_limit.max_concentration * gross * gross, FALSE)

has_hard_breach(breaches) == \E b \in breaches : b.is_hard
=============================================================================
