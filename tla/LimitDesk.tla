------------------------------- MODULE LimitDesk -------------------------------
(***************************************************************************)
(* The two judges of limits side by side, as run_replay (src/main.cpp)     *)
(* holds them: RiskLimits is asked about positions, and about the profit   *)
(* and the exposure that MetricsEngine reports, which has checks of its    *)
(* own for the same thresholds.  Both take calls in any order.             *)
(***************************************************************************)
EXTENDS RiskLimits

CONSTANTS NoValue, Values, DefaultParams, RiskParams   \* MetricsEngine

VARIABLES symbol_values, gross_exposure, net_exposure, params

Metrics == INSTANCE MetricsEngine

ASSUME EngineAssumption ==
  /\ IsFiniteSet(Symbols)
  /\ Values \subseteq Int /\ NoValue \notin Values
  /\ RiskParams \cup {DefaultParams} \subseteq Metrics!Params

metricsVars == <<symbol_values, gross_exposure, net_exposure, params>>

deskVars == <<limitVars, metricsVars>>

DeskInit == LimitsInit /\ Metrics!Init

DeskNext ==
  \/ LimitsNext /\ UNCHANGED metricsVars
  \/ Metrics!Next /\ UNCHANGED limitVars

Desk == DeskInit /\ [][DeskNext]_deskVars

Exposure == Metrics!compute_exposure

ExposureBreaches ==
  check_exposure(Exposure.gross_exposure, Exposure.net_exposure, Exposure.squares)

-----------------------------------------------------------------------------
(* Properties *)

Entries(s) == {n \in DOMAIN position_limits : position_limits[n].symbol = s}

\* Every variable has its type, and only a symbol that was added next to a
\* limit of its own has more than one entry.
DeskTypeOK ==
  /\ position_limits \in Seq(PositionLimit)
  /\ Len(position_limits) <= MaxLimits
  /\ loss_limit \in [daily_stop_loss : Nat, max_drawdown : Nat]
  /\ exposure_limit \in [max_gross : Nat, max_net : Nat, max_concentration : Nat]
  /\ book \in [Named -> PositionBounds \cup {NoBound}]
  /\ doubled \subseteq Named
  /\ symbol_values \in [Symbols -> Values \cup {NoValue}]
  /\ gross_exposure \in Nat /\ net_exposure \in Int
  /\ params \in Metrics!Params
  /\ \A s \in Named : Cardinality(Entries(s)) > 1 => s \in doubled

Readings == -MaxReading .. MaxReading

BookBreaches(net_qty, s) ==
  UNION {Breached(book[k], net_qty) :
           k \in {n \in {AnySymbol, s} : book[n] # NoBound}}

\* However limits were added and set before, a position is judged by the bound
\* last set for its symbol and by the one last set for all symbols, and by
\* nothing else unless a limit was added for a symbol that had one: that entry
\* goes on being judged whatever is set later (add_position_limit,
\* set_position_limit, check_position).
JudgedByBook ==
  /\ DeskTypeOK
  /\ \A s \in Symbols, net_qty \in Readings :
       /\ BookBreaches(net_qty, s) \subseteq check_position(net_qty, s)
       /\ {AnySymbol, s} \cap doubled = {} =>
            check_position(net_qty, s) = BookBreaches(net_qty, s)

Stopped(type, breaches) == \E b \in breaches : b.limit_type = type

LossesJudgedAlike ==
  \A reading \in Readings :
    /\ loss_limit.daily_stop_loss = params.daily_stop_loss =>
         (Metrics!check_daily_stop_loss(reading)
            <=> /\ ~Stopped("daily_stop_loss", check_loss(reading, 0))
                /\ reading # -params.daily_stop_loss
                /\ params.daily_stop_loss = 0 => reading > 0)
    /\ loss_limit.max_drawdown = params.max_drawdown /\ reading >= 0 =>
         (Metrics!check_drawdown(reading)
            <=> /\ ~Stopped("max_drawdown", check_loss(0, reading))
                /\ reading # params.max_drawdown
                /\ params.max_drawdown > 0)

GrossCoversSymbols ==
  LET limit == params.max_gross
  IN exposure_limit.max_gross = limit /\ limit > 0
       /\ ~Stopped("gross_exposure", ExposureBreaches)
     => /\ \A s \in Metrics!Known(symbol_values) :
             Metrics!check_position_limit(symbol_values[s])
        /\ exposure_limit.max_net = limit => ~has_hard_breach(ExposureBreaches)

\* The two judges agree wherever their thresholds are the same.  On a loss and
\* a drawdown they differ at the threshold itself, which only MetricsEngine
\* objects to, and at 0, which turns a check of RiskLimits off, while
\* MetricsEngine then passes nothing but a profit, and no drawdown at all.  A
\* book within its gross limit has no symbol that MetricsEngine objects to
\* and no net exposure over the same limit, and what its concentration alone
\* breaches is not hard (check_loss, check_exposure, has_hard_breach;
\* check_daily_stop_loss, check_drawdown, check_position_limit).
JudgesAgree == LossesJudgedAlike /\ GrossCoversSymbols

\* The reported exposure belongs to one set of values: the long and the short
\* part add up to the gross and differ by the net exposure, and the
\* concentration lies between that of a book spread evenly over its symbols
\* and that of a single symbol (update_position, compute_exposure).
ExposureAddsUp ==
  LET gross2 == Exposure.gross_exposure * Exposure.gross_exposure
  IN /\ Exposure.long_exposure + Exposure.short_exposure = Exposure.gross_exposure
     /\ Exposure.long_exposure - Exposure.short_exposure = Exposure.net_exposure
     /\ Exposure.squares <= gross2
     /\ gross2 <= Cardinality(Metrics!Known(symbol_values)) * Exposure.squares
=============================================================================
