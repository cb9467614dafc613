----------------------------- MODULE AlertManager -----------------------------
(***************************************************************************)
(* The alert manager (src/alert_manager.cpp): rules that raise alerts, a   *)
(* cooldown per rule, and the operator's actions on raised alerts.  Every  *)
(* method holds the mutex and is one action.  The cooldown is measured on  *)
(* the system clock, which an administrator or NTP may set back.           *)
(***************************************************************************)
EXTENDS Integers, Sequences

CONSTANTS
  Symbols,
  NetQuantities, Prices, DailyPnLs, Drawdowns, Exposures,  \* rule inputs
  LargePosition, LossStop, LossWarning, DeepDrawdown,
  LargeExposure,     \* thresholds written in evaluate_rules
  OperatorIds,       \* alert ids that operators name
  Cooldowns,         \* cooldown_ms settings
  DefaultCooldown,   \* 60000
  ClockReadings,     \* what now_ns() may return
  NsPerMs,           \* 1000000
  Word,              \* 2^64: the modulus of uint64_t
  MaxAlerts,         \* bound: alerts raised
  MaxAnnounced       \* bound: alerts handed to the subscriber

ASSUME ClockAssumption ==
  /\ ClockReadings \subseteq Nat
  /\ NsPerMs \in Nat \ {0}
  /\ Word \in Nat \ {0}

ASSUME CooldownAssumption == Cooldowns \subseteq Nat /\ DefaultCooldown \in Nat

(* Nanoseconds since 1970, and a cooldown more, fit in a uint64_t. *)
ASSUME WordIsWide ==
  \A now \in ClockReadings, ms \in Cooldowns \cup {DefaultCooldown} :
    now + ms * NsPerMs < Word

ASSUME OperatorIdsAssumption == OperatorIds \subseteq Nat

ASSUME BoundsAssumption == MaxAlerts \in Nat /\ MaxAnnounced \in Nat

VARIABLES
  alerts,        \* alerts_, each with the rule its message names
  id_index,      \* id_index_
  next_id,       \* next_id_
  cooldown_ms,   \* cooldown_ms_
  cooldown_map,  \* cooldown_map_: clock readings by rule key
  callback,      \* callback_: whether a subscriber is installed
  inbox,         \* environment: the ids and states the subscriber was handed
  clock,         \* environment: the system clock
  raisedAt,      \* audit: what the clock read when each alert was raised
  heard,         \* audit: whether a subscriber was there when each was raised
  setback        \* audit: alerts raised before the clock was last set back

managerVars == <<id_index, next_id, cooldown_ms, cooldown_map, callback>>

audit == <<raisedAt, heard, setback>>

vars == <<alerts, managerVars, inbox, audit, clock>>

Severities == {"Info", "Warning", "Critical"}

AlertStates ==
  {"Pending", "Active", "Acknowledged", "Resolved", "Escalated", "WrittenOff"}

Rules == {<<"pos", s>> : s \in Symbols}
  \cup {<<"daily_loss">>, <<"daily_loss_warn">>, <<"drawdown">>, <<"gross_exp">>}

Alert == [id : Nat, severity : Severities, state : AlertStates, key : Rules]

NoEntries == [k \in {} |-> 0]

Init ==
  /\ alerts = << >>
  /\ id_index = NoEntries
  /\ next_id = 1
  /\ cooldown_ms = DefaultCooldown
  /\ cooldown_map = NoEntries
  /\ callback = FALSE
  /\ inbox = << >>
  /\ clock \in ClockReadings
  /\ raisedAt = << >>
  /\ heard = << >>
  /\ setback = 0

------------------------------------------------------------------------------
(* Mutant: the difference is signed. *)
ElapsedMs_Signed(since, now) == (now - since) \div NsPerMs

(* Unsigned: a clock set back looks like an elapse of centuries. *)
ElapsedMs(since, now) == ((now - since) % Word) \div NsPerMs

in_cooldown(key, now) ==
  /\ key \in DOMAIN cooldown_map
  /\ ElapsedMs(cooldown_map[key], now) < cooldown_ms

try_alert(breached, severity, key) ==
  IF breached /\ ~in_cooldown(key, clock)
    THEN <<[severity |-> severity, key |-> key]>>
    ELSE << >>

Magnitude(n) == IF n < 0 THEN -n ELSE n

(* The rules that fire, in the order the code tries them.  Their keys are  *)
(* distinct, so none of them puts another one into its cooldown.           *)
Fired(net_qty, price, daily_pnl, drawdown, gross, symbol) ==
  try_alert(Magnitude(net_qty * price) > LargePosition,
            "Warning", <<"pos", symbol>>)
  \o try_alert(daily_pnl < -LossStop, "Critical", <<"daily_loss">>)
  \o try_alert(daily_pnl >= -LossStop /\ daily_pnl < -LossWarning,
               "Warning", <<"daily_loss_warn">>)
  \o try_alert(drawdown > DeepDrawdown, "Critical", <<"drawdown">>)
  \o try_alert(gross > LargeExposure, "Warning", <<"gross_exp">>)

FiredKeys(fired) == {fired[i].key : i \in DOMAIN fired}

Audited(fired) ==
  /\ raisedAt' = raisedAt \o [i \in DOMAIN fired |-> clock]
  /\ heard' = heard \o [i \in DOMAIN fired |-> callback]
  /\ UNCHANGED setback

create_alert(fired, i) ==
  [id |-> next_id + i - 1, severity |-> fired[i].severity, state |-> "Active",
   key |-> fired[i].key]

(* Mutant: only the first alert of an evaluation is announced. *)
emit_alerts_FirstOnly(new) ==
  /\ inbox' = IF callback /\ new # << >>
                THEN Append(inbox, <<new[1].id, new[1].state>>)
                ELSE inbox
  /\ Len(inbox') <= MaxAnnounced

emit_alerts(new) ==
  /\ inbox' = IF callback
                THEN inbox \o [i \in DOMAIN new |-> <<new[i].id, new[i].state>>]
                ELSE inbox
  /\ Len(inbox') <= MaxAnnounced

(* Mutant: the index is taken after all alerts were stored. *)
IndexOf_AfterPush(fired, id) == Len(alerts) + Len(fired) - 1

(* The place of a new alert, counted from 0. *)
IndexOf(fired, id) == Len(alerts) + (id - next_id)

(* Mutant: a rule that fires again does not start its cooldown again. *)
FiredAt_First(key) ==
  IF key \in DOMAIN cooldown_map THEN cooldown_map[key] ELSE clock

FiredAt(key) == clock

evaluate_rules(net_qty, price, daily_pnl, drawdown, gross, symbol) ==
  LET fired == Fired(net_qty, price, daily_pnl, drawdown, gross, symbol)
      new == [i \in DOMAIN fired |-> create_alert(fired, i)]
  IN /\ Len(alerts) + Len(fired) <= MaxAlerts
     /\ alerts' = alerts \o new
     /\ id_index' =
          [id \in DOMAIN id_index \cup next_id .. (next_id + Len(fired) - 1) |->
             IF id \in DOMAIN id_index THEN id_index[id] ELSE IndexOf(fired, id)]
     /\ next_id' = next_id + Len(fired)
     /\ cooldown_map' =
          [k \in DOMAIN cooldown_map \cup FiredKeys(fired) |->
             IF k \in FiredKeys(fired) THEN FiredAt(k) ELSE cooldown_map[k]]
     /\ emit_alerts(new)
     /\ Audited(fired)
     /\ UNCHANGED <<cooldown_ms, callback, clock>>

(* Any state may follow any state: the methods only look the id up. *)
MoveTo(id, state) ==
  LET at == id_index[id] + 1
  IN /\ id \in DOMAIN id_index
     /\ alerts' = [alerts EXCEPT ![at].state = state]
     /\ UNCHANGED <<managerVars, clock, audit>>

acknowledge(id) == MoveTo(id, "Acknowledged") /\ UNCHANGED inbox

resolve(id) == MoveTo(id, "Resolved") /\ UNCHANGED inbox

escalate(id) ==
  /\ MoveTo(id, "Escalated")
  /\ emit_alerts(<<alerts'[id_index[id] + 1]>>)

write_off(id) == MoveTo(id, "WrittenOff") /\ UNCHANGED inbox

on_alert(installed) ==
  /\ callback' = installed
  /\ UNCHANGED <<alerts, id_index, next_id, cooldown_ms, cooldown_map, inbox,
                 clock, audit>>

set_cooldown_ms(ms) ==
  /\ cooldown_ms' = ms
  /\ UNCHANGED <<alerts, id_index, next_id, cooldown_map, callback, inbox,
                 clock, audit>>

ClockMoves ==
  /\ clock' \in ClockReadings
  /\ setback' = IF clock' < clock THEN Len(alerts) ELSE setback
  /\ UNCHANGED <<alerts, managerVars, inbox, raisedAt, heard>>

Next ==
  \/ \E net_qty \in NetQuantities, price \in Prices, daily_pnl \in DailyPnLs,
        drawdown \in Drawdowns, gross \in Exposures, symbol \in Symbols :
       evaluate_rules(net_qty, price, daily_pnl, drawdown, gross, symbol)
  \/ \E id \in OperatorIds :
       acknowledge(id) \/ resolve(id) \/ escalate(id) \/ write_off(id)
  \/ \E installed \in BOOLEAN : on_alert(installed)
  \/ \E ms \in Cooldowns : set_cooldown_ms(ms)
  \/ ClockMoves

Spec == Init /\ [][Next]_vars

------------------------------------------------------------------------------
TypeOK ==
  /\ alerts \in Seq(Alert)
  /\ DOMAIN id_index \subseteq Nat
  /\ next_id \in Nat \ {0}
  /\ cooldown_ms \in Nat
  /\ DOMAIN cooldown_map \subseteq Rules
  /\ \A k \in DOMAIN cooldown_map : cooldown_map[k] \in ClockReadings
  /\ callback \in BOOLEAN
  /\ inbox \in Seq(Nat \X AlertStates)
  /\ clock \in ClockReadings
  /\ raisedAt \in Seq(ClockReadings)
  /\ heard \in Seq(BOOLEAN)
  /\ setback \in Nat

(* An id finds its own alert and no other: the index covers exactly the    *)
(* alerts raised so far, ids are never given twice, and the next one is    *)
(* still free.                                                             *)
IndexSound ==
  /\ TypeOK
  /\ DOMAIN id_index = {alerts[i].id : i \in DOMAIN alerts}
  /\ \A id \in DOMAIN id_index :
       /\ id < next_id
       /\ id_index[id] + 1 \in DOMAIN alerts
       /\ alerts[id_index[id] + 1].id = id
  /\ \A i, j \in DOMAIN alerts : i < j => alerts[i].id < alerts[j].id

(* As long as the clock is not set back, two alerts of one rule lie at     *)
(* least the cooldown in force at the second apart, whatever happened in   *)
(* between: changes of the setting, other rules that fire in the same      *)
(* evaluation, operators' actions.  (A clock set back ends the cooldown of *)
(* every rule that raised later than the new reading.)                     *)
CooldownSpacing ==
  [][\A j \in DOMAIN alerts' \ DOMAIN alerts, i \in DOMAIN alerts' :
       i < j /\ i > setback /\ alerts'[i].key = alerts'[j].key =>
         /\ i \in DOMAIN alerts
         /\ clock - raisedAt[i] >= cooldown_ms * NsPerMs]_vars

(* A rule is silent only because it raised an alert, and for no longer     *)
(* than the cooldown after it: a step of the clock, in either direction,   *)
(* silences no rule.                                                       *)
SilentOnlyAfterAlert ==
  \A k \in Rules : in_cooldown(k, clock) =>
    \E i \in DOMAIN alerts :
      /\ alerts[i].key = k
      /\ raisedAt[i] <= clock
      /\ clock - raisedAt[i] < cooldown_ms * NsPerMs

Announcements(entry) == {n \in DOMAIN inbox : inbox[n] = entry}

(* A subscriber hears of an alert exactly once when it is raised, if it was*)
(* installed then, in the order of the ids; and of its escalations only    *)
(* after that, never before.                                               *)
AnnouncedOnceInOrder ==
  /\ \A i \in DOMAIN alerts :
       LET raising == Announcements(<<alerts[i].id, "Active">>)
           escalating == Announcements(<<alerts[i].id, "Escalated">>)
       IN /\ heard[i] <=> raising # {}
          /\ \A m, n \in raising : m = n
          /\ \A m \in raising, n \in escalating : m < n
  /\ \A m, n \in DOMAIN inbox :
       m < n /\ inbox[m][2] = "Active" /\ inbox[n][2] = "Active"
         => inbox[m][1] < inbox[n][1]
=============================================================================
