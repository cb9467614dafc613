-------------------------- MODULE AlertManagerProofs --------------------------
(***************************************************************************)
(* Proofs about AlertManager, for any symbols, rule inputs, thresholds,    *)
(* cooldowns and clock readings: ids find their alerts, alerts of a rule   *)
(* keep their distance, a rule is silent only because it raised an alert,  *)
(* and a subscriber hears of an alert once and before its escalations.     *)
(***************************************************************************)
EXTENDS AlertManager, SequenceTheorems, TLAPS

Firing == [severity : Severities, key : Rules]

(* Rules that fire once each, are among K and are not in their cooldown.   *)
FiresOnce(fired, K) ==
  /\ fired \in Seq(Firing)
  /\ \A i \in DOMAIN fired :
       fired[i].key \in K /\ ~in_cooldown(fired[i].key, clock)
  /\ \A i, j \in DOMAIN fired : fired[i].key = fired[j].key => i = j

(* The n-th alert has the id n and is found at n - 1. *)
Numbered ==
  /\ next_id = Len(alerts) + 1
  /\ \A i \in DOMAIN alerts : alerts[i].id = i
  /\ DOMAIN id_index = DOMAIN alerts
  /\ \A i \in DOMAIN alerts : id_index[i] = i - 1

(* The manager knows of every rule that raised an alert a reading at which *)
(* it raised one, and none has raised later but on a clock since set back. *)
Remembered ==
  /\ Len(heard) = Len(alerts) /\ Len(raisedAt) = Len(alerts)
  /\ setback <= Len(alerts)
  /\ \A i \in DOMAIN alerts :
       /\ alerts[i].key \in DOMAIN cooldown_map
       /\ i > setback => /\ raisedAt[i] <= cooldown_map[alerts[i].key]
                         /\ cooldown_map[alerts[i].key] <= clock
  /\ \A k \in DOMAIN cooldown_map :
       \E i \in DOMAIN alerts : alerts[i].key = k /\ raisedAt[i] = cooldown_map[k]

(* The subscriber was handed alerts as they were raised and escalated.     *)
Announced ==
  /\ \A n \in DOMAIN inbox :
       inbox[n] \in (DOMAIN alerts) \X {"Active", "Escalated"}
  /\ \A i \in DOMAIN alerts :
       heard[i] <=> \E n \in DOMAIN inbox : inbox[n] = <<i, "Active">>
  /\ \A m, n \in DOMAIN inbox :
       m < n /\ inbox[m][2] = "Active" /\ inbox[n][2] = "Active"
         => inbox[m][1] < inbox[n][1]
  /\ \A m, n \in DOMAIN inbox :
       inbox[m][2] = "Active" /\ inbox[n] = <<inbox[m][1], "Escalated">> => m < n

AlertInv == TypeOK /\ Numbered /\ Remembered /\ Announced

------------------------------------------------------------------------------
(* The rules that fire *)

LEMMA OneOrNone ==
  ASSUME NEW fired, NEW severity \in Severities, NEW key \in Rules,
         \/ fired = << >>
         \/ fired = <<[severity |-> severity, key |-> key]>> /\ ~in_cooldown(key, clock)
  PROVE  FiresOnce(fired, {key})
<1>1. CASE fired = << >>
  BY <1>1 DEF FiresOnce
<1>2. CASE fired = <<[severity |-> severity, key |-> key]>> /\ ~in_cooldown(key, clock)
  <2> DEFINE firing == [severity |-> severity, key |-> key]
  <2>1. firing \in Firing /\ firing.key = key
    BY DEF Firing
  <2> HIDE DEF firing
  <2>2. fired \in Seq(Firing) /\ DOMAIN fired = {1} /\ fired[1] = firing
    BY <1>2, <2>1 DEF firing
  <2> QED
    BY <1>2, <2>1, <2>2 DEF FiresOnce
<1> QED
  BY <1>1, <1>2

(* Rules of other keys that fire after some fire once like them. *)
LEMMA FiresBoth ==
  ASSUME NEW s, NEW t, NEW K, NEW M,
         FiresOnce(s, K), FiresOnce(t, M), K \cap M = {}
  PROVE  FiresOnce(s \o t, K \cup M)
<1> DEFINE st == s \o t
           m == Len(s)
           n == Len(t)
<1>1. s \in Seq(Firing) /\ t \in Seq(Firing)
  BY DEF FiresOnce
<1>2. /\ m \in Nat /\ DOMAIN s = 1 .. m
      /\ n \in Nat /\ DOMAIN t = 1 .. n
  BY <1>1, LenProperties
<1>3. /\ st \in Seq(Firing) /\ Len(st) = m + n
      /\ \A i \in 1 .. m + n : st[i] = IF i <= m THEN s[i] ELSE t[i - m]
  BY <1>1, ConcatProperties
<1>4. DOMAIN st = 1 .. m + n
  BY <1>3, LenProperties
<1>5. /\ \A i \in 1 .. m : s[i].key \in K /\ ~in_cooldown(s[i].key, clock)
      /\ \A i \in 1 .. n : t[i].key \in M /\ ~in_cooldown(t[i].key, clock)
      /\ \A i, j \in 1 .. m : s[i].key = s[j].key => i = j
      /\ \A i, j \in 1 .. n : t[i].key = t[j].key => i = j
  BY <1>2 DEF FiresOnce
<1> HIDE DEF st, m, n
<1>6. ASSUME NEW i \in 1 .. m + n
      PROVE  \/ i \in 1 .. m /\ st[i] = s[i]
             \/ i - m \in 1 .. n /\ st[i] = t[i - m]
  BY <1>2, <1>3
<1>7. \A i \in DOMAIN st :
        st[i].key \in K \cup M /\ ~in_cooldown(st[i].key, clock)
  BY <1>4, <1>5, <1>6
<1>8. ASSUME NEW i \in DOMAIN st, NEW j \in DOMAIN st, st[i].key = st[j].key
      PROVE  i = j
  <2>1. i \in 1 .. m + n /\ j \in 1 .. m + n /\ i \in Int /\ j \in Int
    BY <1>2, <1>4
  <2>2. CASE i \in 1 .. m /\ j \in 1 .. m /\ st[i] = s[i] /\ st[j] = s[j]
    BY <1>5, <1>8, <2>2
  <2>3. CASE /\ i - m \in 1 .. n /\ j - m \in 1 .. n
             /\ st[i] = t[i - m] /\ st[j] = t[j - m]
    <3>1. i - m = j - m
      BY <1>5, <1>8, <2>3
    <3> QED
      BY <1>2, <2>1, <3>1
  <2>4. CASE i \in 1 .. m /\ j - m \in 1 .. n /\ st[i] = s[i] /\ st[j] = t[j - m]
    BY <1>5, <1>8, <2>4
  <2>5. CASE i - m \in 1 .. n /\ j \in 1 .. m /\ st[i] = t[i - m] /\ st[j] = s[j]
    BY <1>5, <1>8, <2>5
  <2> QED
    BY <1>6, <2>1, <2>2, <2>3, <2>4, <2>5
<1> QED
  BY <1>3, <1>7, <1>8 DEF FiresOnce, st

(* What one evaluation raises, of rules out of their cooldown, once each.  *)
LEMMA EvaluationFiresOnce ==
  ASSUME NEW net_qty, NEW price, NEW daily_pnl, NEW drawdown, NEW gross,
         NEW symbol \in Symbols
  PROVE  FiresOnce(Fired(net_qty, price, daily_pnl, drawdown, gross, symbol), Rules)
<1> DEFINE pos == <<"pos", symbol>>
           a == try_alert(Magnitude(net_qty * price) > LargePosition, "Warning", pos)
           b == try_alert(daily_pnl < -LossStop, "Critical", <<"daily_loss">>)
           c == try_alert(daily_pnl >= -LossStop /\ daily_pnl < -LossWarning,
                          "Warning", <<"daily_loss_warn">>)
           d == try_alert(drawdown > DeepDrawdown, "Critical", <<"drawdown">>)
           e == try_alert(gross > LargeExposure, "Warning", <<"gross_exp">>)
<1>1. /\ pos \in Rules /\ <<"daily_loss">> \in Rules /\ <<"daily_loss_warn">> \in Rules
      /\ <<"drawdown">> \in Rules /\ <<"gross_exp">> \in Rules
      /\ "Warning" \in Severities /\ "Critical" \in Severities
  BY DEF Rules, Severities
<1>2. FiresOnce(a, {pos})
  BY <1>1, OneOrNone DEF try_alert
<1>3. FiresOnce(b, {<<"daily_loss">>})
  BY <1>1, OneOrNone DEF try_alert
<1>4. FiresOnce(c, {<<"daily_loss_warn">>})
  BY <1>1, OneOrNone DEF try_alert
<1>5. FiresOnce(d, {<<"drawdown">>})
  BY <1>1, OneOrNone DEF try_alert
<1>6. FiresOnce(e, {<<"gross_exp">>})
  BY <1>1, OneOrNone DEF try_alert
<1>7. Fired(net_qty, price, daily_pnl, drawdown, gross, symbol) = a \o b \o c \o d \o e
  BY DEF Fired
<1> HIDE DEF a, b, c, d, e
<1>8. /\ pos # <<"daily_loss">> /\ pos # <<"daily_loss_warn">>
      /\ pos # <<"drawdown">> /\ pos # <<"gross_exp">>
  OBVIOUS
<1> HIDE DEF pos
<1>9. FiresOnce(a \o b, {pos} \cup {<<"daily_loss">>})
  BY <1>2, <1>3, <1>8, FiresBoth
<1>10. FiresOnce(a \o b \o c, {pos, <<"daily_loss">>} \cup {<<"daily_loss_warn">>})
  BY <1>4, <1>8, <1>9, FiresBoth
<1>11. FiresOnce(a \o b \o c \o d,
                 {pos, <<"daily_loss">>, <<"daily_loss_warn">>} \cup {<<"drawdown">>})
  BY <1>5, <1>8, <1>10, FiresBoth
<1>12. FiresOnce(a \o b \o c \o d \o e,
                 {pos, <<"daily_loss">>, <<"daily_loss_warn">>, <<"drawdown">>}
                   \cup {<<"gross_exp">>})
  BY <1>6, <1>8, <1>11, FiresBoth
<1> QED
  BY <1>1, <1>7, <1>12 DEF FiresOnce

------------------------------------------------------------------------------
(* The steps *)

LEMMA Starts == Init => AlertInv
<1> SUFFICES ASSUME Init PROVE AlertInv
  OBVIOUS
<1>1. TypeOK
  <2>1. /\ << >> \in Seq(Alert) /\ << >> \in Seq(Nat \X AlertStates)
        /\ << >> \in Seq(BOOLEAN) /\ << >> \in Seq(ClockReadings)
        /\ DOMAIN NoEntries = {}
    BY EmptySeq DEF NoEntries
  <2>2. /\ alerts = << >> /\ inbox = << >> /\ heard = << >> /\ next_id = 1
        /\ cooldown_ms \in Nat /\ callback = FALSE /\ clock \in ClockReadings
        /\ DOMAIN id_index = {} /\ DOMAIN cooldown_map = {}
        /\ raisedAt = << >> /\ setback = 0
    BY <2>1, CooldownAssumption DEF Init
  <2>3. /\ alerts \in Seq(Alert) /\ inbox \in Seq(Nat \X AlertStates)
        /\ heard \in Seq(BOOLEAN) /\ raisedAt \in Seq(ClockReadings)
    BY <2>1, <2>2
  <2>4. next_id \in Nat \ {0}
    BY <2>2
  <2>5. callback \in BOOLEAN
    BY Zenon, <2>2
  <2>6. /\ cooldown_ms \in Nat /\ clock \in ClockReadings
        /\ DOMAIN id_index = {} /\ DOMAIN cooldown_map = {} /\ setback \in Nat
    BY <2>2
  <2> QED
    BY <2>3, <2>4, <2>5, <2>6 DEF TypeOK
<1>2. /\ alerts = << >> /\ inbox = << >> /\ heard = << >> /\ raisedAt = << >>
      /\ next_id = 1 /\ DOMAIN id_index = {} /\ DOMAIN cooldown_map = {} /\ setback = 0
  BY DEF Init, NoEntries
<1>3. /\ DOMAIN alerts = {} /\ DOMAIN inbox = {}
      /\ Len(alerts) = 0 /\ Len(heard) = 0 /\ Len(raisedAt) = 0
  BY <1>2
<1>4. Numbered /\ Remembered /\ Announced
  BY <1>2, <1>3 DEF Numbered, Remembered, Announced
<1> QED
  BY <1>1, <1>4 DEF AlertInv

(* What a subscriber is handed of k alerts raised after n. *)
Told(n, k) == [i \in 1 .. k |-> <<n + i, "Active">>]

(* The alerts an evaluation stores. *)
LEMMA EvaluationStores ==
  ASSUME AlertInv, NEW net_qty, NEW price, NEW daily_pnl, NEW drawdown, NEW gross,
         NEW symbol \in Symbols,
         evaluate_rules(net_qty, price, daily_pnl, drawdown, gross, symbol)
  PROVE  LET fired == Fired(net_qty, price, daily_pnl, drawdown, gross, symbol)
         IN /\ alerts' \in Seq(Alert) /\ Len(alerts') = Len(alerts) + Len(fired)
            /\ \A i \in DOMAIN alerts : alerts'[i] = alerts[i]
            /\ \A i \in 1 .. Len(fired) :
                 /\ alerts'[Len(alerts) + i].id = Len(alerts) + i
                 /\ alerts'[Len(alerts) + i].key = fired[i].key
            /\ inbox' = IF callback THEN inbox \o Told(Len(alerts), Len(fired))
                          ELSE inbox
<1> DEFINE fired == Fired(net_qty, price, daily_pnl, drawdown, gross, symbol)
           new == [i \in DOMAIN fired |-> create_alert(fired, i)]
           n == Len(alerts)
           k == Len(fired)
           told == [i \in DOMAIN new |-> <<new[i].id, new[i].state>>]
<1>1. FiresOnce(fired, Rules)
  BY EvaluationFiresOnce
<1>2. /\ alerts' = alerts \o new
      /\ inbox' = IF callback THEN inbox \o told ELSE inbox
  BY DEF evaluate_rules, emit_alerts
<1> HIDE DEF fired
<1>3. alerts \in Seq(Alert) /\ n \in Nat /\ DOMAIN alerts = 1 .. n /\ next_id = n + 1
  BY LenProperties DEF AlertInv, TypeOK, Numbered
<1>4. fired \in Seq(Firing) /\ k \in Nat /\ DOMAIN fired = 1 .. k
  BY <1>1, LenProperties DEF FiresOnce
<1>5. \A i \in 1 .. k : fired[i] \in Firing
  BY <1>4, ElementOfSeq
<1>6. ASSUME NEW i \in 1 .. k
      PROVE  /\ new[i] = [id |-> n + i, severity |-> fired[i].severity,
                          state |-> "Active", key |-> fired[i].key]
             /\ new[i].id = n + i /\ new[i].key = fired[i].key
             /\ new[i] \in Alert
  <2>1. new[i] = [id |-> next_id + i - 1, severity |-> fired[i].severity,
                  state |-> "Active", key |-> fired[i].key]
    BY <1>4 DEF create_alert
  <2>2. next_id + i - 1 = n + i /\ n + i \in Nat
    BY <1>3, <1>4
  <2>3. fired[i].severity \in Severities /\ fired[i].key \in Rules
    BY <1>5 DEF Firing
  <2> HIDE DEF new
  <2>4. new[i].id = n + i /\ new[i].key = fired[i].key
    BY <2>1, <2>2
  <2> QED
    BY <2>1, <2>2, <2>3, <2>4 DEF Alert, AlertStates
<1>7. new = [i \in 1 .. k |-> new[i]] /\ DOMAIN new = 1 .. k
  BY <1>4
<1>8. told = Told(n, k)
  BY <1>6, <1>7 DEF Told
<1> HIDE DEF new
<1>9. new \in Seq(Alert) /\ Len(new) = k
  <2>1. new \in [1 .. k -> Alert]
    BY <1>6, <1>7
  <2>2. new \in Seq(Alert)
    BY <1>4, <2>1, SeqDef
  <2> QED
    BY <1>4, <1>7, <2>2, LenProperties
<1>10. /\ alerts' \in Seq(Alert) /\ Len(alerts') = n + k
       /\ \A i \in 1 .. n + k : alerts'[i] = IF i <= n THEN alerts[i] ELSE new[i - n]
  <2>1. alerts' = alerts \o new
    BY <1>2
  <2>2. alerts \in Seq(Alert) /\ new \in Seq(Alert)
    BY <1>3, <1>9
  <2>3. /\ alerts \o new \in Seq(Alert)
        /\ Len(alerts \o new) = Len(alerts) + Len(new)
        /\ \A i \in 1 .. Len(alerts) + Len(new) :
             (alerts \o new)[i] =
               IF i <= Len(alerts) THEN alerts[i] ELSE new[i - Len(alerts)]
    BY <2>2, ConcatProperties
  <2> QED
    BY <1>9, <2>1, <2>3
<1>11. \A i \in 1 .. n : alerts'[i] = alerts[i]
  BY <1>3, <1>4, <1>10
<1>12. ASSUME NEW i \in 1 .. k
       PROVE  alerts'[n + i].id = n + i /\ alerts'[n + i].key = fired[i].key
  <2>1. n + i \in 1 .. n + k /\ ~(n + i <= n) /\ (n + i) - n = i
    BY <1>3, <1>4
  <2>2. alerts'[n + i] = new[i]
    BY <1>10, <2>1
  <2>3. new[i].id = n + i /\ new[i].key = fired[i].key
    BY <1>6
  <2> QED
    BY <2>2, <2>3
<1> HIDE DEF told
<1> QED
  BY <1>2, <1>3, <1>8, <1>10, <1>11, <1>12 DEF fired

LEMMA EvaluateKeeps ==
  ASSUME AlertInv, NEW net_qty, NEW price, NEW daily_pnl, NEW drawdown, NEW gross,
         NEW symbol \in Symbols,
         evaluate_rules(net_qty, price, daily_pnl, drawdown, gross, symbol)
  PROVE  AlertInv'
<1> DEFINE fired == Fired(net_qty, price, daily_pnl, drawdown, gross, symbol)
           n == Len(alerts)
           k == Len(fired)
           hearing == [i \in DOMAIN fired |-> callback]
           readings == [i \in DOMAIN fired |-> clock]
           told == Told(n, k)
           Entry == Nat \X AlertStates
<1>1. FiresOnce(fired, Rules)
  BY EvaluationFiresOnce
<1>2. /\ alerts' \in Seq(Alert) /\ Len(alerts') = n + k
      /\ \A i \in DOMAIN alerts : alerts'[i] = alerts[i]
      /\ \A i \in 1 .. k : /\ alerts'[n + i].id = n + i
                            /\ alerts'[n + i].key = fired[i].key
      /\ inbox' = IF callback THEN inbox \o told ELSE inbox
  BY EvaluationStores
<1>3. /\ id_index' = [id \in DOMAIN id_index \cup next_id .. (next_id + k - 1) |->
                        IF id \in DOMAIN id_index THEN id_index[id]
                          ELSE n + (id - next_id)]
      /\ next_id' = next_id + k
  BY DEF evaluate_rules, IndexOf
<1>4. cooldown_map' = [r \in DOMAIN cooldown_map \cup FiredKeys(fired) |->
                         IF r \in FiredKeys(fired) THEN clock ELSE cooldown_map[r]]
  BY DEF evaluate_rules, FiredAt
<1>5. /\ heard' = heard \o hearing /\ raisedAt' = raisedAt \o readings
      /\ setback' = setback
      /\ cooldown_ms' = cooldown_ms /\ callback' = callback /\ clock' = clock
  BY DEF evaluate_rules, Audited
<1> HIDE DEF fired
<1>6. /\ alerts \in Seq(Alert) /\ n \in Nat /\ DOMAIN alerts = 1 .. n
      /\ next_id = n + 1 /\ DOMAIN id_index = 1 .. n
      /\ \A i \in 1 .. n : id_index[i] = i - 1 /\ alerts[i].id = i
  BY LenProperties DEF AlertInv, TypeOK, Numbered
<1>7. /\ fired \in Seq(Firing) /\ k \in Nat /\ DOMAIN fired = 1 .. k
  BY <1>1, LenProperties DEF FiresOnce
<1>8. FiredKeys(fired) \subseteq Rules
  BY <1>1 DEF FiresOnce, FiredKeys
<1>9. /\ callback \in BOOLEAN /\ clock \in ClockReadings /\ cooldown_ms \in Nat
      /\ setback \in Nat
  BY DEF AlertInv, TypeOK
<1>10. DOMAIN alerts' = 1 .. n + k
  BY <1>2, LenProperties
<1> HIDE DEF n, k
<1>11. Numbered'
  <2>1. next_id' = Len(alerts') + 1
    BY <1>2, <1>3, <1>6, <1>7
  <2>2. \A i \in DOMAIN alerts' : alerts'[i].id = i
    <3>1. ASSUME NEW i \in 1 .. n + k, ~(i \in 1 .. n) PROVE alerts'[i].id = i
      <4>1. i - n \in 1 .. k /\ n + (i - n) = i
        BY <1>6, <1>7, <3>1
      <4>2. \A j \in 1 .. k : alerts'[n + j].id = n + j
        BY <1>2
      <4> QED
        BY <4>1, <4>2
    <3> QED
      BY <1>2, <1>6, <1>10, <3>1
  <2>3. 1 .. n \cup next_id .. (next_id + k - 1) = 1 .. n + k
    BY <1>6, <1>7
  <2>4. DOMAIN id_index' = DOMAIN alerts'
    BY <1>3, <1>6, <1>10, <2>3
  <2>5. \A i \in 1 .. n + k : id_index'[i] = i - 1
    <3>1. ASSUME NEW i \in 1 .. n + k, ~(i \in 1 .. n) PROVE id_index'[i] = i - 1
      <4>1. id_index'[i] = n + (i - next_id)
        BY <1>3, <1>6, <2>3, <3>1
      <4> QED
        BY <1>6, <1>7, <4>1
    <3>2. ASSUME NEW i \in 1 .. n PROVE id_index'[i] = i - 1
      <4>1. id_index'[i] = id_index[i]
        BY <1>3, <1>6
      <4> QED
        BY <1>6, <4>1
    <3> QED
      BY <3>1, <3>2
  <2> QED
    BY <1>10, <2>1, <2>2, <2>4, <2>5 DEF Numbered
<1>12. hearing \in Seq(BOOLEAN) /\ Len(hearing) = k
  <2>1. hearing \in [1 .. k -> BOOLEAN]
    BY Zenon, <1>7, <1>9
  <2>2. hearing \in Seq(BOOLEAN)
    BY <1>7, <2>1, SeqDef
  <2> QED
    BY <1>7, <2>1, <2>2, LenProperties
<1>13. /\ heard \in Seq(BOOLEAN) /\ Len(heard) = n
       /\ raisedAt \in Seq(ClockReadings) /\ Len(raisedAt) = n
       /\ DOMAIN cooldown_map \subseteq Rules
       /\ \A r \in DOMAIN cooldown_map : cooldown_map[r] \in ClockReadings
  BY DEF AlertInv, TypeOK, Remembered, n
<1>14. /\ heard' \in Seq(BOOLEAN) /\ Len(heard') = n + k
       /\ \A i \in 1 .. n : heard'[i] = heard[i]
       /\ \A i \in 1 .. k : heard'[n + i] = callback
  <2>1. \A i \in 1 .. k : hearing[i] = callback
    BY Zenon, <1>7
  <2> HIDE DEF hearing
  <2>2. /\ heard \o hearing \in Seq(BOOLEAN)
        /\ Len(heard \o hearing) = Len(heard) + Len(hearing)
        /\ \A i \in 1 .. Len(heard) + Len(hearing) :
             (heard \o hearing)[i] =
               IF i <= Len(heard) THEN heard[i] ELSE hearing[i - Len(heard)]
    BY <1>12, <1>13, ConcatProperties
  <2>3. /\ heard' \in Seq(BOOLEAN) /\ Len(heard') = n + k
        /\ \A i \in 1 .. n + k :
             heard'[i] = IF i <= n THEN heard[i] ELSE hearing[i - n]
    BY <1>5, <1>12, <1>13, <2>2
  <2>4. \A i \in 1 .. n : heard'[i] = heard[i]
    BY <1>6, <1>7, <2>3
  <2>5. ASSUME NEW i \in 1 .. k PROVE heard'[n + i] = callback
    <3>1. n + i \in 1 .. n + k /\ ~(n + i <= n) /\ (n + i) - n = i
      BY <1>6, <1>7
    <3>2. heard'[n + i] = hearing[i]
      BY <2>3, <3>1
    <3> QED
      BY <2>1, <3>2
  <2> QED
    BY <2>3, <2>4, <2>5
<1>20. /\ raisedAt' \in Seq(ClockReadings) /\ Len(raisedAt') = n + k
       /\ \A i \in 1 .. n : raisedAt'[i] = raisedAt[i]
       /\ \A i \in 1 .. k : raisedAt'[n + i] = clock
  <2>1. \A i \in 1 .. k : readings[i] = clock
    BY <1>7
  <2>2. readings \in Seq(ClockReadings) /\ Len(readings) = k
    <3>1. readings \in [1 .. k -> ClockReadings]
      BY <1>7, <1>9
    <3>2. readings \in Seq(ClockReadings)
      BY <1>7, <3>1, SeqDef
    <3> QED
      BY <1>7, <3>1, <3>2, LenProperties
  <2> HIDE DEF readings
  <2>3. /\ raisedAt \o readings \in Seq(ClockReadings)
        /\ Len(raisedAt \o readings) = Len(raisedAt) + Len(readings)
        /\ \A i \in 1 .. Len(raisedAt) + Len(readings) :
             (raisedAt \o readings)[i] =
               IF i <= Len(raisedAt) THEN raisedAt[i] ELSE readings[i - Len(raisedAt)]
    BY <1>13, <2>2, ConcatProperties
  <2>4. /\ raisedAt' \in Seq(ClockReadings) /\ Len(raisedAt') = n + k
        /\ \A i \in 1 .. n + k :
             raisedAt'[i] = IF i <= n THEN raisedAt[i] ELSE readings[i - n]
    BY <1>5, <1>13, <2>2, <2>3
  <2>5. \A i \in 1 .. n : raisedAt'[i] = raisedAt[i]
    BY <1>6, <1>7, <2>4
  <2>6. ASSUME NEW i \in 1 .. k PROVE raisedAt'[n + i] = clock
    <3>1. n + i \in 1 .. n + k /\ ~(n + i <= n) /\ (n + i) - n = i
      BY <1>6, <1>7
    <3> QED
      BY <2>1, <2>4, <3>1
  <2> QED
    BY <2>4, <2>5, <2>6
<1> HIDE DEF hearing, readings
<1>21. \A i \in 1 .. n + k : i \in 1 .. n \/ \E j \in 1 .. k : i = n + j
  <2> SUFFICES ASSUME NEW i \in 1 .. n + k, i \notin 1 .. n
               PROVE  \E j \in 1 .. k : i = n + j
    OBVIOUS
  <2>1. i - n \in 1 .. k /\ i = n + (i - n)
    BY <1>6, <1>7
  <2> QED
    BY <2>1
<1>22. \A j \in 1 .. k : n + j \in 1 .. n + k
  BY <1>6, <1>7
<1>23. \A i \in 1 .. n : i \in 1 .. n + k
  BY <1>6, <1>7
<1>24. FiredKeys(fired) = {fired[j].key : j \in 1 .. k}
  BY <1>7 DEF FiredKeys
<1>25. /\ DOMAIN cooldown_map' = DOMAIN cooldown_map \cup FiredKeys(fired)
       /\ \A r \in FiredKeys(fired) : cooldown_map'[r] = clock
       /\ \A r \in DOMAIN cooldown_map \ FiredKeys(fired) :
            cooldown_map'[r] = cooldown_map[r]
  BY <1>4
<1>26. clock \in Nat /\ \A r \in DOMAIN cooldown_map : cooldown_map[r] \in Nat
  BY <1>9, <1>13, ClockAssumption
<1>27. \A i \in 1 .. n : raisedAt[i] \in Nat
  BY <1>6, <1>13, ElementOfSeq, ClockAssumption
<1>28. /\ setback <= n
       /\ \A i \in 1 .. n :
            /\ alerts[i].key \in DOMAIN cooldown_map
            /\ i > setback => /\ raisedAt[i] <= cooldown_map[alerts[i].key]
                              /\ cooldown_map[alerts[i].key] <= clock
       /\ \A r \in DOMAIN cooldown_map :
            \E i \in 1 .. n : alerts[i].key = r /\ raisedAt[i] = cooldown_map[r]
  BY <1>6 DEF AlertInv, Remembered, n
<1>29. /\ \A i \in 1 .. n : alerts'[i] = alerts[i]
       /\ \A j \in 1 .. k : alerts'[n + j].key = fired[j].key
  BY <1>2, <1>6
<1>15. Remembered' /\ DOMAIN cooldown_map' \subseteq Rules
         /\ \A r \in DOMAIN cooldown_map' : cooldown_map'[r] \in ClockReadings
  <2>1. Len(heard') = Len(alerts') /\ Len(raisedAt') = Len(alerts')
    BY <1>2, <1>14, <1>20
  <2>2. setback' <= Len(alerts')
    BY <1>2, <1>5, <1>6, <1>7, <1>9, <1>28
  <2>3. ASSUME NEW i \in 1 .. n + k
        PROVE  /\ alerts'[i].key \in DOMAIN cooldown_map'
               /\ i > setback => /\ raisedAt'[i] <= cooldown_map'[alerts'[i].key]
                                 /\ cooldown_map'[alerts'[i].key] <= clock
    <3>1. ASSUME NEW j \in 1 .. k, i = n + j
          PROVE  /\ alerts'[i].key \in FiredKeys(fired)
                 /\ raisedAt'[i] = clock
      BY <1>20, <1>24, <1>29, <3>1
    <3>2. CASE i \in 1 .. n
      <4>1. /\ alerts'[i].key = alerts[i].key /\ raisedAt'[i] = raisedAt[i]
            /\ alerts[i].key \in DOMAIN cooldown_map
        BY <1>20, <1>28, <1>29, <3>2
      <4>2. CASE alerts[i].key \in FiredKeys(fired)
        BY <1>25, <1>26, <1>27, <1>28, <3>2, <4>1, <4>2
      <4>3. CASE alerts[i].key \notin FiredKeys(fired)
        BY <1>25, <1>28, <3>2, <4>1, <4>3
      <4> QED
        BY <4>2, <4>3
    <3> QED
      BY <1>21, <1>25, <1>26, <3>1, <3>2
  <2>4. ASSUME NEW r \in DOMAIN cooldown_map'
        PROVE  \E i \in 1 .. n + k : alerts'[i].key = r /\ raisedAt'[i] = cooldown_map'[r]
    <3>1. CASE r \in FiredKeys(fired)
      BY <1>20, <1>22, <1>24, <1>25, <1>29, <3>1
    <3>2. CASE r \notin FiredKeys(fired)
      BY <1>20, <1>23, <1>25, <1>28, <1>29, <3>2
    <3> QED
      BY <3>1, <3>2
  <2>5. Remembered'
    BY <1>5, <1>10, <2>1, <2>2, <2>3, <2>4 DEF Remembered
  <2>6. \A r \in DOMAIN cooldown_map' : cooldown_map'[r] \in ClockReadings
    BY <1>9, <1>13, <1>25
  <2> QED
    BY <1>8, <1>13, <1>25, <2>5, <2>6
<1>16. /\ inbox \in Seq(Entry) /\ Len(inbox) \in Nat /\ DOMAIN inbox = 1 .. Len(inbox)
       /\ \A m \in 1 .. Len(inbox) :
            inbox[m] \in (1 .. n) \X {"Active", "Escalated"}
       /\ \A i \in 1 .. n :
            heard[i] <=> \E m \in 1 .. Len(inbox) : inbox[m] = <<i, "Active">>
  <2>1. inbox \in Seq(Entry) /\ Announced
    BY DEF AlertInv, TypeOK
  <2> HIDE DEF Entry
  <2>2. Len(inbox) \in Nat /\ DOMAIN inbox = 1 .. Len(inbox)
    BY <2>1, LenProperties
  <2> QED
    BY <1>6, <2>1, <2>2 DEF Announced
<1>17. Announced' /\ inbox' \in Seq(Entry)
  <2>1. CASE ~callback
    <3>1. inbox' = inbox
      BY <1>2, <2>1
    <3>2. \A m \in DOMAIN inbox' : inbox'[m] \in (DOMAIN alerts') \X {"Active", "Escalated"}
      BY <1>6, <1>7, <1>10, <1>16, <3>1
    <3>3. ASSUME NEW i \in 1 .. n + k, ~(i \in 1 .. n)
          PROVE  heard'[i] <=> \E m \in DOMAIN inbox' : inbox'[m] = <<i, "Active">>
      <4>1. i - n \in 1 .. k /\ n + (i - n) = i
        BY <1>6, <1>7, <3>3
      <4>2. ~heard'[n + (i - n)]
        BY Zenon, <1>14, <2>1, <4>1
      <4>3. \A m \in DOMAIN inbox' : inbox'[m] # <<i, "Active">>
        BY <1>16, <3>1, <3>3
      <4> QED
        BY <4>1, <4>2, <4>3
    <3>4. ASSUME NEW i \in 1 .. n
          PROVE  heard'[i] <=> \E m \in DOMAIN inbox' : inbox'[m] = <<i, "Active">>
      BY <1>14, <1>16, <3>1
    <3>5. \A i \in DOMAIN alerts' :
            heard'[i] <=> \E m \in DOMAIN inbox' : inbox'[m] = <<i, "Active">>
      BY <1>10, <3>3, <3>4
    <3> QED
      BY <1>16, <3>1, <3>2, <3>5 DEF AlertInv, Announced
  <2>2. CASE callback
    <3> DEFINE p == Len(inbox)
    <3>1. /\ told \in Seq(Entry) /\ Len(told) = k
          /\ \A i \in 1 .. k : told[i] = <<n + i, "Active">>
      <4>1. \A i \in 1 .. k : n + i \in Nat
        BY <1>6
      <4>2. told \in [1 .. k -> Entry]
        BY <4>1 DEF Told, AlertStates
      <4>3. told \in Seq(Entry)
        BY <1>7, <4>2, SeqDef
      <4> QED
        BY <1>7, <4>2, <4>3, LenProperties DEF Told
    <3> HIDE DEF told
    <3>2. inbox' = inbox \o told
      BY <1>2, <2>2
    <3>3. /\ inbox \o told \in Seq(Entry)
          /\ Len(inbox \o told) = Len(inbox) + Len(told)
          /\ \A m \in 1 .. Len(inbox) + Len(told) :
               (inbox \o told)[m] =
                 IF m <= Len(inbox) THEN inbox[m] ELSE told[m - Len(inbox)]
      <4>1. inbox \in Seq(Entry) /\ told \in Seq(Entry)
        BY <1>16, <3>1
      <4> HIDE DEF Entry
      <4> QED
        BY <4>1, ConcatProperties
    <3>4. /\ inbox' \in Seq(Entry) /\ Len(inbox') = p + k
          /\ \A m \in 1 .. p + k :
               inbox'[m] = IF m <= p THEN inbox[m] ELSE told[m - p]
      BY <3>1, <3>2, <3>3
    <3>5. DOMAIN inbox' = 1 .. p + k /\ p \in Nat
      <4> HIDE DEF Entry
      <4> QED
        BY <1>16, <3>4, LenProperties
    <3> HIDE DEF p
    <3>6. ASSUME NEW m \in 1 .. p + k
          PROVE  \/ m \in 1 .. p /\ inbox'[m] = inbox[m]
                      /\ inbox[m] \in (1 .. n) \X {"Active", "Escalated"}
                 \/ m \notin 1 .. p /\ m - p \in 1 .. k
                      /\ inbox'[m] = <<n + (m - p), "Active">>
      <4>1. CASE m \in 1 .. p
        BY <1>16, <3>4, <3>5, <4>1 DEF p
      <4>2. CASE m \notin 1 .. p
        BY <1>7, <3>1, <3>4, <3>5, <4>2
      <4> QED
        BY <4>1, <4>2
    <3>7. \A m \in DOMAIN inbox' : inbox'[m] \in (DOMAIN alerts') \X {"Active", "Escalated"}
      <4>1. ASSUME NEW m \in 1 .. p + k
            PROVE  inbox'[m] \in (1 .. n + k) \X {"Active", "Escalated"}
        <5>1. \A i \in 1 .. n : i \in 1 .. n + k
          BY <1>6, <1>7
        <5>2. CASE inbox'[m] = inbox[m] /\ inbox[m] \in (1 .. n) \X {"Active", "Escalated"}
          BY <5>1, <5>2
        <5>3. CASE m - p \in 1 .. k /\ inbox'[m] = <<n + (m - p), "Active">>
          <6>1. n + (m - p) \in 1 .. n + k
            BY <1>6, <1>7, <5>3
          <6> QED
            BY <5>3, <6>1
        <5> QED
          BY <3>6, <5>2, <5>3
      <4> QED
        BY <1>10, <3>5, <4>1
    <3>8. \A i \in DOMAIN alerts' :
            heard'[i] <=> \E m \in DOMAIN inbox' : inbox'[m] = <<i, "Active">>
      <4>1. ASSUME NEW i \in 1 .. n
            PROVE  heard'[i] <=> \E m \in 1 .. p + k : inbox'[m] = <<i, "Active">>
        <5>1. heard'[i] <=> \E m \in 1 .. p : inbox[m] = <<i, "Active">>
          BY <1>14, <1>16 DEF p
        <5>2. \A m \in 1 .. p : m \in 1 .. p + k
          BY <1>7, <3>5
        <5> QED
          BY <1>6, <1>7, <3>5, <3>6, <5>1, <5>2
      <4>2. ASSUME NEW i \in 1 .. n + k, i \notin 1 .. n
            PROVE  heard'[i] /\ \E m \in 1 .. p + k : inbox'[m] = <<i, "Active">>
        <5>1. PICK j \in 1 .. k : n + j = i
          <6>1. i - n \in 1 .. k /\ n + (i - n) = i
            BY <1>6, <1>7, <4>2
          <6> QED
            BY <6>1
        <5>2. heard'[n + j]
          BY Zenon, <1>14, <2>2
        <5>3. p + j \in 1 .. p + k /\ p + j \notin 1 .. p /\ (p + j) - p = j
          BY <1>7, <3>5
        <5>4. inbox'[p + j] = <<n + j, "Active">>
          BY <3>6, <5>3
        <5> QED
          BY <5>1, <5>2, <5>3, <5>4
      <4> QED
        BY <1>10, <3>5, <4>1, <4>2
    <3>9. \A m, q \in DOMAIN inbox' :
            m < q /\ inbox'[m][2] = "Active" /\ inbox'[q][2] = "Active"
              => inbox'[m][1] < inbox'[q][1]
      <4> SUFFICES ASSUME NEW m \in 1 .. p + k, NEW q \in 1 .. p + k, m < q,
                          inbox'[m][2] = "Active", inbox'[q][2] = "Active"
                   PROVE  inbox'[m][1] < inbox'[q][1]
        BY <3>5
      <4>1. CASE m \in 1 .. p /\ q \in 1 .. p
        <5>1. inbox'[m] = inbox[m] /\ inbox'[q] = inbox[q]
          BY <3>6, <4>1
        <5> QED
          BY <1>16, <4>1, <5>1 DEF AlertInv, Announced, p
      <4>2. CASE m \in 1 .. p /\ q \notin 1 .. p
        <5>1. inbox'[m][1] \in 1 .. n
          BY <3>6, <4>2
        <5>2. inbox'[q][1] = n + (q - p) /\ q - p \in 1 .. k
          BY <3>6, <4>2
        <5> QED
          BY <1>6, <1>7, <5>1, <5>2
      <4>3. CASE m \notin 1 .. p /\ q \notin 1 .. p
        <5>1. /\ inbox'[m][1] = n + (m - p) /\ m - p \in 1 .. k
              /\ inbox'[q][1] = n + (q - p) /\ q - p \in 1 .. k
          BY <3>6, <4>3
        <5>2. n + (m - p) < n + (q - p)
          BY <1>6, <1>7, <3>5
        <5> QED
          BY <5>1, <5>2
      <4>4. m \notin 1 .. p => q \notin 1 .. p
        BY <1>7, <3>5
      <4> QED
        BY <4>1, <4>2, <4>3, <4>4
    <3>10. \A m, q \in DOMAIN inbox' :
             inbox'[m][2] = "Active" /\ inbox'[q] = <<inbox'[m][1], "Escalated">> => m < q
      <4> SUFFICES ASSUME NEW m \in 1 .. p + k, NEW q \in 1 .. p + k,
                          inbox'[m][2] = "Active",
                          inbox'[q] = <<inbox'[m][1], "Escalated">>
                   PROVE  m < q
        BY <3>5
      <4>1. q \in 1 .. p /\ inbox'[q] = inbox[q] /\ inbox'[q][1] \in 1 .. n
        BY <3>6
      <4>2. m \in 1 .. p
        <5> SUFFICES ASSUME m \notin 1 .. p PROVE FALSE
          OBVIOUS
        <5>1. inbox'[m][1] = n + (m - p) /\ m - p \in 1 .. k
          BY <3>6
        <5>2. inbox'[q][1] = inbox'[m][1]
          OBVIOUS
        <5>3. n + (m - p) > n
          BY <1>6, <1>7, <5>1
        <5> QED
          BY <1>6, <4>1, <5>1, <5>2, <5>3
      <4>3. inbox'[m] = inbox[m]
        BY <3>6, <4>2
      <4> QED
        BY <1>16, <4>1, <4>2, <4>3 DEF AlertInv, Announced, p
    <3> QED
      BY <3>4, <3>7, <3>8, <3>9, <3>10 DEF Announced
  <2> QED
    BY <1>9, <2>1, <2>2
<1>18. TypeOK'
  <2>1. alerts' \in Seq(Alert) /\ heard' \in Seq(BOOLEAN)
    BY <1>2, <1>14
  <2>2. DOMAIN id_index' \subseteq Nat /\ next_id' \in Nat \ {0}
    BY <1>2, <1>6, <1>7, <1>10, <1>11 DEF Numbered
  <2>3. /\ cooldown_ms' \in Nat /\ callback' \in BOOLEAN /\ clock' \in ClockReadings
        /\ setback' \in Nat
    BY Zenon, <1>5, <1>9
  <2> QED
    BY <1>15, <1>17, <1>20, <2>1, <2>2, <2>3 DEF TypeOK
<1> QED
  BY <1>11, <1>15, <1>17, <1>18 DEF AlertInv

(* An operator's action writes the state of the alert of that id only. *)
LEMMA MoveToMoves ==
  ASSUME AlertInv, NEW id, NEW state \in AlertStates, MoveTo(id, state)
  PROVE  /\ id \in DOMAIN alerts /\ id_index[id] + 1 = id
         /\ alerts' \in Seq(Alert) /\ Len(alerts') = Len(alerts)
         /\ DOMAIN alerts' = DOMAIN alerts
         /\ \A i \in DOMAIN alerts : i # id => alerts'[i] = alerts[i]
         /\ alerts'[id].id = alerts[id].id /\ alerts'[id].key = alerts[id].key
         /\ alerts'[id].severity = alerts[id].severity
         /\ alerts'[id].state = state
         /\ Numbered' /\ Remembered'
<1> DEFINE at == id_index[id] + 1
           moved == [alerts[id] EXCEPT !.state = state]
<1>1. /\ id \in DOMAIN id_index
      /\ alerts' = [alerts EXCEPT ![at].state = state]
      /\ id_index' = id_index /\ next_id' = next_id
      /\ cooldown_map' = cooldown_map /\ heard' = heard
      /\ raisedAt' = raisedAt /\ setback' = setback /\ clock' = clock
  BY DEF MoveTo, managerVars, audit
<1>2. Numbered /\ Remembered /\ alerts \in Seq(Alert)
  BY DEF AlertInv, TypeOK
<1>3. Len(alerts) \in Nat /\ DOMAIN alerts = 1 .. Len(alerts)
  BY <1>2, LenProperties
<1>4. id \in 1 .. Len(alerts) /\ at = id
  BY <1>1, <1>2, <1>3 DEF Numbered
<1>5. alerts[id] \in Alert
  BY <1>2, <1>4, ElementOfSeq
<1>6. /\ moved \in Alert /\ moved.id = alerts[id].id /\ moved.key = alerts[id].key
      /\ moved.severity = alerts[id].severity /\ moved.state = state
  BY <1>5 DEF Alert
<1>7. alerts' = [alerts EXCEPT ![id] = moved]
  BY <1>1, <1>4
<1> HIDE DEF moved, at
<1>8. /\ alerts' \in Seq(Alert) /\ Len(alerts') = Len(alerts)
      /\ \A i \in 1 .. Len(alerts) : alerts'[i] = IF i = id THEN moved ELSE alerts[i]
  BY <1>2, <1>4, <1>6, <1>7, ExceptSeq
<1>9. DOMAIN alerts' = DOMAIN alerts
  BY <1>3, <1>8, LenProperties
<1>10. /\ \A i \in DOMAIN alerts : i # id => alerts'[i] = alerts[i]
       /\ alerts'[id] = moved
  BY <1>3, <1>4, <1>8
<1>11. Numbered'
  <2>1. \A i \in DOMAIN alerts : alerts'[i].id = i
    BY <1>2, <1>6, <1>10 DEF Numbered
  <2> QED
    BY <1>1, <1>2, <1>8, <1>9, <2>1 DEF Numbered
<1>12. Remembered'
  <2>1. \A i \in DOMAIN alerts : alerts'[i].key = alerts[i].key
    BY <1>6, <1>10
  <2> QED
    BY <1>1, <1>2, <1>3, <1>8, <1>9, <2>1 DEF Remembered
<1> QED
  BY <1>3, <1>4, <1>6, <1>8, <1>9, <1>10, <1>11, <1>12 DEF at

LEMMA QuietMoveKeeps ==
  ASSUME AlertInv, NEW id, NEW state \in AlertStates, MoveTo(id, state),
         UNCHANGED inbox
  PROVE  AlertInv'
<1>1. /\ alerts' \in Seq(Alert) /\ DOMAIN alerts' = DOMAIN alerts
      /\ Numbered' /\ Remembered'
  BY MoveToMoves
<1>2. /\ id_index' = id_index /\ next_id' = next_id /\ cooldown_ms' = cooldown_ms
      /\ cooldown_map' = cooldown_map /\ callback' = callback /\ clock' = clock
      /\ raisedAt' = raisedAt /\ setback' = setback /\ heard' = heard /\ inbox' = inbox
  BY DEF MoveTo, managerVars, audit
<1>3. TypeOK'
  BY <1>1, <1>2 DEF AlertInv, TypeOK
<1>4. Announced'
  BY <1>1, <1>2 DEF AlertInv, Announced
<1> QED
  BY <1>1, <1>3, <1>4 DEF AlertInv

LEMMA EscalateKeeps ==
  ASSUME AlertInv, NEW id, escalate(id)
  PROVE  AlertInv'
<1> DEFINE entry == <<id, "Escalated">>
           p == Len(inbox)
           Entry == Nat \X AlertStates
<1>1. "Escalated" \in AlertStates
  BY DEF AlertStates
<1>2. MoveTo(id, "Escalated") /\ emit_alerts(<<alerts'[id_index[id] + 1]>>)
  BY DEF escalate
<1>3. /\ id \in DOMAIN alerts /\ id_index[id] + 1 = id
      /\ alerts' \in Seq(Alert) /\ DOMAIN alerts' = DOMAIN alerts
      /\ alerts'[id].id = alerts[id].id /\ alerts'[id].state = "Escalated"
      /\ Numbered' /\ Remembered'
  BY <1>1, <1>2, MoveToMoves
<1>4. alerts[id].id = id /\ alerts \in Seq(Alert)
  BY <1>3 DEF AlertInv, Numbered, TypeOK
<1>5. inbox' = IF callback THEN inbox \o <<entry>> ELSE inbox
  <2> DEFINE new == <<alerts'[id]>>
  <2>1. inbox' = IF callback
                   THEN inbox \o [i \in DOMAIN new |-> <<new[i].id, new[i].state>>]
                   ELSE inbox
    BY <1>2, <1>3 DEF emit_alerts
  <2>2. [i \in DOMAIN new |-> <<new[i].id, new[i].state>>] = <<entry>>
    <3>1. DOMAIN new = 1 .. 1 /\ new[1] = alerts'[id]
      OBVIOUS
    <3>2. <<new[1].id, new[1].state>> = entry
      BY <1>3, <1>4, <3>1
    <3> HIDE DEF new
    <3> QED
      BY <3>1, <3>2
  <2> QED
    BY <2>1, <2>2
<1>6. /\ id_index' = id_index /\ next_id' = next_id /\ cooldown_ms' = cooldown_ms
      /\ cooldown_map' = cooldown_map /\ callback' = callback /\ clock' = clock
      /\ raisedAt' = raisedAt /\ setback' = setback /\ heard' = heard
  BY <1>2 DEF MoveTo, managerVars, audit
<1>7. inbox \in Seq(Entry) /\ callback \in BOOLEAN
  BY DEF AlertInv, TypeOK
<1>8. DOMAIN alerts \subseteq Nat /\ entry \in Entry
  <2>1. DOMAIN alerts \subseteq Nat
    BY <1>4, LenProperties
  <2> QED
    BY <1>1, <1>3, <2>1
<1>9. inbox' \in Seq(Entry) /\ Announced'
  <2>1. CASE ~callback
    <3>1. inbox' = inbox
      BY <1>5, <2>1
    <3> QED
      BY <1>3, <1>6, <1>7, <3>1 DEF AlertInv, Announced
  <2>2. CASE callback
    <3> HIDE DEF entry, Entry
    <3>1. inbox' = Append(inbox, entry)
      BY <1>5, <1>7, <1>8, <2>2
    <3>2. p \in Nat /\ DOMAIN inbox = 1 .. p
      BY <1>7, LenProperties
    <3>3. /\ inbox' \in Seq(Entry) /\ DOMAIN inbox' = 1 .. p + 1
          /\ inbox'[p + 1] = entry
          /\ \A m \in 1 .. p : inbox'[m] = inbox[m]
      BY <1>7, <1>8, <3>1, AppendProperties, LenProperties
    <3> HIDE DEF p
    <3>4. \A m \in 1 .. p + 1 : m \in 1 .. p \/ m = p + 1
      BY <3>2
    <3>5. \A m \in 1 .. p : m \in 1 .. p + 1 /\ m < p + 1
      BY <3>2
    <3>6. entry = <<id, "Escalated">> /\ entry[2] # "Active"
      BY DEF entry
    <3>7. Announced
      BY DEF AlertInv
    <3>8. \A m \in DOMAIN inbox' :
            inbox'[m] \in (DOMAIN alerts') \X {"Active", "Escalated"}
      BY <1>3, <3>2, <3>3, <3>4, <3>6, <3>7 DEF Announced
    <3>9. \A i \in DOMAIN alerts' :
            heard'[i] <=> \E m \in DOMAIN inbox' : inbox'[m] = <<i, "Active">>
      <4> SUFFICES ASSUME NEW i \in DOMAIN alerts
                   PROVE  heard[i] <=> \E m \in 1 .. p + 1 : inbox'[m] = <<i, "Active">>
        BY <1>3, <1>6, <3>3
      <4>1. heard[i] <=> \E m \in 1 .. p : inbox[m] = <<i, "Active">>
        BY <3>2, <3>7 DEF Announced
      <4>2. inbox'[p + 1] # <<i, "Active">>
        BY <3>3, <3>6
      <4> QED
        BY <3>3, <3>4, <3>5, <4>1, <4>2
    <3>10. \A m, q \in DOMAIN inbox' :
             m < q /\ inbox'[m][2] = "Active" /\ inbox'[q][2] = "Active"
               => inbox'[m][1] < inbox'[q][1]
      <4> SUFFICES ASSUME NEW m \in 1 .. p + 1, NEW q \in 1 .. p + 1, m < q,
                          inbox'[m][2] = "Active", inbox'[q][2] = "Active"
                   PROVE  inbox'[m][1] < inbox'[q][1]
        BY <3>3
      <4>1. m \in 1 .. p /\ q \in 1 .. p
        BY <3>3, <3>4, <3>6
      <4> QED
        BY <3>2, <3>3, <3>7, <4>1 DEF Announced
    <3>11. \A m, q \in DOMAIN inbox' :
             inbox'[m][2] = "Active" /\ inbox'[q] = <<inbox'[m][1], "Escalated">> => m < q
      <4> SUFFICES ASSUME NEW m \in 1 .. p + 1, NEW q \in 1 .. p + 1,
                          inbox'[m][2] = "Active",
                          inbox'[q] = <<inbox'[m][1], "Escalated">>
                   PROVE  m < q
        BY <3>3
      <4>1. m \in 1 .. p
        BY <3>3, <3>4, <3>6
      <4>2. CASE q = p + 1
        BY <3>5, <4>1, <4>2
      <4>3. CASE q \in 1 .. p
        BY <3>2, <3>3, <3>7, <4>1, <4>3 DEF Announced
      <4> QED
        BY <3>4, <4>2, <4>3
    <3> QED
      BY <3>3, <3>8, <3>9, <3>10, <3>11 DEF Announced
  <2> QED
    BY <1>7, <2>1, <2>2
<1>10. TypeOK'
  BY <1>3, <1>6, <1>9 DEF AlertInv, TypeOK
<1> QED
  BY <1>3, <1>9, <1>10 DEF AlertInv

LEMMA SettingsKeep ==
  ASSUME AlertInv,
         \/ \E installed \in BOOLEAN : on_alert(installed)
         \/ \E ms \in Cooldowns : set_cooldown_ms(ms)
         \/ ClockMoves
         \/ UNCHANGED vars
  PROVE  AlertInv'
<1>1. /\ alerts' = alerts /\ inbox' = inbox /\ heard' = heard /\ raisedAt' = raisedAt
      /\ id_index' = id_index /\ next_id' = next_id /\ cooldown_map' = cooldown_map
  BY DEF on_alert, set_cooldown_ms, ClockMoves, vars, managerVars, audit
<1>2. cooldown_ms' \in Nat
  BY CooldownAssumption
     DEF AlertInv, TypeOK, on_alert, set_cooldown_ms, ClockMoves, vars, managerVars, audit
<1>3. callback' \in BOOLEAN
  BY DEF AlertInv, TypeOK, on_alert, set_cooldown_ms, ClockMoves, vars, managerVars, audit
<1>4. clock' \in ClockReadings
  BY DEF AlertInv, TypeOK, on_alert, set_cooldown_ms, ClockMoves, vars, managerVars, audit
<1>5. Len(alerts) \in Nat /\ DOMAIN alerts = 1 .. Len(alerts)
  BY LenProperties DEF AlertInv, TypeOK
<1>6. setback' \in Nat
  BY <1>5 DEF AlertInv, TypeOK, on_alert, set_cooldown_ms, ClockMoves, vars, audit
<1>7. TypeOK'
  BY <1>1, <1>2, <1>3, <1>4, <1>6 DEF AlertInv, TypeOK
<1>8. \/ setback' = setback /\ clock <= clock'
      \/ setback' = Len(alerts)
  <2>1. clock \in Nat /\ clock' \in Nat
    BY <1>4, ClockAssumption DEF AlertInv, TypeOK
  <2>2. \/ setback' = setback /\ clock' = clock
        \/ setback' = IF clock' < clock THEN Len(alerts) ELSE setback
    BY DEF on_alert, set_cooldown_ms, ClockMoves, vars, audit
  <2> QED
    BY <2>1, <2>2
<1>9. Remembered'
  <2>1. \A k \in DOMAIN cooldown_map : cooldown_map[k] \in Nat
    BY ClockAssumption DEF AlertInv, TypeOK
  <2>2. clock \in Nat /\ clock' \in Nat
    BY <1>4, ClockAssumption DEF AlertInv, TypeOK
  <2>3. CASE setback' = setback /\ clock <= clock'
    BY <1>1, <2>1, <2>2, <2>3 DEF AlertInv, Remembered
  <2>4. CASE setback' = Len(alerts)
    BY <1>1, <1>5, <2>4 DEF AlertInv, Remembered
  <2> QED
    BY <1>8, <2>3, <2>4
<1> QED
  BY <1>1, <1>7, <1>9 DEF AlertInv, Numbered, Announced

(* Alerts are numbered as they were raised, the manager's memory of its    *)
(* rules is when they raised, and the subscriber was told in that order.   *)
THEOREM AlertInvariant == Spec => []AlertInv
<1>1. ASSUME AlertInv, [Next]_vars PROVE AlertInv'
  <2>1. ASSUME NEW net_qty \in NetQuantities, NEW price \in Prices,
               NEW daily_pnl \in DailyPnLs, NEW drawdown \in Drawdowns,
               NEW gross \in Exposures, NEW symbol \in Symbols,
               evaluate_rules(net_qty, price, daily_pnl, drawdown, gross, symbol)
        PROVE  AlertInv'
    BY <1>1, <2>1, EvaluateKeeps
  <2>2. ASSUME NEW id \in OperatorIds, acknowledge(id) \/ resolve(id) \/ write_off(id)
        PROVE  AlertInv'
    <3>1. /\ "Acknowledged" \in AlertStates /\ "Resolved" \in AlertStates
          /\ "WrittenOff" \in AlertStates
      BY DEF AlertStates
    <3> QED
      BY <1>1, <2>2, <3>1, QuietMoveKeeps DEF acknowledge, resolve, write_off
  <2>3. ASSUME NEW id \in OperatorIds, escalate(id) PROVE AlertInv'
    BY <1>1, <2>3, EscalateKeeps
  <2>4. CASE \/ \E installed \in BOOLEAN : on_alert(installed)
             \/ \E ms \in Cooldowns : set_cooldown_ms(ms)
             \/ ClockMoves
             \/ UNCHANGED vars
    BY <1>1, <2>4, SettingsKeep
  <2> QED
    BY <1>1, <2>1, <2>2, <2>3, <2>4 DEF Next
<1> QED
  BY Starts, <1>1, PTL DEF Spec

------------------------------------------------------------------------------
(* Properties *)

(* id_index finds for every id its own alert: it covers the alerts raised  *)
(* so far, and no id is given twice.                                       *)
THEOREM IndexIsSound == Spec => []IndexSound
<1>1. ASSUME AlertInv PROVE IndexSound
  <2>1. TypeOK /\ Numbered
    BY <1>1 DEF AlertInv
  <2>2. Len(alerts) \in Nat /\ DOMAIN alerts = 1 .. Len(alerts)
    BY <2>1, LenProperties DEF TypeOK
  <2>3. DOMAIN id_index = {alerts[i].id : i \in DOMAIN alerts}
    BY <2>1 DEF Numbered
  <2>4. ASSUME NEW id \in DOMAIN id_index
        PROVE  /\ id < next_id /\ id_index[id] + 1 \in DOMAIN alerts
               /\ alerts[id_index[id] + 1].id = id
    <3>1. id \in 1 .. Len(alerts) /\ id_index[id] = id - 1
      BY <2>1, <2>2 DEF Numbered
    <3>2. id_index[id] + 1 = id
      BY <2>2, <3>1
    <3> QED
      BY <2>1, <2>2, <3>1, <3>2 DEF Numbered
  <2>5. \A i, j \in DOMAIN alerts : i < j => alerts[i].id < alerts[j].id
    BY <2>1, <2>2 DEF Numbered
  <2> QED
    BY <2>1, <2>3, <2>4, <2>5 DEF IndexSound
<1> QED
  BY <1>1, AlertInvariant, PTL

(* A subscriber that is installed when an alert is raised hears of it once,*)
(* in the order of the ids, and before any of its escalations.             *)
THEOREM AnnouncementsInOrder == Spec => []AnnouncedOnceInOrder
<1>1. ASSUME AlertInv PROVE AnnouncedOnceInOrder
  <2>1. Numbered /\ Announced
    BY <1>1 DEF AlertInv
  <2>2. DOMAIN inbox \subseteq Int
    BY <1>1, LenProperties DEF AlertInv, TypeOK
  <2>3. DOMAIN alerts \subseteq Int
    BY <1>1, LenProperties DEF AlertInv, TypeOK
  <2>4. \A m, n \in DOMAIN inbox :
          m < n /\ inbox[m][2] = "Active" /\ inbox[n][2] = "Active"
            => inbox[m][1] < inbox[n][1]
    BY <2>1 DEF Announced
  <2>5. ASSUME NEW i \in DOMAIN alerts
        PROVE  LET raising == Announcements(<<alerts[i].id, "Active">>)
                   escalating == Announcements(<<alerts[i].id, "Escalated">>)
               IN /\ heard[i] <=> raising # {}
                  /\ \A m, n \in raising : m = n
                  /\ \A m \in raising, n \in escalating : m < n
    <3> DEFINE raising == Announcements(<<alerts[i].id, "Active">>)
               escalating == Announcements(<<alerts[i].id, "Escalated">>)
    <3>1. alerts[i].id = i
      BY <2>1 DEF Numbered
    <3>2. /\ raising = {n \in DOMAIN inbox : inbox[n] = <<i, "Active">>}
          /\ escalating = {n \in DOMAIN inbox : inbox[n] = <<i, "Escalated">>}
      BY <3>1 DEF Announcements
    <3> HIDE DEF raising, escalating
    <3>3. heard[i] <=> raising # {}
      BY <2>1, <3>2 DEF Announced
    <3>4. ASSUME NEW m \in raising, NEW n \in raising PROVE ~(m < n)
      <4>1. /\ m \in DOMAIN inbox /\ n \in DOMAIN inbox
            /\ inbox[m][1] = i /\ inbox[m][2] = "Active"
            /\ inbox[n][1] = i /\ inbox[n][2] = "Active"
        BY <3>2
      <4>2. m < n => i < i
        BY <2>4, <4>1
      <4> QED
        BY <2>3, <4>2
    <3>5. \A m, n \in raising : m = n
      BY <2>2, <3>2, <3>4
    <3>6. \A m \in raising, n \in escalating : m < n
      BY <2>1, <3>2 DEF Announced
    <3> QED
      BY <3>3, <3>5, <3>6 DEF raising, escalating
  <2> QED
    BY <2>4, <2>5 DEF AnnouncedOnceInOrder
<1> QED
  BY <1>1, AlertInvariant, PTL

(* A reading in the cooldown since another lies less than the cooldown     *)
(* after it; one that is not, at least as long after it or before it.      *)
LEMMA CooldownOnTheClock ==
  ASSUME NEW since \in ClockReadings, NEW now \in ClockReadings,
         NEW ms \in Nat, since + ms * NsPerMs < Word, now + ms * NsPerMs < Word
  PROVE  /\ ElapsedMs(since, now) < ms => since <= now /\ now - since < ms * NsPerMs
         /\ ~(ElapsedMs(since, now) < ms) /\ since <= now => now - since >= ms * NsPerMs
<1>1. /\ Word \in Nat /\ Word > 0 /\ NsPerMs \in Nat /\ NsPerMs > 0
      /\ since \in Nat /\ now \in Nat
  BY ClockAssumption
<1>2. PICK cooldown \in Nat : cooldown = ms * NsPerMs
  BY <1>1
<1>3. ASSUME NEW a \in Nat
      PROVE  a \div NsPerMs < ms <=> a < cooldown
  <2>1. PICK e \in Nat : e = a \div NsPerMs
    BY <1>1
  <2>2. e * NsPerMs <= a /\ a < (e + 1) * NsPerMs
    BY <1>1, <2>1
  <2>3. e < ms => (e + 1) * NsPerMs <= ms * NsPerMs
    BY <1>1
  <2>4. ~(e < ms) => ms * NsPerMs <= e * NsPerMs
    BY <1>1
  <2>5. e * NsPerMs \in Nat /\ (e + 1) * NsPerMs \in Nat
    BY <1>1
  <2> QED
    BY <1>2, <2>1, <2>2, <2>3, <2>4, <2>5
<1>4. since + cooldown < Word /\ now + cooldown < Word
  BY <1>2
<1>5. CASE since <= now
  <2>1. (now - since) % Word = now - since /\ now - since \in Nat
    BY <1>1, <1>2, <1>4, <1>5
  <2>2. ElapsedMs(since, now) = (now - since) \div NsPerMs
    BY <2>1 DEF ElapsedMs
  <2>3. ElapsedMs(since, now) < ms <=> now - since < cooldown
    BY <1>3, <2>1, <2>2
  <2> QED
    BY <1>1, <1>2, <1>5, <2>1, <2>3
<1>6. CASE ~(since <= now)
  <2>1. (now - since) % Word = now - since + Word /\ now - since + Word \in Nat
    BY <1>1, <1>2, <1>4, <1>6
  <2>2. ElapsedMs(since, now) = (now - since + Word) \div NsPerMs
    BY <2>1 DEF ElapsedMs
  <2>3. ElapsedMs(since, now) < ms <=> now - since + Word < cooldown
    BY <1>3, <2>1, <2>2
  <2>4. ~(now - since + Word < cooldown)
    BY <1>1, <1>2, <1>4
  <2> QED
    BY <1>6, <2>3, <2>4
<1> QED
  BY <1>5, <1>6

(* The cooldown in force is far from the width of the clock. *)
LEMMA CooldownInForce ==
  Spec => [](cooldown_ms \in Cooldowns \cup {DefaultCooldown})
<1> DEFINE InForce == cooldown_ms \in Cooldowns \cup {DefaultCooldown}
<1>1. Init => InForce
  BY DEF Init
<1>2. InForce /\ [Next]_vars => InForce'
  <2> SUFFICES ASSUME InForce, [Next]_vars PROVE InForce'
    OBVIOUS
  <2>1. ASSUME NEW net_qty, NEW price, NEW daily_pnl, NEW drawdown, NEW gross, NEW symbol,
               evaluate_rules(net_qty, price, daily_pnl, drawdown, gross, symbol)
        PROVE  cooldown_ms' = cooldown_ms
    BY <2>1 DEF evaluate_rules
  <2>2. ASSUME NEW id, acknowledge(id) \/ resolve(id) \/ escalate(id) \/ write_off(id)
        PROVE  cooldown_ms' = cooldown_ms
    BY <2>2 DEF acknowledge, resolve, escalate, write_off, MoveTo, managerVars
  <2>3. CASE (\E installed \in BOOLEAN : on_alert(installed)) \/ ClockMoves \/ UNCHANGED vars
    BY <2>3 DEF on_alert, ClockMoves, vars, managerVars
  <2>4. ASSUME NEW ms \in Cooldowns, set_cooldown_ms(ms) PROVE cooldown_ms' \in Cooldowns
    BY <2>4 DEF set_cooldown_ms
  <2> QED
    BY <2>1, <2>2, <2>3, <2>4 DEF Next
<1> QED
  BY <1>1, <1>2, PTL DEF Spec

(* What is known of the readings in any state. *)
LEMMA Readings ==
  ASSUME AlertInv, cooldown_ms \in Cooldowns \cup {DefaultCooldown}
  PROVE  /\ Len(alerts) \in Nat /\ DOMAIN alerts = 1 .. Len(alerts)
         /\ setback \in Nat /\ clock \in ClockReadings /\ cooldown_ms \in Nat
         /\ \A i \in DOMAIN alerts : raisedAt[i] \in ClockReadings /\ raisedAt[i] \in Nat
         /\ \A k \in DOMAIN cooldown_map :
              cooldown_map[k] \in ClockReadings /\ cooldown_map[k] \in Nat
         /\ \A now \in ClockReadings : now + cooldown_ms * NsPerMs < Word
<1>1. Len(alerts) \in Nat /\ DOMAIN alerts = 1 .. Len(alerts)
  BY LenProperties DEF AlertInv, TypeOK
<1>2. \A i \in DOMAIN alerts : raisedAt[i] \in ClockReadings
  <2>1. raisedAt \in Seq(ClockReadings) /\ Len(raisedAt) = Len(alerts)
    BY DEF AlertInv, TypeOK, Remembered
  <2> QED
    BY <1>1, <2>1, ElementOfSeq
<1> QED
  BY <1>1, <1>2, ClockAssumption, WordIsWide DEF AlertInv, TypeOK

(* As long as the clock is not set back, two alerts of one rule lie at     *)
(* least the cooldown in force at the second apart.                        *)
THEOREM AlertsAreSpaced == Spec => CooldownSpacing
<1> DEFINE Spaced ==
             \A j \in DOMAIN alerts' \ DOMAIN alerts, i \in DOMAIN alerts' :
               i < j /\ i > setback /\ alerts'[i].key = alerts'[j].key =>
                 /\ i \in DOMAIN alerts
                 /\ clock - raisedAt[i] >= cooldown_ms * NsPerMs
           InForce == cooldown_ms \in Cooldowns \cup {DefaultCooldown}
<1>1. ASSUME AlertInv, InForce, NEW net_qty \in NetQuantities, NEW price \in Prices,
             NEW daily_pnl \in DailyPnLs, NEW drawdown \in Drawdowns,
             NEW gross \in Exposures, NEW symbol \in Symbols,
             evaluate_rules(net_qty, price, daily_pnl, drawdown, gross, symbol)
      PROVE  Spaced
  <2> DEFINE fired == Fired(net_qty, price, daily_pnl, drawdown, gross, symbol)
             n == Len(alerts)
             k == Len(fired)
  <2>1. FiresOnce(fired, Rules)
    BY EvaluationFiresOnce
  <2>2. /\ alerts' \in Seq(Alert) /\ Len(alerts') = n + k
        /\ \A i \in DOMAIN alerts : alerts'[i] = alerts[i]
        /\ \A i \in 1 .. k : alerts'[n + i].key = fired[i].key
    BY <1>1, EvaluationStores
  <2> HIDE DEF fired
  <2>3. n \in Nat /\ DOMAIN alerts = 1 .. n
    BY <1>1, LenProperties DEF AlertInv, TypeOK
  <2>4. k \in Nat /\ DOMAIN fired = 1 .. k /\ DOMAIN alerts' = 1 .. n + k
    BY <2>1, <2>2, LenProperties DEF FiresOnce
  <2> HIDE DEF n, k
  <2>5. ASSUME NEW j \in DOMAIN alerts' \ DOMAIN alerts
        PROVE  j \in Int /\ j - n \in 1 .. k /\ alerts'[j].key = fired[j - n].key
    <3>1. j \in Int /\ j - n \in 1 .. k /\ n + (j - n) = j
      BY <2>3, <2>4
    <3>2. alerts'[n + (j - n)].key = fired[j - n].key
      BY <2>2, <3>1
    <3> QED
      BY <3>1, <3>2
  <2>6. ASSUME NEW j \in DOMAIN alerts' \ DOMAIN alerts,
               NEW i \in DOMAIN alerts' \ DOMAIN alerts, alerts'[i].key = alerts'[j].key
        PROVE  i = j
    <3>1. fired[i - n].key = fired[j - n].key
      BY <2>5, <2>6
    <3>2. i - n = j - n
      BY <2>1, <2>4, <2>5, <3>1 DEF FiresOnce
    <3> QED
      BY <2>3, <2>5, <3>2
  <2>7. ASSUME NEW j \in DOMAIN alerts' \ DOMAIN alerts, NEW i \in DOMAIN alerts,
               i > setback, alerts'[i].key = alerts'[j].key
        PROVE  clock - raisedAt[i] >= cooldown_ms * NsPerMs
    <3> DEFINE rule == alerts[i].key
    <3>1. ~in_cooldown(rule, clock)
      BY <2>1, <2>2, <2>4, <2>5, <2>7 DEF FiresOnce
    <3>2. /\ rule \in DOMAIN cooldown_map /\ raisedAt[i] <= cooldown_map[rule]
          /\ cooldown_map[rule] <= clock
      BY <1>1, <2>7 DEF AlertInv, Remembered
    <3>3. ~(ElapsedMs(cooldown_map[rule], clock) < cooldown_ms)
      BY <3>1, <3>2 DEF in_cooldown
    <3>4. /\ cooldown_map[rule] \in ClockReadings /\ cooldown_map[rule] \in Nat
          /\ clock \in ClockReadings /\ raisedAt[i] \in Nat /\ cooldown_ms \in Nat
          /\ \A now \in ClockReadings : now + cooldown_ms * NsPerMs < Word
      BY <1>1, <2>7, <3>2, Readings
    <3> HIDE DEF rule
    <3>5. clock - cooldown_map[rule] >= cooldown_ms * NsPerMs
      BY <3>2, <3>3, <3>4, CooldownOnTheClock
    <3>6. cooldown_ms * NsPerMs \in Nat /\ clock \in Nat
      BY <3>4, ClockAssumption
    <3> QED
      BY <3>2, <3>4, <3>5, <3>6
  <2>8. ASSUME NEW j \in DOMAIN alerts' \ DOMAIN alerts, NEW i \in DOMAIN alerts',
               i < j, i > setback, alerts'[i].key = alerts'[j].key
        PROVE  i \in DOMAIN alerts /\ clock - raisedAt[i] >= cooldown_ms * NsPerMs
    <3>1. i \in DOMAIN alerts
      BY <2>5, <2>6, <2>8
    <3> QED
      BY <2>7, <2>8, <3>1
  <2> QED
    BY <2>8
<1>2. ASSUME AlertInv, NEW id \in OperatorIds,
             acknowledge(id) \/ resolve(id) \/ escalate(id) \/ write_off(id)
      PROVE  DOMAIN alerts' = DOMAIN alerts
  <2>1. /\ "Acknowledged" \in AlertStates /\ "Resolved" \in AlertStates
        /\ "WrittenOff" \in AlertStates /\ "Escalated" \in AlertStates
    BY DEF AlertStates
  <2> QED
    BY <1>2, <2>1, MoveToMoves DEF acknowledge, resolve, write_off, escalate
<1>3. ASSUME \/ \E installed \in BOOLEAN : on_alert(installed)
             \/ \E ms \in Cooldowns : set_cooldown_ms(ms)
             \/ ClockMoves
      PROVE  DOMAIN alerts' = DOMAIN alerts
  BY <1>3 DEF on_alert, set_cooldown_ms, ClockMoves
<1>4. DOMAIN alerts' = DOMAIN alerts => Spaced
  OBVIOUS
<1> HIDE DEF Spaced
<1>5. ASSUME AlertInv, InForce, Next PROVE Spaced
  BY <1>1, <1>2, <1>3, <1>4, <1>5 DEF Next
<1>6. AlertInv /\ InForce /\ [Next]_vars => [Spaced]_vars
  BY <1>5
<1>7. Spec => [][Spaced]_vars
  BY AlertInvariant, CooldownInForce, <1>6, PTL DEF Spec
<1> QED
  BY <1>7 DEF CooldownSpacing, Spaced

(* A rule is silent only for the cooldown after an alert it raised, on     *)
(* whatever the clock reads: a clock set back silences no rule.            *)
THEOREM SilenceIsJustified == Spec => []SilentOnlyAfterAlert
<1>1. ASSUME AlertInv, cooldown_ms \in Cooldowns \cup {DefaultCooldown},
             NEW k \in Rules, in_cooldown(k, clock)
      PROVE  \E i \in DOMAIN alerts :
               /\ alerts[i].key = k
               /\ raisedAt[i] <= clock
               /\ clock - raisedAt[i] < cooldown_ms * NsPerMs
  <2>1. k \in DOMAIN cooldown_map /\ ElapsedMs(cooldown_map[k], clock) < cooldown_ms
    BY <1>1 DEF in_cooldown
  <2>2. /\ cooldown_map[k] \in ClockReadings /\ clock \in ClockReadings
        /\ cooldown_ms \in Nat
        /\ \A now \in ClockReadings : now + cooldown_ms * NsPerMs < Word
    BY <1>1, <2>1, Readings
  <2>3. /\ cooldown_map[k] <= clock
        /\ clock - cooldown_map[k] < cooldown_ms * NsPerMs
    BY <2>1, <2>2, CooldownOnTheClock
  <2>4. PICK i \in DOMAIN alerts : alerts[i].key = k /\ raisedAt[i] = cooldown_map[k]
    BY <1>1, <2>1 DEF AlertInv, Remembered
  <2> QED
    BY <2>3, <2>4
<1>2. ASSUME AlertInv, cooldown_ms \in Cooldowns \cup {DefaultCooldown}
      PROVE  SilentOnlyAfterAlert
  BY <1>1, <1>2 DEF SilentOnlyAfterAlert
<1> QED
  BY <1>2, AlertInvariant, CooldownInForce, PTL
=============================================================================
