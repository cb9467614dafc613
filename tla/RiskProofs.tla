------------------------------ MODULE RiskProofs ------------------------------
(***************************************************************************)
(* Proofs about what run_replay computes beside the positions: the profits *)
(* of PnLCalculator with their audit, and the limits that RiskLimits and   *)
(* MetricsEngine judge, for any symbols, strategies, trades, marks and     *)
(* limits.  The figures add up, the drawdown is the deepest fall, and the  *)
(* calculator keeps the account it promises; a position is judged by the   *)
(* limits in force, the two judges agree, and the exposure is that of one  *)
(* book.                                                                   *)
(***************************************************************************)
EXTENDS PnLAudit, LimitDesk, ArithmeticProofs, SequenceTheorems

AuditType ==
  /\ TypeOK
  /\ curve \in Seq(Int) /\ curve # << >>
  /\ opening \in [Symbols -> Int]
  /\ booked \in [Keys -> Int]

(* The figures of unrealised profit against the marks. *)
Marked ==
  /\ day_unrealized = Total(unrealized_map) - Total(opening)
  /\ cum_unrealized = Total(unrealized_map) + Total(opening)

Attributed ==
  /\ Total(realized_by_symbol) = cumulative_realized
  /\ Total(realized_by_strategy) = cumulative_realized
  /\ Total(realized_by_hour) = cumulative_realized
  /\ \A s \in Symbols : Entry(realized_by_symbol, s) = SumOver(booked, OfSymbol(s))
  /\ \A s \in Strategies :
       Entry(realized_by_strategy, s) = SumOver(booked, OfStrategy(s))
  /\ \A h \in Buckets : Entry(realized_by_hour, h) = SumOver(booked, AtHour(h))

(* The calculator knows the last and the highest point of the curve. *)
Summit ==
  /\ current_pnl = curve[Len(curve)]
  /\ \A i \in DOMAIN curve : curve[i] <= peak_pnl
  /\ \E i \in DOMAIN curve : curve[i] = peak_pnl

DeepestFall ==
  /\ \A i, j \in DOMAIN curve : i <= j => curve[i] - curve[j] <= max_drawdown
  /\ \E i, j \in DOMAIN curve : i <= j /\ curve[i] - curve[j] = max_drawdown

AuditInv == AuditType /\ Marked /\ Attributed /\ Summit /\ DeepestFall

------------------------------------------------------------------------------
(* Totals *)

LEMMA BucketsFinite == IsFiniteSet(Buckets)
<1>1. \A a, b \in Int : IsFiniteSet(a .. b)
  BY FS_Interval
<1>2. 0 \in Int /\ 23 \in Int
  OBVIOUS
<1> QED
  BY Zenon, <1>1, <1>2 DEF Buckets

LEMMA TotalType ==
  ASSUME NEW K, IsFiniteSet(K), NEW f \in [K -> Int]
  PROVE  Total(f) \in Int
<1>1. DOMAIN f = K /\ \A x \in K : f[x] \in Int
  OBVIOUS
<1> QED
  BY <1>1, TotalIsSum, SumIsInteger

LEMMA TotalOfNothing ==
  ASSUME NEW K, IsFiniteSet(K)
  PROVE  Total(Nothing(K)) = 0
<1>1. DOMAIN Nothing(K) = K /\ \A x \in K : Nothing(K)[x] = 0
  BY DEF Nothing
<1> HIDE DEF Nothing
<1> QED
  BY <1>1, TotalIsSum, SumOfZeros

(* A total changes by as much as the entry that is written. *)
LEMMA TotalChanges ==
  ASSUME NEW K, IsFiniteSet(K), NEW f \in [K -> Int], NEW g \in [K -> Int],
         NEW x \in K, \A y \in K \ {x} : g[y] = f[y]
  PROVE  Total(g) = Total(f) + (g[x] - f[x])
<1>1. /\ DOMAIN g = K /\ DOMAIN f = K
      /\ \A y \in K : f[y] \in Int /\ g[y] \in Int
  OBVIOUS
<1>2. SumOver(g, K) = SumOver(f, K) + (g[x] - f[x])
  BY <1>1, SumChanges
<1> QED
  BY <1>1, <1>2, TotalIsSum

LEMMA KeysFinite == IsFiniteSet(Keys)
<1> DEFINE Pairs == (Symbols \X Strategies) \X Hours
           f == [p \in Pairs |-> <<p[1][1], p[1][2], p[2]>>]
<1>1. IsFiniteSet(Pairs)
  BY KeysAssumption, FS_Product
<1>2. f \in Surjection(Pairs, Keys)
  <2>1. f \in [Pairs -> Keys]
    BY DEF Keys
  <2>2. ASSUME NEW k \in Keys PROVE \E p \in Pairs : f[p] = k
    <3>1. PICK a \in Symbols, b \in Strategies, h \in Hours : k = <<a, b, h>>
      BY <2>2 DEF Keys
    <3>2. <<<<a, b>>, h>> \in Pairs /\ f[<<<<a, b>>, h>>] = k
      BY <3>1
    <3> QED
      BY <3>2
  <2> HIDE DEF f, Pairs
  <2> QED
    BY <2>1, <2>2 DEF Surjection
<1> HIDE DEF f, Pairs
<1> QED
  BY <1>1, <1>2, FS_Surjection

LEMMA EmptyMap ==
  \A K : /\ IsMap(Nothing({}), K) /\ Total(Nothing({})) = 0
         /\ \A k : Entry(Nothing({}), k) = 0
<1>1. Total(Nothing({})) = 0
  BY TotalOfNothing, FS_EmptySet
<1> QED
  BY <1>1 DEF IsMap, Entry, Nothing

(* An attribution takes what a trade realised, under a key it knows or one *)
(* it meets for the first time.                                            *)
LEMMA AddedToMap ==
  ASSUME NEW K, IsFiniteSet(K), NEW map, IsMap(map, K), NEW key \in K, NEW r \in Int
  PROVE  /\ IsMap(Added(map, key, r), K)
         /\ \A k : Entry(Added(map, key, r), k) =
                     Entry(map, k) + (IF k = key THEN r ELSE 0)
         /\ Total(Added(map, key, r)) = Total(map) + r
<1> DEFINE new == Added(map, key, r)
           D == DOMAIN map
           E == DOMAIN map \cup {key}
<1>1. /\ D \subseteq K /\ \A k \in D : map[k] \in Int
      /\ \A k : Entry(map, k) \in Int
  BY DEF IsMap, Entry
<1>2. /\ DOMAIN new = E /\ new = [k \in E |-> new[k]]
      /\ \A k \in E : new[k] = IF k = key THEN Entry(map, key) + r ELSE map[k]
  BY DEF Added
<1> HIDE DEF new
<1>3. \A k \in E : new[k] \in Int
  <2>1. Entry(map, key) + r \in Int
    BY <1>1
  <2> QED
    BY <1>1, <1>2, <2>1
<1>4. IsFiniteSet(D) /\ IsFiniteSet(E) /\ E \subseteq K
  BY <1>1, FS_Subset
<1>5. ASSUME NEW k
      PROVE  Entry(new, k) = Entry(map, k) + (IF k = key THEN r ELSE 0)
  <2>1. Entry(new, k) = IF k \in E THEN new[k] ELSE 0
    BY <1>2 DEF Entry
  <2>2. Entry(map, k) \in Int
    BY <1>1
  <2>3. CASE k = key
    BY <1>2, <2>1, <2>3
  <2>4. CASE k # key
    <3>1. Entry(new, k) = Entry(map, k)
      BY <1>2, <2>1, <2>4 DEF Entry
    <3> QED
      BY <2>2, <2>4, <3>1
  <2> QED
    BY <2>3, <2>4
<1>6. Total(new) = Total(map) + r
  <2>1. Total(new) = SumOver(new, E) /\ Total(map) = SumOver(map, D)
    BY <1>2, TotalIsSum
  <2>2. SumOver(map, D) \in Int
    BY <1>1, <1>4, SumIsInteger
  <2>3. CASE key \in D
    <3>1. E = D /\ \A k \in D : map[k] \in Int /\ new[k] \in Int
      BY <1>1, <1>3, <2>3
    <3>2. \A k \in D \ {key} : map[k] = new[k]
      BY <1>2
    <3>3. SumOver(new, D) = SumOver(map, D) + (new[key] - map[key])
      BY <1>4, <2>3, <3>1, <3>2, SumChanges
    <3>4. new[key] = map[key] + r
      BY <1>2, <2>3 DEF Entry
    <3> QED
      BY <1>1, <2>1, <2>2, <2>3, <3>1, <3>3, <3>4
  <2>4. CASE key \notin D
    <3>1. E \ {key} = D /\ key \in E
      BY <2>4
    <3>2. SumOver(new, E) = new[key] + SumOver(new, E \ {key})
      BY <1>3, <1>4, <3>1, SumWithout
    <3>3. SumOver(map, D) = SumOver(new, D)
      <4>1. \A k \in D : map[k] \in Int /\ map[k] = new[k]
        BY <1>1, <1>2, <2>4
      <4> QED
        BY <1>4, <4>1, SumOfSame
    <3>4. new[key] = r
      BY <1>2, <2>4 DEF Entry
    <3> QED
      BY <2>1, <2>2, <3>1, <3>2, <3>3, <3>4
  <2> QED
    BY <2>3, <2>4
<1>7. IsMap(new, K)
  BY <1>2, <1>3, <1>4 DEF IsMap
<1> QED
  BY <1>5, <1>6, <1>7 DEF new

(* The profit of the keys of a class takes it if the trade is of the class. *)
LEMMA ClassGrows ==
  ASSUME NEW f \in [Keys -> Int], NEW g \in [Keys -> Int],
         NEW x \in Keys, NEW r \in Int, g[x] = f[x] + r,
         \A k \in Keys \ {x} : g[k] = f[k], NEW class \in SUBSET Keys
  PROVE  SumOver(g, class) = SumOver(f, class) + (IF x \in class THEN r ELSE 0)
<1>1. /\ \A k \in class : f[k] \in Int /\ g[k] \in Int
      /\ \A k \in class \ {x} : f[k] = g[k]
      /\ g[x] = f[x] + r /\ f[x] \in Int
  OBVIOUS
<1>2. IsFiniteSet(class)
  BY KeysFinite, FS_Subset
<1>3. SumOver(f, class) \in Int
  BY <1>1, <1>2, SumIsInteger
<1>4. CASE x \in class
  <2>1. SumOver(g, class) = SumOver(f, class) + (g[x] - f[x])
    BY <1>1, <1>2, <1>4, SumChanges
  <2> QED
    BY <1>1, <1>3, <1>4, <2>1
<1>5. CASE x \notin class
  <2>1. \A k \in class : f[k] \in Int /\ f[k] = g[k]
    BY <1>1, <1>5
  <2>2. SumOver(f, class) = SumOver(g, class)
    BY <1>2, <2>1, SumOfSame
  <2> QED
    BY <1>3, <1>5, <2>2
<1> QED
  BY <1>4, <1>5

(* The hour of the day is the one hour that whole days lead up to. *)
LEMMA HourOfDay ==
  ASSUME NEW hour \in Hours, NEW h \in Buckets
  PROVE  (\E day \in 0 .. hour : hour = 24 * day + h) <=> h = HourBucket(hour)
<1>1. hour \in Nat /\ h \in 0 .. 23
  BY HoursAssumption DEF Buckets
<1>2. /\ hour = 24 * (hour \div 24) + (hour % 24)
      /\ hour \div 24 \in 0 .. hour
  BY <1>1
<1>3. ASSUME NEW day \in 0 .. hour, hour = 24 * day + h PROVE h = hour % 24
  BY <1>1, <1>3
<1> QED
  BY <1>2, <1>3 DEF HourBucket

------------------------------------------------------------------------------
(* The curve *)

(* A point more: the drawdown is still the deepest fall, as a new fall ends *)
(* at the new point and the deepest of them begins at the summit.          *)
LEMMA CurveGrows ==
  ASSUME AuditType, Summit, DeepestFall, NEW current \in Int,
         update_peak(current), curve' = Append(curve, current_pnl')
  PROVE  /\ current_pnl' \in Int /\ peak_pnl' \in Nat /\ max_drawdown' \in Nat
         /\ curve' \in Seq(Int) /\ curve' # << >>
         /\ Summit' /\ DeepestFall'
<1> DEFINE n == Len(curve)
<1>1. /\ peak_pnl \in Nat /\ max_drawdown \in Nat
      /\ curve \in Seq(Int) /\ curve # << >>
  BY DEF AuditType, TypeOK
<1>2. /\ current_pnl' = current
      /\ peak_pnl' = IF current > peak_pnl THEN current ELSE peak_pnl
      /\ max_drawdown' = IF peak_pnl' - current > max_drawdown
                           THEN peak_pnl' - current ELSE max_drawdown
  BY DEF update_peak
<1>3. /\ current_pnl' \in Int /\ peak_pnl' \in Nat /\ max_drawdown' \in Nat
      /\ peak_pnl' >= peak_pnl /\ peak_pnl' >= current
      /\ max_drawdown' >= max_drawdown
      /\ \A c \in Int : c <= peak_pnl' => c - current <= max_drawdown'
  BY <1>1, <1>2
<1>4. /\ n \in Nat /\ DOMAIN curve = 1 .. n
      /\ \A i \in 1 .. n : curve[i] \in Int
  BY <1>1, LenProperties, ElementOfSeq
<1>5. /\ curve' \in Seq(Int) /\ curve' # << >>
      /\ Len(curve') = n + 1 /\ DOMAIN curve' = 1 .. n + 1
      /\ curve'[n + 1] = current
      /\ \A i \in 1 .. n : curve'[i] = curve[i]
  BY <1>1, <1>2, <1>3, AppendProperties, LenProperties, EmptySeq
<1>6. /\ \A i \in 1 .. n : curve[i] <= peak_pnl
      /\ \E i \in 1 .. n : curve[i] = peak_pnl
  BY <1>4 DEF Summit
<1>7. /\ \A i, j \in 1 .. n : i <= j => curve[i] - curve[j] <= max_drawdown
      /\ \E i, j \in 1 .. n : i <= j /\ curve[i] - curve[j] = max_drawdown
  BY <1>4 DEF DeepestFall
<1> HIDE DEF n
<1>8. \A i \in 1 .. n + 1 : i \in 1 .. n \/ i = n + 1
  BY <1>4
<1>9. \A i \in 1 .. n + 1 : curve'[i] \in Int /\ curve'[i] <= peak_pnl'
  <2>1. ASSUME NEW i \in 1 .. n PROVE curve'[i] \in Int /\ curve'[i] <= peak_pnl'
    <3>1. curve'[i] = curve[i] /\ curve[i] \in Int /\ curve[i] <= peak_pnl
      BY <1>4, <1>5, <1>6
    <3> QED
      BY <1>1, <1>3, <3>1
  <2> QED
    BY <1>3, <1>5, <1>8, <2>1
<1>10. Summit'
  <2>1. \A i \in DOMAIN curve' : curve'[i] <= peak_pnl'
    BY <1>5, <1>9
  <2>2. \E i \in DOMAIN curve' : curve'[i] = peak_pnl'
    <3>1. CASE current > peak_pnl
      BY <1>2, <1>4, <1>5, <3>1
    <3>2. CASE ~(current > peak_pnl)
      <4>1. PICK i \in 1 .. n : curve[i] = peak_pnl
        BY <1>6
      <4>2. i \in 1 .. n + 1
        BY <1>4
      <4> QED
        BY <1>2, <1>5, <3>2, <4>1, <4>2
    <3> QED
      BY <3>1, <3>2
  <2>3. current_pnl' = curve'[Len(curve')]
    BY <1>2, <1>5
  <2> QED
    BY <2>1, <2>2, <2>3 DEF Summit
<1>11. DeepestFall'
  <2>1. ASSUME NEW i \in DOMAIN curve', NEW j \in DOMAIN curve', i <= j
        PROVE  curve'[i] - curve'[j] <= max_drawdown'
    <3>1. CASE j \in 1 .. n
      <4>1. i \in 1 .. n
        BY <1>4, <1>5, <2>1, <3>1
      <4>2. curve[i] - curve[j] <= max_drawdown /\ curve[i] - curve[j] \in Int
        BY <1>4, <1>7, <2>1, <3>1, <4>1
      <4>3. curve'[i] - curve'[j] = curve[i] - curve[j]
        BY <1>5, <3>1, <4>1
      <4> QED
        BY <1>1, <1>3, <4>2, <4>3
    <3>2. CASE j = n + 1
      <4>1. curve'[i] <= peak_pnl' /\ curve'[i] \in Int
        BY <1>5, <1>9
      <4>2. curve'[j] = current
        BY <1>5, <3>2
      <4> QED
        BY <1>3, <4>1, <4>2
    <3> QED
      BY <1>5, <1>8, <3>1, <3>2
  <2>2. \E i, j \in DOMAIN curve' : i <= j /\ curve'[i] - curve'[j] = max_drawdown'
    <3>1. CASE peak_pnl' - current > max_drawdown
      <4>1. PICK i \in DOMAIN curve' : curve'[i] = peak_pnl'
        BY <1>10 DEF Summit
      <4>2. i <= n + 1 /\ n + 1 \in DOMAIN curve'
        BY <1>4, <1>5
      <4>3. curve'[i] - curve'[n + 1] = max_drawdown'
        BY <1>2, <1>5, <3>1, <4>1
      <4> QED
        BY <4>2, <4>3
    <3>2. CASE ~(peak_pnl' - current > max_drawdown)
      <4>1. PICK i \in 1 .. n, j \in 1 .. n :
              i <= j /\ curve[i] - curve[j] = max_drawdown
        BY <1>7
      <4>2. i \in 1 .. n + 1 /\ j \in 1 .. n + 1
        BY <1>4
      <4> QED
        BY <1>2, <1>5, <3>2, <4>1, <4>2
    <3> QED
      BY <3>1, <3>2
  <2> QED
    BY <2>1, <2>2 DEF DeepestFall
<1> QED
  BY <1>3, <1>5, <1>10, <1>11

------------------------------------------------------------------------------
(* The invariant *)

(* What the keys are totalled over. *)
LEMMA FiniteKeys ==
  IsFiniteSet(Symbols) /\ IsFiniteSet(Strategies) /\ IsFiniteSet(Buckets)
  BY KeysAssumption, BucketsFinite

LEMMA NothingType == \A K : Nothing(K) \in [K -> Int]
  BY DEF Nothing

(* The one point at nothing is its own summit. *)
LEMMA FreshCurve ==
  curve = <<0>> /\ peak_pnl = 0 /\ current_pnl = 0 /\ max_drawdown = 0
    => curve \in Seq(Int) /\ curve # << >> /\ Summit /\ DeepestFall
<1> HAVE curve = <<0>> /\ peak_pnl = 0 /\ current_pnl = 0 /\ max_drawdown = 0
<1>1. /\ curve \in Seq(Int) /\ curve # << >>
      /\ Len(curve) = 1 /\ DOMAIN curve = {1} /\ curve[1] = 0
  OBVIOUS
<1>2. Summit
  BY <1>1 DEF Summit
<1>3. DeepestFall
  <2>1. \A i, j \in {1} : curve[i] - curve[j] = 0 /\ i <= j
    BY <1>1
  <2> QED
    BY <1>1, <2>1 DEF DeepestFall
<1> QED
  BY <1>1, <1>2, <1>3

LEMMA Starts == AuditInit => AuditInv
<1> SUFFICES ASSUME AuditInit PROVE AuditInv
  OBVIOUS
<1>1. Total(Nothing(Symbols)) = 0
  BY FiniteKeys, TotalOfNothing
<1>2. curve \in Seq(Int) /\ curve # << >> /\ Summit /\ DeepestFall
  BY FreshCurve DEF AuditInit, Init
<1>3. TypeOK /\ opening \in [Symbols -> Int] /\ booked \in [Keys -> Int]
  BY NothingType, EmptyMap, EmptySeq DEF AuditInit, Init, TypeOK
<1>4. Marked
  BY <1>1 DEF AuditInit, Init, Marked
<1>5. Attributed
  <2>1. \A class \in SUBSET Keys : SumOver(booked, class) = 0
    <3>1. \A k \in Keys : booked[k] = 0
      BY DEF AuditInit, Nothing
    <3> QED
      BY <3>1, KeysFinite, FS_Subset, SumOfZeros
  <2>2. \A k : /\ OfSymbol(k) \in SUBSET Keys /\ OfStrategy(k) \in SUBSET Keys
               /\ AtHour(k) \in SUBSET Keys
    BY DEF OfSymbol, OfStrategy, AtHour
  <2> QED
    BY <2>1, <2>2, EmptyMap DEF AuditInit, Init, Attributed, cumulative_realized
<1> QED
  BY <1>2, <1>3, <1>4, <1>5 DEF AuditInv, AuditType

(* What a trade realises against a known entry price. *)
LEMMA RealizedType ==
  ASSUME NEW trade \in RecordedTrade, NEW entry_price \in EntryPrices
  PROVE  realized_pnl(trade, entry_price) \in Int
<1>1. trade.quantity \in Int /\ trade.price \in Int /\ entry_price \in Int
  <2>1. trade.quantity \in Quantities /\ trade.price \in Prices
    BY DEF RecordedTrade
  <2>2. Quantities \subseteq Int /\ Prices \subseteq Int /\ EntryPrices \subseteq Int
    BY AmountsAssumption
  <2> QED
    BY <2>1, <2>2
<1>2. trade.price - entry_price \in Int
  BY <1>1
<1>3. \A m, q, d \in Int : m * q * d \in Int
  BY ProductType
<1> QED
  BY <1>1, <1>2, <1>3 DEF realized_pnl

LEMMA BucketType ==
  ASSUME NEW hour \in Hours
  PROVE  HourBucket(hour) \in Buckets
<1>1. hour \in Nat
  BY HoursAssumption
<1>2. hour % 24 \in 0 .. 23
  BY <1>1
<1> QED
  BY <1>2 DEF HourBucket, Buckets

LEMMA RecordKeeps ==
  ASSUME AuditInv, NEW trade \in RecordedTrade, NEW entry_price \in EntryPrices,
         Record(trade, entry_price)
  PROVE  AuditInv'
<1> DEFINE rpnl == Realized(trade, entry_price)
           hour == HourBucket(trade.hour)
           key == <<trade.symbol, trade.strategy, trade.hour>>
           profit == cum_realized + cum_unrealized - cum_fees
           figures == [realized |-> day_realized', unrealized |-> day_unrealized,
                       total |-> day_realized' + day_unrealized - day_fees',
                       fees |-> day_fees']
           Figures == [realized : Int, unrealized : Int, total : Int, fees : Nat]
<1>1. rpnl \in Int
  BY RealizedType DEF Realized
<1>2. /\ trade.symbol \in Symbols /\ trade.strategy \in Strategies
      /\ trade.hour \in Hours /\ hour \in Buckets /\ trade.fees \in Nat
  BY AmountsAssumption, BucketType DEF RecordedTrade
<1>3. AuditType /\ TypeOK /\ Marked /\ Attributed /\ Summit /\ DeepestFall
  BY DEF AuditInv, AuditType
<1>4. /\ profit \in Int /\ day_realized \in Int /\ day_unrealized \in Int
      /\ cum_realized \in Int /\ cum_unrealized \in Int
      /\ day_fees \in Nat /\ cum_fees \in Nat
  BY <1>3 DEF TypeOK
<1>5. /\ IsMap(realized_by_symbol, Symbols)
      /\ IsMap(realized_by_strategy, Strategies)
      /\ IsMap(realized_by_hour, Buckets)
      /\ booked \in [Keys -> Int] /\ key \in Keys
      /\ snapshots \in Seq(Figures)
  BY <1>2, <1>3 DEF AuditType, TypeOK, Keys
<1>6. /\ day_realized' = day_realized + rpnl
      /\ day_fees' = day_fees + trade.fees
      /\ update_peak(profit)
      /\ curve' = Append(curve, current_pnl')
      /\ cum_realized' = cum_realized /\ cum_unrealized' = cum_unrealized
      /\ cum_fees' = cum_fees /\ day_unrealized' = day_unrealized
      /\ unrealized_map' = unrealized_map /\ opening' = opening
  BY DEF Record, record_trade, cumulative
<1>7. /\ realized_by_symbol' = Added(realized_by_symbol, trade.symbol, rpnl)
      /\ realized_by_strategy' = Added(realized_by_strategy, trade.strategy, rpnl)
      /\ realized_by_hour' = Added(realized_by_hour, hour, rpnl)
      /\ booked' = [booked EXCEPT ![key] = @ + rpnl]
  BY DEF Record, record_trade
<1>8. snapshots' = Append(snapshots, figures)
  BY DEF Record, record_trade
<1> HIDE DEF rpnl, hour, profit, key
<1>9. /\ current_pnl' \in Int /\ peak_pnl' \in Nat /\ max_drawdown' \in Nat
      /\ curve' \in Seq(Int) /\ curve' # << >> /\ Summit' /\ DeepestFall'
  BY <1>3, <1>4, <1>6, CurveGrows
<1>10. day_realized' \in Int /\ day_fees' \in Nat
  <2>1. day_realized + rpnl \in Int
    BY <1>1, <1>4
  <2>2. day_fees + trade.fees \in Nat
    BY <1>2, <1>4
  <2> QED
    BY <1>6, <2>1, <2>2
<1>11. figures \in Figures
  <2>1. day_realized' + day_unrealized - day_fees' \in Int
    BY <1>4, <1>10
  <2> QED
    BY <1>4, <1>10, <2>1
<1> HIDE DEF figures, Figures
<1>12. snapshots' \in Seq(Figures)
  BY <1>5, <1>8, <1>11, AppendProperties
<1>13. /\ IsMap(realized_by_symbol', Symbols)
       /\ Total(realized_by_symbol') = Total(realized_by_symbol) + rpnl
       /\ \A k \in Symbols :
            Entry(realized_by_symbol', k) = Entry(realized_by_symbol, k) + (IF k = trade.symbol THEN rpnl ELSE 0)
  BY <1>1, <1>2, <1>5, <1>7, FiniteKeys, AddedToMap
<1>14. /\ IsMap(realized_by_strategy', Strategies)
       /\ Total(realized_by_strategy') = Total(realized_by_strategy) + rpnl
       /\ \A k \in Strategies :
            Entry(realized_by_strategy', k) = Entry(realized_by_strategy, k) + (IF k = trade.strategy THEN rpnl ELSE 0)
  BY <1>1, <1>2, <1>5, <1>7, FiniteKeys, AddedToMap
<1>15. /\ IsMap(realized_by_hour', Buckets)
       /\ Total(realized_by_hour') = Total(realized_by_hour) + rpnl
       /\ \A k \in Buckets :
            Entry(realized_by_hour', k) = Entry(realized_by_hour, k) + (IF k = hour THEN rpnl ELSE 0)
  BY <1>1, <1>2, <1>5, <1>7, FiniteKeys, AddedToMap
<1>16. TypeOK'
  BY <1>3, <1>4, <1>6, <1>9, <1>10, <1>12, <1>13, <1>14, <1>15 DEF TypeOK, Figures
<1>17. AuditType'
  <2>1. booked' \in [Keys -> Int]
    BY <1>1, <1>5, <1>7
  <2> QED
    BY <1>3, <1>6, <1>9, <1>16, <2>1 DEF AuditType
<1>18. Marked'
  BY <1>3, <1>6 DEF Marked
<1>19. Attributed'
  <2>1. cum_realized' + day_realized' = (cum_realized + day_realized) + rpnl
    BY <1>1, <1>4, <1>6
  <2>2. \A c \in SUBSET Keys :
          SumOver(booked', c) = SumOver(booked, c) + (IF key \in c THEN rpnl ELSE 0)
    <3>1. /\ booked \in [Keys -> Int] /\ key \in Keys /\ rpnl \in Int
          /\ booked' \in [Keys -> Int] /\ booked'[key] = booked[key] + rpnl
          /\ \A k \in Keys \ {key} : booked'[k] = booked[k]
      BY <1>1, <1>5, <1>7
    <3> QED
      BY <3>1, ClassGrows
  <2>3. ASSUME NEW s \in Symbols
        PROVE  Entry(realized_by_symbol', s) = SumOver(booked', OfSymbol(s))
    <3>1. OfSymbol(s) \in SUBSET Keys /\ (key \in OfSymbol(s) <=> s = trade.symbol)
      BY <1>5 DEF OfSymbol, key
    <3> QED
      BY <1>3, <1>13, <2>2, <3>1 DEF Attributed
  <2>4. ASSUME NEW s \in Strategies
        PROVE  Entry(realized_by_strategy', s) = SumOver(booked', OfStrategy(s))
    <3>1. /\ OfStrategy(s) \in SUBSET Keys
          /\ key \in OfStrategy(s) <=> s = trade.strategy
      BY <1>5 DEF OfStrategy, key
    <3> QED
      BY <1>3, <1>14, <2>2, <3>1 DEF Attributed
  <2>5. ASSUME NEW h \in Buckets
        PROVE  Entry(realized_by_hour', h) = SumOver(booked', AtHour(h))
    <3>1. /\ AtHour(h) \in SUBSET Keys
          /\ key \in AtHour(h) <=> \E day \in 0 .. trade.hour : trade.hour = 24 * day + h
      BY <1>5 DEF AtHour, key
    <3>2. key \in AtHour(h) <=> h = hour
      BY <1>2, <3>1, HourOfDay DEF hour
    <3> QED
      BY <1>3, <1>15, <2>2, <3>1, <3>2 DEF Attributed
  <2>6. /\ Total(realized_by_symbol') = cumulative_realized'
        /\ Total(realized_by_strategy') = cumulative_realized'
        /\ Total(realized_by_hour') = cumulative_realized'
    BY <1>3, <1>13, <1>14, <1>15, <2>1 DEF Attributed, cumulative_realized
  <2> QED
    BY <2>3, <2>4, <2>5, <2>6 DEF Attributed
<1> QED
  BY <1>9, <1>17, <1>18, <1>19 DEF AuditInv

LEMMA MarkKeeps ==
  ASSUME AuditInv, NEW symbol \in Symbols, NEW net_qty \in NetQuantities,
         NEW avg_entry \in EntryPrices, NEW price \in Prices,
         Mark(symbol, net_qty, avg_entry, price)
  PROVE  AuditInv'
<1> DEFINE upnl == unrealized_pnl(net_qty, avg_entry, price)
           change == upnl - unrealized_map[symbol]
           profit == cum_realized + cum_unrealized' - cum_fees
<1>1. upnl \in Int
  <2>1. net_qty \in Int /\ price - avg_entry \in Int
    BY AmountsAssumption
  <2> QED
    BY <2>1, ProductType DEF unrealized_pnl
<1>2. AuditType /\ TypeOK /\ Marked /\ Attributed /\ Summit /\ DeepestFall
  BY DEF AuditInv, AuditType
<1>3. /\ day_unrealized \in Int /\ cum_realized \in Int /\ cum_unrealized \in Int
      /\ cum_fees \in Nat
      /\ unrealized_map \in [Symbols -> Int] /\ opening \in [Symbols -> Int]
  BY <1>2 DEF TypeOK, AuditType
<1>4. /\ unrealized_map' = [unrealized_map EXCEPT ![symbol] = upnl]
      /\ cum_unrealized' = cum_unrealized + change
      /\ day_unrealized' = day_unrealized + change
      /\ update_peak(profit)
      /\ curve' = Append(curve, current_pnl')
      /\ cum_realized' = cum_realized /\ cum_fees' = cum_fees
      /\ day_realized' = day_realized /\ day_fees' = day_fees
      /\ realized_by_symbol' = realized_by_symbol
      /\ realized_by_strategy' = realized_by_strategy
      /\ realized_by_hour' = realized_by_hour
      /\ snapshots' = snapshots /\ opening' = opening /\ booked' = booked
  BY DEF Mark, update_unrealized, MarkChange, attribution
<1> HIDE DEF upnl
<1>5. unrealized_map[symbol] \in Int /\ change \in Int
  BY <1>1, <1>3
<1>6. /\ unrealized_map' \in [Symbols -> Int]
      /\ unrealized_map'[symbol] = upnl
      /\ \A s \in Symbols \ {symbol} : unrealized_map'[s] = unrealized_map[s]
  BY <1>1, <1>3, <1>4
<1>7. Total(unrealized_map') = Total(unrealized_map) + change
  BY <1>3, <1>6, FiniteKeys, TotalChanges
<1>8. Total(unrealized_map) \in Int /\ Total(opening) \in Int
  BY <1>3, FiniteKeys, TotalType
<1> HIDE DEF change
<1>9. cum_unrealized' \in Int /\ day_unrealized' \in Int /\ profit \in Int
  BY <1>3, <1>4, <1>5
<1>10. Marked'
  BY <1>2, <1>4, <1>5, <1>7, <1>8 DEF Marked
<1> HIDE DEF profit
<1>11. /\ current_pnl' \in Int /\ peak_pnl' \in Nat /\ max_drawdown' \in Nat
       /\ curve' \in Seq(Int) /\ curve' # << >> /\ Summit' /\ DeepestFall'
  BY <1>2, <1>4, <1>9, CurveGrows
<1>12. TypeOK'
  BY <1>2, <1>4, <1>6, <1>9, <1>11 DEF TypeOK
<1>13. AuditType'
  BY <1>2, <1>4, <1>11, <1>12 DEF AuditType
<1>14. Attributed'
  BY <1>2, <1>4 DEF Attributed, cumulative_realized
<1> QED
  BY <1>10, <1>11, <1>13, <1>14 DEF AuditInv

LEMMA StartDayKeeps ==
  ASSUME AuditInv, StartDay
  PROVE  AuditInv'
<1>1. AuditType /\ TypeOK /\ Marked /\ Attributed /\ Summit /\ DeepestFall
  BY DEF AuditInv, AuditType
<1>2. /\ cum_realized' = cum_realized + day_realized
      /\ cum_unrealized' = cum_unrealized + day_unrealized
      /\ cum_fees' = cum_fees + day_fees
      /\ day_realized' = 0 /\ day_unrealized' = 0 /\ day_fees' = 0
      /\ peak_pnl' = peak_pnl /\ current_pnl' = current_pnl
      /\ max_drawdown' = max_drawdown
      /\ realized_by_symbol' = realized_by_symbol
      /\ realized_by_strategy' = realized_by_strategy
      /\ realized_by_hour' = realized_by_hour
      /\ unrealized_map' = unrealized_map /\ snapshots' = snapshots
      /\ opening' = unrealized_map /\ curve' = curve /\ booked' = booked
  BY DEF StartDay, daily_pnl_reset, drawdown, attribution
<1>3. TypeOK'
  BY <1>1, <1>2 DEF TypeOK
<1>4. AuditType'
  BY <1>1, <1>2, <1>3 DEF AuditType, TypeOK
<1>5. Summit' /\ DeepestFall'
  BY <1>1, <1>2 DEF Summit, DeepestFall
<1>6. Marked'
  <2>1. Total(unrealized_map) \in Int /\ Total(opening) \in Int
    BY <1>1, FiniteKeys, TotalType DEF AuditType, TypeOK
  <2> QED
    BY <1>1, <1>2, <2>1 DEF Marked
<1>7. Attributed'
  <2>1. cum_realized \in Int /\ day_realized \in Int
    BY <1>1 DEF TypeOK
  <2> QED
    BY <1>1, <1>2, <2>1 DEF Attributed, cumulative_realized
<1> QED
  BY <1>4, <1>5, <1>6, <1>7 DEF AuditInv

LEMMA StartOverKeeps == StartOver => AuditInv'
<1>1. StartOver => AuditInit'
  BY DEF StartOver, reset_all, AuditInit, Init
<1>2. AuditInit' => AuditInv'
  BY Starts, PTL
<1> QED
  BY <1>1, <1>2

LEMMA StutterKeeps ==
  ASSUME AuditInv, UNCHANGED vars
  PROVE  AuditInv'
  BY DEF AuditInv, AuditType, TypeOK, Marked, Attributed, cumulative_realized,
         Summit, DeepestFall, vars, calculatorVars, cumulative, daily, drawdown,
         attribution

(* What the audit needs to know of the calculator holds in every state.    *)
THEOREM AuditInvariant == AuditSpec => []AuditInv
<1>1. ASSUME AuditInv, [AuditNext]_vars PROVE AuditInv'
  <2>1. ASSUME NEW trade \in RecordedTrade, NEW entry_price \in EntryPrices,
               Record(trade, entry_price)
        PROVE  AuditInv'
    BY <1>1, <2>1, RecordKeeps
  <2>2. ASSUME NEW symbol \in Symbols, NEW net_qty \in NetQuantities,
               NEW avg_entry \in EntryPrices \ {0}, NEW price \in Prices,
               Mark(symbol, net_qty, avg_entry, price)
        PROVE  AuditInv'
    BY <1>1, <2>2, MarkKeeps
  <2>3. CASE StartDay
    BY <1>1, <2>3, StartDayKeeps
  <2>4. CASE StartOver
    BY <2>4, StartOverKeeps
  <2>5. CASE UNCHANGED vars
    BY <1>1, <2>5, StutterKeeps
  <2> QED
    BY <1>1, <2>1, <2>2, <2>3, <2>4, <2>5 DEF AuditNext
<1> QED
  BY Starts, <1>1, PTL DEF AuditSpec

------------------------------------------------------------------------------
(* Properties *)

(* Today's unrealised profit is what the marks gained since the day began, *)
(* whatever update_unrealized and daily_pnl_reset came before.             *)
THEOREM DayGainsAreMarks == AuditSpec => []DayGainsSinceReset
<1>1. ASSUME AuditInv PROVE DayGainsSinceReset
  BY <1>1 DEF AuditInv, AuditType, Marked, DayGainsSinceReset
<1> QED
  BY <1>1, AuditInvariant, PTL

(* The attributions by symbol, strategy and hour of the day give each key  *)
(* the profit of its own trades, and add up to the profit realised since   *)
(* inception, across daily resets.                                         *)
THEOREM AttributionsAddUp == AuditSpec => []AttributionConserves
<1>1. ASSUME NEW K, NEW map, IsMap(map, K) PROVE attribute_by(map) = map
  BY <1>1 DEF attribute_by, IsMap
<1>2. ASSUME AuditInv PROVE AttributionConserves
  <2>1. /\ attribute_by(realized_by_symbol) = realized_by_symbol
        /\ attribute_by(realized_by_strategy) = realized_by_strategy
        /\ attribute_by(realized_by_hour) = realized_by_hour
    BY <1>1, <1>2 DEF AuditInv, AuditType, TypeOK
  <2>2. ASSUME NEW class \in SUBSET Keys PROVE Booked(class) = SumOver(booked, class)
    <3> DEFINE part == [k \in class |-> booked[k]]
    <3>1. /\ DOMAIN part = class
          /\ \A k \in class : part[k] \in Int /\ part[k] = booked[k]
      BY <1>2 DEF AuditInv, AuditType
    <3>2. IsFiniteSet(class)
      BY KeysFinite, FS_Subset
    <3>3. Booked(class) = Total(part)
      BY DEF Booked
    <3> HIDE DEF part
    <3> QED
      BY <3>1, <3>2, <3>3, TotalIsSum, SumOfSame
  <2>3. \A k : /\ OfSymbol(k) \in SUBSET Keys /\ OfStrategy(k) \in SUBSET Keys
               /\ AtHour(k) \in SUBSET Keys
    BY DEF OfSymbol, OfStrategy, AtHour
  <2> QED
    BY <1>2, <2>1, <2>2, <2>3 DEF AuditInv, Attributed, AttributionConserves
<1> QED
  BY <1>2, AuditInvariant, PTL

(* The drawdown that update_peak keeps trade by trade is the deepest fall  *)
(* of the whole curve of the running profit.                               *)
THEOREM DrawdownIsDeepest == AuditSpec => []DrawdownIsDeepestFall
<1>1. ASSUME AuditInv PROVE DrawdownIsDeepestFall
  <2>1. AuditType /\ Summit /\ DeepestFall
    BY <1>1 DEF AuditInv
  <2>2. max_drawdown \in Nat /\ peak_pnl \in Nat /\ current_pnl \in Int
    BY <2>1 DEF AuditType, TypeOK
  <2>3. PICK i \in DOMAIN curve : curve[i] = peak_pnl
    BY <2>1 DEF Summit
  <2>4. Len(curve) \in DOMAIN curve /\ i <= Len(curve)
    BY <2>1, LenProperties, EmptySeq DEF AuditType
  <2>5. peak_pnl - current_pnl <= max_drawdown
    BY <2>1, <2>3, <2>4 DEF Summit, DeepestFall
  <2>6. current_drawdown <= max_drawdown
    BY <2>2, <2>5 DEF current_drawdown
  <2> QED
    BY <2>1, <2>6 DEF DeepestFall, DrawdownIsDeepestFall
<1> QED
  BY <1>1, AuditInvariant, PTL

------------------------------------------------------------------------------
(* The account *)

LEMMA AccountStarts == AuditInit => AccountPromise!Fresh
  BY DEF AuditInit, Init, AccountPromise!Fresh, Nothing, cumulative_realized,
         total_fees

LEMMA RecordBooks ==
  ASSUME AuditInv, NEW trade \in RecordedTrade, NEW entry_price \in EntryPrices,
         Record(trade, entry_price)
  PROVE  AccountPromise!Book
<1>1. AuditInv'
  BY RecordKeeps
<1>2. /\ cum_fees \in Nat /\ day_fees \in Nat
      /\ cum_realized' \in Int /\ day_realized' \in Int
      /\ cum_fees' \in Nat /\ day_fees' \in Nat
  BY <1>1 DEF AuditInv, AuditType, TypeOK
<1>3. /\ cum_realized' = cum_realized /\ cum_fees' = cum_fees
      /\ unrealized_map' = unrealized_map /\ opening' = opening
      /\ day_fees' = day_fees + trade.fees
  BY DEF Record, record_trade, cumulative
<1>4. trade.fees \in Nat
  BY AmountsAssumption DEF RecordedTrade
<1>5. /\ cumulative_realized' \in Int /\ total_fees' \in Int
      /\ total_fees' >= total_fees
  BY <1>2, <1>3, <1>4 DEF cumulative_realized, total_fees
<1> QED
  BY <1>3, <1>5 DEF AccountPromise!Book

LEMMA MarkMarks ==
  ASSUME AuditInv, NEW symbol \in Symbols, NEW net_qty \in NetQuantities,
         NEW avg_entry \in EntryPrices, NEW price \in Prices,
         Mark(symbol, net_qty, avg_entry, price)
  PROVE  AccountPromise!Mark
<1>1. \A s \in Symbols \ {symbol} : unrealized_map'[s] = unrealized_map[s]
  <2>1. unrealized_map \in [Symbols -> Int]
    BY DEF AuditInv, AuditType, TypeOK
  <2>2. unrealized_map' = [unrealized_map EXCEPT
                             ![symbol] = unrealized_pnl(net_qty, avg_entry, price)]
    BY DEF Mark, update_unrealized
  <2> QED
    BY <2>1, <2>2
<1>2. /\ cum_realized' = cum_realized /\ day_realized' = day_realized
      /\ cum_fees' = cum_fees /\ day_fees' = day_fees /\ opening' = opening
  BY DEF Mark, update_unrealized
<1> QED
  BY <1>1, <1>2 DEF AccountPromise!Mark, cumulative_realized, total_fees

LEMMA DayStarts ==
  ASSUME AuditInv, StartDay
  PROVE  AccountPromise!StartDay
<1>1. /\ cum_realized' = cum_realized + day_realized
      /\ cum_fees' = cum_fees + day_fees
      /\ day_realized' = 0 /\ day_fees' = 0
      /\ unrealized_map' = unrealized_map /\ opening' = unrealized_map
  BY DEF StartDay, daily_pnl_reset
<1>2. /\ cum_realized \in Int /\ day_realized \in Int
      /\ cum_fees \in Nat /\ day_fees \in Nat
  BY DEF AuditInv, AuditType, TypeOK
<1>3. /\ cumulative_realized' = cumulative_realized
      /\ total_fees' = total_fees
  BY <1>1, <1>2 DEF cumulative_realized, total_fees
<1> QED
  BY <1>1, <1>3 DEF AccountPromise!StartDay, cumulative_realized, total_fees

LEMMA AccountStartsOver == StartOver => AccountPromise!StartOver
  BY DEF StartOver, reset_all, AccountPromise!StartOver, Nothing,
         cumulative_realized, total_fees

LEMMA AccountRests == UNCHANGED vars => UNCHANGED AccountPromise!accountVars
  BY DEF vars, calculatorVars, cumulative, daily, AccountPromise!accountVars,
         cumulative_realized, total_fees

(* The calculator implements the account it promises: record_trade books,  *)
(* update_unrealized marks one symbol, daily_pnl_reset starts a day and    *)
(* changes no figure since inception.                                      *)
THEOREM CalculatorKeepsAccount == AuditSpec => KeepsAccount
<1>1. ASSUME AuditInv, [AuditNext]_vars
      PROVE  [AccountPromise!Next]_(AccountPromise!accountVars)
  <2>1. ASSUME NEW trade \in RecordedTrade, NEW entry_price \in EntryPrices,
               Record(trade, entry_price)
        PROVE  AccountPromise!Next
    BY <1>1, <2>1, RecordBooks DEF AccountPromise!Next
  <2>2. ASSUME NEW symbol \in Symbols, NEW net_qty \in NetQuantities,
               NEW avg_entry \in EntryPrices \ {0}, NEW price \in Prices,
               Mark(symbol, net_qty, avg_entry, price)
        PROVE  AccountPromise!Next
    BY <1>1, <2>2, MarkMarks DEF AccountPromise!Next
  <2>3. CASE StartDay
    BY <1>1, <2>3, DayStarts DEF AccountPromise!Next
  <2>4. CASE StartOver
    BY <2>4, AccountStartsOver DEF AccountPromise!Next
  <2>5. CASE UNCHANGED vars
    BY <2>5, AccountRests
  <2> QED
    BY <1>1, <2>1, <2>2, <2>3, <2>4, <2>5 DEF AuditNext
<1> QED
  BY AccountStarts, <1>1, AuditInvariant, PTL
     DEF AuditSpec, KeepsAccount, AccountPromise!Spec

------------------------------------------------------------------------------
(* The position limits *)

(* A symbol has a limit when its bound was set or added, the first of its  *)
(* entries holds that bound, and it is the only one unless another was     *)
(* added to it.                                                            *)
FirstOf(s, n) ==
  /\ n \in Entries(s) /\ \A m \in Entries(s) : n <= m
  /\ position_limits[n].bound = book[s]

Kept(s) ==
  /\ book[s] = NoBound => Entries(s) = {}
  /\ book[s] # NoBound => \E n \in Entries(s) : FirstOf(s, n)
  /\ s \notin doubled => \A m, n \in Entries(s) : m = n

LimitsType ==
  /\ position_limits \in Seq(PositionLimit)
  /\ Len(position_limits) <= MaxLimits
  /\ loss_limit \in [daily_stop_loss : Nat, max_drawdown : Nat]
  /\ exposure_limit \in [max_gross : Nat, max_net : Nat, max_concentration : Nat]
  /\ book \in [Named -> PositionBounds \cup {NoBound}]
  /\ doubled \subseteq Named

LimitsInv == LimitsType /\ \A s \in Named : Kept(s)

LEMMA BoundIsBound == NoBound \notin PositionBounds /\ PositionBounds \subseteq PositionBound
<1>1. \A b \in PositionBound : DOMAIN b = {"max_long", "max_short", "hard"}
  BY DEF PositionBound
<1>2. DOMAIN NoBound = {"hard"}
  BY DEF NoBound
<1>3. NoBound \notin PositionBound
  BY <1>1, <1>2
<1> QED
  BY <1>3, LimitsAssumption

LEMMA ListFacts ==
  ASSUME LimitsType
  PROVE  /\ Len(position_limits) \in Nat
         /\ DOMAIN position_limits = 1 .. Len(position_limits)
         /\ \A n \in 1 .. Len(position_limits) :
              /\ position_limits[n] \in PositionLimit
              /\ position_limits[n].symbol \in Named
              /\ position_limits[n].bound \in PositionBound
<1>1. /\ Len(position_limits) \in Nat
      /\ DOMAIN position_limits = 1 .. Len(position_limits)
      /\ \A n \in 1 .. Len(position_limits) : position_limits[n] \in PositionLimit
  BY LenProperties, ElementOfSeq DEF LimitsType
<1> QED
  BY <1>1 DEF PositionLimit

LEMMA EntriesOf ==
  ASSUME LimitsType, NEW s
  PROVE  Entries(s) = {n \in 1 .. Len(position_limits) : position_limits[n].symbol = s}
  BY ListFacts DEF Entries

LEMMA FoundIsFirst ==
  ASSUME LimitsType, NEW s
  PROVE  /\ Found(s) = 0 <=> Entries(s) = {}
         /\ Found(s) # 0 => /\ Found(s) \in Entries(s)
                            /\ \A m \in Entries(s) : Found(s) <= m
<1>1. Entries(s) = {n \in 1 .. Len(position_limits) : position_limits[n].symbol = s}
  BY EntriesOf
<1>2. Found(s) = IF Entries(s) # {} THEN Min(Entries(s)) ELSE 0
  BY <1>1 DEF Found, SelectInSeq
<1>3. Entries(s) \in SUBSET Nat /\ 0 \notin Entries(s)
  BY <1>1, ListFacts
<1> QED
  BY <1>2, <1>3, LeastExists

(* What another symbol's limit is does not change. *)
LEMMA KeptAlone ==
  ASSUME LimitsInv, NEW t \in Named, Entries(t)' = Entries(t),
         \A n \in Entries(t) : position_limits'[n].bound = position_limits[n].bound,
         book'[t] = book[t], t \in doubled => t \in doubled'
  PROVE  Kept(t)'
<1>1. Kept(t)
  BY DEF LimitsInv
<1>2. \A n : FirstOf(t, n) => FirstOf(t, n)'
  BY DEF FirstOf
<1> QED
  BY <1>1, <1>2 DEF Kept

LEMMA AppendedFacts ==
  ASSUME LimitsInv, NEW s \in Named, NEW bound \in PositionBounds, Appended(s, bound)
  PROVE  \E n \in Nat :
            /\ position_limits' \in Seq(PositionLimit)
            /\ Len(position_limits') <= MaxLimits
            /\ Entries(s)' = Entries(s) \cup {n}
            /\ \A t \in Named \ {s} : Entries(t)' = Entries(t)
            /\ \A t \in Named : \A m \in Entries(t) :
                 m < n /\ position_limits'[m].bound = position_limits[m].bound
            /\ position_limits'[n].bound = bound
<1> DEFINE n == Len(position_limits) + 1
           limit == [symbol |-> s, bound |-> bound]
<1>1. limit \in PositionLimit /\ limit.symbol = s /\ limit.bound = bound
  BY BoundIsBound DEF PositionLimit
<1>2. /\ position_limits \in Seq(PositionLimit) /\ Len(position_limits) \in Nat
      /\ Len(position_limits) < MaxLimits
      /\ position_limits' = Append(position_limits, limit)
  <2>1. LimitsType
    BY DEF LimitsInv
  <2>2. position_limits' = Append(position_limits, limit)
    BY DEF Appended
  <2> QED
    BY <2>1, <2>2, ListFacts DEF LimitsType, Appended
<1> HIDE DEF limit
<1>3. /\ position_limits' \in Seq(PositionLimit)
      /\ Len(position_limits') = n
      /\ \A m \in 1 .. Len(position_limits) : position_limits'[m] = position_limits[m]
      /\ position_limits'[n] = limit
  BY <1>1, <1>2, AppendProperties
<1>4. DOMAIN position_limits' = 1 .. n
  BY <1>3, LenProperties
<1>5. \A t : /\ Entries(t) = {m \in 1 .. Len(position_limits) : position_limits[m].symbol = t}
             /\ Entries(t)' = {m \in 1 .. n : position_limits'[m].symbol = t}
  BY <1>4, EntriesOf DEF LimitsInv, Entries
<1>6. 1 .. n = (1 .. Len(position_limits)) \cup {n} /\ n \notin 1 .. Len(position_limits)
  BY <1>2
<1>7. Entries(s)' = Entries(s) \cup {n} /\ \A t \in Named \ {s} : Entries(t)' = Entries(t)
  BY <1>1, <1>3, <1>5, <1>6
<1>8. \A t \in Named : \A m \in Entries(t) :
        m < n /\ position_limits'[m].bound = position_limits[m].bound
  BY <1>2, <1>3, <1>5
<1>9. n \in Nat /\ n <= MaxLimits
  BY <1>2, LimitsAssumption
<1> QED
  BY <1>1, <1>3, <1>7, <1>8, <1>9

LEMMA AddsLimit ==
  ASSUME LimitsInv, NEW s \in Named, NEW bound \in PositionBounds,
         add_position_limit(s, bound)
  PROVE  LimitsInv'
<1>1. PICK n \in Nat :
      /\ position_limits' \in Seq(PositionLimit)
      /\ Len(position_limits') <= MaxLimits
      /\ Entries(s)' = Entries(s) \cup {n}
      /\ \A t \in Named \ {s} : Entries(t)' = Entries(t)
      /\ \A t \in Named : \A m \in Entries(t) :
           m < n /\ position_limits'[m].bound = position_limits[m].bound
      /\ position_limits'[n].bound = bound
  BY AppendedFacts DEF add_position_limit
<1>2. Entries(s) \in SUBSET Nat /\ bound # NoBound
  BY ListFacts, EntriesOf, BoundIsBound DEF LimitsInv
<1>3. UNCHANGED <<loss_limit, exposure_limit>>
  BY DEF add_position_limit
<1>4. CASE book[s] = NoBound
  <2>1. book' = [book EXCEPT ![s] = bound] /\ UNCHANGED doubled
    BY <1>4 DEF add_position_limit
  <2>2. Kept(s)'
    <3>1. Entries(s)' = {n} /\ book'[s] = bound
      BY <1>1, <1>4, <2>1 DEF LimitsInv, LimitsType, Kept
    <3>2. FirstOf(s, n)'
      BY <1>1, <1>2, <3>1 DEF FirstOf
    <3> QED
      BY <1>2, <3>1, <3>2 DEF Kept
  <2>3. \A t \in Named \ {s} : Kept(t)'
    BY <1>1, <2>1, KeptAlone DEF LimitsInv, LimitsType
  <2>4. LimitsType'
    BY <1>1, <1>3, <2>1 DEF LimitsInv, LimitsType
  <2> QED
    BY <2>2, <2>3, <2>4 DEF LimitsInv
<1>5. CASE book[s] # NoBound
  <2>1. doubled' = doubled \cup {s} /\ UNCHANGED book
    BY <1>5 DEF add_position_limit
  <2>2. Kept(s)'
    <3>1. PICK m \in Entries(s) : FirstOf(s, m)
      BY <1>5 DEF LimitsInv, Kept
    <3>2. FirstOf(s, m)'
      BY <1>1, <1>2, <2>1, <3>1 DEF FirstOf
    <3> QED
      BY <1>1, <1>5, <2>1, <3>1, <3>2 DEF Kept
  <2>3. \A t \in Named \ {s} : Kept(t)'
    BY <1>1, <2>1, KeptAlone
  <2>4. LimitsType'
    BY <1>1, <1>3, <2>1 DEF LimitsInv, LimitsType
  <2> QED
    BY <2>2, <2>3, <2>4 DEF LimitsInv
<1> QED
  BY <1>4, <1>5

LEMMA SetsLimit ==
  ASSUME LimitsInv, NEW s \in Named, NEW bound \in PositionBounds,
         set_position_limit(s, bound)
  PROVE  LimitsInv'
<1>1. /\ book' = [book EXCEPT ![s] = bound] /\ book'[s] = bound
      /\ \A t \in Named \ {s} : book'[t] = book[t]
      /\ UNCHANGED <<loss_limit, exposure_limit, doubled>>
      /\ bound # NoBound
  BY BoundIsBound DEF set_position_limit, LimitsInv, LimitsType
<1>2. CASE Found(s) = 0
  <2>1. PICK n \in Nat :
        /\ position_limits' \in Seq(PositionLimit)
        /\ Len(position_limits') <= MaxLimits
        /\ Entries(s)' = Entries(s) \cup {n}
        /\ \A t \in Named \ {s} : Entries(t)' = Entries(t)
        /\ \A t \in Named : \A m \in Entries(t) :
             position_limits'[m].bound = position_limits[m].bound
        /\ position_limits'[n].bound = bound
    BY <1>2, AppendedFacts DEF set_position_limit
  <2>2. Entries(s) = {}
    BY <1>2, FoundIsFirst DEF LimitsInv
  <2>3. FirstOf(s, n)'
    BY <1>1, <2>1, <2>2 DEF FirstOf
  <2>4. Kept(s)'
    BY <1>1, <2>1, <2>2, <2>3 DEF Kept
  <2>5. \A t \in Named \ {s} : Kept(t)'
    BY <1>1, <2>1, KeptAlone
  <2>6. LimitsType'
    BY <1>1, <2>1 DEF LimitsInv, LimitsType
  <2> QED
    BY <2>4, <2>5, <2>6 DEF LimitsInv
<1>3. CASE Found(s) # 0
  <2>0. PICK f : f = Found(s)
    OBVIOUS
  <2> DEFINE changed == [position_limits[f] EXCEPT !.bound = bound]
  <2>1. f \in Entries(s) /\ \A m \in Entries(s) : f <= m
    BY <1>3, <2>0, FoundIsFirst DEF LimitsInv
  <2>2. position_limits' = [position_limits EXCEPT ![f] = changed]
    BY <1>3, <2>0 DEF set_position_limit
  <2>3. /\ f \in 1 .. Len(position_limits) /\ position_limits[f].symbol = s
        /\ position_limits[f] \in PositionLimit
    BY <2>1, ListFacts, EntriesOf DEF LimitsInv
  <2>4. /\ changed \in PositionLimit /\ changed.symbol = s /\ changed.bound = bound
    BY <2>3, BoundIsBound DEF PositionLimit
  <2> HIDE DEF changed
  <2>5. /\ position_limits \in Seq(PositionLimit)
        /\ DOMAIN position_limits = 1 .. Len(position_limits)
        /\ Len(position_limits) \in Nat /\ Len(position_limits) <= MaxLimits
    BY ListFacts DEF LimitsInv, LimitsType
  <2>6. /\ position_limits' \in Seq(PositionLimit)
        /\ Len(position_limits') = Len(position_limits)
        /\ DOMAIN position_limits' = DOMAIN position_limits
        /\ position_limits'[f] = changed
        /\ \A m \in DOMAIN position_limits \ {f} : position_limits'[m] = position_limits[m]
    BY <2>2, <2>3, <2>4, <2>5, ExceptSeq
  <2>7. \A t : Entries(t)' = Entries(t)
    BY <2>3, <2>4, <2>6 DEF Entries
  <2>8. \A t \in Named \ {s} : \A m \in Entries(t) :
          position_limits'[m].bound = position_limits[m].bound
    BY <2>3, <2>6 DEF Entries
  <2>9. FirstOf(s, f)'
    BY <1>1, <2>1, <2>4, <2>6, <2>7 DEF FirstOf
  <2>10. Kept(s)'
    BY <1>1, <2>1, <2>7, <2>9 DEF Kept, LimitsInv
  <2>11. \A t \in Named \ {s} : Kept(t)'
    BY <1>1, <2>7, <2>8, KeptAlone
  <2>12. LimitsType'
    BY <1>1, <2>5, <2>6 DEF LimitsInv, LimitsType
  <2> QED
    BY <2>10, <2>11, <2>12 DEF LimitsInv
<1> QED
  BY <1>2, <1>3

LEMMA OtherLimits ==
  ASSUME LimitsInv, UNCHANGED <<position_limits, book, doubled>>,
         loss_limit' \in [daily_stop_loss : Nat, max_drawdown : Nat],
         exposure_limit' \in [max_gross : Nat, max_net : Nat, max_concentration : Nat]
  PROVE  LimitsInv'
<1>1. LimitsType'
  BY DEF LimitsInv, LimitsType
<1>2. \A t \in Named : Entries(t)' = Entries(t)
  BY DEF Entries
<1>3. \A t \in Named : Kept(t)'
  BY <1>2, KeptAlone
<1> QED
  BY <1>1, <1>3 DEF LimitsInv

LEMMA LimitsStart == LimitsInit => LimitsInv
<1> SUFFICES ASSUME LimitsInit PROVE LimitsInv
  OBVIOUS
<1>1. LimitsType
  BY LimitsAssumption, EmptySeq DEF LimitsInit, LimitsType
<1>2. \A s \in Named : Entries(s) = {} /\ book[s] = NoBound
  BY DEF LimitsInit, Entries
<1> QED
  BY <1>1, <1>2 DEF LimitsInv, Kept

LEMMA LimitsContinue ==
  ASSUME LimitsInv, LimitsNext
  PROVE  LimitsInv'
<1>1. /\ loss_limit \in [daily_stop_loss : Nat, max_drawdown : Nat]
      /\ exposure_limit \in [max_gross : Nat, max_net : Nat, max_concentration : Nat]
  BY DEF LimitsInv, LimitsType
<1>2. ASSUME NEW s \in Named, NEW bound \in PositionBounds,
             add_position_limit(s, bound) \/ set_position_limit(s, bound)
      PROVE  LimitsInv'
  BY <1>2, AddsLimit, SetsLimit
<1>3. ASSUME NEW limit \in LossLimits,
             \/ set_loss_limit(limit)
             \/ set_daily_stop_loss(limit.daily_stop_loss)
             \/ set_max_drawdown(limit.max_drawdown)
      PROVE  LimitsInv'
  <2>1. limit \in [daily_stop_loss : Nat, max_drawdown : Nat]
    BY LimitsAssumption
  <2>2. /\ loss_limit' \in [daily_stop_loss : Nat, max_drawdown : Nat]
        /\ UNCHANGED <<position_limits, exposure_limit, book, doubled>>
    BY <1>1, <1>3, <2>1 DEF set_loss_limit, set_daily_stop_loss, set_max_drawdown
  <2> QED
    BY <1>1, <2>2, OtherLimits
<1>4. ASSUME NEW limit \in ExposureLimits, set_exposure_limit(limit)
      PROVE  LimitsInv'
  <2>1. limit \in [max_gross : Nat, max_net : Nat, max_concentration : Nat]
    BY LimitsAssumption
  <2> QED
    BY <1>1, <1>4, <2>1, OtherLimits DEF set_exposure_limit
<1> QED
  BY <1>2, <1>3, <1>4 DEF LimitsNext

(* A position is judged by the book. *)
LEMMA JudgedOf ==
  ASSUME LimitsInv, NEW s \in Symbols, NEW net_qty
  PROVE  /\ BookBreaches(net_qty, s) \subseteq check_position(net_qty, s)
         /\ {AnySymbol, s} \cap doubled = {} =>
              check_position(net_qty, s) = BookBreaches(net_qty, s)
<1> DEFINE Concerned == {AnySymbol, s}
<1>1. \A k \in Concerned : k \in Named /\ Kept(k)
  BY DEF LimitsInv, Named
<1>2. \A l : l \in ToSet(position_limits)
               <=> \E n \in DOMAIN position_limits : l = position_limits[n]
  BY DEF ToSet
<1>3. ASSUME NEW k \in Concerned, book[k] # NoBound
      PROVE  \E l \in ToSet(position_limits) : l.symbol = k /\ l.bound = book[k]
  <2>1. PICK n \in Entries(k) : FirstOf(k, n)
    BY <1>1, <1>3 DEF Kept
  <2> QED
    BY <1>2, <2>1 DEF FirstOf, Entries
<1>4. ASSUME {AnySymbol, s} \cap doubled = {},
             NEW l \in ToSet(position_limits), l.symbol \in Concerned
      PROVE  book[l.symbol] # NoBound /\ l.bound = book[l.symbol]
  <2> DEFINE k == l.symbol
  <2>1. PICK m \in DOMAIN position_limits : l = position_limits[m]
    BY <1>2
  <2>2. m \in Entries(k)
    BY <2>1 DEF Entries
  <2>3. k \notin doubled /\ k \in Concerned
    BY <1>4
  <2>4. book[k] # NoBound
    BY <1>1, <2>2, <2>3 DEF Kept
  <2>5. PICK n \in Entries(k) : FirstOf(k, n)
    BY <1>1, <2>3, <2>4 DEF Kept
  <2>6. m = n
    BY <1>1, <2>2, <2>3, <2>5 DEF Kept
  <2> QED
    BY <2>1, <2>4, <2>5, <2>6 DEF FirstOf
<1>5. BookBreaches(net_qty, s) \subseteq check_position(net_qty, s)
  BY <1>3 DEF BookBreaches, check_position
<1>6. ASSUME {AnySymbol, s} \cap doubled = {}
      PROVE  check_position(net_qty, s) \subseteq BookBreaches(net_qty, s)
  BY <1>4, <1>6 DEF BookBreaches, check_position
<1> QED
  BY <1>5, <1>6

LEMMA OneEntry ==
  ASSUME LimitsInv, NEW s \in Named, Cardinality(Entries(s)) > 1
  PROVE  s \in doubled
<1> SUFFICES ASSUME s \notin doubled PROVE FALSE
  OBVIOUS
<1>1. \A m, n \in Entries(s) : m = n
  BY DEF LimitsInv, Kept
<1>2. CASE Entries(s) = {}
  BY <1>2, FS_EmptySet
<1>3. CASE Entries(s) # {}
  <2>1. PICK n \in Entries(s) : Entries(s) = {n}
    BY <1>1, <1>3
  <2>2. Cardinality({n}) = 1
    BY FS_Singleton
  <2> QED
    BY <2>1, <2>2
<1> QED
  BY <1>2, <1>3

------------------------------------------------------------------------------
(* The exposure *)

(* Sums are the same whichever module takes them. *)
LEMMA SameTotal == \A f : Metrics!Total(f) = Total(f)
  BY DEF Metrics!Total, Total, Metrics!MapThenSumSet, MapThenSumSet,
         Metrics!MapThenFoldSet, MapThenFoldSet

LEMMA KnownFacts ==
  ASSUME NEW v \in [Symbols -> Values \cup {NoValue}]
  PROVE  /\ IsFiniteSet(Metrics!Known(v)) /\ Metrics!Known(v) \subseteq Symbols
         /\ \A s \in Metrics!Known(v) : v[s] \in Int
<1>1. Metrics!Known(v) \subseteq Symbols /\ \A s \in Metrics!Known(v) : v[s] \in Int
  BY EngineAssumption DEF Metrics!Known
<1> QED
  BY <1>1, EngineAssumption, FS_Subset

(* The sizes of the values of some symbols. *)
LEMMA SizesFacts ==
  ASSUME NEW v, NEW S, \A s \in S : v[s] \in Int
  PROVE  /\ Metrics!Sizes(v, S) = [s \in S |-> IF v[s] < 0 THEN -v[s] ELSE v[s]]
         /\ \A s \in S : Metrics!Sizes(v, S)[s] \in Nat
         /\ \A s \in S : Metrics!Sizes(v, S)[s] = Metrics!Magnitude(v[s])
         /\ Total(Metrics!Sizes(v, S)) = SumOver(Metrics!Sizes(v, S), S)
<1>1. Metrics!Sizes(v, S) = [s \in S |-> IF v[s] < 0 THEN -v[s] ELSE v[s]]
  BY DEF Metrics!Sizes, Metrics!Magnitude
<1>2. \A s \in S : Metrics!Sizes(v, S)[s] \in Nat
  BY <1>1
<1>3. \A s \in S : Metrics!Sizes(v, S)[s] = Metrics!Magnitude(v[s])
  BY DEF Metrics!Sizes
<1>4. DOMAIN Metrics!Sizes(v, S) = S
  BY DEF Metrics!Sizes
<1> QED
  BY <1>1, <1>2, <1>3, <1>4, TotalIsSum

LEMMA GrossFacts ==
  ASSUME NEW v \in [Symbols -> Values \cup {NoValue}]
  PROVE  /\ Metrics!Gross(v) \in Nat /\ Metrics!Net(v) \in Int
         /\ Metrics!Gross(v) = SumOver(Metrics!Sizes(v, Metrics!Known(v)), Metrics!Known(v))
         /\ \A s \in Metrics!Known(v) : Metrics!Magnitude(v[s]) <= Metrics!Gross(v)
<1> DEFINE K == Metrics!Known(v)
           values == [s \in K |-> v[s]]
<1>1. IsFiniteSet(K) /\ \A s \in K : v[s] \in Int
  BY KnownFacts
<1>2. Metrics!Gross(v) = Total(Metrics!Sizes(v, K))
  BY SameTotal DEF Metrics!Gross
<1>3. Metrics!Net(v) = Total(values)
  BY SameTotal DEF Metrics!Net
<1> HIDE DEF K
<1>4. Metrics!Gross(v) = SumOver(Metrics!Sizes(v, K), K)
  BY <1>1, <1>2, SizesFacts
<1>5. Metrics!Gross(v) \in Nat /\ \A s \in K : Metrics!Magnitude(v[s]) <= Metrics!Gross(v)
  <2> DEFINE h == Metrics!Sizes(v, K)
  <2>1. \A s \in K : h[s] \in Nat /\ h[s] = Metrics!Magnitude(v[s])
    BY <1>1, SizesFacts
  <2> HIDE DEF h
  <2>2. SumOver(h, K) \in Nat /\ \A s \in K : h[s] <= SumOver(h, K)
    BY <1>1, <2>1, SumOfNaturals
  <2> QED
    BY <1>4, <2>1, <2>2 DEF h
<1>6. Metrics!Net(v) \in Int
  <2>1. DOMAIN values = K /\ \A s \in K : values[s] \in Int
    BY <1>1
  <2> HIDE DEF values
  <2> QED
    BY <1>1, <1>3, <2>1, TotalIsSum, SumIsInteger
<1> QED
  BY <1>4, <1>5, <1>6 DEF K

Long(v) == {s \in Metrics!Known(v) : v[s] > 0}

(* What is long and what is not add up to the gross, and differ by the net *)
(* exposure.                                                               *)
LEMMA PartsAddUp ==
  ASSUME NEW v \in [Symbols -> Values \cup {NoValue}]
  PROVE  LET long == Total(Metrics!Sizes(v, Long(v)))
             short == Total(Metrics!Sizes(v, Metrics!Known(v) \ Long(v)))
         IN /\ long \in Nat /\ short \in Nat
            /\ long + short = Metrics!Gross(v)
            /\ long - short = Metrics!Net(v)
<1> DEFINE K == Metrics!Known(v)
           P == Long(v)
           Q == K \ P
           onK == Metrics!Sizes(v, K)
           signed == [s \in K |-> v[s]]
           onP == Metrics!Sizes(v, P)
           onQ == Metrics!Sizes(v, Q)
<1>1. IsFiniteSet(K) /\ \A s \in K : v[s] \in Int
  BY KnownFacts
<1>2. /\ P \subseteq K /\ K \cap P = P
      /\ \A s \in P : v[s] > 0
      /\ \A s \in Q : ~(v[s] > 0)
  BY DEF Long
<1>3. IsFiniteSet(P) /\ IsFiniteSet(Q)
  BY <1>1, <1>2, FS_Subset
<1>4. Metrics!Gross(v) = SumOver(onK, K)
  BY GrossFacts
<1>5. Metrics!Net(v) = Total(signed)
  BY SameTotal DEF Metrics!Net
<1> HIDE DEF K, P
<1>6. /\ \A s \in K : onK[s] = IF v[s] < 0 THEN -v[s] ELSE v[s]
      /\ \A s \in P : onP[s] = IF v[s] < 0 THEN -v[s] ELSE v[s]
      /\ \A s \in Q : onQ[s] = IF v[s] < 0 THEN -v[s] ELSE v[s]
      /\ \A s \in K : signed[s] = v[s]
  BY <1>1, <1>2, SizesFacts
<1>7. /\ Total(onP) = SumOver(onP, P)
      /\ Total(onQ) = SumOver(onQ, Q)
  BY <1>1, <1>2, SizesFacts
<1>8. Total(signed) = SumOver(signed, K)
  <2>1. DOMAIN signed = K
    OBVIOUS
  <2> QED
    BY <2>1, TotalIsSum
<1> HIDE DEF onK, signed, onP, onQ
<1>9. /\ SumOver(onP, P) = SumOver(onK, P)
      /\ SumOver(onQ, Q) = SumOver(onK, Q)
  <2>1. \A s \in P : onP[s] \in Int /\ onP[s] = onK[s]
    BY <1>1, <1>2, <1>6
  <2>2. \A s \in Q : onQ[s] \in Int /\ onQ[s] = onK[s]
    BY <1>1, <1>6
  <2> HIDE DEF Q
  <2> QED
    BY <1>3, <2>1, <2>2, SumOfSame
<1>10. SumOver(onK, P) \in Nat /\ SumOver(onK, Q) \in Nat
  <2>1. (\A s \in P : onK[s] \in Nat) /\ \A s \in Q : onK[s] \in Nat
    BY <1>1, <1>2, <1>6
  <2> HIDE DEF Q
  <2> QED
    BY <1>3, <2>1, SumOfNaturals
<1>11. /\ SumOver(onK, K) = SumOver(onK, P) + SumOver(onK, Q)
       /\ SumOver(signed, K) = SumOver(onK, P) - SumOver(onK, Q)
  <2>1. \A s \in K : onK[s] \in Int /\ signed[s] \in Int
    BY <1>1, <1>6
  <2>2. /\ SumOver(onK, K) = SumOver(onK, K \cap P) + SumOver(onK, K \ P)
        /\ SumOver(signed, K) = SumOver(signed, K \cap P) + SumOver(signed, K \ P)
    <3>1. IsFiniteSet(K)
      BY <1>1
    <3>2. (\A s \in K : onK[s] \in Int) /\ \A s \in K : signed[s] \in Int
      BY <2>1
    <3> QED
      BY <3>1, <3>2, SumSplits
  <2>3. SumOver(signed, P) = SumOver(onK, P)
    <3>1. \A s \in P : signed[s] \in Int /\ signed[s] = onK[s]
      BY <1>1, <1>2, <1>6
    <3> QED
      BY <1>3, <3>1, SumOfSame
  <2>4. SumOver(signed, Q) = -SumOver(onK, Q)
    <3>1. \A s \in Q : onK[s] \in Int /\ signed[s] = -onK[s]
      BY <1>1, <1>2, <1>6
    <3> HIDE DEF Q
    <3> QED
      BY <1>3, <3>1, SumNegated
  <2> QED
    BY <1>2, <1>10, <2>2, <2>3, <2>4
<1>12. /\ Metrics!Gross(v) = Total(onP) + Total(onQ)
       /\ Metrics!Net(v) = Total(onP) - Total(onQ)
       /\ Total(onP) \in Nat /\ Total(onQ) \in Nat
  BY <1>4, <1>5, <1>7, <1>8, <1>9, <1>10, <1>11
<1> QED
  BY <1>12 DEF onP, onQ, K, P

LEMMA SquaresBounded ==
  ASSUME NEW v \in [Symbols -> Values \cup {NoValue}]
  PROVE  LET squares == Total([s \in Metrics!Known(v) |-> v[s] * v[s]])
             gross2 == Metrics!Gross(v) * Metrics!Gross(v)
         IN /\ squares <= gross2
            /\ gross2 <= Cardinality(Metrics!Known(v)) * squares
<1> DEFINE K == Metrics!Known(v)
           h == Metrics!Sizes(v, K)
           k == [s \in K |-> v[s] * v[s]]
<1>1. IsFiniteSet(K) /\ \A s \in K : v[s] \in Int
  BY KnownFacts
<1>2. Metrics!Gross(v) = SumOver(h, K)
  BY GrossFacts
<1> HIDE DEF K
<1>3. Total(k) = SumOver(k, K)
  <2>1. DOMAIN k = K
    OBVIOUS
  <2> QED
    BY <2>1, TotalIsSum
<1>4. \A s \in K : h[s] \in Nat /\ k[s] = h[s] * h[s]
  <2> SUFFICES ASSUME NEW s \in K PROVE h[s] \in Nat /\ k[s] = h[s] * h[s]
    OBVIOUS
  <2>1. h[s] = IF v[s] < 0 THEN -v[s] ELSE v[s]
    BY <1>1, SizesFacts
  <2>2. h[s] \in Nat
    BY <1>1, SizesFacts
  <2>3. \A x \in Int : (-x) * (-x) = x * x
    OBVIOUS
  <2> QED
    BY <1>1, <2>1, <2>2, <2>3
<1> HIDE DEF h, k
<1>5. /\ SumOver(k, K) <= SumOver(h, K) * SumOver(h, K)
      /\ SumOver(h, K) * SumOver(h, K) <= Cardinality(K) * SumOver(k, K)
  BY <1>1, <1>4, SquaresOfSum
<1> QED
  BY <1>2, <1>3, <1>5 DEF K, k

------------------------------------------------------------------------------
(* The desk *)

(* The exposures are the sums of the values that are known. *)
MetricsInv ==
  /\ symbol_values \in [Symbols -> Values \cup {NoValue}]
  /\ gross_exposure = Metrics!Gross(symbol_values)
  /\ net_exposure = Metrics!Net(symbol_values)
  /\ params \in Metrics!Params

DeskInv == LimitsInv /\ MetricsInv

LEMMA MetricsStart == Metrics!Init => MetricsInv
<1> SUFFICES ASSUME Metrics!Init PROVE MetricsInv
  OBVIOUS
<1>1. symbol_values \in [Symbols -> Values \cup {NoValue}] /\ params \in Metrics!Params
  BY EngineAssumption DEF Metrics!Init
<1>2. Metrics!Known(symbol_values) = {}
  BY DEF Metrics!Init, Metrics!Known
<1>3. Metrics!Gross(symbol_values) = 0
  <2>1. Metrics!Gross(symbol_values) = SumOver(Metrics!Sizes(symbol_values, {}), {})
    BY <1>1, <1>2, GrossFacts
  <2> QED
    BY <2>1, SumOfNothing
<1>4. Metrics!Net(symbol_values) = 0
  <2> DEFINE none == [s \in {} |-> symbol_values[s]]
  <2>1. Metrics!Net(symbol_values) = Total(none)
    BY <1>2, SameTotal DEF Metrics!Net
  <2>2. DOMAIN none = {}
    OBVIOUS
  <2> HIDE DEF none
  <2> QED
    BY <2>1, <2>2, TotalIsSum, SumOfNothing
<1> QED
  BY <1>1, <1>3, <1>4 DEF MetricsInv, Metrics!Init

LEMMA MetricsContinue ==
  ASSUME MetricsInv, Metrics!Next
  PROVE  MetricsInv'
<1>1. ASSUME NEW s \in Symbols, NEW v \in Values, Metrics!update_position(s, v)
      PROVE  MetricsInv'
  <2>1. symbol_values' \in [Symbols -> Values \cup {NoValue}]
    BY <1>1 DEF MetricsInv, Metrics!update_position
  <2>2. /\ gross_exposure' = Metrics!Gross(symbol_values)'
        /\ net_exposure' = Metrics!Net(symbol_values)'
    BY <1>1 DEF Metrics!update_position
  <2>3. params' \in Metrics!Params
    BY <1>1 DEF MetricsInv, Metrics!update_position
  <2> QED
    BY <2>1, <2>2, <2>3 DEF MetricsInv
<1>2. ASSUME NEW p \in RiskParams, Metrics!set_risk_params(p)
      PROVE  MetricsInv'
  <2>1. params' \in Metrics!Params
    BY <1>2, EngineAssumption DEF Metrics!set_risk_params
  <2>2. UNCHANGED <<symbol_values, gross_exposure, net_exposure>>
    BY <1>2 DEF Metrics!set_risk_params
  <2>3. Metrics!Gross(symbol_values)' = Metrics!Gross(symbol_values)
    BY <2>2
  <2>4. Metrics!Net(symbol_values)' = Metrics!Net(symbol_values)
    BY <2>2
  <2> QED
    BY <2>1, <2>2, <2>3, <2>4 DEF MetricsInv
<1> QED
  BY <1>1, <1>2 DEF Metrics!Next

LEMMA LimitsStutter ==
  ASSUME LimitsInv, UNCHANGED limitVars
  PROVE  LimitsInv'
<1>1. /\ loss_limit' \in [daily_stop_loss : Nat, max_drawdown : Nat]
      /\ exposure_limit' \in [max_gross : Nat, max_net : Nat, max_concentration : Nat]
      /\ UNCHANGED <<position_limits, book, doubled>>
  BY DEF LimitsInv, LimitsType, limitVars
<1> QED
  BY <1>1, OtherLimits

LEMMA MetricsStutter ==
  ASSUME MetricsInv, UNCHANGED metricsVars
  PROVE  MetricsInv'
<1>1. UNCHANGED <<symbol_values, gross_exposure, net_exposure, params>>
  BY DEF metricsVars
<1>2. Metrics!Gross(symbol_values)' = Metrics!Gross(symbol_values)
  BY <1>1
<1>3. Metrics!Net(symbol_values)' = Metrics!Net(symbol_values)
  BY <1>1
<1> QED
  BY <1>1, <1>2, <1>3 DEF MetricsInv

LEMMA DeskInvariant == Desk => []DeskInv
<1>1. DeskInit => DeskInv
  BY LimitsStart, MetricsStart DEF DeskInit, DeskInv
<1>2. DeskInv /\ [DeskNext]_deskVars => DeskInv'
  <2> SUFFICES ASSUME DeskInv, [DeskNext]_deskVars PROVE DeskInv'
    OBVIOUS
  <2>1. CASE LimitsNext /\ UNCHANGED metricsVars
    BY <2>1, LimitsContinue, MetricsStutter DEF DeskInv
  <2>2. CASE Metrics!Next /\ UNCHANGED limitVars
    BY <2>2, LimitsStutter, MetricsContinue DEF DeskInv
  <2>3. CASE UNCHANGED deskVars
    BY <2>3, LimitsStutter, MetricsStutter DEF DeskInv, deskVars
  <2> QED
    BY <2>1, <2>2, <2>3 DEF DeskNext
<1> QED
  BY <1>1, <1>2, PTL DEF Desk

LEMMA DeskTyped == DeskInv => DeskTypeOK
<1> SUFFICES ASSUME DeskInv PROVE DeskTypeOK
  OBVIOUS
<1>1. gross_exposure \in Nat /\ net_exposure \in Int
  BY GrossFacts DEF DeskInv, MetricsInv
<1>2. \A s \in Named : Cardinality(Entries(s)) > 1 => s \in doubled
  BY OneEntry DEF DeskInv
<1> QED
  BY <1>1, <1>2 DEF DeskTypeOK, DeskInv, LimitsInv, LimitsType, MetricsInv

(* Whatever limits were added and set, in whatever order: a position is    *)
(* judged by the bounds in force, and by a superseded one only where a     *)
(* limit was added next to another (add_position_limit,                    *)
(* set_position_limit, check_position).                                    *)
THEOREM BookIsJudge == Desk => []JudgedByBook
<1>1. DeskInv => JudgedByBook
  <2> SUFFICES ASSUME DeskInv PROVE JudgedByBook
    OBVIOUS
  <2>1. DeskTypeOK
    BY DeskTyped
  <2>2. ASSUME NEW s \in Symbols, NEW net_qty \in Readings
        PROVE  /\ BookBreaches(net_qty, s) \subseteq check_position(net_qty, s)
               /\ {AnySymbol, s} \cap doubled = {} =>
                    check_position(net_qty, s) = BookBreaches(net_qty, s)
    BY JudgedOf DEF DeskInv
  <2> QED
    BY <2>1, <2>2 DEF JudgedByBook
<1> QED
  BY <1>1, DeskInvariant, PTL

------------------------------------------------------------------------------
(* The two judges *)

LEMMA ExposureIs ==
  /\ Exposure.gross_exposure = gross_exposure
  /\ Exposure.net_exposure = net_exposure
  /\ Exposure.long_exposure = Total(Metrics!Sizes(symbol_values, Long(symbol_values)))
  /\ Exposure.short_exposure =
       Total(Metrics!Sizes(symbol_values,
                           Metrics!Known(symbol_values) \ Long(symbol_values)))
  /\ Exposure.squares =
       Total([s \in Metrics!Known(symbol_values) |-> symbol_values[s] * symbol_values[s]])
  BY SameTotal DEF Exposure, Metrics!compute_exposure, Long

LEMMA StoppedBy ==
  ASSUME NEW type, NEW kind, NEW value \in Int, NEW limit \in Int, NEW hard
  PROVE  Stopped(type, Exceeds(kind, value, limit, hard))
           <=> type = kind /\ limit > 0 /\ value > limit
<1> DEFINE breach == Breach(kind, value, limit, hard)
<1>1. breach.limit_type = kind
  BY DEF Breach
<1>2. Exceeds(kind, value, limit, hard) =
        IF limit > 0 /\ value > limit THEN {breach} ELSE {}
  BY DEF Exceeds
<1> HIDE DEF breach
<1> QED
  BY <1>1, <1>2 DEF Stopped

LEMMA StoppedBelow ==
  ASSUME NEW type, NEW kind, NEW value \in Int, NEW limit \in Int, NEW hard
  PROVE  Stopped(type, FallsBelow(kind, value, -limit, hard))
           <=> type = kind /\ limit > 0 /\ value < -limit
<1> DEFINE breach == Breach(kind, value, -limit, hard)
<1>1. breach.limit_type = kind
  BY DEF Breach
<1>2. FallsBelow(kind, value, -limit, hard) =
        IF -limit < 0 /\ value < -limit THEN {breach} ELSE {}
  BY DEF FallsBelow
<1>3. -limit < 0 <=> limit > 0
  OBVIOUS
<1> HIDE DEF breach
<1> QED
  BY <1>1, <1>2, <1>3 DEF Stopped

LEMMA StoppedEither ==
  ASSUME NEW type, NEW S, NEW T
  PROVE  Stopped(type, S \cup T) <=> Stopped(type, S) \/ Stopped(type, T)
  BY DEF Stopped

LEMMA LossesAlike == DeskInv => LossesJudgedAlike
<1> SUFFICES ASSUME DeskInv, NEW reading \in Readings
    PROVE  /\ loss_limit.daily_stop_loss = params.daily_stop_loss =>
                (Metrics!check_daily_stop_loss(reading)
                   <=> /\ ~Stopped("daily_stop_loss", check_loss(reading, 0))
                       /\ reading # -params.daily_stop_loss
                       /\ params.daily_stop_loss = 0 => reading > 0)
           /\ loss_limit.max_drawdown = params.max_drawdown /\ reading >= 0 =>
                (Metrics!check_drawdown(reading)
                   <=> /\ ~Stopped("max_drawdown", check_loss(0, reading))
                       /\ reading # params.max_drawdown
                       /\ params.max_drawdown > 0)
  BY DEF LossesJudgedAlike
<1>1. /\ params.daily_stop_loss \in Nat /\ params.max_drawdown \in Nat
      /\ loss_limit.daily_stop_loss \in Nat /\ loss_limit.max_drawdown \in Nat
  BY DEF DeskInv, MetricsInv, Metrics!Params, LimitsInv, LimitsType
<1>2. reading \in Int
  BY LimitsAssumption DEF Readings
<1>3. /\ reading \in Int /\ -reading \in Int /\ 0 \in Int /\ -0 \in Int
      /\ loss_limit.daily_stop_loss \in Int /\ loss_limit.max_drawdown \in Int
  <2>1. \A z \in Int : -z \in Int
    OBVIOUS
  <2>2. 0 \in Int
    OBVIOUS
  <2>3. -0 \in Int
    BY <2>1, <2>2, Zenon
  <2> QED
    <3>1. /\ reading \in Int /\ -reading \in Int /\ loss_limit.daily_stop_loss \in Int
          /\ loss_limit.max_drawdown \in Int
      BY <1>1, <1>2
    <3> QED
      BY <2>2, <2>3, <3>1, Zenon
<1>4. "daily_stop_loss" # "max_drawdown"
  OBVIOUS
<1>5. Stopped("daily_stop_loss", check_loss(reading, 0))
        <=> loss_limit.daily_stop_loss > 0 /\ reading < -loss_limit.daily_stop_loss
  <2> DEFINE losses == FallsBelow("daily_stop_loss", reading,
                                  -loss_limit.daily_stop_loss, TRUE)
             falls == Exceeds("max_drawdown", 0, loss_limit.max_drawdown, TRUE)
  <2>1. check_loss(reading, 0) = losses \cup falls
    BY DEF check_loss
  <2>2. Stopped("daily_stop_loss", losses)
          <=> loss_limit.daily_stop_loss > 0 /\ reading < -loss_limit.daily_stop_loss
    BY <1>3, StoppedBelow, Zenon
  <2>3. ~Stopped("daily_stop_loss", falls)
    BY <1>3, <1>4, StoppedBy, Zenon
  <2> HIDE DEF losses, falls
  <2> QED
    BY <2>1, <2>2, <2>3, StoppedEither
<1>6. Stopped("max_drawdown", check_loss(0, reading))
        <=> loss_limit.max_drawdown > 0 /\ reading > loss_limit.max_drawdown
  <2> DEFINE losses == FallsBelow("daily_stop_loss", 0,
                                  -loss_limit.daily_stop_loss, TRUE)
             falls == Exceeds("max_drawdown", reading, loss_limit.max_drawdown, TRUE)
  <2>1. check_loss(0, reading) = losses \cup falls
    BY DEF check_loss
  <2>2. Stopped("max_drawdown", falls)
          <=> loss_limit.max_drawdown > 0 /\ reading > loss_limit.max_drawdown
    BY <1>3, <1>4, StoppedBy, Zenon
  <2>3. ~Stopped("max_drawdown", losses)
    BY <1>3, <1>4, StoppedBelow, Zenon
  <2> HIDE DEF losses, falls
  <2> QED
    BY <2>1, <2>2, <2>3, StoppedEither
<1>7. Metrics!check_daily_stop_loss(reading) <=> reading > -params.daily_stop_loss
  BY DEF Metrics!check_daily_stop_loss
<1>8. Metrics!check_drawdown(reading) <=> reading < params.max_drawdown
  BY DEF Metrics!check_drawdown
<1>9. ASSUME NEW r \in Int, NEW d \in Nat
      PROVE  /\ r > -d <=> ~(d > 0 /\ r < -d) /\ r # -d /\ (d = 0 => r > 0)
             /\ r >= 0 => (r < d <=> ~(d > 0 /\ r > d) /\ r # d /\ d > 0)
  OBVIOUS
<1> QED
  BY <1>1, <1>2, <1>5, <1>6, <1>7, <1>8, <1>9

LEMMA GrossCovers == DeskInv => GrossCoversSymbols
<1> DEFINE limit == params.max_gross
<1> SUFFICES ASSUME DeskInv, exposure_limit.max_gross = limit, limit > 0,
                    ~Stopped("gross_exposure", ExposureBreaches)
             PROVE  /\ \A s \in Metrics!Known(symbol_values) :
                         Metrics!check_position_limit(symbol_values[s])
                    /\ exposure_limit.max_net = limit => ~has_hard_breach(ExposureBreaches)
  BY DEF GrossCoversSymbols
<1> DEFINE g == gross_exposure
           n == net_exposure
           gross == Exceeds("gross_exposure", g, limit, TRUE)
           net == Exceeds("net_exposure", Magnitude(n), exposure_limit.max_net, TRUE)
           spread == Exceeds("concentration", 100 * Exposure.squares,
                             exposure_limit.max_concentration * g * g, FALSE)
<1>1. limit \in Nat /\ g \in Nat /\ n \in Int
  BY GrossFacts DEF DeskInv, MetricsInv, Metrics!Params
<1>2. ExposureBreaches = gross \cup net \cup spread
  BY ExposureIs DEF ExposureBreaches, check_exposure
<1>3. g <= limit
  <2>1. Stopped("gross_exposure", gross) <=> limit > 0 /\ g > limit
    <3>1. limit \in Int /\ g \in Int
      BY <1>1
    <3> QED
      BY <3>1, StoppedBy, Zenon
  <2> HIDE DEF gross, net, spread
  <2>2. ~Stopped("gross_exposure", gross)
    BY <1>2, StoppedEither
  <2> QED
    BY <1>1, <2>1, <2>2
<1>4. ASSUME NEW s \in Metrics!Known(symbol_values)
      PROVE  Metrics!check_position_limit(symbol_values[s])
  <2>1. Metrics!Magnitude(symbol_values[s]) <= g
    BY GrossFacts DEF DeskInv, MetricsInv
  <2>2. Metrics!Magnitude(symbol_values[s]) \in Int
    BY KnownFacts DEF DeskInv, MetricsInv, Metrics!Magnitude
  <2> QED
    BY <1>1, <1>3, <2>1, <2>2 DEF Metrics!check_position_limit
<1>5. Magnitude(n) \in Nat /\ Magnitude(n) <= g
  <2>1. PICK a \in Nat, b \in Nat : g = a + b /\ n = a - b
    BY PartsAddUp DEF DeskInv, MetricsInv
  <2> QED
    BY <2>1 DEF Magnitude
<1>6. ASSUME exposure_limit.max_net = limit
      PROVE  ~has_hard_breach(ExposureBreaches)
  <2>1. gross = {} /\ net = {}
    <3>1. ~(g > limit) /\ ~(Magnitude(n) > limit)
      BY <1>1, <1>3, <1>5
    <3> QED
      BY <1>6, <3>1 DEF Exceeds
  <2>2. \A b \in spread : b.is_hard = FALSE
    BY DEF Exceeds, Breach
  <2> QED
    BY <1>2, <2>1, <2>2 DEF has_hard_breach
<1> QED
  BY <1>4, <1>6

(* RiskLimits and MetricsEngine judge alike wherever their thresholds are  *)
(* the same, but for the threshold itself and the one that is off          *)
(* (check_loss, check_exposure, check_daily_stop_loss, check_drawdown,     *)
(* check_position_limit).                                                  *)
THEOREM JudgesAreAlike == Desk => []JudgesAgree
<1>1. DeskInv => JudgesAgree
  BY LossesAlike, GrossCovers DEF JudgesAgree
<1> QED
  BY <1>1, DeskInvariant, PTL

(* However many symbols there are, the exposure reported is that of one    *)
(* book: its long and short parts add up to the gross, differ by the net   *)
(* exposure, and the concentration lies between that of an even book and   *)
(* that of a single symbol (update_position, compute_exposure).            *)
THEOREM ExposureIsOneBook == Desk => []ExposureAddsUp
<1>1. DeskInv => ExposureAddsUp
  <2> SUFFICES ASSUME DeskInv PROVE ExposureAddsUp
    OBVIOUS
  <2>1. /\ symbol_values \in [Symbols -> Values \cup {NoValue}]
        /\ gross_exposure = Metrics!Gross(symbol_values)
        /\ net_exposure = Metrics!Net(symbol_values)
    BY DEF DeskInv, MetricsInv
  <2>2. /\ Exposure.long_exposure + Exposure.short_exposure = gross_exposure
        /\ Exposure.long_exposure - Exposure.short_exposure = net_exposure
    BY <2>1, PartsAddUp, ExposureIs
  <2>3. /\ Exposure.squares <= gross_exposure * gross_exposure
        /\ gross_exposure * gross_exposure
             <= Cardinality(Metrics!Known(symbol_values)) * Exposure.squares
    BY <2>1, SquaresBounded, ExposureIs
  <2> QED
    BY <2>2, <2>3, ExposureIs DEF ExposureAddsUp
<1> QED
  BY <1>1, DeskInvariant, PTL
===============================================================================
