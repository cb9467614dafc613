----------------------------- MODULE BooksProofs -----------------------------
(***************************************************************************)
(* Proofs about the tracker and the client's book, for every set of        *)
(* instruments, quantities, prices and fees, and any number of trades: the *)
(* entry prices and the audit trail of the tracker, and the identities     *)
(* that tie both books to each other and to the cash of the ledger.        *)
(***************************************************************************)
EXTENDS Books, PositionProofs

(* Every state of the tracker is well typed. *)
THEOREM TypeCorrect == Spec => []TypeOK
<1>1. Init => TypeOK
  <2>1. EmptyPosition \in PositionDetail
    BY ZeroType DEF EmptyPosition, PositionDetail
  <2> QED
    BY <2>1, LotMethodsAssumption DEF Init, TypeOK
<1>2. TypeOK /\ [Next]_trackerVars => TypeOK'
  <2> SUFFICES ASSUME TypeOK, [Next]_trackerVars PROVE TypeOK'
    OBVIOUS
  <2> USE DEF TypeOK
  <2>1. ASSUME NEW trade \in Trade, update_position(trade) PROVE TypeOK'
    <3>1. trade.symbol \in Symbols
      BY SignedQuantityType
    <3>2. PositionAfter(positions[trade.symbol], trade) \in PositionDetail
      BY <3>1, PositionAfterType
    <3>3. positions' \in [Symbols -> PositionDetail]
      BY <2>1, <3>2 DEF update_position
    <3>4. history' \in [Symbols -> Seq(PositionDetail)]
      BY <2>1, <3>1, <3>2 DEF update_position
    <3> QED
      BY <2>1, <3>3, <3>4 DEF update_position
  <2>2. ASSUME NEW s \in Symbols, NEW price \in Prices, set_price(s, price)
        PROVE  TypeOK'
    <3>1. [positions[s] EXCEPT !.current_price = price] \in PositionDetail
      BY PricesAssumption DEF PositionDetail
    <3>2. Marked([positions[s] EXCEPT !.current_price = price]) \in PositionDetail
      BY <3>1, MarkedType
    <3> QED
      BY <2>2, <3>2 DEF set_price
  <2>3. ASSUME NEW m \in LotMethods, set_lot_match_method(m)
        PROVE  TypeOK'
    BY <2>3 DEF set_lot_match_method
  <2>4. CASE UNCHANGED trackerVars
    BY <2>4 DEF trackerVars
  <2> QED
    BY <2>1, <2>2, <2>3, <2>4 DEF Next
<1> QED
  BY <1>1, <1>2, PTL DEF Spec

------------------------------------------------------------------------------
(* The sum that EntryPrice divides, whichever way Plus writes it. *)
LEMMA WeightedSum ==
  ASSUME NEW avg \in Fraction, NEW k \in Int, NEW x \in Int
  PROVE  Plus(Times(k, avg), Whole(x)) =
           [num |-> k * avg.num + x * avg.den, den |-> avg.den]
<1>1. avg.num \in Int /\ avg.den \in Nat \ {0}
  BY DEF Fraction
<1>2. k * avg.num \in Int /\ x * avg.den \in Int
  BY <1>1, ProductType
<1>3. CASE avg.den = 1
  BY <1>1, <1>2, <1>3 DEF Plus, Times, Whole
<1>4. CASE avg.den # 1
  BY <1>1, <1>2, <1>4 DEF Plus, Times, Whole
<1> QED
  BY <1>3, <1>4

(* Adding to a position on either side keeps its entry price between two   *)
(* prices of the instrument.                                               *)
LEMMA AverageWithin ==
  ASSUME NEW avg \in Fraction, NEW old \in Int, NEW signed \in Int,
         NEW price \in Prices, SameSign(old, signed), WithinPrices(avg)
  PROVE  WithinPrices(Over(Plus(Times(old, avg), Whole(signed * price)),
                           old + signed))
<1> DEFINE x == avg.num
           d == avg.den
<1>1. /\ x \in Int /\ d \in Nat \ {0} /\ price \in Nat
      /\ signed * price \in Int
  BY PricesAssumption, ProductType DEF Fraction
<1>2. PICK low \in Prices, high \in Prices :
        AtMost(Whole(low), avg) /\ AtMost(avg, Whole(high))
  BY DEF WithinPrices
<1>3. /\ low \in Nat /\ high \in Nat
      /\ low * d <= x /\ x <= high * d
  BY <1>1, <1>2, PricesAssumption DEF AtMost, Whole
<1>4. PICK l \in Prices : l \in Nat /\ l <= low /\ l <= price
  BY <1>1, <1>3
<1>5. PICK h \in Prices : h \in Nat /\ high <= h /\ price <= h
  BY <1>1, <1>3
<1>6. l * d <= x /\ x <= h * d
  <2>1. d * l <= d * low /\ d * high <= d * h
    BY <1>1, <1>3, <1>4, <1>5, ProductMonotone
  <2>2. /\ d * l = l * d /\ d * low = low * d
        /\ d * high = high * d /\ d * h = h * d
    BY <1>1, <1>3, <1>4, <1>5
  <2>3. /\ l * d \in Int /\ h * d \in Int /\ low * d \in Int /\ high * d \in Int
    BY <1>1, <1>3, <1>4, <1>5, ProductType
  <2> QED
    BY <1>1, <1>3, <2>1, <2>2, <2>3
<1> DEFINE sum == Plus(Times(old, avg), Whole(signed * price))
<1>7. sum = [num |-> old * x + (signed * price) * d, den |-> d]
  BY <1>1, WeightedSum
<1> HIDE DEF x, d, sum
<1>8. CASE old > 0 /\ signed > 0
  <2>1. /\ l * (d * (old + signed)) <= old * x + (signed * price) * d
        /\ old * x + (signed * price) * d <= h * (d * (old + signed))
    BY <1>1, <1>4, <1>5, <1>6, <1>8, AverageAbove, AverageBelow
  <2>2. Over(sum, old + signed) =
          [num |-> old * x + (signed * price) * d, den |-> d * (old + signed)]
    BY <1>7, <1>8 DEF Over
  <2> DEFINE n == old * x + (signed * price) * d
             e == d * (old + signed)
  <2>3. n \in Int /\ e \in Int
    BY <1>1, ProductType
  <2> HIDE DEF n, e
  <2>4. AtMost(Whole(l), Over(sum, old + signed))
        /\ AtMost(Over(sum, old + signed), Whole(h))
    BY <2>1, <2>2, <2>3 DEF AtMost, Whole, n, e
  <2> QED
    BY <2>4 DEF WithinPrices, sum
<1>9. CASE old < 0 /\ signed < 0
  <2> DEFINE m == -old
             q == -signed
  <2>1. m \in Nat /\ q \in Nat /\ ~(old + signed > 0) /\ -(old + signed) = m + q
    BY <1>9
  <2>2. -(old * x + (signed * price) * d) = m * x + (q * price) * d
    BY <1>1
  <2> HIDE DEF m, q
  <2>3. /\ l * (d * (m + q)) <= m * x + (q * price) * d
        /\ m * x + (q * price) * d <= h * (d * (m + q))
    BY <1>1, <1>4, <1>5, <1>6, <2>1, AverageAbove, AverageBelow
  <2>4. Over(sum, old + signed) =
          [num |-> m * x + (q * price) * d, den |-> d * (m + q)]
    BY <1>7, <2>1, <2>2 DEF Over
  <2> DEFINE n == m * x + (q * price) * d
             e == d * (m + q)
  <2>5. n \in Int /\ e \in Int
    BY <1>1, <2>1, ProductType
  <2> HIDE DEF n, e
  <2>6. AtMost(Whole(l), Over(sum, old + signed))
        /\ AtMost(Over(sum, old + signed), Whole(h))
    BY <2>3, <2>4, <2>5 DEF AtMost, Whole, n, e
  <2> QED
    BY <2>6 DEF WithinPrices, sum
<1> QED
  BY <1>8, <1>9 DEF SameSign

(* One trade keeps the entry price of a position where it belongs. *)
EntryBounded(pos) ==
  IF pos.net_quantity = 0
    THEN pos.avg_entry_price = Zero
    ELSE WithinPrices(pos.avg_entry_price)

LEMMA PositionAfterEntry ==
  ASSUME NEW pos \in PositionDetail, NEW trade \in Trade, EntryBounded(pos)
  PROVE  EntryBounded(PositionAfter(pos, trade))
<1> DEFINE old == pos.net_quantity
           signed == SignedQuantity(trade)
           net == old + signed
           avg == pos.avg_entry_price
           entry == EntryPrice(trade, old, net, avg)
<1>1. /\ old \in Int /\ signed \in Int /\ net \in Int /\ avg \in Fraction
      /\ trade.price \in Prices /\ trade.price \in Int
  BY SignedQuantityType DEF PositionDetail
<1>2. /\ PositionAfter(pos, trade).net_quantity = net
      /\ PositionAfter(pos, trade).avg_entry_price = entry
  BY DEF PositionAfter, PositionDetail
<1>3. old # 0 => WithinPrices(avg)
  BY DEF EntryBounded
<1> SUFFICES IF net = 0 THEN entry = Zero ELSE WithinPrices(entry)
  BY <1>2 DEF EntryBounded
<1>4. CASE net = 0
  BY <1>4 DEF EntryPrice
<1>5. CASE net # 0 /\ old = 0
  <2>1. entry = Whole(trade.price)
    BY <1>5 DEF EntryPrice
  <2>2. AtMost(Whole(trade.price), Whole(trade.price))
    BY <1>1 DEF AtMost, Whole
  <2> QED
    BY <1>1, <1>5, <2>1, <2>2 DEF WithinPrices
<1>6. CASE net # 0 /\ old # 0 /\ SameSign(old, signed)
  <2>1. entry = Over(Plus(Times(old, avg), Whole(signed * trade.price)), net)
    BY <1>6 DEF EntryPrice
  <2> QED
    BY <1>1, <1>3, <1>6, <2>1, AverageWithin
<1>7. CASE net # 0 /\ old # 0 /\ ~SameSign(old, signed)
  <2>1. entry = avg
    BY <1>7 DEF EntryPrice
  <2> QED
    BY <1>3, <1>7, <2>1
<1> QED
  BY <1>4, <1>5, <1>6, <1>7

(* The entry price of every open position lies between two prices of the   *)
(* instrument, and a flat position has none: update_position averages,     *)
(* keeps or clears it right in all its branches.                           *)
THEOREM EntryPriceBounded == Spec => []EntryWithinPrices
<1>1. Init => EntryWithinPrices
  BY DEF Init, EntryWithinPrices, EmptyPosition
<1>2. TypeOK /\ EntryWithinPrices /\ [Next]_trackerVars => EntryWithinPrices'
  <2> SUFFICES ASSUME TypeOK, EntryWithinPrices, [Next]_trackerVars
               PROVE  EntryWithinPrices'
    OBVIOUS
  <2>1. \A s \in Symbols : positions[s] \in PositionDetail /\ EntryBounded(positions[s])
    BY DEF TypeOK, EntryWithinPrices, EntryBounded
  <2> SUFFICES ASSUME NEW r \in Symbols
               PROVE  EntryBounded(positions'[r])
    BY DEF EntryWithinPrices, EntryBounded
  <2>2. ASSUME NEW trade \in Trade, update_position(trade)
        PROVE  EntryBounded(positions'[r])
    <3>1. positions'[r] = IF r = trade.symbol
                            THEN PositionAfter(positions[r], trade)
                            ELSE positions[r]
      BY <2>2 DEF update_position, TypeOK
    <3> QED
      BY <2>1, <3>1, PositionAfterEntry
  <2>3. ASSUME NEW s \in Symbols, NEW price \in Prices, set_price(s, price)
        PROVE  EntryBounded(positions'[r])
    <3>1. /\ positions'[r].net_quantity = positions[r].net_quantity
          /\ positions'[r].avg_entry_price = positions[r].avg_entry_price
      BY <2>1, <2>3 DEF set_price, TypeOK, Marked, PositionDetail
    <3> QED
      BY <2>1, <3>1 DEF EntryBounded
  <2>4. ASSUME NEW m \in LotMethods, set_lot_match_method(m)
        PROVE  EntryBounded(positions'[r])
    BY <2>1, <2>4 DEF set_lot_match_method
  <2>5. CASE UNCHANGED trackerVars
    BY <2>1, <2>5 DEF trackerVars
  <2> QED
    BY <2>2, <2>3, <2>4, <2>5 DEF Next
<1> QED
  BY <1>1, <1>2, TypeCorrect, PTL DEF Spec

------------------------------------------------------------------------------
TrailOf(trail, pos) ==
  /\ Len(trail) = pos.trade_count
  /\ \A i \in DOMAIN trail : trail[i].trade_count = i
  /\ trail # << >> =>
       LET latest == trail[Len(trail)]
       IN /\ latest.net_quantity = pos.net_quantity
          /\ latest.avg_entry_price = pos.avg_entry_price
          /\ latest.realized_pnl = pos.realized_pnl

LEMMA TrailExtended ==
  ASSUME NEW trail \in Seq(PositionDetail), NEW pos \in PositionDetail,
         NEW next \in PositionDetail, TrailOf(trail, pos),
         next.trade_count = pos.trade_count + 1
  PROVE  TrailOf(Append(trail, next), next)
<1>1. /\ Len(trail) \in Nat
      /\ Len(Append(trail, next)) = Len(trail) + 1
      /\ DOMAIN trail = 1 .. Len(trail)
      /\ DOMAIN Append(trail, next) = 1 .. Len(trail) + 1
      /\ Append(trail, next)[Len(trail) + 1] = next
      /\ \A i \in 1 .. Len(trail) : Append(trail, next)[i] = trail[i]
  OBVIOUS
<1>2. Len(trail) = pos.trade_count
  BY DEF TrailOf
<1>3. \A i \in DOMAIN Append(trail, next) :
        Append(trail, next)[i].trade_count = i
  BY <1>1, <1>2 DEF TrailOf
<1> QED
  BY <1>1, <1>2, <1>3 DEF TrailOf

(* The audit trail has one snapshot per trade, in order, and its last one  *)
(* agrees with the live position on all that update_position decides.      *)
THEOREM AuditTrailComplete == Spec => []AuditTrail
<1>1. Init => AuditTrail
  BY DEF Init, AuditTrail, EmptyPosition
<1>2. TypeOK /\ AuditTrail /\ [Next]_trackerVars => AuditTrail'
  <2> SUFFICES ASSUME TypeOK, AuditTrail, [Next]_trackerVars
               PROVE  AuditTrail'
    OBVIOUS
  <2>1. \A s \in Symbols : /\ positions[s] \in PositionDetail
                           /\ history[s] \in Seq(PositionDetail)
                           /\ TrailOf(history[s], positions[s])
    BY DEF TypeOK, AuditTrail, TrailOf
  <2> SUFFICES ASSUME NEW r \in Symbols
               PROVE  TrailOf(history'[r], positions'[r])
    BY DEF AuditTrail, TrailOf
  <2>2. ASSUME NEW trade \in Trade, update_position(trade)
        PROVE  TrailOf(history'[r], positions'[r])
    <3> DEFINE next == PositionAfter(positions[r], trade)
    <3>1. CASE r = trade.symbol
      <4>1. positions'[r] = next /\ history'[r] = Append(history[r], next)
        BY <2>2, <3>1 DEF update_position, TypeOK
      <4>2. next \in PositionDetail
        BY <2>1, PositionAfterType
      <4>3. next.trade_count = positions[r].trade_count + 1
        BY <2>1 DEF PositionAfter, PositionDetail
      <4> HIDE DEF next
      <4> QED
        BY <2>1, <4>1, <4>2, <4>3, TrailExtended
    <3>2. CASE r # trade.symbol
      BY <2>1, <2>2, <3>2 DEF update_position, TypeOK
    <3> QED
      BY <3>1, <3>2
  <2>3. ASSUME NEW s \in Symbols, NEW price \in Prices, set_price(s, price)
        PROVE  TrailOf(history'[r], positions'[r])
    <3>1. /\ positions'[r].net_quantity = positions[r].net_quantity
          /\ positions'[r].avg_entry_price = positions[r].avg_entry_price
          /\ positions'[r].realized_pnl = positions[r].realized_pnl
          /\ positions'[r].trade_count = positions[r].trade_count
          /\ history' = history
      BY <2>1, <2>3 DEF set_price, TypeOK, Marked, PositionDetail
    <3> QED
      BY <2>1, <3>1 DEF TrailOf
  <2>4. ASSUME NEW m \in LotMethods, set_lot_match_method(m)
        PROVE  TrailOf(history'[r], positions'[r])
    BY <2>1, <2>4 DEF set_lot_match_method
  <2>5. CASE UNCHANGED trackerVars
    BY <2>1, <2>5 DEF trackerVars
  <2> QED
    BY <2>2, <2>3, <2>4, <2>5 DEF Next
<1> QED
  BY <1>1, <1>2, TypeCorrect, PTL DEF Spec

(* No step of the tracker rewrites or drops a snapshot of the trail. *)
THEOREM TrailNeverRewritten == Spec => TrailAppendOnly
<1>1. TypeOK /\ [Next]_trackerVars =>
        [\A s \in Symbols : \A i \in DOMAIN history[s] :
           i \in DOMAIN history'[s] /\ history'[s][i] = history[s][i]]_trackerVars
  <2> SUFFICES ASSUME TypeOK, Next, NEW s \in Symbols, NEW i \in DOMAIN history[s]
               PROVE  i \in DOMAIN history'[s] /\ history'[s][i] = history[s][i]
    OBVIOUS
  <2>1. history[s] \in Seq(PositionDetail)
    BY DEF TypeOK
  <2>2. ASSUME NEW trade \in Trade, update_position(trade)
        PROVE  i \in DOMAIN history'[s] /\ history'[s][i] = history[s][i]
    <3>1. CASE s = trade.symbol
      <4>1. history'[s] = Append(history[s], PositionAfter(positions[s], trade))
        BY <2>2, <3>1 DEF update_position, TypeOK
      <4> QED
        BY <2>1, <4>1
    <3>2. CASE s # trade.symbol
      BY <2>2, <3>2 DEF update_position, TypeOK
    <3> QED
      BY <3>1, <3>2
  <2> QED
    BY <2>2 DEF Next, set_price, set_lot_match_method
<1> QED
  BY <1>1, TypeCorrect, PTL DEF Spec, TrailAppendOnly

------------------------------------------------------------------------------
(* The tracker against the cash *)

(* A side and the quantity of the trade. *)
LEMMA SignedSplits ==
  ASSUME NEW trade \in Trade
  PROVE  /\ -Sign(SignedQuantity(trade)) * trade.quantity = -SignedQuantity(trade)
         /\ SignedQuantity(trade) < 0 => SignedQuantity(trade) = -trade.quantity
         /\ SignedQuantity(trade) > 0 => SignedQuantity(trade) = trade.quantity
<1>1. /\ trade.quantity \in Nat \ {0}
      /\ SignedQuantity(trade) = trade.quantity \/ SignedQuantity(trade) = -trade.quantity
  BY SignedQuantityType
<1>2. CASE SignedQuantity(trade) = trade.quantity
  <2>1. Sign(SignedQuantity(trade)) = 1
    BY <1>1, <1>2 DEF Sign
  <2>2. -1 * trade.quantity = -trade.quantity
    BY <1>1
  <2> QED
    BY <1>1, <1>2, <2>1, <2>2
<1>3. CASE SignedQuantity(trade) = -trade.quantity
  <2>1. Sign(SignedQuantity(trade)) = -1
    BY <1>1, <1>3 DEF Sign
  <2> QED
    BY <1>1, <1>3, <2>1
<1> QED
  BY <1>1, <1>2, <1>3

(* What a trade that reduces a position closes, unless the position is     *)
(* long and smaller than the trade, is the whole trade.                    *)
LEMMA WholeTradeCloses ==
  ASSUME NEW trade \in Trade, NEW n \in Int, NEW m \in Int,
         m = n + SignedQuantity(trade), -Word <= n, n < Word, n # 0, m # 0,
         ~SameSign(SignedQuantity(trade), m),
         ~(SignedQuantity(trade) < 0 /\ m > 0 /\ m < trade.quantity)
  PROVE  Sign(m) * ReducedQuantity(trade, m) = -SignedQuantity(trade)
<1> DEFINE s == SignedQuantity(trade)
           q == trade.quantity
<1>1. s \in Int /\ s # 0 /\ q \in Nat \ {0} /\ Word \in Nat \ {0}
  BY SignedQuantityType, WordAssumption
<1>2. CASE m > 0
  <2>1. s < 0 /\ s = -q /\ q <= m /\ m < Word
    BY <1>1, <1>2, SignedSplits DEF SameSign
  <2>2. AsUnsigned(m) = m
    BY <1>1, <1>2, <2>1 DEF AsUnsigned
  <2>3. ReducedQuantity(trade, m) = q /\ Sign(m) = 1
    BY <1>1, <1>2, <2>1, <2>2 DEF ReducedQuantity, Smaller, Sign
  <2> QED
    BY <1>1, <2>1, <2>3
<1>3. CASE m < 0
  <2>1. s > 0 /\ s = q /\ m = n + q /\ -Word <= m
    BY <1>1, <1>3, SignedSplits DEF SameSign
  <2>2. AsUnsigned(m) = m + Word
    BY <1>1, <1>3, <2>1 DEF AsUnsigned
  <2>3. q <= m + Word
    BY <1>1, <2>1
  <2>4. ReducedQuantity(trade, m) = q /\ Sign(m) = -1
    BY <1>1, <1>3, <2>2, <2>3 DEF ReducedQuantity, Smaller, Sign
  <2> QED
    BY <1>1, <2>1, <2>4
<1> QED
  BY <1>2, <1>3

(* In parts of a whole split into d: n held at an entry price of A balance *)
(* a profit of R and the cash; a trade of s at the price p makes them m at *)
(* E; and it earns the gain of what it closes.                             *)
BalancedAt(R, cash, d, n, A) == R = cash * d + n * A

WorthAfter(E, m, d, n, A, s, p) ==
  m * E = IF m = 0 THEN 0
          ELSE IF n = 0 THEN m * (p * d)
          ELSE IF SameSign(n, s) THEN n * A + (s * p) * d
          ELSE m * A

EarnedBy(gain, d, n, A, s, p) ==
  gain = IF n = 0 \/ SameSign(n, s) THEN 0 ELSE (-s) * (p * d - A)

(* The profit of a trade in common units. *)
LEMMA GainUnits ==
  ASSUME NEW trade \in Trade, NEW avg \in Fraction, NEW d \in Nat \ {0},
         NEW A \in Int, InUnits(avg, d, A), NEW k \in Int
  PROVE  /\ trade.price * d - A \in Int
         /\ PriceGain(trade, avg) \in Fraction
         /\ Times(k, PriceGain(trade, avg)) \in Fraction
         /\ InUnits(Times(k, PriceGain(trade, avg)), d, k * (trade.price * d - A))
<1>1. trade.price \in Int
  BY SignedQuantityType
<1>2. trade.price * d \in Int /\ InUnits(Whole(trade.price), d, trade.price * d)
  <2>1. d \in Int
    OBVIOUS
  <2> QED
    BY <1>1, <2>1, ProductType, UnitsWhole
<1>3. Whole(trade.price) \in Fraction
  BY <1>1, WholeType
<1>4. trade.price * d - A \in Int
  BY <1>2
<1>5. /\ PriceGain(trade, avg) \in Fraction
      /\ InUnits(PriceGain(trade, avg), d, trade.price * d - A)
  BY <1>2, <1>3, MinusType, UnitsMinus DEF PriceGain
<1>6. Times(k, PriceGain(trade, avg)) \in Fraction
  BY <1>5, TimesType
<1>7. InUnits(Times(k, PriceGain(trade, avg)), d, k * (trade.price * d - A))
  BY <1>4, <1>5, UnitsTimes
<1> QED
  BY <1>4, <1>5, <1>6, <1>7

LEMMA ClosingUnits ==
  ASSUME NEW trade \in Trade, NEW avg \in Fraction, NEW d \in Nat \ {0},
         NEW A \in Int, InUnits(avg, d, A), NEW k \in Int
  PROVE  InUnits(Minus(Times(k, PriceGain(trade, avg)), Whole(trade.fees)), d,
                 k * (trade.price * d - A) - trade.fees * d)
<1>1. trade.fees \in Int /\ trade.fees * d \in Int
  BY SignedQuantityType, ProductType
<1>2. Whole(trade.fees) \in Fraction /\ InUnits(Whole(trade.fees), d, trade.fees * d)
  BY <1>1, WholeType, UnitsWhole
<1>3. /\ trade.price * d - A \in Int
      /\ Times(k, PriceGain(trade, avg)) \in Fraction
      /\ InUnits(Times(k, PriceGain(trade, avg)), d, k * (trade.price * d - A))
  BY GainUnits
<1>4. k * (trade.price * d - A) \in Int
  BY <1>3, ProductType
<1> QED
  BY <1>1, <1>2, <1>3, <1>4, UnitsMinus

LEMMA ProfitUnits ==
  ASSUME NEW trade \in Trade, NEW avg \in Fraction, NEW d \in Nat \ {0},
         NEW A \in Int, InUnits(avg, d, A),
         NEW n \in Int, NEW m \in Int, m = n + SignedQuantity(trade),
         -Word <= n, n < Word,
         ~(SignedQuantity(trade) < 0 /\ m > 0 /\ m < trade.quantity)
  PROVE  InUnits(realized_pnl_for_trade(trade, m, avg), d,
                 IF n = 0 THEN 0
                 ELSE IF m # 0 /\ SameSign(SignedQuantity(trade), m) THEN -(trade.fees * d)
                 ELSE (-SignedQuantity(trade)) * (trade.price * d - A) - trade.fees * d)
<1> DEFINE s == SignedQuantity(trade)
           profit == realized_pnl_for_trade(trade, m, avg)
<1>1. /\ s \in Int /\ s # 0 /\ -s \in Int /\ trade.fees \in Int /\ -trade.fees \in Int
      /\ (m = s) <=> (n = 0)
  BY SignedQuantityType
<1>2. CASE n = 0
  <2>1. profit = Whole(0)
    BY <1>1, <1>2 DEF realized_pnl_for_trade, Zero
  <2>2. InUnits(Whole(0), d, 0 * d) /\ 0 * d = 0
    BY UnitsWhole
  <2> QED
    BY <1>2, <2>1, <2>2
<1>3. CASE n # 0 /\ m = 0
  <2>1. profit = Minus(Times(-Sign(s) * trade.quantity, PriceGain(trade, avg)),
                       Whole(trade.fees))
    <3>1. m # s /\ m = 0 /\ ~SameSign(s, m)
      BY <1>1, <1>3 DEF SameSign
    <3> QED
      BY Zenon, <3>1 DEF realized_pnl_for_trade
  <2>2. -Sign(s) * trade.quantity = -s
    BY SignedSplits
  <2> QED
    BY <1>1, <1>3, <2>1, <2>2, ClosingUnits
<1>4. CASE n # 0 /\ m # 0 /\ SameSign(s, m)
  <2>1. profit = Whole(-trade.fees)
    BY <1>1, <1>4 DEF realized_pnl_for_trade
  <2>2. InUnits(Whole(-trade.fees), d, (-trade.fees) * d)
    BY <1>1, UnitsWhole
  <2>3. (-trade.fees) * d = -(trade.fees * d)
    BY <1>1, SMT
  <2> QED
    BY <1>4, <2>1, <2>2, <2>3
<1>5. CASE n # 0 /\ m # 0 /\ ~SameSign(s, m)
  <2>1. profit = Minus(Times(Sign(m) * ReducedQuantity(trade, m), PriceGain(trade, avg)),
                       Whole(trade.fees))
    BY <1>1, <1>5 DEF realized_pnl_for_trade
  <2>2. Sign(m) * ReducedQuantity(trade, m) = -s
    BY <1>5, WholeTradeCloses
  <2> QED
    BY <1>1, <1>5, <2>1, <2>2, ClosingUnits
<1> QED
  BY <1>2, <1>3, <1>4, <1>5

LEMMA UnitsUnique ==
  ASSUME NEW a \in Fraction, NEW d \in Nat \ {0}, NEW x \in Int, NEW y \in Int,
         InUnits(a, d, x), InUnits(a, d, y)
  PROVE  x = y
  BY UnitsSame DEF Same

(* What is held and what is traded, in common units. *)
LEMMA CostUnits ==
  ASSUME NEW avg \in Fraction, NEW d \in Nat \ {0}, NEW A \in Int, InUnits(avg, d, A),
         NEW n \in Int, NEW x \in Int
  PROVE  /\ n * A + x * d \in Int
         /\ Plus(Times(n, avg), Whole(x)) \in Fraction
         /\ InUnits(Plus(Times(n, avg), Whole(x)), d, n * A + x * d)
<1>1. n * A \in Int /\ x * d \in Int /\ n * A + x * d \in Int
  <2>1. d \in Int
    OBVIOUS
  <2> QED
    BY <2>1, ProductType
<1>2. Times(n, avg) \in Fraction /\ InUnits(Times(n, avg), d, n * A)
  BY TimesType, UnitsTimes
<1>3. Whole(x) \in Fraction /\ InUnits(Whole(x), d, x * d)
  BY WholeType, UnitsWhole
<1> QED
  BY <1>1, <1>2, <1>3, PlusType, UnitsPlus

LEMMA EntryUnits ==
  ASSUME NEW trade \in Trade, NEW avg \in Fraction, NEW d \in Nat \ {0},
         NEW A \in Int, InUnits(avg, d, A), NEW E \in Int,
         NEW n \in Int, NEW m \in Int, m = n + SignedQuantity(trade),
         InUnits(EntryPrice(trade, n, m, avg), d, E)
  PROVE  WorthAfter(E, m, d, n, A, SignedQuantity(trade), trade.price)
<1> DEFINE s == SignedQuantity(trade)
           entry == EntryPrice(trade, n, m, avg)
<1>1. /\ s \in Int /\ trade.price \in Int /\ s * trade.price \in Int /\ d \in Int
      /\ trade.price * d \in Int
  BY SignedQuantityType, ProductType
<1>2. CASE m = 0
  <2>1. 0 * E = 0
    OBVIOUS
  <2> QED
    BY <1>2, <2>1 DEF WorthAfter
<1>3. CASE m # 0 /\ n = 0
  <2>1. entry = Whole(trade.price)
    BY <1>3 DEF EntryPrice
  <2>2. InUnits(entry, d, trade.price * d) /\ entry \in Fraction
    <3>1. /\ InUnits(Whole(trade.price), d, trade.price * d)
          /\ Whole(trade.price) \in Fraction
      BY <1>1, UnitsWhole, WholeType
    <3> QED
      BY <2>1, <3>1
  <2>3. E = trade.price * d
    BY <1>1, <2>2, UnitsUnique
  <2> QED
    BY <1>3, <2>3 DEF WorthAfter
<1>4. CASE m # 0 /\ n # 0 /\ SameSign(n, s)
  <2>1. entry = Over(Plus(Times(n, avg), Whole(s * trade.price)), m)
    BY <1>4 DEF EntryPrice
  <2>2. m * E = n * A + (s * trade.price) * d
    <3> DEFINE cost == Plus(Times(n, avg), Whole(s * trade.price))
               y == n * A + (s * trade.price) * d
    <3>1. cost \in Fraction /\ y \in Int /\ InUnits(cost, d, y)
      BY <1>1, CostUnits
    <3>2. m # 0 /\ InUnits(Over(cost, m), d, E)
      BY <1>4, <2>1
    <3> HIDE DEF cost, y
    <3>3. y = m * E
      BY <3>1, <3>2, UnitsOver
    <3> QED
      BY <3>3 DEF y
  <2> QED
    BY <1>4, <2>2 DEF WorthAfter
<1>5. CASE m # 0 /\ n # 0 /\ ~SameSign(n, s)
  <2>1. entry = avg
    BY <1>5 DEF EntryPrice
  <2>2. E = A
    BY <2>1, UnitsUnique
  <2> QED
    BY <1>5, <2>2 DEF WorthAfter
<1> QED
  BY <1>2, <1>3, <1>4, <1>5

(* A balance in common units. *)
LEMMA BalanceUnits ==
  ASSUME NEW realized \in Fraction, NEW avg \in Fraction, NEW cash \in Int, NEW n \in Int,
         NEW d \in Nat \ {0}, NEW R \in Int, InUnits(realized, d, R),
         NEW A \in Int, InUnits(avg, d, A)
  PROVE  Same(realized, Plus(Whole(cash), Times(n, avg))) <=> BalancedAt(R, cash, d, n, A)
<1>1. n * A \in Int /\ cash * d \in Int /\ cash * d + n * A \in Int
  <2>1. d \in Int
    OBVIOUS
  <2> QED
    BY <2>1, ProductType
<1>2. Times(n, avg) \in Fraction /\ InUnits(Times(n, avg), d, n * A)
  BY TimesType, UnitsTimes
<1>3. Whole(cash) \in Fraction /\ InUnits(Whole(cash), d, cash * d)
  BY WholeType, UnitsWhole
<1>4. /\ Plus(Whole(cash), Times(n, avg)) \in Fraction
      /\ InUnits(Plus(Whole(cash), Times(n, avg)), d, cash * d + n * A)
  BY <1>1, <1>2, <1>3, PlusType, UnitsPlus
<1> QED
  BY <1>1, <1>4, UnitsSame DEF BalancedAt

LEMMA PlusWholeUnits ==
  ASSUME NEW a \in Fraction, NEW d \in Nat \ {0}, NEW x \in Int, InUnits(a, d, x),
         NEW n \in Int
  PROVE  /\ Plus(a, Whole(n)) \in Fraction /\ x + n * d \in Int
         /\ InUnits(Plus(a, Whole(n)), d, x + n * d)
<1>1. n * d \in Int
  <2>1. d \in Int
    OBVIOUS
  <2> QED
    BY <2>1, ProductType
<1>2. Whole(n) \in Fraction /\ InUnits(Whole(n), d, n * d)
  BY WholeType, UnitsWhole
<1> QED
  BY <1>1, <1>2, PlusType, UnitsPlus

(* A trade keeps the balance. *)
LEMMA TradeBalances ==
  ASSUME NEW n \in Int, NEW m \in Int, NEW s \in Int, m = n + s, s # 0,
         NEW A \in Int, NEW p \in Int, NEW d \in Int, NEW E \in Int,
         NEW R \in Int, NEW gain \in Int, NEW cash \in Int,
         BalancedAt(R, cash, d, n, A), WorthAfter(E, m, d, n, A, s, p),
         EarnedBy(gain, d, n, A, s, p)
  PROVE  BalancedAt(R + gain, cash - s * p, d, m, E)
<1> DEFINE P == p * d
<1>1. P \in Int /\ s * P \in Int /\ n * A \in Int /\ s * A \in Int /\ cash * d \in Int
      /\ (s * p) * d = s * P /\ (cash - s * p) * d = cash * d - s * P
  BY ProductType, SMT
<1>2. CASE n = 0
  <2>1. m = s /\ m # 0 /\ m * E = s * P /\ n * A = 0 /\ gain = 0
    BY <1>2 DEF WorthAfter, EarnedBy
  <2> QED
    BY <1>1, <2>1 DEF BalancedAt
<1>3. CASE n # 0 /\ SameSign(n, s)
  <2>1. m # 0 /\ gain = 0
    BY <1>3 DEF SameSign, EarnedBy
  <2>2. m * E = n * A + (s * p) * d
    BY <1>3, <2>1 DEF WorthAfter
  <2> QED
    BY <1>1, <2>1, <2>2 DEF BalancedAt
<1>4. CASE n # 0 /\ ~SameSign(n, s)
  <2>1. gain = (-s) * (P - A)
    BY <1>4 DEF EarnedBy
  <2>2. (-s) * (P - A) = s * A - s * P
    BY <1>1, SMT
  <2>3. (n + s) * A = n * A + s * A
    BY SMT
  <2>4. m * E = m * A
    <3>1. m = 0 => m * A = 0
      OBVIOUS
    <3> QED
      BY <1>4, <3>1 DEF WorthAfter
  <2> QED
    BY <1>1, <2>1, <2>2, <2>3, <2>4 DEF BalancedAt
<1> QED
  BY <1>2, <1>3, <1>4

(* The tracker balances after a trade if it balanced before.               *)
LEMMA TrackerBalances ==
  ASSUME NEW pos \in PositionDetail, NEW trade \in Trade, NEW cash \in Int,
         NEW charged \in Nat, NEW n \in Int, n = pos.net_quantity,
         NEW m \in Int, m = n + SignedQuantity(trade),
         -Word <= n, n < Word,
         ~SameSign(-n, m),
         ~(SignedQuantity(trade) < 0 /\ m > 0 /\ m < trade.quantity),
         Same(Plus(pos.realized_pnl, Whole(charged)),
              Plus(Whole(cash), Times(n, pos.avg_entry_price)))
  PROVE  Same(Plus(PositionAfter(pos, trade).realized_pnl,
                   Whole(charged + (IF n = 0 THEN 0 ELSE trade.fees))),
              Plus(Whole(cash - SignedQuantity(trade) * trade.price),
                   Times(m, PositionAfter(pos, trade).avg_entry_price)))
<1> DEFINE s == SignedQuantity(trade)
           p == trade.price
           avg == pos.avg_entry_price
           realized == pos.realized_pnl
           profit == realized_pnl_for_trade(trade, m, avg)
           entry == EntryPrice(trade, n, m, avg)
           fee == IF n = 0 THEN 0 ELSE trade.fees
<1>1. /\ s \in Int /\ s # 0 /\ p \in Int /\ trade.fees \in Nat /\ fee \in Nat
      /\ s * p \in Int /\ charged \in Int /\ charged + fee \in Int
  BY SignedQuantityType, ProductType
<1>2. cash - s * p \in Int
  BY <1>1
<1>3. /\ avg \in Fraction /\ realized \in Fraction
      /\ profit \in Fraction /\ entry \in Fraction /\ Plus(realized, profit) \in Fraction
  <2>1. avg \in Fraction /\ realized \in Fraction
    BY DEF PositionDetail
  <2> QED
    BY <2>1, RealizedType, EntryPriceType, PlusType
<1>4. /\ PositionAfter(pos, trade).realized_pnl = Plus(realized, profit)
      /\ PositionAfter(pos, trade).avg_entry_price = entry
  BY DEF PositionAfter, PositionDetail
<1>5. PICK d \in Nat \ {0}, R \in Int, A \in Int, E \in Int :
        InUnits(realized, d, R) /\ InUnits(avg, d, A) /\ InUnits(entry, d, E)
  BY <1>3, FourCommonUnits
<1> DEFINE gain == IF n = 0 THEN 0
                   ELSE IF m # 0 /\ SameSign(s, m) THEN -(trade.fees * d)
                   ELSE (-s) * (p * d - A) - trade.fees * d
<1>6. InUnits(profit, d, gain)
  BY <1>3, <1>5, ProfitUnits
<1>7. /\ d \in Int /\ p * d \in Int /\ trade.fees * d \in Int /\ fee * d \in Int
      /\ p * d - A \in Int /\ -s \in Int
      /\ (-s) * (p * d - A) \in Int
      /\ charged * d \in Int /\ (charged + fee) * d \in Int
      /\ (charged + fee) * d = charged * d + fee * d
  <2>1. d \in Int /\ -s \in Int
    BY <1>1
  <2>2. /\ p * d \in Int /\ trade.fees * d \in Int /\ fee * d \in Int
        /\ charged * d \in Int /\ (charged + fee) * d \in Int
    BY <1>1, <2>1, ProductType
  <2>3. p * d - A \in Int
    BY <2>2
  <2>4. (-s) * (p * d - A) \in Int
    BY <2>1, <2>3, ProductType
  <2>5. (charged + fee) * d = charged * d + fee * d
    BY <1>1, <2>1, SMT
  <2> QED
    BY <2>1, <2>2, <2>3, <2>4, <2>5
<1>8. gain \in Int
  BY <1>7
<1>9. WorthAfter(E, m, d, n, A, s, p)
  BY <1>3, <1>5, EntryUnits
<1>10. EarnedBy(gain + fee * d, d, n, A, s, p)
  <2>1. CASE n = 0
    BY <2>1, <1>7 DEF EarnedBy
  <2>2. CASE n # 0 /\ SameSign(n, s)
    <3>1. m # 0 /\ SameSign(s, m)
      BY <2>2, <1>1 DEF SameSign
    <3>2. gain = -(trade.fees * d) /\ fee = trade.fees
      BY <2>2, <3>1
    <3> HIDE DEF gain, fee, s
    <3> QED
      BY <2>2, <3>2, <1>7 DEF EarnedBy
  <2>3. CASE n # 0 /\ ~SameSign(n, s)
    <3>1. ~(m # 0 /\ SameSign(s, m))
      BY <2>3, <1>1 DEF SameSign
    <3> QED
      BY <2>3, <3>1, <1>7 DEF EarnedBy
  <2> QED
    BY <2>1, <2>2, <2>3
<1> HIDE DEF gain, profit, entry, realized, avg, fee, s, p
<1>11. /\ Plus(realized, Whole(charged)) \in Fraction /\ R + charged * d \in Int
       /\ InUnits(Plus(realized, Whole(charged)), d, R + charged * d)
  BY <1>1, <1>3, <1>5, PlusWholeUnits
<1>12. BalancedAt(R + charged * d, cash, d, n, A)
  <2>1. Same(Plus(realized, Whole(charged)), Plus(Whole(cash), Times(n, avg)))
    BY DEF realized, avg
  <2> QED
    BY <1>3, <1>5, <1>11, <2>1, BalanceUnits
<1>13. InUnits(Plus(realized, profit), d, R + gain) /\ R + gain \in Int
  BY <1>3, <1>5, <1>6, <1>8, UnitsPlus
<1>14. /\ Plus(Plus(realized, profit), Whole(charged + fee)) \in Fraction
       /\ (R + gain) + (charged + fee) * d \in Int
       /\ InUnits(Plus(Plus(realized, profit), Whole(charged + fee)), d,
                  (R + gain) + (charged + fee) * d)
  BY <1>1, <1>3, <1>5, <1>13, PlusWholeUnits
<1>15. BalancedAt((R + charged * d) + (gain + fee * d), cash - s * p, d, m, E)
  <2>1. m = n + s
    BY DEF s
  <2>2. gain + fee * d \in Int
    BY <1>7, <1>8
  <2> HIDE DEF gain
  <2> QED
    BY <1>1, <1>7, <1>9, <1>10, <1>11, <1>12, <2>1, <2>2, TradeBalances
<1>16. BalancedAt((R + gain) + (charged + fee) * d, cash - s * p, d, m, E)
  <2>1. (R + gain) + (charged + fee) * d = (R + charged * d) + (gain + fee * d)
    BY <1>7, <1>8
  <2> QED
    BY <1>15, <2>1
<1>17. Same(Plus(Plus(realized, profit), Whole(charged + fee)),
            Plus(Whole(cash - s * p), Times(m, entry)))
  BY <1>2, <1>3, <1>5, <1>14, <1>16, BalanceUnits
<1> QED
  BY <1>4, <1>17 DEF s, p, fee

------------------------------------------------------------------------------
(* The client's arithmetic is the tracker's *)

LEMMA ClientArithmetic ==
  /\ \A n : Client!Whole(n) = Whole(n)
  /\ Client!Zero = Zero
  /\ \A a, b : Client!Plus(a, b) = Plus(a, b)
  /\ \A a, b : Client!Minus(a, b) = Minus(a, b)
  /\ \A k, a : Client!Times(k, a) = Times(k, a)
  /\ \A a, k : Client!Over(a, k) = Over(a, k)
  /\ Client!Fraction = Fraction
<1>1. \A n : Client!Whole(n) = Whole(n)
  BY DEF Client!Whole, Whole
<1>2. Client!Zero = Zero
  BY <1>1 DEF Client!Zero, Zero
<1>3. \A a, b : Client!Plus(a, b) = Plus(a, b)
  BY DEF Client!Plus, Plus
<1>4. \A a, b : Client!Minus(a, b) = Minus(a, b)
  <2>1. \A a : Client!Negated(a) = Negated(a)
    BY DEF Client!Negated, Negated
  <2> QED
    BY <1>3, <2>1 DEF Client!Minus, Minus
<1>5. \A k, a : Client!Times(k, a) = Times(k, a)
  BY DEF Client!Times, Times
<1>6. \A a, k : Client!Over(a, k) = Over(a, k)
  BY DEF Client!Over, Over
<1>7. Client!Fraction = Fraction
  BY DEF Client!Fraction, Fraction
<1> QED
  BY <1>1, <1>2, <1>3, <1>4, <1>5, <1>6, <1>7

LEMMA ClientTrading ==
  /\ \A trade : Client!SignedQuantity(trade) = SignedQuantity(trade)
  /\ \A n : Client!Sign(n) = Sign(n)
  /\ \A n : Client!Abs(n) = Abs(n)
  /\ \A a, b : Client!Smaller(a, b) = Smaller(a, b)
  /\ \A a, b : Client!SameSign(a, b) = SameSign(a, b)
<1>1. \A trade : Client!SignedQuantity(trade) = SignedQuantity(trade)
  BY DEF Client!SignedQuantity, SignedQuantity, Client!side_sign, side_sign
<1>2. /\ \A n : Client!Sign(n) = Sign(n)
      /\ \A n : Client!Abs(n) = Abs(n)
      /\ \A a, b : Client!Smaller(a, b) = Smaller(a, b)
  BY DEF Client!Sign, Sign, Client!Abs, Abs, Client!Smaller, Smaller
<1>3. \A a, b : Client!SameSign(a, b) = SameSign(a, b)
  BY DEF Client!SameSign, SameSign
<1> QED
  BY <1>1, <1>2, <1>3

(* The fields of a position of the client. *)
LEMMA ClientPositionType ==
  ASSUME NEW pos \in Client!Position
  PROVE  /\ pos.known \in BOOLEAN /\ pos.net_quantity \in Int
         /\ pos.avg_entry_price \in Fraction /\ pos.realized_pnl \in Fraction
         /\ pos.unrealized_pnl \in Fraction /\ pos.current_price \in Nat
         /\ pos.trade_count \in Nat
  BY ClientArithmetic DEF Client!Position

(* What a known position gains by a trade. *)
LEMMA ClosedGainOf ==
  ASSUME NEW pos \in Client!Position, NEW trade \in Trade
  PROVE  Client!ClosedGain(pos, trade) =
           IF pos.net_quantity = 0 THEN Zero
           ELSE Times(Sign(pos.net_quantity)
                        * Smaller(trade.quantity, Abs(pos.net_quantity)),
                      PriceGain(trade, pos.avg_entry_price))
<1>1. trade.quantity \in Nat \ {0} /\ pos.net_quantity \in Int
  BY SignedQuantityType, ClientPositionType
<1>2. Smaller(trade.quantity, Abs(pos.net_quantity)) > 0 <=> pos.net_quantity # 0
  BY <1>1 DEF Smaller, Abs
<1>3. Client!ClosedGain(pos, trade) =
        IF Smaller(trade.quantity, Abs(pos.net_quantity)) > 0
          THEN Times(Sign(pos.net_quantity)
                       * Smaller(trade.quantity, Abs(pos.net_quantity)),
                     PriceGain(trade, pos.avg_entry_price))
          ELSE Zero
  BY ClientArithmetic, ClientTrading DEF Client!ClosedGain, PriceGain
<1> QED
  BY <1>2, <1>3

LEMMA AverageEntryOf ==
  ASSUME NEW pos \in Client!Position, NEW trade \in Trade,
         NEW n \in Int, n = pos.net_quantity,
         NEW m \in Int, m = n + SignedQuantity(trade)
  PROVE  Client!AverageEntry(pos, trade) =
           IF m = 0 THEN Zero
           ELSE IF n = 0 THEN Whole(trade.price)
           ELSE IF SameSign(n, SignedQuantity(trade))
             THEN Over(Plus(Times(Abs(n), pos.avg_entry_price),
                            Whole(trade.quantity * trade.price)), Abs(m))
           ELSE pos.avg_entry_price
<1> DEFINE average == Over(Plus(Times(Abs(n), pos.avg_entry_price),
                                Whole(trade.quantity * trade.price)), Abs(m))
<1>1. Client!AverageEntry(pos, trade) =
        CASE m = 0 -> Zero
          [] m # 0 /\ n = 0 -> Whole(trade.price)
          [] m # 0 /\ n # 0 /\ SameSign(n, SignedQuantity(trade)) -> average
          [] OTHER -> pos.avg_entry_price
  BY ClientArithmetic, ClientTrading DEF Client!AverageEntry
<1> HIDE DEF average
<1>2. Client!AverageEntry(pos, trade) =
        IF m = 0 THEN Zero
        ELSE IF n = 0 THEN Whole(trade.price)
        ELSE IF SameSign(n, SignedQuantity(trade)) THEN average
        ELSE pos.avg_entry_price
  BY <1>1
<1> QED
  BY <1>2 DEF average

(* The unrealised profit a position shows is that of its last price. *)
Valued(pos) ==
  pos.unrealized_pnl =
    IF pos.net_quantity = 0 THEN Zero
    ELSE Times(Sign(pos.net_quantity) * Abs(pos.net_quantity),
               Minus(Whole(pos.current_price), pos.avg_entry_price))

LEMMA RefreshedOf ==
  ASSUME NEW pos \in Client!Position
  PROVE  /\ Client!Refreshed(pos) \in Client!Position
         /\ Client!Refreshed(pos).known = pos.known
         /\ Client!Refreshed(pos).net_quantity = pos.net_quantity
         /\ Client!Refreshed(pos).avg_entry_price = pos.avg_entry_price
         /\ Client!Refreshed(pos).realized_pnl = pos.realized_pnl
         /\ Client!Refreshed(pos).current_price = pos.current_price
         /\ Client!Refreshed(pos).trade_count = pos.trade_count
         /\ Valued(Client!Refreshed(pos))
<1> DEFINE gain == IF pos.net_quantity = 0 THEN Zero
                   ELSE Times(Sign(pos.net_quantity) * Abs(pos.net_quantity),
                              Minus(Whole(pos.current_price), pos.avg_entry_price))
<1>1. gain \in Fraction
  <2>1. Sign(pos.net_quantity) * Abs(pos.net_quantity) \in Int
    <3>1. Sign(pos.net_quantity) \in Int /\ Abs(pos.net_quantity) \in Int
      BY ClientPositionType DEF Sign, Abs
    <3> QED
      BY <3>1, ProductType
  <2>2. Minus(Whole(pos.current_price), pos.avg_entry_price) \in Fraction
    <3>1. Whole(pos.current_price) \in Fraction /\ pos.avg_entry_price \in Fraction
      BY ClientPositionType, WholeType
    <3> QED
      BY <3>1, MinusType
  <2> QED
    BY <2>1, <2>2, TimesType, ZeroType
<1>2. Client!Refreshed(pos) = [pos EXCEPT !.unrealized_pnl = gain]
  BY ClientArithmetic, ClientTrading DEF Client!Refreshed
<1> HIDE DEF gain
<1>3. gain \in Client!Fraction
  BY <1>1, ClientArithmetic
<1>4. /\ Client!Refreshed(pos) \in Client!Position
      /\ Client!Refreshed(pos).known = pos.known
      /\ Client!Refreshed(pos).net_quantity = pos.net_quantity
      /\ Client!Refreshed(pos).avg_entry_price = pos.avg_entry_price
      /\ Client!Refreshed(pos).realized_pnl = pos.realized_pnl
      /\ Client!Refreshed(pos).current_price = pos.current_price
      /\ Client!Refreshed(pos).trade_count = pos.trade_count
      /\ Client!Refreshed(pos).unrealized_pnl = gain
  BY <1>2, <1>3 DEF Client!Position
<1>5. Valued(Client!Refreshed(pos))
  BY <1>4 DEF Valued, gain
<1> QED
  BY <1>4, <1>5

LEMMA AverageEntryType ==
  ASSUME NEW pos \in Client!Position, NEW trade \in Trade
  PROVE  Client!AverageEntry(pos, trade) \in Fraction
<1> DEFINE n == pos.net_quantity
           m == n + SignedQuantity(trade)
           cost == Plus(Times(Abs(n), pos.avg_entry_price),
                        Whole(trade.quantity * trade.price))
<1>1. /\ n \in Int /\ m \in Int /\ pos.avg_entry_price \in Fraction
      /\ trade.quantity * trade.price \in Int /\ trade.price \in Int
      /\ Abs(n) \in Int /\ Abs(m) \in Int /\ (m # 0 => Abs(m) # 0)
  BY ClientPositionType, SignedQuantityType, ProductType DEF Abs
<1>2. cost \in Fraction
  BY <1>1, TimesType, WholeType, PlusType
<1>3. m # 0 => Over(cost, Abs(m)) \in Fraction
  <2> HIDE DEF cost, m
  <2> QED
    BY <1>1, <1>2, OverType
<1>4. Whole(trade.price) \in Fraction
  BY <1>1, WholeType
<1> QED
  BY <1>1, <1>3, <1>4, ZeroType, AverageEntryOf

LEMMA ClosedGainType ==
  ASSUME NEW pos \in Client!Position, NEW trade \in Trade
  PROVE  Client!ClosedGain(pos, trade) \in Fraction
<1>1. /\ pos.net_quantity \in Int /\ pos.avg_entry_price \in Fraction
      /\ trade.quantity \in Int /\ trade.price \in Int
  BY ClientPositionType, SignedQuantityType
<1>2. /\ Sign(pos.net_quantity) \in Int
      /\ Smaller(trade.quantity, Abs(pos.net_quantity)) \in Int
  BY <1>1 DEF Sign, Smaller, Abs
<1>3. PriceGain(trade, pos.avg_entry_price) \in Fraction
  BY <1>1, WholeType, MinusType DEF PriceGain
<1>4. Times(Sign(pos.net_quantity) * Smaller(trade.quantity, Abs(pos.net_quantity)),
            PriceGain(trade, pos.avg_entry_price)) \in Fraction
  BY <1>2, <1>3, ProductType, TimesType
<1> QED
  BY <1>4, ZeroType, ClosedGainOf

(* The position the client stores. *)
ClientAfter(pos, trade) ==
  Client!Refreshed(IF pos.known THEN Client!Updated(pos, trade) ELSE Client!Opened(trade))

LEMMA ClientAfterOf ==
  ASSUME NEW pos \in Client!Position, NEW trade \in Trade
  PROVE  /\ ClientAfter(pos, trade) \in Client!Position
         /\ Valued(ClientAfter(pos, trade))
         /\ ClientAfter(pos, trade).known
         /\ ClientAfter(pos, trade).current_price = trade.price
         /\ IF pos.known
              THEN /\ ClientAfter(pos, trade).net_quantity =
                        pos.net_quantity + SignedQuantity(trade)
                   /\ ClientAfter(pos, trade).trade_count = pos.trade_count + 1
                   /\ ClientAfter(pos, trade).realized_pnl =
                        Plus(pos.realized_pnl, Client!ClosedGain(pos, trade))
                   /\ ClientAfter(pos, trade).avg_entry_price =
                        Client!AverageEntry(pos, trade)
              ELSE /\ ClientAfter(pos, trade).net_quantity = SignedQuantity(trade)
                   /\ ClientAfter(pos, trade).trade_count = 0
                   /\ ClientAfter(pos, trade).realized_pnl = Zero
                   /\ ClientAfter(pos, trade).avg_entry_price = Whole(trade.price)
<1>0. /\ SignedQuantity(trade) \in Int /\ trade.price \in Nat
      /\ pos.net_quantity \in Int /\ pos.trade_count \in Nat
      /\ pos.realized_pnl \in Fraction
  BY SignedQuantityType, ClientPositionType
<1>1. CASE pos.known
  <2> DEFINE next == Client!Updated(pos, trade)
             gain == Plus(pos.realized_pnl, Client!ClosedGain(pos, trade))
             entry == Client!AverageEntry(pos, trade)
  <2>1. gain \in Client!Fraction /\ entry \in Client!Fraction
    BY <1>0, ClosedGainType, AverageEntryType, PlusType, ClientArithmetic
  <2>2. next = [pos EXCEPT !.net_quantity = @ + SignedQuantity(trade),
                           !.trade_count = @ + 1,
                           !.realized_pnl = gain,
                           !.avg_entry_price = entry,
                           !.current_price = trade.price]
    BY ClientArithmetic, ClientTrading DEF Client!Updated
  <2> HIDE DEF next, gain, entry
  <2>3. /\ next \in Client!Position /\ next.known = pos.known
        /\ next.net_quantity = pos.net_quantity + SignedQuantity(trade)
        /\ next.trade_count = pos.trade_count + 1
        /\ next.realized_pnl = gain /\ next.avg_entry_price = entry
        /\ next.current_price = trade.price
    <3>1. /\ next.known = pos.known
          /\ next.net_quantity = pos.net_quantity + SignedQuantity(trade)
          /\ next.trade_count = pos.trade_count + 1
          /\ next.realized_pnl = gain /\ next.avg_entry_price = entry
          /\ next.current_price = trade.price
      BY <2>2 DEF Client!Position
    <3>2. next \in Client!Position
      <4>1. next = [known |-> pos.known,
                    net_quantity |-> pos.net_quantity + SignedQuantity(trade),
                    avg_entry_price |-> entry, realized_pnl |-> gain,
                    unrealized_pnl |-> pos.unrealized_pnl,
                    current_price |-> trade.price, trade_count |-> pos.trade_count + 1]
        BY <2>2 DEF Client!Position
      <4>2. pos.known \in BOOLEAN /\ pos.unrealized_pnl \in Client!Fraction
        BY DEF Client!Position
      <4> QED
        BY <1>0, <2>1, <4>1, <4>2 DEF Client!Position
    <3> QED
      BY <3>1, <3>2
  <2>4. ClientAfter(pos, trade) = Client!Refreshed(next)
    BY <1>1 DEF ClientAfter, next
  <2>5. /\ gain = Plus(pos.realized_pnl, Client!ClosedGain(pos, trade))
        /\ entry = Client!AverageEntry(pos, trade)
    BY DEF gain, entry
  <2>6. /\ Client!Refreshed(next) \in Client!Position
        /\ Client!Refreshed(next).known = next.known
        /\ Client!Refreshed(next).net_quantity = next.net_quantity
        /\ Client!Refreshed(next).avg_entry_price = next.avg_entry_price
        /\ Client!Refreshed(next).realized_pnl = next.realized_pnl
        /\ Client!Refreshed(next).current_price = next.current_price
        /\ Client!Refreshed(next).trade_count = next.trade_count
        /\ Valued(Client!Refreshed(next))
    BY <2>3, RefreshedOf
  <2> QED
    BY <1>1, <2>3, <2>4, <2>5, <2>6
<1>2. CASE ~pos.known
  <2> DEFINE next == Client!Opened(trade)
  <2>1. /\ next \in Client!Position /\ next.known
        /\ next.net_quantity = SignedQuantity(trade)
        /\ next.trade_count = 0
        /\ next.realized_pnl = Zero /\ next.avg_entry_price = Whole(trade.price)
        /\ next.current_price = trade.price
    <3>1. Zero \in Client!Fraction /\ Whole(trade.price) \in Client!Fraction
      BY <1>0, ZeroType, WholeType, ClientArithmetic
    <3>2. next = [known |-> TRUE, net_quantity |-> SignedQuantity(trade),
                  avg_entry_price |-> Whole(trade.price),
                  realized_pnl |-> Zero, unrealized_pnl |-> Zero,
                  current_price |-> trade.price, trade_count |-> 0]
      <4>1. Client!Unknown =
              [known |-> FALSE, net_quantity |-> 0, avg_entry_price |-> Zero,
               realized_pnl |-> Zero, unrealized_pnl |-> Zero,
               current_price |-> 0, trade_count |-> 0]
        BY ClientArithmetic DEF Client!Unknown
      <4>2. next = [Client!Unknown EXCEPT !.known = TRUE,
                      !.net_quantity = SignedQuantity(trade),
                      !.avg_entry_price = Whole(trade.price),
                      !.current_price = trade.price]
        BY ClientArithmetic, ClientTrading DEF Client!Opened
      <4> HIDE DEF next
      <4> QED
        BY <4>1, <4>2
    <3> HIDE DEF next
    <3> QED
      BY <1>0, <3>1, <3>2 DEF Client!Position
  <2> HIDE DEF next
  <2>2. ClientAfter(pos, trade) = Client!Refreshed(next)
    BY <1>2 DEF ClientAfter, next
  <2> QED
    BY <1>2, <2>1, <2>2, RefreshedOf
<1> QED
  BY <1>1, <1>2

Averages(E, m, d, n, A, s, p) == m * E = n * A + (s * p) * d

LEMMA AveragesNegated ==
  ASSUME NEW n \in Int, NEW A \in Int, NEW s \in Int, NEW p \in Int, NEW d \in Int,
         NEW m \in Int, NEW E \in Int, Averages(E, -m, d, -n, A, -s, p)
  PROVE  Averages(E, m, d, n, A, s, p)
<1>1. (-n) * A = -(n * A) /\ ((-s) * p) * d = -((s * p) * d) /\ (-m) * E = -(m * E)
  BY SMT
<1>2. n * A \in Int /\ (s * p) * d \in Int /\ m * E \in Int
  BY ProductType
<1> QED
  BY <1>1, <1>2 DEF Averages

(* The client's entry prices in common units: the absolute quantities it   *)
(* averages with give what the signed ones do.                             *)
LEMMA ClientEntryUnits ==
  ASSUME NEW pos \in Client!Position, NEW trade \in Trade, NEW d \in Nat \ {0},
         NEW A \in Int, InUnits(pos.avg_entry_price, d, A), NEW E \in Int,
         InUnits(Client!AverageEntry(pos, trade), d, E),
         NEW n \in Int, n = pos.net_quantity,
         NEW m \in Int, m = n + SignedQuantity(trade)
  PROVE  WorthAfter(E, m, d, n, A, SignedQuantity(trade), trade.price)
<1> DEFINE s == SignedQuantity(trade)
           q == trade.quantity
           avg == pos.avg_entry_price
           entry == Client!AverageEntry(pos, trade)
           cost == Plus(Times(Abs(n), avg), Whole(q * trade.price))
<1>1. /\ s \in Int /\ trade.price \in Int /\ q \in Nat \ {0} /\ q * trade.price \in Int
      /\ avg \in Fraction /\ Abs(n) \in Int /\ Abs(m) \in Int
      /\ s > 0 => s = q
      /\ s < 0 => s = -q
  BY SignedQuantityType, SignedSplits, ProductType, ClientPositionType DEF Abs
<1>2. entry = IF m = 0 THEN Zero
              ELSE IF n = 0 THEN Whole(trade.price)
              ELSE IF SameSign(n, s) THEN Over(cost, Abs(m))
              ELSE avg
  BY AverageEntryOf
<1>3. CASE m = 0
  <2>1. 0 * E = 0
    OBVIOUS
  <2> QED
    BY <1>3, <2>1 DEF WorthAfter
<1>4. CASE m # 0 /\ n = 0
  <2>1. entry = Whole(trade.price)
    BY <1>2, <1>4
  <2>2. /\ InUnits(Whole(trade.price), d, trade.price * d) /\ trade.price * d \in Int
        /\ Whole(trade.price) \in Fraction
    <3>1. d \in Int
      OBVIOUS
    <3> QED
      BY <1>1, <3>1, UnitsWhole, WholeType, ProductType
  <2>3. InUnits(Whole(trade.price), d, E)
    BY <2>1
  <2>4. E = trade.price * d
    <3> DEFINE y == trade.price * d
    <3> HIDE DEF y, entry
    <3>1. y \in Int /\ InUnits(Whole(trade.price), d, y)
      BY <2>2 DEF y
    <3>2. E = y
      BY <2>2, <2>3, <3>1, UnitsUnique
    <3> QED
      BY <3>2 DEF y
  <2> QED
    BY <1>4, <2>4 DEF WorthAfter
<1>5. CASE m # 0 /\ n # 0 /\ SameSign(n, s)
  <2> DEFINE y == Abs(n) * A + (q * trade.price) * d
  <2>1. cost \in Fraction /\ y \in Int /\ InUnits(cost, d, y)
    BY <1>1, CostUnits
  <2>2. Abs(m) # 0 /\ InUnits(Over(cost, Abs(m)), d, E)
    BY <1>2, <1>5 DEF Abs
  <2>3. y = Abs(m) * E
    <3> HIDE DEF cost, y
    <3> QED
      BY <1>1, <2>1, <2>2, UnitsOver
  <2>4. Averages(E, m, d, n, A, s, trade.price)
    <3>1. CASE s > 0
      <4>1. Abs(n) = n /\ Abs(m) = m /\ s = q
        BY <1>1, <1>5, <3>1 DEF SameSign, Abs
      <4> QED
        BY <2>3, <4>1 DEF Averages
    <3>2. CASE s < 0
      <4>1. Abs(n) = -n /\ Abs(m) = -m /\ q = -s
        BY <1>1, <1>5, <3>2 DEF SameSign, Abs
      <4>2. Averages(E, -m, d, -n, A, -s, trade.price)
        BY <2>3, <4>1 DEF Averages
      <4>3. d \in Int
        OBVIOUS
      <4> QED
        BY <1>1, <4>2, <4>3, AveragesNegated
    <3> QED
      BY <1>1, <1>5, <3>1, <3>2 DEF SameSign
  <2> QED
    BY <1>5, <2>4 DEF WorthAfter, Averages
<1>6. CASE m # 0 /\ n # 0 /\ ~SameSign(n, s)
  <2>1. entry = avg
    BY <1>2, <1>6
  <2>2. E = A
    BY <1>1, <2>1, UnitsUnique
  <2> QED
    BY <1>6, <2>2 DEF WorthAfter
<1> QED
  BY <1>3, <1>4, <1>5, <1>6

(* What the client books, until a trade flips a position or adds to one at *)
(* another price than its average, is what the trade earned.               *)
LEMMA ClientGainUnits ==
  ASSUME NEW pos \in Client!Position, NEW trade \in Trade, NEW d \in Nat \ {0},
         NEW A \in Int, InUnits(pos.avg_entry_price, d, A),
         NEW n \in Int, n = pos.net_quantity,
         NEW m \in Int, m = n + SignedQuantity(trade),
         ~SameSign(-n, m),
         SameSign(n, SignedQuantity(trade))
           => Same(Whole(trade.price), pos.avg_entry_price)
  PROVE  \E gain \in Int : /\ InUnits(Client!ClosedGain(pos, trade), d, gain)
                           /\ EarnedBy(gain, d, n, A, SignedQuantity(trade), trade.price)
<1> DEFINE s == SignedQuantity(trade)
           q == trade.quantity
           p == trade.price
           avg == pos.avg_entry_price
           k == Sign(n) * Smaller(q, Abs(n))
           gain == k * (p * d - A)
<1>1. /\ s \in Int /\ s # 0 /\ p \in Int /\ q \in Nat \ {0} /\ avg \in Fraction
      /\ d \in Int /\ p * d \in Int /\ p * d - A \in Int
      /\ s > 0 => s = q
      /\ s < 0 => s = -q
  <2>1. /\ s \in Int /\ s # 0 /\ p \in Int /\ q \in Nat \ {0} /\ avg \in Fraction
        /\ d \in Int
        /\ s > 0 => s = q
        /\ s < 0 => s = -q
    BY SignedQuantityType, SignedSplits, ClientPositionType
  <2>2. p * d \in Int
    BY <2>1, ProductType
  <2>3. p * d - A \in Int
    BY <2>2
  <2> QED
    BY <2>1, <2>2, <2>3
<1>2. k \in Int
  <2>1. Sign(n) \in Int /\ Smaller(q, Abs(n)) \in Int
    BY <1>1 DEF Sign, Smaller, Abs
  <2> QED
    BY <2>1, ProductType
<1>3. gain \in Int
  <2> HIDE DEF k
  <2> QED
    BY <1>1, <1>2, ProductType
<1>4. CASE n = 0
  <2>1. Client!ClosedGain(pos, trade) = Whole(0)
    BY <1>4, ClosedGainOf DEF Zero
  <2>2. InUnits(Whole(0), d, 0 * d) /\ 0 * d = 0
    BY UnitsWhole
  <2>3. EarnedBy(0, d, n, A, s, p)
    BY <1>4 DEF EarnedBy
  <2> QED
    BY <2>1, <2>2, <2>3
<1>5. CASE n # 0
  <2>1. Client!ClosedGain(pos, trade) = Times(k, PriceGain(trade, avg))
    BY <1>5, ClosedGainOf
  <2>2. InUnits(Times(k, PriceGain(trade, avg)), d, gain)
    <3> HIDE DEF k, avg
    <3>1. avg \in Fraction /\ InUnits(avg, d, A)
      BY <1>1 DEF avg
    <3> QED
      BY <1>2, <3>1, GainUnits
  <2>3. EarnedBy(gain, d, n, A, s, p)
    <3>1. CASE SameSign(n, s)
      <4>1. InUnits(Whole(p), d, p * d) /\ Whole(p) \in Fraction
        BY <1>1, UnitsWhole, WholeType
      <4>2. p * d = A
        <5> HIDE DEF p, s
        <5>1. Same(Whole(p), avg)
          BY <3>1 DEF p, s
        <5> QED
          BY <1>1, <4>1, <5>1, UnitsSame
      <4>3. gain = 0
        <5> HIDE DEF k
        <5>1. p * d - A = 0
          BY <1>1, <4>2
        <5>2. k * 0 = 0
          BY <1>2
        <5> QED
          BY <5>1, <5>2
      <4> QED
        BY <3>1, <4>3 DEF EarnedBy
    <3>2. CASE ~SameSign(n, s)
      <4>1. k = -s
        <5>1. CASE n > 0
          <6>1. s < 0 /\ s = -q /\ q <= n
            BY <1>1, <3>2, <5>1 DEF SameSign
          <6>2. Smaller(q, Abs(n)) = q /\ Sign(n) = 1
            BY <1>1, <5>1, <6>1 DEF Smaller, Abs, Sign
          <6> QED
            BY <1>1, <6>1, <6>2
        <5>2. CASE n < 0
          <6>1. s > 0 /\ s = q /\ q <= -n
            BY <1>1, <3>2, <5>2 DEF SameSign
          <6>2. Smaller(q, Abs(n)) = q /\ Sign(n) = -1
            BY <1>1, <5>2, <6>1 DEF Smaller, Abs, Sign
          <6> QED
            BY <1>1, <6>1, <6>2
        <5> QED
          BY <1>5, <5>1, <5>2
      <4> HIDE DEF k
      <4> QED
        BY <1>5, <3>2, <4>1 DEF EarnedBy
    <3> QED
      BY <3>1, <3>2
  <2> HIDE DEF gain
  <2> QED
    BY <1>3, <2>1, <2>2, <2>3
<1> QED
  BY <1>4, <1>5

(* The client balances after a trade if it balanced before.                *)
LEMMA ClientBalances ==
  ASSUME NEW pos \in Client!Position, NEW trade \in Trade, NEW cash \in Int,
         NEW n \in Int, n = pos.net_quantity,
         NEW m \in Int, m = n + SignedQuantity(trade),
         ~SameSign(-n, m),
         SameSign(n, SignedQuantity(trade))
           => Same(Whole(trade.price), pos.avg_entry_price),
         Same(pos.realized_pnl, Plus(Whole(cash), Times(n, pos.avg_entry_price)))
  PROVE  Same(Plus(pos.realized_pnl, Client!ClosedGain(pos, trade)),
              Plus(Whole(cash - SignedQuantity(trade) * trade.price),
                   Times(m, Client!AverageEntry(pos, trade))))
<1> DEFINE s == SignedQuantity(trade)
           p == trade.price
           avg == pos.avg_entry_price
           realized == pos.realized_pnl
           profit == Client!ClosedGain(pos, trade)
           entry == Client!AverageEntry(pos, trade)
<1>1. /\ s \in Int /\ s # 0 /\ p \in Int /\ s * p \in Int /\ m = n + s
      /\ avg \in Fraction /\ realized \in Fraction
      /\ profit \in Fraction /\ entry \in Fraction /\ Plus(realized, profit) \in Fraction
  <2>1. avg \in Fraction /\ realized \in Fraction
    BY ClientPositionType
  <2>2. profit \in Fraction /\ entry \in Fraction
    BY ClosedGainType, AverageEntryType
  <2>3. Plus(realized, profit) \in Fraction
    BY <2>1, <2>2, PlusType
  <2> QED
    BY <2>1, <2>2, <2>3, SignedQuantityType, ProductType
<1>2. cash - s * p \in Int
  BY <1>1
<1>3. PICK d \in Nat \ {0}, R \in Int, A \in Int, E \in Int :
        InUnits(realized, d, R) /\ InUnits(avg, d, A) /\ InUnits(entry, d, E)
  BY <1>1, FourCommonUnits
<1>4. PICK gain \in Int : InUnits(profit, d, gain) /\ EarnedBy(gain, d, n, A, s, p)
  BY <1>3, ClientGainUnits
<1>5. WorthAfter(E, m, d, n, A, s, p)
  BY <1>3, ClientEntryUnits
<1>6. Same(realized, Plus(Whole(cash), Times(n, avg)))
  OBVIOUS
<1> HIDE DEF profit, entry, realized, avg, s, p
<1>7. BalancedAt(R, cash, d, n, A)
  BY <1>1, <1>3, <1>6, BalanceUnits
<1>8. InUnits(Plus(realized, profit), d, R + gain) /\ R + gain \in Int
  BY <1>1, <1>3, <1>4, UnitsPlus
<1>9. BalancedAt(R + gain, cash - s * p, d, m, E)
  <2>1. d \in Int
    OBVIOUS
  <2> QED
    BY <1>1, <1>4, <1>5, <1>7, <2>1, TradeBalances
<1>10. Same(Plus(realized, profit), Plus(Whole(cash - s * p), Times(m, entry)))
  BY <1>1, <1>2, <1>3, <1>8, <1>9, BalanceUnits
<1> QED
  BY <1>10 DEF realized, profit, entry, s, p

(* The two entry prices agree after a trade if they agreed before. *)
LEMMA EntriesAgree ==
  ASSUME NEW avg \in Fraction, NEW pos \in Client!Position, NEW trade \in Trade,
         NEW n \in Int, n = pos.net_quantity,
         NEW m \in Int, m = n + SignedQuantity(trade),
         Same(avg, pos.avg_entry_price)
  PROVE  Same(EntryPrice(trade, n, m, avg), Client!AverageEntry(pos, trade))
<1> DEFINE one == EntryPrice(trade, n, m, avg)
           other == Client!AverageEntry(pos, trade)
           s == SignedQuantity(trade)
           p == trade.price
<1>1. pos.avg_entry_price \in Fraction /\ one \in Fraction /\ other \in Fraction
  BY ClientPositionType, EntryPriceType, AverageEntryType
<1>2. PICK d \in Nat \ {0}, A \in Int, B \in Int, E \in Int, F \in Int :
        /\ InUnits(avg, d, A) /\ InUnits(pos.avg_entry_price, d, B)
        /\ InUnits(one, d, E) /\ InUnits(other, d, F)
  BY <1>1, FourCommonUnits
<1>3. A = B
  BY <1>1, <1>2, UnitsSame
<1>4. CASE m = 0
  <2>1. one = Zero /\ other = Zero
    BY <1>4, AverageEntryOf DEF EntryPrice
  <2> QED
    BY <2>1 DEF Same
<1>5. CASE m # 0
  <2>1. WorthAfter(E, m, d, n, A, s, p) /\ WorthAfter(F, m, d, n, A, s, p)
    BY <1>1, <1>2, <1>3, EntryUnits, ClientEntryUnits
  <2>2. m * E = m * F
    <3> HIDE DEF s, p
    <3> QED
      BY <2>1 DEF WorthAfter
  <2>3. E = F
    BY <1>5, <2>2, SMT
  <2>4. InUnits(one, d, E) /\ InUnits(other, d, F)
    BY <1>2
  <2>5. Same(one, other)
    <3> HIDE DEF one, other
    <3> QED
      BY <1>1, <2>3, <2>4, UnitsSame
  <2> QED
    BY <2>5
<1> QED
  BY <1>4, <1>5

------------------------------------------------------------------------------
(* One symbol in both books and in the ledger *)

LedgerEntry == [cash : Int, charged : Nat, flipped : BOOLEAN, overreduced : BOOLEAN,
                added : BOOLEAN]

(* No position is larger than what its trades can have made it. *)
Fits(pos) ==
  /\ pos.trade_count <= MaxTrades
  /\ \A largest \in Nat :
       (\A q \in Quantities : q <= largest)
         => /\ -(pos.trade_count * largest) <= pos.net_quantity
            /\ pos.net_quantity <= pos.trade_count * largest

TrackerSettled(pos, entry) ==
  ~entry.flipped /\ ~entry.overreduced =>
    Balances(pos, entry, Plus(pos.realized_pnl, Whole(entry.charged)))

ClientSettled(cpos, entry) ==
  /\ ~entry.flipped /\ ~entry.added => Balances(cpos, entry, cpos.realized_pnl)
  /\ ~cpos.known => entry.cash = 0

Agreed(pos, cpos) ==
  /\ pos.net_quantity = cpos.net_quantity
  /\ Same(pos.avg_entry_price, cpos.avg_entry_price)
  /\ cpos.known => pos.trade_count = cpos.trade_count + 1
  /\ ~cpos.known => /\ cpos.net_quantity = 0 /\ cpos.realized_pnl = Zero
                    /\ cpos.trade_count = 0 /\ pos.trade_count = 0

(* What holds of a symbol between any two calls. *)
Entered(pos, cpos, entry) ==
  /\ Fits(pos)
  /\ TrackerSettled(pos, entry)
  /\ Agreed(pos, cpos)
  /\ ClientSettled(cpos, entry)
  /\ Valued(cpos)

LEMMA LargestQuantity ==
  ASSUME NEW W \in Nat \ {0}, NEW M \in Nat \ {0}
  PROVE  \E largest \in Nat : /\ M * largest < W
                              /\ \A q \in Nat : M * q < W => q <= largest
<1> DEFINE B == (W - 1) \div M
<1>1. B \in Nat /\ M * B <= W - 1 /\ W - 1 < M * B + M
  BY SMT
<1> HIDE DEF B
<1>2. ASSUME NEW q \in Nat, M * q < W PROVE q <= B
  <2> SUFFICES ASSUME q >= B + 1 PROVE FALSE
    BY <1>1, <1>2
  <2>1. M * q >= M * (B + 1)
    BY <1>1, SMT
  <2>2. M * (B + 1) = M * B + M
    BY <1>1, SMT
  <2> QED
    BY <1>1, <1>2, <2>1, <2>2
<1>3. M * B < W
  BY <1>1
<1> QED
  BY <1>1, <1>2, <1>3

LEMMA FitsInWord ==
  ASSUME NEW pos \in PositionDetail, Fits(pos), pos.trade_count < MaxTrades
  PROVE  -Word <= pos.net_quantity /\ pos.net_quantity < Word
<1>1. pos.trade_count \in Nat /\ pos.net_quantity \in Int
  BY DEF PositionDetail
<1>2. MaxTrades \in Nat \ {0} /\ Word \in Nat \ {0}
  BY <1>1, MaxTradesAssumption, WordAssumption
<1>3. PICK largest \in Nat : /\ MaxTrades * largest < Word
                             /\ \A q \in Nat : MaxTrades * q < Word => q <= largest
  BY <1>2, LargestQuantity
<1>4. \A q \in Quantities : q <= largest
  BY <1>3, QuantitiesAssumption, PositionsFitAssumption
<1>5. pos.trade_count * largest <= MaxTrades * largest
  BY <1>1, <1>2, SMT
<1>6. pos.trade_count * largest \in Int /\ MaxTrades * largest \in Int
  BY <1>1, <1>2, ProductType
<1>7. /\ -(pos.trade_count * largest) <= pos.net_quantity
      /\ pos.net_quantity <= pos.trade_count * largest
  BY <1>4 DEF Fits
<1> QED
  BY <1>1, <1>2, <1>3, <1>5, <1>6, <1>7

(* The fields of a position after a trade. *)
LEMMA PositionAfterOf ==
  ASSUME NEW pos \in PositionDetail, NEW trade \in Trade,
         NEW m \in Int, m = pos.net_quantity + SignedQuantity(trade)
  PROVE  /\ PositionAfter(pos, trade).net_quantity = m
         /\ PositionAfter(pos, trade).trade_count = pos.trade_count + 1
         /\ PositionAfter(pos, trade).avg_entry_price =
              EntryPrice(trade, pos.net_quantity, m, pos.avg_entry_price)
  BY DEF PositionAfter, PositionDetail

LEMMA FitsAfter ==
  ASSUME NEW pos \in PositionDetail, NEW trade \in Trade, Fits(pos),
         pos.trade_count < MaxTrades
  PROVE  Fits(PositionAfter(pos, trade))
<1> DEFINE s == SignedQuantity(trade)
           n == pos.net_quantity
           c == pos.trade_count
           next == PositionAfter(pos, trade)
<1>1. /\ s \in Int /\ n \in Int /\ n + s \in Int /\ c \in Nat /\ MaxTrades \in Nat
      /\ trade.quantity \in Quantities /\ trade.quantity \in Nat
      /\ s = trade.quantity \/ s = -trade.quantity
  BY SignedQuantityType, MaxTradesAssumption DEF PositionDetail, Trade
<1>2. next.net_quantity = n + s /\ next.trade_count = c + 1
  BY <1>1, PositionAfterOf
<1>3. ASSUME NEW largest \in Nat, \A q \in Quantities : q <= largest
      PROVE  -((c + 1) * largest) <= n + s /\ n + s <= (c + 1) * largest
  <2>1. -(c * largest) <= n /\ n <= c * largest
    BY <1>3 DEF Fits
  <2>2. trade.quantity <= largest
    BY <1>1, <1>3
  <2>3. (c + 1) * largest = c * largest + largest /\ c * largest \in Int
    BY <1>1, SMT
  <2> HIDE DEF s, n, c
  <2> QED
    BY <1>1, <2>1, <2>2, <2>3
<1> HIDE DEF next, s, n, c
<1>4. next.trade_count <= MaxTrades
  BY <1>1, <1>2 DEF c
<1>5. Fits(next)
  BY <1>2, <1>3, <1>4 DEF Fits
<1> QED
  BY <1>5 DEF next

(* The ledger's entry after a trade. *)
LEMMA RecordedOf ==
  ASSUME NEW trade \in Trade, NEW pos \in PositionDetail, pos = positions[trade.symbol],
         NEW entry \in LedgerEntry,
         NEW n \in Int, n = pos.net_quantity,
         NEW m \in Int, m = n + SignedQuantity(trade)
  PROVE  LET next == Recorded(entry, trade)
         IN /\ next \in LedgerEntry
            /\ next.cash = entry.cash - SignedQuantity(trade) * trade.price
            /\ next.charged = entry.charged + (IF n = 0 THEN 0 ELSE trade.fees)
            /\ next.flipped <=> entry.flipped \/ SameSign(-n, m)
            /\ next.overreduced <=>
                 entry.overreduced
                   \/ (SignedQuantity(trade) < 0 /\ m > 0 /\ m < trade.quantity)
            /\ next.added <=>
                 entry.added \/ (SameSign(n, SignedQuantity(trade))
                                   /\ ~Same(Whole(trade.price), pos.avg_entry_price))
<1> DEFINE s == SignedQuantity(trade)
           cash == entry.cash - s * trade.price
           charged == entry.charged + (IF n = 0 THEN 0 ELSE trade.fees)
           flipped == entry.flipped \/ SameSign(-n, m)
           overreduced == entry.overreduced
                            \/ (s < 0 /\ m > 0 /\ m < trade.quantity)
           added == entry.added
                      \/ (SameSign(n, s) /\ ~Same(Whole(trade.price), pos.avg_entry_price))
           next == Recorded(entry, trade)
<1>1. next = [cash |-> cash, charged |-> charged, flipped |-> flipped,
              overreduced |-> overreduced, added |-> added]
  BY DEF Recorded
<1>2. cash \in Int /\ charged \in Nat
  <2>1. s \in Int /\ trade.price \in Int /\ trade.fees \in Nat
    BY SignedQuantityType
  <2>2. s * trade.price \in Int
    BY <2>1, ProductType
  <2>3. entry.cash \in Int /\ entry.charged \in Nat
    BY DEF LedgerEntry
  <2> QED
    BY <2>1, <2>2, <2>3
<1>3. flipped \in BOOLEAN /\ overreduced \in BOOLEAN /\ added \in BOOLEAN
  OBVIOUS
<1> HIDE DEF cash, charged, flipped, overreduced, added, next
<1>4. next \in LedgerEntry
  BY <1>1, <1>2, <1>3 DEF LedgerEntry
<1>5. /\ next.cash = cash /\ next.charged = charged /\ next.flipped = flipped
      /\ next.overreduced = overreduced /\ next.added = added
  BY <1>1
<1> QED
  BY <1>4, <1>5 DEF cash, charged, flipped, overreduced, added, next

(* Only the quantity, the entry price, the profit and the count of a       *)
(* position matter to that, and of the ledger all but the mark.            *)
LEMMA EnteredKept ==
  ASSUME NEW pos, NEW cpos, NEW entry, Entered(pos, cpos, entry),
         NEW pos2, NEW cpos2, NEW entry2, Valued(cpos2),
         /\ pos2.net_quantity = pos.net_quantity
         /\ pos2.avg_entry_price = pos.avg_entry_price
         /\ pos2.realized_pnl = pos.realized_pnl
         /\ pos2.trade_count = pos.trade_count,
         /\ cpos2.known = cpos.known
         /\ cpos2.net_quantity = cpos.net_quantity
         /\ cpos2.avg_entry_price = cpos.avg_entry_price
         /\ cpos2.realized_pnl = cpos.realized_pnl
         /\ cpos2.trade_count = cpos.trade_count,
         /\ entry2.cash = entry.cash /\ entry2.charged = entry.charged
         /\ entry2.flipped = entry.flipped /\ entry2.overreduced = entry.overreduced
         /\ entry2.added = entry.added
  PROVE  Entered(pos2, cpos2, entry2)
<1>1. Fits(pos2)
  BY DEF Entered, Fits
<1>2. TrackerSettled(pos2, entry2)
  BY DEF Entered, TrackerSettled, Balances, CostBasis
<1>3. Agreed(pos2, cpos2)
  BY DEF Entered, Agreed
<1>4. ClientSettled(cpos2, entry2)
  BY DEF Entered, ClientSettled, Balances, CostBasis
<1> QED
  BY <1>1, <1>2, <1>3, <1>4 DEF Entered

(* A trade opens a position that balances. *)
LEMMA OpeningBalances ==
  ASSUME NEW s \in Int, NEW p \in Int
  PROVE  Same(Zero, Plus(Whole(0 - s * p), Times(s, Whole(p))))
<1>1. s * p \in Int
  BY ProductType
<1>2. Plus(Whole(0 - s * p), Times(s, Whole(p))) = Whole((0 - s * p) + s * p)
  BY <1>1 DEF Plus, Whole, Times
<1>3. (0 - s * p) + s * p = 0
  BY <1>1
<1> QED
  BY <1>2, <1>3 DEF Same, Zero

(* A trade keeps both books and the ledger in step. *)
LEMMA TradeKeeps ==
  ASSUME NEW trade \in Trade, NEW pos \in PositionDetail, pos = positions[trade.symbol],
         NEW cpos \in Client!Position, NEW entry \in LedgerEntry,
         Entered(pos, cpos, entry), pos.trade_count < MaxTrades
  PROVE  /\ Entered(PositionAfter(pos, trade), ClientAfter(cpos, trade),
                    Recorded(entry, trade))
         /\ Recorded(entry, trade) \in LedgerEntry
<1> DEFINE s == SignedQuantity(trade)
           n == pos.net_quantity
           m == n + s
           pos2 == PositionAfter(pos, trade)
           cpos2 == ClientAfter(cpos, trade)
           entry2 == Recorded(entry, trade)
<1>1. /\ n \in Int /\ m \in Int /\ s \in Int /\ s # 0 /\ trade.price \in Int
      /\ pos.avg_entry_price \in Fraction /\ cpos.avg_entry_price \in Fraction
      /\ entry.cash \in Int /\ entry.charged \in Nat
  BY SignedQuantityType, ClientPositionType DEF PositionDetail, LedgerEntry
<1>2. n = cpos.net_quantity /\ Same(pos.avg_entry_price, cpos.avg_entry_price)
  BY DEF Entered, Agreed
<1>3. /\ entry2 \in LedgerEntry
      /\ entry2.cash = entry.cash - s * trade.price
      /\ entry2.charged = entry.charged + (IF n = 0 THEN 0 ELSE trade.fees)
      /\ entry2.flipped <=> entry.flipped \/ SameSign(-n, m)
      /\ entry2.overreduced <=>
           entry.overreduced \/ (s < 0 /\ m > 0 /\ m < trade.quantity)
      /\ entry2.added <=>
           entry.added \/ (SameSign(n, s) /\ ~Same(Whole(trade.price), pos.avg_entry_price))
  BY <1>1, RecordedOf
<1>4. /\ pos2.net_quantity = m /\ pos2.trade_count = pos.trade_count + 1
      /\ pos2.avg_entry_price = EntryPrice(trade, n, m, pos.avg_entry_price)
  BY <1>1, PositionAfterOf
<1>5. Fits(pos2)
  BY FitsAfter DEF Entered
<1>6. TrackerSettled(pos2, entry2)
  <2> SUFFICES ASSUME ~entry2.flipped, ~entry2.overreduced
               PROVE  Balances(pos2, entry2, Plus(pos2.realized_pnl, Whole(entry2.charged)))
    BY DEF TrackerSettled
  <2>1. /\ ~entry.flipped /\ ~entry.overreduced /\ ~SameSign(-n, m)
        /\ ~(s < 0 /\ m > 0 /\ m < trade.quantity)
    BY <1>3
  <2>2. -Word <= n /\ n < Word
    BY FitsInWord DEF Entered
  <2>3. Same(Plus(pos.realized_pnl, Whole(entry.charged)),
             Plus(Whole(entry.cash), Times(n, pos.avg_entry_price)))
    BY <2>1 DEF Entered, TrackerSettled, Balances, CostBasis
  <2>4. Same(Plus(pos2.realized_pnl,
                  Whole(entry.charged + (IF n = 0 THEN 0 ELSE trade.fees))),
             Plus(Whole(entry.cash - s * trade.price), Times(m, pos2.avg_entry_price)))
    BY <1>1, <2>1, <2>2, <2>3, TrackerBalances
  <2> HIDE DEF pos2, entry2, m, n
  <2> QED
    BY <1>3, <1>4, <2>4 DEF Balances, CostBasis
<1>7. Agreed(pos2, cpos2)
  <2>1. CASE cpos.known
    <3>1. /\ cpos2.known /\ cpos2.net_quantity = m
          /\ cpos2.trade_count = cpos.trade_count + 1
          /\ cpos2.avg_entry_price = Client!AverageEntry(cpos, trade)
      BY <1>2, <2>1, ClientAfterOf
    <3>2. Same(EntryPrice(trade, n, m, pos.avg_entry_price),
               Client!AverageEntry(cpos, trade))
      BY <1>1, <1>2, EntriesAgree
    <3>3. pos.trade_count = cpos.trade_count + 1
      BY <2>1 DEF Entered, Agreed
    <3> HIDE DEF pos2, cpos2, m, n
    <3> QED
      BY <1>4, <3>1, <3>2, <3>3 DEF Agreed
  <2>2. CASE ~cpos.known
    <3>1. /\ cpos2.known /\ cpos2.net_quantity = s /\ cpos2.trade_count = 0
          /\ cpos2.avg_entry_price = Whole(trade.price)
      BY <2>2, ClientAfterOf
    <3>2. n = 0 /\ pos.trade_count = 0
      BY <1>2, <2>2 DEF Entered, Agreed
    <3>3. m = s
      BY <1>1, <3>2
    <3>4. EntryPrice(trade, n, m, pos.avg_entry_price) = Whole(trade.price)
      BY <1>1, <3>2, <3>3 DEF EntryPrice
    <3>5. Same(Whole(trade.price), Whole(trade.price))
      BY DEF Same
    <3> HIDE DEF pos2, cpos2, m, n
    <3> QED
      BY <1>4, <3>1, <3>2, <3>3, <3>4, <3>5 DEF Agreed
  <2> QED
    BY <2>1, <2>2
<1>8. ClientSettled(cpos2, entry2)
  <2>0. cpos2.known
    BY ClientAfterOf
  <2> SUFFICES ASSUME ~entry2.flipped, ~entry2.added
               PROVE  Balances(cpos2, entry2, cpos2.realized_pnl)
    BY <2>0 DEF ClientSettled
  <2>1. CASE cpos.known
    <3>1. /\ ~entry.flipped /\ ~entry.added /\ ~SameSign(-n, m)
          /\ SameSign(n, s) => Same(Whole(trade.price), pos.avg_entry_price)
      BY <1>3
    <3>2. SameSign(n, s) => Same(Whole(trade.price), cpos.avg_entry_price)
      <4>1. Whole(trade.price) \in Fraction
        BY <1>1, WholeType
      <4> QED
        BY <1>1, <1>2, <3>1, <4>1, SameTrans
    <3>3. Same(cpos.realized_pnl, Plus(Whole(entry.cash), Times(n, cpos.avg_entry_price)))
      BY <1>2, <3>1 DEF Entered, ClientSettled, Balances, CostBasis
    <3>4. Same(Plus(cpos.realized_pnl, Client!ClosedGain(cpos, trade)),
               Plus(Whole(entry.cash - s * trade.price),
                    Times(m, Client!AverageEntry(cpos, trade))))
      BY <1>1, <1>2, <3>1, <3>2, <3>3, ClientBalances
    <3>5. /\ cpos2.net_quantity = m
          /\ cpos2.realized_pnl = Plus(cpos.realized_pnl, Client!ClosedGain(cpos, trade))
          /\ cpos2.avg_entry_price = Client!AverageEntry(cpos, trade)
      BY <1>2, <2>1, ClientAfterOf
    <3> HIDE DEF cpos2, entry2, m, n
    <3> QED
      BY <1>3, <3>4, <3>5 DEF Balances, CostBasis
  <2>2. CASE ~cpos.known
    <3>1. /\ cpos2.net_quantity = s /\ cpos2.realized_pnl = Zero
          /\ cpos2.avg_entry_price = Whole(trade.price)
      BY <2>2, ClientAfterOf
    <3>2. entry.cash = 0
      BY <2>2 DEF Entered, ClientSettled
    <3>3. Same(Zero, Plus(Whole(0 - s * trade.price), Times(s, Whole(trade.price))))
      BY <1>1, OpeningBalances
    <3> HIDE DEF cpos2, entry2
    <3> QED
      BY <1>3, <3>1, <3>2, <3>3 DEF Balances, CostBasis
  <2> QED
    BY <2>1, <2>2
<1>9. Valued(cpos2)
  BY ClientAfterOf
<1> HIDE DEF pos2, cpos2, entry2
<1>10. Entered(pos2, cpos2, entry2)
  BY <1>5, <1>6, <1>7, <1>8, <1>9 DEF Entered
<1> QED
  BY <1>3, <1>10 DEF pos2, cpos2, entry2

------------------------------------------------------------------------------
(* The client's snapshot *)

(* What the client folds over a field of its positions. *)
RealizedTallies(book, g) ==
  g = [s \in SUBSET Symbols |->
         IF s = {} THEN Client!Zero
         ELSE Client!Plus(book[CHOOSE x \in s : TRUE].realized_pnl,
                          g[s \ {CHOOSE x \in s : TRUE}])]

UnrealizedTallies(book, g) ==
  g = [s \in SUBSET Symbols |->
         IF s = {} THEN Client!Zero
         ELSE Client!Plus(book[CHOOSE x \in s : TRUE].unrealized_pnl,
                          g[s \ {CHOOSE x \in s : TRUE}])]

RealizedOf(book) == [s \in Symbols |-> book[s].realized_pnl]

UnrealizedOf(book) == [s \in Symbols |-> book[s].unrealized_pnl]

LEMMA FieldsAreFractions ==
  ASSUME NEW book \in [Symbols -> Client!Position]
  PROVE  /\ \A s \in Symbols : RealizedOf(book)[s] \in Fraction
         /\ \A s \in Symbols : UnrealizedOf(book)[s] \in Fraction
  BY ClientPositionType DEF RealizedOf, UnrealizedOf

LEMMA TalliesOfBook ==
  ASSUME NEW book, NEW g
  PROVE  /\ FractionTallies(RealizedOf(book), SUBSET Symbols, g)
              <=> RealizedTallies(book, g)
         /\ FractionTallies(UnrealizedOf(book), SUBSET Symbols, g)
              <=> UnrealizedTallies(book, g)
<1>1. \A s \in SUBSET Symbols : s # {} =>
        /\ RealizedOf(book)[Chosen(s)] = book[CHOOSE x \in s : TRUE].realized_pnl
        /\ UnrealizedOf(book)[Chosen(s)] = book[CHOOSE x \in s : TRUE].unrealized_pnl
  <2> SUFFICES ASSUME NEW s \in SUBSET Symbols, s # {}
               PROVE  /\ RealizedOf(book)[Chosen(s)] = book[Chosen(s)].realized_pnl
                      /\ UnrealizedOf(book)[Chosen(s)] = book[Chosen(s)].unrealized_pnl
    BY DEF Chosen
  <2>1. Chosen(s) \in Symbols
    BY ChosenMember
  <2> QED
    BY <2>1 DEF RealizedOf, UnrealizedOf
<1>2. [s \in SUBSET Symbols |->
         IF s = {} THEN Zero ELSE Plus(RealizedOf(book)[Chosen(s)], g[s \ {Chosen(s)}])]
      = [s \in SUBSET Symbols |->
           IF s = {} THEN Client!Zero
           ELSE Client!Plus(book[CHOOSE x \in s : TRUE].realized_pnl,
                            g[s \ {CHOOSE x \in s : TRUE}])]
  BY <1>1, ClientArithmetic DEF Chosen
<1>3. [s \in SUBSET Symbols |->
         IF s = {} THEN Zero ELSE Plus(UnrealizedOf(book)[Chosen(s)], g[s \ {Chosen(s)}])]
      = [s \in SUBSET Symbols |->
           IF s = {} THEN Client!Zero
           ELSE Client!Plus(book[CHOOSE x \in s : TRUE].unrealized_pnl,
                            g[s \ {CHOOSE x \in s : TRUE}])]
  BY <1>1, ClientArithmetic DEF Chosen
<1> QED
  BY <1>2, <1>3 DEF FractionTallies, RealizedTallies, UnrealizedTallies

(* The snapshot the client takes adds its positions up. *)
LEMMA SnapshotOf ==
  ASSUME NEW book \in [Symbols -> Client!Position], NEW fees \in Nat
  PROVE  /\ Client!Snapshot(book, fees).realized = FractionSum(RealizedOf(book), Symbols)
         /\ Client!Snapshot(book, fees).unrealized =
              FractionSum(UnrealizedOf(book), Symbols)
         /\ Client!Snapshot(book, fees).total =
              Minus(Plus(FractionSum(RealizedOf(book), Symbols),
                         FractionSum(UnrealizedOf(book), Symbols)), Whole(fees))
         /\ Client!Snapshot(book, fees).fees = fees
         /\ Client!Snapshot(book, fees) \in Client!PnLSnapshot
<1> DEFINE f == CHOOSE g : RealizedTallies(book, g)
           h == CHOOSE g : UnrealizedTallies(book, g)
           snapshot == Client!Snapshot(book, fees)
<1>1. IsFiniteSet(Symbols)
  BY SymbolsAssumption
<1>2. RealizedTallies(book, f) /\ UnrealizedTallies(book, h)
  <2>1. /\ \E g : FractionTallies(RealizedOf(book), SUBSET Symbols, g)
        /\ \E g : FractionTallies(UnrealizedOf(book), SUBSET Symbols, g)
    BY <1>1, FieldsAreFractions, FractionTallyExists
  <2>2. (\E g : RealizedTallies(book, g)) /\ (\E g : UnrealizedTallies(book, g))
    BY <2>1, TalliesOfBook
  <2> QED
    BY <2>2
<1>3. f[Symbols] = FractionSum(RealizedOf(book), Symbols)
  <2>1. PICK g : /\ FractionTallies(RealizedOf(book), SUBSET Symbols, g)
                 /\ FractionSum(RealizedOf(book), Symbols) = g[Symbols]
    BY <1>1, FieldsAreFractions, FractionSumIsTally
  <2>2. FractionTallies(RealizedOf(book), SUBSET Symbols, f)
    BY <1>2, TalliesOfBook
  <2> HIDE DEF f
  <2> QED
    BY <1>1, <2>1, <2>2, FractionTalliesAgree
<1>4. h[Symbols] = FractionSum(UnrealizedOf(book), Symbols)
  <2>1. PICK g : /\ FractionTallies(UnrealizedOf(book), SUBSET Symbols, g)
                 /\ FractionSum(UnrealizedOf(book), Symbols) = g[Symbols]
    BY <1>1, FieldsAreFractions, FractionSumIsTally
  <2>2. FractionTallies(UnrealizedOf(book), SUBSET Symbols, h)
    BY <1>2, TalliesOfBook
  <2> HIDE DEF h
  <2> QED
    BY <1>1, <2>1, <2>2, FractionTalliesAgree
<1>5. snapshot = [realized |-> f[Symbols], unrealized |-> h[Symbols],
                  total |-> Client!Minus(Client!Plus(f[Symbols], h[Symbols]),
                                         Client!Whole(fees)),
                  fees |-> fees]
  BY Zenon DEF Client!Snapshot, Client!TotalOver, Client!FoldSet, Client!MapThenFoldSet,
               RealizedTallies, UnrealizedTallies
<1> HIDE DEF f, h, snapshot
<1>6. /\ f[Symbols] \in Fraction /\ h[Symbols] \in Fraction
      /\ Minus(Plus(f[Symbols], h[Symbols]), Whole(fees)) \in Fraction
  <2>1. f[Symbols] \in Fraction /\ h[Symbols] \in Fraction
    BY <1>1, <1>3, <1>4, FieldsAreFractions, FractionSumIsFraction
  <2>2. Whole(fees) \in Fraction
    BY WholeType
  <2> QED
    BY <2>1, <2>2, PlusType, MinusType
<1>7. snapshot = [realized |-> f[Symbols], unrealized |-> h[Symbols],
                  total |-> Minus(Plus(f[Symbols], h[Symbols]), Whole(fees)),
                  fees |-> fees]
  BY <1>5, ClientArithmetic
<1>8. snapshot \in Client!PnLSnapshot
  BY <1>6, <1>7, ClientArithmetic DEF Client!PnLSnapshot
<1> QED
  BY <1>3, <1>4, <1>7, <1>8 DEF snapshot

------------------------------------------------------------------------------
(* The two keepers and the ledger together *)

(* The tracker in Books is the tracker. *)
THEOREM BooksTracksPositions == BooksSpec => Spec
<1>1. BooksInit => Init
  BY DEF BooksInit
<1>2. [BooksNext]_booksVars => [Next]_trackerVars
  <2>1. ASSUME NEW trade \in Trade, Ingest(trade) PROVE Next
    BY <2>1 DEF Ingest, Next
  <2>2. ASSUME NEW s \in Symbols, NEW price \in Prices, SetPrice(s, price) PROVE Next
    BY <2>2 DEF SetPrice, Next
  <2>3. ASSUME NEW m \in LotMethods, SetLotMatchMethod(m) PROVE Next
    BY <2>3 DEF SetLotMatchMethod, Next
  <2>4. CASE UNCHANGED booksVars
    BY <2>4 DEF booksVars
  <2> QED
    BY <2>1, <2>2, <2>3, <2>4 DEF BooksNext
<1> QED
  BY <1>1, <1>2, PTL DEF BooksSpec, Spec

TotalAddsUp ==
  pnl.total = Minus(Plus(FractionSum(RealizedOf(client_positions), Symbols),
                         FractionSum(UnrealizedOf(client_positions), Symbols)),
                    Whole(pnl.fees))

BooksInv ==
  /\ Client!TypeOK
  /\ ledger \in [Symbols -> LedgerEntry]
  /\ \A s \in Symbols : Entered(positions[s], client_positions[s], ledger[s])
  /\ TotalAddsUp

LEMMA EmptyEntered == Entered(EmptyPosition, Client!Unknown, EmptyLedger)
<1>1. Client!Unknown =
        [known |-> FALSE, net_quantity |-> 0, avg_entry_price |-> Zero,
         realized_pnl |-> Zero, unrealized_pnl |-> Zero,
         current_price |-> 0, trade_count |-> 0]
  BY ClientArithmetic DEF Client!Unknown
<1>2. Fits(EmptyPosition)
  <2>1. \A largest \in Nat : 0 * largest = 0
    OBVIOUS
  <2> QED
    BY <2>1, MaxTradesAssumption DEF Fits, EmptyPosition
<1>3. Same(Zero, Zero) /\ Same(Plus(Zero, Whole(0)), Plus(Whole(0), Times(0, Zero)))
      /\ Same(Zero, Plus(Whole(0), Times(0, Zero)))
  BY DEF Same, Plus, Times, Whole, Zero
<1>4. TrackerSettled(EmptyPosition, EmptyLedger)
  BY <1>3 DEF TrackerSettled, Balances, CostBasis, EmptyPosition, EmptyLedger
<1>5. Agreed(EmptyPosition, Client!Unknown)
  BY <1>1, <1>3 DEF Agreed, EmptyPosition
<1>6. ClientSettled(Client!Unknown, EmptyLedger)
  BY <1>1, <1>3 DEF ClientSettled, Balances, CostBasis, EmptyLedger
<1>7. Valued(Client!Unknown)
  BY <1>1 DEF Valued
<1> QED
  BY <1>2, <1>4, <1>5, <1>6, <1>7 DEF Entered

LEMMA BooksStart == BooksInit => BooksInv
<1> SUFFICES ASSUME BooksInit PROVE BooksInv
  OBVIOUS
<1>1. /\ positions = [s \in Symbols |-> EmptyPosition]
      /\ client_positions = [s \in Symbols |-> Client!Unknown]
      /\ pnl = [realized |-> Zero, unrealized |-> Zero, total |-> Zero, fees |-> 0]
      /\ ledger = [s \in Symbols |-> EmptyLedger]
  BY ClientArithmetic DEF BooksInit, Init, Client!Init
<1>2. Client!Unknown \in Client!Position
  BY ZeroType, ClientArithmetic DEF Client!Unknown, Client!Position
<1>3. Client!TypeOK
  <2>1. pnl \in Client!PnLSnapshot
    BY <1>1, ZeroType, ClientArithmetic DEF Client!PnLSnapshot
  <2> QED
    BY <1>1, <1>2, <2>1 DEF Client!TypeOK
<1>4. ledger \in [Symbols -> LedgerEntry]
  BY <1>1 DEF EmptyLedger, LedgerEntry
<1>5. \A s \in Symbols : Entered(positions[s], client_positions[s], ledger[s])
  BY <1>1, EmptyEntered
<1>6. TotalAddsUp
  <2>1. \A s \in Symbols : /\ RealizedOf(client_positions)[s] = Zero
                           /\ UnrealizedOf(client_positions)[s] = Zero
    BY <1>1, ClientArithmetic DEF RealizedOf, UnrealizedOf, Client!Unknown
  <2>2. /\ FractionSum(RealizedOf(client_positions), Symbols) = Zero
        /\ FractionSum(UnrealizedOf(client_positions), Symbols) = Zero
    BY <2>1, SymbolsAssumption, FractionSumOfZeros
  <2>3. Minus(Plus(Zero, Zero), Whole(0)) = Zero
    BY DEF Minus, Plus, Negated, Whole, Zero
  <2> QED
    BY <1>1, <2>2, <2>3 DEF TotalAddsUp
<1> QED
  BY <1>3, <1>4, <1>5, <1>6 DEF BooksInv

(* What a trade does to the client's book. *)
LEMMA ClientBookAfter ==
  ASSUME Client!TypeOK, NEW trade \in Trade, Client!ingest_trade(trade)
  PROVE  /\ client_positions' \in [Symbols -> Client!Position]
         /\ \A r \in Symbols :
              client_positions'[r] =
                IF r = trade.symbol THEN ClientAfter(client_positions[r], trade)
                ELSE Client!Refreshed(client_positions[r])
         /\ pnl' = Client!Snapshot(client_positions', pnl.fees + trade.fees)
<1> DEFINE s == trade.symbol
           next == IF client_positions[s].known
                     THEN Client!Updated(client_positions[s], trade)
                     ELSE Client!Opened(trade)
           book == [r \in Symbols |->
                      Client!Refreshed(IF r = s THEN next ELSE client_positions[r])]
<1>1. /\ client_positions' = book
      /\ pnl' = Client!Snapshot(book, pnl.fees + trade.fees)
  BY DEF Client!ingest_trade
<1>2. \A r \in Symbols :
        book[r] = IF r = s THEN ClientAfter(client_positions[r], trade)
                  ELSE Client!Refreshed(client_positions[r])
  BY DEF ClientAfter
<1>3. \A r \in Symbols : client_positions[r] \in Client!Position
  BY DEF Client!TypeOK
<1>4. \A r \in Symbols : book[r] \in Client!Position
  <2> SUFFICES ASSUME NEW r \in Symbols PROVE book[r] \in Client!Position
    OBVIOUS
  <2>1. /\ ClientAfter(client_positions[r], trade) \in Client!Position
        /\ Client!Refreshed(client_positions[r]) \in Client!Position
    BY <1>3, ClientAfterOf, RefreshedOf
  <2> HIDE DEF book
  <2> QED
    BY <1>2, <2>1
<1>5. book = [r \in Symbols |-> book[r]]
  OBVIOUS
<1> HIDE DEF book
<1>6. book \in [Symbols -> Client!Position]
  BY <1>4, <1>5
<1> QED
  BY <1>1, <1>2, <1>6

LEMMA BooksIngest ==
  ASSUME TypeOK, BooksInv, NEW trade \in Trade, Ingest(trade)
  PROVE  BooksInv'
<1> DEFINE s == trade.symbol
<1>1. /\ s \in Symbols /\ trade.fees \in Nat
  BY SignedQuantityType
<1>2. /\ \A r \in Symbols : positions[r] \in PositionDetail
      /\ \A r \in Symbols : client_positions[r] \in Client!Position
      /\ \A r \in Symbols : ledger[r] \in LedgerEntry
      /\ \A r \in Symbols : Entered(positions[r], client_positions[r], ledger[r])
      /\ Client!TypeOK
  BY DEF TypeOK, BooksInv, Client!TypeOK
<1>3. /\ positions[s].trade_count < MaxTrades
      /\ positions' = [positions EXCEPT ![s] = PositionAfter(positions[s], trade)]
      /\ ledger' = [ledger EXCEPT ![s] = Recorded(ledger[s], trade)]
      /\ Client!ingest_trade(trade)
  BY DEF Ingest, update_position
<1>4. /\ client_positions' \in [Symbols -> Client!Position]
      /\ \A r \in Symbols :
           client_positions'[r] =
             IF r = s THEN ClientAfter(client_positions[r], trade)
             ELSE Client!Refreshed(client_positions[r])
      /\ pnl' = Client!Snapshot(client_positions', pnl.fees + trade.fees)
  BY <1>2, <1>3, ClientBookAfter
<1>5. /\ Entered(PositionAfter(positions[s], trade),
                 ClientAfter(client_positions[s], trade), Recorded(ledger[s], trade))
      /\ Recorded(ledger[s], trade) \in LedgerEntry
  BY <1>1, <1>2, <1>3, TradeKeeps
<1>6. ledger' \in [Symbols -> LedgerEntry]
  BY <1>1, <1>3, <1>5 DEF BooksInv
<1>7. ASSUME NEW r \in Symbols
      PROVE  Entered(positions'[r], client_positions'[r], ledger'[r])
  <2>1. CASE r = s
    <3>1. /\ positions'[r] = PositionAfter(positions[s], trade)
          /\ client_positions'[r] = ClientAfter(client_positions[s], trade)
          /\ ledger'[r] = Recorded(ledger[s], trade)
      BY <1>1, <1>3, <1>4, <2>1 DEF TypeOK, BooksInv
    <3> QED
      BY <1>5, <3>1
  <2>2. CASE r # s
    <3>1. /\ positions'[r] = positions[r] /\ ledger'[r] = ledger[r]
          /\ client_positions'[r] = Client!Refreshed(client_positions[r])
      BY <1>3, <1>4, <2>2 DEF TypeOK, BooksInv
    <3>2. Entered(positions[r], Client!Refreshed(client_positions[r]), ledger[r])
      BY <1>2, RefreshedOf, EnteredKept
    <3> QED
      BY <3>1, <3>2
  <2> QED
    BY <2>1, <2>2
<1>8. pnl' \in Client!PnLSnapshot /\ TotalAddsUp'
  <2>1. pnl.fees + trade.fees \in Nat
    BY <1>1, <1>2 DEF Client!TypeOK, Client!PnLSnapshot
  <2>2. /\ pnl'.total = Minus(Plus(FractionSum(RealizedOf(client_positions'), Symbols),
                                   FractionSum(UnrealizedOf(client_positions'), Symbols)),
                              Whole(pnl.fees + trade.fees))
        /\ pnl'.fees = pnl.fees + trade.fees
        /\ pnl' \in Client!PnLSnapshot
    BY <1>4, <2>1, SnapshotOf
  <2> QED
    BY <2>2 DEF TotalAddsUp
<1> QED
  BY <1>4, <1>6, <1>7, <1>8 DEF BooksInv, Client!TypeOK

LEMMA BooksPrice ==
  ASSUME TypeOK, BooksInv, NEW s \in Symbols, NEW price \in Prices, SetPrice(s, price)
  PROVE  BooksInv'
<1>1. /\ positions' = [positions EXCEPT
                         ![s] = Marked([positions[s] EXCEPT !.current_price = price])]
      /\ ledger' = ledger
      /\ client_positions' = client_positions /\ pnl' = pnl
  BY DEF SetPrice, set_price
<1>2. ledger' \in [Symbols -> LedgerEntry]
  BY <1>1 DEF BooksInv, LedgerEntry
<1>3. ASSUME NEW r \in Symbols
      PROVE  Entered(positions'[r], client_positions[r], ledger'[r])
  <2>1. /\ positions[r] \in PositionDetail /\ ledger[r] \in LedgerEntry
        /\ Entered(positions[r], client_positions[r], ledger[r])
    BY DEF TypeOK, BooksInv
  <2>2. CASE r = s
    <3>1. /\ positions'[r].net_quantity = positions[r].net_quantity
          /\ positions'[r].avg_entry_price = positions[r].avg_entry_price
          /\ positions'[r].realized_pnl = positions[r].realized_pnl
          /\ positions'[r].trade_count = positions[r].trade_count
      BY <1>1, <2>1, <2>2 DEF TypeOK, Marked, PositionDetail
    <3>2. /\ ledger'[r].cash = ledger[r].cash /\ ledger'[r].charged = ledger[r].charged
          /\ ledger'[r].flipped = ledger[r].flipped
          /\ ledger'[r].overreduced = ledger[r].overreduced
          /\ ledger'[r].added = ledger[r].added
      BY <1>1, <2>1, <2>2 DEF BooksInv, LedgerEntry
    <3>3. Valued(client_positions[r])
      BY <2>1 DEF Entered
    <3> QED
      BY <2>1, <3>1, <3>2, <3>3, EnteredKept
  <2>3. CASE r # s
    BY <1>1, <2>1, <2>3 DEF TypeOK, BooksInv
  <2> QED
    BY <2>2, <2>3
<1>4. TotalAddsUp' /\ (Client!TypeOK)'
  BY <1>1 DEF BooksInv, TotalAddsUp, Client!TypeOK
<1> QED
  BY <1>1, <1>2, <1>3, <1>4 DEF BooksInv

(* The inductive invariant of the two books and the ledger. *)
THEOREM BooksInvariant == BooksSpec => []BooksInv
<1>1. TypeOK /\ BooksInv /\ [BooksNext]_booksVars => BooksInv'
  <2> SUFFICES ASSUME TypeOK, BooksInv, [BooksNext]_booksVars PROVE BooksInv'
    OBVIOUS
  <2>1. ASSUME NEW m \in LotMethods, SetLotMatchMethod(m) PROVE BooksInv'
    BY <2>1 DEF SetLotMatchMethod, set_lot_match_method, BooksInv, TotalAddsUp,
                Client!TypeOK
  <2>2. CASE UNCHANGED booksVars
    BY <2>2 DEF booksVars, trackerVars, BooksInv, TotalAddsUp, Client!TypeOK
  <2> QED
    BY <2>1, <2>2, BooksIngest, BooksPrice DEF BooksNext
<1> QED
  BY <1>1, BooksStart, BooksTracksPositions, TypeCorrect, PTL DEF BooksSpec

LEMMA LedgerFollows == BooksInv => LedgerIdentity
  BY DEF BooksInv, Entered, TrackerSettled, LedgerIdentity

(* The accounting identity of the tracker: as long as no trade flipped a   *)
(* position or left a long smaller than the sale that reduced it, the      *)
(* profit update_position books is the cash of the trades and the cost of  *)
(* what is held, less the fees it charges.                                 *)
THEOREM TrackerKeepsLedger == BooksSpec => []LedgerIdentity
<1> QED
  BY BooksInvariant, LedgerFollows, PTL

LEMMA KeepersFollow == TypeOK /\ BooksInv => KeepersAgree
<1> SUFFICES ASSUME TypeOK, BooksInv PROVE KeepersAgree
  OBVIOUS
<1>1. BooksTypeOK
  BY DEF BooksInv, BooksTypeOK, LedgerEntry
<1>2. ASSUME NEW s \in Symbols
      PROVE  Agreed(positions[s], client_positions[s])
  BY DEF BooksInv, Entered
<1> QED
  BY <1>1, <1>2 DEF KeepersAgree, Agreed

(* The tracker and the Python client hold the same quantity at the same    *)
(* entry price after the same trades, although they average differently.   *)
THEOREM BooksAgree == BooksSpec => []KeepersAgree
<1> QED
  BY BooksInvariant, BooksTracksPositions, TypeCorrect, KeepersFollow, PTL

LEMMA ClientFollows == BooksInv => ClientIdentity
  BY DEF BooksInv, Entered, ClientSettled, ClientIdentity

(* The Python client's realised profit is the cash of the trades and the   *)
(* cost of what is held, until one flips a position or adds to it at       *)
(* another price than its average.                                         *)
THEOREM ClientKeepsLedger == BooksSpec => []ClientIdentity
<1> QED
  BY BooksInvariant, ClientFollows, PTL

(* What a position of the client shows is worth its cash and its quantity  *)
(* at the last price.                                                      *)
LEMMA PositionWorth ==
  ASSUME NEW pos \in Client!Position, NEW entry \in LedgerEntry, Valued(pos),
         Balances(pos, entry, pos.realized_pnl)
  PROVE  Same(Plus(pos.realized_pnl, pos.unrealized_pnl),
              Whole(entry.cash + pos.net_quantity * pos.current_price))
<1> DEFINE n == pos.net_quantity
           p == pos.current_price
           avg == pos.avg_entry_price
           realized == pos.realized_pnl
           unrealized == pos.unrealized_pnl
           cash == entry.cash
<1>1. /\ n \in Int /\ p \in Int /\ cash \in Int /\ n * p \in Int /\ cash + n * p \in Int
      /\ avg \in Fraction /\ realized \in Fraction /\ unrealized \in Fraction
  <2>1. /\ n \in Int /\ p \in Int /\ cash \in Int
        /\ avg \in Fraction /\ realized \in Fraction /\ unrealized \in Fraction
    BY ClientPositionType DEF LedgerEntry
  <2>2. n * p \in Int
    BY <2>1, ProductType
  <2> QED
    BY <2>1, <2>2
<1>2. Sign(n) * Abs(n) = n
  BY <1>1 DEF Sign, Abs
<1>3. unrealized = IF n = 0 THEN Zero ELSE Times(n, Minus(Whole(p), avg))
  BY <1>2 DEF Valued
<1>4. PICK d \in Nat \ {0}, R \in Int, A \in Int :
        InUnits(realized, d, R) /\ InUnits(avg, d, A)
  BY <1>1, FourCommonUnits
<1>5. Same(realized, Plus(Whole(cash), Times(n, avg)))
  BY DEF Balances, CostBasis
<1> HIDE DEF n, p, avg, realized, unrealized, cash
<1>6. /\ d \in Int /\ p * d \in Int /\ p * d - A \in Int /\ n * A \in Int
      /\ cash * d \in Int /\ n * (p * d) \in Int /\ n * (p * d - A) \in Int
      /\ (cash + n * p) * d \in Int
  <2>1. d \in Int
    OBVIOUS
  <2>2. p * d \in Int /\ n * A \in Int /\ cash * d \in Int /\ (cash + n * p) * d \in Int
    BY <1>1, <2>1, ProductType
  <2>3. p * d - A \in Int
    BY <2>2
  <2>4. n * (p * d) \in Int /\ n * (p * d - A) \in Int
    BY <1>1, <2>2, <2>3, ProductType
  <2> QED
    BY <2>1, <2>2, <2>3, <2>4
<1>7. InUnits(unrealized, d, n * (p * d - A))
  <2>1. CASE n = 0
    <3>1. InUnits(Whole(0), d, 0 * d) /\ 0 * d = 0
      BY UnitsWhole
    <3>2. 0 * (p * d - A) = 0
      BY <1>6
    <3> QED
      BY <1>3, <2>1, <3>1, <3>2 DEF Zero
  <2>2. CASE n # 0
    <3>1. /\ Whole(p) \in Fraction /\ InUnits(Whole(p), d, p * d)
      BY <1>1, WholeType, UnitsWhole
    <3>2. /\ InUnits(Minus(Whole(p), avg), d, p * d - A)
          /\ Minus(Whole(p), avg) \in Fraction
      BY <1>1, <1>4, <1>6, <3>1, UnitsMinus, MinusType
    <3>3. InUnits(Times(n, Minus(Whole(p), avg)), d, n * (p * d - A))
      BY <1>1, <1>6, <3>2, UnitsTimes
    <3> QED
      BY <1>3, <2>2, <3>3
  <2> QED
    BY <2>1, <2>2
<1>8. R = cash * d + n * A
  <2>1. BalancedAt(R, cash, d, n, A)
    BY <1>1, <1>4, <1>5, BalanceUnits
  <2> QED
    BY <2>1 DEF BalancedAt
<1>9. R + n * (p * d - A) = (cash + n * p) * d
  <2>1. n * (p * d - A) = n * (p * d) - n * A
    BY <1>1, <1>4, <1>6, SMT
  <2>2. (cash + n * p) * d = cash * d + n * (p * d)
    BY <1>1, <1>6, SMT
  <2> QED
    BY <1>4, <1>6, <1>8, <2>1, <2>2
<1>10. /\ InUnits(Plus(realized, unrealized), d, R + n * (p * d - A))
       /\ Plus(realized, unrealized) \in Fraction
  BY <1>1, <1>4, <1>6, <1>7, UnitsPlus, PlusType
<1>11. /\ InUnits(Whole(cash + n * p), d, (cash + n * p) * d)
       /\ Whole(cash + n * p) \in Fraction
  BY <1>1, UnitsWhole, WholeType
<1>12. Same(Plus(realized, unrealized), Whole(cash + n * p))
  <2> DEFINE x == (cash + n * p) * d
  <2>1. /\ InUnits(Plus(realized, unrealized), d, x) /\ InUnits(Whole(cash + n * p), d, x)
        /\ x \in Int
    BY <1>6, <1>9, <1>10, <1>11
  <2> HIDE DEF x
  <2> QED
    BY <1>10, <1>11, <2>1, UnitsSame
<1> QED
  BY <1>12 DEF n, p, realized, unrealized, cash

(* What the account is worth before fees. *)
WorthOf == [s \in Symbols |->
              ledger[s].cash
                + client_positions[s].net_quantity * client_positions[s].current_price]

WorthTallies(g) ==
  g = [s \in SUBSET Symbols |->
         IF s = {} THEN 0
         ELSE ledger[CHOOSE x \in s : TRUE].cash
                + client_positions[CHOOSE x \in s : TRUE].net_quantity
                    * client_positions[CHOOSE x \in s : TRUE].current_price
                + g[s \ {CHOOSE x \in s : TRUE}]]

LEMMA WorthIsInteger ==
  ASSUME BooksInv
  PROVE  \A s \in Symbols : WorthOf[s] \in Int
<1> SUFFICES ASSUME NEW s \in Symbols PROVE WorthOf[s] \in Int
  OBVIOUS
<1>1. client_positions[s] \in Client!Position /\ ledger[s] \in LedgerEntry
  BY DEF BooksInv, Client!TypeOK
<1>2. /\ client_positions[s].net_quantity \in Int
      /\ client_positions[s].current_price \in Int /\ ledger[s].cash \in Int
  BY <1>1, ClientPositionType DEF LedgerEntry
<1>3. client_positions[s].net_quantity * client_positions[s].current_price \in Int
  BY <1>2, ProductType
<1> QED
  BY <1>2, <1>3 DEF WorthOf

(* The sum in ClientTotal is the sum of those. *)
LEMMA GrossOf ==
  ASSUME BooksInv
  PROVE  LET worth(s) == ledger[s].cash
               + client_positions[s].net_quantity * client_positions[s].current_price
         IN MapThenSumSet(worth, Symbols) = SumOver(WorthOf, Symbols)
<1> DEFINE f == CHOOSE g : WorthTallies(g)
<1>1. IsFiniteSet(Symbols)
  BY SymbolsAssumption
<1>2. ASSUME NEW g
      PROVE  Tallies(WorthOf, SUBSET Symbols, g) <=> WorthTallies(g)
  <2>1. ASSUME NEW s \in SUBSET Symbols, s # {}
        PROVE  WorthOf[Chosen(s)] =
                 ledger[Chosen(s)].cash
                   + client_positions[Chosen(s)].net_quantity
                       * client_positions[Chosen(s)].current_price
    <3>1. Chosen(s) \in Symbols
      BY <2>1, ChosenMember
    <3> QED
      BY <3>1 DEF WorthOf
  <2>2. [s \in SUBSET Symbols |->
           IF s = {} THEN 0 ELSE WorthOf[Chosen(s)] + g[s \ {Chosen(s)}]]
        = [s \in SUBSET Symbols |->
             IF s = {} THEN 0
             ELSE ledger[Chosen(s)].cash
                    + client_positions[Chosen(s)].net_quantity
                        * client_positions[Chosen(s)].current_price
                    + g[s \ {Chosen(s)}]]
    BY <2>1
  <2> QED
    BY <2>2 DEF Tallies, WorthTallies, Chosen
<1>3. PICK h : /\ Tallies(WorthOf, SUBSET Symbols, h)
               /\ SumOver(WorthOf, Symbols) = h[Symbols]
  BY <1>1, WorthIsInteger, SumIsTally
<1>4. WorthTallies(f)
  <2>1. \E g : WorthTallies(g)
    BY <1>2, <1>3
  <2> QED
    BY <2>1
<1>5. f[Symbols] = SumOver(WorthOf, Symbols)
  <2>1. Tallies(WorthOf, SUBSET Symbols, f)
    BY <1>2, <1>4
  <2> HIDE DEF f
  <2> QED
    BY <1>1, <1>3, <2>1, TalliesAgree
<1> DEFINE worth(s) == ledger[s].cash
             + client_positions[s].net_quantity * client_positions[s].current_price
<1>6. MapThenSumSet(worth, Symbols) = f[Symbols]
  BY Zenon DEF MapThenSumSet, MapThenFoldSet, WorthTallies
<1> HIDE DEF f
<1>7. MapThenSumSet(worth, Symbols) = SumOver(WorthOf, Symbols)
  BY <1>5, <1>6
<1> QED
  BY <1>7

LEMMA LessFees ==
  ASSUME NEW a \in Fraction, NEW m \in Int, Same(a, Whole(m)), NEW fees \in Int
  PROVE  Same(Minus(a, Whole(fees)), Whole(m - fees))
<1>1. a.num \in Int /\ a.den \in Nat \ {0} /\ a.num = m * a.den
  BY DEF Fraction, Same, Whole
<1>2. m * a.den \in Int /\ fees * a.den \in Int
      /\ (m - fees) * a.den = m * a.den - fees * a.den
  BY <1>1, SMT
<1>3. Minus(a, Whole(fees)) = [num |-> a.num - fees * a.den, den |-> a.den]
  <2>1. CASE a.den = 1
    BY <1>1, <1>2, <2>1 DEF Minus, Negated, Plus, Whole
  <2>2. CASE a.den # 1
    BY <1>1, <1>2, <2>2 DEF Minus, Negated, Plus, Whole
  <2> QED
    BY <2>1, <2>2
<1> QED
  BY <1>1, <1>2, <1>3 DEF Same, Whole

LEMMA TotalFollows == BooksInv => ClientTotal
<1> SUFFICES ASSUME BooksInv, \A s \in Symbols : ~ledger[s].flipped /\ ~ledger[s].added
             PROVE  LET worth(s) == ledger[s].cash
                          + client_positions[s].net_quantity
                              * client_positions[s].current_price
                    IN Same(pnl.total, Whole(MapThenSumSet(worth, Symbols) - pnl.fees))
  BY DEF ClientTotal
<1> DEFINE realized == RealizedOf(client_positions)
           unrealized == UnrealizedOf(client_positions)
           gross == SumOver(WorthOf, Symbols)
<1>1. ASSUME NEW s \in Symbols
      PROVE  /\ realized[s] \in Fraction /\ unrealized[s] \in Fraction
             /\ WorthOf[s] \in Int
             /\ Same(Plus(realized[s], unrealized[s]), Whole(WorthOf[s]))
  <2>1. /\ client_positions \in [Symbols -> Client!Position]
        /\ client_positions[s] \in Client!Position /\ ledger[s] \in LedgerEntry
        /\ Valued(client_positions[s]) /\ ClientSettled(client_positions[s], ledger[s])
    BY DEF BooksInv, Client!TypeOK, Entered
  <2>2. Balances(client_positions[s], ledger[s], client_positions[s].realized_pnl)
    BY <2>1 DEF ClientSettled
  <2>3. Same(Plus(client_positions[s].realized_pnl, client_positions[s].unrealized_pnl),
             Whole(ledger[s].cash + client_positions[s].net_quantity
                                      * client_positions[s].current_price))
    BY <2>1, <2>2, PositionWorth
  <2>4. realized[s] \in Fraction /\ unrealized[s] \in Fraction
    BY <2>1, FieldsAreFractions
  <2> QED
    BY <2>3, <2>4, WorthIsInteger DEF RealizedOf, UnrealizedOf, WorthOf
<1>2. IsFiniteSet(Symbols)
  BY SymbolsAssumption
<1> HIDE DEF realized, unrealized
<1>3. /\ Same(Plus(FractionSum(realized, Symbols), FractionSum(unrealized, Symbols)),
              Whole(gross))
      /\ FractionSum(realized, Symbols) \in Fraction
      /\ FractionSum(unrealized, Symbols) \in Fraction
      /\ gross \in Int
  BY <1>1, <1>2, SumsOfPairs, FractionSumIsFraction, SumIsInteger
<1>4. pnl.fees \in Int
  BY DEF BooksInv, Client!TypeOK, Client!PnLSnapshot
<1>5. pnl.total = Minus(Plus(FractionSum(realized, Symbols),
                             FractionSum(unrealized, Symbols)), Whole(pnl.fees))
  BY DEF BooksInv, TotalAddsUp, realized, unrealized
<1> HIDE DEF gross
<1>6. Same(pnl.total, Whole(gross - pnl.fees))
  BY <1>3, <1>4, <1>5, PlusType, LessFees
<1>7. LET worth(s) == ledger[s].cash
            + client_positions[s].net_quantity * client_positions[s].current_price
      IN MapThenSumSet(worth, Symbols) = gross
  BY GrossOf DEF gross
<1> QED
  BY <1>6, <1>7

(* The total the client reports is the value of the account: the cash of   *)
(* all trades, and every position at its last traded price, less all fees. *)
THEOREM ClientReportsWorth == BooksSpec => []ClientTotal
<1> QED
  BY BooksInvariant, TotalFollows, PTL
=============================================================================
