---------------------------- MODULE PositionProofs ----------------------------
(***************************************************************************)
(* What a trade does to a position and to the lots of its symbol, for      *)
(* every set of instruments, quantities, prices, fees and methods.  A      *)
(* trade or a price leaves of a position a position.  The theorems of lot  *)
(* matching rest on LotsInv; the loop that consumes the lots is proved    *)
(* with an invariant of its own (Underway) by induction over the queue.    *)
(***************************************************************************)
EXTENDS Positions, LotAudit, ArithmeticProofs

(* The position a trade leaves is a position again: the arithmetic never   *)
(* divides by zero.                                                        *)
LEMMA SignedQuantityType ==
  ASSUME NEW trade \in Trade
  PROVE  /\ SignedQuantity(trade) \in Int
         /\ SignedQuantity(trade) # 0
         /\ trade.quantity \in Nat \ {0}
         /\ trade.price \in Prices /\ trade.price \in Nat \ {0}
         /\ trade.fees \in Nat
         /\ trade.symbol \in Symbols
         /\ trade.side = "Buy" => SignedQuantity(trade) = trade.quantity
         /\ trade.side # "Buy" => SignedQuantity(trade) = -trade.quantity
<1>1. /\ trade.quantity \in Quantities /\ trade.price \in Prices
      /\ trade.fees \in Fees /\ trade.symbol \in Symbols
  BY DEF Trade
<1>2. /\ trade.quantity \in Nat \ {0} /\ trade.price \in Nat \ {0}
      /\ trade.fees \in Nat
  BY <1>1, QuantitiesAssumption, PricesAssumption, FeesAssumption
<1>3. CASE trade.side = "Buy"
  BY <1>1, <1>2, <1>3 DEF SignedQuantity, side_sign
<1>4. CASE trade.side # "Buy"
  BY <1>1, <1>2, <1>4 DEF SignedQuantity, side_sign
<1> QED
  BY <1>3, <1>4

LEMMA RealizedType ==
  ASSUME NEW trade \in Trade, NEW net \in Int, NEW avg \in Fraction
  PROVE  realized_pnl_for_trade(trade, net, avg) \in Fraction
<1> DEFINE signed == SignedQuantity(trade)
           gain == PriceGain(trade, avg)
<1>1. /\ signed \in Int /\ trade.quantity \in Int /\ trade.fees \in Int
      /\ -trade.fees \in Int /\ trade.price \in Int
  BY SignedQuantityType
<1>2. gain \in Fraction
  BY <1>1, WholeType, MinusType DEF PriceGain
<1>3. /\ Sign(signed) \in Int /\ Sign(net) \in Int /\ -Sign(signed) \in Int
  BY <1>1 DEF Sign
<1>4. AsUnsigned(net) \in Int
  BY WordAssumption DEF AsUnsigned
<1>5. ReducedQuantity(trade, net) \in Int
  BY <1>1, <1>4 DEF ReducedQuantity, Smaller
<1>6. /\ -Sign(signed) * trade.quantity \in Int
      /\ Sign(net) * ReducedQuantity(trade, net) \in Int
  BY <1>1, <1>3, <1>5, ProductType
<1>7. /\ Times(-Sign(signed) * trade.quantity, gain) \in Fraction
      /\ Times(Sign(net) * ReducedQuantity(trade, net), gain) \in Fraction
  BY <1>2, <1>6, TimesType
<1>8. Whole(trade.fees) \in Fraction /\ Whole(-trade.fees) \in Fraction
  BY <1>1, WholeType
<1>9. /\ Minus(Times(-Sign(signed) * trade.quantity, gain),
               Whole(trade.fees)) \in Fraction
      /\ Minus(Times(Sign(net) * ReducedQuantity(trade, net), gain),
               Whole(trade.fees)) \in Fraction
  BY <1>7, <1>8, MinusType
<1> QED
  BY <1>8, <1>9, ZeroType DEF realized_pnl_for_trade

LEMMA EntryPriceType ==
  ASSUME NEW trade \in Trade, NEW old_net \in Int, NEW net \in Int,
         NEW avg \in Fraction
  PROVE  EntryPrice(trade, old_net, net, avg) \in Fraction
<1> DEFINE signed == SignedQuantity(trade)
<1>1. signed \in Int /\ trade.price \in Int
  BY SignedQuantityType
<1>2. Whole(trade.price) \in Fraction /\ Whole(signed * trade.price) \in Fraction
  BY <1>1, ProductType, WholeType
<1>3. Plus(Times(old_net, avg), Whole(signed * trade.price)) \in Fraction
  BY <1>2, TimesType, PlusType
<1>4. net # 0 => Over(Plus(Times(old_net, avg), Whole(signed * trade.price)),
                      net) \in Fraction
  BY <1>3, OverType
<1> QED
  BY <1>2, <1>4, ZeroType DEF EntryPrice

LEMMA PositionAfterType ==
  ASSUME NEW pos \in PositionDetail, NEW trade \in Trade
  PROVE  PositionAfter(pos, trade) \in PositionDetail
<1> DEFINE net == pos.net_quantity + SignedQuantity(trade)
           avg == pos.avg_entry_price
<1>1. /\ pos.net_quantity \in Int /\ net \in Int
      /\ avg \in Fraction /\ pos.realized_pnl \in Fraction
      /\ pos.trade_count + 1 \in Nat
  BY SignedQuantityType DEF PositionDetail
<1>2. /\ Plus(pos.realized_pnl, realized_pnl_for_trade(trade, net, avg)) \in Fraction
      /\ EntryPrice(trade, pos.net_quantity, net, avg) \in Fraction
  BY <1>1, RealizedType, EntryPriceType, PlusType
<1> HIDE DEF net, avg
<1> QED
  BY <1>1, <1>2 DEF PositionAfter, PositionDetail, net, avg

LEMMA MarkedType ==
  ASSUME NEW pos \in PositionDetail
  PROVE  Marked(pos) \in PositionDetail
<1>1. /\ pos.net_quantity \in Int /\ pos.current_price \in Int
      /\ pos.avg_entry_price \in Fraction
  BY DEF PositionDetail
<1>2. Sign(pos.net_quantity) * pos.net_quantity \in Int
  BY <1>1, ProductType DEF Sign
<1>3. Minus(Whole(pos.current_price), pos.avg_entry_price) \in Fraction
  BY <1>1, WholeType, MinusType
<1>4. Times(Sign(pos.net_quantity) * pos.net_quantity,
            Minus(Whole(pos.current_price), pos.avg_entry_price)) \in Fraction
  BY <1>2, <1>3, TimesType
<1> QED
  BY <1>4, ZeroType DEF Marked, PositionDetail

------------------------------------------------------------------------------
(* The walks along a queue *)

(* Each of the four walks along a queue is the fold of a step. *)
AddRemaining == [p \in Nat \X Lot |-> p[1] + p[2].remaining]

LEMMA RemainingIsFold ==
  ASSUME NEW q \in Seq(Lot)
  PROVE  FoldValue(AddRemaining, 0, q, TotalRemaining(q)) /\ TotalRemaining(q) \in Nat
<1> DEFINE S == DOMAIN q
           Is(f) == f = [s \in SUBSET S |->
                           IF s = {} THEN 0 ELSE f[s \ {Max(s)}] + q[Max(s)].remaining]
           h == CHOOSE h : Is(h)
<1>1. \A v \in Nat, x \in Lot : /\ AddRemaining[<<v, x>>] = v + x.remaining
                               /\ AddRemaining[<<v, x>>] \in Nat
  BY DEF AddRemaining, Lot
<1>2. 0 \in Nat
  OBVIOUS
<1>3. \A s \in SUBSET S : s # {} => q[Max(s)] \in Lot /\ s \ {Max(s)} \in SUBSET S
  BY IndicesAreFinite, ElementOfSeq, LenProperties
<1>4. PICK g : /\ FoldsAlong(AddRemaining, 0, q, g)
               /\ \A s \in SUBSET S : g[s] \in Nat
  BY <1>1, <1>2, FoldAlongExists
<1>5. Is(g)
  <2>1. g = [s \in SUBSET S |->
               IF s = {} THEN 0 ELSE AddRemaining[<<g[s \ {Max(s)}], q[Max(s)]>>]]
    BY <1>4 DEF FoldsAlong
  <2>2. \A s \in SUBSET S : s # {} =>
          AddRemaining[<<g[s \ {Max(s)}], q[Max(s)]>>] = g[s \ {Max(s)}] + q[Max(s)].remaining
    BY <1>1, <1>3, <1>4
  <2> HIDE DEF S
  <2> QED
    BY <2>1, <2>2
<1>6. Is(h)
  BY <1>5
<1>7. TotalRemaining(q) = h[S]
  BY Zenon DEF TotalRemaining, FoldLeft, MapThenFoldSet
<1> HIDE DEF h
<1>8. \A s \in SUBSET S : h[s] \in Nat
  <2>1. h[{}] \in Nat
    BY <1>2, <1>6
  <2>2. \A s \in SUBSET S : s # {} => h[s] = h[s \ {Max(s)}] + q[Max(s)].remaining
    BY <1>6
  <2>3. ASSUME NEW s \in SUBSET S, s # {}, h[s \ {Max(s)}] \in Nat
        PROVE  h[s] \in Nat
    <3>1. /\ h[s] = h[s \ {Max(s)}] + q[Max(s)].remaining
          /\ q[Max(s)] \in Lot
      BY <1>3, <2>2, <2>3
    <3> HIDE DEF S
    <3> QED
      BY <1>1, <2>3, <3>1
  <2> QED
    BY <2>1, <2>3, TypeAlong
<1>9. FoldsAlong(AddRemaining, 0, q, h)
  <2>1. \A s \in SUBSET S : s # {} =>
          AddRemaining[<<h[s \ {Max(s)}], q[Max(s)]>>] = h[s \ {Max(s)}] + q[Max(s)].remaining
    BY <1>1, <1>3, <1>8
  <2>2. h = [s \in SUBSET S |->
               IF s = {} THEN 0 ELSE AddRemaining[<<h[s \ {Max(s)}], q[Max(s)]>>]]
    <3> HIDE DEF S
    <3> QED
      BY <1>6, <2>1
  <2> QED
    BY <2>2 DEF FoldsAlong
<1> QED
  BY <1>7, <1>8, <1>9 DEF FoldValue

AddCost ==
  [p \in Fraction \X Lot |-> Plus(p[1], Times(p[2].remaining, p[2].price))]

LEMMA CostIsFold ==
  ASSUME NEW q \in Seq(Lot)
  PROVE  FoldValue(AddCost, Zero, q, TotalCost(q)) /\ TotalCost(q) \in Fraction
<1> DEFINE S == DOMAIN q
           Is(f) == f = [s \in SUBSET S |->
                           IF s = {} THEN Zero ELSE Plus(f[s \ {Max(s)}], Times(q[Max(s)].remaining, q[Max(s)].price))]
           h == CHOOSE h : Is(h)
<1>1. \A v \in Fraction, x \in Lot : /\ AddCost[<<v, x>>] = Plus(v, Times(x.remaining, x.price))
                               /\ AddCost[<<v, x>>] \in Fraction
  BY TimesType, PlusType DEF AddCost, Lot
<1>2. Zero \in Fraction
  BY ZeroType
<1>3. \A s \in SUBSET S : s # {} => q[Max(s)] \in Lot /\ s \ {Max(s)} \in SUBSET S
  BY IndicesAreFinite, ElementOfSeq, LenProperties
<1>4. PICK g : /\ FoldsAlong(AddCost, Zero, q, g)
               /\ \A s \in SUBSET S : g[s] \in Fraction
  BY <1>1, <1>2, FoldAlongExists
<1>5. Is(g)
  <2>1. g = [s \in SUBSET S |->
               IF s = {} THEN Zero ELSE AddCost[<<g[s \ {Max(s)}], q[Max(s)]>>]]
    BY <1>4 DEF FoldsAlong
  <2>2. \A s \in SUBSET S : s # {} =>
          AddCost[<<g[s \ {Max(s)}], q[Max(s)]>>] = Plus(g[s \ {Max(s)}], Times(q[Max(s)].remaining, q[Max(s)].price))
    BY <1>1, <1>3, <1>4
  <2> HIDE DEF S
  <2> QED
    BY <2>1, <2>2
<1>6. Is(h)
  BY <1>5
<1>7. TotalCost(q) = h[S]
  BY Zenon DEF TotalCost, FoldLeft, MapThenFoldSet
<1> HIDE DEF h
<1>8. \A s \in SUBSET S : h[s] \in Fraction
  <2>1. h[{}] \in Fraction
    BY <1>2, <1>6
  <2>2. \A s \in SUBSET S : s # {} => h[s] = Plus(h[s \ {Max(s)}], Times(q[Max(s)].remaining, q[Max(s)].price))
    BY <1>6
  <2>3. ASSUME NEW s \in SUBSET S, s # {}, h[s \ {Max(s)}] \in Fraction
        PROVE  h[s] \in Fraction
    <3>1. /\ h[s] = Plus(h[s \ {Max(s)}], Times(q[Max(s)].remaining, q[Max(s)].price))
          /\ q[Max(s)] \in Lot
      BY <1>3, <2>2, <2>3
    <3> HIDE DEF S
    <3> QED
      BY <1>1, <2>3, <3>1
  <2> QED
    BY <2>1, <2>3, TypeAlong
<1>9. FoldsAlong(AddCost, Zero, q, h)
  <2>1. \A s \in SUBSET S : s # {} =>
          AddCost[<<h[s \ {Max(s)}], q[Max(s)]>>] = Plus(h[s \ {Max(s)}], Times(q[Max(s)].remaining, q[Max(s)].price))
    BY <1>1, <1>3, <1>8
  <2>2. h = [s \in SUBSET S |->
               IF s = {} THEN Zero ELSE AddCost[<<h[s \ {Max(s)}], q[Max(s)]>>]]
    <3> HIDE DEF S
    <3> QED
      BY <1>6, <2>1
  <2> QED
    BY <2>2 DEF FoldsAlong
<1> QED
  BY <1>7, <1>8, <1>9 DEF FoldValue

(* The single units of a list of pairs of a price and a number. *)
Pairs == Fraction \X Nat

AddUnits ==
  [p \in Seq(Fraction) \X Pairs |-> p[1] \o [k \in 1 .. p[2][2] |-> p[2][1]]]

LEMMA UnitsIsFold ==
  ASSUME NEW q \in Seq(Pairs)
  PROVE  FoldValue(AddUnits, << >>, q, Units(q)) /\ Units(q) \in Seq(Fraction)
<1> DEFINE S == DOMAIN q
           Is(f) == f = [s \in SUBSET S |->
                           IF s = {} THEN << >> ELSE f[s \ {Max(s)}] \o [k \in 1 .. q[Max(s)][2] |-> q[Max(s)][1]]]
           h == CHOOSE h : Is(h)
<1>1. \A v \in Seq(Fraction), x \in Pairs : /\ AddUnits[<<v, x>>] = v \o [k \in 1 .. x[2] |-> x[1]]
                               /\ AddUnits[<<v, x>>] \in Seq(Fraction)
  <2>1. \A x \in Pairs : [k \in 1 .. x[2] |-> x[1]] \in Seq(Fraction)
    BY DEF Pairs
  <2> QED
    BY <2>1, ConcatProperties DEF AddUnits
<1>2. << >> \in Seq(Fraction)
  BY EmptySeq
<1>3. \A s \in SUBSET S : s # {} => q[Max(s)] \in Pairs /\ s \ {Max(s)} \in SUBSET S
  BY IndicesAreFinite, ElementOfSeq, LenProperties
<1>4. PICK g : /\ FoldsAlong(AddUnits, << >>, q, g)
               /\ \A s \in SUBSET S : g[s] \in Seq(Fraction)
  BY <1>1, <1>2, FoldAlongExists
<1>5. Is(g)
  <2>1. g = [s \in SUBSET S |->
               IF s = {} THEN << >> ELSE AddUnits[<<g[s \ {Max(s)}], q[Max(s)]>>]]
    BY <1>4 DEF FoldsAlong
  <2>2. \A s \in SUBSET S : s # {} =>
          AddUnits[<<g[s \ {Max(s)}], q[Max(s)]>>] = g[s \ {Max(s)}] \o [k \in 1 .. q[Max(s)][2] |-> q[Max(s)][1]]
    BY <1>1, <1>3, <1>4
  <2> HIDE DEF S
  <2> QED
    BY <2>1, <2>2
<1>6. Is(h)
  BY <1>5
<1>7. Units(q) = h[S]
  BY Zenon DEF Units, FoldLeft, MapThenFoldSet
<1> HIDE DEF h
<1>8. \A s \in SUBSET S : h[s] \in Seq(Fraction)
  <2>1. h[{}] \in Seq(Fraction)
    BY <1>2, <1>6
  <2>2. \A s \in SUBSET S : s # {} => h[s] = h[s \ {Max(s)}] \o [k \in 1 .. q[Max(s)][2] |-> q[Max(s)][1]]
    BY <1>6
  <2>3. ASSUME NEW s \in SUBSET S, s # {}, h[s \ {Max(s)}] \in Seq(Fraction)
        PROVE  h[s] \in Seq(Fraction)
    <3>1. /\ h[s] = h[s \ {Max(s)}] \o [k \in 1 .. q[Max(s)][2] |-> q[Max(s)][1]]
          /\ q[Max(s)] \in Pairs
      BY <1>3, <2>2, <2>3
    <3> HIDE DEF S
    <3> QED
      BY <1>1, <2>3, <3>1
  <2> QED
    BY <2>1, <2>3, TypeAlong
<1>9. FoldsAlong(AddUnits, << >>, q, h)
  <2>1. \A s \in SUBSET S : s # {} =>
          AddUnits[<<h[s \ {Max(s)}], q[Max(s)]>>] = h[s \ {Max(s)}] \o [k \in 1 .. q[Max(s)][2] |-> q[Max(s)][1]]
    BY <1>1, <1>3, <1>8
  <2>2. h = [s \in SUBSET S |->
               IF s = {} THEN << >> ELSE AddUnits[<<h[s \ {Max(s)}], q[Max(s)]>>]]
    <3> HIDE DEF S
    <3> QED
      BY <1>6, <2>1
  <2> QED
    BY <2>2 DEF FoldsAlong
<1> QED
  BY <1>7, <1>8, <1>9 DEF FoldValue

(* What the matching loop carries from lot to lot. *)
Walk == [left : Nat, pnl : Fraction, pairs : Seq(Pairs), kept : Seq(Lot)]

Consuming(trade) == [p \in Walk \X Lot |-> Consume(trade, p[1], p[2])]

LEMMA UntouchedType ==
  ASSUME NEW trade \in Trade
  PROVE  Untouched(trade) \in Walk
<1>1. trade.quantity \in Nat
  BY QuantitiesAssumption DEF Trade
<1> QED
  BY <1>1, ZeroType, EmptySeq DEF Untouched, Walk

LEMMA GainType ==
  ASSUME NEW trade \in Trade, NEW lot \in Lot, NEW qty \in Int
  PROVE  Gain(trade, lot, qty) \in Fraction
<1>1. trade.price \in Int /\ lot.price \in Fraction
  BY SignedQuantityType DEF Lot
<1>2. side_sign(trade.side) \in Int
  BY DEF side_sign
<1>3. side_sign(trade.side) * qty \in Int
  BY <1>2, ProductType
<1>4. -side_sign(trade.side) * qty \in Int
  BY <1>3
<1>5. Minus(Whole(trade.price), lot.price) \in Fraction
  BY <1>1, WholeType, MinusType
<1> QED
  BY <1>4, <1>5, TimesType DEF Gain

(* A step of the loop: the trade passes by a lot once it is satisfied, and *)
(* takes qty units of it before.                                           *)
PassedBy(acc, lot) ==
  [left |-> acc.left, pnl |-> acc.pnl, pairs |-> acc.pairs,
   kept |-> Append(acc.kept, lot)]

Remains(lot, qty) == [lot EXCEPT !.remaining = lot.remaining - qty]

Taking(trade, acc, lot, qty) ==
  [left |-> acc.left - qty,
   pnl |-> Plus(acc.pnl, Gain(trade, lot, qty)),
   pairs |-> Append(acc.pairs, <<lot.price, qty>>),
   kept |-> IF qty = lot.remaining THEN acc.kept
            ELSE Append(acc.kept, Remains(lot, qty))]

(* The step of the loop: a lot is passed by or taken from. *)
LEMMA ConsumeOf ==
  ASSUME NEW trade \in Trade, NEW acc \in Walk, NEW lot \in Lot
  PROVE  \/ /\ acc.left = 0
            /\ Consume(trade, acc, lot) = PassedBy(acc, lot)
         \/ /\ acc.left > 0
            /\ \E qty \in Nat \ {0} :
                 /\ qty <= acc.left /\ qty <= lot.remaining
                 /\ qty < lot.remaining => qty = acc.left
                 /\ Consume(trade, acc, lot) = Taking(trade, acc, lot, qty)
<1>1. acc.left \in Nat /\ lot.remaining \in Nat \ {0}
  BY DEF Walk, Lot
<1>2. CASE acc.left = 0
  <2>1. Consume(trade, acc, lot) = [acc EXCEPT !.kept = Append(acc.kept, lot)]
    BY <1>2 DEF Consume
  <2>2. [acc EXCEPT !.kept = Append(acc.kept, lot)] = PassedBy(acc, lot)
    <3>1. acc = [left |-> acc.left, pnl |-> acc.pnl, pairs |-> acc.pairs,
                 kept |-> acc.kept]
      BY DEF Walk
    <3>2. \A l, p, r, k, n : [[left |-> l, pnl |-> p, pairs |-> r, kept |-> k]
                               EXCEPT !.kept = n]
                              = [left |-> l, pnl |-> p, pairs |-> r, kept |-> n]
      OBVIOUS
    <3> QED
      BY <3>1, <3>2 DEF PassedBy
  <2> QED
    BY <1>2, <2>1, <2>2
<1>3. CASE acc.left > 0
  <2> DEFINE m == Smaller(acc.left, lot.remaining)
  <2>1. /\ m \in Nat \ {0} /\ m <= acc.left /\ m <= lot.remaining
        /\ m < lot.remaining => m = acc.left
    BY <1>1, <1>3 DEF Smaller
  <2>2. Consume(trade, acc, lot) = Taking(trade, acc, lot, m)
    BY <1>3 DEF Consume, Taking, Remains
  <2> HIDE DEF m
  <2> QED
    BY <1>3, <2>1, <2>2
<1> QED
  BY <1>1, <1>2, <1>3

LEMMA ConsumeType ==
  ASSUME NEW trade \in Trade, NEW acc \in Walk, NEW lot \in Lot
  PROVE  Consume(trade, acc, lot) \in Walk
<1>1. /\ acc.left \in Nat /\ acc.pnl \in Fraction /\ acc.pairs \in Seq(Pairs)
      /\ acc.kept \in Seq(Lot) /\ lot.price \in Fraction /\ lot.remaining \in Nat
  BY DEF Walk, Lot
<1>2. CASE Consume(trade, acc, lot) = PassedBy(acc, lot)
  <2>1. Append(acc.kept, lot) \in Seq(Lot)
    BY <1>1, AppendProperties
  <2> QED
    BY <1>1, <1>2, <2>1 DEF Walk, PassedBy
<1>3. ASSUME NEW qty \in Nat \ {0}, qty <= acc.left, qty <= lot.remaining,
             Consume(trade, acc, lot) = Taking(trade, acc, lot, qty)
      PROVE  Consume(trade, acc, lot) \in Walk
  <2>1. acc.left - qty \in Nat
    BY <1>1, <1>3
  <2>2. Plus(acc.pnl, Gain(trade, lot, qty)) \in Fraction
    BY <1>1, GainType, PlusType
  <2>3. Append(acc.pairs, <<lot.price, qty>>) \in Seq(Pairs)
    <3>1. <<lot.price, qty>> \in Pairs
      BY <1>1 DEF Pairs
    <3> QED
      BY <1>1, <3>1, AppendProperties
  <2>4. CASE qty = lot.remaining
    BY <1>1, <1>3, <2>1, <2>2, <2>3, <2>4 DEF Walk, Taking
  <2>5. CASE qty # lot.remaining
    <3>1. Remains(lot, qty) \in Lot
      BY <1>1, <1>3, <2>5 DEF Lot, Remains
    <3>2. Append(acc.kept, Remains(lot, qty)) \in Seq(Lot)
      BY <1>1, <3>1, AppendProperties
    <3> QED
      BY <1>1, <1>3, <2>1, <2>2, <2>3, <2>5, <3>2 DEF Walk, Taking
  <2> QED
    BY <2>4, <2>5
<1> QED
  BY <1>2, <1>3, ConsumeOf

LEMMA ConsumedIsFold ==
  ASSUME NEW trade \in Trade, NEW q \in Seq(Lot)
  PROVE  FoldValue(Consuming(trade), Untouched(trade), q, Consumed(trade, q)) /\ Consumed(trade, q) \in Walk
<1> DEFINE S == DOMAIN q
           Is(f) == f = [s \in SUBSET S |->
                           IF s = {} THEN Untouched(trade) ELSE Consume(trade, f[s \ {Max(s)}], q[Max(s)])]
           h == CHOOSE h : Is(h)
<1>1. \A v \in Walk, x \in Lot : /\ Consuming(trade)[<<v, x>>] = Consume(trade, v, x)
                               /\ Consuming(trade)[<<v, x>>] \in Walk
  BY ConsumeType DEF Consuming
<1>2. Untouched(trade) \in Walk
  BY UntouchedType
<1>3. \A s \in SUBSET S : s # {} => q[Max(s)] \in Lot /\ s \ {Max(s)} \in SUBSET S
  BY IndicesAreFinite, ElementOfSeq, LenProperties
<1>4. PICK g : /\ FoldsAlong(Consuming(trade), Untouched(trade), q, g)
               /\ \A s \in SUBSET S : g[s] \in Walk
  BY <1>1, <1>2, FoldAlongExists
<1>5. Is(g)
  <2>1. g = [s \in SUBSET S |->
               IF s = {} THEN Untouched(trade) ELSE Consuming(trade)[<<g[s \ {Max(s)}], q[Max(s)]>>]]
    BY <1>4 DEF FoldsAlong
  <2>2. \A s \in SUBSET S : s # {} =>
          Consuming(trade)[<<g[s \ {Max(s)}], q[Max(s)]>>] = Consume(trade, g[s \ {Max(s)}], q[Max(s)])
    BY <1>1, <1>3, <1>4
  <2> HIDE DEF S
  <2> QED
    BY <2>1, <2>2
<1>6. Is(h)
  BY <1>5
<1>7. Consumed(trade, q) = h[S]
  BY Zenon DEF Consumed, FoldLeft, MapThenFoldSet
<1> HIDE DEF h
<1>8. \A s \in SUBSET S : h[s] \in Walk
  <2>1. h[{}] \in Walk
    BY <1>2, <1>6
  <2>2. \A s \in SUBSET S : s # {} => h[s] = Consume(trade, h[s \ {Max(s)}], q[Max(s)])
    BY <1>6
  <2>3. ASSUME NEW s \in SUBSET S, s # {}, h[s \ {Max(s)}] \in Walk
        PROVE  h[s] \in Walk
    <3>1. /\ h[s] = Consume(trade, h[s \ {Max(s)}], q[Max(s)])
          /\ q[Max(s)] \in Lot
      BY <1>3, <2>2, <2>3
    <3> HIDE DEF S
    <3> QED
      BY <1>1, <2>3, <3>1
  <2> QED
    BY <2>1, <2>3, TypeAlong
<1>9. FoldsAlong(Consuming(trade), Untouched(trade), q, h)
  <2>1. \A s \in SUBSET S : s # {} =>
          Consuming(trade)[<<h[s \ {Max(s)}], q[Max(s)]>>] = Consume(trade, h[s \ {Max(s)}], q[Max(s)])
    BY <1>1, <1>3, <1>8
  <2>2. h = [s \in SUBSET S |->
               IF s = {} THEN Untouched(trade) ELSE Consuming(trade)[<<h[s \ {Max(s)}], q[Max(s)]>>]]
    <3> HIDE DEF S
    <3> QED
      BY <1>6, <2>1
  <2> QED
    BY <2>2 DEF FoldsAlong
<1> QED
  BY <1>7, <1>8, <1>9 DEF FoldValue

(* How the walks go on by a lot. *)
LEMMA RemainingOf ==
  /\ TotalRemaining(<< >>) = 0
  /\ \A q \in Seq(Lot), x \in Lot :
       /\ TotalRemaining(q) \in Nat
       /\ TotalRemaining(Append(q, x)) = TotalRemaining(q) + x.remaining
<1>1. << >> \in Seq(Lot)
  BY EmptySeq
<1>2. TotalRemaining(<< >>) = 0
  BY <1>1, RemainingIsFold, FoldOfNothing
<1>3. ASSUME NEW q \in Seq(Lot), NEW x \in Lot
      PROVE  /\ TotalRemaining(q) \in Nat
             /\ TotalRemaining(Append(q, x)) = TotalRemaining(q) + x.remaining
  <2>1. Append(q, x) \in Seq(Lot)
    BY AppendProperties
  <2>2. /\ TotalRemaining(q) \in Nat
        /\ FoldValue(AddRemaining, 0, q, TotalRemaining(q))
        /\ FoldValue(AddRemaining, 0, Append(q, x), TotalRemaining(Append(q, x)))
    BY <2>1, RemainingIsFold
  <2>3. TotalRemaining(Append(q, x)) = AddRemaining[<<TotalRemaining(q), x>>]
    BY <2>2, FoldOfAppend
  <2> QED
    BY <2>2, <2>3 DEF AddRemaining
<1> QED
  BY <1>2, <1>3

LEMMA CostOf ==
  /\ TotalCost(<< >>) = Zero
  /\ \A q \in Seq(Lot), x \in Lot :
       /\ TotalCost(q) \in Fraction
       /\ TotalCost(Append(q, x)) = Plus(TotalCost(q), Times(x.remaining, x.price))
<1>1. << >> \in Seq(Lot)
  BY EmptySeq
<1>2. TotalCost(<< >>) = Zero
  BY <1>1, CostIsFold, FoldOfNothing
<1>3. ASSUME NEW q \in Seq(Lot), NEW x \in Lot
      PROVE  /\ TotalCost(q) \in Fraction
             /\ TotalCost(Append(q, x)) = Plus(TotalCost(q), Times(x.remaining, x.price))
  <2>1. Append(q, x) \in Seq(Lot)
    BY AppendProperties
  <2>2. /\ TotalCost(q) \in Fraction
        /\ FoldValue(AddCost, Zero, q, TotalCost(q))
        /\ FoldValue(AddCost, Zero, Append(q, x), TotalCost(Append(q, x)))
    BY <2>1, CostIsFold
  <2>3. TotalCost(Append(q, x)) = AddCost[<<TotalCost(q), x>>]
    BY <2>2, FoldOfAppend
  <2> QED
    BY <2>2, <2>3 DEF AddCost
<1> QED
  BY <1>2, <1>3

LEMMA UnitsOf ==
  /\ Units(<< >>) = << >>
  /\ \A q \in Seq(Pairs), x \in Pairs :
       /\ Units(q) \in Seq(Fraction)
       /\ Units(Append(q, x)) = Units(q) \o [k \in 1 .. x[2] |-> x[1]]
<1>1. << >> \in Seq(Pairs)
  BY EmptySeq
<1>2. Units(<< >>) = << >>
  BY <1>1, UnitsIsFold, FoldOfNothing
<1>3. ASSUME NEW q \in Seq(Pairs), NEW x \in Pairs
      PROVE  /\ Units(q) \in Seq(Fraction)
             /\ Units(Append(q, x)) = Units(q) \o [k \in 1 .. x[2] |-> x[1]]
  <2>1. Append(q, x) \in Seq(Pairs)
    BY AppendProperties
  <2>2. /\ Units(q) \in Seq(Fraction)
        /\ FoldValue(AddUnits, << >>, q, Units(q))
        /\ FoldValue(AddUnits, << >>, Append(q, x), Units(Append(q, x)))
    BY <2>1, UnitsIsFold
  <2>3. Units(Append(q, x)) = AddUnits[<<Units(q), x>>]
    BY <2>2, FoldOfAppend
  <2> QED
    BY <2>2, <2>3 DEF AddUnits
<1> QED
  BY <1>2, <1>3

LEMMA ConsumedOf ==
  ASSUME NEW trade \in Trade
  PROVE
  /\ Consumed(trade, << >>) = Untouched(trade)
  /\ \A q \in Seq(Lot), x \in Lot :
       /\ Consumed(trade, q) \in Walk
       /\ Consumed(trade, Append(q, x)) = Consume(trade, Consumed(trade, q), x)
<1>1. << >> \in Seq(Lot)
  BY EmptySeq
<1>2. Consumed(trade, << >>) = Untouched(trade)
  BY <1>1, ConsumedIsFold, FoldOfNothing
<1>3. ASSUME NEW q \in Seq(Lot), NEW x \in Lot
      PROVE  /\ Consumed(trade, q) \in Walk
             /\ Consumed(trade, Append(q, x)) = Consume(trade, Consumed(trade, q), x)
  <2>1. Append(q, x) \in Seq(Lot)
    BY AppendProperties
  <2>2. /\ Consumed(trade, q) \in Walk
        /\ FoldValue(Consuming(trade), Untouched(trade), q, Consumed(trade, q))
        /\ FoldValue(Consuming(trade), Untouched(trade), Append(q, x), Consumed(trade, Append(q, x)))
    BY <2>1, ConsumedIsFold
  <2>3. Consumed(trade, Append(q, x)) = Consuming(trade)[<<Consumed(trade, q), x>>]
    BY <2>2, FoldOfAppend
  <2> QED
    BY <2>2, <2>3 DEF Consuming
<1> QED
  BY <1>2, <1>3

------------------------------------------------------------------------------
(* Queues joined and turned around *)

(* The units, the number and the cost of lots taken end to end, and turned *)
(* round.                                                                  *)
LEMMA OneLot ==
  ASSUME NEW x \in Lot
  PROVE  /\ TotalRemaining(<<x>>) = x.remaining
         /\ TotalCost(<<x>>) = Plus(Zero, Times(x.remaining, x.price))
<1>1. << >> \in Seq(Lot) /\ <<x>> = Append(<< >>, x)
  BY EmptySeq, ConcatAppend
<1>2. TotalRemaining(<<x>>) = 0 + x.remaining
  BY <1>1, RemainingOf
<1>3. x.remaining \in Nat
  BY DEF Lot
<1>4. TotalRemaining(<<x>>) = x.remaining
  BY <1>2, <1>3
<1>5. TotalCost(Append(<< >>, x)) = Plus(TotalCost(<< >>), Times(x.remaining, x.price))
  BY <1>1, CostOf
<1>6. TotalCost(<< >>) = Zero
  BY CostOf
<1> QED
  BY <1>1, <1>4, <1>5, <1>6

LEMMA RemainingConcat ==
  ASSUME NEW p \in Seq(Lot), NEW q \in Seq(Lot)
  PROVE  TotalRemaining(p \o q) = TotalRemaining(p) + TotalRemaining(q)
<1> DEFINE Good == {r \in Seq(Lot) :
                      TotalRemaining(p \o r) = TotalRemaining(p) + TotalRemaining(r)}
<1>1. << >> \in Good
  <2>1. p \o << >> = p /\ << >> \in Seq(Lot)
    BY ConcatEmptySeq, EmptySeq
  <2>2. TotalRemaining(p) \in Nat
    BY RemainingIsFold
  <2> QED
    BY <2>1, <2>2, RemainingOf
<1>2. ASSUME NEW r \in Seq(Lot), NEW x \in Lot, r \in Good
      PROVE  Append(r, x) \in Good
  <2>1. p \o r \in Seq(Lot) /\ p \o Append(r, x) = Append(p \o r, x)
        /\ Append(r, x) \in Seq(Lot)
    BY ConcatProperties, ConcatAppend, AppendProperties
  <2>2. /\ TotalRemaining(Append(p \o r, x)) = TotalRemaining(p \o r) + x.remaining
        /\ TotalRemaining(Append(r, x)) = TotalRemaining(r) + x.remaining
        /\ TotalRemaining(p) \in Nat /\ TotalRemaining(r) \in Nat
    BY <2>1, RemainingOf, RemainingIsFold
  <2>3. x.remaining \in Nat
    BY DEF Lot
  <2>4. TotalRemaining(p \o r) = TotalRemaining(p) + TotalRemaining(r)
    BY <1>2
  <2>5. TotalRemaining(p \o Append(r, x)) = TotalRemaining(p) + (TotalRemaining(r) + x.remaining)
    <3> HIDE DEF Good
    <3> QED
      BY <2>1, <2>2, <2>3, <2>4
  <2>6. TotalRemaining(p \o Append(r, x)) = TotalRemaining(p) + TotalRemaining(Append(r, x))
    BY <2>2, <2>5
  <2> QED
    BY <2>1, <2>6
<1>3. Seq(Lot) \subseteq Good
  <2> HIDE DEF Good
  <2> QED
    BY <1>1, <1>2, SequenceInduction
<1> QED
  BY <1>3

LEMMA RemainingReverse ==
  ASSUME NEW q \in Seq(Lot)
  PROVE  TotalRemaining(Reverse(q)) = TotalRemaining(q)
<1> DEFINE Good == {r \in Seq(Lot) : TotalRemaining(Reverse(r)) = TotalRemaining(r)}
<1>1. << >> \in Good
  BY ReverseOfNothing, EmptySeq
<1>2. ASSUME NEW r \in Seq(Lot), NEW x \in Lot, r \in Good
      PROVE  Append(r, x) \in Good
  <2> DEFINE one == <<x>>
  <2>1. one \in Seq(Lot) /\ Reverse(r) \in Seq(Lot) /\ Append(r, x) \in Seq(Lot)
    BY ReverseOf, AppendProperties
  <2>2. Reverse(Append(r, x)) = one \o Reverse(r)
    BY ReverseAppend
  <2>3. TotalRemaining(one) = x.remaining
    BY OneLot
  <2> HIDE DEF one
  <2>4. TotalRemaining(one \o Reverse(r)) = TotalRemaining(one) + TotalRemaining(Reverse(r))
    BY <2>1, RemainingConcat
  <2>5. TotalRemaining(Append(r, x)) = TotalRemaining(r) + x.remaining
    BY RemainingOf
  <2>6. x.remaining \in Nat /\ TotalRemaining(r) \in Nat
    BY RemainingOf DEF Lot
  <2>7. TotalRemaining(Reverse(r)) = TotalRemaining(r)
    BY <1>2
  <2>8. TotalRemaining(Reverse(Append(r, x))) = x.remaining + TotalRemaining(r)
    BY <2>2, <2>3, <2>4, <2>7
  <2>9. TotalRemaining(Reverse(Append(r, x))) = TotalRemaining(Append(r, x))
    BY <2>5, <2>6, <2>8
  <2> QED
    BY <2>1, <2>9
<1>3. Seq(Lot) \subseteq Good
  <2> HIDE DEF Good
  <2> QED
    BY <1>1, <1>2, SequenceInduction
<1> QED
  BY <1>3

(* What they cost, too. *)
LEMMA CostConcat ==
  ASSUME NEW p \in Seq(Lot), NEW q \in Seq(Lot)
  PROVE  Same(TotalCost(p \o q), Plus(TotalCost(p), TotalCost(q)))
<1> DEFINE Good == {r \in Seq(Lot) :
                      Same(TotalCost(p \o r), Plus(TotalCost(p), TotalCost(r)))}
<1>1. << >> \in Good
  <2>1. p \o << >> = p /\ << >> \in Seq(Lot)
    BY ConcatEmptySeq, EmptySeq
  <2>2. TotalCost(p) \in Fraction
    BY CostIsFold
  <2>3. Same(TotalCost(p), Plus(TotalCost(p), Zero))
    BY <2>2, SamePlusZero
  <2> QED
    BY <2>1, <2>3, CostOf
<1>2. ASSUME NEW r \in Seq(Lot), NEW x \in Lot, r \in Good
      PROVE  Append(r, x) \in Good
  <2>1. p \o r \in Seq(Lot) /\ p \o Append(r, x) = Append(p \o r, x)
        /\ Append(r, x) \in Seq(Lot)
    BY ConcatProperties, ConcatAppend, AppendProperties
  <2> DEFINE w == Times(x.remaining, x.price)
  <2>2. /\ TotalCost(Append(p \o r, x)) = Plus(TotalCost(p \o r), w)
        /\ TotalCost(Append(r, x)) = Plus(TotalCost(r), w)
        /\ TotalCost(p) \in Fraction /\ TotalCost(r) \in Fraction
        /\ TotalCost(p \o r) \in Fraction /\ w \in Fraction
    <3>1. x.remaining \in Int /\ x.price \in Fraction
      BY DEF Lot
    <3>2. w \in Fraction
      BY <3>1, TimesType
    <3> QED
      BY <2>1, <3>2, CostOf, CostIsFold
  <2> HIDE DEF w
  <2>3. Same(TotalCost(p \o r), Plus(TotalCost(p), TotalCost(r)))
    BY <1>2
  <2>4. Same(Plus(TotalCost(p \o r), w), Plus(TotalCost(p), Plus(TotalCost(r), w)))
    BY <2>2, <2>3, PlusRegroups
  <2> QED
    BY <2>1, <2>2, <2>4
<1>3. Seq(Lot) \subseteq Good
  <2> HIDE DEF Good
  <2> QED
    BY <1>1, <1>2, SequenceInduction
<1> QED
  BY <1>3

LEMMA CostReverse ==
  ASSUME NEW q \in Seq(Lot)
  PROVE  Same(TotalCost(Reverse(q)), TotalCost(q))
<1> DEFINE Good == {r \in Seq(Lot) : Same(TotalCost(Reverse(r)), TotalCost(r))}
<1>1. << >> \in Good
  <2>1. << >> \in Seq(Lot)
    BY EmptySeq
  <2>2. Same(TotalCost(<< >>), TotalCost(<< >>))
    BY DEF Same
  <2> QED
    BY <2>1, <2>2, ReverseOfNothing
<1>2. ASSUME NEW r \in Seq(Lot), NEW x \in Lot, r \in Good
      PROVE  Append(r, x) \in Good
  <2> DEFINE one == <<x>>
             w == Times(x.remaining, x.price)
  <2>1. /\ one \in Seq(Lot) /\ Reverse(r) \in Seq(Lot) /\ Append(r, x) \in Seq(Lot)
        /\ one \o Reverse(r) \in Seq(Lot)
    BY ReverseOf, AppendProperties, ConcatProperties
  <2>2. Reverse(Append(r, x)) = one \o Reverse(r)
    BY ReverseAppend
  <2>3. TotalCost(one) = Plus(Zero, w)
    BY OneLot
  <2>4. w \in Fraction
    <3>1. x.remaining \in Int /\ x.price \in Fraction
      BY DEF Lot
    <3> QED
      BY <3>1, TimesType
  <2>5. TotalCost(Append(r, x)) = Plus(TotalCost(r), w)
    BY CostOf
  <2>6. Same(TotalCost(Reverse(r)), TotalCost(r))
    BY <1>2
  <2> HIDE DEF one, w
  <2>7. Same(TotalCost(one \o Reverse(r)), Plus(Plus(Zero, w), TotalCost(Reverse(r))))
    BY <2>1, <2>3, CostConcat
  <2>8. /\ TotalCost(one \o Reverse(r)) \in Fraction
        /\ TotalCost(Reverse(r)) \in Fraction /\ TotalCost(r) \in Fraction
    BY <2>1, CostIsFold
  <2>9. Same(TotalCost(one \o Reverse(r)), Plus(TotalCost(r), w))
    BY <2>4, <2>6, <2>7, <2>8, SwappedSum
  <2> QED
    BY <2>1, <2>2, <2>5, <2>9
<1>3. Seq(Lot) \subseteq Good
  <2> HIDE DEF Good
  <2> QED
    BY <1>1, <1>2, SequenceInduction
<1> QED
  BY <1>3

(* The units of one lot. *)
Block(pair) == [k \in 1 .. pair[2] |-> pair[1]]

LEMMA BlockType ==
  ASSUME NEW x \in Pairs
  PROVE  /\ Block(x) \in Seq(Fraction) /\ Len(Block(x)) = x[2]
         /\ \A k \in 1 .. x[2] : Block(x)[k] = x[1]
         /\ Reverse(Block(x)) = Block(x)
<1>1. x[1] \in Fraction /\ x[2] \in Nat
  BY DEF Pairs
<1>2. Block(x) \in [1 .. x[2] -> Fraction]
  BY <1>1 DEF Block
<1>3. Block(x) \in Seq(Fraction)
  BY <1>1, <1>2, SeqDef
<1>4. Len(Block(x)) = x[2]
  BY <1>1, <1>2, <1>3, LenProperties
<1>5. Reverse(Block(x)) = Block(x)
  <2>1. Reverse(Block(x)) = [i \in 1 .. x[2] |-> Block(x)[(x[2] - i) + 1]]
    BY <1>4 DEF Reverse
  <2>2. \A i \in 1 .. x[2] : (x[2] - i) + 1 \in 1 .. x[2]
    BY <1>1
  <2> QED
    BY <2>1, <2>2 DEF Block
<1> QED
  BY <1>3, <1>4, <1>5 DEF Block

(* The units of two lists, and of one turned around. *)
LEMMA UnitsAppend ==
  ASSUME NEW r \in Seq(Pairs), NEW x \in Pairs
  PROVE  /\ Units(r) \in Seq(Fraction)
         /\ Units(Append(r, x)) = Units(r) \o Block(x)
  BY UnitsOf DEF Block

LEMMA UnitsConcat ==
  ASSUME NEW p \in Seq(Pairs), NEW q \in Seq(Pairs)
  PROVE  Units(p \o q) = Units(p) \o Units(q)
<1> DEFINE Good == {r \in Seq(Pairs) : Units(p \o r) = Units(p) \o Units(r)}
<1>1. << >> \in Good
  <2>1. p \o << >> = p /\ << >> \in Seq(Pairs) /\ Units(p) \in Seq(Fraction)
    BY ConcatEmptySeq, EmptySeq, UnitsIsFold
  <2>2. Units(p) \o << >> = Units(p)
    BY <2>1, ConcatEmptySeq
  <2> QED
    BY <2>1, <2>2, UnitsOf
<1>2. ASSUME NEW r \in Seq(Pairs), NEW x \in Pairs, r \in Good
      PROVE  Append(r, x) \in Good
  <2>1. p \o r \in Seq(Pairs) /\ p \o Append(r, x) = Append(p \o r, x)
        /\ Append(r, x) \in Seq(Pairs)
    BY ConcatProperties, ConcatAppend, AppendProperties
  <2>2. /\ Units(Append(p \o r, x)) = Units(p \o r) \o Block(x)
        /\ Units(Append(r, x)) = Units(r) \o Block(x)
        /\ Units(p) \in Seq(Fraction) /\ Units(r) \in Seq(Fraction)
        /\ Block(x) \in Seq(Fraction)
    BY <2>1, UnitsAppend, BlockType
  <2>3. (Units(p) \o Units(r)) \o Block(x) = Units(p) \o (Units(r) \o Block(x))
    BY <2>2, ConcatAssociative
  <2>4. Units(p \o r) = Units(p) \o Units(r)
    BY <1>2
  <2>5. Units(p \o Append(r, x)) = Units(p) \o Units(Append(r, x))
    BY <2>1, <2>2, <2>3, <2>4
  <2> QED
    BY <2>1, <2>5
<1>3. Seq(Pairs) \subseteq Good
  <2> HIDE DEF Good
  <2> QED
    BY <1>1, <1>2, SequenceInduction
<1> QED
  BY <1>3

LEMMA UnitsReverse ==
  ASSUME NEW q \in Seq(Pairs)
  PROVE  Units(Reverse(q)) = Reverse(Units(q))
<1> DEFINE Good == {r \in Seq(Pairs) : Units(Reverse(r)) = Reverse(Units(r))}
<1>1. << >> \in Good
  BY UnitsOf, ReverseOfNothing, EmptySeq
<1>2. ASSUME NEW r \in Seq(Pairs), NEW x \in Pairs, r \in Good
      PROVE  Append(r, x) \in Good
  <2> DEFINE one == <<x>>
  <2>1. one \in Seq(Pairs) /\ Reverse(r) \in Seq(Pairs) /\ Append(r, x) \in Seq(Pairs)
    BY ReverseOf, AppendProperties
  <2>2. Reverse(Append(r, x)) = one \o Reverse(r)
    BY ReverseAppend
  <2>3. Units(one) = Block(x)
    <3>1. one = Append(<< >>, x) /\ << >> \in Seq(Pairs) /\ Block(x) \in Seq(Fraction)
      BY ConcatAppend, EmptySeq, BlockType
    <3>2. Units(one) = << >> \o Block(x)
      BY <3>1, UnitsAppend, UnitsOf
    <3> QED
      BY <3>1, <3>2, ConcatEmptySeq
  <2> HIDE DEF one
  <2>4. Units(one \o Reverse(r)) = Block(x) \o Units(Reverse(r))
    BY <2>1, <2>3, UnitsConcat
  <2>5. Units(Append(r, x)) = Units(r) \o Block(x) /\ Units(r) \in Seq(Fraction)
        /\ Block(x) \in Seq(Fraction) /\ Reverse(Block(x)) = Block(x)
    BY UnitsAppend, BlockType
  <2>6. Reverse(Units(r) \o Block(x)) = Reverse(Block(x)) \o Reverse(Units(r))
    BY <2>5, ReverseConcat
  <2>7. Units(Reverse(Append(r, x))) = Reverse(Units(Append(r, x)))
    BY <1>2, <2>2, <2>4, <2>5, <2>6
  <2> QED
    BY <2>1, <2>7
<1>3. Seq(Pairs) \subseteq Good
  <2> HIDE DEF Good
  <2> QED
    BY <1>1, <1>2, SequenceInduction
<1> QED
  BY <1>3

(* The pairs of a queue, and how many units they are. *)
LEMMA AsPairsOf ==
  ASSUME NEW q \in Seq(Lot)
  PROVE  /\ AsPairs(q) \in Seq(Pairs)
         /\ AsPairs(Reverse(q)) = Reverse(AsPairs(q))
         /\ \A x \in Lot : /\ <<x.price, x.remaining>> \in Pairs
                           /\ AsPairs(Append(q, x)) = Append(AsPairs(q), <<x.price, x.remaining>>)
<1> DEFINE n == Len(q)
<1>1. n \in Nat /\ DOMAIN q = 1 .. n /\ \A i \in 1 .. n : q[i] \in Lot
  BY LenProperties, ElementOfSeq
<1>2. \A x \in Lot : <<x.price, x.remaining>> \in Pairs
  BY DEF Lot, Pairs
<1>3. /\ AsPairs(q) = [i \in 1 .. n |-> <<q[i].price, q[i].remaining>>]
      /\ AsPairs(q) \in [1 .. n -> Pairs]
  BY <1>1, <1>2 DEF AsPairs
<1>4. AsPairs(q) \in Seq(Pairs) /\ Len(AsPairs(q)) = n
  <2>1. AsPairs(q) \in Seq(Pairs)
    BY <1>1, <1>3, SeqDef
  <2> QED
    BY <1>1, <1>3, <2>1, LenProperties
<1>5. AsPairs(Reverse(q)) = Reverse(AsPairs(q))
  <2>1. /\ Reverse(q) = [i \in 1 .. n |-> q[(n - i) + 1]]
        /\ Reverse(AsPairs(q)) = [i \in 1 .. n |-> AsPairs(q)[(n - i) + 1]]
    BY <1>4 DEF Reverse
  <2>2. \A i \in 1 .. n : (n - i) + 1 \in 1 .. n
    BY <1>1
  <2>3. AsPairs(Reverse(q)) = [i \in 1 .. n |-> <<Reverse(q)[i].price, Reverse(q)[i].remaining>>]
    BY <2>1 DEF AsPairs
  <2>4. \A i \in 1 .. n : /\ Reverse(q)[i] = q[(n - i) + 1]
                          /\ AsPairs(q)[(n - i) + 1] =
                               <<q[(n - i) + 1].price, q[(n - i) + 1].remaining>>
    BY <1>3, <2>1, <2>2
  <2> QED
    BY <2>1, <2>3, <2>4
<1>6. ASSUME NEW x \in Lot
      PROVE  AsPairs(Append(q, x)) = Append(AsPairs(q), <<x.price, x.remaining>>)
  <2> DEFINE e == <<x.price, x.remaining>>
             r == Append(q, x)
             v == AsPairs(r)
             w == Append(AsPairs(q), e)
  <2>1. /\ r \in Seq(Lot) /\ Len(r) = n + 1 /\ r[n + 1] = x
        /\ \A i \in 1 .. n : r[i] = q[i]
    BY AppendProperties
  <2>2. DOMAIN r = 1 .. n + 1 /\ \A i \in 1 .. n + 1 : r[i] \in Lot
    BY <1>1, <2>1, LenProperties, ElementOfSeq
  <2>3. e \in Pairs
    BY <1>2
  <2> HIDE DEF r, n
  <2>4. /\ v = [i \in 1 .. n + 1 |-> <<r[i].price, r[i].remaining>>]
        /\ v \in [1 .. n + 1 -> Pairs]
    BY <1>2, <2>2 DEF AsPairs
  <2>5. v \in Seq(Pairs) /\ Len(v) = n + 1
    <3>1. n + 1 \in Nat
      BY <1>1
    <3> HIDE DEF v
    <3>2. v \in Seq(Pairs)
      BY <2>4, <3>1, SeqDef
    <3> QED
      BY <2>4, <3>1, <3>2, LenProperties
  <2> HIDE DEF e, v, w
  <2>6. /\ w \in Seq(Pairs) /\ Len(w) = n + 1 /\ w[n + 1] = e
        /\ \A i \in 1 .. n : w[i] = AsPairs(q)[i]
    BY <1>4, <2>3, AppendProperties DEF w
  <2>7. \A i \in 1 .. n + 1 : v[i] = w[i]
    <3> SUFFICES ASSUME NEW i \in 1 .. n + 1 PROVE v[i] = w[i]
      OBVIOUS
    <3>1. CASE i = n + 1
      BY <2>1, <2>4, <2>6, <3>1 DEF e
    <3>2. CASE i # n + 1
      <4>1. i \in 1 .. n
        BY <1>1, <3>2
      <4>2. r[i] = q[i] /\ w[i] = <<q[i].price, q[i].remaining>>
        BY <1>3, <2>1, <2>6, <4>1
      <4>3. v[i] = <<r[i].price, r[i].remaining>>
        BY <2>4
      <4> QED
        BY <4>2, <4>3
    <3> QED
      BY <3>1, <3>2
  <2>8. v = w
    BY <2>5, <2>6, <2>7, SeqEqual
  <2> QED
    BY <2>8 DEF v, w, e, r
<1> QED
  BY <1>2, <1>4, <1>5, <1>6

LEMMA CountOfUnits ==
  ASSUME NEW q \in Seq(Lot)
  PROVE  /\ Units(AsPairs(q)) \in Seq(Fraction)
         /\ Len(Units(AsPairs(q))) = TotalRemaining(q)
<1> DEFINE Good == {r \in Seq(Lot) : Len(Units(AsPairs(r))) = TotalRemaining(r)}
<1>1. << >> \in Good
  <2>1. << >> \in Seq(Lot) /\ AsPairs(<< >>) = << >>
    BY EmptySeq DEF AsPairs
  <2> QED
    BY <2>1, UnitsOf, RemainingOf
<1>2. ASSUME NEW r \in Seq(Lot), NEW x \in Lot, r \in Good
      PROVE  Append(r, x) \in Good
  <2> DEFINE e == <<x.price, x.remaining>>
             t == AsPairs(r)
  <2>1. t \in Seq(Pairs) /\ e \in Pairs /\ AsPairs(Append(r, x)) = Append(t, e)
        /\ Append(r, x) \in Seq(Lot) /\ e[2] = x.remaining
    BY AsPairsOf, AppendProperties
  <2> HIDE DEF e, t
  <2>2. /\ Units(t) \in Seq(Fraction) /\ Units(Append(t, e)) = Units(t) \o Block(e)
        /\ Block(e) \in Seq(Fraction) /\ Len(Block(e)) = x.remaining
    BY <2>1, UnitsAppend, BlockType
  <2>3. Len(Units(Append(t, e))) = Len(Units(t)) + x.remaining
    <3>1. Len(Units(t) \o Block(e)) = Len(Units(t)) + Len(Block(e))
      BY <2>2, ConcatProperties
    <3> QED
      BY <2>2, <3>1
  <2>4. TotalRemaining(Append(r, x)) = TotalRemaining(r) + x.remaining
    BY RemainingOf
  <2>5. Len(Units(t)) = TotalRemaining(r)
    BY <1>2 DEF t
  <2> QED
    BY <2>1, <2>3, <2>4, <2>5
<1>3. Seq(Lot) \subseteq Good
  <2> HIDE DEF Good
  <2> QED
    BY <1>1, <1>2, SequenceInduction
<1>4. AsPairs(q) \in Seq(Pairs)
  BY AsPairsOf
<1> QED
  BY <1>3, <1>4, UnitsIsFold

------------------------------------------------------------------------------
(* The matching loop *)

(* What has been kept is what the end of the queue was, and less of it.    *)
Trails(kept, q) ==
  /\ Len(kept) <= Len(q)
  /\ \A i \in 1 .. Len(kept) :
       LET lot == q[(Len(q) - Len(kept)) + i]
       IN /\ kept[i].trade_id = lot.trade_id
          /\ kept[i].quantity = lot.quantity
          /\ kept[i].remaining <= lot.remaining

(* The invariant of the matching loop, after the lots of q.                *)
Underway(trade, q, acc) ==
  /\ acc \in Walk
  /\ acc.left <= trade.quantity
  /\ acc.left > 0 => acc.kept = << >>
  /\ TotalRemaining(acc.kept) + (trade.quantity - acc.left) = TotalRemaining(q)
  /\ Trails(acc.kept, q)
  /\ trade.side = "Sell" =>
       Same(Plus(acc.pnl, TotalCost(q)),
            Plus(TotalCost(acc.kept), Whole((trade.quantity - acc.left) * trade.price)))
  /\ Units(acc.pairs) = SubSeq(Units(AsPairs(q)), 1, trade.quantity - acc.left)

LEMMA TrailsAppend ==
  ASSUME NEW kept \in Seq(Lot), NEW q \in Seq(Lot), NEW x \in Lot, NEW y \in Lot,
         Trails(kept, q), x.trade_id = y.trade_id, x.quantity = y.quantity,
         x.remaining <= y.remaining
  PROVE  Trails(Append(kept, x), Append(q, y))
<1> DEFINE m == Len(kept)
           n == Len(q)
           s == Append(kept, x)
           t == Append(q, y)
<1>1. /\ m \in Nat /\ n \in Nat /\ m <= n
      /\ s \in Seq(Lot) /\ Len(s) = m + 1 /\ s[m + 1] = x /\ \A i \in 1 .. m : s[i] = kept[i]
      /\ t \in Seq(Lot) /\ Len(t) = n + 1 /\ t[n + 1] = y /\ \A i \in 1 .. n : t[i] = q[i]
  BY AppendProperties, LenProperties DEF Trails
<1>2. \A i \in 1 .. m : /\ kept[i].trade_id = q[(n - m) + i].trade_id
                        /\ kept[i].quantity = q[(n - m) + i].quantity
                        /\ kept[i].remaining <= q[(n - m) + i].remaining
  BY DEF Trails
<1> HIDE DEF m, n, s, t
<1>3. ASSUME NEW i \in 1 .. m + 1
      PROVE  /\ s[i].trade_id = t[((n + 1) - (m + 1)) + i].trade_id
             /\ s[i].quantity = t[((n + 1) - (m + 1)) + i].quantity
             /\ s[i].remaining <= t[((n + 1) - (m + 1)) + i].remaining
  <2>1. CASE i = m + 1
    <3>1. ((n + 1) - (m + 1)) + i = n + 1
      BY <1>1, <2>1
    <3> QED
      BY <1>1, <2>1, <3>1
  <2>2. CASE i # m + 1
    <3>1. i \in 1 .. m /\ ((n + 1) - (m + 1)) + i = (n - m) + i /\ (n - m) + i \in 1 .. n
      BY <1>1, <2>2
    <3>2. s[i] = kept[i] /\ t[(n - m) + i] = q[(n - m) + i]
      BY <1>1, <3>1
    <3> QED
      BY <1>2, <3>1, <3>2
  <2> QED
    BY <2>1, <2>2
<1>4. m + 1 <= n + 1
  BY <1>1
<1> QED
  BY <1>1, <1>3, <1>4 DEF Trails, s, t

(* The empty sequence trails everything. *)
LEMMA TrailsNothing ==
  ASSUME NEW q \in Seq(Lot)
  PROVE  Trails(<< >>, q)
  BY LenProperties DEF Trails

(* The invariant holds before the first lot, and each lot keeps it. *)
LEMMA UnderwayStarts ==
  ASSUME NEW trade \in Trade
  PROVE  Underway(trade, << >>, Untouched(trade))
<1> DEFINE acc == Untouched(trade)
           n == trade.quantity
<1>1. acc \in Walk /\ n \in Nat \ {0} /\ trade.price \in Nat
  BY UntouchedType, SignedQuantityType
<1>2. acc.left = n /\ acc.kept = << >> /\ acc.pnl = Zero /\ acc.pairs = << >>
  BY DEF Untouched
<1>3. TotalRemaining(<< >>) = 0 /\ TotalCost(<< >>) = Zero /\ Units(<< >>) = << >>
      /\ AsPairs(<< >>) = << >>
  BY RemainingOf, CostOf, UnitsOf DEF AsPairs
<1>4. n - acc.left = 0 /\ 0 * trade.price = 0
  BY <1>1, <1>2
<1>5. Trails(<< >>, << >>)
  BY EmptySeq, TrailsNothing
<1>6. Same(Plus(Zero, Zero), Plus(Zero, Whole(0)))
  BY DEF Same, Zero
<1>7. SubSeq(<< >>, 1, 0) = << >>
  BY SubSeqEmpty
<1> HIDE DEF acc
<1>8. /\ acc.left <= n
      /\ acc.left > 0 => acc.kept = << >>
      /\ TotalRemaining(acc.kept) + (n - acc.left) = TotalRemaining(<< >>)
  BY <1>1, <1>2, <1>3, <1>4
<1>9. Same(Plus(acc.pnl, TotalCost(<< >>)),
           Plus(TotalCost(acc.kept), Whole((n - acc.left) * trade.price)))
  BY <1>2, <1>3, <1>4, <1>6
<1>10. Units(acc.pairs) = SubSeq(Units(AsPairs(<< >>)), 1, n - acc.left)
  BY <1>2, <1>3, <1>4, <1>7
<1>11. Underway(trade, << >>, acc)
  BY <1>1, <1>2, <1>5, <1>8, <1>9, <1>10 DEF Underway
<1> QED
  BY <1>11 DEF acc

(* A lot that is passed by costs the same on both sides. *)
LEMMA PassingCost ==
  ASSUME NEW a \in Fraction, NEW b \in Fraction, NEW c \in Fraction, NEW e \in Fraction,
         NEW n \in Int, Same(Plus(a, b), Plus(c, Whole(n)))
  PROVE  Same(Plus(a, Plus(b, e)), Plus(Plus(c, e), Whole(n)))
<1>1. PICK d \in Nat \ {0}, x \in Int, y \in Int, z \in Int, w \in Int :
        InUnits(a, d, x) /\ InUnits(b, d, y) /\ InUnits(c, d, z) /\ InUnits(e, d, w)
  BY FourCommonUnits
<1>2. n * d \in Int /\ Whole(n) \in Fraction /\ InUnits(Whole(n), d, n * d)
  BY <1>1, ProductType, WholeType, UnitsWhole
<1>3. /\ Plus(a, b) \in Fraction /\ Plus(c, Whole(n)) \in Fraction
      /\ Plus(b, e) \in Fraction /\ Plus(c, e) \in Fraction
      /\ x + y \in Int /\ z + n * d \in Int /\ y + w \in Int /\ z + w \in Int
      /\ x + (y + w) \in Int /\ (z + w) + n * d \in Int
  BY <1>2, PlusType
<1>4. /\ Plus(a, Plus(b, e)) \in Fraction /\ Plus(Plus(c, e), Whole(n)) \in Fraction
  BY <1>2, <1>3, PlusType
<1>5. /\ InUnits(Plus(a, b), d, x + y) /\ InUnits(Plus(c, Whole(n)), d, z + n * d)
      /\ InUnits(Plus(b, e), d, y + w) /\ InUnits(Plus(c, e), d, z + w)
  BY <1>1, <1>2, UnitsPlus
<1>6. /\ InUnits(Plus(a, Plus(b, e)), d, x + (y + w))
      /\ InUnits(Plus(Plus(c, e), Whole(n)), d, (z + w) + n * d)
  BY <1>1, <1>2, <1>3, <1>5, UnitsPlus
<1>7. x + y = z + n * d
  BY <1>3, <1>5, UnitsSame
<1>8. x + (y + w) = (z + w) + n * d
  BY <1>2, <1>7
<1> QED
  BY <1>3, <1>4, <1>6, <1>8, UnitsSame

(* Selling q of r units at a price p that cost e each turns their cost     *)
(* into proceeds and a gain.                                               *)
LEMMA TakingCost ==
  ASSUME NEW a \in Fraction, NEW b \in Fraction, NEW e \in Fraction, NEW v \in Fraction,
         NEW n \in Int, NEW p \in Int, NEW q \in Int, NEW r \in Int,
         Same(Plus(a, b), Plus(Zero, Whole(n * p))), Same(v, Times(r - q, e))
  PROVE  Same(Plus(Plus(a, Times(q, Minus(Whole(p), e))), Plus(b, Times(r, e))),
              Plus(v, Whole((n + q) * p)))
<1>1. PICK d \in Nat \ {0}, x \in Int, y \in Int, z \in Int, w \in Int :
        InUnits(a, d, x) /\ InUnits(b, d, y) /\ InUnits(e, d, z) /\ InUnits(v, d, w)
  BY FourCommonUnits
<1> DEFINE gain == Times(q, Minus(Whole(p), e))
           f == (p * d) - z
           np == n * p
           nqp == (n + q) * p
<1>2. /\ p * d \in Int /\ np \in Int /\ nqp \in Int /\ np * d \in Int /\ nqp * d \in Int
      /\ f \in Int /\ q * f \in Int /\ r * z \in Int /\ (r - q) * z \in Int
      /\ n + q \in Int /\ r - q \in Int
  <2>1. n + q \in Int /\ r - q \in Int /\ p * d \in Int /\ np \in Int
    BY <1>1, ProductType
  <2>2. nqp \in Int /\ f \in Int
    BY <2>1, ProductType
  <2> HIDE DEF np, nqp, f
  <2> QED
    BY <1>1, <2>1, <2>2, ProductType
<1>3. /\ x + y = np * d
      /\ w = (r - q) * z
  <2>1. /\ InUnits(Plus(a, b), d, x + y) /\ Plus(a, b) \in Fraction /\ x + y \in Int
    BY <1>1, UnitsPlus, PlusType
  <2> HIDE DEF np
  <2>2. Whole(np) \in Fraction /\ InUnits(Whole(np), d, np * d)
    BY <1>2, WholeType, UnitsWhole
  <2>3. InUnits(Zero, d, 0)
    BY DEF InUnits, Zero, Whole
  <2>4. InUnits(Plus(Zero, Whole(np)), d, 0 + np * d) /\ 0 + np * d = np * d
        /\ Plus(Zero, Whole(np)) \in Fraction
    BY <1>2, <2>2, <2>3, ZeroType, UnitsPlus, PlusType
  <2>5. Same(Plus(a, b), Plus(Zero, Whole(np)))
    BY DEF np
  <2>6. x + y = np * d
    BY <1>2, <2>1, <2>4, <2>5, UnitsSame
  <2>7. InUnits(Times(r - q, e), d, (r - q) * z) /\ Times(r - q, e) \in Fraction
    BY <1>1, <1>2, UnitsTimes, TimesType
  <2> QED
    BY <1>1, <1>2, <2>6, <2>7, UnitsSame
<1>4. gain \in Fraction /\ InUnits(gain, d, q * f)
  <2>1. Whole(p) \in Fraction /\ InUnits(Whole(p), d, p * d)
    BY <1>1, WholeType, UnitsWhole
  <2>2. Minus(Whole(p), e) \in Fraction /\ InUnits(Minus(Whole(p), e), d, f)
    BY <1>1, <1>2, <2>1, MinusType, UnitsMinus
  <2> HIDE DEF f
  <2> QED
    BY <1>2, <2>2, TimesType, UnitsTimes
<1>5. Times(r, e) \in Fraction /\ InUnits(Times(r, e), d, r * z)
  BY <1>1, TimesType, UnitsTimes
<1>6. x + q * f + (y + r * z) = w + nqp * d
  <2>1. q * f = q * (p * d) - q * z
    BY <1>1, SMT
  <2>2. nqp * d = np * d + q * (p * d)
    BY <1>1, SMT
  <2>3. (r - q) * z = r * z - q * z
    BY <1>1, SMT
  <2>4. q * (p * d) \in Int /\ q * z \in Int
    BY <1>1, <1>2, ProductType
  <2> HIDE DEF np, nqp, f
  <2> QED
    BY <1>1, <1>2, <1>3, <2>1, <2>2, <2>3, <2>4
<1> HIDE DEF gain, f, np, nqp
<1>7. /\ Plus(a, gain) \in Fraction /\ InUnits(Plus(a, gain), d, x + q * f)
      /\ Plus(b, Times(r, e)) \in Fraction /\ InUnits(Plus(b, Times(r, e)), d, y + r * z)
      /\ x + q * f \in Int /\ y + r * z \in Int
  BY <1>1, <1>2, <1>4, <1>5, PlusType, UnitsPlus
<1>8. /\ Plus(Plus(a, gain), Plus(b, Times(r, e))) \in Fraction
      /\ InUnits(Plus(Plus(a, gain), Plus(b, Times(r, e))), d, (x + q * f) + (y + r * z))
  BY <1>7, PlusType, UnitsPlus
<1>9. /\ Whole(nqp) \in Fraction /\ InUnits(Whole(nqp), d, nqp * d)
      /\ Plus(v, Whole(nqp)) \in Fraction /\ InUnits(Plus(v, Whole(nqp)), d, w + nqp * d)
  <2>1. Whole(nqp) \in Fraction /\ InUnits(Whole(nqp), d, nqp * d)
    BY <1>2, WholeType, UnitsWhole
  <2> QED
    BY <1>1, <1>2, <2>1, PlusType, UnitsPlus
<1>10. Same(Plus(Plus(a, gain), Plus(b, Times(r, e))), Plus(v, Whole(nqp)))
  <2>1. (x + q * f) + (y + r * z) \in Int /\ w + nqp * d \in Int
    BY <1>2, <1>7
  <2> QED
    BY <1>6, <1>8, <1>9, <2>1, UnitsSame
<1> QED
  BY <1>10 DEF gain, nqp

(* The first units of a lot follow those before it. *)
LEMMA PartOfBlock ==
  ASSUME NEW u \in Seq(Fraction), NEW p \in Fraction, NEW j \in Nat, NEW k \in Nat, j <= k
  PROVE  u \o Block(<<p, j>>) = SubSeq(u \o Block(<<p, k>>), 1, Len(u) + j)
<1> DEFINE n == Len(u)
           s == Block(<<p, j>>)
           t == Block(<<p, k>>)
           v == u \o s
           w == u \o t
           x == SubSeq(w, 1, n + j)
<1>1. n \in Nat /\ <<p, j>> \in Pairs /\ <<p, k>> \in Pairs
  BY LenProperties DEF Pairs
<1>2. /\ s \in Seq(Fraction) /\ Len(s) = j /\ \A i \in 1 .. j : s[i] = p
      /\ t \in Seq(Fraction) /\ Len(t) = k /\ \A i \in 1 .. k : t[i] = p
  <2>1. /\ s \in Seq(Fraction) /\ Len(s) = <<p, j>>[2]
        /\ \A i \in 1 .. <<p, j>>[2] : s[i] = <<p, j>>[1]
    BY <1>1, BlockType
  <2>2. /\ t \in Seq(Fraction) /\ Len(t) = <<p, k>>[2]
        /\ \A i \in 1 .. <<p, k>>[2] : t[i] = <<p, k>>[1]
    BY <1>1, BlockType
  <2> HIDE DEF s, t
  <2> QED
    BY <2>1, <2>2
<1> HIDE DEF s, t
<1>3. /\ v \in Seq(Fraction) /\ Len(v) = n + j
      /\ \A i \in 1 .. n + j : v[i] = IF i <= n THEN u[i] ELSE s[i - n]
  <2>1. /\ v \in Seq(Fraction) /\ Len(v) = Len(u) + Len(s)
        /\ \A i \in 1 .. Len(u) + Len(s) : v[i] = IF i <= Len(u) THEN u[i] ELSE s[i - Len(u)]
    BY <1>2, ConcatProperties
  <2> HIDE DEF v
  <2> QED
    BY <1>2, <2>1
<1>4. /\ w \in Seq(Fraction) /\ Len(w) = n + k
      /\ \A i \in 1 .. n + k : w[i] = IF i <= n THEN u[i] ELSE t[i - n]
  <2>1. /\ w \in Seq(Fraction) /\ Len(w) = Len(u) + Len(t)
        /\ \A i \in 1 .. Len(u) + Len(t) : w[i] = IF i <= Len(u) THEN u[i] ELSE t[i - Len(u)]
    BY <1>2, ConcatProperties
  <2> HIDE DEF w
  <2> QED
    BY <1>2, <2>1
<1> HIDE DEF v, w, n
<1>5. \A i \in 1 .. n + j : i \in 1 .. n + k /\ w[i] \in Fraction
  <2>1. \A i \in 1 .. n + k : w[i] \in Fraction
    BY <1>4, ElementOfSeq
  <2> QED
    BY <1>1, <2>1
<1>6. /\ x \in Seq(Fraction) /\ Len(x) = n + j
      /\ \A i \in 1 .. n + j : x[i] = w[i]
  <2>1. n + j \in Int /\ 1 \in Int
    BY <1>1
  <2>2. /\ x \in Seq(Fraction) /\ Len(x) = IF 1 <= n + j THEN (n + j) - 1 + 1 ELSE 0
        /\ \A i \in 1 .. (n + j) - 1 + 1 : x[i] = w[1 + i - 1]
    BY <1>5, <2>1, SubSeqProperties
  <2>3. (n + j) - 1 + 1 = n + j /\ \A i \in 1 .. n + j : 1 + i - 1 = i
    BY <1>1
  <2> HIDE DEF x
  <2> QED
    BY <1>1, <2>2, <2>3
<1> HIDE DEF x
<1>7. ASSUME NEW i \in 1 .. n + j PROVE v[i] = x[i]
  <2>1. CASE i <= n
    BY <1>3, <1>4, <1>5, <1>6, <2>1
  <2>2. CASE ~(i <= n)
    <3>1. i - n \in 1 .. j /\ i - n \in 1 .. k
      BY <1>1, <2>2
    <3> QED
      BY <1>2, <1>3, <1>4, <1>5, <1>6, <2>2, <3>1
  <2> QED
    BY <2>1, <2>2
<1>8. v = x
  BY <1>3, <1>6, <1>7, SeqEqual
<1> QED
  BY <1>8 DEF v, w, x, n, s, t

LEMMA UnderwayPassing ==
  ASSUME NEW trade \in Trade, NEW q \in Seq(Lot), NEW acc, Underway(trade, q, acc),
         NEW x \in Lot, acc.left = 0
  PROVE  Underway(trade, Append(q, x), PassedBy(acc, x))
<1> DEFINE n == trade.quantity
           P == trade.price
           next == PassedBy(acc, x)
           r == Append(q, x)
           w == Times(x.remaining, x.price)
<1>1. /\ acc \in Walk /\ n \in Nat \ {0} /\ P \in Nat /\ r \in Seq(Lot)
      /\ acc.kept \in Seq(Lot) /\ acc.pnl \in Fraction /\ acc.pairs \in Seq(Pairs)
      /\ acc.left \in Nat
  BY SignedQuantityType, AppendProperties DEF Underway, Walk
<1>2. next = [left |-> acc.left, pnl |-> acc.pnl, pairs |-> acc.pairs,
              kept |-> Append(acc.kept, x)]
  BY DEF PassedBy
<1>3. Append(acc.kept, x) \in Seq(Lot)
  BY <1>1, AppendProperties
<1>4. next \in Walk
  BY <1>1, <1>2, <1>3 DEF Walk
<1>5. next.left = 0 /\ next.pnl = acc.pnl /\ next.pairs = acc.pairs
      /\ next.kept = Append(acc.kept, x)
  BY <1>2
<1>6. x.remaining \in Nat /\ x.remaining \in Int /\ x.price \in Fraction /\ w \in Fraction
  <2>1. x.remaining \in Nat /\ x.remaining \in Int /\ x.price \in Fraction
    BY DEF Lot
  <2> QED
    BY <2>1, TimesType
<1> HIDE DEF next, r, w
<1>7. TotalRemaining(next.kept) + (n - next.left) = TotalRemaining(r)
  <2>1. /\ TotalRemaining(next.kept) = TotalRemaining(acc.kept) + x.remaining
        /\ TotalRemaining(r) = TotalRemaining(q) + x.remaining
        /\ TotalRemaining(acc.kept) \in Nat /\ TotalRemaining(q) \in Nat
    BY <1>1, <1>5, RemainingOf DEF r
  <2>2. TotalRemaining(acc.kept) + (n - 0) = TotalRemaining(q)
    BY DEF Underway
  <2> QED
    BY <1>1, <1>5, <1>6, <2>1, <2>2
<1>8. Trails(next.kept, r)
  <2>1. Trails(acc.kept, q) /\ x.remaining <= x.remaining
    BY <1>6 DEF Underway
  <2> QED
    BY <1>1, <1>5, <2>1, TrailsAppend DEF r
<1>9. ASSUME trade.side = "Sell"
      PROVE  Same(Plus(next.pnl, TotalCost(r)),
                  Plus(TotalCost(next.kept), Whole((n - next.left) * P)))
  <2> DEFINE k == (n - 0) * P
  <2>1. /\ TotalCost(next.kept) = Plus(TotalCost(acc.kept), w)
        /\ TotalCost(r) = Plus(TotalCost(q), w)
        /\ TotalCost(acc.kept) \in Fraction /\ TotalCost(q) \in Fraction
    BY <1>1, <1>5, CostOf DEF r, w
  <2>2. Same(Plus(acc.pnl, TotalCost(q)), Plus(TotalCost(acc.kept), Whole(k)))
    BY <1>9 DEF Underway
  <2>3. k \in Int
    <3>1. n - 0 \in Int
      BY <1>1
    <3> QED
      BY <1>1, <3>1, ProductType
  <2> HIDE DEF k
  <2>4. Same(Plus(acc.pnl, Plus(TotalCost(q), w)), Plus(Plus(TotalCost(acc.kept), w), Whole(k)))
    BY <1>1, <1>6, <2>1, <2>2, <2>3, PassingCost
  <2> QED
    BY <1>5, <2>1, <2>4 DEF k
<1>10. Units(next.pairs) = SubSeq(Units(AsPairs(r)), 1, n - next.left)
  <2> DEFINE e == <<x.price, x.remaining>>
             t == AsPairs(q)
             u == Units(t)
             b == Block(e)
  <2>1. t \in Seq(Pairs) /\ e \in Pairs /\ AsPairs(r) = Append(t, e)
    BY AsPairsOf DEF r
  <2>2. Len(u) = TotalRemaining(q)
    BY CountOfUnits
  <2> HIDE DEF e, t
  <2>3. u \in Seq(Fraction) /\ b \in Seq(Fraction) /\ Units(Append(t, e)) = u \o b
    BY <2>1, UnitsAppend, BlockType
  <2>4. Units(acc.pairs) = SubSeq(u, 1, n - 0) /\ n - 0 = n
    BY <1>1 DEF Underway, t
  <2>5. n \in 1 .. Len(u) /\ 1 \in 1 .. Len(u)
    <3>1. TotalRemaining(acc.kept) + (n - 0) = TotalRemaining(q) /\ TotalRemaining(acc.kept) \in Nat
      BY <1>1, RemainingIsFold DEF Underway
    <3> HIDE DEF u
    <3> QED
      BY <1>1, <2>2, <3>1
  <2> HIDE DEF u, b
  <2>6. SubSeq(u \o b, 1, n) = SubSeq(u, 1, n)
    BY <2>3, <2>5, SubSeqOfConcat1
  <2> QED
    BY <1>5, <2>1, <2>3, <2>4, <2>6
<1>11. next.left <= n /\ ~(next.left > 0)
  BY <1>1, <1>5
<1>12. Underway(trade, r, next)
  BY <1>4, <1>7, <1>8, <1>9, <1>10, <1>11 DEF Underway
<1> QED
  BY <1>12 DEF next, r

LEMMA UnderwayTaking ==
  ASSUME NEW trade \in Trade, NEW q \in Seq(Lot), NEW acc, Underway(trade, q, acc),
         NEW x \in Lot, acc.left > 0,
         NEW k \in Nat \ {0}, k <= acc.left, k <= x.remaining,
         k < x.remaining => k = acc.left,
         NEW next \in Walk, next = Taking(trade, acc, x, k)
  PROVE  Underway(trade, Append(q, x), next)
<1> DEFINE n == trade.quantity
           P == trade.price
           r == Append(q, x)
           rem == x.remaining
<1>1. /\ acc \in Walk /\ n \in Nat \ {0} /\ P \in Nat /\ r \in Seq(Lot)
      /\ acc.pnl \in Fraction /\ acc.pairs \in Seq(Pairs) /\ acc.left \in Nat
      /\ acc.left <= n /\ acc.kept = << >>
  BY SignedQuantityType, AppendProperties DEF Underway, Walk
<1>2. rem \in Nat \ {0} /\ rem \in Int /\ x.price \in Fraction
  BY DEF Lot
<1>3. /\ next.left = acc.left - k
      /\ next.pnl = Plus(acc.pnl, Gain(trade, x, k))
      /\ next.pairs = Append(acc.pairs, <<x.price, k>>)
      /\ next.kept = IF k = rem THEN << >> ELSE Append(<< >>, Remains(x, k))
  BY <1>1 DEF Taking
<1>4. TotalRemaining(<< >>) = 0 /\ TotalCost(<< >>) = Zero
  BY RemainingOf, CostOf
<1>5. k # rem => /\ k < rem /\ next.left = 0
                 /\ Remains(x, k) \in Lot /\ next.kept = <<Remains(x, k)>>
                 /\ Remains(x, k).trade_id = x.trade_id
                 /\ Remains(x, k).quantity = x.quantity
                 /\ Remains(x, k).price = x.price
                 /\ Remains(x, k).remaining = rem - k
  <2> SUFFICES ASSUME k # rem
               PROVE  /\ k < rem /\ next.left = 0
                      /\ Remains(x, k) \in Lot /\ next.kept = <<Remains(x, k)>>
                      /\ Remains(x, k).trade_id = x.trade_id
                      /\ Remains(x, k).quantity = x.quantity
                      /\ Remains(x, k).price = x.price
                      /\ Remains(x, k).remaining = rem - k
    OBVIOUS
  <2>1. k < rem /\ rem - k \in Nat \ {0}
    BY <1>2
  <2>2. next.left = 0
    BY <1>1, <1>3, <2>1
  <2>3. /\ Remains(x, k) \in Lot
        /\ Remains(x, k).trade_id = x.trade_id
        /\ Remains(x, k).quantity = x.quantity
        /\ Remains(x, k).price = x.price
        /\ Remains(x, k).remaining = rem - k
    BY <2>1 DEF Remains, Lot
  <2>4. next.kept = <<Remains(x, k)>>
    BY <1>3, <2>3, EmptySeq, ConcatAppend
  <2> QED
    BY <2>1, <2>2, <2>3, <2>4
<1> HIDE DEF r, rem
<1>6. TotalRemaining(next.kept) + (n - next.left) = TotalRemaining(r)
  <2>1. TotalRemaining(r) = TotalRemaining(q) + rem /\ TotalRemaining(q) \in Nat
    BY RemainingOf DEF r, rem
  <2>2. 0 + (n - acc.left) = TotalRemaining(q)
    BY <1>1, <1>4 DEF Underway
  <2>3. TotalRemaining(next.kept) = rem - k
    <3>1. CASE k = rem
      BY <1>2, <1>3, <1>4, <3>1
    <3>2. CASE k # rem
      BY <1>5, <3>2, OneLot
    <3> QED
      BY <3>1, <3>2
  <2> QED
    BY <1>1, <1>2, <1>3, <2>1, <2>2, <2>3
<1>7. Trails(next.kept, r)
  <2>1. CASE k = rem
    BY <1>1, <1>3, <2>1, TrailsNothing
  <2>2. CASE k # rem
    <3>1. Trails(<< >>, q) /\ << >> \in Seq(Lot)
      BY TrailsNothing, EmptySeq
    <3>2. Remains(x, k).remaining <= x.remaining
      BY <1>2, <1>5, <2>2 DEF rem
    <3>3. Trails(Append(<< >>, Remains(x, k)), r)
      BY <1>5, <2>2, <3>1, <3>2, TrailsAppend DEF r
    <3> QED
      BY <1>3, <2>2, <3>3
  <2> QED
    BY <2>1, <2>2
<1>8. ASSUME trade.side = "Sell"
      PROVE  Same(Plus(next.pnl, TotalCost(r)),
                  Plus(TotalCost(next.kept), Whole((n - next.left) * P)))
  <2> DEFINE m == n - acc.left
             v == TotalCost(next.kept)
  <2>1. m \in Int /\ n - next.left = m + k
    BY <1>1, <1>3
  <2>2. /\ TotalCost(r) = Plus(TotalCost(q), Times(rem, x.price))
        /\ TotalCost(q) \in Fraction
    BY CostOf DEF r, rem
  <2>3. Same(Plus(acc.pnl, TotalCost(q)), Plus(Zero, Whole(m * P)))
    BY <1>1, <1>4, <1>8 DEF Underway
  <2>4. v \in Fraction
    <3>1. next.kept \in Seq(Lot)
      BY DEF Walk
    <3> QED
      BY <3>1, CostIsFold
  <2>5. Same(v, Times(rem - k, x.price))
    <3>1. CASE k = rem
      <4>1. v = Zero /\ rem - k = 0
        BY <1>2, <1>3, <1>4, <3>1
      <4>2. Same(Zero, Times(0, x.price))
        BY <1>2 DEF Same, Zero, Whole, Times, Fraction
      <4> QED
        BY <4>1, <4>2
    <3>2. CASE k # rem
      <4>1. v = Plus(Zero, Times(rem - k, x.price))
        BY <1>5, <3>2, OneLot
      <4>2. Times(rem - k, x.price) \in Fraction
        BY <1>2, TimesType
      <4> HIDE DEF v
      <4> QED
        BY <4>1, <4>2, SameZeroPlus
    <3> QED
      BY <3>1, <3>2
  <2>6. Gain(trade, x, k) = Times(k, Minus(Whole(P), x.price))
    BY <1>8 DEF Gain, side_sign
  <2>8. k \in Int /\ P \in Int /\ acc.pnl \in Fraction /\ x.price \in Fraction /\ rem \in Int
    BY <1>1, <1>2
  <2> HIDE DEF m, v, P, n
  <2>7. Same(Plus(Plus(acc.pnl, Times(k, Minus(Whole(P), x.price))),
                  Plus(TotalCost(q), Times(rem, x.price))),
             Plus(v, Whole((m + k) * P)))
    BY <2>1, <2>2, <2>3, <2>4, <2>5, <2>8, TakingCost
  <2> QED
    BY <1>3, <2>1, <2>2, <2>6, <2>7 DEF v, P, n
<1>9. Units(next.pairs) = SubSeq(Units(AsPairs(r)), 1, n - next.left)
  <2> DEFINE e == <<x.price, rem>>
             f == <<x.price, k>>
             t == AsPairs(q)
             u == Units(t)
  <2>1. t \in Seq(Pairs) /\ e \in Pairs /\ AsPairs(r) = Append(t, e)
    BY AsPairsOf DEF r, rem
  <2>2. f \in Pairs
    BY <1>2 DEF Pairs
  <2>3. /\ u \in Seq(Fraction) /\ Len(u) = n - acc.left
    <3>1. Len(u) = TotalRemaining(q) /\ u \in Seq(Fraction)
      BY CountOfUnits
    <3>2. TotalRemaining(acc.kept) + (n - acc.left) = TotalRemaining(q)
      BY DEF Underway
    <3>3. 0 + (n - acc.left) = n - acc.left
      BY <1>1
    <3> HIDE DEF u
    <3> QED
      BY <1>1, <1>4, <3>1, <3>2, <3>3
  <2>4. Units(acc.pairs) = SubSeq(u, 1, n - acc.left)
    BY DEF Underway
  <2> HIDE DEF e, f, t
  <2>5. Units(Append(t, e)) = u \o Block(e)
    BY <2>1, UnitsAppend
  <2>6. Units(next.pairs) = Units(acc.pairs) \o Block(f)
    BY <1>1, <1>3, <2>2, UnitsAppend DEF f
  <2> HIDE DEF u
  <2>7. Units(acc.pairs) = u
    BY <2>3, <2>4, SubSeqFull
  <2>8. u \o Block(f) = SubSeq(u \o Block(e), 1, Len(u) + k)
    BY <1>2, <2>3, PartOfBlock DEF e, f, rem
  <2>9. Len(u) + k = n - next.left
    BY <1>1, <1>3, <2>3
  <2> QED
    BY <2>1, <2>5, <2>6, <2>7, <2>8, <2>9
<1>10. next.left <= n /\ (next.left > 0 => next.kept = << >>)
  BY <1>1, <1>2, <1>3, <1>5
<1>11. Underway(trade, r, next)
  BY <1>6, <1>7, <1>8, <1>9, <1>10 DEF Underway
<1> QED
  BY <1>11 DEF r

(* So it holds when the loop ends. *)
LEMMA ConsumedUnderway ==
  ASSUME NEW trade \in Trade, NEW q \in Seq(Lot)
  PROVE  Underway(trade, q, Consumed(trade, q))
<1> DEFINE Good == {r \in Seq(Lot) : Underway(trade, r, Consumed(trade, r))}
<1>1. << >> \in Good
  BY EmptySeq, ConsumedOf, UnderwayStarts
<1>2. ASSUME NEW r \in Seq(Lot), NEW x \in Lot, r \in Good
      PROVE  Append(r, x) \in Good
  <2> DEFINE acc == Consumed(trade, r)
             next == Consumed(trade, Append(r, x))
  <2>1. Append(r, x) \in Seq(Lot) /\ acc \in Walk /\ next = Consume(trade, acc, x)
    BY AppendProperties, ConsumedOf
  <2>2. next \in Walk
    BY <2>1, ConsumeType
  <2>3. Underway(trade, r, acc)
    BY <1>2
  <2> HIDE DEF acc, next
  <2>4. Underway(trade, Append(r, x), next)
    <3>1. CASE acc.left = 0 /\ next = PassedBy(acc, x)
      BY <2>3, <3>1, UnderwayPassing
    <3>2. CASE /\ acc.left > 0
               /\ \E k \in Nat \ {0} : /\ k <= acc.left /\ k <= x.remaining
                                       /\ k < x.remaining => k = acc.left
                                       /\ next = Taking(trade, acc, x, k)
      BY <2>2, <2>3, <3>2, UnderwayTaking
    <3> QED
      BY <2>1, <3>1, <3>2, ConsumeOf
  <2> QED
    BY <2>1, <2>4 DEF next
<1>3. Seq(Lot) \subseteq Good
  <2> HIDE DEF Good
  <2> QED
    BY <1>1, <1>2, SequenceInduction
<1> QED
  BY <1>3

------------------------------------------------------------------------------
(* Lots in the order of their trades *)

(* The lots of a queue are used up in part at most and stand in the order  *)
(* of their trades, the newest of which is not newer than newest.          *)
InOrder(q, newest) ==
  /\ \A i \in DOMAIN q : q[i].remaining \in 1 .. q[i].quantity /\ q[i].trade_id <= newest
  /\ \A i, j \in DOMAIN q : i < j => q[i].trade_id < q[j].trade_id

LEMMA LotsOf ==
  ASSUME NEW q \in Seq(Lot)
  PROVE  /\ DOMAIN q = 1 .. Len(q) /\ Len(q) \in Nat
         /\ \A i \in 1 .. Len(q) : /\ q[i].trade_id \in Nat /\ q[i].quantity \in Nat
                                /\ q[i].remaining \in Nat \ {0}
<1>1. DOMAIN q = 1 .. Len(q) /\ Len(q) \in Nat
  BY LenProperties
<1>2. \A i \in 1 .. Len(q) : q[i] \in Lot
  BY ElementOfSeq
<1>3. \A lot \in Lot : lot.trade_id \in Nat /\ lot.quantity \in Nat /\ lot.remaining \in Nat \ {0}
  BY DEF Lot
<1> QED
  BY <1>1, <1>2, <1>3

LEMMA InOrderNothing == \A newest : InOrder(<< >>, newest)
  BY DEF InOrder

(* A newer lot joins at the end. *)
LEMMA InOrderAppend ==
  ASSUME NEW q \in Seq(Lot), NEW newest \in Nat, InOrder(q, newest),
         NEW x \in Lot, x.remaining = x.quantity, x.trade_id = newest + 1
  PROVE  InOrder(Append(q, x), newest + 1)
<1> DEFINE m == Len(q)
           s == Append(q, x)
<1>1. /\ m \in Nat /\ DOMAIN q = 1 .. m
      /\ DOMAIN s = 1 .. m + 1 /\ s[m + 1] = x /\ \A i \in 1 .. m : s[i] = q[i]
  BY AppendProperties, LenProperties
<1>2. \A i \in 1 .. m : q[i].trade_id \in Nat
  BY LotsOf
<1>3. x.remaining \in 1 .. x.quantity
  BY DEF Lot
<1> HIDE DEF m, s
<1>4. \A i \in 1 .. m : q[i].remaining \in 1 .. q[i].quantity /\ q[i].trade_id <= newest
  BY <1>1 DEF InOrder
<1>5. \A i, j \in 1 .. m : i < j => q[i].trade_id < q[j].trade_id
  BY <1>1 DEF InOrder
<1>6. \A i \in 1 .. m + 1 : s[i].remaining \in 1 .. s[i].quantity /\ s[i].trade_id <= newest + 1
  <2> TAKE i \in 1 .. m + 1
  <2>1. CASE i = m + 1
    BY <1>1, <1>3, <2>1
  <2>2. CASE i # m + 1
    <3>1. i \in 1 .. m
      BY <1>1, <2>2
    <3> QED
      BY <1>1, <1>2, <1>4, <3>1
  <2> QED
    BY <2>1, <2>2
<1>7. \A i, j \in 1 .. m + 1 : i < j => s[i].trade_id < s[j].trade_id
  <2> SUFFICES ASSUME NEW i \in 1 .. m + 1, NEW j \in 1 .. m + 1, i < j
               PROVE  s[i].trade_id < s[j].trade_id
    OBVIOUS
  <2>1. i \in 1 .. m
    BY <1>1
  <2>2. CASE j = m + 1
    BY <1>1, <1>2, <1>4, <2>1, <2>2
  <2>3. CASE j # m + 1
    <3>1. j \in 1 .. m
      BY <1>1, <2>3
    <3> QED
      BY <1>1, <1>5, <2>1, <3>1
  <2> QED
    BY <2>2, <2>3
<1> QED
  BY <1>1, <1>6, <1>7 DEF InOrder, s

LEMMA InOrderLater ==
  ASSUME NEW q \in Seq(Lot), NEW newest \in Nat, InOrder(q, newest)
  PROVE  InOrder(q, newest + 1)
<1>1. \A i \in DOMAIN q : q[i].trade_id \in Nat
  BY LotsOf
<1> QED
  BY <1>1 DEF InOrder

(* What is kept of an ordered queue is ordered. *)
LEMMA InOrderTrails ==
  ASSUME NEW q \in Seq(Lot), NEW newest \in Nat, InOrder(q, newest),
         NEW kept \in Seq(Lot), Trails(kept, q)
  PROVE  InOrder(kept, newest)
<1> DEFINE m == Len(kept)
           n == Len(q)
<1>1. /\ m \in Nat /\ n \in Nat /\ m <= n /\ DOMAIN kept = 1 .. m /\ DOMAIN q = 1 .. n
  BY LenProperties DEF Trails
<1>2. \A i \in 1 .. m :
        /\ kept[i].trade_id = q[(n - m) + i].trade_id
        /\ kept[i].quantity = q[(n - m) + i].quantity
        /\ kept[i].remaining <= q[(n - m) + i].remaining
  BY DEF Trails
<1>3. \A i \in 1 .. m : kept[i].remaining \in Nat \ {0} /\ kept[i].quantity \in Nat
  BY LotsOf
<1>4. \A i \in 1 .. n : q[i].remaining \in 1 .. q[i].quantity /\ q[i].trade_id <= newest
  BY <1>1 DEF InOrder
<1>5. \A i, j \in 1 .. n : i < j => q[i].trade_id < q[j].trade_id
  BY <1>1 DEF InOrder
<1> HIDE DEF m, n
<1>6. \A i \in 1 .. m : (n - m) + i \in 1 .. n
  BY <1>1
<1>7. ASSUME NEW i \in 1 .. m
      PROVE  kept[i].remaining \in 1 .. kept[i].quantity /\ kept[i].trade_id <= newest
  <2>1. /\ q[(n - m) + i].remaining \in 1 .. q[(n - m) + i].quantity
        /\ q[(n - m) + i].trade_id <= newest
    BY <1>4, <1>6
  <2> QED
    BY <1>2, <1>3, <2>1
<1>8. ASSUME NEW i \in 1 .. m, NEW j \in 1 .. m, i < j
      PROVE  kept[i].trade_id < kept[j].trade_id
  <2>1. (n - m) + i < (n - m) + j
    BY <1>1, <1>8
  <2>2. q[(n - m) + i].trade_id < q[(n - m) + j].trade_id
    BY <1>5, <1>6, <2>1
  <2> QED
    BY <1>2, <2>2
<1> QED
  BY <1>1, <1>7, <1>8 DEF InOrder

(* So it is when the queue was taken from its end. *)
LEMMA InOrderReversed ==
  ASSUME NEW q \in Seq(Lot), NEW newest \in Nat, InOrder(q, newest),
         NEW kept \in Seq(Lot), Trails(kept, Reverse(q))
  PROVE  InOrder(Reverse(kept), newest)
<1> DEFINE m == Len(kept)
           n == Len(q)
           s == Reverse(kept)
           t == Reverse(q)
<1>1. /\ m \in Nat /\ n \in Nat /\ DOMAIN kept = 1 .. m /\ DOMAIN q = 1 .. n
      /\ Len(t) = n
  BY LenProperties, ReverseOf
<1>2. m <= n /\ DOMAIN s = 1 .. m
  BY LenProperties, ReverseOf DEF Trails
<1>3. \A i \in 1 .. m :
        /\ kept[i].trade_id = t[(n - m) + i].trade_id
        /\ kept[i].quantity = t[(n - m) + i].quantity
        /\ kept[i].remaining <= t[(n - m) + i].remaining
  BY <1>1 DEF Trails
<1>4. \A i \in 1 .. m : kept[i].remaining \in Nat \ {0} /\ kept[i].quantity \in Nat
  BY LotsOf
<1>5. \A i \in 1 .. n : q[i].remaining \in 1 .. q[i].quantity /\ q[i].trade_id <= newest
  BY <1>1 DEF InOrder
<1>6. \A i, j \in 1 .. n : i < j => q[i].trade_id < q[j].trade_id
  BY <1>1 DEF InOrder
<1>7. /\ \A i \in 1 .. m : s[i] = kept[(m - i) + 1]
      /\ \A i \in 1 .. n : t[i] = q[(n - i) + 1]
  BY ReverseOf
<1> HIDE DEF m, n, s, t
<1>8. ASSUME NEW i \in 1 .. m
      PROVE  /\ i \in 1 .. n
             /\ s[i].trade_id = q[i].trade_id
             /\ s[i].quantity = q[i].quantity
             /\ s[i].remaining <= q[i].remaining
             /\ s[i].remaining \in Nat \ {0} /\ s[i].quantity \in Nat
  <2>1. (m - i) + 1 \in 1 .. m /\ i \in 1 .. n
    BY <1>1, <1>2
  <2>2. (n - m) + ((m - i) + 1) = (n - i) + 1
    BY <1>1
  <2>3. (n - i) + 1 \in 1 .. n /\ (n - ((n - i) + 1)) + 1 = i
    BY <1>1, <2>1
  <2>4. t[(n - i) + 1] = q[i]
    BY <1>7, <2>3
  <2> QED
    BY <1>3, <1>4, <1>7, <2>1, <2>2, <2>4
<1>9. ASSUME NEW i \in 1 .. m
      PROVE  s[i].remaining \in 1 .. s[i].quantity /\ s[i].trade_id <= newest
  <2>1. q[i].remaining \in 1 .. q[i].quantity /\ q[i].trade_id <= newest
    BY <1>5, <1>8
  <2>2. q[i].remaining <= q[i].quantity
    BY <2>1
  <2>3. q[i].quantity \in Nat /\ q[i].remaining \in Nat
    BY <1>1, <1>8, LotsOf
  <2>4. s[i].remaining <= s[i].quantity
    BY <1>8, <2>2, <2>3
  <2> QED
    BY <1>8, <2>1, <2>4
<1>10. ASSUME NEW i \in 1 .. m, NEW j \in 1 .. m, i < j
       PROVE  s[i].trade_id < s[j].trade_id
  BY <1>6, <1>8, <1>10
<1> QED
  BY <1>2, <1>9, <1>10 DEF InOrder, s

(* The lot a trade leaves. *)
LEMMA NewLotType ==
  ASSUME NEW id \in Nat \ {0}, NEW k \in Nat \ {0}, NEW p \in Fraction
  PROVE  LET new == NewLot(id, k, p)
         IN /\ new \in Lot /\ <<new>> \in Seq(Lot)
            /\ new.trade_id = id /\ new.remaining = k /\ new.quantity = k /\ new.price = p
            /\ TotalRemaining(<<new>>) = k
            /\ TotalCost(<<new>>) = Plus(Zero, Times(k, p))
            /\ InOrder(<<new>>, id)
<1> DEFINE new == NewLot(id, k, p)
<1>1. /\ new \in Lot
      /\ new.trade_id = id /\ new.remaining = k /\ new.quantity = k /\ new.price = p
  BY DEF NewLot, Lot
<1> HIDE DEF new
<1>2. <<new>> \in Seq(Lot) /\ Append(<< >>, new) = <<new>>
  BY <1>1, EmptySeq, ConcatAppend
<1>3. TotalRemaining(<<new>>) = k /\ TotalCost(<<new>>) = Plus(Zero, Times(k, p))
  BY <1>1, OneLot
<1>4. InOrder(<<new>>, id)
  <2>1. id - 1 \in Nat /\ (id - 1) + 1 = id
    OBVIOUS
  <2>2. InOrder(Append(<< >>, new), (id - 1) + 1)
    BY <1>1, <2>1, EmptySeq, InOrderNothing, InOrderAppend
  <2> QED
    BY <1>2, <2>1, <2>2
<1> QED
  BY <1>1, <1>2, <1>3, <1>4 DEF new

(* What the loop has matched is what it could. *)
LEMMA MatchedOf ==
  ASSUME NEW trade \in Trade, NEW q \in Seq(Lot), NEW acc, Underway(trade, q, acc)
  PROVE  /\ trade.quantity - acc.left = Smaller(trade.quantity, TotalRemaining(q))
         /\ acc.left \in Nat /\ acc.left <= trade.quantity
         /\ trade.quantity <= TotalRemaining(q) => acc.left = 0
         /\ acc.left > 0 => acc.kept = << >>
<1> DEFINE n == trade.quantity
           l == acc.left
           have == TotalRemaining(q)
           rest == TotalRemaining(acc.kept)
<1>1. /\ n \in Nat \ {0} /\ l \in Nat /\ l <= n /\ acc.kept \in Seq(Lot)
      /\ l > 0 => acc.kept = << >>
      /\ rest + (n - l) = have
  BY SignedQuantityType DEF Underway, Walk
<1>2. rest \in Nat /\ have \in Nat /\ (acc.kept = << >> => rest = 0)
  BY <1>1, RemainingOf
<1> HIDE DEF n, l, have, rest
<1>3. n - l = Smaller(n, have) /\ (n <= have => l = 0)
  <2>1. l > 0 => rest = 0
    BY <1>1, <1>2
  <2> QED
    BY <1>1, <1>2, <2>1 DEF Smaller
<1> QED
  BY <1>1, <1>3 DEF n, l, have

(* Profit is what the sale brought less what left the lots. *)
LEMMA MarginFrom ==
  ASSUME NEW a \in Fraction, NEW b \in Fraction, NEW c \in Fraction, NEW n \in Int,
         Same(Plus(a, b), Plus(c, Whole(n))),
         NEW e \in Fraction, Same(e, b), NEW f \in Fraction, Same(f, c)
  PROVE  Same(a, Minus(Whole(n), Minus(e, f)))
<1>1. PICK d \in Nat \ {0}, x \in Int, y \in Int, z \in Int, w \in Int :
        InUnits(a, d, x) /\ InUnits(b, d, y) /\ InUnits(c, d, z) /\ InUnits(e, d, w)
  BY FourCommonUnits
<1>2. Same(c, f)
  BY DEF Same, Fraction
<1>3. InUnits(f, d, z)
  BY <1>1, <1>2, UnitsOfSame
<1>4. /\ n * d \in Int /\ Whole(n) \in Fraction /\ InUnits(Whole(n), d, n * d)
  BY <1>1, ProductType, WholeType, UnitsWhole
<1> DEFINE nd == n * d
<1> HIDE DEF nd
<1>5. /\ nd \in Int /\ InUnits(Whole(n), d, nd)
  BY <1>4 DEF nd
<1>6. x + y \in Int /\ z + nd \in Int /\ w - z \in Int /\ nd - (w - z) \in Int
  BY <1>1, <1>5
<1>7. /\ Plus(a, b) \in Fraction /\ InUnits(Plus(a, b), d, x + y)
      /\ Plus(c, Whole(n)) \in Fraction /\ InUnits(Plus(c, Whole(n)), d, z + nd)
      /\ Minus(e, f) \in Fraction /\ InUnits(Minus(e, f), d, w - z)
  BY <1>1, <1>3, <1>4, <1>5, PlusType, UnitsPlus, MinusType, UnitsMinus
<1>8. /\ Minus(Whole(n), Minus(e, f)) \in Fraction
      /\ InUnits(Minus(Whole(n), Minus(e, f)), d, nd - (w - z))
  BY <1>1, <1>4, <1>5, <1>6, <1>7, MinusType, UnitsMinus
<1>9. x + y = z + nd /\ w = y
  BY <1>1, <1>6, <1>7, UnitsSame
<1>10. x = nd - (w - z)
  BY <1>1, <1>5, <1>9
<1> QED
  BY <1>1, <1>6, <1>8, <1>10, UnitsSame

(* What the loop leaves over is one lot of the trade or nothing. *)
LEMMA ResidualOf ==
  ASSUME NEW trade \in Trade, NEW id \in Nat \ {0}, NEW left \in Nat
  PROVE  /\ \/ Residual(trade, id, left) = << >>
            \/ \E x \in Lot : /\ Residual(trade, id, left) = <<x>>
                              /\ x.trade_id = id /\ x.remaining = x.quantity
         /\ left = 0 /\ trade.side = "Sell" => Residual(trade, id, left) = << >>
<1>1. trade.quantity \in Nat \ {0} /\ trade.price \in Int /\ Whole(trade.price) \in Fraction
  <2>1. trade.quantity \in Nat \ {0} /\ trade.price \in Int
    BY SignedQuantityType
  <2> QED
    BY <2>1, WholeType
<1>2. \A k \in Nat \ {0} : \E x \in Lot : /\ <<NewLot(id, k, Whole(trade.price))>> = <<x>>
                                         /\ x.trade_id = id /\ x.remaining = x.quantity
  <2> TAKE k \in Nat \ {0}
  <2> DEFINE x == NewLot(id, k, Whole(trade.price))
  <2>1. x \in Lot /\ x.trade_id = id /\ x.remaining = k /\ x.quantity = k
    BY <1>1 DEF NewLot, Lot
  <2> QED
    BY <2>1
<1>3. CASE left > 0
  <2>1. Residual(trade, id, left) = <<NewLot(id, left, Whole(trade.price))>> /\ left \in Nat \ {0}
    BY <1>3 DEF Residual
  <2> QED
    BY <1>2, <1>3, <2>1
<1>4. CASE left = 0 /\ trade.side = "Buy"
  <2>1. Residual(trade, id, left) = <<NewLot(id, trade.quantity, Whole(trade.price))>>
    BY <1>4 DEF Residual
  <2> QED
    BY <1>1, <1>2, <1>4, <2>1
<1>5. CASE left = 0 /\ trade.side # "Buy"
  BY <1>5 DEF Residual
<1> QED
  BY <1>3, <1>4, <1>5

(* What the methods that go by the order of the lots hand out. *)
TakenFrom(trade, units, result) ==
  Units(result.matched_pairs) = SubSeq(units, 1, Smaller(trade.quantity, Len(units)))

MarginKept(trade, before, after, result) ==
  trade.side = "Sell" /\ trade.quantity <= TotalRemaining(before) =>
    /\ Same(result.realized_pnl,
            Minus(Whole(trade.quantity * trade.price),
                  Minus(TotalCost(before), TotalCost(after))))
    /\ TotalRemaining(after) = TotalRemaining(before) - trade.quantity

(* FIFO takes from the front and LIFO from the end. *)
LEMMA FifoOutcome ==
  ASSUME NEW trade \in Trade, NEW id \in Nat, NEW q \in Seq(Lot), InOrder(q, id)
  PROVE  LET out == match_fifo(trade, id + 1, q)
         IN /\ out.lots \in Seq(Lot) /\ out.result.realized_pnl \in Fraction
            /\ InOrder(out.lots, id + 1)
            /\ TakenFrom(trade, Units(AsPairs(q)), out.result)
            /\ MarginKept(trade, q, out.lots, out.result)
<1> DEFINE out == match_fifo(trade, id + 1, q)
           acc == Consumed(trade, q)
           new == Residual(trade, id + 1, acc.left)
           n == trade.quantity
           k == trade.quantity * trade.price
<1>1. Underway(trade, q, acc)
  BY ConsumedUnderway
<1>2. /\ out.lots = IF acc.left > 0 THEN new \o acc.kept ELSE acc.kept \o new
      /\ out.result.realized_pnl = acc.pnl
      /\ out.result.matched_pairs = acc.pairs
  BY DEF match_fifo
<1>3. k \in Int /\ n \in Nat \ {0} /\ id + 1 \in Nat \ {0}
  BY SignedQuantityType, ProductType
<1> HIDE DEF acc, out, k
<1>4. acc.pnl \in Fraction /\ acc.kept \in Seq(Lot) /\ acc.left \in Nat
  BY <1>1 DEF Underway, Walk
<1>5. /\ n - acc.left = Smaller(n, TotalRemaining(q))
      /\ n <= TotalRemaining(q) => acc.left = 0
      /\ acc.left > 0 => acc.kept = << >>
  BY <1>1, MatchedOf
<1>6. \/ new = << >>
      \/ \E x \in Lot : new = <<x>> /\ x.trade_id = id + 1 /\ x.remaining = x.quantity
  BY <1>3, <1>4, ResidualOf
<1>7. acc.left = 0 /\ trade.side = "Sell" => new = << >>
  BY <1>3, <1>4, ResidualOf
<1> HIDE DEF new
<1>14. new \in Seq(Lot)
  <2>1. \A x \in Lot : <<x>> \in Seq(Lot)
    BY EmptySeq, ConcatAppend, AppendProperties
  <2> QED
    BY <1>6, <2>1, EmptySeq
<1>8. out.lots = acc.kept \o new /\ (new = << >> => out.lots = acc.kept)
  <2>1. CASE acc.left > 0
    <3>1. acc.kept = << >> /\ out.lots = new \o << >>
      BY <1>2, <1>5, <2>1
    <3>2. new \o << >> = new /\ << >> \o new = new
      BY <1>14, ConcatEmptySeq
    <3> QED
      BY <3>1, <3>2
  <2>2. CASE ~(acc.left > 0)
    <3>1. out.lots = acc.kept \o new
      BY <1>2, <2>2
    <3>2. acc.kept \o << >> = acc.kept
      BY <1>4, ConcatEmptySeq
    <3> QED
      BY <3>1, <3>2
  <2> QED
    BY <2>1, <2>2
<1>9. InOrder(acc.kept, id)
  BY <1>1, <1>4, InOrderTrails DEF Underway
<1>10. out.lots \in Seq(Lot) /\ InOrder(out.lots, id + 1)
  <2>1. CASE new = << >>
    BY <1>4, <1>8, <1>9, <2>1, InOrderLater
  <2>2. CASE \E x \in Lot : new = <<x>> /\ x.trade_id = id + 1 /\ x.remaining = x.quantity
    <3>1. PICK x \in Lot : new = <<x>> /\ x.trade_id = id + 1 /\ x.remaining = x.quantity
      BY <2>2
    <3>2. out.lots = Append(acc.kept, x)
      BY <1>4, <1>8, <3>1, ConcatAppend
    <3> QED
      BY <1>4, <1>9, <3>1, <3>2, AppendProperties, InOrderAppend
  <2> QED
    BY <1>6, <2>1, <2>2
<1>11. TakenFrom(trade, Units(AsPairs(q)), out.result)
  <2>1. Len(Units(AsPairs(q))) = TotalRemaining(q)
    BY CountOfUnits
  <2>2. Units(acc.pairs) = SubSeq(Units(AsPairs(q)), 1, n - acc.left)
    BY <1>1 DEF Underway
  <2> QED
    BY <1>2, <1>5, <2>1, <2>2 DEF TakenFrom
<1>12. ASSUME trade.side = "Sell", n <= TotalRemaining(q)
       PROVE  /\ Same(acc.pnl, Minus(Whole(k), Minus(TotalCost(q), TotalCost(out.lots))))
              /\ TotalRemaining(out.lots) = TotalRemaining(q) - n
  <2>1. acc.left = 0 /\ out.lots = acc.kept
    BY <1>5, <1>7, <1>8, <1>12
  <2>2. n - acc.left = n
    BY <1>3, <2>1
  <2>3. Same(Plus(acc.pnl, TotalCost(q)), Plus(TotalCost(acc.kept), Whole(k)))
    BY <1>1, <1>12, <2>2 DEF Underway, k
  <2>4. TotalRemaining(acc.kept) + n = TotalRemaining(q)
    BY <1>1, <2>2 DEF Underway
  <2>5. /\ TotalCost(q) \in Fraction /\ TotalCost(acc.kept) \in Fraction
        /\ TotalRemaining(acc.kept) \in Nat
    BY <1>4, CostIsFold, RemainingIsFold
  <2>6. \A f \in Fraction : Same(f, f)
    BY DEF Same
  <2>7. Same(acc.pnl, Minus(Whole(k), Minus(TotalCost(q), TotalCost(acc.kept))))
    BY <1>3, <1>4, <2>3, <2>5, <2>6, MarginFrom
  <2> QED
    BY <1>3, <2>1, <2>4, <2>5, <2>7
<1>13. MarginKept(trade, q, out.lots, out.result)
  BY <1>2, <1>12 DEF MarginKept, k
<1> QED
  BY <1>2, <1>4, <1>10, <1>11, <1>13 DEF out

LEMMA LifoOutcome ==
  ASSUME NEW trade \in Trade, NEW id \in Nat, NEW q \in Seq(Lot), InOrder(q, id)
  PROVE  LET out == match_lifo(trade, id + 1, q)
         IN /\ out.lots \in Seq(Lot) /\ out.result.realized_pnl \in Fraction
            /\ InOrder(out.lots, id + 1)
            /\ TakenFrom(trade, Reverse(Units(AsPairs(q))), out.result)
            /\ MarginKept(trade, q, out.lots, out.result)
<1> DEFINE out == match_lifo(trade, id + 1, q)
           rev == Reverse(q)
           acc == Consumed(trade, rev)
           left == Reverse(acc.kept)
           new == Residual(trade, id + 1, acc.left)
           n == trade.quantity
           k == trade.quantity * trade.price
<1>1. rev \in Seq(Lot) /\ TotalRemaining(rev) = TotalRemaining(q)
      /\ Same(TotalCost(rev), TotalCost(q))
  BY ReverseOf, RemainingReverse, CostReverse
<1>2. Underway(trade, rev, acc)
  BY <1>1, ConsumedUnderway
<1>3. /\ out.lots = left \o new
      /\ out.result.realized_pnl = acc.pnl
      /\ out.result.matched_pairs = acc.pairs
  BY DEF match_lifo
<1>4. k \in Int /\ n \in Nat \ {0} /\ id + 1 \in Nat \ {0}
  BY SignedQuantityType, ProductType
<1>5. Trails(acc.kept, Reverse(q))
  BY <1>2 DEF Underway
<1> HIDE DEF acc, out, k
<1>6. acc.pnl \in Fraction /\ acc.kept \in Seq(Lot) /\ acc.left \in Nat
  BY <1>2 DEF Underway, Walk
<1>7. /\ n - acc.left = Smaller(n, TotalRemaining(rev))
      /\ n <= TotalRemaining(rev) => acc.left = 0
  BY <1>1, <1>2, MatchedOf
<1>8. \/ new = << >>
      \/ \E x \in Lot : new = <<x>> /\ x.trade_id = id + 1 /\ x.remaining = x.quantity
  BY <1>4, <1>6, ResidualOf
<1>9. acc.left = 0 /\ trade.side = "Sell" => new = << >>
  BY <1>4, <1>6, ResidualOf
<1> HIDE DEF new
<1>10. /\ left \in Seq(Lot) /\ InOrder(left, id)
       /\ TotalRemaining(left) = TotalRemaining(acc.kept)
       /\ Same(TotalCost(left), TotalCost(acc.kept))
  BY <1>5, <1>6, ReverseOf, InOrderReversed, RemainingReverse, CostReverse
<1>11. Units(AsPairs(rev)) = Reverse(Units(AsPairs(q)))
       /\ Len(Units(AsPairs(rev))) = TotalRemaining(rev)
  <2>1. AsPairs(q) \in Seq(Pairs) /\ AsPairs(rev) = Reverse(AsPairs(q))
    BY AsPairsOf
  <2> QED
    BY <1>1, <2>1, UnitsReverse, CountOfUnits
<1> HIDE DEF rev, left
<1>12. out.lots \in Seq(Lot) /\ InOrder(out.lots, id + 1) /\ (new = << >> => out.lots = left)
  <2>1. CASE new = << >>
    <3>1. out.lots = left
      BY <1>3, <1>10, <2>1, ConcatAppend
    <3> QED
      BY <1>10, <3>1, InOrderLater
  <2>2. CASE \E x \in Lot : new = <<x>> /\ x.trade_id = id + 1 /\ x.remaining = x.quantity
    <3>1. PICK x \in Lot : new = <<x>> /\ x.trade_id = id + 1 /\ x.remaining = x.quantity
      BY <2>2
    <3>2. out.lots = Append(left, x) /\ new # << >>
      BY <1>3, <1>10, <3>1, ConcatAppend
    <3> QED
      BY <1>10, <3>1, <3>2, AppendProperties, InOrderAppend
  <2> QED
    BY <1>8, <2>1, <2>2
<1>13. TakenFrom(trade, Reverse(Units(AsPairs(q))), out.result)
  <2>1. Units(acc.pairs) = SubSeq(Units(AsPairs(rev)), 1, n - acc.left)
    BY <1>2 DEF Underway
  <2> QED
    BY <1>3, <1>7, <1>11, <2>1 DEF TakenFrom
<1>14. ASSUME trade.side = "Sell", n <= TotalRemaining(q)
       PROVE  /\ Same(acc.pnl, Minus(Whole(k), Minus(TotalCost(q), TotalCost(out.lots))))
              /\ TotalRemaining(out.lots) = TotalRemaining(q) - n
  <2>1. acc.left = 0 /\ out.lots = left
    BY <1>1, <1>7, <1>9, <1>12, <1>14
  <2>2. n - acc.left = n
    BY <1>4, <2>1
  <2>3. Same(Plus(acc.pnl, TotalCost(rev)), Plus(TotalCost(acc.kept), Whole(k)))
    BY <1>2, <1>14, <2>2 DEF Underway, k
  <2>4. TotalRemaining(acc.kept) + n = TotalRemaining(rev)
    BY <1>2, <2>2 DEF Underway
  <2>5. /\ TotalCost(q) \in Fraction /\ TotalCost(acc.kept) \in Fraction
        /\ TotalCost(rev) \in Fraction /\ TotalCost(left) \in Fraction
        /\ TotalRemaining(acc.kept) \in Nat
    BY <1>1, <1>6, <1>10, CostIsFold, RemainingIsFold
  <2>6. Same(TotalCost(q), TotalCost(rev))
    BY <1>1, <2>5 DEF Same, Fraction
  <2>7. Same(acc.pnl, Minus(Whole(k), Minus(TotalCost(q), TotalCost(left))))
    BY <1>4, <1>6, <1>10, <2>3, <2>5, <2>6, MarginFrom
  <2> QED
    BY <1>1, <1>4, <1>10, <2>1, <2>4, <2>5, <2>7
<1>15. MarginKept(trade, q, out.lots, out.result)
  BY <1>3, <1>14 DEF MarginKept, k
<1> QED
  BY <1>3, <1>6, <1>12, <1>13, <1>15 DEF out

------------------------------------------------------------------------------
(* Average cost *)

(* Only an empty queue has nothing left. *)
LEMMA NothingRemains ==
  ASSUME NEW q \in Seq(Lot), TotalRemaining(q) = 0
  PROVE  q = << >>
<1> DEFINE Good == {r \in Seq(Lot) : TotalRemaining(r) = 0 => r = << >>}
<1>1. << >> \in Good
  BY EmptySeq
<1>2. ASSUME NEW r \in Seq(Lot), NEW x \in Lot, r \in Good
      PROVE  Append(r, x) \in Good
  <2>1. Append(r, x) \in Seq(Lot) /\ TotalRemaining(Append(r, x)) = TotalRemaining(r) + x.remaining
        /\ TotalRemaining(r) \in Nat
    BY AppendProperties, RemainingOf
  <2>2. x.remaining \in Nat \ {0}
    BY DEF Lot
  <2>3. TotalRemaining(r) + x.remaining # 0
    BY <2>1, <2>2
  <2> QED
    BY <2>1, <2>3
<1> HIDE DEF Good
<1>3. q \in Good
  BY <1>1, <1>2, SequenceInduction
<1> QED
  BY <1>3 DEF Good

(* An average times what it was taken over. *)
LEMMA AverageRestored ==
  ASSUME NEW c \in Fraction, NEW total \in Nat \ {0}
  PROVE  /\ Over(c, total) \in Fraction
         /\ Same(Plus(Zero, Times(total, Over(c, total))), c)
<1> DEFINE avg == Over(c, total)
<1>1. avg \in Fraction
  BY OverType
<1>2. PICK d \in Nat \ {0}, x \in Int, y \in Int : InUnits(c, d, x) /\ InUnits(avg, d, y)
  BY <1>1, CommonUnits
<1>3. x = total * y
  BY <1>2, UnitsOver
<1> HIDE DEF avg
<1>4. Times(total, avg) \in Fraction /\ InUnits(Times(total, avg), d, x)
  <2>1. total \in Int
    OBVIOUS
  <2> QED
    BY <1>1, <1>2, <1>3, <2>1, TimesType, UnitsTimes
<1>5. Same(Times(total, avg), c)
  BY <1>2, <1>4, UnitsSame
<1>6. Same(Plus(Zero, Times(total, avg)), Times(total, avg))
  BY <1>4, SameZeroPlus
<1>7. Plus(Zero, Times(total, avg)) \in Fraction
  BY <1>4, ZeroType, PlusType
<1> QED
  BY <1>1, <1>4, <1>5, <1>6, <1>7, SameTrans DEF avg

(* A sale of some of the units at their average price. *)
LEMMA AverageSale ==
  ASSUME NEW c \in Fraction, NEW total \in Nat \ {0}, NEW sold \in Nat, NEW price \in Int,
         NEW f \in Fraction, Same(f, Times(total - sold, Over(c, total)))
  PROVE  Same(Times(sold, Minus(Whole(price), Over(c, total))),
              Minus(Whole(sold * price), Minus(c, f)))
<1> DEFINE avg == Over(c, total)
           rest == total - sold
           sp == sold * price
<1>1. avg \in Fraction /\ rest \in Int /\ sold \in Int /\ sp \in Int
  BY OverType, ProductType
<1>2. PICK d \in Nat \ {0}, x \in Int, y \in Int : InUnits(c, d, x) /\ InUnits(avg, d, y)
  BY <1>1, CommonUnits
<1>3. x = total * y
  BY <1>2, UnitsOver
<1>4. Same(f, Times(rest, avg))
  OBVIOUS
<1> HIDE DEF avg, rest, sp
<1> DEFINE ry == rest * y
           pd == price * d
           spd == sp * d
<1>5. ry \in Int /\ pd \in Int /\ spd \in Int
  BY <1>1, <1>2, ProductType
<1>6. /\ Times(rest, avg) \in Fraction /\ InUnits(Times(rest, avg), d, ry)
      /\ Whole(price) \in Fraction /\ InUnits(Whole(price), d, pd)
      /\ Whole(sp) \in Fraction /\ InUnits(Whole(sp), d, spd)
  BY <1>1, <1>2, TimesType, UnitsTimes, WholeType, UnitsWhole
<1> DEFINE g == pd - y
           sg == sold * g
<1>7. g \in Int /\ sg \in Int
  <2>1. g \in Int
    BY <1>2, <1>5
  <2> HIDE DEF g
  <2> QED
    BY <1>1, <2>1, ProductType
<1>8. sg = spd - (x - ry)
  <2>1. sold * (price * d - y) = (sold * price) * d - (total * y - (total - sold) * y)
    BY <1>2, SMT
  <2> QED
    BY <1>3, <2>1 DEF ry, rest, sp
<1>9. InUnits(f, d, ry)
  <2>1. Same(Times(rest, avg), f)
    BY <1>4, <1>6 DEF Same, Fraction
  <2> HIDE DEF ry
  <2> QED
    BY <1>2, <1>5, <1>6, <2>1, UnitsOfSame
<1> HIDE DEF ry, pd, spd
<1>10. /\ Minus(Whole(price), avg) \in Fraction /\ InUnits(Minus(Whole(price), avg), d, g)
       /\ Minus(c, f) \in Fraction /\ InUnits(Minus(c, f), d, x - ry)
       /\ x - ry \in Int
  BY <1>1, <1>2, <1>5, <1>6, <1>9, MinusType, UnitsMinus
<1> HIDE DEF g
<1>11. /\ Times(sold, Minus(Whole(price), avg)) \in Fraction
       /\ InUnits(Times(sold, Minus(Whole(price), avg)), d, sg)
       /\ Minus(Whole(sp), Minus(c, f)) \in Fraction
       /\ InUnits(Minus(Whole(sp), Minus(c, f)), d, spd - (x - ry))
       /\ spd - (x - ry) \in Int
  <2>1. /\ Times(sold, Minus(Whole(price), avg)) \in Fraction
        /\ InUnits(Times(sold, Minus(Whole(price), avg)), d, sg)
    BY <1>1, <1>7, <1>10, TimesType, UnitsTimes
  <2>2. /\ Minus(Whole(sp), Minus(c, f)) \in Fraction
        /\ InUnits(Minus(Whole(sp), Minus(c, f)), d, spd - (x - ry))
    BY <1>5, <1>6, <1>10, MinusType, UnitsMinus
  <2> QED
    BY <1>5, <1>10, <2>1, <2>2
<1> HIDE DEF sg
<1>12. Same(Times(sold, Minus(Whole(price), avg)), Minus(Whole(sp), Minus(c, f)))
  BY <1>7, <1>8, <1>11, UnitsSame
<1> QED
  BY <1>12 DEF avg, sp

(* What matching at average cost must hand out. *)
AverageGood(trade, id, before, out) ==
  /\ out.lots \in Seq(Lot) /\ out.result.realized_pnl \in Fraction
  /\ InOrder(out.lots, id)
  /\ MarginKept(trade, before, out.lots, out.result)
  /\ trade.side = "Buy" =>
       /\ TotalRemaining(out.lots) = TotalRemaining(before) + trade.quantity
       /\ out.result.realized_pnl = Zero
       /\ Same(TotalCost(out.lots),
               Plus(TotalCost(before), Whole(trade.quantity * trade.price)))

(* Matching at average cost. *)
LEMMA AverageOutcome ==
  ASSUME NEW trade \in Trade, NEW id \in Nat \ {0}, NEW q \in Seq(Lot)
  PROVE  AverageGood(trade, id, q, match_avg_cost(trade, id, q))
<1> DEFINE out == match_avg_cost(trade, id, q)
           total == TotalRemaining(q)
           cost == TotalCost(q)
           combined == total + SignedQuantity(trade)
           avg == Over(cost, total)
           n == trade.quantity
           p == trade.price
           np == n * p
           took == Smaller(n, total)
           earn(k) == Times(k, Minus(Whole(p), avg))
<1>1. /\ total \in Nat /\ cost \in Fraction /\ n \in Nat \ {0} /\ p \in Nat \ {0}
      /\ combined \in Int /\ np \in Int
      /\ Whole(p) \in Fraction /\ Whole(np) \in Fraction
      /\ trade.side \in {"Buy", "Sell"}
      /\ trade.side = "Buy" => combined = total + n
      /\ trade.side # "Buy" => combined = total - n
  <2>1. /\ total \in Nat /\ cost \in Fraction
        /\ n \in Nat \ {0} /\ p \in Nat \ {0} /\ trade.side \in {"Buy", "Sell"}
    BY RemainingIsFold, CostIsFold, SignedQuantityType DEF Trade, Sides
  <2>2. p \in Int /\ np \in Int
    BY <2>1, ProductType
  <2>3. Whole(p) \in Fraction /\ Whole(np) \in Fraction
    BY <2>2, WholeType
  <2>4. /\ SignedQuantity(trade) \in Int
        /\ trade.side = "Buy" => SignedQuantity(trade) = n
        /\ trade.side # "Buy" => SignedQuantity(trade) = -n
    BY SignedQuantityType
  <2> HIDE DEF n, p, np, total
  <2> QED
    BY <2>1, <2>2, <2>3, <2>4
<1>2. total > 0 => /\ total \in Nat \ {0} /\ avg \in Fraction
                   /\ Same(Plus(Zero, Times(total, avg)), cost)
                   /\ \A k \in Int : earn(k) \in Fraction
  <2> SUFFICES ASSUME total > 0
               PROVE  /\ total \in Nat \ {0} /\ avg \in Fraction
                      /\ Same(Plus(Zero, Times(total, avg)), cost)
                      /\ \A k \in Int : earn(k) \in Fraction
    OBVIOUS
  <2>1. total \in Nat \ {0}
    BY <1>1
  <2>2. avg \in Fraction /\ Same(Plus(Zero, Times(total, avg)), cost)
    BY <1>1, <2>1, AverageRestored
  <2> HIDE DEF avg, p
  <2>3. Minus(Whole(p), avg) \in Fraction
    BY <1>1, <2>2, MinusType
  <2>4. \A k \in Int : earn(k) \in Fraction
    BY <2>3, TimesType
  <2> QED
    BY <2>1, <2>2, <2>4
<1>3. TotalRemaining(<< >>) = 0 /\ TotalCost(<< >>) = Zero
  BY RemainingOf, CostOf
<1>4. CASE total = 0
  <2> DEFINE new == NewLot(id, n, Whole(p))
  <2>1. out.lots = <<new>> /\ out.result = NoResult
    BY <1>4 DEF match_avg_cost
  <2>2. /\ <<new>> \in Seq(Lot) /\ InOrder(<<new>>, id) /\ TotalRemaining(<<new>>) = n
        /\ TotalCost(<<new>>) = Plus(Zero, Times(n, Whole(p)))
    BY <1>1, NewLotType
  <2>3. out.result.realized_pnl = Zero
    BY <2>1 DEF NoResult
  <2>4. cost = Zero
    BY <1>3, <1>4, NothingRemains
  <2>5. Times(n, Whole(p)) = Whole(np)
    BY DEF Times, Whole
  <2>6. ~(n <= total)
    BY <1>1, <1>4
  <2>7. Same(Plus(Zero, Whole(np)), Plus(Zero, Whole(np)))
    BY DEF Same
  <2> HIDE DEF out, new
  <2>8. MarginKept(trade, q, out.lots, out.result)
    BY <2>6 DEF MarginKept
  <2>9. TotalRemaining(out.lots) = total + n
    BY <1>1, <1>4, <2>1, <2>2
  <2>10. Same(TotalCost(out.lots), Plus(cost, Whole(np)))
    BY <2>1, <2>2, <2>4, <2>5, <2>7
  <2>11. AverageGood(trade, id, q, out)
    BY <2>1, <2>2, <2>3, <2>8, <2>9, <2>10, ZeroType DEF AverageGood
  <2> QED
    BY <2>11 DEF out
<1>5. CASE total > 0 /\ trade.side = "Buy"
  <2> DEFINE sum == Plus(cost, Whole(np))
             mean == Over(sum, combined)
             new == NewLot(id, combined, mean)
  <2>1. combined \in Nat \ {0} /\ combined # 0 /\ total # 0
    BY <1>1, <1>5
  <2>2. out.lots = <<new>> /\ out.result = NoResult
    <3> HIDE DEF new, combined, np, total
    <3> QED
      BY <1>5, <2>1 DEF match_avg_cost, new, combined, np, total
  <2>3. sum \in Fraction
    BY <1>1, PlusType
  <2> HIDE DEF sum
  <2>4. mean \in Fraction /\ Same(Plus(Zero, Times(combined, mean)), sum)
    BY <2>1, <2>3, AverageRestored
  <2> HIDE DEF mean
  <2>5. /\ <<new>> \in Seq(Lot) /\ InOrder(<<new>>, id) /\ TotalRemaining(<<new>>) = combined
        /\ TotalCost(<<new>>) = Plus(Zero, Times(combined, mean))
    BY <2>1, <2>4, NewLotType
  <2>6. out.result.realized_pnl = Zero
    BY <2>2 DEF NoResult
  <2> HIDE DEF out, new
  <2>7. MarginKept(trade, q, out.lots, out.result)
    BY <1>5 DEF MarginKept
  <2>8. TotalRemaining(out.lots) = total + n
    BY <1>1, <1>5, <2>2, <2>5
  <2>9. Same(TotalCost(out.lots), Plus(cost, Whole(np)))
    BY <2>2, <2>4, <2>5 DEF sum
  <2>10. AverageGood(trade, id, q, out)
    BY <2>2, <2>5, <2>6, <2>7, <2>8, <2>9, ZeroType DEF AverageGood
  <2> QED
    BY <2>10 DEF out
<1>6. CASE total > 0 /\ combined = 0
  <2>1. out.lots = << >> /\ out.result.realized_pnl = earn(n)
    <3> HIDE DEF combined, total
    <3>1. total # 0
      BY <1>6
    <3> QED
      BY <1>6, <3>1 DEF match_avg_cost, combined, total
  <2>2. trade.side = "Sell" /\ total = n /\ total - n = 0 /\ total # 0
    <3> HIDE DEF combined, total, n
    <3> QED
      BY <1>1, <1>6
  <2>3. earn(n) \in Fraction
    BY <1>1, <1>2, <1>6
  <2>4. Same(earn(n), Minus(Whole(np), Minus(cost, Zero)))
    <3>1. Same(Zero, Times(0, avg))
      <4> HIDE DEF avg
      <4> QED
        BY <1>2, <1>6 DEF Same, Zero, Whole, Times, Fraction
    <3>2. Same(Zero, Times(total - n, avg))
      BY <2>2, <3>1
    <3>3. total \in Nat \ {0} /\ n \in Nat /\ p \in Int
      BY <1>1, <2>2
    <3> HIDE DEF total, n, p, cost
    <3> QED
      BY <1>1, <3>2, <3>3, ZeroType, AverageSale
  <2> HIDE DEF out, earn
  <2>5. TotalRemaining(out.lots) = total - n
    BY <1>3, <2>1, <2>2
  <2>6. MarginKept(trade, q, out.lots, out.result)
    BY <1>3, <2>1, <2>4, <2>5 DEF MarginKept
  <2>7. AverageGood(trade, id, q, out)
    BY <2>1, <2>2, <2>3, <2>6, EmptySeq, InOrderNothing DEF AverageGood
  <2> QED
    BY <2>7 DEF out
<1>7. CASE total > 0 /\ combined # 0 /\ trade.side # "Buy"
  <2> DEFINE new == NewLot(id, Abs(combined), avg)
  <2>1. out.lots = <<new>> /\ out.result.realized_pnl = earn(took)
    <3> HIDE DEF combined, total
    <3>1. total # 0
      BY <1>7
    <3> QED
      BY <1>7, <3>1 DEF match_avg_cost, RemainderPrice, combined, total
  <2>2. /\ combined = total - n /\ total \in Nat \ {0} /\ n \in Nat
        /\ Abs(combined) \in Nat \ {0} /\ took \in Nat /\ took \in Int
        /\ n <= total => took = n /\ Abs(combined) = total - n
    <3> HIDE DEF combined, total, n
    <3> QED
      BY <1>1, <1>7 DEF Abs, Smaller
  <2>3. avg \in Fraction /\ earn(took) \in Fraction
    BY <1>2, <1>7, <2>2
  <2>4. /\ <<new>> \in Seq(Lot) /\ InOrder(<<new>>, id) /\ TotalRemaining(<<new>>) = Abs(combined)
        /\ TotalCost(<<new>>) = Plus(Zero, Times(Abs(combined), avg))
    <3> HIDE DEF combined, avg
    <3> QED
      BY <2>2, <2>3, NewLotType
  <2>5. ASSUME n <= total
        PROVE  Same(earn(took), Minus(Whole(np), Minus(cost, TotalCost(<<new>>))))
    <3> DEFINE f == TotalCost(<<new>>)
    <3>1. Times(total - n, avg) \in Fraction
      <4>1. total - n \in Int
        BY <2>2
      <4> HIDE DEF avg, total, n
      <4> QED
        BY <2>3, <4>1, TimesType
    <3>2. f = Plus(Zero, Times(total - n, avg))
      BY <2>2, <2>4, <2>5
    <3>3. f \in Fraction /\ Same(f, Times(total - n, avg))
      <4> HIDE DEF f, avg, total, n
      <4> QED
        BY <3>1, <3>2, ZeroType, PlusType, SameZeroPlus
    <3>4. took = n /\ p \in Int
      BY <1>1, <2>2, <2>5
    <3> HIDE DEF total, n, p, cost, f, took
    <3>5. Same(earn(n), Minus(Whole(np), Minus(cost, f)))
      BY <1>1, <2>2, <3>3, <3>4, AverageSale
    <3> QED
      BY <3>4, <3>5 DEF f
  <2> HIDE DEF out, earn, new, took
  <2>6. n <= total => TotalRemaining(out.lots) = total - n
    BY <2>1, <2>2, <2>4
  <2>7. MarginKept(trade, q, out.lots, out.result)
    BY <2>1, <2>5, <2>6 DEF MarginKept
  <2>8. AverageGood(trade, id, q, out)
    BY <1>7, <2>1, <2>3, <2>4, <2>7 DEF AverageGood
  <2> QED
    BY <2>8 DEF out
<1>8. \/ total = 0
      \/ total > 0 /\ trade.side = "Buy"
      \/ total > 0 /\ combined = 0
      \/ total > 0 /\ combined # 0 /\ trade.side # "Buy"
  <2> HIDE DEF total, combined
  <2> QED
    BY <1>1
<1> QED
  BY <1>4, <1>5, <1>6, <1>7, <1>8

------------------------------------------------------------------------------
(* The audit *)

(* Proceeds become cash, and profit less what left the lots.               *)
LEMMA SaleBooked ==
  ASSUME NEW earned \in Fraction, NEW profit \in Fraction, NEW cost \in Fraction,
         NEW f \in Fraction, NEW cash \in Int, NEW proceeds \in Int,
         Same(earned, Plus(Whole(cash), cost)),
         Same(profit, Minus(Whole(proceeds), Minus(cost, f)))
  PROVE  Same(Plus(earned, profit), Plus(Whole(cash + proceeds), f))
<1>1. PICK d \in Nat \ {0}, x \in Int, y \in Int, z \in Int, w \in Int :
        InUnits(earned, d, x) /\ InUnits(profit, d, y) /\ InUnits(cost, d, z) /\ InUnits(f, d, w)
  BY FourCommonUnits
<1> DEFINE cd == cash * d
           pd == proceeds * d
           all == cash + proceeds
           ad == all * d
<1>2. all \in Int
  OBVIOUS
<1>3. cd \in Int /\ pd \in Int /\ ad \in Int
  <2> HIDE DEF all
  <2> QED
    BY <1>1, <1>2, ProductType
<1>4. ad = cd + pd
  BY <1>1, SMT
<1>5. /\ Whole(cash) \in Fraction /\ InUnits(Whole(cash), d, cd)
      /\ Whole(proceeds) \in Fraction /\ InUnits(Whole(proceeds), d, pd)
      /\ Whole(all) \in Fraction /\ InUnits(Whole(all), d, ad)
  <2> HIDE DEF all
  <2> QED
    BY <1>1, <1>2, WholeType, UnitsWhole
<1> HIDE DEF cd, pd, ad, all
<1>6. /\ Plus(Whole(cash), cost) \in Fraction /\ InUnits(Plus(Whole(cash), cost), d, cd + z)
      /\ Minus(cost, f) \in Fraction /\ InUnits(Minus(cost, f), d, z - w)
      /\ cd + z \in Int /\ z - w \in Int
  BY <1>1, <1>3, <1>5, PlusType, UnitsPlus, MinusType, UnitsMinus
<1>7. /\ Minus(Whole(proceeds), Minus(cost, f)) \in Fraction
      /\ InUnits(Minus(Whole(proceeds), Minus(cost, f)), d, pd - (z - w))
      /\ pd - (z - w) \in Int
  BY <1>3, <1>5, <1>6, MinusType, UnitsMinus
<1>8. x = cd + z /\ y = pd - (z - w)
  BY <1>1, <1>6, <1>7, UnitsSame
<1>9. /\ Plus(earned, profit) \in Fraction /\ InUnits(Plus(earned, profit), d, x + y)
      /\ Plus(Whole(all), f) \in Fraction /\ InUnits(Plus(Whole(all), f), d, ad + w)
      /\ x + y \in Int /\ ad + w \in Int
  BY <1>1, <1>3, <1>5, PlusType, UnitsPlus
<1>10. x + y = ad + w
  BY <1>1, <1>3, <1>4, <1>8
<1> QED
  BY <1>9, <1>10, UnitsSame DEF all

(* A purchase turns cash into cost. *)
LEMMA PurchaseBooked ==
  ASSUME NEW earned \in Fraction, NEW cost \in Fraction,
         NEW f \in Fraction, NEW cash \in Int, NEW paid \in Int,
         Same(earned, Plus(Whole(cash), cost)), Same(f, Plus(cost, Whole(paid)))
  PROVE  Same(Plus(earned, Zero), Plus(Whole(cash - paid), f))
<1>1. PICK d \in Nat \ {0}, x \in Int, y \in Int, z \in Int, w \in Int :
        InUnits(earned, d, x) /\ InUnits(Zero, d, y) /\ InUnits(cost, d, z) /\ InUnits(f, d, w)
  BY ZeroType, FourCommonUnits
<1> DEFINE cd == cash * d
           pd == paid * d
           all == cash - paid
           ad == all * d
<1>2. all \in Int
  OBVIOUS
<1>3. cd \in Int /\ pd \in Int /\ ad \in Int
  <2> HIDE DEF all
  <2> QED
    BY <1>1, <1>2, ProductType
<1>4. ad = cd - pd
  BY <1>1, SMT
<1>5. /\ Whole(cash) \in Fraction /\ InUnits(Whole(cash), d, cd)
      /\ Whole(paid) \in Fraction /\ InUnits(Whole(paid), d, pd)
      /\ Whole(all) \in Fraction /\ InUnits(Whole(all), d, ad)
  <2> HIDE DEF all
  <2> QED
    BY <1>1, <1>2, WholeType, UnitsWhole
<1>6. y = 0
  BY <1>1 DEF InUnits, Zero, Whole
<1> HIDE DEF cd, pd, ad, all
<1>7. /\ Plus(Whole(cash), cost) \in Fraction /\ InUnits(Plus(Whole(cash), cost), d, cd + z)
      /\ Plus(cost, Whole(paid)) \in Fraction /\ InUnits(Plus(cost, Whole(paid)), d, z + pd)
      /\ cd + z \in Int /\ z + pd \in Int
  BY <1>1, <1>3, <1>5, PlusType, UnitsPlus
<1>8. x = cd + z /\ w = z + pd
  BY <1>1, <1>7, UnitsSame
<1>9. /\ Plus(earned, Zero) \in Fraction /\ InUnits(Plus(earned, Zero), d, x + y)
      /\ Plus(Whole(all), f) \in Fraction /\ InUnits(Plus(Whole(all), f), d, ad + w)
      /\ x + y \in Int /\ ad + w \in Int
  BY <1>1, <1>3, <1>5, ZeroType, PlusType, UnitsPlus
<1>10. x + y = ad + w
  BY <1>1, <1>3, <1>4, <1>6, <1>8
<1> QED
  BY <1>9, <1>10, UnitsSame DEF all

(* What the auditor says of one matched trade and of one symbol.           *)
MatchInOrder(m) ==
  LET units == Units(AsPairs(m.before))
      order == IF m.method = "FIFO" THEN units ELSE Reverse(units)
      taken == Smaller(m.trade.quantity, Len(units))
  IN m.method # "AverageCost" =>
       Units(m.result.matched_pairs) = SubSeq(order, 1, taken)

Balance(queue, book) ==
  /\ TotalRemaining(queue) = book.net
  /\ Same(book.earned, Plus(Whole(book.cash), TotalCost(queue)))

(* What a match must hand out, whatever the method.                        *)
MatchGood(trade, id, how, before, out) ==
  /\ out.lots \in Seq(Lot) /\ out.result.realized_pnl \in Fraction
  /\ InOrder(out.lots, id)
  /\ MatchInOrder([trade |-> trade, method |-> how, before |-> before,
                   after |-> out.lots, result |-> out.result])
  /\ MarginKept(trade, before, out.lots, out.result)
  /\ how = "AverageCost" => AverageGood(trade, id, before, out)

(* Whatever the method, a match leaves ordered lots and earns its margin. *)
LEMMA MatchOutcome ==
  ASSUME LotsTypeOK, NEW trade \in Trade, NEW q \in Seq(Lot), NEW id \in Nat, InOrder(q, id)
  PROVE  MatchGood(trade, id + 1, method, q, Matched(trade, id + 1, q))
<1> DEFINE out == Matched(trade, id + 1, q)
           rec == [trade |-> trade, method |-> method, before |-> q,
                   after |-> out.lots, result |-> out.result]
<1>1. method \in {"FIFO", "LIFO", "AverageCost"}
  BY LotMethodsAssumption DEF LotsTypeOK
<1>2. /\ rec.trade = trade /\ rec.method = method /\ rec.before = q
      /\ rec.result = out.result
  OBVIOUS
<1>3. CASE method = "FIFO"
  <2>1. out = match_fifo(trade, id + 1, q)
    BY <1>3 DEF Matched
  <2> HIDE DEF out, rec
  <2>2. /\ out.lots \in Seq(Lot) /\ out.result.realized_pnl \in Fraction
        /\ InOrder(out.lots, id + 1)
        /\ TakenFrom(trade, Units(AsPairs(q)), out.result)
        /\ MarginKept(trade, q, out.lots, out.result)
    BY <2>1, FifoOutcome
  <2>3. MatchInOrder(rec)
    BY <1>2, <1>3, <2>2 DEF MatchInOrder, TakenFrom
  <2>4. MatchGood(trade, id + 1, method, q, out)
    BY <1>3, <2>2, <2>3 DEF MatchGood, rec
  <2> QED
    BY <2>4 DEF out
<1>4. CASE method = "LIFO"
  <2>1. out = match_lifo(trade, id + 1, q)
    BY <1>4 DEF Matched
  <2> HIDE DEF out, rec
  <2>2. /\ out.lots \in Seq(Lot) /\ out.result.realized_pnl \in Fraction
        /\ InOrder(out.lots, id + 1)
        /\ TakenFrom(trade, Reverse(Units(AsPairs(q))), out.result)
        /\ MarginKept(trade, q, out.lots, out.result)
    BY <2>1, LifoOutcome
  <2>3. Len(Reverse(Units(AsPairs(q)))) = Len(Units(AsPairs(q)))
    BY CountOfUnits, ReverseOf
  <2>4. MatchInOrder(rec)
    BY <1>2, <1>4, <2>2, <2>3 DEF MatchInOrder, TakenFrom
  <2>5. MatchGood(trade, id + 1, method, q, out)
    BY <1>4, <2>2, <2>4 DEF MatchGood, rec
  <2> QED
    BY <2>5 DEF out
<1>5. CASE method = "AverageCost"
  <2>1. out = match_avg_cost(trade, id + 1, q)
    BY <1>5 DEF Matched
  <2> HIDE DEF out, rec
  <2>2. AverageGood(trade, id + 1, q, out)
    BY <2>1, AverageOutcome
  <2>3. MatchInOrder(rec)
    BY <1>2, <1>5 DEF MatchInOrder
  <2>4. MatchGood(trade, id + 1, method, q, out)
    BY <2>2, <2>3 DEF MatchGood, AverageGood, rec
  <2> QED
    BY <2>4 DEF out
<1> QED
  BY <1>1, <1>3, <1>4, <1>5

(* What the auditor keeps of a symbol. *)
AuditedBook == [net : Int, cash : Int, earned : Fraction, longAtAverage : BOOLEAN]

(* The inductive invariant of the audited lots.                            *)
LotsInv ==
  /\ LotsTypeOK
  /\ books \in [Symbols -> AuditedBook]
  /\ DOMAIN last = Symbols
  /\ \A s \in Symbols : InOrder(lots[s], trades)
  /\ \A s \in Symbols : \A i \in DOMAIN last[s] :
       LET m == last[s][i]
       IN MatchInOrder(m) /\ MarginKept(m.trade, m.before, m.after, m.result)
  /\ \A s \in Symbols : books[s].longAtAverage => Balance(lots[s], books[s])

(* No lots, and nothing traded. *)
LEMMA EmptyBalance == Balance(<< >>, NothingTraded) /\ NothingTraded \in AuditedBook
<1>1. TotalRemaining(<< >>) = 0 /\ TotalCost(<< >>) = Zero
  BY RemainingOf, CostOf
<1>2. NothingTraded.net = 0 /\ NothingTraded.cash = 0 /\ NothingTraded.earned = Zero
  BY DEF NothingTraded
<1>3. Same(Zero, Plus(Whole(0), Zero))
  BY DEF Same, Plus, Zero, Whole
<1>4. NothingTraded \in AuditedBook
  BY ZeroType DEF NothingTraded, AuditedBook
<1> HIDE DEF NothingTraded
<1> QED
  BY <1>1, <1>2, <1>3, <1>4 DEF Balance

LEMMA LotsStart == AuditInit => LotsInv
<1> SUFFICES ASSUME AuditInit
             PROVE  LotsInv
  OBVIOUS
<1>1. /\ lots = [s \in Symbols |-> << >>] /\ method \in LotMethods /\ trades = 0
      /\ last = [s \in Symbols |-> << >>] /\ books = [s \in Symbols |-> NothingTraded]
  BY DEF AuditInit, LotsInit
<1>2. LotsTypeOK
  BY <1>1, EmptySeq, MaxTradesAssumption DEF LotsTypeOK
<1>3. books \in [Symbols -> AuditedBook] /\ DOMAIN last = Symbols
  BY <1>1, EmptyBalance
<1>4. \A s \in Symbols : /\ lots[s] = << >> /\ books[s] = NothingTraded /\ last[s] = << >>
  BY <1>1
<1>5. \A s \in Symbols : InOrder(lots[s], trades) /\ Balance(lots[s], books[s])
  BY <1>4, EmptyBalance, InOrderNothing
<1>6. \A s \in Symbols : DOMAIN last[s] = {}
  BY <1>4
<1> QED
  BY <1>2, <1>3, <1>5, <1>6 DEF LotsInv

(* What is written of a trade.                                             *)
LEMMA AfterTradeOf ==
  ASSUME NEW book \in AuditedBook, NEW trade \in Trade, NEW profit \in Fraction
  PROVE  LET next == AfterTrade(book, trade, profit)
         IN /\ next \in AuditedBook
            /\ next.net = book.net + SignedQuantity(trade)
            /\ next.cash = book.cash - SignedQuantity(trade) * trade.price
            /\ next.earned = Plus(book.earned, profit)
            /\ next.longAtAverage <=> book.longAtAverage /\ next.net >= 0
                                        /\ method = "AverageCost"
<1> DEFINE next == AfterTrade(book, trade, profit)
           net == book.net + SignedQuantity(trade)
           cash == book.cash - SignedQuantity(trade) * trade.price
           earned == Plus(book.earned, profit)
           kept == book.longAtAverage /\ net >= 0 /\ method = "AverageCost"
<1>1. next = [net |-> net, cash |-> cash, earned |-> earned, longAtAverage |-> kept]
  BY Zenon DEF AfterTrade
<1>2. net \in Int /\ cash \in Int /\ earned \in Fraction
  <2>1. /\ book.net \in Int /\ book.cash \in Int /\ book.earned \in Fraction
        /\ SignedQuantity(trade) \in Int /\ trade.price \in Int
    BY SignedQuantityType DEF AuditedBook
  <2>2. SignedQuantity(trade) * trade.price \in Int
    BY <2>1, ProductType
  <2> QED
    BY <2>1, <2>2, PlusType
<1>3. kept \in BOOLEAN
  BY Zenon
<1> HIDE DEF net, cash, earned, kept, next
<1>4. next \in AuditedBook
  BY <1>1, <1>2, <1>3 DEF AuditedBook
<1>5. next.net = net /\ next.cash = cash /\ next.earned = earned /\ next.longAtAverage = kept
  BY <1>1
<1>6. next.longAtAverage <=> book.longAtAverage /\ next.net >= 0 /\ method = "AverageCost"
  BY <1>5, Zenon DEF kept
<1> QED
  BY <1>4, <1>5, <1>6 DEF net, cash, earned, next

(* A trade at average cost keeps a long account balanced.                  *)
LEMMA BalanceKept ==
  ASSUME NEW book \in AuditedBook, NEW trade \in Trade, NEW q \in Seq(Lot), NEW id,
         NEW out, AverageGood(trade, id, q, out), Balance(q, book),
         NEW next \in AuditedBook,
         next.net = book.net + SignedQuantity(trade),
         next.cash = book.cash - SignedQuantity(trade) * trade.price,
         next.earned = Plus(book.earned, out.result.realized_pnl),
         next.net >= 0
  PROVE  Balance(out.lots, next)
<1> DEFINE total == TotalRemaining(q)
           cost == TotalCost(q)
           f == TotalCost(out.lots)
           cash == book.cash
           profit == out.result.realized_pnl
           amount == trade.quantity * trade.price
<1>1. /\ total \in Nat /\ cost \in Fraction /\ f \in Fraction /\ profit \in Fraction
      /\ out.lots \in Seq(Lot) /\ book.earned \in Fraction /\ cash \in Int /\ book.net \in Int
  <2>1. out.lots \in Seq(Lot) /\ profit \in Fraction
    BY DEF AverageGood
  <2>2. total \in Nat /\ cost \in Fraction /\ f \in Fraction
    BY <2>1, RemainingIsFold, CostIsFold
  <2>3. book.earned \in Fraction /\ cash \in Int /\ book.net \in Int
    BY DEF AuditedBook
  <2> QED
    BY <2>1, <2>2, <2>3
<1>2. total = book.net /\ Same(book.earned, Plus(Whole(cash), cost))
  BY DEF Balance
<1>3. /\ trade.quantity \in Nat \ {0} /\ trade.price \in Int /\ amount \in Int
      /\ trade.side = "Buy" => SignedQuantity(trade) = trade.quantity
      /\ trade.side # "Buy" => SignedQuantity(trade) = -trade.quantity
      /\ trade.side \in {"Buy", "Sell"}
  BY SignedQuantityType, ProductType DEF Trade, Sides
<1>4. CASE trade.side = "Buy"
  <2>1. TotalRemaining(out.lots) = total + trade.quantity /\ profit = Zero
        /\ Same(f, Plus(cost, Whole(amount)))
    BY <1>4 DEF AverageGood
  <2>2. next.net = TotalRemaining(out.lots) /\ next.cash = cash - amount
    BY <1>2, <1>3, <1>4, <2>1
  <2> HIDE DEF cost, f, cash, profit, amount
  <2>3. Same(Plus(book.earned, Zero), Plus(Whole(cash - amount), f))
    BY <1>1, <1>2, <1>3, <2>1, PurchaseBooked
  <2>4. Same(next.earned, Plus(Whole(next.cash), f))
    BY <2>1, <2>2, <2>3 DEF profit
  <2> QED
    BY <2>2, <2>4 DEF Balance, f
<1>5. CASE trade.side # "Buy"
  <2>1. trade.side = "Sell" /\ trade.quantity <= total
    <3> HIDE DEF total
    <3> QED
      BY <1>1, <1>2, <1>3, <1>5
  <2>2. Same(profit, Minus(Whole(amount), Minus(cost, f)))
        /\ TotalRemaining(out.lots) = total - trade.quantity
    BY <2>1 DEF AverageGood, MarginKept
  <2>3. next.net = TotalRemaining(out.lots)
    <3> HIDE DEF total
    <3> QED
      BY <1>1, <1>2, <1>3, <1>5, <2>2
  <2>4. next.cash = cash + amount
    <3>1. (-trade.quantity) * trade.price = -(trade.quantity * trade.price)
      BY <1>3, SMT
    <3>2. next.cash = cash - (-amount)
      BY <1>3, <1>5, <3>1
    <3> HIDE DEF cash, amount
    <3> QED
      BY <1>1, <1>3, <3>2
  <2> HIDE DEF cost, f, cash, profit, amount
  <2>5. Same(Plus(book.earned, profit), Plus(Whole(cash + amount), f))
    BY <1>1, <1>2, <1>3, <2>2, SaleBooked
  <2>6. Same(next.earned, Plus(Whole(next.cash), f))
    BY <2>4, <2>5 DEF profit
  <2> QED
    BY <2>3, <2>6 DEF Balance, f
<1> QED
  BY <1>4, <1>5

(* A match keeps the invariant. *)
LEMMA LotsMatch ==
  ASSUME LotsInv, NEW trade \in Trade, Match(trade)
  PROVE  LotsInv'
<1>1. PICK s \in Symbols : s = trade.symbol
  BY SignedQuantityType
<1>2. PICK q \in Seq(Lot) : q = lots[s]
  BY DEF LotsInv, LotsTypeOK
<1>3. PICK id \in Nat : id = trades /\ id < MaxTrades
  BY MaxTradesAssumption DEF LotsInv, LotsTypeOK, Match, match
<1>4. PICK how : how = method
  OBVIOUS
<1>5. PICK out : out = Matched(trade, id + 1, q)
  OBVIOUS
<1>6. PICK rec : rec = [trade |-> trade, method |-> how, before |-> q,
                        after |-> out.lots, result |-> out.result]
  OBVIOUS
<1>7. PICK profit : profit = out.result.realized_pnl
  OBVIOUS
<1>8. PICK book \in AuditedBook : book = books[s]
  BY DEF LotsInv
<1>9. PICK next : next = AfterTrade(book, trade, profit)
  OBVIOUS
<1>10. /\ lots' = [lots EXCEPT ![s] = out.lots]
       /\ trades' = id + 1
       /\ last' = [last EXCEPT ![s] = <<rec>>]
       /\ method' = method
  BY <1>1, <1>2, <1>3, <1>4, <1>5, <1>6, Zenon DEF Match, match
<1>11. DOMAIN last = Symbols /\ lots \in [Symbols -> Seq(Lot)] /\ books \in [Symbols -> AuditedBook]
  BY DEF LotsInv, LotsTypeOK
<1>12. /\ last'[s] = <<rec>> /\ \A r \in Symbols \ {s} : last'[r] = last[r]
       /\ DOMAIN last' = Symbols
  BY <1>10, <1>11
<1>13. last'[s][1].result.realized_pnl = profit
  BY <1>6, <1>7, <1>12
<1>14. books' = [books EXCEPT ![s] = next]
  BY <1>1, <1>8, <1>9, <1>13, Zenon DEF Match
<1>15. MatchGood(trade, id + 1, how, q, out)
  <2>1. InOrder(q, id)
    BY <1>2, <1>3 DEF LotsInv
  <2> QED
    BY <1>4, <1>5, <2>1, MatchOutcome DEF LotsInv
<1>16. /\ out.lots \in Seq(Lot) /\ profit \in Fraction /\ InOrder(out.lots, id + 1)
       /\ MatchInOrder(rec)
       /\ MarginKept(rec.trade, rec.before, rec.after, rec.result)
       /\ how = "AverageCost" => AverageGood(trade, id + 1, q, out)
  BY <1>6, <1>7, <1>15 DEF MatchGood
<1>17. /\ next \in AuditedBook
       /\ next.net = book.net + SignedQuantity(trade)
       /\ next.cash = book.cash - SignedQuantity(trade) * trade.price
       /\ next.earned = Plus(book.earned, out.result.realized_pnl)
       /\ next.longAtAverage => book.longAtAverage /\ next.net >= 0 /\ how = "AverageCost"
  BY <1>4, <1>7, <1>9, <1>16, AfterTradeOf
<1>18. /\ lots'[s] = out.lots /\ \A r \in Symbols \ {s} : lots'[r] = lots[r]
       /\ books'[s] = next /\ \A r \in Symbols \ {s} : books'[r] = books[r]
  BY <1>10, <1>11, <1>14
<1>19. LotsTypeOK'
  BY <1>3, <1>10, <1>11, <1>16, MaxTradesAssumption DEF LotsInv, LotsTypeOK
<1>20. books' \in [Symbols -> AuditedBook]
  BY <1>11, <1>14, <1>17
<1>21. \A r \in Symbols : InOrder(lots'[r], trades')
  <2> TAKE r \in Symbols
  <2>1. CASE r = s
    BY <1>10, <1>16, <1>18, <2>1
  <2>2. CASE r # s
    <3>1. lots[r] \in Seq(Lot) /\ InOrder(lots[r], id)
      BY <1>3, <1>11 DEF LotsInv
    <3> QED
      BY <1>10, <1>18, <2>2, <3>1, InOrderLater
  <2> QED
    BY <2>1, <2>2
<1>22. \A r \in Symbols : \A i \in DOMAIN last'[r] :
         /\ MatchInOrder(last'[r][i])
         /\ MarginKept(last'[r][i].trade, last'[r][i].before, last'[r][i].after,
                    last'[r][i].result)
  <2> SUFFICES ASSUME NEW r \in Symbols, NEW i \in DOMAIN last'[r]
               PROVE  /\ MatchInOrder(last'[r][i])
                      /\ MarginKept(last'[r][i].trade, last'[r][i].before, last'[r][i].after,
                                 last'[r][i].result)
    OBVIOUS
  <2>1. CASE r = s
    <3>1. i = 1
      BY <1>12, <2>1
    <3>2. last'[r][i] = rec
      BY <1>12, <2>1, <3>1
    <3> QED
      BY <1>16, <3>2
  <2>2. CASE r # s
    <3>1. last'[r] = last[r]
      BY <1>12, <2>2
    <3>2. i \in DOMAIN last[r]
      BY <3>1
    <3>3. /\ MatchInOrder(last[r][i])
          /\ MarginKept(last[r][i].trade, last[r][i].before, last[r][i].after, last[r][i].result)
      BY <3>2 DEF LotsInv
    <3> QED
      BY <3>1, <3>3
  <2> QED
    BY <2>1, <2>2
<1>23. \A r \in Symbols : books'[r].longAtAverage => Balance(lots'[r], books'[r])
  <2> SUFFICES ASSUME NEW r \in Symbols, books'[r].longAtAverage
               PROVE  Balance(lots'[r], books'[r])
    OBVIOUS
  <2>1. CASE r = s
    <3>1. next.longAtAverage
      BY <1>18, <2>1
    <3>2. book.longAtAverage /\ next.net >= 0 /\ how = "AverageCost"
      BY <1>17, <3>1
    <3>3. Balance(q, book)
      BY <1>2, <1>8, <3>2 DEF LotsInv
    <3>4. Balance(out.lots, next)
      BY <1>16, <1>17, <3>2, <3>3, BalanceKept
    <3> QED
      BY <1>18, <2>1, <3>4
  <2>2. CASE r # s
    <3>1. books'[r] = books[r] /\ lots'[r] = lots[r]
      BY <1>18, <2>2
    <3>2. Balance(lots[r], books[r])
      BY <3>1 DEF LotsInv
    <3> QED
      BY <3>1, <3>2
  <2> QED
    BY <2>1, <2>2
<1> QED
  BY <1>12, <1>19, <1>20, <1>21, <1>22, <1>23 DEF LotsInv

(* Clearing lots opens their accounts anew.                                *)
LEMMA LotsClear ==
  ASSUME LotsInv, NEW S \in SUBSET Symbols,
         lots' = [r \in Symbols |-> IF r \in S THEN << >> ELSE lots[r]],
         books' = [r \in Symbols |-> IF r \in S THEN NothingTraded ELSE books[r]],
         UNCHANGED <<method, trades, last>>
  PROVE  LotsInv'
<1>1. LotsTypeOK'
  BY EmptySeq DEF LotsInv, LotsTypeOK
<1>2. books' \in [Symbols -> AuditedBook]
  BY EmptyBalance DEF LotsInv
<1>3. \A r \in Symbols :
        /\ InOrder(lots'[r], trades')
        /\ books'[r].longAtAverage => Balance(lots'[r], books'[r])
  <2> TAKE r \in Symbols
  <2>1. CASE r \in S
    <3>1. lots'[r] = << >> /\ books'[r] = NothingTraded
      BY <2>1
    <3> QED
      BY <3>1, EmptyBalance, InOrderNothing
  <2>2. CASE r \notin S
    <3>1. lots'[r] = lots[r] /\ books'[r] = books[r] /\ trades' = trades
      BY <2>2
    <3>2. InOrder(lots[r], trades) /\ (books[r].longAtAverage => Balance(lots[r], books[r]))
      BY DEF LotsInv
    <3> QED
      BY <3>1, <3>2
  <2> QED
    BY <2>1, <2>2
<1>4. last' = last
  OBVIOUS
<1>5. DOMAIN last' = Symbols
  BY <1>4 DEF LotsInv
<1>6. \A s \in Symbols : \A i \in DOMAIN last'[s] :
        /\ MatchInOrder(last'[s][i])
        /\ MarginKept(last'[s][i].trade, last'[s][i].before, last'[s][i].after,
                   last'[s][i].result)
  BY <1>4 DEF LotsInv
<1> QED
  BY <1>1, <1>2, <1>3, <1>5, <1>6 DEF LotsInv

(* However trades are matched, lots cleared and methods switched, what the *)
(* auditor says holds of every symbol: each of the four properties below   *)
(* is a part of LotsInv, which also types the lots.                       *)
THEOREM LotsInvariant == AuditSpec => []LotsInv
<1>1. AuditInit => LotsInv
  BY LotsStart
<1>2. LotsInv /\ [AuditNext]_auditVars => LotsInv'
  <2> SUFFICES ASSUME LotsInv, [AuditNext]_auditVars
               PROVE  LotsInv'
    OBVIOUS
  <2>1. ASSUME NEW trade \in Trade, Match(trade)
        PROVE  LotsInv'
    BY <2>1, LotsMatch
  <2>2. ASSUME NEW s \in Symbols, Clear(s)
        PROVE  LotsInv'
    <3>1. /\ lots' = [r \in Symbols |-> IF r \in {s} THEN << >> ELSE lots[r]]
          /\ books' = [r \in Symbols |-> IF r \in {s} THEN NothingTraded ELSE books[r]]
          /\ UNCHANGED <<method, trades, last>>
      BY <2>2 DEF Clear, clear, LotsInv, LotsTypeOK
    <3>2. {s} \in SUBSET Symbols
      OBVIOUS
    <3> QED
      BY <3>1, <3>2, LotsClear
  <2>3. ASSUME ClearAll
        PROVE  LotsInv'
    <3>1. /\ lots' = [r \in Symbols |-> IF r \in Symbols THEN << >> ELSE lots[r]]
          /\ books' = [r \in Symbols |-> IF r \in Symbols THEN NothingTraded ELSE books[r]]
          /\ UNCHANGED <<method, trades, last>>
      BY <2>3 DEF ClearAll, clear_all
    <3>2. Symbols \in SUBSET Symbols
      OBVIOUS
    <3> QED
      BY <3>1, <3>2, LotsClear
  <2>4. ASSUME NEW m \in LotMethods, SetMethod(m)
        PROVE  LotsInv'
    <3>1. lots' = lots /\ trades' = trades /\ last' = last /\ books' = books /\ method' = m
      BY <2>4 DEF SetMethod, set_method
    <3>2. LotsTypeOK'
      BY <3>1 DEF LotsInv, LotsTypeOK
    <3> QED
      BY <3>1, <3>2 DEF LotsInv
  <2>5. ASSUME UNCHANGED auditVars
        PROVE  LotsInv'
    <3>1. lots' = lots /\ trades' = trades /\ last' = last /\ books' = books /\ method' = method
      BY <2>5 DEF auditVars, lotsVars
    <3>2. LotsTypeOK'
      BY <3>1 DEF LotsInv, LotsTypeOK
    <3> QED
      BY <3>1, <3>2 DEF LotsInv
  <2> QED
    BY <2>1, <2>2, <2>3, <2>4, <2>5 DEF AuditNext
<1> QED
  BY <1>1, <1>2, PTL DEF AuditSpec

LEMMA OrderFollows == LotsInv => LotsInTradeOrder
  BY DEF LotsInv, LotsInTradeOrder, InOrder

(* Between the calls no lot is empty or larger than it was, and every      *)
(* deque stands in the order of its trades: match_fifo pushes what it has  *)
(* left to the front only when nothing else is left, so that front and     *)
(* back are the oldest and the newest lot for every method, however often  *)
(* set_method switches it.                                                 *)
THEOREM LotsStayInOrder == AuditSpec => []LotsInTradeOrder
  BY LotsInvariant, OrderFollows, PTL

LEMMA MethodFollows == LotsInv => ConsumesInMethodOrder
  BY DEF LotsInv, ConsumesInMethodOrder, MatchInOrder

(* match_fifo consumes the oldest units and match_lifo the newest, one by  *)
(* one and as many as the trade asks for, from queues of every length.     *)
THEOREM LotsGoInMethodOrder == AuditSpec => []ConsumesInMethodOrder
  BY LotsInvariant, MethodFollows, PTL

LEMMA MarginFollows == LotsInv => CoveredSaleEarnsMargin
  BY DEF LotsInv, CoveredSaleEarnsMargin, MarginKept

(* A sale that the lots cover takes its quantity off them, and its profit  *)
(* is its proceeds less the cost that left the lots, under every method:   *)
(* Gain's arithmetic and the averages of match_avg_cost lose nothing.      *)
THEOREM SalesEarnTheirMargin == AuditSpec => []CoveredSaleEarnsMargin
  BY LotsInvariant, MarginFollows, PTL

LEMMA BalanceFollows == LotsInv => AverageCostBalances
  BY DEF LotsInv, AverageCostBalances, Balance

(* A symbol matched at average cost throughout and never sold short: its   *)
(* lots hold the net quantity traded, and the profit match_avg_cost handed *)
(* out is the cash of the trades and the cost of what the lots hold.       *)
THEOREM AverageCostStaysBalanced == AuditSpec => []AverageCostBalances
  BY LotsInvariant, BalanceFollows, PTL
==============================================================================
