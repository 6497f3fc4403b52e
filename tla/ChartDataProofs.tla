--------------------------- MODULE ChartDataProofs ---------------------------
(* Theorems about ChartData, for any trades, candles, timeframes and risk orders. *)
EXTENDS ChartData, SequenceTheorems, FiniteSetTheorems, TLAPS

-----------------------------------------------------------------------------
(* The size of a risk order *)

LEMMA Division ==
  ASSUME NEW a \in Int, NEW b \in Nat \ {0}
  PROVE  /\ a = b * (a \div b) + (a % b)
         /\ a \div b \in Int /\ a % b \in Nat /\ a % b < b
OBVIOUS

\* A quantity is rounded by half a unit at most.
LEMMA RoundedNear ==
  ASSUME NEW a \in Int, NEW b \in Nat \ {0}
  PROVE  Rounded(a, b) \in Int /\ 2 * Distance(Rounded(a, b) * b, a) <= b
<1> DEFINE q == a \div b
           r == a % b
<1>1. a = b * q + r /\ q \in Int /\ r \in Nat /\ r < b BY Division
<1>2. \/ Rounded(a, b) = q + 1 /\ 2 * r >= b
      \/ Rounded(a, b) = q /\ 2 * r <= b
  BY <1>1 DEF Rounded
<1> HIDE DEF q, r
<1>3. CASE Rounded(a, b) = q + 1 /\ 2 * r >= b
  <2>1. Rounded(a, b) * b = b * q + b BY <1>1, <1>3
  <2>2. Rounded(a, b) * b - a = b - r /\ a <= Rounded(a, b) * b
    <3>1. b * q \in Int BY <1>1
    <3> QED BY <1>1, <2>1, <3>1
  <2>3. Distance(Rounded(a, b) * b, a) = b - r
    <3>1. Rounded(a, b) * b \in Int BY <1>1, <1>3
    <3> QED BY <1>1, <2>2, <3>1 DEF Distance
  <2> QED BY <1>1, <1>3, <2>3
<1>4. CASE Rounded(a, b) = q /\ 2 * r <= b
  <2>1. Rounded(a, b) * b = b * q BY <1>1, <1>4
  <2>2. a - Rounded(a, b) * b = r /\ Rounded(a, b) * b <= a
    <3>1. b * q \in Int BY <1>1
    <3> QED BY <1>1, <2>1, <3>1
  <2>3. Distance(Rounded(a, b) * b, a) = r
    <3>1. Rounded(a, b) * b \in Int BY <1>1, <1>4
    <3> QED BY <1>1, <2>2, <3>1 DEF Distance
  <2> QED BY <1>1, <1>4, <2>3
<1> QED BY <1>2, <1>3, <1>4

LEMMA DivisionExact ==
  ASSUME NEW a \in Int, NEW b \in Nat \ {0}, a % b = 0
  PROVE  a \div b \in Int /\ (a \div b) * b = a
<1> DEFINE q == a \div b
<1>1. a = b * q /\ q \in Int BY Division
<1> HIDE DEF q
<1>2. q * b = a BY <1>1
<1> QED BY <1>1, <1>2 DEF q

\* What a price gains on the entry of a position.
GainOn(side, entry, price) == IF side = "Buy" THEN price - entry ELSE entry - price

LEMMA AheadGains ==
  ASSUME NEW side \in {"Buy", "Sell"}, NEW entry \in Int, NEW d \in Int
  PROVE  Ahead(side, entry, d) \in Int /\ GainOn(side, entry, Ahead(side, entry, d)) = d
BY DEF Ahead, GainOn

LEMMA PercentExact ==
  ASSUME NEW entry \in Int, NEW v, v.amount \in Int, (entry * v.amount) % 100 = 0
  PROVE  Percent(entry, v) \in Int /\ 100 * Percent(entry, v) = entry * v.amount
<1> DEFINE a == entry * v.amount
<1>1. a \in Int OBVIOUS
<1>2. a % 100 = 0 OBVIOUS
<1>3. Percent(entry, v) = a \div 100 BY DEF Percent
<1> HIDE DEF a
<1>4. a \div 100 \in Int /\ (a \div 100) * 100 = a BY <1>1, <1>2, DivisionExact
<1> QED BY <1>3, <1>4 DEF a

\* The stop is the price or the percentage of the entry that a command asks for.
LEMMA StopAsked ==
  ASSUME NEW side \in {"Buy", "Sell"}, NEW entry \in Int, NEW v \in Written,
         v.kind = "percent" => (entry * v.amount) % 100 = 0
  PROVE  LET sl == StopLoss(side, entry, v)
         IN /\ sl \in Int
            /\ IF v.kind = "percent" THEN -100 * GainOn(side, entry, sl) = entry * v.amount
               ELSE sl = v.amount
<1>1. v.amount \in Int /\ v.kind \in {"percent", "absolute"} BY DEF Written
<1>2. CASE v.kind = "percent"
  <2> DEFINE d == Percent(entry, v)
  <2>1. d \in Int /\ 100 * d = entry * v.amount BY <1>1, <1>2, PercentExact
  <2>2. StopLoss(side, entry, v) = Ahead(side, entry, -d) BY <1>2 DEF StopLoss
  <2> HIDE DEF d
  <2>3. -d \in Int BY <2>1
  <2>4. /\ Ahead(side, entry, -d) \in Int
        /\ GainOn(side, entry, Ahead(side, entry, -d)) = -d
    BY <2>3, AheadGains
  <2>5. -100 * (-d) = 100 * d BY <2>1
  <2> QED BY <1>2, <2>1, <2>2, <2>4, <2>5
<1>3. CASE v.kind # "percent" BY <1>1, <1>3 DEF StopLoss
<1> QED BY <1>2, <1>3

\* The take profit is the price, the percentage or the ratio asked for.
LEMMA ProfitAsked ==
  ASSUME NEW side \in {"Buy", "Sell"}, NEW entry \in Int, NEW sl \in Int,
         NEW v \in Written \cup Ratios, ~(v.kind = "ratio" /\ v.num = 0),
         v.kind = "percent" => (entry * v.amount) % 100 = 0,
         v.kind = "ratio" /\ v.num > 0 => (Distance(entry, sl) * v.denom) % v.num = 0
  PROVE  LET tp == TakeProfit(side, entry, sl, v)
         IN CASE v.kind = "percent" -> 100 * GainOn(side, entry, tp) = entry * v.amount
              [] v.kind = "absolute" -> tp = v.amount
              [] v.kind = "ratio" ->
                   GainOn(side, entry, tp) * v.num = Distance(entry, sl) * v.denom
<1>0. \A d \in Int : GainOn(side, entry, Ahead(side, entry, d)) = d BY DEF Ahead, GainOn
<1> DEFINE tp == TakeProfit(side, entry, sl, v)
<1>1. CASE v.kind = "percent"
  <2> DEFINE gain == Percent(entry, v)
  <2>1. v.amount \in Int BY <1>1 DEF Written, Ratios
  <2>2. gain \in Int /\ 100 * gain = entry * v.amount BY <1>1, <2>1, PercentExact
  <2>3. tp = Ahead(side, entry, gain) BY <1>1 DEF TakeProfit
  <2> HIDE DEF gain, tp
  <2>4. GainOn(side, entry, tp) = gain
    <3>0. gain \in Int BY <2>2
    <3>1. GainOn(side, entry, Ahead(side, entry, gain)) = gain BY <1>0, <3>0
    <3> QED BY <2>3, <3>1, Zenon
  <2>5. 100 * GainOn(side, entry, tp) = entry * v.amount BY <2>2, <2>4
  <2> QED BY <1>1, <2>5 DEF tp
<1>2. CASE v.kind = "absolute" BY <1>2 DEF TakeProfit
<1>3. CASE v.kind = "ratio"
  <2> DEFINE a == Distance(entry, sl) * v.denom
             gain == a \div v.num
  <2>1. v.num \in Nat \ {0} /\ v.denom \in Nat \ {0} BY <1>3 DEF Written, Ratios
  <2>2. Distance(entry, sl) \in Int BY DEF Distance
  <2>3. a \in Int BY <2>1, <2>2
  <2>4. a % v.num = 0 BY <1>3, <2>1
  <2>5. tp = Ahead(side, entry, gain) BY <1>3 DEF TakeProfit
  <2> HIDE DEF a
  <2>6. gain \in Int /\ gain * v.num = a BY <2>1, <2>3, <2>4, DivisionExact
  <2> HIDE DEF gain, tp
  <2>7. GainOn(side, entry, tp) = gain
    <3>0. gain \in Int BY <2>6
    <3>1. GainOn(side, entry, Ahead(side, entry, gain)) = gain BY <1>0, <3>0
    <3> QED BY <2>5, <3>1, Zenon
  <2>8. GainOn(side, entry, tp) * v.num = Distance(entry, sl) * v.denom BY <2>6, <2>7 DEF a
  <2> QED BY <1>3, <2>8 DEF tp
<1>4. v.kind \in {"percent", "absolute", "ratio"} BY DEF Written, Ratios
<1> QED BY <1>1, <1>2, <1>3, <1>4

\* An order that goes out keeps to the risk, the stop and the take profit asked for.
LEMMA OrderKeepsRisk ==
  ASSUME NEW c \in Commands, NEW entry \in Prices \cup ({c.limit} \ {Null}),
         ExecuteRiskOrder(c, entry)
  PROVE  RiskKept'
<1>1. /\ c.risk \in Int /\ c.side \in {"Buy", "Sell"} /\ c.sl \in Written /\ entry \in Int
      /\ c.tp \in Written \cup Ratios \cup {Null}
      /\ WholeStop(c, entry) /\ WholeProfit(c, entry)
  BY RiskAssumption
<1> DEFINE limit == c.limit # Null
           sl == StopLoss(c.side, entry, c.sl)
           unit == RiskPerUnit(entry, sl, limit)
           dist == Distance(entry, sl)
           tp == IF c.tp = Null THEN Null ELSE TakeProfit(c.side, entry, sl, c.tp)
           quantity == Quantity(c.risk, entry, sl, limit)
<1> SUFFICES ASSUME Accepted(c.risk, c.side, entry, sl), ~ZeroRatio(c.tp) PROVE RiskKept'
  BY DEF ExecuteRiskOrder, RiskKept
<1>2. order' = [side |-> c.side, entry |-> entry, limit |-> limit, sl |-> sl, tp |-> tp,
                quantity |-> quantity, asked |-> c]
  BY DEF ExecuteRiskOrder
<1>3. /\ sl \in Int
      /\ IF c.sl.kind = "percent" THEN -100 * GainOn(c.side, entry, sl) = entry * c.sl.amount
         ELSE sl = c.sl.amount
  BY <1>1, StopAsked DEF WholeStop
<1>4. c.tp # Null =>
        CASE c.tp.kind = "percent" -> 100 * GainOn(c.side, entry, tp) = entry * c.tp.amount
          [] c.tp.kind = "absolute" -> tp = c.tp.amount
          [] c.tp.kind = "ratio" -> GainOn(c.side, entry, tp) * c.tp.num = dist * c.tp.denom
  <2> SUFFICES ASSUME c.tp # Null
               PROVE  CASE c.tp.kind = "percent" ->
                             100 * GainOn(c.side, entry, tp) = entry * c.tp.amount
                        [] c.tp.kind = "absolute" -> tp = c.tp.amount
                        [] c.tp.kind = "ratio" ->
                             GainOn(c.side, entry, tp) * c.tp.num = dist * c.tp.denom
    OBVIOUS
  <2>1. /\ c.tp.kind = "percent" => (entry * c.tp.amount) % 100 = 0
        /\ c.tp.kind = "ratio" /\ c.tp.num > 0 => (dist * c.tp.denom) % c.tp.num = 0
    BY <1>1 DEF WholeProfit
  <2>2. ~(c.tp.kind = "ratio" /\ c.tp.num = 0) BY DEF ZeroRatio
  <2>3. tp = TakeProfit(c.side, entry, sl, c.tp) OBVIOUS
  <2>4. c.tp \in Written \cup Ratios BY <1>1
  <2> HIDE DEF tp, sl
  <2> QED BY <1>1, <1>3, <2>1, <2>2, <2>3, <2>4, ProfitAsked
<1> HIDE DEF sl, tp, quantity
<1>5. c.risk > 0 /\ entry > 0 /\ -GainOn(c.side, entry, sl) = dist /\ dist \in Nat \ {0}
  BY <1>1, <1>3 DEF Accepted, ValidStop, GainOn, Distance
<1>6. unit \in Nat \ {0} /\ unit = dist * Unit + 2 * entry * Fee(limit)
  BY <1>1, <1>3, <1>5 DEF RiskPerUnit, Unit, Fee, Taker, Maker
<1>7. 2 * Distance(quantity * unit, c.risk * Unit) <= unit
  <2>1. c.risk * Unit \in Int BY <1>1 DEF Unit
  <2> QED BY <1>6, <2>1, RoundedNear DEF Quantity, quantity
<1> HIDE DEF dist, unit, limit
<1>8. /\ order'.side = c.side /\ order'.entry = entry /\ order'.limit = limit
      /\ order'.sl = sl /\ order'.tp = tp /\ order'.quantity = quantity /\ order'.asked = c
  BY <1>2
<1>9. /\ Gain(order.sl)' = GainOn(c.side, entry, sl)
      /\ Gain(order.tp)' = GainOn(c.side, entry, tp)
  BY <1>8 DEF Gain, GainOn
<1>10. GainOn(c.side, entry, sl) \in Int BY <1>1, <1>3 DEF GainOn
<1>11. Gain(order.sl)' < 0 /\ -Gain(order.sl)' = dist BY <1>5, <1>9, <1>10
<1>12. StopAsAsked(order.asked.sl)' BY <1>3, <1>8, <1>9 DEF StopAsAsked
<1>13. IF c.tp = Null THEN tp = Null ELSE ProfitAsAsked(order.asked.tp)'
  <2>1. CASE c.tp = Null BY <2>1 DEF tp
  <2>2. CASE c.tp # Null
    <3> USE <2>2
    <3>1. c.tp \in Written \cup Ratios BY <1>1
    <3>2. c.tp.kind \in {"percent", "absolute", "ratio"} BY <3>1 DEF Written, Ratios
    <3>3. CASE c.tp.kind = "percent"
      <4>1. 100 * GainOn(c.side, entry, tp) = entry * c.tp.amount BY <1>4, <3>3
      <4>2. 100 * Gain(order.tp)' = order'.entry * order'.asked.tp.amount BY <1>8, <1>9, <4>1
      <4>3. order'.asked.tp.kind = "percent" BY <1>8, <3>3
      <4> QED BY <4>2, <4>3 DEF ProfitAsAsked
    <3>4. CASE c.tp.kind = "absolute"
      <4>1. tp = c.tp.amount BY <1>4, <3>4
      <4>2. order'.tp = order'.asked.tp.amount BY <1>8, <4>1
      <4>3. order'.asked.tp.kind = "absolute" BY <1>8, <3>4
      <4> QED BY <4>2, <4>3 DEF ProfitAsAsked
    <3>5. CASE c.tp.kind = "ratio"
      <4>1. GainOn(c.side, entry, tp) * c.tp.num = dist * c.tp.denom BY <1>4, <3>5
      <4>2. -Gain(order.sl)' * c.tp.denom = dist * c.tp.denom
        <5>1. c.tp.denom \in Nat BY <3>1, <3>5 DEF Written, Ratios
        <5>2. PICK g \in Int : g = Gain(order.sl)' BY <1>9, <1>10
        <5>3. -g = dist BY <1>11, <5>2
        <5>4. -(g * c.tp.denom) = (-g) * c.tp.denom BY <5>1
        <5> QED BY <5>2, <5>3, <5>4
      <4>3. Gain(order.tp)' * order'.asked.tp.num = -Gain(order.sl)' * order'.asked.tp.denom
        BY <1>8, <1>9, <4>1, <4>2
      <4>4. order'.asked.tp.kind = "ratio" BY <1>8, <3>5
      <4> QED BY <4>3, <4>4 DEF ProfitAsAsked
    <3>6. ProfitAsAsked(order.asked.tp)' BY <3>2, <3>3, <3>4, <3>5
    <3> QED BY <3>6
  <2> QED BY <2>1, <2>2
<1>14. -Gain(order.sl)' * Unit + 2 * order'.entry * Fee(order'.limit) = unit
  <2>1. PICK g \in Int : g = Gain(order.sl)' BY <1>9, <1>10
  <2>2. -g = dist BY <1>11, <2>1
  <2>3. -(g * Unit) = (-g) * Unit BY DEF Unit
  <2>4. -g * Unit = dist * Unit BY <2>2, <2>3
  <2> QED BY <1>6, <1>8, <2>1, <2>4
<1>15. 2 * Distance(order'.quantity
                      * (-Gain(order.sl)' * Unit + 2 * order'.entry * Fee(order'.limit)),
                    order'.asked.risk * Unit)
         <= -Gain(order.sl)' * Unit + 2 * order'.entry * Fee(order'.limit)
  BY <1>7, <1>8, <1>14
<1>16. IF order'.asked.tp = Null THEN order'.tp = Null ELSE ProfitAsAsked(order.asked.tp)'
  BY <1>8, <1>13
<1> QED BY <1>11, <1>12, <1>15, <1>16 DEF RiskKept

-----------------------------------------------------------------------------
(* Candles *)

\* A set of natural numbers has a smallest one.
LEMMA Smallest ==
  ASSUME NEW T \in SUBSET Nat, T # {}
  PROVE  \E x \in T : \A y \in T : x <= y
<1> DEFINE R == {p \in Nat \X Nat : p[1] < p[2]}
<1>1. IsWellFoundedOn(R, Nat) BY NatLessThanWellFounded, Zenon DEF OpToRel
<1>2. \A x, y \in Nat : y < x => <<y, x>> \in R OBVIOUS
<1> HIDE DEF R
<1>3. PICK x \in T : \A y \in T : ~(<<y, x>> \in R) BY <1>1, WFMin
<1>4. \A y \in T : ~(y < x) BY <1>2, <1>3
<1> QED BY <1>4

Completed(done) ==
  IsFiniteSet(done) /\ done \subseteq Candle /\ Cardinality(done) <= MaxCandles

\* Completing a candle leaves MaxCandles at most.
LEMMA KeptBounded ==
  ASSUME NEW done, Completed(done), NEW c \in Candle
  PROVE  Completed(Kept(Inserted(done, c)))
<1> DEFINE rest == {d \in done : d.start # c.start}
           all == Inserted(done, c)
<1>0. MaxCandles \in Nat \ {0} BY ChartAssumption
<1>1. IsFiniteSet(rest) /\ Cardinality(rest) <= Cardinality(done)
  BY FS_Subset DEF Completed
<1>2. Cardinality(rest) \in Nat /\ Cardinality(done) \in Nat /\ Cardinality(done) <= MaxCandles
  BY <1>1, FS_CardinalityType DEF Completed
<1>3. all = rest \cup {c} BY DEF Inserted
<1>4. all \subseteq Candle BY <1>3 DEF Completed
<1> HIDE DEF rest, all
<1>5. /\ IsFiniteSet(rest \cup {c})
      /\ Cardinality(rest \cup {c}) \in {Cardinality(rest), Cardinality(rest) + 1}
  BY <1>1, FS_AddElement
<1>6. IsFiniteSet(all) /\ Cardinality(all) <= MaxCandles + 1 /\ Cardinality(all) \in Nat
  BY <1>0, <1>1, <1>2, <1>3, <1>5
<1>7. CASE Cardinality(all) > MaxCandles
  <2> DEFINE starts == {d.start : d \in all}
             old == Oldest(all)
  <2>1. all # {} BY <1>0, <1>7, FS_EmptySet
  <2>2. starts \in SUBSET Nat /\ starts # {} BY <1>4, <2>1 DEF Candle
  <2>3. \E x \in starts : \A y \in starts : x <= y
    <3> HIDE DEF starts
    <3> QED BY <2>2, Smallest
  <2>4. \E d \in all : \A e \in all : d.start <= e.start BY <2>3
  <2>5. old \in all BY <2>4 DEF Oldest
  <2>6. Kept(all) = all \ {old} BY <1>7 DEF Kept
  <2> HIDE DEF old
  <2>7. IsFiniteSet(all \ {old}) /\ Cardinality(all \ {old}) = Cardinality(all) - 1
    BY <1>6, <2>5, FS_RemoveElement
  <2>8. Cardinality(Kept(all)) <= MaxCandles BY <1>0, <1>6, <2>6, <2>7
  <2> QED BY <1>4, <2>6, <2>7, <2>8 DEF Completed, all
<1>8. CASE ~(Cardinality(all) > MaxCandles)
  <2>1. Kept(all) = all BY <1>8 DEF Kept
  <2>2. Cardinality(all) <= MaxCandles BY <1>0, <1>6, <1>8
  <2> QED BY <1>4, <1>6, <2>1, <2>2 DEF Completed, all
<1> QED BY <1>7, <1>8

\* The chart is a sequence, whatever its elements are.
IsSequence(q) == \E S : q \in Seq(S)

\* An aggregator: the candle that is built and a bounded set of completed ones.
AggOK(a) ==
  /\ a = [builder |-> a.builder, done |-> a.done]
  /\ a.builder \in Candle \cup {Null}
  /\ Completed(a.done)

LEMMA IntervalStartNat ==
  ASSUME NEW secs \in Intervals, NEW t \in Trades
  PROVE  IntervalStart(secs, t.time) \in Nat
<1>1. secs \in Nat \ {0} /\ t.time \in Nat BY ChartAssumption
<1>2. t.time \div 1000 \in Nat BY <1>1
<1>3. (t.time \div 1000) \div secs \in Nat
  <2> DEFINE k == t.time \div 1000
  <2>1. k \in Nat BY <1>2
  <2> HIDE DEF k
  <2>2. k \div secs \in Nat BY <1>1, <2>1
  <2> QED BY <2>2 DEF k
<1>4. ((t.time \div 1000) \div secs) * secs \in Nat
  <2> DEFINE k == (t.time \div 1000) \div secs
  <2>1. k \in Nat BY <1>3
  <2> HIDE DEF k
  <2>2. k * secs \in Nat BY <1>1, <2>1
  <2> QED BY <2>2 DEF k
<1> QED BY <1>4 DEF IntervalStart

LEMMA UpdatedCandle ==
  ASSUME NEW c \in Candle, NEW t \in Trades
  PROVE  /\ Updated(c, t) \in Candle
         /\ Updated(c, t).start = c.start /\ Updated(c, t).open = c.open
         /\ Updated(c, t).close = t.price /\ Updated(c, t).volume = c.volume + t.qty
         /\ Updated(c, t).high = IF c.high < t.price THEN t.price ELSE c.high
         /\ Updated(c, t).low = IF t.price < c.low THEN t.price ELSE c.low
<1> DEFINE high == Higher(c.high, t.price)
           low == Lower(c.low, t.price)
           volume == c.volume + t.qty
<1>1. t.price \in Int /\ t.qty \in Int BY ChartAssumption
<1>2. c.high \in Int /\ c.low \in Int /\ c.volume \in Int BY DEF Candle
<1>3. high \in Int /\ low \in Int /\ volume \in Int BY <1>1, <1>2 DEF Higher, Lower
<1>4. Updated(c, t) = [c EXCEPT !.high = high, !.low = low, !.close = t.price,
                                !.volume = volume]
  BY DEF Updated
<1>5. /\ high = IF c.high < t.price THEN t.price ELSE c.high
      /\ low = IF t.price < c.low THEN t.price ELSE c.low
  BY DEF Higher, Lower
<1>6. volume = c.volume + t.qty OBVIOUS
<1> HIDE DEF high, low, volume
<1>7. /\ [c EXCEPT !.high = high] \in Candle
      /\ \A d \in Candle : [d EXCEPT !.low = low] \in Candle
      /\ \A d \in Candle : [d EXCEPT !.close = t.price] \in Candle
      /\ \A d \in Candle : [d EXCEPT !.volume = volume] \in Candle
  BY <1>1, <1>3 DEF Candle
<1>8. Updated(c, t) \in Candle BY <1>4, <1>7
<1>9. /\ Updated(c, t).start = c.start /\ Updated(c, t).open = c.open
      /\ Updated(c, t).close = t.price /\ Updated(c, t).volume = volume
      /\ Updated(c, t).high = high /\ Updated(c, t).low = low
  BY <1>4 DEF Candle
<1> QED BY <1>5, <1>6, <1>8, <1>9

\* A trade is added to the candle that is built or begins the next one.
LEMMA TradeAdded ==
  ASSUME NEW a, AggOK(a), NEW secs \in Intervals, NEW t \in Trades
  PROVE  AggOK(AddTrade(a, secs, t))
<1> DEFINE start == IntervalStart(secs, t.time)
           c == a.builder
<1>1. secs \in Nat \ {0} /\ t.time \in Nat /\ t.price \in Int /\ t.qty \in Int
  BY ChartAssumption
<1>2. start \in Nat BY IntervalStartNat
<1> HIDE DEF start
<1>3. NewCandle(start, t) \in Candle BY <1>1, <1>2 DEF NewCandle, Candle
<1>4. CASE c # Null /\ c.start = start
  <2>1. c \in Candle BY <1>4 DEF AggOK
  <2>2. Updated(c, t) \in Candle BY <2>1, UpdatedCandle
  <2>3. AddTrade(a, secs, t) = [a EXCEPT !.builder = Updated(c, t)]
    BY <1>4 DEF AddTrade, start
  <2>4. AddTrade(a, secs, t) = [builder |-> Updated(c, t), done |-> a.done]
    BY <2>3 DEF AggOK
  <2> QED BY <2>2, <2>4 DEF AggOK
<1>5. CASE ~(c # Null /\ c.start = start)
  <2> DEFINE done == IF c = Null THEN a.done ELSE Kept(Inserted(a.done, c))
  <2>1. AddTrade(a, secs, t) = [builder |-> NewCandle(start, t), done |-> done]
    BY <1>5 DEF AddTrade, start
  <2>2. Completed(done)
    <3>1. CASE c = Null BY <3>1 DEF AggOK
    <3>2. CASE c # Null BY <3>2, KeptBounded DEF AggOK
    <3> QED BY <3>1, <3>2
  <2> HIDE DEF done
  <2> QED BY <1>3, <2>1, <2>2 DEF AggOK
<1> QED BY <1>4, <1>5

LEMMA CandlesBounded ==
  ASSUME NEW a, AggOK(a)
  PROVE  IsSequence(Candles(a)) /\ Len(Candles(a)) <= MaxCandles + 1
<1> DEFINE n == Cardinality(a.done)
           e(i) == CHOOSE c \in a.done : Cardinality(Earlier(a.done, c)) = i - 1
           p == [i \in 1..n |-> e(i)]
           r == IF a.builder = Null THEN <<>> ELSE <<a.builder>>
           S == {e(i) : i \in 1..n} \cup {a.builder}
<1>0. n \in Nat /\ n <= MaxCandles /\ MaxCandles \in Nat
  BY FS_CardinalityType, ChartAssumption DEF AggOK, Completed
<1>1. Candles(a) = p \o r BY DEF Candles
<1>2. \A i \in 1..n : e(i) \in S OBVIOUS
<1>3. r \in Seq(S) /\ Len(r) <= 1 /\ Len(r) \in Nat
  <2>1. a.builder \in S OBVIOUS
  <2> HIDE DEF S
  <2>2. CASE a.builder = Null BY <2>2, EmptySeq
  <2>3. CASE a.builder # Null BY <2>1, <2>3
  <2> QED BY <2>2, <2>3
<1> HIDE DEF e, S, n, r
<1>4. p \in Seq(S) /\ Len(p) = n BY <1>0, <1>2
<1> HIDE DEF p
<1>5. p \o r \in Seq(S) /\ Len(p \o r) = Len(p) + Len(r) BY <1>3, <1>4, ConcatProperties
<1> QED BY <1>0, <1>1, <1>3, <1>4, <1>5 DEF IsSequence

-----------------------------------------------------------------------------
(* The chart, however it is filled *)

LEMMA EmptyAggregator == AggOK(Empty) /\ Cardinality(Empty.done) <= MaxCandles
<1>1. IsFiniteSet({}) /\ Cardinality({}) = 0 BY FS_EmptySet
<1> QED BY <1>1, ChartAssumption DEF AggOK, Empty, Completed

\* An update replaces the last candle, follows it, or pushes the first one out.
LEMMA ChartBounded ==
  ASSUME NEW q, IsSequence(q), Len(q) <= MaxCandles + 1, NEW c
  PROVE  LET r == CASE q = <<>> -> q
                    [] q # <<>> /\ Last(q).start = c.start -> Front(q) \o <<c>>
                    [] OTHER -> Pushed(q, c)
         IN IsSequence(r) /\ Len(r) <= MaxCandles + 1
<1>0. MaxCandles \in Nat BY ChartAssumption
<1>1. PICK S : q \in Seq(S) BY DEF IsSequence
<1> DEFINE T == S \cup {c}
           p == Append(q, c)
<1>2. q \in Seq(T) /\ Len(q) \in Nat BY <1>1
<1>3. c \in T OBVIOUS
<1> HIDE DEF T
<1>4. p \in Seq(T) /\ Len(p) = Len(q) + 1 BY <1>2, <1>3, AppendProperties
<1>5. q # <<>> => Front(q) \o <<c>> \in Seq(T) /\ Len(Front(q) \o <<c>>) = Len(q)
  <2> SUFFICES ASSUME q # <<>>
               PROVE  Front(q) \o <<c>> \in Seq(T) /\ Len(Front(q) \o <<c>>) = Len(q)
    OBVIOUS
  <2>1. Len(q) \in Nat \ {0} BY <1>2, EmptySeq
  <2>2. Front(q) \in Seq(T) /\ Len(Front(q)) = Len(q) - 1
    <3> DEFINE n == Len(q) - 1
    <3>1. n \in Nat /\ 1 \in Int /\ \A i \in 1..n : q[i] \in T BY <1>2, <2>1
    <3>2. Front(q) = SubSeq(q, 1, n) BY DEF Front
    <3> HIDE DEF n
    <3>3. SubSeq(q, 1, n) \in Seq(T) /\ Len(SubSeq(q, 1, n)) = IF 1 <= n THEN n - 1 + 1 ELSE 0
      BY <3>1, SubSeqProperties
    <3>4. (IF 1 <= n THEN n - 1 + 1 ELSE 0) = n BY <3>1
    <3> QED BY <3>2, <3>3, <3>4 DEF n
  <2>3. <<c>> \in Seq(T) /\ Len(<<c>>) = 1 BY <1>3
  <2> QED BY <2>1, <2>2, <2>3, ConcatProperties
<1>6. IsSequence(Pushed(q, c)) /\ Len(Pushed(q, c)) <= MaxCandles + 1
  <2>1. Pushed(q, c) = IF Len(p) > MaxCandles THEN Tail(p) ELSE p BY DEF Pushed
  <2> HIDE DEF p
  <2>2. p # <<>> BY <1>2, <1>4, EmptySeq
  <2>3. Tail(p) \in Seq(T) /\ Len(Tail(p)) = Len(p) - 1 BY <1>4, <2>2, HeadTailProperties
  <2> QED BY <1>0, <1>2, <1>4, <2>1, <2>3 DEF IsSequence
<1>7. q # <<>> => IsSequence(Front(q) \o <<c>>) /\ Len(Front(q) \o <<c>>) <= MaxCandles + 1
  BY <1>5 DEF IsSequence
<1> QED BY <1>6, <1>7

-----------------------------------------------------------------------------
(* The invariant *)

\* What TypeOK rests on: the aggregator is well formed and the chart a sequence; what the risk
\* of an order rests on: the order that waits was asked for by a command.
ChartInv ==
  /\ TypeOK
  /\ AggOK(agg)
  /\ IsSequence(candles)
  /\ waiting \in [risk : Commands, own : BOOLEAN] \cup {Null}
  /\ RiskKept

LEMMA EmptyChart == IsSequence(<<>>) /\ Len(<<>>) <= MaxCandles + 1
<1>1. <<>> \in Seq({}) OBVIOUS
<1> QED BY <1>1, ChartAssumption DEF IsSequence

LEMMA InitChart == Init => ChartInv
<1> SUFFICES ASSUME Init PROVE ChartInv OBVIOUS
<1>1. RiskKept BY DEF Init, RiskKept
<1>2. TypeOK BY EmptyAggregator, EmptyChart DEF Init, TypeOK
<1> QED BY <1>1, <1>2, EmptyAggregator, EmptyChart DEF Init, ChartInv

LEMMA NextChart ==
  ASSUME ChartInv, [Next]_vars
  PROVE  ChartInv'
<1> USE DEF ChartInv
<1>0. NoOrder => RiskKept' BY DEF NoOrder, RiskKept
<1>1. ASSUME NEW secs \in Intervals, TfSeconds(secs) PROVE ChartInv'
  <2>1. TypeOK' BY <1>1, EmptyAggregator, EmptyChart, ChartAssumption DEF TfSeconds, TypeOK
  <2> QED BY <1>0, <1>1, <2>1, EmptyAggregator, EmptyChart DEF TfSeconds
<1>2. CASE TfMinutes
  <2>1. TypeOK' BY <1>2, EmptyAggregator DEF TfMinutes, TypeOK
  <2> QED BY <1>0, <1>2, <2>1, EmptyAggregator DEF TfMinutes
<1>3. CASE SelectSymbol
  <2>1. TypeOK' BY <1>3, EmptyAggregator, EmptyChart DEF SelectSymbol, TypeOK
  <2>2. waiting' \in [risk : Commands, own : BOOLEAN] \cup {Null}
    <3>1. waiting = Null => waiting' = Null BY <1>3 DEF SelectSymbol
    <3>2. waiting # Null => \E b \in BOOLEAN : waiting' = [waiting EXCEPT !.own = b]
      BY <1>3 DEF SelectSymbol
    <3> QED BY <3>1, <3>2
  <2> QED BY <1>0, <1>3, <2>1, <2>2, EmptyAggregator, EmptyChart DEF SelectSymbol
<1>4. ASSUME NEW c \in Commands, PlaceRiskOrder(c) PROVE ChartInv'
  <2>1. UNCHANGED <<interval, agg, candles, lastPrice, seen>> BY <1>4 DEF PlaceRiskOrder
  <2>2. TypeOK' BY <2>1 DEF TypeOK
  <2>3. waiting' \in [risk : Commands, own : BOOLEAN] \cup {Null}
    <3>1. waiting' = waiting \/ waiting' = [risk |-> c, own |-> TRUE] BY <1>4 DEF PlaceRiskOrder
    <3>2. [risk |-> c, own |-> TRUE] \in [risk : Commands, own : BOOLEAN] OBVIOUS
    <3> QED BY <3>1, <3>2
  <2>4. RiskKept'
    <3>1. CASE c.limit # Null
      <4>1. ExecuteRiskOrder(c, c.limit) BY <1>4, <3>1 DEF PlaceRiskOrder
      <4> QED BY <3>1, <4>1, OrderKeepsRisk
    <3>2. CASE c.limit = Null BY <1>0, <1>4, <3>2 DEF PlaceRiskOrder
    <3> QED BY <3>1, <3>2
  <2> QED BY <2>1, <2>2, <2>3, <2>4
<1>5. ASSUME NEW own \in BOOLEAN, NEW p \in Prices, OnTicker(own, p) PROVE ChartInv'
  <2>1. UNCHANGED <<interval, agg, candles, seen>> BY <1>5 DEF OnTicker
  <2>2. TypeOK' BY <2>1 DEF TypeOK
  <2>3. waiting' = waiting \/ waiting' = Null BY <1>5 DEF OnTicker
  <2>4. RiskKept'
    <3>1. CASE waiting # Null /\ waiting.own = own
      <4>1. ExecuteRiskOrder(waiting.risk, p) BY <1>5, <3>1 DEF OnTicker
      <4>2. waiting.risk \in Commands BY <3>1
      <4> QED BY <4>1, <4>2, OrderKeepsRisk
    <3>2. CASE ~(waiting # Null /\ waiting.own = own) BY <1>0, <1>5, <3>2 DEF OnTicker
    <3> QED BY <3>1, <3>2
  <2> QED BY <2>1, <2>2, <2>3, <2>4
<1>6. ASSUME NEW t \in Trades, OnTrade(t) PROVE ChartInv'
  <2>1. NoOrder /\ UNCHANGED <<interval, waiting>> BY <1>6 DEF OnTrade
  <2>2. CASE interval = Null
    <3>1. UNCHANGED <<agg, candles, seen>> BY <1>6, <2>2 DEF OnTrade
    <3>2. TypeOK' BY <2>1, <3>1 DEF TypeOK
    <3> QED BY <1>0, <2>1, <3>1, <3>2
  <2>3. CASE interval # Null
    <3>1. agg' = AddTrade(agg, interval, t) /\ candles' = Candles(agg')
      BY <1>6, <2>3 DEF OnTrade
    <3>2. interval \in Intervals BY <2>3 DEF TypeOK
    <3>3. AggOK(agg') BY <3>1, <3>2, TradeAdded
    <3>4. IsSequence(candles') /\ Len(candles') <= MaxCandles + 1
      BY <3>1, <3>3, CandlesBounded
    <3>5. TypeOK' BY <2>1, <2>3, <3>2, <3>3, <3>4 DEF TypeOK, AggOK, Completed
    <3> QED BY <1>0, <2>1, <3>3, <3>4, <3>5
  <2> QED BY <2>2, <2>3
<1>7. ASSUME NEW q \in Lists, OnCandles(q) PROVE ChartInv'
  <2>1. candles' = q /\ NoOrder /\ UNCHANGED <<interval, agg, waiting, seen>>
    BY <1>7 DEF OnCandles
  <2>2. q \in Seq(Updates) /\ Len(q) <= MaxCandles /\ MaxCandles \in Nat BY ChartAssumption
  <2>3. IsSequence(q) /\ Len(q) <= MaxCandles + 1 BY <2>2 DEF IsSequence
  <2>4. TypeOK' BY <2>1, <2>3 DEF TypeOK
  <2> QED BY <1>0, <2>1, <2>3, <2>4
<1>8. ASSUME NEW c \in Updates, OnCandleUpdate(c) PROVE ChartInv'
  <2>1. NoOrder /\ UNCHANGED <<interval, agg, waiting, seen>> BY <1>8 DEF OnCandleUpdate
  <2>2. Len(candles) <= MaxCandles + 1 BY DEF TypeOK
  <2>3. IsSequence(candles') /\ Len(candles') <= MaxCandles + 1
    BY <1>8, <2>2, ChartBounded DEF OnCandleUpdate
  <2>4. TypeOK' BY <2>1, <2>3 DEF TypeOK
  <2> QED BY <1>0, <2>1, <2>3, <2>4
<1>9. CASE UNCHANGED vars
  <2>1. TypeOK' BY <1>9 DEF vars, TypeOK
  <2>2. RiskKept'
    <3>1. order' = order BY <1>9 DEF vars
    <3> QED BY <3>1 DEF RiskKept, Gain, StopAsAsked, ProfitAsAsked
  <2> QED BY <1>9, <2>1, <2>2 DEF vars
<1> QED BY <1>1, <1>2, <1>3, <1>4, <1>5, <1>6, <1>7, <1>8, <1>9 DEF Next

LEMMA ChartInvariant == Spec => []ChartInv
BY InitChart, NextChart, PTL DEF Spec

-----------------------------------------------------------------------------
(* What a candle sums up *)

\* The history: trades with their running total.
Entry == [time : Nat, price : Int, qty : Int, total : Int]
StartIn(secs, e) == IntervalStart(secs, e.time)

\* A candle of the trades i to j, with its highest and lowest price spelled out.
Sums(q, secs, c, i, j) ==
  /\ c \in Candle
  /\ \A k \in i..j : StartIn(secs, q[k]) = c.start
  /\ c.open = q[i].price /\ c.close = q[j].price
  /\ \E k \in i..j : q[k].price = c.high
  /\ \E k \in i..j : q[k].price = c.low
  /\ \A k \in i..j : q[k].price <= c.high /\ c.low <= q[k].price
  /\ c.volume = q[j].total - q[i].total + q[i].qty

LEMMA MaxIs ==
  ASSUME NEW T \in SUBSET Int, NEW m \in T, \A y \in T : y <= m
  PROVE  Max(T) = m
<1>1. m \in T /\ \A y \in T : m >= y OBVIOUS
<1>2. Max(T) \in T /\ \A y \in T : Max(T) >= y BY <1>1 DEF Max
<1>3. Max(T) >= m /\ m >= Max(T) /\ Max(T) \in Int /\ m \in Int BY <1>2
<1> QED BY <1>3

LEMMA MinIs ==
  ASSUME NEW T \in SUBSET Int, NEW m \in T, \A y \in T : m <= y
  PROVE  Min(T) = m
<1>1. Min(T) \in T /\ \A y \in T : Min(T) <= y BY DEF Min
<1>2. Min(T) <= m /\ m <= Min(T) /\ Min(T) \in Int /\ m \in Int BY <1>1
<1> QED BY <1>2

LEMMA SumsIsSummary ==
  ASSUME seen \in Seq(Entry), NEW i \in DOMAIN seen, NEW j \in DOMAIN seen, i <= j,
         NEW c, Sums(seen, interval, c, i, j)
  PROVE  c = Summary(i, j)
<1> DEFINE prices == {seen[k].price : k \in i..j}
<1>1. \A k \in i..j : seen[k] \in Entry
  <2>1. i \in 1..Len(seen) /\ j \in 1..Len(seen) OBVIOUS
  <2>2. i..j \subseteq 1..Len(seen) BY <2>1
  <2> QED BY <2>2
<1>2. prices \in SUBSET Int BY <1>1 DEF Entry
<1>3. c.high \in prices /\ c.low \in prices BY DEF Sums
<1>4. \A p \in prices : p <= c.high /\ c.low <= p BY DEF Sums
<1>5. Max(prices) = c.high /\ Min(prices) = c.low
  <2> HIDE DEF prices
  <2> QED BY <1>2, <1>3, <1>4, MaxIs, MinIs
<1>6. c.start = Start(seen[i]) /\ c.open = seen[i].price /\ c.close = seen[j].price
      /\ c.volume = seen[j].total - seen[i].total + seen[i].qty
  <2>1. i \in i..j OBVIOUS
  <2> QED BY <2>1 DEF Sums, Start, StartIn
<1>7. c = [start |-> c.start, open |-> c.open, high |-> c.high, low |-> c.low,
           close |-> c.close, volume |-> c.volume]
  BY DEF Sums, Candle
<1>8. Summary(i, j) = [start |-> Start(seen[i]), open |-> seen[i].price,
                       close |-> seen[j].price, high |-> Max(prices), low |-> Min(prices),
                       volume |-> seen[j].total - seen[i].total + seen[i].qty]
  BY DEF Summary
<1> HIDE DEF prices
<1> QED BY <1>5, <1>6, <1>7, <1>8

-----------------------------------------------------------------------------
(* A trade in a timeframe of seconds *)

\* What the history holds of a trade.
Counts(q, t, e) ==
  /\ e \in Entry
  /\ e.time = t.time /\ e.price = t.price /\ e.qty = t.qty
  /\ q # <<>> => e.total = t.qty + q[Len(q)].total

LEMMA CountedCounts ==
  ASSUME seen \in Seq(Entry), NEW t \in Trades
  PROVE  Counts(seen, t, Counted(t))
<1>1. t.time \in Nat /\ t.price \in Int /\ t.qty \in Int BY ChartAssumption
<1>2. seen # <<>> => seen[Len(seen)] \in Entry BY EmptySeq
<1>3. (IF seen = <<>> THEN 0 ELSE Last(seen).total) \in Int BY <1>2 DEF Last, Entry
<1> QED BY <1>1, <1>3 DEF Counted, Counts, Entry, Last

\* The history after a trade.
LEMMA Grows ==
  ASSUME NEW q \in Seq(Entry), NEW e \in Entry
  PROVE  /\ Append(q, e) \in Seq(Entry) /\ Len(q) \in Nat /\ Len(Append(q, e)) = Len(q) + 1
         /\ DOMAIN q = 1..Len(q) /\ DOMAIN Append(q, e) = 1..(Len(q) + 1)
         /\ \A k \in 1..Len(q) : Append(q, e)[k] = q[k] /\ q[k] \in Entry
         /\ Append(q, e)[Len(q) + 1] = e
<1>1. /\ Append(q, e) \in Seq(Entry) /\ Len(q) \in Nat /\ Len(Append(q, e)) = Len(q) + 1
      /\ \A k \in 1..Len(q) : Append(q, e)[k] = q[k]
      /\ Append(q, e)[Len(q) + 1] = e
  BY AppendProperties
<1>2. DOMAIN q = 1..Len(q) /\ DOMAIN Append(q, e) = 1..Len(Append(q, e))
  BY <1>1
<1> QED BY <1>1, <1>2

LEMMA SumsKept ==
  ASSUME NEW q \in Seq(Entry), NEW e \in Entry, NEW secs,
         NEW i \in DOMAIN q, NEW j \in DOMAIN q, i <= j,
         NEW c, Sums(q, secs, c, i, j)
  PROVE  Sums(Append(q, e), secs, c, i, j)
<1> DEFINE r == Append(q, e)
<1>1. i \in 1..Len(q) /\ j \in 1..Len(q) /\ i..j \subseteq 1..Len(q) BY Grows
<1>2. \A k \in i..j : r[k] = q[k] BY <1>1, Grows
<1>3. r[i] = q[i] /\ r[j] = q[j] BY <1>1, Grows
<1> HIDE DEF r
<1> QED BY <1>2, <1>3 DEF Sums, r

\* A trade of the interval that is built.
LEMMA SumsMore ==
  ASSUME NEW q \in Seq(Entry), NEW t \in Trades, NEW e, Counts(q, t, e),
         NEW secs, NEW i \in DOMAIN q,
         NEW c, Sums(q, secs, c, i, Len(q)), c.start = IntervalStart(secs, t.time)
  PROVE  Sums(Append(q, e), secs, Updated(c, t), i, Len(q) + 1)
<1> DEFINE n == Len(q)
           r == Append(q, e)
           d == Updated(c, t)
<1>0. e \in Entry BY DEF Counts
<1>1. c \in Candle BY DEF Sums
<1>2. /\ d \in Candle /\ d.start = c.start /\ d.open = c.open /\ d.close = t.price
      /\ d.volume = c.volume + t.qty
      /\ d.high = IF c.high < t.price THEN t.price ELSE c.high
      /\ d.low = IF t.price < c.low THEN t.price ELSE c.low
  BY <1>1, UpdatedCandle
<1>3. t.price \in Int /\ t.qty \in Int BY ChartAssumption
<1>4. c.high \in Int /\ c.low \in Int /\ c.volume \in Int BY <1>1 DEF Candle
<1>5. n \in Nat /\ i \in 1..n BY <1>0, Grows
<1>6. \A k \in i..n : r[k] = q[k] /\ q[k] \in Entry
  <2>1. \A k \in i..n : k \in 1..n BY <1>5
  <2> QED BY <1>0, <2>1, Grows
<1>7. /\ r[n + 1].price = t.price /\ r[n + 1].qty = t.qty
      /\ r[n + 1].total = t.qty + q[n].total
      /\ StartIn(secs, r[n + 1]) = c.start
  <2>1. q # <<>> BY <1>5
  <2>2. r[n + 1] = e BY <1>0, Grows
  <2> QED BY <2>1, <2>2 DEF Counts, StartIn
<1>8. \A k \in i..(n + 1) : k \in i..n \/ k = n + 1 BY <1>5
<1>9. n + 1 \in i..(n + 1) /\ \A k \in i..n : k \in i..(n + 1) BY <1>5
<1>10. i \in i..n /\ n \in i..n BY <1>5
<1>11. r[i] = q[i] /\ q[i] \in Entry /\ q[n] \in Entry BY <1>6, <1>10
<1>12. /\ \A k \in i..n : StartIn(secs, q[k]) = c.start
       /\ c.open = q[i].price
       /\ \E k \in i..n : q[k].price = c.high
       /\ \E k \in i..n : q[k].price = c.low
       /\ \A k \in i..n : q[k].price <= c.high /\ c.low <= q[k].price
       /\ c.volume = q[n].total - q[i].total + q[i].qty
  BY DEF Sums
<1> HIDE DEF d, r, n
<1>13. \A k \in i..(n + 1) : StartIn(secs, r[k]) = d.start
  BY <1>2, <1>6, <1>7, <1>8, <1>12
<1>14. d.open = r[i].price /\ d.close = r[n + 1].price
  BY <1>2, <1>7, <1>11, <1>12
<1>15. \E k \in i..(n + 1) : r[k].price = d.high
  <2>1. CASE c.high < t.price BY <1>2, <1>7, <1>9, <2>1
  <2>2. CASE ~(c.high < t.price)
    <3>1. PICK k \in i..n : q[k].price = c.high BY <1>12
    <3> QED BY <1>2, <1>6, <1>9, <2>2, <3>1
  <2> QED BY <2>1, <2>2
<1>16. \E k \in i..(n + 1) : r[k].price = d.low
  <2>1. CASE t.price < c.low BY <1>2, <1>7, <1>9, <2>1
  <2>2. CASE ~(t.price < c.low)
    <3>1. PICK k \in i..n : q[k].price = c.low BY <1>12
    <3> QED BY <1>2, <1>6, <1>9, <2>2, <3>1
  <2> QED BY <2>1, <2>2
<1>17. \A k \in i..(n + 1) : r[k].price <= d.high /\ d.low <= r[k].price
  <2>1. c.high <= d.high /\ d.low <= c.low /\ t.price <= d.high /\ d.low <= t.price
        /\ d.high \in Int /\ d.low \in Int
    BY <1>2, <1>3, <1>4
  <2>2. ASSUME NEW k \in i..n PROVE r[k].price <= d.high /\ d.low <= r[k].price
    <3>1. r[k].price = q[k].price /\ q[k].price \in Int BY <1>6 DEF Entry
    <3>2. q[k].price <= c.high /\ c.low <= q[k].price BY <1>12
    <3> QED BY <1>4, <2>1, <3>1, <3>2
  <2> QED BY <1>7, <1>8, <2>1, <2>2
<1>18. d.volume = r[n + 1].total - r[i].total + r[i].qty
  <2>1. q[n].total \in Int /\ q[i].total \in Int /\ q[i].qty \in Int
    BY <1>11 DEF Entry
  <2> QED BY <1>2, <1>3, <1>7, <1>11, <1>12, <2>1
<1>19. Sums(r, secs, d, i, n + 1) BY <1>2, <1>13, <1>14, <1>15, <1>16, <1>17, <1>18 DEF Sums
<1> QED BY <1>19 DEF d, r, n

\* A trade that begins an interval.
LEMMA SumsOne ==
  ASSUME NEW q \in Seq(Entry), NEW t \in Trades, NEW e, Counts(q, t, e),
         NEW secs \in Intervals
  PROVE  Sums(Append(q, e), secs, NewCandle(IntervalStart(secs, t.time), t),
              Len(q) + 1, Len(q) + 1)
<1> DEFINE m == Len(q) + 1
           r == Append(q, e)
           c == NewCandle(IntervalStart(secs, t.time), t)
<1>1. e \in Entry BY DEF Counts
<1>2. m \in Nat /\ r[m] = e BY <1>1, Grows
<1>3. t.price \in Int /\ t.qty \in Int BY ChartAssumption
<1>4. c \in Candle BY IntervalStartNat, <1>3 DEF NewCandle, Candle
<1>5. /\ c.start = IntervalStart(secs, t.time) /\ c.open = t.price /\ c.high = t.price
      /\ c.low = t.price /\ c.close = t.price /\ c.volume = t.qty
  BY DEF NewCandle
<1>6. /\ r[m].price = t.price /\ r[m].qty = t.qty /\ r[m].total \in Int
      /\ StartIn(secs, r[m]) = c.start
  BY <1>1, <1>2, <1>5 DEF Counts, Entry, StartIn
<1> HIDE DEF c, m, r
<1>7. m \in m..m /\ \A k \in m..m : k = m BY <1>2
<1>8. Sums(r, secs, c, m, m) BY <1>3, <1>4, <1>5, <1>6, <1>7 DEF Sums
<1> QED BY <1>8 DEF c, m, r

-----------------------------------------------------------------------------
(* Candles are sums of trades, in whatever order these come *)

\* The candle that is built sums up the last trades, a completed one some trades of its interval.
Built(q, secs, a) ==
  /\ a.builder = Null <=> q = <<>>
  /\ a.builder # Null => \E i \in DOMAIN q : Sums(q, secs, a.builder, i, Len(q))
  /\ \A c \in a.done : \E i, j \in DOMAIN q : i <= j /\ Sums(q, secs, c, i, j)
SoundInv == ChartInv /\ seen \in Seq(Entry) /\ Built(seen, interval, agg)

LEMMA BuiltByTrade ==
  ASSUME NEW q \in Seq(Entry), NEW t \in Trades, NEW e, Counts(q, t, e),
         NEW secs \in Intervals, NEW a, AggOK(a), Built(q, secs, a)
  PROVE  Built(Append(q, e), secs, AddTrade(a, secs, t))
<1> DEFINE n == Len(q)
           r == Append(q, e)
           b == AddTrade(a, secs, t)
           start == IntervalStart(secs, t.time)
<1>1. e \in Entry BY DEF Counts
<1>2. n \in Nat /\ DOMAIN q = 1..n /\ DOMAIN r = 1..(n + 1) /\ Len(r) = n + 1
      /\ r \in Seq(Entry)
  BY <1>1, Grows
<1>3. r # <<>> BY <1>2
<1>0. Null \notin Candle BY ChartAssumption
<1>4. b.builder \in Candle /\ b.builder # Null
  <2>1. AggOK(b) BY TradeAdded
  <2>2. b.builder # Null
    <3>1. CASE a.builder # Null /\ a.builder.start = start
      <4>1. b.builder = Updated(a.builder, t) BY <3>1 DEF AddTrade, AggOK
      <4>2. a.builder \in Candle BY <3>1 DEF AggOK
      <4> QED BY <1>0, <4>1, <4>2, UpdatedCandle
    <3>2. CASE ~(a.builder # Null /\ a.builder.start = start)
      <4>1. b.builder = NewCandle(start, t) BY <3>2 DEF AddTrade
      <4>2. NewCandle(start, t) \in Candle
        BY IntervalStartNat, ChartAssumption DEF NewCandle, Candle
      <4> QED BY <1>0, <4>1, <4>2
    <3> QED BY <3>1, <3>2
  <2> QED BY <2>1, <2>2 DEF AggOK
<1>5. ASSUME NEW c, NEW i \in DOMAIN q, NEW j \in DOMAIN q, i <= j, Sums(q, secs, c, i, j)
      PROVE  i \in DOMAIN r /\ j \in DOMAIN r /\ Sums(r, secs, c, i, j)
  BY <1>1, <1>2, <1>5, SumsKept
<1>6. CASE a.builder # Null /\ a.builder.start = start
  <2>1. b.builder = Updated(a.builder, t) /\ b.done = a.done BY <1>6 DEF AddTrade, AggOK
  <2>2. PICK i \in DOMAIN q : Sums(q, secs, a.builder, i, n) BY <1>6 DEF Built
  <2>3. Sums(r, secs, b.builder, i, n + 1) BY <1>6, <2>1, <2>2, SumsMore
  <2>4. i \in DOMAIN r BY <1>2
  <2>5. \A c \in b.done : \E k, j \in DOMAIN r : k <= j /\ Sums(r, secs, c, k, j)
    BY <1>5, <2>1 DEF Built
  <2> HIDE DEF r, b, n
  <2> QED BY <1>2, <1>3, <1>4, <2>3, <2>4, <2>5 DEF Built, r, b
<1>7. CASE ~(a.builder # Null /\ a.builder.start = start)
  <2>1. /\ b.builder = NewCandle(start, t)
        /\ b.done = IF a.builder = Null THEN a.done ELSE Kept(Inserted(a.done, a.builder))
    BY <1>7 DEF AddTrade
  <2>2. Sums(r, secs, b.builder, n + 1, n + 1) BY <2>1, SumsOne
  <2>3. \A c \in b.done : c \in a.done \/ (a.builder # Null /\ c = a.builder)
    BY <2>1 DEF Kept, Inserted
  <2>4. \A c \in b.done : \E k, j \in DOMAIN q : k <= j /\ Sums(q, secs, c, k, j)
    <3> SUFFICES ASSUME NEW c \in b.done
                 PROVE  \E k, j \in DOMAIN q : k <= j /\ Sums(q, secs, c, k, j)
      OBVIOUS
    <3>1. CASE c \in a.done BY <3>1 DEF Built
    <3>2. CASE a.builder # Null /\ c = a.builder
      <4>1. PICK i \in DOMAIN q : Sums(q, secs, c, i, n) BY <3>2 DEF Built
      <4>2. n \in DOMAIN q /\ i <= n BY <1>2
      <4> QED BY <4>1, <4>2
    <3> QED BY <2>3, <3>1, <3>2
  <2>5. \A c \in b.done : \E k, j \in DOMAIN r : k <= j /\ Sums(r, secs, c, k, j)
    BY <1>5, <2>4
  <2>6. n + 1 \in DOMAIN r BY <1>2
  <2> HIDE DEF r, b, n
  <2> QED BY <1>2, <1>3, <1>4, <2>2, <2>5, <2>6 DEF Built, r, b
<1> QED BY <1>6, <1>7

LEMMA InitSound == Init => SoundInv
<1> SUFFICES ASSUME Init PROVE SoundInv OBVIOUS
<1>1. Built(<<>>, interval, Empty) BY DEF Built, Empty
<1>2. seen = <<>> /\ seen \in Seq(Entry) /\ agg = Empty BY DEF Init
<1> QED BY <1>1, <1>2, InitChart DEF SoundInv

\* Only a trade adds to the history, and whatever empties it empties the aggregator.
LEMMA Untraded ==
  ASSUME [Next]_vars
  PROVE  \/ UNCHANGED <<interval, agg, seen>>
         \/ agg' = Empty /\ seen' = <<>>
         \/ \E t \in Trades : interval # Null /\ OnTrade(t)
BY DEF Next, vars, TfSeconds, TfMinutes, SelectSymbol, PlaceRiskOrder, OnTicker, OnTrade,
       OnCandles, OnCandleUpdate

LEMMA NextSound ==
  ASSUME SoundInv, [Next]_vars
  PROVE  SoundInv'
<1>1. ChartInv' BY NextChart DEF SoundInv
<1>2. CASE UNCHANGED <<interval, agg, seen>> BY <1>1, <1>2 DEF SoundInv
<1>3. CASE agg' = Empty /\ seen' = <<>>
  <2>1. \A secs : Built(<<>>, secs, Empty) BY DEF Built, Empty
  <2> QED BY <1>1, <1>3, <2>1 DEF SoundInv
<1>4. ASSUME NEW t \in Trades, interval # Null, OnTrade(t) PROVE SoundInv'
  <2>1. /\ agg' = AddTrade(agg, interval, t) /\ seen' = Append(seen, Counted(t))
        /\ interval' = interval
    BY <1>4 DEF OnTrade
  <2>2. interval \in Intervals BY <1>4 DEF SoundInv, ChartInv, TypeOK
  <2>3. Counts(seen, t, Counted(t)) BY CountedCounts DEF SoundInv
  <2>4. Built(Append(seen, Counted(t)), interval, AddTrade(agg, interval, t))
    BY <2>2, <2>3, BuiltByTrade DEF SoundInv, ChartInv
  <2>5. Append(seen, Counted(t)) \in Seq(Entry) BY <2>3, Grows DEF SoundInv, Counts
  <2> QED BY <1>1, <2>1, <2>4, <2>5 DEF SoundInv
<1> QED BY <1>2, <1>3, <1>4, Untraded

LEMMA SoundCandles == SoundInv => CandlesSound
<1> SUFFICES ASSUME SoundInv, NEW c \in agg.done \cup ({agg.builder} \ {Null})
             PROVE  \E i, j \in DOMAIN seen :
                       /\ i <= j /\ \A k \in i..j : Start(seen[k]) = c.start
                       /\ c = Summary(i, j)
  BY DEF CandlesSound
<1>1. \E i, j \in DOMAIN seen : i <= j /\ Sums(seen, interval, c, i, j)
  <2>1. CASE c \in agg.done BY <2>1 DEF SoundInv, Built
  <2>2. CASE c = agg.builder /\ c # Null
    <3>1. PICK i \in DOMAIN seen : Sums(seen, interval, c, i, Len(seen))
      BY <2>2 DEF SoundInv, Built
    <3>2. Len(seen) \in DOMAIN seen /\ i <= Len(seen) BY <3>1 DEF SoundInv
    <3> QED BY <3>1, <3>2
  <2> QED BY <2>1, <2>2
<1>2. PICK i \in DOMAIN seen, j \in DOMAIN seen : i <= j /\ Sums(seen, interval, c, i, j)
  BY <1>1
<1>3. c = Summary(i, j) BY <1>2, SumsIsSummary DEF SoundInv
<1>4. \A k \in i..j : Start(seen[k]) = c.start BY <1>2 DEF Sums, Start, StartIn
<1> QED BY <1>2, <1>3, <1>4

LEMMA SoundInvariant == Spec => []SoundInv
BY InitSound, NextSound, PTL DEF Spec

-----------------------------------------------------------------------------
(* The last intervals *)

LEMMA DivisionMonotone ==
  ASSUME NEW a \in Nat, NEW b \in Nat, a <= b, NEW k \in Nat \ {0}
  PROVE  a \div k \in Nat /\ b \div k \in Nat /\ a \div k <= b \div k
<1> DEFINE x == a \div k
           y == b \div k
<1>1. /\ a = k * x + (a % k) /\ x \in Int /\ a % k \in Nat /\ a % k < k
      /\ b = k * y + (b % k) /\ y \in Int /\ b % k \in Nat /\ b % k < k
  BY Division
<1>2. x \in Nat /\ y \in Nat OBVIOUS
<1>3. SUFFICES ASSUME y < x PROVE FALSE BY <1>2
<1> HIDE DEF x, y
<1>4. y + 1 <= x BY <1>2, <1>3
<1>5. k * (y + 1) <= k * x BY <1>2, <1>4
<1>6. k * (y + 1) = k * y + k BY <1>2
<1>7. k * x \in Int /\ k * y \in Int BY <1>2
<1>8. k * y + k <= k * x BY <1>5, <1>6
<1> QED BY <1>1, <1>7, <1>8

\* A later trade is in the same interval or in a later one.
LEMMA StartMonotone ==
  ASSUME NEW secs \in Nat \ {0}, NEW a \in Nat, NEW b \in Nat, a <= b
  PROVE  /\ IntervalStart(secs, a) \in Nat /\ IntervalStart(secs, b) \in Nat
         /\ IntervalStart(secs, a) <= IntervalStart(secs, b)
<1>1. a \div 1000 \in Nat /\ b \div 1000 \in Nat /\ a \div 1000 <= b \div 1000
  BY DivisionMonotone
<1> DEFINE x == (a \div 1000) \div secs
           y == (b \div 1000) \div secs
<1>2. x \in Nat /\ y \in Nat /\ x <= y BY <1>1, DivisionMonotone
<1> HIDE DEF x, y
<1>3. x * secs <= y * secs /\ x * secs \in Nat /\ y * secs \in Nat BY <1>2
<1>4. x * secs * 1000 <= y * secs * 1000 BY <1>3
<1>5. x * secs * 1000 \in Nat /\ y * secs * 1000 \in Nat BY <1>3
<1> QED BY <1>4, <1>5 DEF x, y, IntervalStart

Above(T, s) == {r \in T : s < r}
RecentOf(T) == {s \in T : Cardinality(Above(T, s)) <= MaxCandles}
Upper(T) == {s \in T : Cardinality(Above(T, s)) < MaxCandles}

LEMMA AboveFinite ==
  ASSUME NEW T \in SUBSET Nat, IsFiniteSet(T), NEW s
  PROVE  IsFiniteSet(Above(T, s)) /\ Cardinality(Above(T, s)) \in Nat
<1>1. Above(T, s) \in SUBSET T BY DEF Above
<1> QED BY <1>1, FS_Subset, FS_CardinalityType

LEMMA AboveMonotone ==
  ASSUME NEW T \in SUBSET Nat, IsFiniteSet(T), NEW s \in T, NEW r \in T, s < r
  PROVE  Cardinality(Above(T, r)) < Cardinality(Above(T, s))
<1>1. Above(T, r) \in SUBSET Above(T, s)
  <2>1. \A x \in T : x \in Int /\ s \in Int /\ r \in Int OBVIOUS
  <2>2. \A x \in T : r < x => s < x BY <2>1
  <2> QED BY <2>2 DEF Above
<1>2. r \in Above(T, s) /\ r \notin Above(T, r) BY DEF Above
<1>3. /\ IsFiniteSet(Above(T, s)) /\ Cardinality(Above(T, s)) \in Nat
      /\ Cardinality(Above(T, r)) \in Nat
  BY AboveFinite
<1>4. Cardinality(Above(T, r)) <= Cardinality(Above(T, s))
      /\ Cardinality(Above(T, r)) # Cardinality(Above(T, s))
  BY <1>1, <1>2, <1>3, FS_Subset
<1> QED BY <1>3, <1>4

\* A new last interval pushes each other one further back.
LEMMA RecentGrows ==
  ASSUME NEW T \in SUBSET Nat, IsFiniteSet(T), NEW s0 \in Nat, \A s \in T : s < s0
  PROVE  s0 \in RecentOf(T \cup {s0}) /\ RecentOf(T \cup {s0}) \ {s0} = Upper(T)
<1>0. MaxCandles \in Nat BY ChartAssumption
<1>1. s0 \notin T OBVIOUS
<1>2. Above(T \cup {s0}, s0) = {}
  <2>1. \A x \in T \cup {s0} : x \in Int /\ s0 \in Int /\ x <= s0 OBVIOUS
  <2>2. \A x \in T \cup {s0} : ~(s0 < x) BY <2>1
  <2> QED BY <2>2 DEF Above
<1>3. Cardinality(Above(T \cup {s0}, s0)) = 0 BY <1>2, FS_EmptySet
<1>4. ASSUME NEW s \in T
      PROVE  Cardinality(Above(T \cup {s0}, s)) <= MaxCandles
               <=> Cardinality(Above(T, s)) < MaxCandles
  <2>1. Above(T \cup {s0}, s) = Above(T, s) \cup {s0} BY <1>4 DEF Above
  <2>2. s0 \notin Above(T, s) BY <1>1 DEF Above
  <2>3. IsFiniteSet(Above(T, s)) /\ Cardinality(Above(T, s)) \in Nat BY AboveFinite
  <2>4. Cardinality(Above(T \cup {s0}, s)) = Cardinality(Above(T, s)) + 1
    BY <2>1, <2>2, <2>3, FS_AddElement
  <2> QED BY <1>0, <2>3, <2>4
<1>5. s0 \in RecentOf(T \cup {s0}) BY <1>0, <1>3 DEF RecentOf
<1>6. \A s : s \in RecentOf(T \cup {s0}) \ {s0} <=> s \in Upper(T)
  BY <1>1, <1>4 DEF RecentOf, Upper
<1> QED BY <1>5, <1>6

\* Candles of different intervals.
Distinct(cs) == \A c, d \in cs : c.start = d.start => c = d
StartsIn(cs) == {c.start : c \in cs}

LEMMA AsManyStarts ==
  ASSUME NEW cs, IsFiniteSet(cs), Distinct(cs)
  PROVE  IsFiniteSet(StartsIn(cs)) /\ Cardinality(StartsIn(cs)) = Cardinality(cs)
<1> DEFINE f == [c \in cs |-> c.start]
<1>1. f \in [cs -> StartsIn(cs)] BY DEF StartsIn
<1>2. \A c, d \in cs : f[c] = f[d] => c = d BY DEF Distinct
<1>3. \A s \in StartsIn(cs) : \E c \in cs : f[c] = s BY DEF StartsIn
<1> HIDE DEF f
<1>4. f \in Bijection(cs, StartsIn(cs))
  BY <1>1, <1>2, <1>3 DEF Bijection, Injection, Surjection, IsInjective
<1>5. ExistsBijection(cs, StartsIn(cs)) BY <1>4 DEF ExistsBijection
<1> QED BY <1>5, FS_Bijection

\* Of the candles of the last intervals the limit leaves those that a further one may join.
LEMMA KeptUpper ==
  ASSUME NEW T \in SUBSET Nat, IsFiniteSet(T), NEW cs, IsFiniteSet(cs), Distinct(cs),
         StartsIn(cs) = RecentOf(T)
  PROVE  StartsIn(Kept(cs)) = Upper(T)
<1> DEFINE R == RecentOf(T)
           m == Cardinality(R)
<1>0. MaxCandles \in Nat \ {0} BY ChartAssumption
<1>1. IsFiniteSet(R) /\ m = Cardinality(cs) /\ m \in Nat
  BY AsManyStarts, FS_CardinalityType
<1>2. Upper(T) \subseteq R /\ R \subseteq T
  <2>1. \A s \in T : Cardinality(Above(T, s)) \in Nat BY AboveFinite
  <2>2. \A s \in T : Cardinality(Above(T, s)) < MaxCandles => Cardinality(Above(T, s)) <= MaxCandles
    BY <1>0, <2>1
  <2> QED BY <2>2 DEF Upper, RecentOf
<1>3. ASSUME NEW s \in R
      PROVE  Cardinality(R \ {s}) = m - 1 /\ IsFiniteSet(R \ {s})
  BY <1>1, FS_RemoveElement
<1>4. ASSUME NEW s \in R
      PROVE  Above(T, s) \subseteq R \ {s}
  <2> SUFFICES ASSUME NEW r \in T, s < r PROVE r \in R /\ r # s BY DEF Above
  <2>1. Cardinality(Above(T, r)) < Cardinality(Above(T, s)) BY <1>2, AboveMonotone
  <2>2. Cardinality(Above(T, s)) <= MaxCandles BY DEF RecentOf
  <2>3. Cardinality(Above(T, r)) \in Nat /\ Cardinality(Above(T, s)) \in Nat BY AboveFinite
  <2>4. Cardinality(Above(T, r)) <= MaxCandles BY <1>0, <2>1, <2>2, <2>3
  <2>5. s \in Nat /\ r \in Nat BY <1>2
  <2> QED BY <2>4, <2>5 DEF RecentOf
<1>5. CASE ~(Cardinality(cs) > MaxCandles)
  <2>1. Kept(cs) = cs BY <1>5 DEF Kept
  <2>2. m <= MaxCandles BY <1>0, <1>1, <1>5
  <2>3. ASSUME NEW s \in R PROVE s \in Upper(T)
    <3>1. Cardinality(Above(T, s)) <= Cardinality(R \ {s})
      BY <1>3, <1>4, FS_Subset
    <3>2. Cardinality(R \ {s}) = m - 1 BY <1>3
    <3>3. Cardinality(Above(T, s)) \in Nat BY AboveFinite
    <3>4. Cardinality(Above(T, s)) < MaxCandles
      BY <1>0, <1>1, <2>2, <3>1, <3>2, <3>3
    <3> QED BY <1>2, <3>4 DEF Upper
  <2> QED BY <1>2, <2>1, <2>3
<1>6. CASE Cardinality(cs) > MaxCandles
  <2> DEFINE old == Oldest(cs)
             o == old.start
  <2>1. m > MaxCandles BY <1>1, <1>6
  <2>2. R # {} BY <1>0, <2>1, FS_EmptySet
  <2>3. \E x \in R : \A y \in R : x <= y BY <1>2, <2>2, Smallest
  <2>4. \E c \in cs : \A d \in cs : c.start <= d.start BY <2>3 DEF StartsIn
  <2>5. old \in cs /\ \A d \in cs : old.start <= d.start BY <2>4 DEF Oldest
  <2>6. Kept(cs) = cs \ {old} BY <1>6 DEF Kept
  <2> HIDE DEF old
  <2>7. o \in R /\ \A s \in R : o <= s BY <2>5 DEF StartsIn
  <2>8. StartsIn(Kept(cs)) = R \ {o}
    <3>1. \A d \in cs : d.start = o => d = old BY <2>5 DEF Distinct
    <3>2. StartsIn(cs \ {old}) = StartsIn(cs) \ {o} BY <2>5, <3>1 DEF StartsIn
    <3> QED BY <2>6, <3>2
  <2> HIDE DEF o
  <2>9. ASSUME NEW s \in R, s # o PROVE s \in Upper(T)
    <3>0. o \in Nat /\ s \in Nat /\ o <= s BY <1>2, <2>7
    <3>1. o < s BY <2>9, <3>0
    <3>2. Cardinality(Above(T, s)) < Cardinality(Above(T, o))
      BY <1>2, <2>7, <3>0, <3>1, AboveMonotone
    <3>3. Cardinality(Above(T, o)) <= MaxCandles BY <2>7 DEF RecentOf
    <3>4. Cardinality(Above(T, o)) \in Nat /\ Cardinality(Above(T, s)) \in Nat
      BY AboveFinite
    <3>5. Cardinality(Above(T, s)) < MaxCandles BY <1>0, <3>2, <3>3, <3>4
    <3> QED BY <1>2, <3>5 DEF Upper
  <2>10. o \notin Upper(T)
    <3>1. R \ {o} \subseteq Above(T, o)
      <4> SUFFICES ASSUME NEW s \in R, s # o PROVE s \in Above(T, o) OBVIOUS
      <4>1. s \in T /\ o \in T /\ o <= s BY <1>2, <2>7
      <4>2. s \in Int /\ o \in Int BY <4>1
      <4>3. o < s BY <4>1, <4>2
      <4> QED BY <4>1, <4>3 DEF Above
    <3>2. IsFiniteSet(Above(T, o)) /\ Cardinality(Above(T, o)) \in Nat BY AboveFinite
    <3>3. Cardinality(R \ {o}) <= Cardinality(Above(T, o)) BY <3>1, <3>2, FS_Subset
    <3>4. Cardinality(R \ {o}) = m - 1 BY <1>3, <2>7
    <3>5. MaxCandles <= Cardinality(Above(T, o)) BY <1>0, <1>1, <2>1, <3>2, <3>3, <3>4
    <3> QED BY <1>0, <3>2, <3>5 DEF Upper
  <2>11. \A s : s \in R \ {o} <=> s \in Upper(T) BY <1>2, <2>9, <2>10
  <2> QED BY <2>8, <2>11
<1> QED BY <1>5, <1>6

-----------------------------------------------------------------------------
(* The chart lists the candles by their start *)

Rank(cs, c) == Cardinality(Earlier(cs, c))

LEMMA RankType ==
  ASSUME NEW cs \in SUBSET Candle, IsFiniteSet(cs), NEW c \in cs
  PROVE  Rank(cs, c) \in 0..(Cardinality(cs) - 1)
<1>1. Earlier(cs, c) \in SUBSET (cs \ {c}) BY DEF Earlier, Candle
<1>2. IsFiniteSet(cs \ {c}) /\ Cardinality(cs \ {c}) = Cardinality(cs) - 1
  BY FS_RemoveElement
<1>3. IsFiniteSet(Earlier(cs, c)) /\ Cardinality(Earlier(cs, c)) <= Cardinality(cs \ {c})
  BY <1>1, <1>2, FS_Subset
<1>4. Cardinality(Earlier(cs, c)) \in Nat /\ Cardinality(cs) \in Nat
  BY <1>3, FS_CardinalityType
<1> QED BY <1>2, <1>3, <1>4 DEF Rank

LEMMA RankMonotone ==
  ASSUME NEW cs \in SUBSET Candle, IsFiniteSet(cs), NEW c \in cs, NEW d \in cs,
         c.start < d.start
  PROVE  Rank(cs, c) < Rank(cs, d)
<1>1. Earlier(cs, c) \in SUBSET Earlier(cs, d) BY DEF Earlier, Candle
<1>2. c \in Earlier(cs, d) /\ c \notin Earlier(cs, c) BY DEF Earlier, Candle
<1>3. Earlier(cs, d) \in SUBSET cs BY DEF Earlier
<1>4. IsFiniteSet(Earlier(cs, d)) BY <1>3, FS_Subset
<1>5. Cardinality(Earlier(cs, c)) <= Cardinality(Earlier(cs, d))
      /\ Cardinality(Earlier(cs, c)) # Cardinality(Earlier(cs, d))
  BY <1>1, <1>2, <1>4, FS_Subset
<1>6. Rank(cs, c) \in Int /\ Rank(cs, d) \in Int BY RankType
<1> QED BY <1>5, <1>6 DEF Rank

LEMMA RankOnto ==
  ASSUME NEW cs \in SUBSET Candle, IsFiniteSet(cs), Distinct(cs)
  PROVE  /\ \A c, d \in cs : Rank(cs, c) = Rank(cs, d) => c = d
         /\ \A i \in 1..Cardinality(cs) : \E c \in cs : Rank(cs, c) = i - 1
<1> DEFINE n == Cardinality(cs)
           f == [c \in cs |-> Rank(cs, c)]
<1>1. n \in Nat BY FS_CardinalityType
<1>2. ASSUME NEW c \in cs, NEW d \in cs, Rank(cs, c) = Rank(cs, d) PROVE c = d
  <2>1. c.start \in Nat /\ d.start \in Nat BY DEF Candle
  <2>2. Rank(cs, c) \in Int BY RankType
  <2>3. ~(c.start < d.start) /\ ~(d.start < c.start) BY <1>2, <2>2, RankMonotone
  <2>4. c.start = d.start BY <2>1, <2>3
  <2> QED BY <2>4 DEF Distinct
<1>3. f \in [cs -> 0..(n - 1)] BY RankType
<1>4. \A c, d \in cs : f[c] = f[d] => c = d BY <1>2
<1>5. \A c \in cs : f[c] = Rank(cs, c) OBVIOUS
<1> HIDE DEF f
<1>6. f \in Injection(cs, 0..(n - 1)) BY <1>3, <1>4 DEF Injection, IsInjective
<1>7. IsFiniteSet(0..(n - 1)) /\ Cardinality(0..(n - 1)) = n
  <2>1. 0 \in Int /\ n - 1 \in Int BY <1>1
  <2>2. IsFiniteSet(0..(n - 1))
        /\ Cardinality(0..(n - 1)) = IF 0 > n - 1 THEN 0 ELSE (n - 1) - 0 + 1
    BY <2>1, FS_Interval
  <2> HIDE DEF n
  <2> QED BY <1>1, <2>2
<1>8. f \in Surjection(cs, 0..(n - 1)) BY <1>6, <1>7, FS_Injection
<1>9. \A k \in 0..(n - 1) : \E c \in cs : f[c] = k BY <1>8 DEF Surjection
<1> HIDE DEF n
<1>10. \A i \in 1..n : i - 1 \in 0..(n - 1) BY <1>1
<1>11. \A i \in 1..n : \E c \in cs : Rank(cs, c) = i - 1 BY <1>5, <1>9, <1>10
<1> QED BY <1>2, <1>11 DEF n

\* The candles by their start, the one that is built behind them.
LEMMA SortedCandles ==
  ASSUME NEW a, AggOK(a), Distinct(a.done), a.builder # Null,
         \A c \in a.done : c.start < a.builder.start
  PROVE  LET p == Candles(a)
         IN /\ \A i, j \in DOMAIN p : i < j => p[i].start < p[j].start
            /\ {p[i] : i \in DOMAIN p} = a.done \cup {a.builder}
<1> DEFINE cs == a.done
           n == Cardinality(cs)
           e(i) == CHOOSE c \in cs : Cardinality(Earlier(cs, c)) = i - 1
           f == [i \in 1..n |-> e(i)]
           p == Candles(a)
<1>1. cs \in SUBSET Candle /\ IsFiniteSet(cs) /\ n \in Nat
  BY FS_CardinalityType DEF AggOK, Completed
<1>2. \A i \in 1..n : e(i) \in cs /\ Rank(cs, e(i)) = i - 1
  <2> SUFFICES ASSUME NEW i \in 1..n PROVE e(i) \in cs /\ Rank(cs, e(i)) = i - 1
    OBVIOUS
  <2>1. \E c \in cs : Rank(cs, c) = i - 1 BY <1>1, RankOnto
  <2>2. \E c \in cs : Cardinality(Earlier(cs, c)) = i - 1 BY <2>1 DEF Rank
  <2>3. e(i) \in cs /\ Cardinality(Earlier(cs, e(i))) = i - 1
    <3> HIDE DEF cs, n
    <3> QED BY <2>2
  <2> QED BY <2>3 DEF Rank
<1>3. p = f \o <<a.builder>> BY DEF Candles
<1>4. \A i \in 1..n : f[i] = e(i) OBVIOUS
<1> HIDE DEF e
<1>5. f \in Seq(Candle) /\ Len(f) = n BY <1>1, <1>2
<1>6. <<a.builder>> \in Seq(Candle) /\ Len(<<a.builder>>) = 1 BY DEF AggOK
<1> HIDE DEF f, n, cs
<1>7. /\ DOMAIN p = 1..(n + 1)
      /\ \A i \in 1..n : p[i] = f[i]
      /\ p[n + 1] = a.builder
  <2>1. /\ f \o <<a.builder>> \in Seq(Candle) /\ Len(f \o <<a.builder>>) = n + 1
        /\ \A i \in 1..(n + 1) : (f \o <<a.builder>>)[i] = IF i <= n THEN f[i]
                                                           ELSE <<a.builder>>[i - n]
    BY <1>1, <1>5, <1>6, ConcatProperties
  <2>2. DOMAIN (f \o <<a.builder>>) = 1..(n + 1) BY <2>1
  <2>3. n + 1 \in 1..(n + 1) /\ \A i \in 1..n : i \in 1..(n + 1) /\ i <= n BY <1>1
  <2>4. ~(n + 1 <= n) /\ (n + 1) - n = 1 BY <1>1
  <2> QED BY <1>3, <2>1, <2>2, <2>3, <2>4
<1> HIDE DEF p
<1>8. ASSUME NEW i \in DOMAIN p, NEW j \in DOMAIN p, i < j PROVE p[i].start < p[j].start
  <2>1. i \in 1..n BY <1>1, <1>7, <1>8
  <2>2. p[i] = e(i) /\ e(i) \in cs /\ Rank(cs, e(i)) = i - 1 BY <1>2, <1>4, <1>7, <2>1
  <2>3. CASE j = n + 1 BY <1>7, <2>2, <2>3 DEF cs
  <2>4. CASE j \in 1..n
    <3>1. p[j] = e(j) /\ e(j) \in cs /\ Rank(cs, e(j)) = j - 1 BY <1>2, <1>4, <1>7, <2>4
    <3>2. i \in Int /\ j \in Int BY <2>1, <2>4
    <3>3. ~(e(j).start < e(i).start)
      <4> SUFFICES ASSUME e(j).start < e(i).start PROVE FALSE OBVIOUS
      <4>1. Rank(cs, e(j)) < Rank(cs, e(i)) BY <1>1, <2>2, <3>1, RankMonotone
      <4> QED BY <1>8, <2>2, <3>1, <3>2, <4>1
    <3>4. e(i).start # e(j).start
      <4> SUFFICES ASSUME e(i).start = e(j).start PROVE FALSE OBVIOUS
      <4>1. e(i) = e(j) BY <2>2, <3>1 DEF Distinct, cs
      <4> QED BY <1>8, <2>2, <3>1, <3>2, <4>1
    <3>5. e(i).start \in Int /\ e(j).start \in Int BY <1>1, <2>2, <3>1 DEF Candle
    <3> QED BY <2>2, <3>1, <3>3, <3>4, <3>5
  <2>5. j \in 1..n \/ j = n + 1 BY <1>1, <1>7
  <2> QED BY <2>3, <2>4, <2>5
<1>9. \A i \in DOMAIN p : p[i] \in cs \cup {a.builder}
  <2>1. \A i \in DOMAIN p : i \in 1..n \/ i = n + 1 BY <1>1, <1>7
  <2> QED BY <1>2, <1>4, <1>7, <2>1
<1>10. ASSUME NEW c \in cs PROVE \E i \in DOMAIN p : p[i] = c
  <2> DEFINE k == Rank(cs, c) + 1
  <2>1. k \in 1..n /\ k - 1 = Rank(cs, c) BY <1>1, RankType DEF n
  <2> HIDE DEF k
  <2>2. e(k) \in cs /\ Rank(cs, e(k)) = Rank(cs, c) BY <1>2, <2>1
  <2>3. e(k) = c BY <1>1, <2>2, RankOnto DEF cs
  <2>4. k \in DOMAIN p BY <1>1, <1>7, <2>1
  <2> QED BY <1>4, <1>7, <2>1, <2>3, <2>4
<1>11. \E i \in DOMAIN p : p[i] = a.builder
  <2>1. n + 1 \in DOMAIN p BY <1>1, <1>7
  <2> QED BY <1>7, <2>1
<1>12. {p[i] : i \in DOMAIN p} = cs \cup {a.builder} BY <1>9, <1>10, <1>11
<1> QED BY <1>8, <1>12 DEF p, cs

-----------------------------------------------------------------------------
(* With trades in order the aggregator holds the candles of the last intervals *)

\* All trades of the candle's interval are those from i to j.
Whole(q, secs, c, i, j) ==
  /\ Sums(q, secs, c, i, j)
  /\ \A k \in DOMAIN q : StartIn(secs, q[k]) = c.start => k \in i..j
AllStarts(q, secs) == {StartIn(secs, q[k]) : k \in DOMAIN q}
Exact(q, secs, a) ==
  LET last == StartIn(secs, q[Len(q)])
  IN /\ a.builder # Null /\ a.builder.start = last
     /\ \E i \in DOMAIN q : Whole(q, secs, a.builder, i, Len(q))
     /\ \A c \in a.done : \E i, j \in DOMAIN q : i <= j /\ Whole(q, secs, c, i, j)
     /\ Distinct(a.done)
     /\ StartsIn(a.done) = RecentOf(AllStarts(q, secs)) \ {last}
ExactInv == SoundInv /\ (Ordered(seen) /\ seen # <<>> => Exact(seen, interval, agg))

LEMMA StartsBounded ==
  ASSUME NEW q \in Seq(Entry), Ordered(q), q # <<>>, NEW secs \in Intervals
  PROVE  LET last == StartIn(secs, q[Len(q)])
             T == AllStarts(q, secs)
         IN /\ T \in SUBSET Nat /\ IsFiniteSet(T) /\ last \in T
            /\ \A s \in T : s <= last
<1> DEFINE n == Len(q)
           last == StartIn(secs, q[n])
           T == AllStarts(q, secs)
<1>1. n \in Nat \ {0} /\ DOMAIN q = 1..n /\ \A k \in 1..n : q[k] \in Entry BY EmptySeq
<1>2. n \in 1..n /\ \A k \in 1..n : k < n \/ k = n
  <2>1. n \in Nat \ {0} BY <1>1
  <2> HIDE DEF n
  <2> QED BY <2>1
<1>3. \A k \in 1..n : q[k].time \in Nat /\ q[k].time <= q[n].time
  <2>1. \A k \in 1..n : q[k].time \in Nat BY <1>1 DEF Entry
  <2> HIDE DEF n
  <2>2. \A k \in 1..n : k < n => q[k].time <= q[n].time BY <1>1, <1>2 DEF Ordered
  <2> QED BY <1>2, <2>1, <2>2
<1>4. secs \in Nat \ {0} BY ChartAssumption
<1> HIDE DEF n
<1>5. \A k \in 1..n : StartIn(secs, q[k]) \in Nat /\ StartIn(secs, q[k]) <= last /\ last \in Nat
  BY <1>2, <1>3, <1>4, StartMonotone DEF StartIn
<1>6. T \in SUBSET Nat /\ last \in T /\ \A s \in T : s <= last
  BY <1>1, <1>2, <1>5 DEF AllStarts
<1>7. last \in Nat BY <1>2, <1>5
<1> HIDE DEF T, last
<1>8. IsFiniteSet(T) BY <1>6, <1>7, FS_BoundedSetOfNaturals
<1> QED BY <1>6, <1>8 DEF T, last, n

\* The last interval is a recent one.
LEMMA LastRecent ==
  ASSUME NEW T \in SUBSET Nat, NEW last \in T, \A s \in T : s <= last
  PROVE  last \in RecentOf(T)
<1>1. \A s \in T : s \in Nat /\ last \in Nat /\ s <= last OBVIOUS
<1>2. \A s \in T : ~(last < s) BY <1>1
<1>3. Above(T, last) = {} BY <1>2 DEF Above
<1>4. Cardinality(Above(T, last)) = 0 BY <1>3, FS_EmptySet
<1>5. MaxCandles \in Nat BY ChartAssumption
<1> QED BY <1>4, <1>5 DEF RecentOf

LEMMA WholeKept ==
  ASSUME NEW q \in Seq(Entry), NEW e \in Entry, NEW secs,
         NEW i \in DOMAIN q, NEW j \in DOMAIN q, i <= j,
         NEW c, Whole(q, secs, c, i, j), StartIn(secs, e) # c.start
  PROVE  /\ i \in DOMAIN Append(q, e) /\ j \in DOMAIN Append(q, e)
         /\ Whole(Append(q, e), secs, c, i, j)
<1> DEFINE r == Append(q, e)
           n == Len(q)
<1>1. Sums(r, secs, c, i, j) BY SumsKept DEF Whole
<1>2. /\ n \in Nat /\ DOMAIN q = 1..n /\ DOMAIN r = 1..(n + 1)
      /\ \A k \in 1..n : r[k] = q[k]
      /\ r[n + 1] = e
  BY Grows
<1>3. \A k \in DOMAIN q : StartIn(secs, q[k]) = c.start => k \in i..j BY DEF Whole
<1> HIDE DEF r, n
<1>4. \A k \in DOMAIN r : k \in 1..n \/ k = n + 1 BY <1>2
<1>5. \A k \in DOMAIN r : StartIn(secs, r[k]) = c.start => k \in i..j
  BY <1>2, <1>3, <1>4
<1>6. i \in DOMAIN r /\ j \in DOMAIN r BY <1>2
<1> QED BY <1>1, <1>5, <1>6 DEF Whole, r

LEMMA OrderedBefore ==
  ASSUME NEW q \in Seq(Entry), NEW e \in Entry, Ordered(Append(q, e))
  PROVE  Ordered(q) /\ \A k \in DOMAIN q : q[k].time <= e.time
<1> DEFINE r == Append(q, e)
           n == Len(q)
<1>1. /\ n \in Nat /\ DOMAIN q = 1..n /\ DOMAIN r = 1..(n + 1)
      /\ \A k \in 1..n : r[k] = q[k]
      /\ r[n + 1] = e
  BY Grows
<1>2. \A i, j \in DOMAIN r : i < j => r[i].time <= r[j].time BY DEF Ordered
<1> HIDE DEF r, n
<1>3. n + 1 \in DOMAIN r /\ \A k \in 1..n : k \in DOMAIN r /\ k < n + 1 BY <1>1
<1>4. \A i, j \in 1..n : i < j => q[i].time <= q[j].time BY <1>1, <1>2, <1>3
<1>5. \A k \in 1..n : q[k].time <= e.time BY <1>1, <1>2, <1>3
<1> QED BY <1>1, <1>4, <1>5 DEF Ordered

\* The first trade.
LEMMA ExactFirst ==
  ASSUME NEW t \in Trades, NEW e, Counts(<<>>, t, e), NEW secs \in Intervals
  PROVE  Exact(Append(<<>>, e), secs, AddTrade(Empty, secs, t))
<1> DEFINE start == IntervalStart(secs, t.time)
           c == NewCandle(start, t)
           r == Append(<<>>, e)
<1>0. <<>> \in Seq(Entry) /\ e \in Entry /\ e.time = t.time BY DEF Counts
<1>1. AddTrade(Empty, secs, t) = [builder |-> c, done |-> {}] BY DEF AddTrade, Empty
<1>2. Sums(r, secs, c, 1, 1)
  <2>1. Sums(Append(<<>>, e), secs, NewCandle(IntervalStart(secs, t.time), t),
             Len(<<>>) + 1, Len(<<>>) + 1)
    BY <1>0, SumsOne
  <2> QED BY <2>1
<1>3. DOMAIN r = {1} /\ r[1] = e /\ Len(r) = 1 BY <1>0
<1>4. StartIn(secs, e) = start BY <1>0 DEF StartIn
<1>5. c.start = start BY DEF NewCandle
<1>6. c # Null
  <2>1. c \in Candle BY <1>2 DEF Sums
  <2> QED BY <2>1, ChartAssumption
<1> HIDE DEF r, c
<1>7. AllStarts(r, secs) = {start} BY <1>3, <1>4 DEF AllStarts
<1>8. RecentOf(AllStarts(r, secs)) \ {start} = {} BY <1>7 DEF RecentOf
<1>9. Whole(r, secs, c, 1, 1)
  <2>1. 1 \in 1..1 OBVIOUS
  <2> QED BY <1>2, <1>3, <2>1 DEF Whole
<1>10. Exact(r, secs, [builder |-> c, done |-> {}])
  BY <1>3, <1>4, <1>5, <1>6, <1>8, <1>9 DEF Exact, Distinct, StartsIn
<1> QED BY <1>1, <1>10 DEF r

\* A further trade of the last interval.
LEMMA ExactMore ==
  ASSUME NEW q \in Seq(Entry), NEW t \in Trades, NEW e, Counts(q, t, e),
         NEW secs \in Intervals, NEW a, AggOK(a), Exact(q, secs, a), q # <<>>,
         a.builder.start = IntervalStart(secs, t.time)
  PROVE  Exact(Append(q, e), secs, AddTrade(a, secs, t))
<1> DEFINE r == Append(q, e)
           n == Len(q)
           b == AddTrade(a, secs, t)
           start == IntervalStart(secs, t.time)
<1>0. e \in Entry /\ StartIn(secs, e) = start BY DEF Counts, StartIn
<1>1. a.builder # Null /\ a.builder.start = start /\ a.builder \in Candle
  BY DEF Exact, AggOK
<1>2. b.builder = Updated(a.builder, t) /\ b.done = a.done BY <1>1 DEF AddTrade, AggOK
<1>3. b.builder \in Candle /\ b.builder.start = start BY <1>1, <1>2, UpdatedCandle
<1>4. b.builder # Null BY <1>3, ChartAssumption
<1>5. /\ n \in Nat /\ DOMAIN q = 1..n /\ DOMAIN r = 1..(n + 1) /\ Len(r) = n + 1
      /\ \A k \in 1..n : r[k] = q[k]
      /\ r[n + 1] = e
  BY <1>0, Grows
<1>6. n \in 1..n
  <2>1. n \in Nat \ {0} BY EmptySeq
  <2> HIDE DEF n
  <2> QED BY <2>1
<1>7. PICK i \in DOMAIN q : Whole(q, secs, a.builder, i, n) BY DEF Exact
<1>8. Sums(r, secs, b.builder, i, n + 1)
  BY <1>1, <1>2, <1>7, SumsMore DEF Whole
<1>9. StartIn(secs, q[n]) = start BY <1>1 DEF Exact
<1>10. \A c \in a.done : c.start # start
  <2>1. StartsIn(a.done) = RecentOf(AllStarts(q, secs)) \ {start} BY <1>9 DEF Exact
  <2> QED BY <2>1 DEF StartsIn
<1>11. \A c \in a.done : \E k, j \in DOMAIN q : k <= j /\ Whole(q, secs, c, k, j)
  BY DEF Exact
<1>12. \A c \in b.done : \E k, j \in DOMAIN r : k <= j /\ Whole(r, secs, c, k, j)
  BY <1>0, <1>2, <1>10, <1>11, WholeKept
<1>13. Distinct(b.done) /\ StartsIn(b.done) = RecentOf(AllStarts(q, secs)) \ {start}
  BY <1>2, <1>9 DEF Exact
<1> HIDE DEF r, n, b, start
<1>14. Whole(r, secs, b.builder, i, n + 1)
  <2>1. \A k \in DOMAIN q : StartIn(secs, q[k]) = start => k \in i..n
    BY <1>1, <1>7 DEF Whole
  <2>2. i \in 1..n BY <1>5, <1>7
  <2>3. \A k \in i..n : k \in i..(n + 1) BY <1>5, <2>2
  <2>4. n + 1 \in i..(n + 1) BY <1>5, <2>2
  <2>5. \A k \in DOMAIN r : k \in 1..n \/ k = n + 1 BY <1>5
  <2>6. \A k \in DOMAIN r : StartIn(secs, r[k]) = start => k \in i..(n + 1)
    BY <1>5, <2>1, <2>3, <2>4, <2>5
  <2> QED BY <1>3, <1>8, <2>6 DEF Whole
<1>15. i \in DOMAIN r BY <1>5, <1>7
<1>16. AllStarts(r, secs) = AllStarts(q, secs)
  <2>1. \A k \in DOMAIN r : k \in 1..n \/ k = n + 1 BY <1>5
  <2>2. \A k \in DOMAIN r : StartIn(secs, r[k]) \in AllStarts(q, secs)
    BY <1>0, <1>5, <1>6, <1>9, <2>1 DEF AllStarts
  <2>3. \A k \in DOMAIN q : StartIn(secs, q[k]) = StartIn(secs, r[k]) /\ k \in DOMAIN r
    BY <1>5
  <2> QED BY <2>2, <2>3 DEF AllStarts
<1>17. StartIn(secs, r[Len(r)]) = start BY <1>0, <1>5
<1>18. Exact(r, secs, b)
  BY <1>3, <1>4, <1>5, <1>12, <1>13, <1>14, <1>15, <1>16, <1>17 DEF Exact
<1> QED BY <1>18 DEF r, b

\* The first trade of a later interval.
LEMMA ExactNext ==
  ASSUME NEW q \in Seq(Entry), NEW t \in Trades, NEW e, Counts(q, t, e),
         NEW secs \in Intervals, NEW a, AggOK(a), Exact(q, secs, a), q # <<>>,
         Ordered(Append(q, e)), a.builder.start # IntervalStart(secs, t.time)
  PROVE  Exact(Append(q, e), secs, AddTrade(a, secs, t))
<1> DEFINE r == Append(q, e)
           n == Len(q)
           b == AddTrade(a, secs, t)
           start == IntervalStart(secs, t.time)
           last == StartIn(secs, q[n])
           T == AllStarts(q, secs)
           all == Inserted(a.done, a.builder)
           new == NewCandle(start, t)
<1>0. e \in Entry /\ StartIn(secs, e) = start /\ e.time = t.time BY DEF Counts, StartIn
<1>1. a.builder # Null /\ a.builder.start = last /\ a.builder \in Candle
  BY DEF Exact, AggOK
<1>2. b.builder = new /\ b.done = Kept(all) BY <1>1 DEF AddTrade
<1>3. /\ n \in Nat /\ DOMAIN q = 1..n /\ DOMAIN r = 1..(n + 1) /\ Len(r) = n + 1
      /\ \A k \in 1..n : r[k] = q[k] /\ q[k] \in Entry
      /\ r[n + 1] = e
  BY <1>0, Grows
<1>4. n \in 1..n
  <2>1. n \in Nat \ {0} BY EmptySeq
  <2> HIDE DEF n
  <2> QED BY <2>1
<1>5. Ordered(q) /\ \A k \in DOMAIN q : q[k].time <= e.time BY <1>0, OrderedBefore
<1>6. T \in SUBSET Nat /\ IsFiniteSet(T) /\ last \in T /\ \A s \in T : s <= last
  BY <1>5, StartsBounded
<1>7. start \in Nat BY IntervalStartNat
<1>8. last < start
  <2>1. q[n].time \in Nat /\ q[n].time <= t.time /\ t.time \in Nat
    BY <1>0, <1>3, <1>4, <1>5, ChartAssumption DEF Entry
  <2>2. secs \in Nat \ {0} BY ChartAssumption
  <2>3. last <= start BY <2>1, <2>2, StartMonotone DEF StartIn
  <2>4. last \in Nat BY <1>6
  <2> HIDE DEF last, start
  <2> QED BY <1>1, <1>7, <2>3, <2>4 DEF last, start
<1>9. \A s \in T : s < start
  <2> SUFFICES ASSUME NEW s \in T PROVE s < start OBVIOUS
  <2>1. s \in Nat /\ last \in Nat /\ s <= last BY <1>6
  <2> HIDE DEF last, start, T
  <2> QED BY <1>7, <1>8, <2>1
<1>10. StartsIn(a.done) = RecentOf(T) \ {last} /\ Distinct(a.done) BY DEF Exact
<1>11. all = a.done \cup {a.builder}
  <2>1. \A c \in a.done : c.start # last BY <1>10 DEF StartsIn
  <2> QED BY <1>1, <2>1 DEF Inserted
<1>12. last \in RecentOf(T)
  <2> HIDE DEF last, T
  <2> QED BY <1>6, LastRecent
<1>13. PICK i \in DOMAIN q : Whole(q, secs, a.builder, i, n) BY DEF Exact
<1>14. \A c \in a.done : \E k, j \in DOMAIN q : k <= j /\ Whole(q, secs, c, k, j)
  BY DEF Exact
<1>15. Sums(r, secs, new, n + 1, n + 1) BY SumsOne
<1>16. new.start = start /\ new \in Candle
  BY <1>15 DEF NewCandle, Sums
<1>17. new # Null BY <1>16, ChartAssumption
<1>18. IsFiniteSet(a.done) BY DEF AggOK, Completed
<1> HIDE DEF r, n, b, start, last, T, all, new
<1>19. StartsIn(all) = RecentOf(T)
  <2>1. StartsIn(all) = StartsIn(a.done) \cup {last} BY <1>1, <1>11 DEF StartsIn
  <2> QED BY <1>10, <1>12, <2>1
<1>20. Distinct(all)
  <2>1. \A c \in a.done : c.start # last BY <1>10 DEF StartsIn
  <2>2. \A c, d \in a.done : c.start = d.start => c = d BY <1>10 DEF Distinct
  <2>3. \A c \in all : c \in a.done \/ c = a.builder BY <1>11
  <2> SUFFICES ASSUME NEW c \in all, NEW d \in all, c.start = d.start PROVE c = d
    BY DEF Distinct
  <2>4. CASE c \in a.done /\ d \in a.done BY <2>2, <2>4
  <2>5. CASE c = a.builder /\ d = a.builder BY <2>5
  <2>6. CASE c \in a.done /\ d = a.builder BY <1>1, <2>1, <2>6
  <2>7. CASE c = a.builder /\ d \in a.done BY <1>1, <2>1, <2>7
  <2> QED BY <2>3, <2>4, <2>5, <2>6, <2>7
<1>21. IsFiniteSet(all) BY <1>11, <1>18, FS_AddElement
<1>22. StartsIn(Kept(all)) = Upper(T) BY <1>6, <1>19, <1>20, <1>21, KeptUpper
<1>23. AllStarts(r, secs) = T \cup {start}
  <2>1. \A k \in DOMAIN r : k \in 1..n \/ k = n + 1 BY <1>3
  <2>2. n + 1 \in DOMAIN r /\ \A k \in 1..n : k \in DOMAIN r BY <1>3
  <2>3. T = {StartIn(secs, q[k]) : k \in 1..n} BY <1>3 DEF T, AllStarts
  <2>4. \A k \in DOMAIN r : StartIn(secs, r[k]) \in T \cup {start}
    BY <1>0, <1>3, <2>1, <2>3
  <2>5. \A s \in T \cup {start} : \E k \in DOMAIN r : s = StartIn(secs, r[k])
    BY <1>0, <1>3, <2>2, <2>3
  <2> QED BY <2>4, <2>5 DEF AllStarts
<1>24. StartsIn(b.done) = RecentOf(AllStarts(r, secs)) \ {start}
  BY <1>2, <1>6, <1>7, <1>9, <1>22, <1>23, RecentGrows
<1>25. Kept(all) \subseteq all BY DEF Kept
<1>26. Distinct(b.done) BY <1>2, <1>20, <1>25 DEF Distinct
<1>27. \A c \in all : \E k, j \in DOMAIN q : k <= j /\ Whole(q, secs, c, k, j)
  <2>1. i <= n /\ n \in DOMAIN q BY <1>3, <1>4, <1>13
  <2> QED BY <1>11, <1>13, <1>14, <2>1
<1>28. \A c \in all : c.start # start
  <2>1. \A c \in all : c.start \in T
    <3>1. \A s \in RecentOf(T) : s \in T BY DEF RecentOf
    <3> QED BY <1>19, <3>1 DEF StartsIn
  <2>2. \A s \in T : s # start
    <3>1. \A s \in T : s \in Nat /\ s < start BY <1>6, <1>9
    <3> QED BY <1>7, <3>1
  <2> QED BY <2>1, <2>2
<1>29. \A c \in b.done : \E k, j \in DOMAIN r : k <= j /\ Whole(r, secs, c, k, j)
  <2>1. \A c \in all : \E k, j \in DOMAIN r : k <= j /\ Whole(r, secs, c, k, j)
    BY <1>0, <1>27, <1>28, WholeKept DEF r
  <2> QED BY <1>2, <1>25, <2>1
<1>30. Whole(r, secs, new, n + 1, n + 1)
  <2>1. \A k \in DOMAIN q : StartIn(secs, q[k]) # start
    <3>1. \A k \in DOMAIN q : StartIn(secs, q[k]) \in T BY DEF T, AllStarts
    <3>2. \A s \in T : s # start
      <4>1. \A s \in T : s \in Nat /\ s < start BY <1>6, <1>9
      <4> QED BY <1>7, <4>1
    <3> QED BY <3>1, <3>2
  <2>2. \A k \in DOMAIN r : k \in 1..n \/ k = n + 1 BY <1>3
  <2>3. n + 1 \in (n + 1)..(n + 1) BY <1>3
  <2>4. \A k \in DOMAIN r : StartIn(secs, r[k]) = start => k \in (n + 1)..(n + 1)
    BY <1>3, <2>1, <2>2, <2>3
  <2> QED BY <1>15, <1>16, <2>4 DEF Whole
<1>31. n + 1 \in DOMAIN r BY <1>3
<1>32. StartIn(secs, r[Len(r)]) = start BY <1>0, <1>3
<1>33. Exact(r, secs, b)
  BY <1>2, <1>3, <1>16, <1>17, <1>24, <1>26, <1>29, <1>30, <1>31, <1>32 DEF Exact
<1> QED BY <1>33 DEF r, b

\* Any trade.
LEMMA ExactByTrade ==
  ASSUME NEW q \in Seq(Entry), NEW t \in Trades, NEW e, Counts(q, t, e),
         NEW secs \in Intervals, NEW a, AggOK(a), Built(q, secs, a),
         Ordered(q) /\ q # <<>> => Exact(q, secs, a), Ordered(Append(q, e))
  PROVE  Exact(Append(q, e), secs, AddTrade(a, secs, t))
<1>1. CASE q = <<>>
  <2>1. a.builder = Null /\ a.done = {} BY <1>1 DEF Built
  <2>2. a = Empty BY <2>1 DEF AggOK, Empty
  <2>3. Counts(<<>>, t, e) BY <1>1
  <2>4. Exact(Append(<<>>, e), secs, AddTrade(Empty, secs, t)) BY <2>3, ExactFirst
  <2> QED BY <1>1, <2>2, <2>4
<1>2. CASE q # <<>>
  <2>1. e \in Entry BY DEF Counts
  <2>2. Exact(q, secs, a) BY <1>2, <2>1, OrderedBefore
  <2>3. CASE a.builder.start = IntervalStart(secs, t.time) BY <1>2, <2>2, <2>3, ExactMore
  <2>4. CASE a.builder.start # IntervalStart(secs, t.time) BY <1>2, <2>2, <2>4, ExactNext
  <2> QED BY <2>3, <2>4
<1> QED BY <1>1, <1>2

LEMMA InitExact == Init => ExactInv
<1>1. Init => seen = <<>> BY DEF Init
<1> QED BY <1>1, InitSound DEF ExactInv

LEMMA NextExact ==
  ASSUME ExactInv, [Next]_vars
  PROVE  ExactInv'
<1>1. SoundInv' BY NextSound DEF ExactInv
<1>2. CASE UNCHANGED <<interval, agg, seen>> BY <1>1, <1>2 DEF ExactInv
<1>3. CASE agg' = Empty /\ seen' = <<>> BY <1>1, <1>3 DEF ExactInv
<1>4. ASSUME NEW t \in Trades, interval # Null, OnTrade(t) PROVE ExactInv'
  <2>1. /\ agg' = AddTrade(agg, interval, t) /\ seen' = Append(seen, Counted(t))
        /\ interval' = interval
    BY <1>4 DEF OnTrade
  <2>2. interval \in Intervals BY <1>4 DEF ExactInv, SoundInv, ChartInv, TypeOK
  <2>3. seen \in Seq(Entry) /\ AggOK(agg) /\ Built(seen, interval, agg)
    BY DEF ExactInv, SoundInv, ChartInv
  <2>4. Counts(seen, t, Counted(t)) BY <2>3, CountedCounts
  <2>5. Ordered(seen) /\ seen # <<>> => Exact(seen, interval, agg) BY DEF ExactInv
  <2>6. Ordered(Append(seen, Counted(t)))
          => Exact(Append(seen, Counted(t)), interval, AddTrade(agg, interval, t))
    BY <2>2, <2>3, <2>4, <2>5, ExactByTrade
  <2> QED BY <1>1, <2>1, <2>6 DEF ExactInv
<1> QED BY <1>2, <1>3, <1>4, Untraded DEF ExactInv

LEMMA ExactInvariant == Spec => []ExactInv
BY InitExact, NextExact, PTL DEF Spec

\* All trades of an interval, from the first to the last.
LEMMA WholeCandle ==
  ASSUME seen \in Seq(Entry), NEW i \in DOMAIN seen, NEW j \in DOMAIN seen, i <= j,
         NEW c, Whole(seen, interval, c, i, j)
  PROVE  c = CandleOf(c.start)
<1> DEFINE S == OfInterval(c.start)
<1>1. c = Summary(i, j) BY SumsIsSummary DEF Whole
<1>2. i \in 1..Len(seen) /\ j \in 1..Len(seen) /\ Len(seen) \in Nat OBVIOUS
<1>3. i \in i..j /\ j \in i..j BY <1>2
<1>4. i \in S /\ j \in S BY <1>3 DEF Whole, Sums, OfInterval, Start, StartIn
<1>5. S \in SUBSET Int
  <2>1. \A k \in DOMAIN seen : k \in Int BY <1>2
  <2> QED BY <2>1 DEF OfInterval
<1>6. \A k \in S : k \in i..j BY DEF Whole, OfInterval, Start, StartIn
<1>7. \A k \in S : i <= k /\ k <= j BY <1>2, <1>6
<1> HIDE DEF S
<1>8. Min(S) = i /\ Max(S) = j BY <1>4, <1>5, <1>7, MinIs, MaxIs
<1> QED BY <1>1, <1>8 DEF CandleOf, S

\* What the chart shows once it is taken from the aggregator.
Taken == Ordered(seen) /\ seen # <<>> /\ candles = Candles(agg) => ShowsTrades

LEMMA ExactShows == ExactInv => Taken
<1> SUFFICES ASSUME ExactInv, Ordered(seen), seen # <<>>, candles = Candles(agg)
             PROVE  ShowsTrades
  BY DEF Taken
<1> DEFINE n == Len(seen)
           last == StartIn(interval, seen[n])
           all == agg.done \cup {agg.builder}
<1>1. seen \in Seq(Entry) /\ AggOK(agg) /\ Exact(seen, interval, agg)
  BY DEF ExactInv, SoundInv, ChartInv
<1>2. interval \in Intervals BY DEF ExactInv, SoundInv, ChartInv, TypeOK
<1>3. AllStarts(seen, interval) = Starts BY DEF AllStarts, Starts, Start, StartIn
<1>4. /\ Starts \in SUBSET Nat /\ last \in Starts
      /\ \A s \in Starts : s <= last
  BY <1>1, <1>2, <1>3, StartsBounded
<1>5. Recent = RecentOf(Starts) BY DEF Recent, RecentOf, Above
<1>6. last \in Recent
  <2> HIDE DEF last
  <2> QED BY <1>4, <1>5, LastRecent
<1>7. /\ agg.builder # Null /\ agg.builder.start = last
      /\ StartsIn(agg.done) = Recent \ {last} /\ Distinct(agg.done)
  BY <1>1, <1>3, <1>5 DEF Exact
<1>8. \A c \in agg.done : c.start < agg.builder.start
  <2> SUFFICES ASSUME NEW c \in agg.done PROVE c.start < agg.builder.start OBVIOUS
  <2>1. c.start \in Starts /\ c.start # last BY <1>7 DEF StartsIn, Recent
  <2>2. c.start \in Nat /\ last \in Nat /\ c.start <= last BY <1>4, <2>1
  <2> HIDE DEF last
  <2> QED BY <1>7, <2>1, <2>2
<1>9. \A c \in all : c = CandleOf(c.start)
  <2>1. ASSUME NEW c \in agg.done PROVE c = CandleOf(c.start)
    <3>1. PICK i \in DOMAIN seen, j \in DOMAIN seen : i <= j /\ Whole(seen, interval, c, i, j)
      BY <1>1 DEF Exact
    <3> QED BY <1>1, <3>1, WholeCandle
  <2>2. agg.builder = CandleOf(agg.builder.start)
    <3>1. PICK i \in DOMAIN seen : Whole(seen, interval, agg.builder, i, n)
      BY <1>1 DEF Exact
    <3>2. n \in DOMAIN seen /\ i <= n BY <1>1, <3>1
    <3> QED BY <1>1, <3>1, <3>2, WholeCandle
  <2> QED BY <2>1, <2>2
<1>10. StartsIn(all) = Recent BY <1>6, <1>7 DEF StartsIn
<1>11. all = {CandleOf(s) : s \in Recent}
  <2> HIDE DEF all
  <2>1. \A c \in all : c.start \in Recent BY <1>10 DEF StartsIn
  <2>2. \A s \in Recent : \E c \in all : c.start = s BY <1>10 DEF StartsIn
  <2> QED BY <1>9, <2>1, <2>2
<1>12. /\ \A i, j \in DOMAIN candles : i < j => candles[i].start < candles[j].start
       /\ {candles[i] : i \in DOMAIN candles} = all
  BY <1>1, <1>7, <1>8, SortedCandles
<1> QED BY <1>11, <1>12 DEF ShowsTrades

-----------------------------------------------------------------------------
(* Theorems *)

\* The chart never outgrows what the aggregator can show, by whatever mixture of lists, updates
\* and trades it is filled, and an aggregator that is not in use is empty (app.rs:1735,
\* tick_aggregator.rs:123).
THEOREM ChartTypeCorrect == Spec => []TypeOK
<1>1. ChartInv => TypeOK BY DEF ChartInv
<1> QED BY <1>1, ChartInvariant, PTL

\* Every risk order that goes out, at once or when its ticker comes, loses the amount asked for
\* at its stop, fees included, up to half a unit; its stop lies on the losing side, at the price
\* or percentage asked for, and its take profit, if any, at the price, percentage or ratio asked
\* for (app.rs:1054-1107, 1125-1166, 1702-1716, risk.rs:27-77).
THEOREM RiskIsKept == Spec => []RiskKept
<1>1. ChartInv => RiskKept BY DEF ChartInv
<1> QED BY <1>1, ChartInvariant, PTL

\* With trades in whatever order, each candle of the aggregator sums up trades that followed each
\* other in its interval, and no others (tick_aggregator.rs:106-134).
THEOREM CandlesAreSums == Spec => []CandlesSound
BY SoundInvariant, SoundCandles, PTL

\* A trade of a timeframe of seconds leaves the chart with exactly the candles of all trades since
\* the timeframe or the symbol was chosen, of the last intervals and in their order, if the
\* trades came in the order of their times (README.md:149-153, app.rs:1741-1754,
\* tick_aggregator.rs:49-140).
THEOREM TradesAreShown == Spec => TradesShown
<1>1. Spec => []Taken BY ExactInvariant, ExactShows, PTL
<1>2. ASSUME [Next]_vars, Taken'
      PROVE  [seen' # seen /\ seen' # <<>> /\ Ordered(seen') => ShowsTrades']_vars
  <2>1. seen' # seen /\ seen' # <<>> => candles' = Candles(agg)'
    BY <1>2, Untraded DEF OnTrade
  <2> QED BY <1>2, <2>1 DEF Taken
<1> QED BY <1>1, <1>2, PTL DEF Spec, TradesShown
=============================================================================
