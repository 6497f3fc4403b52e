------------------------------ MODULE ChartData ------------------------------
(***************************************************************************)
(* What the terminal keeps of the market (src/client/src/app.rs): the      *)
(* candles of the chart, which come as a list, as updates of the last      *)
(* candle or, for timeframes of seconds, from an aggregator of trades; and *)
(* the last price.  A risk order without a price waits for the ticker.     *)
(* Candles and trades carry no symbol and no timeframe, and those of       *)
(* before a change of either may still arrive after it.                    *)
(***************************************************************************)
EXTENDS TickAggregator, RiskSize

CONSTANTS Trades,      \* trades the server may forward
          Intervals,   \* timeframes of seconds
          Lists,       \* answers to a request for candles
          Updates,     \* candles of the exchange, as it streams and lists them
          Prices,      \* last prices of tickers
          Commands,    \* [risk, side, sl, limit, tp] of risk orders
          MaxTrades    \* trades after a change of the timeframe

ASSUME ChartAssumption ==
    /\ MaxCandles \in Nat \ {0} /\ MaxTrades \in Nat
    /\ Intervals \subseteq Nat \ {0} /\ Null \notin Intervals \cup Candle
    /\ Lists \subseteq Seq(Updates) /\ \A q \in Lists : Len(q) <= MaxCandles
    /\ Trades \subseteq [time : Nat, price : Int, qty : Int]

Written == [kind : {"percent", "absolute"}, amount : Int]
Ratios == [kind : {"ratio"}, num : Nat, denom : Nat \ {0}]

\* Prices are given in a unit fine enough for percentages and ratios to be whole numbers.
WholeStop(c, p) == c.sl.kind = "percent" => (p * c.sl.amount) % 100 = 0
WholeProfit(c, p) ==
    c.tp # Null =>
        /\ c.tp.kind = "percent" => (p * c.tp.amount) % 100 = 0
        /\ c.tp.kind = "ratio" /\ c.tp.num > 0 =>
              (Distance(p, StopLoss(c.side, p, c.sl)) * c.tp.denom) % c.tp.num = 0
ASSUME RiskAssumption ==
    /\ Prices \subseteq Int
    /\ Null \notin Int \cup Written \cup Ratios
    /\ Commands \subseteq [risk : Int, side : {"Buy", "Sell"}, sl : Written, limit : Int \cup {Null},
                           tp : Written \cup Ratios \cup {Null}]
    /\ \A c \in Commands : \A p \in Prices \cup ({c.limit} \ {Null}) :
           WholeStop(c, p) /\ WholeProfit(c, p)

VARIABLES interval,   \* seconds of the timeframe, or Null for one of the exchange
          agg,        \* tick_aggregator
          candles,
          lastPrice,
          waiting,    \* [risk, own]: the order that awaits a ticker, and whether its symbol
                      \* is the selected one; or Null
          order,      \* the risk order sent by the last step, or Null
          running,    \* FALSE once the terminal has panicked
          seen        \* trades since the aggregator was empty, each with the quantity of
                      \* all up to it (history)

vars == <<interval, agg, candles, lastPrice, waiting, order, running, seen>>

Init ==
    /\ interval = Null /\ agg = Empty
    /\ candles = <<>> /\ lastPrice = Null
    /\ waiting = Null /\ order = Null /\ running = TRUE
    /\ seen = <<>>

NoOrder == running /\ order' = Null /\ UNCHANGED running

-----------------------------------------------------------------------------
(* Commands. *)

TfSeconds(secs) ==
    /\ interval' = secs /\ agg' = Empty /\ seen' = <<>>
    /\ candles' = <<>>
    /\ NoOrder
    /\ UNCHANGED <<lastPrice, waiting>>

\* The list is asked for; until it comes the old candles stay.
TfMinutes ==
    /\ interval' = Null /\ agg' = Empty /\ seen' = <<>>
    /\ NoOrder
    /\ UNCHANGED <<candles, lastPrice, waiting>>

\* An order that waits is not forgotten.
MutSelectSymbol ==
    /\ seen' = <<>>
    /\ candles' = <<>> /\ lastPrice' = Null
    /\ NoOrder
    /\ UNCHANGED <<interval, agg, waiting>>
SelectSymbol ==
    /\ agg' = Empty /\ seen' = <<>>
    /\ candles' = <<>> /\ lastPrice' = Null
    /\ NoOrder
    /\ waiting' \in IF waiting = Null THEN {Null} ELSE {[waiting EXCEPT !.own = b] : b \in BOOLEAN}
    /\ UNCHANGED interval

\* A risk order goes out unless its amount or its stop is refused.  Dividing by a ratio of zero
\* ends the terminal.
ZeroRatio(v) == v # Null /\ v.kind = "ratio" /\ v.num = 0
ExecuteRiskOrder(c, entry) ==
    LET isLimit == c.limit # Null
        sl == StopLoss(c.side, entry, c.sl)
        accepted == Accepted(c.risk, c.side, entry, sl)
    IN /\ running
       /\ running' = ~(accepted /\ ZeroRatio(c.tp))
       /\ order' = IF accepted /\ ~ZeroRatio(c.tp)
                   THEN [side |-> c.side, entry |-> entry, limit |-> isLimit, sl |-> sl,
                         tp |-> IF c.tp = Null THEN Null
                                ELSE TakeProfit(c.side, entry, sl, c.tp),
                         quantity |-> Quantity(c.risk, entry, sl, isLimit), asked |-> c]
                   ELSE Null

\* An order with a price goes out at once, one without asks for the ticker.
PlaceRiskOrder(c) ==
    /\ IF c.limit # Null
       THEN ExecuteRiskOrder(c, c.limit) /\ UNCHANGED waiting
       ELSE waiting' = [risk |-> c, own |-> TRUE] /\ NoOrder
    /\ UNCHANGED <<interval, agg, candles, lastPrice, seen>>

-----------------------------------------------------------------------------
(* Messages. *)

\* A ticker of the selected symbol, or of another one that was asked for.
OnTicker(own, p) ==
    /\ IF waiting # Null /\ waiting.own = own
       THEN ExecuteRiskOrder(waiting.risk, p) /\ waiting' = Null /\ lastPrice' = p
       ELSE /\ lastPrice' = IF own THEN p ELSE lastPrice
            /\ NoOrder
            /\ UNCHANGED waiting
    /\ UNCHANGED <<interval, agg, candles, seen>>

Counted(t) == [time |-> t.time, price |-> t.price, qty |-> t.qty,
               total |-> t.qty + (IF seen = <<>> THEN 0 ELSE Last(seen).total)]

OnTrade(t) ==
    /\ lastPrice' = t.price
    /\ NoOrder
    /\ IF interval = Null
       THEN UNCHANGED <<agg, candles, seen>>
       ELSE /\ Len(seen) < MaxTrades
            /\ agg' = AddTrade(agg, interval, t)
            /\ candles' = Candles(agg')
            /\ seen' = Append(seen, Counted(t))
    /\ UNCHANGED <<interval, waiting>>

OnCandles(list) ==
    /\ candles' = list
    /\ NoOrder
    /\ UNCHANGED <<interval, agg, lastPrice, waiting, seen>>

\* An update replaces the last candle or follows it; the first one goes when there are too many.
MutPushed(q, c) == Append(q, c)
Pushed(q, c) == LET p == Append(q, c) IN IF Len(p) > MaxCandles THEN Tail(p) ELSE p
OnCandleUpdate(c) ==
    /\ candles' = CASE candles = <<>> -> candles
                    [] candles # <<>> /\ Last(candles).start = c.start -> Front(candles) \o <<c>>
                    [] OTHER -> Pushed(candles, c)
    /\ NoOrder
    /\ UNCHANGED <<interval, agg, lastPrice, waiting, seen>>

Next == \/ \E secs \in Intervals : TfSeconds(secs)
        \/ TfMinutes \/ SelectSymbol
        \/ \E c \in Commands : PlaceRiskOrder(c)
        \/ \E own \in BOOLEAN, p \in Prices : OnTicker(own, p)
        \/ \E t \in Trades : OnTrade(t)
        \/ \E q \in Lists : OnCandles(q)
        \/ \E c \in Updates : OnCandleUpdate(c)

Spec == Init /\ [][Next]_vars

-----------------------------------------------------------------------------
(* Properties. *)

Start(t) == IntervalStart(interval, t.time)

\* The candle that the trades i to j add up to.
Summary(i, j) ==
    LET prices == {seen[k].price : k \in i..j}
    IN [start |-> Start(seen[i]), open |-> seen[i].price, close |-> seen[j].price,
        high |-> Max(prices), low |-> Min(prices),
        volume |-> seen[j].total - seen[i].total + seen[i].qty]

\* The intervals with trades, the last MaxCandles + 1 of them, and the candle of all trades of
\* one of them.
Ordered(q) == \A i, j \in DOMAIN q : i < j => q[i].time <= q[j].time
Starts == {Start(seen[i]) : i \in DOMAIN seen}
Recent == {s \in Starts : Cardinality({r \in Starts : s < r}) <= MaxCandles}
OfInterval(s) == {i \in DOMAIN seen : Start(seen[i]) = s}
CandleOf(s) == Summary(Min(OfInterval(s)), Max(OfInterval(s)))

\* The chart never holds more candles than the aggregator can show, by whatever mixture of lists,
\* updates and trades they came (app.rs:1735, tick_aggregator.rs:123); an aggregator that is not
\* in use is empty.
TypeOK ==
    /\ interval \in Intervals \cup {Null}
    /\ Cardinality(agg.done) <= MaxCandles
    /\ Len(candles) <= MaxCandles + 1
    /\ interval = Null => agg = Empty /\ seen = <<>>

\* A trade in a timeframe of seconds leaves the chart with exactly the candles of all trades since
\* the timeframe or the symbol was chosen, in the order of their intervals, if the trades came in
\* the order of their times, whatever lists and updates of another timeframe came in between
\* (README.md:149-153).
ShowsTrades ==
    /\ \A i, j \in DOMAIN candles : i < j => candles[i].start < candles[j].start
    /\ {candles[i] : i \in DOMAIN candles} = {CandleOf(s) : s \in Recent}
TradesShown == [][seen' # seen /\ seen' # <<>> /\ Ordered(seen') => ShowsTrades']_vars

\* Also with trades out of order, as when the feed of the former symbol still delivers, each
\* candle sums up trades that followed each other in its interval, and no other trades.
CandlesSound ==
    \A c \in agg.done \cup ({agg.builder} \ {Null}) :
        \E i, j \in DOMAIN seen :
            /\ i <= j /\ \A k \in i..j : Start(seen[k]) = c.start
            /\ c = Summary(i, j)

\* What a price gains on the entry, in the direction of the position.
Gain(price) == IF order.side = "Buy" THEN price - order.entry ELSE order.entry - price

StopAsAsked(v) ==
    IF v.kind = "percent" THEN -100 * Gain(order.sl) = order.entry * v.amount
    ELSE order.sl = v.amount
ProfitAsAsked(v) ==
    CASE v.kind = "percent" -> 100 * Gain(order.tp) = order.entry * v.amount
      [] v.kind = "absolute" -> order.tp = v.amount
      [] v.kind = "ratio" -> Gain(order.tp) * v.num = -Gain(order.sl) * v.denom

\* The loss of a risk order at its stop, fees included, is the amount asked for up to half a unit
\* of the position, to which the quantity is rounded; the stop lies on the losing side, at the
\* price or percentage of the entry asked for, also when the entry became known with the ticker;
\* the take profit is the price, the percentage or the ratio asked for, on whichever side that
\* is (app.rs:1054-1107, 1125-1166, 1702-1716, risk.rs:27-77).
RiskKept ==
    order # Null =>
        LET unit == -Gain(order.sl) * Unit + 2 * order.entry * Fee(order.limit)
            asked == order.asked.risk * Unit
        IN /\ 2 * Distance(order.quantity * unit, asked) <= unit
           /\ Gain(order.sl) < 0 /\ StopAsAsked(order.asked.sl)
           /\ IF order.asked.tp = Null THEN order.tp = Null ELSE ProfitAsAsked(order.asked.tp)

\* README.md:181: quantity = risk_usdt / (|entry - sl| + entry * fee * 2), with the example
\* "10 / 1104.5 = 0.00905 BTC" (:193-194).  The quantity is that of the formula within a tenth.
QuantityByFormula ==
    order # Null =>
        LET unit == RiskPerUnit(order.entry, order.sl, order.limit)
            asked == order.asked.risk * Unit
        IN 10 * Distance(order.quantity * unit, asked) <= asked
==============================================================================
