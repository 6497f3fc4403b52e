---------------------------- MODULE MCChartData ------------------------------
(* Trades around the ends of intervals, and the example of the README. *)
EXTENDS ChartData

TradesOfSeconds == [time : {1999, 2000, 3000, 5000}, price : {95000}, qty : {1}]
                     \cup [time : {2000, 5000}, price : {95500}, qty : {1}]
OneTrade == [time : {1000}, price : {95000}, qty : {1}]

Kline(s) == [start |-> s, open |-> 1, high |-> 1, low |-> 1, close |-> 1, volume |-> 1]
NoneOrOne == {<<>>, <<Kline(2000)>>}
Klines == {Kline(2000), Kline(5000)}

At(price) == [kind |-> "absolute", amount |-> price]
Pct(n) == [kind |-> "percent", amount |-> n]
Ratio(num, denom) == [kind |-> "ratio", num |-> num, denom |-> denom]
Order(side, sl, limit, tp) ==
    [risk |-> 2700, side |-> side, sl |-> sl, limit |-> limit, tp |-> tp]

RiskOrders ==
    {Order("Buy", At(94000), Null, Ratio(1, 3)), Order("Sell", Pct(2), Null, Pct(2)),
     Order("Buy", At(94000), Null, Ratio(0, 1)), Order("Sell", At(96000), 95000, Ratio(2, 1)),
     Order("Buy", Pct(2), 95000, At(97000)), Order("Sell", At(94000), 95000, Null),
     Order("Buy", At(94000), 95000, Null)}
ReadmeOrder == {[Order("Buy", At(94000), Null, Null) EXCEPT !.risk = 10]}
==============================================================================
