\* Timeframes of one and five seconds, one candle kept.
SPECIFICATION Spec
CONSTANTS
  Null = Null
  MaxCandles = 1
  Trades <- TradesOfSeconds
  Intervals = {1, 5}
  Lists <- NoneOrOne
  Updates <- Klines
  Prices = {95000}
  Commands <- RiskOrders
  MaxTrades = 4
INVARIANTS TypeOK CandlesSound RiskKept
PROPERTY TradesShown
\* A ratio of zero ends the terminal.
CHECK_DEADLOCK FALSE
