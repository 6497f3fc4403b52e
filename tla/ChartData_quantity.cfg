\* The example of the README: a risk of $10 at an entry of 95000 and a stop at 94000.
SPECIFICATION Spec
CONSTANTS
  Null = Null
  MaxCandles = 1
  Trades <- OneTrade
  Intervals = {1}
  Lists <- NoneOrOne
  Updates <- Klines
  Prices = {95000}
  Commands <- ReadmeOrder
  MaxTrades = 1
INVARIANT QuantityByFormula
