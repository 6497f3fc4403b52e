\* An update of another symbol cancels the stop.
SPECIFICATION Spec
CONSTANTS
  c1 = c1
  c2 = c2
  Null = Null
  Conns <- OneConn
  Symbols <- TwoSymbols
  Timeouts <- OneTimeout
  Prices <- NoPrices
  MaxQty = 1
  MaxArms = 1
  MaxQueue = 1
  Venue = "binance"
  FeedLossy = FALSE
  Crashes = FALSE
  DbFails = FALSE
  OrderEvents = {}
PROPERTY CancelledByOwnSymbol
