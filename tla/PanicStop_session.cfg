\* One client at a time on Binance: disconnects and a lossy feed, no crash; no stop hangs.
SPECIFICATION FairSpec
CONSTANTS
  c1 = c1
  c2 = c2
  Null = Null
  Conns <- OneConn
  Symbols <- TwoSymbols
  Timeouts <- OneTimeout
  Prices <- NoPrices
  MaxQty = 1
  MaxArms = 2
  MaxQueue = 1
  Venue = "binance"
  FeedLossy = TRUE
  Crashes = FALSE
  DbFails = FALSE
  OrderEvents = {}
INVARIANTS ResolvedIsFinal FiresAtMostOnce
PROPERTY CountingResolves
