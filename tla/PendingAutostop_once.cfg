\* One client, one limit order: crashes and two fills.
SPECIFICATION PFairSpec
CONSTANTS
  c1 = c1
  o1 = o1
  Null = Null
  Conns <- OneConn
  Symbols <- OneSymbol
  Timeouts <- OneTimeout
  Prices <- NoPrices
  MaxQty = 1
  MaxArms = 2
  MaxQueue = 2
  Venue = "binance"
  FeedLossy = FALSE
  Crashes = TRUE
  DbFails = FALSE
  OrderEvents <- Updates
  Orders <- OneOrder
  OrderKey <- LongKey
  MaxPlans = 1
INVARIANTS PTypeOK ToldOncePerPlan
PROPERTY HeardUpdateSettles
