\* One client at a time on Bybit: trades, triggers and server crashes.
SPECIFICATION Spec
CONSTANTS
  c1 = c1
  c2 = c2
  Null = Null
  Conns <- OneConn
  Symbols <- OneSymbol
  Timeouts <- OneTimeout
  Prices <- TwoPrices
  MaxQty = 1
  MaxArms = 2
  MaxQueue = 1
  Venue = "bybit"
  FeedLossy = FALSE
  Crashes = TRUE
  DbFails = FALSE
  OrderEvents = {}
INVARIANTS LiveIsDurable TriggerNotPersisted
PROPERTY ImplementsLifecycle
