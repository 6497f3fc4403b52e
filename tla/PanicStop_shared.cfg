\* Two clients at a time on Binance: crashes and failing transactions.
SPECIFICATION Spec
CONSTANTS
  c1 = c1
  c2 = c2
  Null = Null
  Conns <- TwoConns
  Symbols <- OneSymbol
  Timeouts <- OneTimeout
  Prices <- NoPrices
  MaxQty = 2
  MaxArms = 1
  MaxQueue = 2
  Venue = "binance"
  FeedLossy = FALSE
  Crashes = TRUE
  DbFails = TRUE
  OrderEvents = {}
INVARIANTS TypeOK FiringIsHeld
PROPERTY CloseOnlyReduces
SYMMETRY Symmetry
