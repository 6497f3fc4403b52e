SPECIFICATION FairSpec
CONSTANTS
  Null = Null
  Symbols <- OneSymbol
  Exchanges <- BothExchanges
  DefaultSymbol = "BTCUSDT"
  Sizes <- WholeAndCut
  Step = 2
  MaxQty = 4
  MaxRequests = 2
INVARIANTS TypeOK ToldMeansPlaced LegsAfterEntry
PROPERTIES CloseTakesItsSide EveryRequestAnswered
CHECK_DEADLOCK FALSE
