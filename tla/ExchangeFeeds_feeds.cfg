\* One session, two chart subscriptions.
SPECIFICATION FairSpec
CONSTANTS
  s1 = s1
  s2 = s2
  Null = Null
  Account = Account
  Symbols <- TwoSymbols
  Cap = 1
  BaseDelay = 2
  MaxDelay = 7
  MaxSubscriptions = 2
  MaxEvents = 3
  Loads <- BusyAccountOrChart
INVARIANTS TypeOK AccountInOrder OneChartFeed StraysBounded
PROPERTY FeedRetries
CHECK_DEADLOCK FALSE
