\* One user types two commands, on Bybit with a chain, on Binance without, no request
\* refused; or one with another chain, on Binance, where requests may be refused.
SPECIFICATION Spec
CONSTANTS
  s1 = s1
  s2 = s2
  none = none
  Null = Null
  Symbols <- TwoSymbols
  NoSymbol <- none
  Chains <- AllChains
  MaxChain = 3
  MaxCmds = 2
  MaxQueue = 1
  Settings <- AnsweredOrRefused
INVARIANTS TypeOK ChainInStep OrderOnce StopShownAgrees RiskOrderAwaited
SYMMETRY Symmetry
