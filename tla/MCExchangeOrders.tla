--------------------------- MODULE MCExchangeOrders --------------------------
(* Instances of ExchangeOrders. *)
EXTENDS ExchangeOrders

OneSymbol == {"BTCUSDT"}
TwoSymbols == {"BTCUSDT", "ETHUSDT"}
BothExchanges == {"binance", "bybit"}
\* One quantity of whole lots, and one the Binance adapter cuts.
WholeAndCut == {2, 3}
==============================================================================
