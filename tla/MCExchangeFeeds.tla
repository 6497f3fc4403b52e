--------------------------- MODULE MCExchangeFeeds ---------------------------
(* Two symbols; a busy account or busy charts. *)
EXTENDS ExchangeFeeds

CONSTANTS s1, s2

TwoSymbols == {s1, s2}
BusyAccountOrChart == {[account |-> 4, chart |-> 0], [account |-> 0, chart |-> 1]}
==============================================================================
