-------------------------- MODULE MCPendingAutostop --------------------------
(* Instances of PendingAutostop for TLC. *)
EXTENDS PendingAutostop

CONSTANTS c1, o1
OneConn    == {c1}
OneOrder   == {o1}
OneSymbol  == {1}
OneTimeout == {1}
NoPrices   == {}
LongKey    == [o \in OneOrder |-> <<1, "Buy">>]
Updates    == [order: OneOrder, status: {"partial", "filled", "cancelled", "rejected"}]
=============================================================================
