----------------------------- MODULE MCPanicStop -----------------------------
(* Instances of PanicStop for TLC. *)
EXTENDS PanicStopRefinement, TLC

CONSTANTS c1, c2
OneConn  == {c1}
TwoConns == {c1, c2}
OneSymbol  == {1}
TwoSymbols == {1, 2}
OneTimeout == {1}
NoPrices  == {}
OnePrice  == {1}
TwoPrices == {1, 2}
Symmetry  == Permutations(TwoConns)
=============================================================================
