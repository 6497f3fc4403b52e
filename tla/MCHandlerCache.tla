---------------------------- MODULE MCHandlerCache ---------------------------
(* Instances of HandlerCache. *)
EXTENDS HandlerCache, TLC

CONSTANTS s1, s2

TwoSymbols == {s1, s2}
Symmetry == Permutations(TwoSymbols)
==============================================================================
