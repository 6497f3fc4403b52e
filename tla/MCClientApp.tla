----------------------------- MODULE MCClientApp -----------------------------
(* Instances of ClientApp for TLC. *)
EXTENDS ClientApp, TLC

CONSTANTS s1, s2, none
TwoSymbols  == {s1, s2}
StopAndRisk == {<<"as", "risk">>}
TwoChains   == {<<"market", "close">>, <<"symbol", "ts", "limit">>}
AllChains   == StopAndRisk \cup TwoChains
Symmetry    == Permutations(Symbols)

\* Two commands: on Bybit with chains of two actions, on Binance with none.
Answered ==
  [pushes : {FALSE}, fails : {FALSE}, cmds : {2}, chains : {StopAndRisk}]
  \cup [pushes : {TRUE}, fails : {FALSE}, cmds : {2}, chains : {{}}]
\* One command with a longer chain, on Binance, where requests may be refused.
Refused == [pushes : {TRUE}, fails : {TRUE}, cmds : {1}, chains : {TwoChains}]
AnsweredOrRefused == Answered \cup Refused
==============================================================================
