---------------------------- MODULE ExchangeOrders ---------------------------
(***************************************************************************)
(* The requests of a session carried out by the adapter of the configured  *)
(* exchange, on an account that others trade on too.                       *)
(***************************************************************************)
EXTENDS BinanceOrders, BybitOrders

CONSTANTS Exchanges,      \* exchanges a server may be configured for
          DefaultSymbol,  \* the symbol every cancel request is sent with
          Sizes           \* quantities of orders

ASSUME SizesAssumption == Sizes \subseteq Nat

Requests ==
    [op : {"place"}, symbol : Symbols, side : Sides, type : {"market", "limit"}, qty : Sizes,
     stops : SUBSET {"sl", "tp"}]
    \cup [op : {"close"}, symbol : Symbols, side : Sides, qty : {0}, stops : {{}}]
    \cup [op : {"trail"}, symbol : Symbols, side : Sides, target : {"price", "ratio"}]
    \cup [op : {"cancel"}, target : 1..MaxRequests]
    \cup [op : {"cancel_all"}, symbol : Symbols \cup {Null}]

\* The server starts by asking the exchange for the position mode its adapter needs.
Init ==
    /\ exchange \in Exchanges
    /\ mode \in {"oneway", "hedge"}
    /\ pos = Flat /\ legs = {} /\ book = {}
    /\ desk = [Idle EXCEPT !.pc = "start"]
    /\ answer = [n \in 1..MaxRequests |-> Null]
    /\ placed = {}

EnsurePositionMode ==
    /\ IF exchange = "binance" THEN EnsureOneWayMode ELSE SwitchToHedgeMode
    /\ UNCHANGED exchange

\* The first call of each kind of request.
FirstCall(r) == CASE r.op = "place" -> "order"
                  [] r.op = "close" -> "close"
                  [] r.op = "trail" -> "target"
                  [] OTHER -> "cancel"

Take ==
    /\ At("idle")
    /\ \E n \in 1..MaxRequests, r \in Requests :
          /\ answer[n] = Null
          /\ \A k \in 1..(n - 1) : answer[k] # Null
          /\ r.op = "cancel" => r.target < n
          /\ desk' = [pc |-> FirstCall(r), n |-> n, req |-> r, order |-> Null]
    /\ UNCHANGED <<mode, pos, legs, book, exchange, answer, placed>>

\* An order is cancelled by its id, under the one symbol the handler knows.
Cancelled(r) == IF r.op = "cancel"
                THEN {o \in book : o.id = r.target /\ o.symbol = DefaultSymbol}
                ELSE {o \in book : r.symbol \in {Null, o.symbol}}

CancelOrders ==
    /\ At("cancel")
    /\ LET r == desk.req
       IN IF exchange = "binance" /\ r.op = "cancel_all" /\ CancelAllNeedsSymbol(r)
          THEN Fail /\ UNCHANGED <<mode, pos, legs, book, placed>>
          ELSE Post(r.op = "cancel_all" \/ Cancelled(r) # {},
                    book' = book \ Cancelled(r) /\ UNCHANGED <<mode, pos, legs, placed>>,
                    Answer("cancelled"), Fail)
    /\ UNCHANGED exchange

Adapter == /\ IF exchange = "binance" THEN BinanceStep ELSE BybitStep
           /\ UNCHANGED exchange

Market == /\ ~At("start") /\ ~At("stopped")
          /\ Fill \/ TriggerLeg \/ OtherTrade
          /\ UNCHANGED <<exchange, desk, answer, placed>>

Next == EnsurePositionMode \/ Take \/ CancelOrders \/ Adapter \/ Market

Spec == Init /\ [][Next]_vars

\* The exchange answers every request in the end, with a result or an error.
FairSpec == Spec /\ WF_vars(EnsurePositionMode) /\ WF_vars(CancelOrders) /\ WF_vars(Adapter)

-----------------------------------------------------------------------------
(* Properties. *)

\* The account is well formed and the desk holds the request whose answer is outstanding.
TypeOK ==
    /\ AccountTypeOK
    /\ placed \subseteq 1..MaxRequests
    /\ \A n \in 1..MaxRequests : answer[n] \in Answers \cup {Null}
    /\ desk.n > 0 => answer[desk.n] = Null

\* A request is answered as placed only when the exchange has taken its order, whatever answers
\* were lost on the way and whatever became of its legs (client.rs:264, :285).
ToldMeansPlaced == \A n \in 1..MaxRequests : answer[n] = "placed" => n \in placed

\* A stop loss or a take profit waits at the exchange only for an order the exchange has taken:
\* an order that is refused leaves no leg behind that would open a position by itself.
LegsAfterEntry == \A l \in legs : l.kind # "trail" => l.id \in placed

\* A close order that is executed takes from the side the client named and from nothing else,
\* also when the position changed after it was looked up (client.rs:450-476, bybit 352-386).
CloseTakesItsSide ==
    [][desk.req # Null /\ placed' # placed /\ desk.req.op = "close" =>
          LET s == desk.req.symbol
              held == Opposite(desk.req.side)
          IN pos'[s][held] < pos[s][held] /\ pos' = [pos EXCEPT ![s] = [@ EXCEPT ![held] = pos'[s][held]]]]_vars

\* Every request is answered, with legs refused, positions gone and answers lost on the way.
EveryRequestAnswered == \A n \in 1..MaxRequests : desk.n = n ~> answer[n] # Null
==============================================================================
