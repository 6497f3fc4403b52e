---------------------------- MODULE BinanceOrders ----------------------------
(***************************************************************************)
(* src/server/src/binance/client.rs: BinanceClient.  The account is to be  *)
(* in one-way mode; stop loss, take profit and trailing stop are           *)
(* conditional orders of their own, placed after the order they belong to. *)
(***************************************************************************)
EXTENDS OrderDesk

RoundToStep(q) == (q \div Step) * Step

\* The order of a request: no position is named, the quantity is cut to the lot size.
MutBinanceOrder(r) == [id |-> desk.n, symbol |-> r.symbol, side |-> r.side, qty |-> RoundToStep(r.qty),
                       idx |-> "both", reduce |-> FALSE, stops |-> {}]
BinanceOrder(r) == [id |-> desk.n, symbol |-> r.symbol, side |-> r.side, qty |-> RoundToStep(r.qty),
                    idx |-> "both", reduce |-> r.op = "close", stops |-> {}]

\* A leg trades on the other side for the whole quantity and is not reduce-only.
BinanceLeg(o, kind) == [id |-> o.id, kind |-> kind, symbol |-> o.symbol, side |-> Opposite(o.side),
                        qty |-> RoundToStep(o.qty), idx |-> "both", reduce |-> FALSE]

\* After the order itself, its stop loss; after that its take profit; then the answer.
AfterOrder(o) == CASE "sl" \in desk.req.stops -> GotoWith("sl", o) /\ UNCHANGED answer
                   [] "tp" \in desk.req.stops /\ "sl" \notin desk.req.stops ->
                        GotoWith("tp", o) /\ UNCHANGED answer
                   [] OTHER -> Answer("placed")
MutAnsweredTwice == IF "tp" \in desk.req.stops
                    THEN Goto("tp") /\ answer' = [answer EXCEPT ![desk.n] = "placed"]
                    ELSE Answer("placed")
MutLegRetried == IF "tp" \in desk.req.stops THEN Goto("sl") /\ UNCHANGED answer
                                            ELSE Answer("placed")
AfterStopLoss == IF "tp" \in desk.req.stops THEN Goto("tp") /\ UNCHANGED answer
                                            ELSE Answer("placed")

PlaceOrderBinance ==
    /\ At("order")
    /\ LET o == BinanceOrder(desk.req) IN PostOrder(o, AfterOrder(o))

PlaceLeg(kind) ==
    /\ legs' = legs \cup {BinanceLeg(desk.order, kind)}
    /\ UNCHANGED <<mode, pos, book, placed>>

\* A leg that is refused is logged; the order is reported as placed all the same.
PlaceAlgoStop ==
    \/ /\ At("sl")
       /\ Post(mode = "oneway", PlaceLeg("sl"), AfterStopLoss, AfterStopLoss)
    \/ /\ At("tp")
       /\ Post(mode = "oneway", PlaceLeg("tp"), Answer("placed"), Answer("placed"))

\* The position of the side asked for is looked up and closed with a reduce-only order.
ClosePositionBinance ==
    /\ At("close")
    /\ Query(IF desk.req.side \in Held(desk.req.symbol)
             THEN /\ desk' = [desk EXCEPT !.pc = "order", !.req.side = Opposite(@),
                                          !.req.qty = pos[desk.req.symbol][desk.req.side]]
                  /\ UNCHANGED answer
             ELSE Fail)

\* get_positions fills in the stops of a symbol's conditional orders, whatever their side.
ReportedStops(s) == {l.kind : l \in {l \in legs : l.symbol = s}}

\* The callback rate of a trailing stop comes from a ticker or from the stop loss of the position.
CallbackRateBinance ==
    /\ At("target")
    /\ Query(IF desk.req.target = "ratio" /\ ~(/\ desk.req.side \in Held(desk.req.symbol)
                                               /\ "sl" \in ReportedStops(desk.req.symbol))
             THEN Fail
             ELSE Goto("size") /\ UNCHANGED answer)

\* The position is looked up again for its quantity.
TrailingSizeBinance ==
    /\ At("size")
    /\ LET r == desk.req
       IN Query(IF r.side \in Held(r.symbol)
                THEN /\ GotoWith("trail", [id |-> desk.n, symbol |-> r.symbol, side |-> r.side,
                                           qty |-> pos[r.symbol][r.side]])
                     /\ UNCHANGED answer
                ELSE Fail)

\* One more conditional order; an earlier trailing stop stays.
TrailingStopBinance ==
    /\ At("trail")
    /\ Post(mode = "oneway", PlaceLeg("trail"), Answer("trailing"), Fail)

CancelAllNeedsSymbol(r) == r.symbol = Null

\* Without an answer to the query of the mode the server does not start; hedge mode is left
\* when the exchange lets it, and when it does not the server starts all the same.
EnsureOneWayMode ==
    /\ At("start")
    /\ \/ desk' = [Idle EXCEPT !.pc = "stopped"] /\ mode' = mode
       \/ desk' = Idle /\ mode' \in {mode, "oneway"}
    /\ UNCHANGED <<pos, legs, book, placed, answer>>

BinanceStep == \/ PlaceOrderBinance \/ PlaceAlgoStop \/ ClosePositionBinance
               \/ CallbackRateBinance \/ TrailingSizeBinance \/ TrailingStopBinance
==============================================================================
