----------------------------- MODULE BybitOrders -----------------------------
(***************************************************************************)
(* src/server/src/bybit/client.rs: BybitClient.  The account is in hedge   *)
(* mode; an order names its position by positionIdx and brings its stop    *)
(* loss and take profit along.                                             *)
(***************************************************************************)
EXTENDS OrderDesk

\* positionIdx when the request has none: the position of the order's own side.
PositionIdx(r) == IF r.op = "close" THEN Opposite(r.side) ELSE r.side

\* The quantity goes out as it is, with the stops in the same request.
BybitOrder(r) == [id |-> desk.n, symbol |-> r.symbol, side |-> r.side, qty |-> r.qty,
                  idx |-> PositionIdx(r), reduce |-> r.op = "close", stops |-> r.stops]

PlaceOrderBybit ==
    /\ At("order")
    /\ PostOrder(BybitOrder(desk.req), Answer("placed"))

\* The position of the side asked for is looked up and closed under its own positionIdx.
ClosePositionBybit ==
    /\ At("close")
    /\ Query(IF desk.req.side \in Held(desk.req.symbol)
             THEN /\ desk' = [desk EXCEPT !.pc = "order", !.req.side = Opposite(@),
                                          !.req.qty = pos[desk.req.symbol][desk.req.side]]
                  /\ UNCHANGED answer
             ELSE Fail)

\* A ratio needs a position with a stop loss; a percentage needs a ticker.
ResolveTargetBybit ==
    /\ At("target")
    /\ LET r == desk.req
       IN Query(IF r.target = "ratio" /\ ~\E l \in legs : l.kind = "sl" /\ l.symbol = r.symbol /\ l.idx = r.side
                THEN Fail
                ELSE Goto("trail") /\ UNCHANGED answer)

\* The trailing stop belongs to the position and replaces the one it had.
TrailingStopBybit ==
    /\ At("trail")
    /\ LET r == desk.req
           o == [id |-> desk.n, symbol |-> r.symbol, side |-> r.side, idx |-> r.side, stops |-> {"trail"}]
       IN Post(r.side \in Held(r.symbol),
               /\ legs' = (legs \ Replaced(o)) \cup Attached(o)
               /\ UNCHANGED <<mode, pos, book, placed>>,
               Answer("trailing"), Fail)

\* The server starts only when the exchange has taken the change of mode.
SwitchToHedgeMode ==
    /\ At("start")
    /\ \/ /\ mode' = "hedge"
          /\ desk' = Idle
       \/ /\ mode' = mode
          /\ desk' = [Idle EXCEPT !.pc = "stopped"]
    /\ UNCHANGED <<pos, legs, book, placed, answer>>

BybitStep == \/ PlaceOrderBybit \/ ClosePositionBybit \/ ResolveTargetBybit \/ TrailingStopBybit
==============================================================================
