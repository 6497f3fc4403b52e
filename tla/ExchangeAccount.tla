--------------------------- MODULE ExchangeAccount ---------------------------
(***************************************************************************)
(* The futures account at the exchange, seen through the requests the      *)
(* adapters of src/server/src/binance/client.rs and bybit/client.rs send   *)
(* it.  Nothing here is code of the repository.                            *)
(*                                                                         *)
(* An order names the position it is for: "both" in one-way mode, where a  *)
(* symbol has one position and an order closes it before it opens the      *)
(* other side, or a side in hedge mode, where the two sides of a symbol    *)
(* are positions of their own.                                             *)
(***************************************************************************)
EXTENDS Integers, FiniteSets

CONSTANTS Symbols,   \* tradable symbols
          Step,      \* lot size of every symbol
          MaxQty     \* largest position the margin allows

ASSUME AccountAssumption == Step \in Nat \ {0} /\ MaxQty \in Nat

VARIABLES mode,   \* position mode of the account
          pos,    \* size of each side of each symbol
          legs,   \* conditional orders waiting for their trigger
          book    \* limit orders waiting to be filled

account == <<mode, pos, legs, book>>

Sides == {"Buy", "Sell"}
Opposite(side) == IF side = "Buy" THEN "Sell" ELSE "Buy"
Flat == [s \in Symbols |-> [d \in Sides |-> 0]]
Smaller(a, b) == IF a < b THEN a ELSE b

\* The part of an order that closes the opposite side, and the part that opens its own.
Closes(o) == IF o.idx = o.side THEN 0
             ELSE Smaller(o.qty, pos[o.symbol][Opposite(o.side)])
Opens(o) == IF o.reduce \/ o.idx = Opposite(o.side) THEN 0 ELSE o.qty - Closes(o)

\* An order must fit the mode and the lot size, do something, and have its margin.
WellFormed(o) == /\ (mode = "oneway") <=> (o.idx = "both")
                 /\ o.qty > 0 /\ o.qty % Step = 0
Accepts(o) == /\ WellFormed(o)
              /\ Closes(o) + Opens(o) > 0
              /\ pos[o.symbol][o.side] + Opens(o) <= MaxQty

Traded(o) == [pos EXCEPT ![o.symbol][Opposite(o.side)] = @ - Closes(o),
                         ![o.symbol][o.side] = @ + Opens(o)]

\* Stops attached to an order become stops of its position, in place of those of their kind.
Attached(o) == {[id |-> o.id, kind |-> k, symbol |-> o.symbol, side |-> Opposite(o.side),
                 qty |-> MaxQty, idx |-> o.side, reduce |-> TRUE] : k \in o.stops}
Replaced(o) == {l \in legs : l.symbol = o.symbol /\ l.idx = o.side /\ l.kind \in o.stops}

\* A market order, with the stops of a position that is gone going with it.
Execute(o) ==
    /\ pos' = Traded(o)
    /\ legs' = {l \in (legs \ Replaced(o)) \cup Attached(o) :
                    l.idx = "both" \/ Traded(o)[l.symbol][l.idx] > 0}

PlaceLimit(o) == /\ book' = book \cup {o}
                 /\ UNCHANGED <<mode, pos, legs>>
PlaceMarket(o) == /\ Execute(o)
                  /\ UNCHANGED <<mode, book>>

Fill == \E o \in book :
            /\ Accepts(o)
            /\ Execute(o)
            /\ book' = book \ {o}
            /\ UNCHANGED mode

\* The price reaches a conditional order: it trades, or expires when it cannot.
TriggerLeg ==
    \E l \in legs :
        /\ IF Accepts(l)
           THEN /\ pos' = Traded(l)
                /\ legs' = {k \in legs \ {l} : k.idx = "both" \/ Traded(l)[k.symbol][k.idx] > 0}
           ELSE legs' = legs \ {l} /\ UNCHANGED pos
        /\ UNCHANGED <<mode, book>>

\* A trade by another session or another program of the account's owner.
OtherTrade ==
    \E s \in Symbols, d \in Sides, reduce \in BOOLEAN :
        LET o == [id |-> 0, symbol |-> s, side |-> d, qty |-> Step, reduce |-> reduce, stops |-> {},
                  idx |-> IF mode = "oneway" THEN "both" ELSE IF reduce THEN Opposite(d) ELSE d]
        IN Accepts(o) /\ PlaceMarket(o)

AccountTypeOK ==
    /\ mode \in {"oneway", "hedge"}
    /\ pos \in [Symbols -> [Sides -> 0..MaxQty]]
    /\ \A s \in Symbols : mode = "oneway" => \E d \in Sides : pos[s][d] = 0
    /\ \A o \in legs \cup book : o.symbol \in Symbols /\ o.side \in Sides /\ o.qty \in Nat
==============================================================================
