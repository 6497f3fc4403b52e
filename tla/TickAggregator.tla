---------------------------- MODULE TickAggregator ---------------------------
(***************************************************************************)
(* Candles of a few seconds, built in the terminal from single trades      *)
(* (src/client/src/tick_aggregator.rs).  An aggregator holds the candle    *)
(* that is being built and the completed ones by their start.              *)
(***************************************************************************)
EXTENDS Integers, FiniteSetsExt, SequencesExt

CONSTANTS MaxCandles,  \* completed candles that are kept (500 in the code)
          Null

Candle == [start : Nat, open : Int, high : Int, low : Int, close : Int, volume : Int]

Empty == [builder |-> Null, done |-> {}]

\* Start of the interval of so many seconds a time in milliseconds lies in.
IntervalStart(secs, ms) == (((ms \div 1000) \div secs) * secs) * 1000

NewCandle(start, t) ==
    [start |-> start, open |-> t.price, high |-> t.price, low |-> t.price,
     close |-> t.price, volume |-> t.qty]

Higher(a, b) == IF a < b THEN b ELSE a
Lower(a, b) == IF b < a THEN b ELSE a
Updated(c, t) ==
    [c EXCEPT !.high = Higher(@, t.price), !.low = Lower(@, t.price),
              !.close = t.price, !.volume = @ + t.qty]

\* A candle of the same start is replaced; past the limit the oldest one goes.
Inserted(done, c) == {d \in done : d.start # c.start} \cup {c}
Oldest(done) == CHOOSE c \in done : \A d \in done : c.start <= d.start
MutKept(done) == done
Kept(done) == IF Cardinality(done) > MaxCandles THEN done \ {Oldest(done)} ELSE done

AddTrade(agg, secs, t) ==
    LET start == IntervalStart(secs, t.time)
        c == agg.builder
    IN IF c # Null /\ c.start = start
       THEN [agg EXCEPT !.builder = Updated(c, t)]
       ELSE [builder |-> NewCandle(start, t),
             done |-> IF c = Null THEN agg.done ELSE Kept(Inserted(agg.done, c))]

\* The completed candles by their start, then the one being built.
Earlier(done, c) == {d \in done : d.start < c.start}
Candles(agg) ==
    [i \in 1..Cardinality(agg.done) |->
        CHOOSE c \in agg.done : Cardinality(Earlier(agg.done, c)) = i - 1]
        \o (IF agg.builder = Null THEN <<>> ELSE <<agg.builder>>)
==============================================================================
