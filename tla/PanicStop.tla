------------------------------ MODULE PanicStop ------------------------------
(***************************************************************************)
(* The activity ("panic") stop of the trading server: a position is closed *)
(* at market once no trade has been seen on its symbol for a given time.   *)
(*                                                                         *)
(* One session (handle_connection) runs four tasks over one Mutex:         *)
(*   main   the select loop: client commands and the 100 ms timer;         *)
(*   ws     private exchange events (position updates);                    *)
(*   chart  public trades of the subscribed symbol;                        *)
(* and every session shares the database with all the others.  The tasks   *)
(* of a session meet at the Mutex and at every await, which is where an    *)
(* action ends and the next one begins.                                    *)
(*                                                                         *)
(* Time is counted in abstract units: a stop in memory and a row in the    *)
(* database both carry the time since their reference instant, saturated   *)
(* at the stop's own timeout, beyond which the code makes no difference.   *)
(***************************************************************************)
EXTENDS Naturals, Sequences, FiniteSets

CONSTANTS
  Conns,      \* client sessions that may be open at the same time
  Symbols,    \* traded symbols, numbered in the order of their names
  Timeouts,   \* timeouts a client may ask for
  Prices,     \* trade and trigger prices
  MaxQty,     \* bound: size of a position
  MaxArms,    \* bound: number of ActivityStop requests
  MaxQueue,   \* bound: length of the event channels (100 in the code)
  Venue,      \* "binance" (one-way positions) or "bybit" (hedge mode)
  FeedLossy,  \* may the private feed be down when an event is published?
  Crashes,    \* may the server process be killed?
  DbFails,    \* may a database transaction fail?
  OrderEvents, \* order updates on the private feed, see PendingAutostop
  Null        \* no stop, no row, no pending step

Sides == {"Buy", "Sell"}
Keys  == Symbols \X Sides            \* make_key: "SYMBOL:Side"
NoPrice  == 0
NoSymbol == 0
Ids == 1 .. MaxArms

\* A stop in memory (idle = time since last_trade_time) or a row of the
\* database (idle = time since start_timestamp).
Stops == [id: Ids, key: Keys, timeout: Timeouts,
          trigger: Prices \cup {NoPrice}, active: BOOLEAN, idle: Nat]
Reports == [key: Keys, qty: Nat]     \* a position update
Events  == Reports \cup OrderEvents

ASSUME ConstantsAssumption ==
  /\ Symbols  \subseteq Nat \ {NoSymbol}
  /\ Prices   \subseteq Nat \ {NoPrice}
  /\ Timeouts \subseteq Nat
  /\ MaxQty \in Nat /\ MaxArms \in Nat /\ MaxQueue \in Nat
  /\ Venue \in {"binance", "bybit"}
  /\ FeedLossy \in BOOLEAN /\ Crashes \in BOOLEAN /\ DbFails \in BOOLEAN

ASSUME NullAssumption ==
  /\ Null \notin Stops
  /\ Null \notin Reports
  /\ Null \notin [sub: Symbols \cup {NoSymbol}, price: Prices]

VARIABLES
  pos,     \* positions held at the exchange, per symbol and side
  db,      \* ACTIVITY_STOPS table of the server
  main,    \* where each session's select loop is
  stop,    \* activity_stop_state, the Mutex-protected stop of a session
  arm,     \* stop saved by the handler that still waits for the Mutex
  quote,   \* position fetched by an expired timer
  feed,    \* private events not yet handled by the ws task
  chart,   \* chart_symbol
  trades,  \* public trades not yet handled by the chart task
  seen,    \* trade taken by the chart task, with the chart symbol it read
  arms,    \* number of ActivityStop requests so far
  fate     \* history: what became of each request

vars == <<pos, db, main, stop, arm, quote, feed, chart, trades, seen, arms, fate>>
marketVars  == <<pos, feed>>
chartVars   == <<chart, trades, seen>>
historyVars == <<arms, fate>>

Init ==
  /\ pos    = [k \in Keys |-> 0]
  /\ db     = [k \in Keys |-> Null]
  /\ main   = [c \in Conns |-> "down"]
  /\ stop   = [c \in Conns |-> Null]
  /\ arm    = [c \in Conns |-> Null]
  /\ quote  = [c \in Conns |-> Null]
  /\ feed   = [c \in Conns |-> <<>>]
  /\ chart  = [c \in Conns |-> NoSymbol]
  /\ trades = [c \in Conns |-> <<>>]
  /\ seen   = [c \in Conns |-> Null]
  /\ arms   = 0
  /\ fate   = [i \in Ids |-> "unused"]

Up(c)     == main[c] # "down"
\* The timer keeps the guard from its expiry test to the end of its branch.
Locked(c) == main[c] \in {"fetch", "close", "ackOk", "ackErr"}
MutMutexFree(c) == main[c] # "fetch"
MutexFree(c) == ~Locked(c)

-----------------------------------------------------------------------------
(* Database: every call is one redb transaction; a failure is only logged. *)

DbOutcomes(d) == IF DbFails THEN {db, d} ELSE {d}
SaveActivityStop(s)   == db' \in DbOutcomes([db EXCEPT ![s.key] = s])
MutDeleteActivityStop(k) ==
  db' = [j \in Keys |-> IF j[1] = k[1] THEN Null ELSE db[j]]
DeleteActivityStop(k) == db' \in DbOutcomes([db EXCEPT ![k] = Null])

Stored == {k \in Keys : db[k] # Null}
KeyLeq(j, k) == \/ j[1] < k[1]
                \/ j[1] = k[1] /\ (j[2] = "Buy" \/ k[2] = "Sell")
\* load_all_activity_stops iterates in key order; the session takes .next().
FirstKeys == {k \in Stored : \A j \in Stored : KeyLeq(k, j)}

-----------------------------------------------------------------------------
(* Sessions *)

\* idle carries over: last_trade_time = now - min(elapsed, timeout).
\* A read that fails restores nothing.
Restored == {db[k] : k \in FirstKeys} \cup (IF Stored = {} \/ DbFails THEN {Null} ELSE {})

Connect(c) ==
  /\ ~Up(c)
  /\ main' = [main EXCEPT ![c] = "run"]
  /\ \E s \in Restored : stop' = [stop EXCEPT ![c] = s]
  /\ UNCHANGED <<pos, db, arm, quote, feed, chart, trades, seen, arms, fate>>

\* Everything but the database dies with the tasks of the sessions in C.
Drop(C) ==
  /\ main'   = [c \in Conns |-> IF c \in C THEN "down" ELSE main[c]]
  /\ stop'   = [c \in Conns |-> IF c \in C THEN Null ELSE stop[c]]
  /\ arm'    = [c \in Conns |-> IF c \in C THEN Null ELSE arm[c]]
  /\ quote'  = [c \in Conns |-> IF c \in C THEN Null ELSE quote[c]]
  /\ feed'   = [c \in Conns |-> IF c \in C THEN <<>> ELSE feed[c]]
  /\ chart'  = [c \in Conns |-> IF c \in C THEN NoSymbol ELSE chart[c]]
  /\ trades' = [c \in Conns |-> IF c \in C THEN <<>> ELSE trades[c]]
  /\ seen'   = [c \in Conns |-> IF c \in C THEN Null ELSE seen[c]]
  /\ UNCHANGED <<pos, db, historyVars>>

\* A close frame, a read error or the end of the stream: seen only by the
\* select loop, never inside a handler or the timer branch.
Disconnect(c) == main[c] = "run" /\ Drop({c})

Crash == Crashes /\ (\E c \in Conns : Up(c)) /\ Drop(Conns)

-----------------------------------------------------------------------------
(* Client commands, handled one at a time by the select loop *)

MutNewStop(i, k, t, p) ==
  [id |-> i, key |-> k, timeout |-> t, trigger |-> p, active |-> TRUE, idle |-> 0]
NewStop(i, k, t, p) ==
  [id |-> i, key |-> k, timeout |-> t, trigger |-> p,
   active |-> (p = NoPrice), idle |-> 0]

RowOf(row, i) == row # Null /\ row.id = i

\* A new stop is written to the database, over the row of the same key.
Register(s) ==
  /\ SaveActivityStop(s)
  /\ arms' = s.id
  /\ fate' = [i \in Ids |->
                CASE i = s.id -> "live"
                  [] i # s.id /\ RowOf(db[s.key], i) /\ ~RowOf(db'[s.key], i)
                       /\ fate[i] \in {"live", "shot"} -> "overwritten"
                  [] OTHER -> fate[i]]

\* The row is written before the Mutex is asked for.
ActivityStop(c, k, t, p) ==
  /\ main[c] = "run"
  /\ arms < MaxArms
  /\ LET s == NewStop(arms + 1, k, t, p)
     IN  Register(s) /\ arm' = [arm EXCEPT ![c] = s]
  /\ main' = [main EXCEPT ![c] = "arm"]
  /\ UNCHANGED <<stop, quote, marketVars, chartVars>>

\* Whatever stop was there is overwritten; its row is not touched.
InstallStop(c) ==
  /\ main[c] = "arm"
  /\ stop' = [stop EXCEPT ![c] = arm[c]]
  /\ arm'  = [arm EXCEPT ![c] = Null]
  /\ main' = [main EXCEPT ![c] = "run"]
  /\ UNCHANGED <<db, quote, marketVars, chartVars, historyVars>>

\* The stop of session c ends as f: its row is deleted, the Mutex emptied.
MutResolve(c, f) ==
  /\ stop' = [stop EXCEPT ![c] = Null]
  /\ fate' = [fate EXCEPT ![stop[c].id] = f]
  /\ UNCHANGED db
Resolve(c, f) ==
  /\ DeleteActivityStop(stop[c].key)
  /\ stop' = [stop EXCEPT ![c] = Null]
  /\ fate' = [fate EXCEPT ![stop[c].id] = f]

\* The symbol of the request is not compared with the stop's; without a
\* stop the command only answers.
CancelActivityStop(c) ==
  /\ main[c] = "run"
  /\ stop[c] # Null
  /\ Resolve(c, "cancelled")
  /\ UNCHANGED <<main, arm, quote, arms, marketVars, chartVars>>

\* Trades of the old symbol that are already queued stay queued.
SubscribeChart(c, s) ==
  /\ main[c] = "run"
  /\ chart' = [chart EXCEPT ![c] = s]
  /\ UNCHANGED <<db, main, stop, arm, quote, trades, seen, marketVars, historyVars>>

UnsubscribeChart(c) ==
  /\ main[c] = "run"
  /\ chart' = [chart EXCEPT ![c] = NoSymbol]
  /\ UNCHANGED <<db, main, stop, arm, quote, trades, seen, marketVars, historyVars>>

-----------------------------------------------------------------------------
(* The exchange *)

\* Binance reports the net position: zero is a Buy of size zero.
Report(p, s) ==
  IF p[<<s, "Sell">>] > 0
  THEN [key |-> <<s, "Sell">>, qty |-> p[<<s, "Sell">>]]
  ELSE [key |-> <<s, "Buy">>,  qty |-> p[<<s, "Buy">>]]

\* Sessions whose update reaches and passes the parser: Bybit's payload is
\* read by neither parser and is dropped.
Listeners == IF Venue = "bybit" THEN {} ELSE {c \in Conns : Up(c)}

\* An update names the symbol that changed and no other.
Publish(s) ==
  \E heard \in (IF FeedLossy THEN SUBSET Listeners ELSE {Listeners}) :
    /\ \A c \in heard : Len(feed[c]) < MaxQueue
    /\ feed' = [c \in Conns |->
                  IF c \in heard THEN Append(feed[c], Report(pos', s)) ELSE feed[c]]

\* A fill, a manual trade or a liquidation brings a position to size q; a
\* one-way account holds one side of a symbol only.
MovePosition(s, side, q) ==
  /\ pos[<<s, side>>] # q
  /\ pos' = [k \in Keys |-> CASE k = <<s, side>> -> q
                              [] k[1] = s /\ k[2] # side /\ Venue = "binance" -> 0
                              [] OTHER -> pos[k]]
  /\ Publish(s)
  /\ UNCHANGED <<db, main, stop, arm, quote, chartVars, historyVars>>

\* A trade on the subscribed symbol.
MarketTrade(c, p) ==
  /\ Up(c)
  /\ chart[c] # NoSymbol
  /\ Len(trades[c]) < MaxQueue
  /\ trades' = [trades EXCEPT ![c] = Append(@, p)]
  /\ UNCHANGED <<db, main, stop, arm, quote, chart, seen, marketVars, historyVars>>

-----------------------------------------------------------------------------
(* The ws task *)

\* A stop survives an update only if the update lists its own symbol and
\* side with a non-zero size.
WsPositionUpdate(c) ==
  /\ feed[c] # <<>>
  /\ Head(feed[c]) \in Reports
  /\ MutexFree(c)
  /\ feed' = [feed EXCEPT ![c] = Tail(@)]
  /\ LET r == Head(feed[c])
     IN  IF stop[c] # Null /\ (r.key # stop[c].key \/ r.qty = 0)
         THEN Resolve(c, "gone")
         ELSE UNCHANGED <<db, stop, fate>>
  /\ UNCHANGED <<pos, main, arm, quote, arms, chartVars>>

-----------------------------------------------------------------------------
(* The chart task *)

\* The trade carries no symbol: the current chart symbol is taken for it.
ChartTake(c) ==
  /\ trades[c] # <<>>
  /\ seen[c] = Null
  /\ seen'   = [seen EXCEPT ![c] = [sub |-> chart[c], price |-> Head(trades[c])]]
  /\ trades' = [trades EXCEPT ![c] = Tail(@)]
  /\ UNCHANGED <<db, main, stop, arm, quote, chart, marketVars, historyVars>>

Triggers(s, price) ==
  /\ s.trigger # NoPrice
  /\ IF s.key[2] = "Buy" THEN price >= s.trigger ELSE price <= s.trigger

\* Effect of a trade on the stop; the row in the database keeps both its
\* inactive flag and its start time.
Touched(s, t) ==
  IF s # Null /\ t.sub = s.key[1] /\ (s.active \/ Triggers(s, t.price))
  THEN [s EXCEPT !.active = TRUE, !.idle = 0]
  ELSE s

ChartApply(c) ==
  /\ seen[c] # Null
  /\ MutexFree(c)
  /\ stop' = [stop EXCEPT ![c] = Touched(@, seen[c])]
  /\ seen' = [seen EXCEPT ![c] = Null]
  /\ UNCHANGED <<db, main, arm, quote, chart, trades, marketVars, historyVars>>

-----------------------------------------------------------------------------
(* The timer branch of the select loop *)

MutExpired(s) == s # Null /\ s.idle >= s.timeout
Expired(s) == s # Null /\ s.active /\ s.idle >= s.timeout

TimerExpire(c) ==
  /\ main[c] = "run"
  /\ Expired(stop[c])
  /\ main' = [main EXCEPT ![c] = "fetch"]
  /\ UNCHANGED <<db, stop, arm, quote, marketVars, chartVars, historyVars>>

\* Positions of the stop's symbol the timer may pick: any side, the first
\* one the exchange lists.
Candidates(c) == {k \in Keys : k[1] = stop[c].key[1] /\ pos[k] > 0}

GetPositionsOk(c) ==
  /\ main[c] = "fetch"
  /\ \E k \in Candidates(c) :
       quote' = [quote EXCEPT ![c] = [key |-> k, qty |-> pos[k]]]
  /\ main' = [main EXCEPT ![c] = "close"]
  /\ UNCHANGED <<db, stop, arm, marketVars, chartVars, historyVars>>

\* Nothing to close, or the request failed: either way the stop ends here.
MutGetPositionsNone(c) ==
  /\ main[c] = "fetch"
  /\ \/ Candidates(c) = {} /\ UNCHANGED <<db, stop, fate>>
     \/ Resolve(c, "failed")
  /\ main' = [main EXCEPT ![c] = "run"]
  /\ UNCHANGED <<arm, quote, arms, marketVars, chartVars>>
GetPositionsNone(c) ==
  /\ main[c] = "fetch"
  /\ \/ Candidates(c) = {} /\ Resolve(c, "gone")
     \/ Resolve(c, "failed")
  /\ main' = [main EXCEPT ![c] = "run"]
  /\ UNCHANGED <<arm, quote, arms, marketVars, chartVars>>

\* What a reduce-only market order leaves of a position.
MutUncapped(p, r) == [p EXCEPT ![r.key] = @ - r.qty]
MutFlipping(p, r) ==
  [k \in Keys |-> LET excess == IF r.qty > p[r.key] THEN r.qty - p[r.key] ELSE 0
                 IN  CASE k = r.key -> IF p[k] > r.qty THEN p[k] - r.qty ELSE 0
                       [] k # r.key /\ k[1] = r.key[1] -> p[k] + excess
                       [] OTHER -> p[k]]
ReduceOnly(p, r) ==
  [p EXCEPT ![r.key] = IF @ > r.qty THEN @ - r.qty ELSE 0]

\* place_order: executed, or refused because that side is flat, or lost on
\* the way.  An order whose answer is lost may have been executed.
Execute(c, answer) ==
  /\ main[c] = "close"
  /\ pos[quote[c].key] > 0
  /\ pos' = ReduceOnly(pos, quote[c])
  /\ Publish(quote[c].key[1])
  /\ fate' = [fate EXCEPT ![stop[c].id] = "shot"]
  /\ main' = [main EXCEPT ![c] = answer]
  /\ UNCHANGED <<db, stop, arm, quote, arms, chartVars>>

PlaceOrderOk(c)   == Execute(c, "ackOk")
PlaceOrderLost(c) == Execute(c, "ackErr")

PlaceOrderRefused(c) ==
  /\ main[c] = "close"
  /\ main' = [main EXCEPT ![c] = "ackErr"]
  /\ UNCHANGED <<db, stop, arm, quote, marketVars, chartVars, historyVars>>

\* The answer is back: the stop ends, whatever the answer was.
MutCloseAnswered(c) ==
  /\ main[c] \in {"ackOk", "ackErr"}
  /\ IF main[c] = "ackOk" THEN Resolve(c, "closed") ELSE UNCHANGED <<db, stop, fate>>
  /\ quote' = [quote EXCEPT ![c] = Null]
  /\ main'  = [main EXCEPT ![c] = "run"]
  /\ UNCHANGED <<arm, arms, marketVars, chartVars>>
CloseAnswered(c) ==
  /\ main[c] \in {"ackOk", "ackErr"}
  /\ Resolve(c, IF main[c] = "ackOk" THEN "closed" ELSE "failed")
  /\ quote' = [quote EXCEPT ![c] = Null]
  /\ main'  = [main EXCEPT ![c] = "run"]
  /\ UNCHANGED <<arm, arms, marketVars, chartVars>>

-----------------------------------------------------------------------------
(* Time *)

Aged(s) == IF s # Null /\ s.idle < s.timeout THEN [s EXCEPT !.idle = @ + 1] ELSE s

Tick ==
  /\ db'   = [k \in Keys  |-> Aged(db[k])]
  /\ stop' = [c \in Conns |-> Aged(stop[c])]
  /\ arm'  = [c \in Conns |-> Aged(arm[c])]
  /\ UNCHANGED <<main, quote, marketVars, chartVars, historyVars>>

-----------------------------------------------------------------------------
Command(c) ==
  \/ \E k \in Keys, t \in Timeouts, p \in Prices \cup {NoPrice} : ActivityStop(c, k, t, p)
  \/ InstallStop(c)
  \/ CancelActivityStop(c)
  \/ \E s \in Symbols : SubscribeChart(c, s)
  \/ UnsubscribeChart(c)

Timer(c) ==
  \/ TimerExpire(c)
  \/ GetPositionsOk(c)
  \/ GetPositionsNone(c)
  \/ PlaceOrderOk(c)
  \/ PlaceOrderLost(c)
  \/ PlaceOrderRefused(c)
  \/ CloseAnswered(c)

Session(c) ==
  \/ Connect(c)
  \/ Disconnect(c)
  \/ Command(c)
  \/ WsPositionUpdate(c)
  \/ ChartTake(c)
  \/ ChartApply(c)
  \/ Timer(c)

Market ==
  \/ \E s \in Symbols, side \in Sides, q \in 0 .. MaxQty : MovePosition(s, side, q)
  \/ \E c \in Conns, p \in Prices : MarketTrade(c, p)

Next ==
  \/ \E c \in Conns : Session(c)
  \/ Market
  \/ Crash
  \/ Tick

Spec == Init /\ [][Next]_vars

\* The tokio timer keeps ticking and a spawned task that can run does run;
\* clients, the market and the two feeds owe nothing.
Fairness ==
  /\ WF_vars(Tick)
  /\ \A c \in Conns : WF_vars(InstallStop(c)) /\ WF_vars(Timer(c))

FairSpec == Spec /\ Fairness

-----------------------------------------------------------------------------
(* Properties *)

Places == {"down", "run", "arm", "fetch", "close", "ackOk", "ackErr"}
Fates  == {"unused", "live", "overwritten", "shot",
           "closed", "failed", "gone", "cancelled"}

\* Type invariant of the whole state.
TypeOK ==
  /\ pos    \in [Keys -> Nat]
  /\ db     \in [Keys -> Stops \cup {Null}]
  /\ main   \in [Conns -> Places]
  /\ stop   \in [Conns -> Stops \cup {Null}]
  /\ arm    \in [Conns -> Stops \cup {Null}]
  /\ quote  \in [Conns -> Reports \cup {Null}]
  /\ feed   \in [Conns -> Seq(Events)]
  /\ chart  \in [Conns -> Symbols \cup {NoSymbol}]
  /\ trades \in [Conns -> Seq(Prices)]
  /\ seen   \in [Conns -> [sub: Symbols \cup {NoSymbol}, price: Prices] \cup {Null}]
  /\ arms   \in 0 .. MaxArms
  /\ fate   \in [Ids -> Fates]

\* From the expiry test to the answer of the close order (three awaits with
\* the guard held, server.rs 622-735) the stop being fired is still the
\* session's stop, still active and still expired: no trade, position update
\* or command slips in between, and the order is for the stop's symbol.
FiringIsHeld ==
  \A c \in Conns : Locked(c) =>
    /\ Expired(stop[c])
    /\ main[c] # "fetch" =>
         quote[c] # Null /\ quote[c].key[1] = stop[c].key[1] /\ quote[c].qty > 0

Resolved == {"closed", "failed", "gone", "cancelled"}
InMemory(i) == \E c \in Conns : RowOf(stop[c], i) \/ RowOf(arm[c], i)
OnDisk(i)   == \E k \in Keys : RowOf(db[k], i)

\* A stop that was fired, cancelled or dropped is gone for good: neither a
\* session nor the database holds it, so that no reconnect brings it back.
ResolvedIsFinal ==
  \A i \in Ids : fate[i] \in Resolved => ~InMemory(i) /\ ~OnDisk(i)

\* One request closes a position at most once: a stop about to place its
\* close order has never had one executed.
FiresAtMostOnce ==
  \A c \in Conns : main[c] \in {"fetch", "close"} => fate[stop[c].id] = "live"

\* A stop not yet resolved or replaced under its key has its row in the
\* database at all times, so a restart of the server finds it.
LiveIsDurable ==
  \A i \in Ids : fate[i] \in {"live", "shot"} => OnDisk(i)

\* A trigger that has fired is known to the running session only: the row
\* of a stop with a trigger still says inactive (server.rs 509-511 does not
\* save), so after a reconnect the stop waits for its trigger again.
TriggerNotPersisted ==
  \A k \in Keys : db[k] # Null => (db[k].active <=> db[k].trigger = NoPrice)

\* The close order of a stop never opens, flips or enlarges a position and
\* touches no symbol but its own, although the position it was sized from
\* may have changed since it was fetched.
CloseOnlyReduces ==
  [][\A c \in Conns : main[c] = "close" /\ main'[c] # "close" =>
       \A k \in Keys : /\ pos'[k] <= pos[k]
                       /\ k[1] # stop[c].key[1] => pos'[k] = pos[k]]_vars

\* In a running session a counting stop is not left alone: its timer runs
\* on until a trade restarts it or the stop ends.
Counting(c) == stop[c] # Null /\ stop[c].active
CountingResolves ==
  \A c \in Conns :
    (Counting(c) /\ stop[c].idle > 0) ~> (~Counting(c) \/ stop[c].idle = 0)

\* The log of server.rs 438: "Panic stop canceled: position closed or zeroed".
\* An update about one symbol does not cancel the stop of an open position
\* in another one.
CancelledByOwnSymbol ==
  [][\A c \in Conns :
       (/\ feed[c] # <<>> /\ feed'[c] = Tail(feed[c]) /\ Up(c)'
        /\ stop[c] # Null /\ stop'[c] = Null
        /\ pos[stop[c].key] > 0)
         => Head(feed[c]).key[1] = stop[c].key[1]]_vars

=============================================================================
