# TradeTerminal in TLA+

TradeTerminal is a terminal client and a server, both in Rust, for trading
futures on Bybit or Binance. The server keeps what must outlive a keystroke:
stops that close a position when its market falls silent, and stops that wait
for a limit order to fill. This directory holds TLA+ specifications of that
code, TLC configurations that check them on small instances, and theorems
checked by TLAPS. Paths below are relative to `src/`.

## 1. The system

```
  keys --> UI loop <--two queues--> connection task <--WebSocket--> session
  (app.rs, tick_aggregator.rs,      (connection.rs)                 (server.rs)
   risk.rs)                                                          |  |   |
       chart feed, account feed --converter--> tasks of the session -+  |   database (db.rs)
       (binance/ws.rs, bybit/ws.rs, exchange.rs)                        |
                       handler and caches (client_handler.rs) --> adapters --> exchange
                                                     (exchange.rs, {binance,bybit}/client.rs)
```

| Component | State | Operations | Interacts through |
|---|---|---|---|
| Session (`server/src/server.rs`, `handle_connection`) | one Mutex with the activity stop, the chart symbol, the handle of the chart subscription; the tasks `ws`, `chart`, `write` and the select loop | authentication, restore, command, chart subscription, timer, position update, order update, trade, close | Mutex, event channels (100), outbound channel (100), database |
| Database (`server/src/db.rs`) | tables ACTIVITY_STOPS (key `SYMBOL:Side`) and PENDING_AUTOSTOPS (key: order id) | save, load, delete, load all; each one transaction | shared by all sessions |
| Request handler (`server/src/client_handler.rs`) | caches of positions, orders and one ticker with a lifetime | one handler for each client request | called by the select loop, calls exchange and database |
| Exchange adapters (`server/src/{binance,bybit}/client.rs`, `exchange.rs`) | symbol information, position mode | chains of REST calls | called by handler, timer, ws task |
| Exchange streams (`server/src/{binance,bybit}/ws.rs`) | connection, delay, listen key | account feed, chart feed | event channels of the session |
| Client application (`client/src/app.rs`) | positions, candles, last price, one pending action, one pending risk order, mirror of the activity stop | commands, message handling | queues of the connection |
| Client connection (`client/src/connection.rs`) | two queues of 100, delay | connect, send, receive, reconnect | WebSocket to the server |
| Tick aggregator, risk size | candles; none | pure steps | called by the application |
| TLS, configuration, UI, audio | little or none | start-up, rendering | |

Where it is hard:

* Four tasks of a session share one Mutex. The timer branch holds it over three
  awaits (status message, position query, close order); the ws task and the
  command handler write the database before they ask for it.
* Nothing in memory survives a connection; the database does, and the next
  session takes the first row it finds. Several clients may be connected, each
  with its own Mutex over the same rows. The process may die anywhere.
* An order is a chain of REST calls whose answers may be lost, on an account
  that others trade on and whose limit orders and stops execute meanwhile.
* Feeds reconnect for ever, are aborted wherever they wait, and hand their
  events through two bounded channels; every channel's sender waits.
* The terminal finishes a command on a later message, which may be the answer of
  another one; it keeps single slots for what it awaits.

`PROJECT.json` lists the hazards, each at its line, with the properties that
cover it or the reason why none does.

## 2. Modules

```
StopLifecycle <--INSTANCE-- PanicStopRefinement --> PanicStop <-- PendingAutostop
                              (MCPanicStop)                      (MCPendingAutostop)
                                     |                                   |
                              PanicStopProofs <----------------- PendingAutostopProofs

ExchangeAccount <-- OrderDesk <-- BinanceOrders, BybitOrders <-- ExchangeOrders
                                          (MCExchangeOrders, ExchangeOrdersProofs)

HandlerCache  (MCHandlerCache, HandlerCacheProofs)
ClientLink    (MCClientLink, ClientLinkProofs)
ExchangeFeeds (MCExchangeFeeds, ExchangeFeedsProofs)
ClientApp     (MCClientApp, ClientAppProofs)
TickAggregator, RiskSize <-- ChartData  (MCChartData, ChartDataProofs)
```

`A <-- B` reads "B extends A". An action whose name starts with `Mut` is a
plausible wrong version of the one it precedes; no specification uses it, and
`PROJECT.json` says which property notices it.

### PanicStop

The activity ("panic") stop, several sessions over one database.

| Variable | Code |
|---|---|
| `stop[c]` | `activity_stop_state` of session c, behind the Mutex |
| `db` | table ACTIVITY_STOPS; `db[k].idle` is the time since `start_timestamp` |
| `main[c]` | where the select loop is: `down`, `run` (at the select), `arm` (in the handler, waiting for the Mutex), `fetch`, `close`, `ackOk`, `ackErr` (the awaits of the timer branch) |
| `arm[c]` | the stop the handler has saved and not yet installed |
| `quote[c]` | the position the timer fetched |
| `feed[c]`, `trades[c]` | the event channels of the ws and the chart task |
| `chart[c]`, `seen[c]` | `chart_symbol`, and the trade the chart task holds while it waits for the Mutex |
| `pos` | positions at the exchange |
| `arms`, `fate` | history: the number of requests and what became of each |

Each action ends at an await of the code and the next one begins there:
`ActivityStop` (row written) and `InstallStop` (Mutex obtained) are two actions
because the handler awaits the Mutex in between; `TimerExpire`,
`GetPositionsOk`/`GetPositionsNone`, `PlaceOrderOk`/`PlaceOrderLost`/
`PlaceOrderRefused` and `CloseAnswered` are the awaits of the timer branch. The
select loop runs one of them at a time, so a `Disconnect` is seen at `run` only,
while a `Crash` strikes anywhere. `Locked(c)` is the time the timer holds the
guard: the ws and the chart task wait.

Abstractions. Time: a stop and a row carry the time since their reference
instant in units, saturated at the stop's timeout, beyond which no comparison
changes. Prices: two are enough to be on either side of a trigger. Messages to
the client are left out and taken to be accepted (`ClientLink` has the wait for
room, with the Mutex held). The exchange is external: a position moves at
will, a market order with reduce-only takes at most what is there, an answer may
be lost after execution, the private feed may lose an event (`FeedLossy`). A
Binance account update lists the symbol that changed; Bybit's payload is read by
neither of the session's parsers and is dropped, as in the code. A database
transaction may fail (`DbFails`), which the code only logs.

### StopLifecycle and PanicStopRefinement

`StopLifecycle` says what the activity stop promises to one client, request by
request: `arming`, `waiting` for a trigger, `counting`, `firing`, then
`resolved`; a request that is not the session's is `stored` (it may be restored)
or `lost`. Ended and lost requests are final, a request fires only after it has
counted, one at a time is in force. `PhaseOf(i)` reads the phase of a request
off the Mutex, the handler and the table, and `ImplementsLifecycle` is
`StopLifecycle!Spec` under that mapping. That a replaced stop is `stored`, not
gone, and may come back is what the code does (`server.rs:181`) and shows in
`Install` and `Restore`.

### PendingAutostop

Extends PanicStop with the table PENDING_AUTOSTOPS, the limit orders at the
exchange, the order updates of the ws task and the sweeps it spawns. `job[c]` is
the order update the ws task is in the middle of: the copy of the plan it read,
the stop it wrote (`install`), the trailing stop it asked for (`trail`), the
deletion and the message (`finish`). The events behind it wait. A position
update of size zero first spawns a sweep (`SpawnSweep`) and then asks for the
Mutex (`PositionUpdate`); sweeps belong to no session and outlive it. The
activity plan goes through the same `NewStop` and `Register` as the client's own
request. An update of a plan is two steps, as it is two
transactions: `LoadForUpdate` finds the plan and leaves the new one in `edit[c]`,
`SaveUpdate` writes it without looking again, and the ws task may have carried the
plan out or dropped it in between. `created` and `told` count the plans put into
the table (by a create, or by an update that saved after the plan was gone) and
the messages `PendingAutostopActivated` sent for each order.

### ExchangeAccount, OrderDesk, BinanceOrders, BybitOrders, ExchangeOrders

A request of a session carried out by an adapter, one REST call per action.
`ExchangeAccount` is the account at the exchange and is external: position mode,
positions of each side, limit orders (`book`) and conditional orders (`legs`),
known from the fields the adapters send (`positionIdx`, `reduceOnly`, lot size)
and the fields they read. `OrderDesk` is the request that is being worked on:
`desk.pc` names the call to make next, `answer` what each request was answered
with, `placed` the requests whose order the exchange has taken. `Post` is a call
that changes the account: done and answered, done with the answer lost, or not
done. Between two calls the account moves (`Fill`, `TriggerLeg`, `OtherTrade`).

| `desk.pc` | Call |
|---|---|
| `start` | `ensure_position_mode`: one-way mode for Binance, hedge mode for Bybit |
| `order` | the order of `place_order`; also the last call of `close_position` |
| `sl`, `tp` | Binance's `place_algo_stop`, once for each leg |
| `close` | the positions `close_position` looks up |
| `target`, `size`, `trail` | the three calls of `set_trailing_stop` (Binance), two of them (Bybit) |
| `cancel` | `cancel_order` (under the one symbol the handler knows), `cancel_all_orders` |

Prices are left out except where they decide a guard, and so are signatures and
the parsing of answers; quantities are lots, with `Step` the lot size Binance's
adapter cuts to. A request of Binance's adapter that needs the symbol's
information is taken to have it.

### HandlerCache

The three caches of `ClientHandler`. What the exchange holds is a version that
every change raises; an entry is the version its query saw, its symbol and the
time it was stored at, and is used while `now - fetched < TTL`, as `elapsed()` is
in the code. A request has two ends: `AtExchange` is when it takes effect or is
read, `QueryAnswered`, `ChangeAnswered` and the two failures are when the handler
goes on. `past` and `told` are history: the versions of the last `Window` ticks,
and the version of the last confirmed change of each kind. A failed query of the
account is stored and sent as an empty list (`AccountFails`). Such an entry says
that nothing was read (`read = FALSE`): it shows no change, and the properties
claim of it only when it was made and how long it is used.

### ClientLink

From the UI loop to a session and back: the queues `up` and `down` of
`Connection`, both loops of the connection task (`conn.pc`), the wire (`net[l]`,
one record for each connection), and at the server authentication, session loop,
outbound channel and write task (`srv[l]`). A link may break or fall silent; a
silent one fails no read, and shows only in a write. The timer of the activity
stop is the branch `fire` of the session loop, which awaits room in `out` before
the position is closed; a session that ends drops a stop that is due unfired
(`EndSession` leaves `due` as it is). `setup` chooses the credentials and how much of the
clock takes part, so that each behaviour stays small.

### ExchangeFeeds

The account feed (`feeds[1]`) and the chart feeds in the order of their
subscriptions: `task` is where `connect_private` or `connect_chart` is, `buffer`
is the channel to the converter of the exchange wrapper together with the event
the converter holds, `inbox` the channels to the session's tasks. `helpers` are
the keepalive of the listen key and the ping tasks, which nobody aborts. Events
of the account are numbered; a trade has the symbol of its feed, which the
session cannot see. `heard`, `strays` and `aborts` are history.

### ClientApp

The application loop against the request loop of its session: what a typed
command leaves for a later message to finish. Two slots of one: `pendingAction`
(the chain behind a pipe) and `pendingRisk` (a risk order that waits for a ticker).
`toServer` and `toClient` are the ordered queues between the two; `reply` is the
answer of a request that the handler has carried out and not yet sent, so that
the messages of the ws task (`PositionMoves`) may overtake it. The other
variables are the fields of `App` and of the handler they are named after;
`cmds`, `ran` and `placed` are history: each command has a number, and the
orders, plans and stops it leads to carry it.

A message is its kind and its symbol; a price is known by the symbol it is the
price of. `positions` messages from the handler list everything (and may come
from the cache), those of Binance's private stream list the changed symbol only,
with size zero if it closed, and Bybit's do not arrive. The activity stop is
reduced to what the application sees of it (`stopOn`: the symbol it is on, or
none): PanicStop has the rest. The session may begin with one from the database
(`RestoreStop`), of which the client is not told until it counts; `restored` is
history and says that the stop is such a one. An action of a chain is any of the
commands that change what is modelled (`Kinds`: the two stops, a market, limit or
risk order, a close, a change of the symbol; `RunAction`), on the symbol selected
when its turn comes; a trailing stop without a price and a close without a
position are taken up and send nothing. The link neither loses messages nor reconnects here.
`Requests` and `Messages` are the variants of `ClientMessage` and `ServerMessage`
(`shared/src/messages.rs`) that matter here, with the fields that do.

### TickAggregator, RiskSize, ChartData

Two pure modules and the part of the application that uses them.
`TickAggregator` builds candles of a few seconds from single trades, `RiskSize`
the quantity, the stop and the take profit of a risk order, with fees, in whole
numbers (`Unit`). A stop is written as a price or a percentage, a take profit as a
price, a percentage or a ratio, or left out; a stop in percent of an order without
a price is computed when the ticker comes. A ratio of zero passes the parser and
is divided by once the order is accepted (`ZeroRatio`): the terminal panics, and
nothing happens any more (`running`). `ChartData` has the chart: lists and updates of candles that carry
neither symbol nor timeframe, trades, the change of symbol and timeframe, the
last price, and the risk order that waits for a ticker. `seen` is history: the trades
since the aggregator was empty, each with the quantity of all up to it. Prices are whole numbers
of a unit fine enough for the percentages and ratios asked for to give whole numbers
(`RiskAssumption`): the code computes them as decimals of 28 digits and does not
round them, unlike quantities.

## 3. Runs

Ten runs pass:

| Run | Instance | Question |
|---|---|---|
| `stop_session` | 1 session, 2 symbols, 2 requests, Binance, lossy feed | does a stop that ended stay ended (`ResolvedIsFinal`), close at most once (`FiresAtMostOnce`) and never hang (`CountingResolves`)? |
| `stop_restart` | 1 session, Bybit, 2 prices, crashes | is a live stop on record (`LiveIsDurable`), what of its trigger (`TriggerNotPersisted`: nothing), does the code implement `StopLifecycle` (`ImplementsLifecycle`)? |
| `stop_shared` | 2 sessions, crashes, failing transactions, size 2, queues of 2 | does the guard hold the fired stop (`FiringIsHeld`), does a close order only reduce (`CloseOnlyReduces`), types (`TypeOK`) |
| `pending_once` | 1 session, 1 order, 2 fills, crashes | is a plan reported once (`ToldOncePerPlan`), does an update that is heard settle the plan (`HeardUpdateSettles`), types and aborted tasks (`PTypeOK`) |
| `exchange_orders` | both exchanges, 1 symbol, quantities of one lot and of one and a half, 2 requests | is what is told as placed placed (`ToldMeansPlaced`), does no leg wait without its order (`LegsAfterEntry`), does a close take from its side only (`CloseTakesItsSide`), is every request answered (`EveryRequestAnswered`), is the account well formed (`TypeOK`)? |
| `handler_cache` | 2 symbols, lifetime 2, latency 1, 2 changes, 4 ticks | does a client see its own confirmed changes (`ReadsOwnChanges`) and nothing older than an entry may be (`ServedWithinLifetime`)? |
| `client_link` | queues and buffers of 1; 1 link with 1 command and every key, or 2 links with 2 | are commands carried out once and in order (`CommandsOnceInOrder`), none lost on a link that holds (`NothingLostUnbroken`), is an ended link silent (`EndedLinkIsSilent`) and its loss noticed (`LossIsNoticed`), does an expired stop fire unless its session ends or everybody waits (`StopFires`)? |
| `exchange_feeds` | channels of 1; a busy account with 4 attempts, or 2 chart subscriptions of 2 symbols | are account events heard once and in order (`AccountInOrder`), does one chart feed run (`OneChartFeed`), how many trades go astray (`StraysBounded`), does a feed retry (`FeedRetries`)? |
| `client` | 2 symbols; 2 commands, requests succeed, on Bybit with a chain of 2, on Binance without; or 1 command with another chain of 2 or 3, Binance, requests may be refused; a stop may be restored | do chained actions go out in order and once (`ChainInStep`), orders once (`OrderOnce`), is a waiting order's ticker on its way (`RiskOrderAwaited`), does the terminal show the stop there is (`StopShownAgrees`)? |
| `chart` | timeframes of 1 and 5 s, 1 candle kept, 4 trades of 4 instants in any order, 7 risk orders | do candles sum up their trades (`CandlesSound`), does the chart show them (`TradesShown`), are risk, stop and take profit of an order what was asked for (`RiskKept`)? |

Two show where the code does not do what its texts say:

| Run | What TLC shows |
|---|---|
| `stop_other_symbol` | `CancelledByOwnSymbol` is violated: an update about one symbol cancels the stop of another one whose position is open (`server.rs:426`), though the log says the position was closed |
| `risk_quantity` | `QuantityByFormula` is violated: the example of the README, 0.00905 BTC, is sent with quantity zero: quantities are rounded to whole units (`app.rs:1143`) |

The models contain more behaviours worth knowing, which have no run of their own:

* a stop on record is not acted on while no client is connected; in hedge mode a
  stop may close the other side of its symbol (`server.rs:648`); a trade of the
  former chart symbol may restart the stop of the new one (at most as many as the
  channels hold, `StraysBounded`);
* an update of a plan loads it in one transaction and saves the new one in another
  (`client_handler.rs:194`, `:205`): if the order ends in between, the ws task
  deletes the plan and the update puts one back for an order that is gone;
* a plan written after its order filled stays on record (`client_handler.rs:168`),
  and a trailing stop the exchange refused is reported active;
* a chain survives the refusal of its order and runs on another position; a
  risk order may be placed on a symbol selected while it waited (`app.rs:1169`);
* an order is reported placed although its legs were refused, or failed although
  it was placed; a second trailing stop on Binance is added to the first;
* a stop restored from the database is not shown by the terminal, and not
  cancelled by it when its position goes, until it begins to count; one that waits
  for its trigger may never do so;
* the README's `:buyrisk 10 94000 - 2  # ... TP 2%` sends a take profit at the price
  2, since a number without a percent sign is a price (`app.rs:1155`);
* a risk order of ratio `0/3` ends the terminal (`app.rs:1158`); the same division
  stands at `app.rs:1306` and `:1392`, and in the server at `binance/client.rs:531`
  and `:565` and `bybit/client.rs:442`;
* with the link down the terminal hangs in a send once its queue is full, since
  the connection task takes no command while it has no connection (`app.rs:1456`);
* the account feed of a session goes on after the session has ended.

Conditions of the properties. `ResolvedIsFinal` and `FiresAtMostOnce` are stated
for one session at a time without failing transactions: two sessions restore the
same row and each fires it, and a failed deletion brings a stop back. A crash
between the execution of the close order and the deletion of the row makes a
restored stop fire again, so `FiresAtMostOnce` needs the process to live as well.
`LiveIsDurable` is checked on Bybit, where no position update gets through: on
Binance one may delete the row of a stop that is saved and not yet installed.
`StopShownAgrees` speaks of Bybit with requests that succeed, and excepts a stop
found in the database until it counts: with position
updates one may end a stop between its installation and its answer, and a
close order that is refused is told as an error only (`server.rs:696`); in both
cases the application goes on showing the stop. `StopFires` and `LossIsNoticed`
except the mutual waits they name (`Jammed`, `UiWaits`), which the code allows, and
`StopFires` the end of the session, with which a due stop goes unfired; its row is
left to the next session.
In ClientLink the first write on a silent link fails; a real one may take some
more before it does.
`RiskKept` does not say on which side of the entry a take profit lies that was given
as a price. `ToldOncePerPlan` counts a plan that an update puts back as one more.
`TradesShown` is about trades in the order of their times, `CandlesSound` about
any order.

Bounds. Requests (`MaxArms`): two let a stop replace another, under its own key
and under another one; the properties speak of one request or of two. Symbols:
two where the symbol of an update matters, else one with its two sides, which are
two keys. Queues: one or two events, enough for an event that was
published before a change and is handled after it, and for a queue that is full.
Sizes: one, or two where an order may be larger than what is left. One timeout of
one unit: a stop is fresh or expired. Plans: one order with a partial and a full
fill. In ClientApp a command is typed when the session has handled all earlier
requests (answers may be on their way), the refresh of each second is sent when
nothing is on its way, a trade is forwarded when it changes the last price, and
the session pushes one message ahead of the application; two commands let a
slot be filled while its former content is awaited, and a symbol change come in
between; the chains have every kind of action among them, and one of three lets a
chain change the symbol under its own next action. Two requests at the exchange let a close or a trailing stop meet the
legs of an order. In HandlerCache a lifetime of two ticks and a latency of one
let an entry be read fresh, aged and expired, and a request span a tick. In
ClientLink two connections let a command be entered on one and sent on the next;
delays of 2 to 5 (2 to 7 for feeds) reach the cap by a step that is not a doubling.
One completed candle is kept, so that the third interval drops one. Sessions and
symbols that are exchangeable are declared symmetric in the safety runs
`stop_shared`, `handler_cache` and `client`; no liveness run uses symmetry.
Deadlock is not checked in `client_link`, `exchange_feeds` and `exchange_orders`:
there the numbers of links, events and requests are bounded, and a server that
could not set the position mode has stopped; and in `chart`, where a ratio of zero
ends the terminal.

## 4. Fairness

* `PanicStop!FairSpec`: time passes (the tokio interval ticks), and for each
  session the handler that waits for the Mutex gets it and the timer branch goes
  on to its end. The runtime schedules every task that is ready, the Mutex of
  tokio is fair, and the requests of the timer end in an answer or an error.
  Clients, the market, the feed and reconnection owe nothing.
* `PendingAutostop!PFairSpec`: the ws task of an open session handles its next
  event, an update that was begun is saved, and the timer does not keep the Mutex
  for ever. A session may close at
  any time, which is why `HeardUpdateSettles` ends with "or the session is closed".
* `ExchangeOrders!FairSpec`: the exchange answers each call with a result or an
  error. The code has no timeout of its own (`binance/client.rs:98`); a call that
  is never answered is outside this assumption.
* `ClientLink!FairSpec`: each loop goes on unless it waits; the refresh of each
  second comes (`client/src/main.rs`). The timer's branch is strongly fair,
  because `select!` polls its branches in random order. No connection is assumed
  to succeed, to fail or to end, and no command to be entered.
* `ExchangeFeeds!FairSpec`: the tasks of feeds, converters and session are
  scheduled and sleeps end. The exchange owes no event and no end of a link; an
  attempt that is not answered hangs, as in the code.
* `HandlerCache`, `ClientApp` and `ChartData` state safety only.

## 5. Theorems

All from the named assumptions on the constants only, for every value of them,
and from the hypotheses that are named here. Each safety invariant and action
property of a passing run has a theorem.

| Module | Theorem | Property of a run |
|---|---|---|
| PanicStopProofs | `TypeCorrect`, `GuardHolds`, `CloseReduces`, `TriggerNotOnRecord` | `TypeOK`, `FiringIsHeld`, `CloseOnlyReduces`, `TriggerNotPersisted` |
| | `ClosesOnce` (under `OneClient`) | `FiresAtMostOnce` |
| | `LifecycleImplemented`, `EndedStopNeverRestored`, `LiveIsOnRecord` (under `OneSession`) | `ImplementsLifecycle`, `ResolvedIsFinal`, `LiveIsDurable` |
| PendingAutostopProofs | `PlansTypeCorrect` | `PTypeOK` |
| | `GuardHoldsWithPlans`, `CloseReducesWithPlans`, `TriggerNotOnRecordWithPlans` | `FiringIsHeld`, `CloseOnlyReduces`, `TriggerNotPersisted`, here of `PSpec` |
| | `ToldOnce` (under `OneReader`) | `ToldOncePerPlan` |
| ExchangeOrdersProofs | `TypeCorrect`, `ToldIsPlaced`, `LegsFollowEntry`, `CloseStaysOnSide` | `TypeOK`, `ToldMeansPlaced`, `LegsAfterEntry`, `CloseTakesItsSide` |
| HandlerCacheProofs | `TypeCorrect`, `OwnChangesRead`, `LifetimeKept` | `TypeOK`, `ReadsOwnChanges`, `ServedWithinLifetime` |
| ClientLinkProofs | `TypeCorrect`, `OnceInOrder`, `NothingLost`, `EndIsLast` | `TypeOK`, `CommandsOnceInOrder`, `NothingLostUnbroken`, `EndedLinkIsSilent` |
| | `KeyRequired` | none; `ServedWithKey` |
| ExchangeFeedsProofs | `TypeCorrect`, `ChartFeedUnique`, `EventsInOrder`, `FewStrays` | `TypeOK`, `OneChartFeed`, `AccountInOrder`, `StraysBounded` |
| ClientAppProofs | `ClientTypeCorrect`, `ChainGoesInStep`, `OneOrderPerCommand`, `StopShownIsStopOn`, `RiskOrderHasTicker` | `TypeOK`, `ChainInStep`, `OrderOnce`, `StopShownAgrees`, `RiskOrderAwaited` |
| ChartDataProofs | `ChartTypeCorrect`, `RiskIsKept`, `CandlesAreSums`, `TradesAreShown` | `TypeOK`, `RiskKept`, `CandlesSound`, `TradesShown` |

**PanicStopProofs**, three parts: any set of sessions, symbols, prices and
timeouts, any number of requests, with crashes, failing transactions and a lossy
feed.

*The guard.* What is in `TypeCorrect` beyond types is that no stale close order
makes a position negative. The inductive invariant is `IInv == TypeOK /\
FiringIsHeld`. Neither half is inductive alone: executing a close order keeps
positions numbers only because the quote is there, and the quote fits the stop
only because stop and quote are well typed. There is one lemma for each kind of
action; `HeldIfUntouched` says that a session is safe from a step that leaves its
place, stop and quote alone, and the lemmas `HeldBy...` show that every other
step either does so, ends the firing, or advances it. A tick is harmless because
an expired stop does not age.

*Once* (`OneClient`: one session at a time, no crash, no failing transaction).
`FinalInv` relates counter and history (`IdsCounted`), the stop in the Mutex
(`StopUnended`: it has fired only while its answer is awaited), the stop on its
way (`ArmLive`), the rows (`RowsUnended`) and where a row lies (`RowsFound`).

*The refinement* (`OneSession`: one session at a time and no failing
transaction; the process may die in any state). `RecInv` is what a crash keeps: a
stop in memory has not ended (`MemoryGoing`), a row lies under its key, is the
only one of its request and its request goes on (`RowsGoing`), and where a stop
in memory would be deleted lies its own row, that of the request on its way, or
none (`OwnRow`). Every step is one of nine kinds (`SessionSteps`): it begins a
request, installs it, triggers it, expires it, ends it, drops a session, restores
a stop, or changes no phase (`Quiet`); each kind has a lemma that maps it to the
abstract action (`RequestImplements` ... `DropImplements`). `Life` is `PhaseOf`
for the one session, written without CASE. `LiveIsOnRecord` is about Bybit.

**PendingAutostopProofs**: any orders, fills and plans on top. A step of the
session with plans is a step of PanicStop's, or it appends order events to feeds
that are open (`OrderMoves`), or the ws task takes an event, or it touches
neither. So `IInv` stays inductive, and the lemmas of PanicStop are used again;
only the steps of the ws task that write a stop are new, and those wait for the
Mutex. `PInv` adds that a closed session hears nothing (`Deaf`), from which it
follows that it has no ws task. `ToldOnce` assumes `OneReader`: no transaction
fails and there is one session. Both are needed. A row whose deletion failed is
carried out again with the next fill, and two sessions that hear of a fill both
carry the plan out, and tell. `ToldInv` is the stronger count: an order whose plan is
on record, or in the hands of a ws task, has been told of fewer times than plans
were written for it. A crash between the stop and the deletion is in it: the plan
is carried out again and told once. So is a plan that an update puts back: the
update may save at any time after the plan was deleted, and `created` counts it.

**ExchangeOrdersProofs**: any symbols, lot size, margin and number of requests, both
exchanges. `IInv` joins what the desk works on (`DeskInv`: the request at hand has
no answer yet, a leg is placed only for an order that was taken, the mode is
settled before anything is traded) with the account (`AccountInv`: within the
margin, one side flat in one-way mode, and whatever waits is of an order that was
taken).

**HandlerCacheProofs**: any lifetime, latency and length of the run. An entry that
was read is no older than the version of its age + latency ticks ago
(`NoOlderThanAge`), and every entry no older than the last confirmed change
(`NoOlderThanTold`); the second rests on each change clearing the kinds it changes.
For the empty list of a failed query both say when it was made, not what it shows.

**ExchangeFeedsProofs**: channels of any capacity, any number of symbols,
subscriptions and events. `EventsInOrder` follows from types and bounds of every
feed, and an invariant about the numbers in `OnTheWay`, written as one sequence
from the exchange to the task. `FewStrays` counts. The bound of the strays is not
inductive, because it says nothing of those still to come: `StrayInv` bounds those
that were taken together with those that wait (`Waiting`) in the buffers of
aborted feeds, in the inbox of the chart task and in its hand. An abort adds at
most what these hold (`Balance`), and nothing else adds anything, because each
feed carries its own symbol (`OwnEvents`) and the feed that runs is the chart's.

**ClientLinkProofs**: queues and buffers of any capacity, any number of connections
and commands. The order of commands follows from one order over `handled`, the
wire, `conn.held`, `up` and `ui.todo`, in which a lost command leaves a gap and
never comes again. `NothingLost` adds that there is no gap while no connection
has failed: `Whole` says that the first connection is then the only one and
that what it has carried, what waits for it and what the user has entered is
everything there is; the failures of a link are the only steps that take a
command away.

**ClientAppProofs**: any symbols, commands, chains and queue lengths.
`ChainInv` and `OrderInv` add to `ChainInStep` and `OrderOnce` that nothing was
done for a command that is not yet typed and that each slot holds a command that was;
a slot that is overwritten or dropped ends its command. Orders are counted for each
action of a chain, so that a chain may place several. `ShownInv` is about what
is in flight: if the answer that is being written says whether there is a stop,
it says what holds; otherwise the last message in the queue that says so does, and
if none does the terminal already shows it (`LastWord`). The answer comes first,
being newer than all of the queue. Only a
cancellation that is asked for and not yet read may disagree (`NoCancel`), which is
the interval in which the terminal has already cleared its mirror; a stop found in
the database counts as none (`restored`) until a message tells of it. `RiskInv` says
that the ticker of a waiting risk order is in one of the two queues or being
answered, which each step of a message from one to the next keeps.

**ChartDataProofs**: any trades, candles, timeframes, limits and risk orders.
`ChartInv` adds to `TypeOK` that the aggregator is well formed (`AggOK`: finitely
many completed candles within the limit and fields that are numbers), that the
chart is a sequence, and that the order that waits is one that was asked for. At
the limit `Kept` removes exactly one candle, since there is an oldest one
(`Smallest`). `RiskKept` rests on the arithmetic of a rounded quotient
(`RoundedNear`: half a unit) and of an exact one (`DivisionExact`), from which
`StopAsked` and `ProfitAsked` get what a percentage and a ratio give; a ratio of zero
satisfies none of them, and none is sent.

That the aggregator is right is proved by two invariants over the history. `SoundInv`
says that the candle being built sums up the last trades and each completed one some
trades that followed each other (`Built`, `Sums`); as each entry of `seen` carries
the running total of quantities, a volume is a difference of two totals and needs no
induction over the trades. `ExactInv` is for trades in the order of their times:
each candle sums up *all* trades of its interval (`Whole`), no two are of the same
interval, and the intervals are the last `MaxCandles + 1` with trades (`Exact`). It
is kept because a later trade falls in the same interval or a later one
(`StartMonotone`, from the monotony of division), because a new interval pushes each
other one back by one (`RecentGrows`), and because the candle the limit removes is
then the one of the interval that is no longer recent (`KeptUpper`). `SortedCandles`
is about `get_candles`: numbered by how many start earlier, the candles fill the
chart without gap or repetition (`RankOnto`). Together they give `ExactShows`, the
state form of `TradesShown`.

Only model-checked: the six liveness properties (`CountingResolves`,
`HeardUpdateSettles`, `EveryRequestAnswered`, `LossIsNoticed`, `StopFires`,
`FeedRetries`); liveness under fairness is outside TLAPS here.

## 6. Not modelled

* `shared/src/protocol.rs`, `types.rs` and the serialization of `messages.rs`: data
  types whose values appear in the messages of the modules (`ClientApp` has the
  variants of `messages.rs` it needs); the UDP/TCP framing of `protocol.rs` is used by no program that is built.
* `server/src/udp_server.rs`, `client/src/udp_client.rs`: no module tree includes
  them, they are not compiled.
* `client/src/ui.rs`, `audio.rs`: pure output over the application's state.
* `tls.rs`, `generate-cert.rs`, `config.rs`: files and environment variables read
  once at start.
* Editing of the command line, the mouse, scrolling and the history file of
  `app.rs`; the conversion of candles, tickers and prices in the adapters; the
  signing of requests; `connect_public`, which nothing calls.
* Scripts and build recipes.

What could be stated next: an abstract terminal, in which a command is a chain of
actions carried out one after the other, with `ClientApp` shown to implement it;
that the orders of an exchange account implement an abstract desk that places,
closes and cancels in one step; that a plan updated while its old copy is carried out
is not lost (it is; `server.rs:330`), which needs the content of plans in the
history; which orders a sweep cancels, which needs the time an order was placed;
`ClientApp` over a `ClientLink` that loses commands.
