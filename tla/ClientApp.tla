------------------------------ MODULE ClientApp ------------------------------
(***************************************************************************)
(* The terminal's application loop and what it defers to a later message:  *)
(* the actions behind the pipe operator ("br 10 94000 | as 5") and the     *)
(* risk orders that wait for a ticker, each kept in a slot of one.         *)
(*                                                                         *)
(* The application (one thread: a key or a message at a time) talks over   *)
(* two ordered queues with its session on the server, whose select loop    *)
(* handles one request at a time; the ws task of the session pushes        *)
(* messages of its own in between, also between a request that has been    *)
(* carried out and its answer.                                             *)
(*                                                                         *)
(* Sides, quantities and order lists are left out.  A price is known by    *)
(* the symbol it is the price of.  A stop is the session's from the start  *)
(* if the database has one: the application is not told when it connects.  *)
(***************************************************************************)
EXTENDS Naturals, Sequences, FiniteSets

CONSTANTS
  Symbols,   \* traded symbols
  NoSymbol,  \* no price, no stop
  Null,      \* empty slot, no answer under way
  Chains,    \* action lists the user pipes into
  MaxChain,  \* bound: actions in one of them
  MaxCmds,   \* bound: commands typed
  MaxQueue,  \* bound: messages in flight when the next one is pushed
  Settings   \* exchanges: is the private feed understood (Binance yes, Bybit no), may
             \* a request be refused? Users: how many commands, which chains?

Cmds   == 1 .. MaxCmds
NoCmd  == 0
Stops  == {"ts", "as"}
Kinds  == Stops \cup {"market", "limit", "risk", "close", "symbol"}
Places == Symbols \cup {NoSymbol}

\* PendingRiskOrder and PendingAction, with the command that made them.  Step 0 is the
\* command before the first pipe, step i the i-th action behind it.
Steps  == 0 .. MaxChain
Risks  == [cmd: Cmds, step: Nat, symbol: Symbols]
Chained == [cmd: Cmds, symbol: Symbols, list: Seq(Kinds), left: Seq(Kinds) \ {<<>>}]

\* ClientPayload and ServerPayload, as far as they are told apart here.
Requests ==
  [type: {"order"}, cmd: Cmds, step: Nat, symbol: Symbols, limit: BOOLEAN]
  \cup [type: {"ticker", "close"}, symbol: Symbols]
  \cup [type: Stops, symbol: Symbols, cmd: Cmds \cup {NoCmd}]
  \cup [type: {"plan"}, order: Cmds \cup {NoCmd}, cmd: Cmds]
  \cup [type: {"subscribe"}, symbol: Places]
  \cup [type: {"positions", "cancelStop"}]
Messages ==
  [type: {"orderPlaced"}, limit: BOOLEAN, cmd: Cmds \cup {NoCmd}]
  \cup [type: {"positions"}, list: SUBSET Symbols]
  \cup [type: {"stopStatus"}, on: BOOLEAN]
  \cup [type: {"ticker", "tsSet", "asSet", "trade"}, symbol: Symbols]
  \cup [type: {"error"}]

ASSUME ClientConstants ==
  /\ NoSymbol \notin Symbols
  /\ Null \notin Risks /\ Null \notin Chained
  /\ Null \notin Messages
  /\ Chains \subseteq Seq(Kinds) \ {<<>>} /\ \A chain \in Chains : Len(chain) <= MaxChain
  /\ MaxCmds \in Nat /\ MaxQueue \in Nat /\ MaxChain \in Nat
  /\ Settings \subseteq [pushes : BOOLEAN, fails : BOOLEAN, cmds : 0 .. MaxCmds,
                         chains : SUBSET Chains]

VARIABLES
  setting,        \* the exchange and the user of this behaviour
  symbol,         \* the selected symbol
  lastPrice,      \* symbol whose price last_price holds
  positions,      \* symbols in the application's list of positions
  pendingRisk,    \* pending_risk_order
  pendingAction,  \* pending_action
  stopShown,      \* does the application show an activity stop?
  toServer,       \* requests not yet handled
  toClient,       \* messages not yet processed
  held,           \* symbols with a position at the exchange
  cache,          \* cache_positions of the session's handler
  stopOn,         \* symbol of the session's activity stop
  chart,          \* symbol whose trades the session forwards
  reply,          \* answer of a request just carried out, not yet sent
  restored,       \* history: is that stop one the session found in the database,
                  \* of which the application has not been told?
  cmds,           \* history: commands typed
  ran,            \* history: chained actions taken up for each command
  placed          \* history: orders sent for each step of each command

appVars     == <<symbol, lastPrice, positions, pendingRisk, pendingAction, stopShown>>
slotVars    == <<pendingRisk, pendingAction, ran, placed>>
serverVars  == <<held, cache, stopOn, restored, chart, reply>>
vars == <<setting, appVars, toServer, toClient, serverVars, cmds, ran, placed>>

\* The session starts with the first stop in the database, if there is one, and
\* sends nothing about it.
RestoreStop == stopOn \in Places /\ restored = (stopOn # NoSymbol)

Init ==
  /\ setting \in Settings
  /\ symbol \in Symbols
  /\ lastPrice = NoSymbol
  /\ positions = {}
  /\ pendingRisk = Null /\ pendingAction = Null
  /\ stopShown = FALSE
  /\ toServer = <<>> /\ toClient = <<>>
  /\ held = {} /\ cache = Null /\ chart = symbol /\ reply = Null
  /\ RestoreStop
  /\ cmds = 0
  /\ ran = [n \in Cmds |-> 0] /\ placed = [n \in Cmds |-> [i \in Steps |-> 0]]

-----------------------------------------------------------------------------
(* Messages *)

Order(n, i, limit) ==
  [type |-> "order", cmd |-> n, step |-> i, symbol |-> symbol, limit |-> limit]
Ticker(s)   == [type |-> "ticker", symbol |-> s]
Stop(k, n)  == [type |-> k, symbol |-> symbol, cmd |-> n]
Plan(o, n)  == [type |-> "plan", order |-> o, cmd |-> n]
GetPositions == [type |-> "positions"]
CancelStop  == [type |-> "cancelStop"]
Close       == [type |-> "close", symbol |-> symbol]
Subscribe(s) == [type |-> "subscribe", symbol |-> s]

OrderPlaced(o)  == [type |-> "orderPlaced", limit |-> o.limit, cmd |-> o.cmd]
Positions(S)    == [type |-> "positions", list |-> S]
StopStatus(on)  == [type |-> "stopStatus", on |-> on]
Error           == [type |-> "error"]

Send(requests) == toServer' = toServer \o requests
Receive(type) ==
  /\ toClient # <<>>
  /\ Head(toClient).type = type
  /\ toClient' = Tail(toClient)
Push(m) == toClient' = Append(toClient, m)
Room    == Len(toClient) < MaxQueue

-----------------------------------------------------------------------------
(* Commands of the user *)

Typed == cmds < setting.cmds /\ toServer = <<>> /\ reply = Null /\ cmds' = cmds + 1

\* buy, sell: a market order or a limit order at once.
PlaceOrder(n, i, limit) ==
  /\ Send(<<Order(n, i, limit)>>)
  /\ placed' = [placed EXCEPT ![n][i] = @ + 1]
  /\ UNCHANGED pendingRisk

\* buyrisk, sellrisk without a limit price: wait for the ticker.
PlaceRiskOrder(n, i) ==
  /\ pendingRisk' = [cmd |-> n, step |-> i, symbol |-> symbol]
  /\ Send(<<Ticker(symbol)>>)
  /\ UNCHANGED placed

FirstCommand(n) == PlaceRiskOrder(n, 0) \/ \E limit \in BOOLEAN : PlaceOrder(n, 0, limit)

SingleCommand ==
  /\ Typed
  /\ FirstCommand(cmds')
  /\ UNCHANGED <<symbol, lastPrice, positions, pendingAction, stopShown, toClient,
                 serverVars, ran>>

\* The chain replaces whatever chain was waiting.
PipedCommand(chain) ==
  /\ Typed /\ chain \in setting.chains
  /\ pendingAction' = [cmd |-> cmds', symbol |-> symbol, list |-> chain, left |-> chain]
  /\ FirstCommand(cmds')
  /\ UNCHANGED <<symbol, lastPrice, positions, stopShown, toClient, serverVars, ran>>

\* ts and as typed without a pipe need a position, ts a price as well.
StopCommand(k) ==
  /\ Typed
  /\ symbol \in positions
  /\ k = "ts" => lastPrice # NoSymbol
  /\ Send(<<Stop(k, NoCmd)>>)
  /\ UNCHANGED <<appVars, toClient, serverVars, ran, placed>>

ClosePosition ==
  /\ Typed
  /\ symbol \in positions
  /\ Send(<<Close>>)
  /\ UNCHANGED <<appVars, toClient, serverVars, ran, placed>>

Select(s) ==
  /\ symbol' = s
  /\ lastPrice' = NoSymbol
  /\ Send(<<Subscribe(NoSymbol), Subscribe(s)>>)

SelectSymbol(s) ==
  /\ Typed
  /\ s # symbol
  /\ Select(s)
  /\ UNCHANGED <<positions, stopShown, toClient, serverVars, slotVars>>

\* Every second; here while nothing else is on its way (bound).
AutoRefresh ==
  /\ toServer = <<>> /\ toClient = <<>> /\ reply = Null
  /\ Send(<<GetPositions>>)
  /\ UNCHANGED <<appVars, toClient, serverVars, cmds, ran, placed>>

Command ==
  /\ \/ SingleCommand
     \/ \E chain \in Chains : PipedCommand(chain)
     \/ \E k \in Stops : StopCommand(k)
     \/ ClosePosition
     \/ \E s \in Symbols : SelectSymbol(s)
     \/ AutoRefresh
  /\ UNCHANGED setting

-----------------------------------------------------------------------------
(* Messages processed by the application *)

\* A chained action, on the symbol selected now.  A trailing stop without a
\* price goes nowhere, nor does a close without a position.
RunAction(k, n, i) ==
  \/ /\ k \in Stops
     /\ Send(IF k = "ts" /\ lastPrice = NoSymbol THEN <<>> ELSE <<Stop(k, n)>>)
     /\ UNCHANGED <<symbol, lastPrice, pendingRisk, placed>>
  \/ /\ k = "close"
     /\ Send(IF symbol \in positions' THEN <<Close>> ELSE <<>>)
     /\ UNCHANGED <<symbol, lastPrice, pendingRisk, placed>>
  \/ /\ \/ k = "risk" /\ PlaceRiskOrder(n, i)
        \/ k \in {"market", "limit"} /\ PlaceOrder(n, i, k = "limit")
     /\ UNCHANGED <<symbol, lastPrice>>
  \/ /\ k = "symbol"
     /\ \E s \in Symbols : Select(s)
     /\ UNCHANGED <<pendingRisk, placed>>

\* The first action of a chain is taken up, whether or not it sends anything;
\* the rest waits in the slot.
MutEmptyRest(a) == [a EXCEPT !.left = Tail(@)]
MutRest(a) == IF Len(a.left) > 1 THEN a ELSE Null
Rest(a) == IF Len(a.left) > 1 THEN [a EXCEPT !.left = Tail(@)] ELSE Null
RunChain(a) ==
  /\ pendingAction' = Rest(a)
  /\ RunAction(Head(a.left), a.cmd, ran[a.cmd] + 1)
  /\ ran' = [ran EXCEPT ![a.cmd] = @ + 1]

\* The slot is emptied; the chain runs only if it is about symbol s.
TakeAction(s) ==
  IF pendingAction = Null \/ pendingAction.symbol # s
  THEN /\ pendingAction' = Null
       /\ UNCHANGED <<symbol, lastPrice, pendingRisk, toServer, ran, placed>>
  ELSE RunChain(pendingAction)

\* The stops of the chain become plans for the limit order just placed,
\* whichever command placed it; its other actions are dropped.
StopsLeft(a) == Cardinality({i \in 1 .. Len(a.left) : a.left[i] \in Stops})
OnOrderPlaced ==
  /\ Receive("orderPlaced")
  /\ LET m == Head(toClient)
         a == pendingAction
     IN  IF ~m.limit \/ a = Null
         THEN UNCHANGED <<toServer, ran, pendingAction>>
         ELSE /\ pendingAction' = Null
              /\ IF a.symbol # symbol
                 THEN UNCHANGED <<toServer, ran>>
                 ELSE /\ Send([i \in 1 .. StopsLeft(a) |-> Plan(m.cmd, a.cmd)])
                      /\ ran' = [ran EXCEPT ![a.cmd] = @ + Len(a.left)]
  /\ UNCHANGED <<symbol, lastPrice, positions, pendingRisk, stopShown, serverVars, cmds, placed>>

\* A message of positions replaces the list.  The selected symbol appearing
\* in it counts as a position that opens, its absence as one that closes.
OnPositions ==
  /\ Receive("positions")
  /\ positions' = Head(toClient).list
  /\ LET had == symbol \in positions
         has == symbol \in positions'
     IN  CASE ~had /\ has -> TakeAction(symbol) /\ UNCHANGED stopShown
           [] had /\ ~has /\ stopShown ->
                /\ Send(<<CancelStop>>)
                /\ stopShown' = FALSE
                /\ UNCHANGED <<symbol, lastPrice, slotVars>>
           [] OTHER -> UNCHANGED <<symbol, lastPrice, toServer, stopShown, slotVars>>
  /\ UNCHANGED <<serverVars, cmds>>

\* The answer to a stop, typed or chained, lets the next action go.
OnStopSet ==
  /\ \/ Receive("tsSet") /\ UNCHANGED stopShown
     \/ Receive("asSet") /\ stopShown' = TRUE
  /\ UNCHANGED <<positions, serverVars, cmds>>
  /\ TakeAction(Head(toClient).symbol)

MutOnStopStatus ==
  /\ Receive("stopStatus")
  /\ stopShown' = TRUE
  /\ UNCHANGED <<symbol, lastPrice, positions, toServer, serverVars, cmds, slotVars>>
OnStopStatus ==
  /\ Receive("stopStatus")
  /\ stopShown' = Head(toClient).on
  /\ UNCHANGED <<symbol, lastPrice, positions, toServer, serverVars, cmds, slotVars>>

\* A ticker of the symbol a risk order waits for sends the order, on the
\* symbol selected now; another one leaves it waiting.
MutAwaited(m) == m.symbol = symbol
Awaited(m) == m.symbol = pendingRisk.symbol
MutSettled(m) == pendingRisk
Settled(m) == IF Awaited(m) THEN Null ELSE pendingRisk
OnTicker ==
  /\ Receive("ticker")
  /\ LET m == Head(toClient)
     IN  IF pendingRisk # Null
         THEN /\ pendingRisk' = Settled(m)
              /\ IF Awaited(m)
                 THEN /\ lastPrice' = m.symbol
                      /\ \/ Send(<<Order(pendingRisk.cmd, pendingRisk.step, FALSE)>>)
                            /\ placed' = [placed EXCEPT ![pendingRisk.cmd][pendingRisk.step]
                                                          = @ + 1]
                         \/ UNCHANGED <<toServer, placed>>     \* no valid size
                 ELSE /\ lastPrice' = IF m.symbol = symbol THEN m.symbol ELSE lastPrice
                      /\ UNCHANGED <<toServer, placed>>
         ELSE /\ lastPrice' = IF m.symbol = symbol THEN m.symbol ELSE lastPrice
              /\ UNCHANGED <<pendingRisk, toServer, placed>>
  /\ UNCHANGED <<symbol, positions, pendingAction, stopShown, serverVars, cmds, ran>>

\* A trade carries no symbol: its price is taken for the selected one.
OnTrade ==
  /\ Receive("trade")
  /\ lastPrice' = Head(toClient).symbol
  /\ UNCHANGED <<symbol, positions, stopShown, toServer, serverVars, cmds, slotVars>>

\* Errors are shown; the slots keep what they hold.
OnError ==
  /\ Receive("error")
  /\ UNCHANGED <<appVars, toServer, serverVars, cmds, ran, placed>>

ProcessMessages ==
  /\ \/ OnOrderPlaced \/ OnPositions \/ OnStopSet \/ OnStopStatus
     \/ OnTicker \/ OnTrade \/ OnError
  /\ UNCHANGED setting

-----------------------------------------------------------------------------
(* The session: its select loop carries out a request, then answers *)

Take(type) ==
  /\ reply = Null
  /\ toServer # <<>>
  /\ Head(toServer).type = type
  /\ toServer' = Tail(toServer)
  /\ UNCHANGED <<appVars, toClient, cmds, ran, placed>>

HandleOrder ==
  /\ Take("order")
  /\ LET o == Head(toServer)
     IN  \/ /\ held' = IF o.limit THEN held ELSE held \cup {o.symbol}
            /\ cache' = Null
            /\ reply' = OrderPlaced(o)
         \/ /\ setting.fails
            /\ reply' = Error
            /\ UNCHANGED <<held, cache>>
  /\ UNCHANGED <<stopOn, restored, chart>>

HandleClose ==
  /\ Take("close")
  /\ LET s == Head(toServer).symbol
     IN  \/ /\ held' = held \ {s}
            /\ cache' = Null
            /\ reply' = OrderPlaced([limit |-> FALSE, cmd |-> NoCmd])
         \/ setting.fails /\ reply' = Error /\ UNCHANGED <<held, cache>>
  /\ UNCHANGED <<stopOn, restored, chart>>

\* From the cache if it has not expired, which time decides, else afresh.
HandlePositions ==
  /\ Take("positions")
  /\ \/ cache # Null /\ reply' = Positions(cache) /\ UNCHANGED cache
     \/ cache' = held /\ reply' = Positions(held)
     \/ setting.fails /\ reply' = Error /\ UNCHANGED cache
  /\ UNCHANGED <<held, stopOn, restored, chart>>

HandleTicker ==
  /\ Take("ticker")
  /\ \/ reply' = Ticker(Head(toServer).symbol)
     \/ setting.fails /\ reply' = Error
  /\ UNCHANGED <<held, cache, stopOn, restored, chart>>

HandleStop ==
  /\ \/ /\ Take("ts")
        /\ \/ reply' = [type |-> "tsSet", symbol |-> Head(toServer).symbol]
           \/ setting.fails /\ reply' = Error
        /\ UNCHANGED <<stopOn, restored>>
     \/ /\ Take("as")
        /\ reply' = [type |-> "asSet", symbol |-> Head(toServer).symbol]
        /\ stopOn' = Head(toServer).symbol
        /\ restored' = FALSE
     \/ /\ Take("cancelStop")
        /\ reply' = StopStatus(FALSE)
        /\ stopOn' = NoSymbol
        /\ restored' = FALSE
  /\ UNCHANGED <<held, cache, chart>>

\* Their answers change nothing in the application.
HandleOther ==
  /\ \/ Take("plan") /\ UNCHANGED chart
     \/ Take("subscribe") /\ chart' = Head(toServer).symbol
  /\ UNCHANGED <<held, cache, stopOn, restored, reply>>

Answer ==
  /\ reply # Null
  /\ Push(reply)
  /\ reply' = Null
  /\ UNCHANGED <<appVars, toServer, held, cache, stopOn, restored, chart, cmds, ran, placed>>

Handle ==
  /\ \/ HandleOrder \/ HandleClose \/ HandlePositions \/ HandleTicker
     \/ HandleStop \/ HandleOther \/ Answer
  /\ UNCHANGED setting

-----------------------------------------------------------------------------
(* What the session sends unasked *)

\* The timer belongs to the select loop: it does not run during a request.
\* The first thing it does for a stop that counts is to tell the application.
\* The stop ends whatever comes of its firing; a close that is refused is
\* told as an error, without the status of the stop.
Timer ==
  /\ stopOn # NoSymbol /\ reply = Null /\ Room
  /\ restored' = FALSE
  /\ \/ Push(StopStatus(TRUE)) /\ UNCHANGED <<held, stopOn>>
     \/ /\ stopOn' = NoSymbol
        /\ \/ /\ held' = held \ {stopOn}
              /\ toClient' = toClient \o <<StopStatus(TRUE), StopStatus(FALSE)>>
           \/ /\ setting.fails /\ UNCHANGED held
              /\ \E last \in {StopStatus(FALSE), Error} :
                   toClient' = toClient \o <<StopStatus(TRUE), last>>
  /\ UNCHANGED <<appVars, toServer, cache, chart, reply, cmds, ran, placed>>

\* A trade that would change nothing in the application is left out (bound).
ForwardTrade ==
  /\ chart \notin {NoSymbol, lastPrice} /\ Room
  /\ Push([type |-> "trade", symbol |-> chart])
  /\ UNCHANGED <<appVars, toServer, serverVars, cmds, ran, placed>>

\* A position opens or closes at the exchange: the ws task forwards an update
\* that lists the changed symbol, a closed one with size zero, and ends a
\* stop that is on another symbol or whose position is closed.
PositionMoves(s) ==
  /\ Room
  /\ held' = IF s \in held THEN held \ {s} ELSE held \cup {s}
  /\ IF setting.pushes
     THEN LET ends == stopOn # NoSymbol /\ (stopOn # s \/ s \notin held')
          IN  /\ stopOn' = IF ends THEN NoSymbol ELSE stopOn
              /\ restored' = (restored /\ ~ends)
              /\ toClient' = toClient \o (IF ends THEN <<StopStatus(FALSE)>> ELSE <<>>)
                                      \o <<Positions({s})>>
     ELSE UNCHANGED <<stopOn, restored, toClient>>
  /\ UNCHANGED <<appVars, toServer, cache, chart, reply, cmds, ran, placed>>

Unasked ==
  /\ Timer \/ ForwardTrade \/ \E s \in Symbols : PositionMoves(s)
  /\ UNCHANGED setting

-----------------------------------------------------------------------------
Next == Command \/ ProcessMessages \/ Handle \/ Unasked

Spec == Init /\ [][Next]_vars

-----------------------------------------------------------------------------
(* Properties *)

\* Type invariant of the application, the queues, the session and the history.
TypeOK ==
  /\ setting \in Settings
  /\ symbol \in Symbols
  /\ lastPrice \in Places /\ stopOn \in Places /\ chart \in Places
  /\ positions \subseteq Symbols /\ held \subseteq Symbols
  /\ pendingRisk \in Risks \cup {Null}
  /\ pendingAction \in Chained \cup {Null}
  /\ stopShown \in BOOLEAN /\ restored \in BOOLEAN
  /\ toServer \in Seq(Requests) /\ toClient \in Seq(Messages)
  /\ cache \in {Null} \cup SUBSET Symbols /\ reply \in Messages \cup {Null}
  /\ cmds \in 0 .. MaxCmds
  /\ ran \in [Cmds -> Nat] /\ placed \in [Cmds -> [Steps -> Nat]]

\* The actions of a chain are taken up in order and once each, whatever
\* messages arrive in between, and only those of the chain piped last are
\* still to come: the slot holds exactly what has not been taken up yet.  An
\* action taken up may send nothing (a trailing stop without a price).
ChainInStep ==
  pendingAction # Null =>
    LET a == pendingAction
    IN  a.left = SubSeq(a.list, ran[a.cmd] + 1, Len(a.list))

\* A command, and each action piped behind it, sends one order at most, although
\* a risk order waits for a ticker and several tickers may arrive.
OrderOnce == \A n \in Cmds, i \in Steps : placed[n][i] <= 1

\* A risk order never waits for nothing: where the exchange answers requests,
\* the ticker it waits for is asked for or on its way, also when the user has
\* gone on to another symbol or has typed another risk order.
InFlight == toServer \o (IF reply = Null THEN <<>> ELSE <<reply>>) \o toClient
RiskOrderAwaited ==
  ~setting.fails /\ pendingRisk # Null =>
    \E i \in DOMAIN InFlight :
      InFlight[i].type = "ticker" /\ InFlight[i].symbol = pendingRisk.symbol

\* With nothing in flight the application shows a stop just when the session
\* has one, through firings, cancellations and positions that vanish, where
\* positions are not pushed and no request is refused.  The exception is a stop
\* found in the database: until it counts, which one that waits for its trigger
\* may never do, the session has it and the application shows none.
StopShownAgrees ==
  ~setting.fails /\ ~setting.pushes /\ toServer = <<>> /\ toClient = <<>> /\ reply = Null
    => (stopShown <=> stopOn # NoSymbol /\ ~restored)

=============================================================================
