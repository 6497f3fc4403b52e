-------------------------- MODULE ClientAppProofs --------------------------
(* Theorems about ClientApp, for any symbols, chains, exchanges and bounds. *)
EXTENDS ClientApp, SequenceTheorems, FiniteSetTheorems, TLAPS

-----------------------------------------------------------------------------
(* Requests and messages *)

LEMMA RequestShape ==
  ASSUME NEW r \in Requests
  PROVE  /\ r.type = "order" => r.cmd \in Cmds /\ r.symbol \in Symbols /\ r.limit \in BOOLEAN
         /\ r.type \in {"ticker", "close", "ts", "as"} => r.symbol \in Symbols
         /\ r.type = "subscribe" => r.symbol \in Places
BY DEF Requests, Stops

LEMMA MessageShape ==
  ASSUME NEW m \in Messages
  PROVE  /\ m.type = "orderPlaced" => m.limit \in BOOLEAN /\ m.cmd \in Cmds \cup {NoCmd}
         /\ m.type = "positions" => m.list \in SUBSET Symbols
         /\ m.type = "stopStatus" => m.on \in BOOLEAN
         /\ m.type \in {"ticker", "tsSet", "asSet", "trade"} => m.symbol \in Symbols
BY DEF Messages

\* What the application sends are requests.
LEMMA RequestMade ==
  ASSUME TypeOK
  PROVE  /\ \A n \in Cmds, i \in Nat, limit \in BOOLEAN : Order(n, i, limit) \in Requests
         /\ \A n \in Cmds \cup {NoCmd}, k \in Stops : Stop(k, n) \in Requests
         /\ \A o \in Cmds \cup {NoCmd}, n \in Cmds : Plan(o, n) \in Requests
         /\ \A s \in Symbols : Ticker(s) \in Requests
         /\ \A s \in Places : Subscribe(s) \in Requests
         /\ Close \in Requests /\ GetPositions \in Requests /\ CancelStop \in Requests
<1>1. symbol \in Symbols BY DEF TypeOK
<1>2. \A n \in Cmds, i \in Nat, limit \in BOOLEAN : Order(n, i, limit) \in Requests
  BY <1>1 DEF Order, Requests
<1>3. \A n \in Cmds \cup {NoCmd}, k \in Stops : Stop(k, n) \in Requests
  BY <1>1 DEF Stop, Requests
<1>4. \A o \in Cmds \cup {NoCmd}, n \in Cmds : Plan(o, n) \in Requests
  BY DEF Plan, Requests
<1>5. \A s \in Symbols : Ticker(s) \in Requests
  BY DEF Ticker, Requests
<1>6. \A s \in Places : Subscribe(s) \in Requests
  BY DEF Subscribe, Requests
<1>7. Close \in Requests /\ GetPositions \in Requests /\ CancelStop \in Requests
  BY <1>1 DEF Close, GetPositions, CancelStop, Requests
<1> QED BY <1>2, <1>3, <1>4, <1>5, <1>6, <1>7

\* What the session sends are messages.
LEMMA MessageMade ==
  /\ \A limit \in BOOLEAN, n \in Cmds \cup {NoCmd} :
       OrderPlaced([limit |-> limit, cmd |-> n]) \in Messages
  /\ \A r \in Requests : r.type = "order" => OrderPlaced(r) \in Messages
  /\ \A S \in SUBSET Symbols : Positions(S) \in Messages
  /\ \A on \in BOOLEAN : StopStatus(on) \in Messages
  /\ Error \in Messages
  /\ \A s \in Symbols, t \in {"ticker", "tsSet", "asSet", "trade"} :
       [type |-> t, symbol |-> s] \in Messages
<1>1. \A limit \in BOOLEAN, n \in Cmds \cup {NoCmd} :
       OrderPlaced([limit |-> limit, cmd |-> n]) \in Messages
  BY DEF OrderPlaced, Messages
<1>2. \A r \in Requests : r.type = "order" => OrderPlaced(r) \in Messages
  BY RequestShape DEF OrderPlaced, Messages
<1>3. \A S \in SUBSET Symbols : Positions(S) \in Messages
  BY DEF Positions, Messages
<1>4. \A on \in BOOLEAN : StopStatus(on) \in Messages
  BY DEF StopStatus, Messages
<1>5. Error \in Messages
  BY DEF Error, Messages
<1>6. \A s \in Symbols, t \in {"ticker", "tsSet", "asSet", "trade"} :
       [type |-> t, symbol |-> s] \in Messages
  BY DEF Messages
<1> QED BY <1>1, <1>2, <1>3, <1>4, <1>5, <1>6

LEMMA Joined ==
  ASSUME NEW S, NEW q \in Seq(S), NEW a \in S, NEW b \in S
  PROVE  /\ q \o <<>> \in Seq(S) /\ q \o <<a>> \in Seq(S) /\ q \o <<a, b>> \in Seq(S)
         /\ Append(q, a) \in Seq(S)
<1>1. <<>> \in Seq(S) /\ <<a>> \in Seq(S) /\ <<a, b>> \in Seq(S)
  OBVIOUS
<1> QED BY <1>1, ConcatProperties, AppendProperties

LEMMA Received ==
  ASSUME TypeOK, NEW type, Receive(type)
  PROVE  /\ toClient \in Seq(Messages) /\ toClient # <<>>
         /\ Head(toClient) \in Messages /\ Head(toClient).type = type
         /\ toClient' = Tail(toClient) /\ toClient' \in Seq(Messages)
BY HeadTailProperties DEF TypeOK, Receive

LEMMA Taken ==
  ASSUME TypeOK, NEW type, Take(type)
  PROVE  /\ toServer \in Seq(Requests) /\ toServer # <<>>
         /\ Head(toServer) \in Requests /\ Head(toServer).type = type
         /\ toServer' = Tail(toServer) /\ toServer' \in Seq(Requests)
         /\ reply = Null
         /\ UNCHANGED <<appVars, toClient, cmds, ran, placed>>
BY HeadTailProperties DEF TypeOK, Take

-----------------------------------------------------------------------------
(* Types *)

LEMMA NewCommand ==
  ASSUME TypeOK, Typed
  PROVE  cmds' = cmds + 1 /\ cmds' \in Cmds /\ cmds' \in 0 .. MaxCmds /\ cmds \in Nat
         /\ toServer = <<>> /\ reply = Null
<1>1. setting.cmds \in 0 .. MaxCmds /\ MaxCmds \in Nat BY ClientConstants DEF TypeOK
<1>2. cmds \in Nat /\ cmds < setting.cmds BY <1>1 DEF TypeOK, Typed
<1> QED BY <1>1, <1>2 DEF Typed, Cmds

\* What one order more does to the count of orders sent; a step outside Steps changes nothing.
LEMMA CountedOnce ==
  ASSUME NEW f \in [Cmds -> [Steps -> Nat]], NEW n \in Cmds, NEW i \in Nat
  PROVE  LET g == [f EXCEPT ![n][i] = f[n][i] + 1]
         IN  /\ g \in [Cmds -> [Steps -> Nat]]
             /\ \A m \in Cmds, j \in Steps :
                  g[m][j] = IF m = n /\ j = i THEN f[m][j] + 1 ELSE f[m][j]
<1> DEFINE g == [f EXCEPT ![n][i] = f[n][i] + 1]
<1>1. f[n] \in [Steps -> Nat] OBVIOUS
<1>2. g = [f EXCEPT ![n] = [f[n] EXCEPT ![i] = f[n][i] + 1]] OBVIOUS
<1>3. [f[n] EXCEPT ![i] = f[n][i] + 1] \in [Steps -> Nat]
  <2> DEFINE h == f[n]
  <2>1. h \in [Steps -> Nat] OBVIOUS
  <2> HIDE DEF h
  <2>2. i \in Steps => [h EXCEPT ![i] = h[i] + 1] \in [Steps -> Nat] BY <2>1
  <2>3. i \notin Steps => [h EXCEPT ![i] = h[i] + 1] = h BY <2>1
  <2>4. [h EXCEPT ![i] = h[i] + 1] \in [Steps -> Nat] BY <2>1, <2>2, <2>3
  <2> QED BY <2>4 DEF h
<1>4. g \in [Cmds -> [Steps -> Nat]] BY <1>2, <1>3
<1>5. ASSUME NEW m \in Cmds, NEW j \in Steps
      PROVE  g[m][j] = IF m = n /\ j = i THEN f[m][j] + 1 ELSE f[m][j]
  <2>1. g[n] = [f[n] EXCEPT ![i] = f[n][i] + 1] BY <1>2
  <2>2. g[n][j] = IF j = i THEN f[n][j] + 1 ELSE f[n][j] BY <1>1, <2>1
  <2>3. m # n => g[m] = f[m] BY <1>2
  <2> HIDE DEF g
  <2> QED BY <2>2, <2>3
<1> QED BY <1>4, <1>5

\* The two ways of ordering, for the command itself and for the actions behind it.
LEMMA PlaceType ==
  ASSUME TypeOK, NEW n \in Cmds, NEW i \in Nat,
         PlaceRiskOrder(n, i) \/ \E limit \in BOOLEAN : PlaceOrder(n, i, limit)
  PROVE  /\ pendingRisk' \in Risks \cup {Null}
         /\ toServer' \in Seq(Requests)
         /\ placed' \in [Cmds -> [Steps -> Nat]]
<1>0. /\ symbol \in Symbols /\ pendingRisk \in Risks \cup {Null} /\ toServer \in Seq(Requests)
      /\ placed \in [Cmds -> [Steps -> Nat]]
  BY DEF TypeOK
<1>1. CASE PlaceRiskOrder(n, i)
  <2>1. Ticker(symbol) \in Requests BY <1>0, RequestMade
  <2>2. toServer' \in Seq(Requests)
    BY <1>0, <1>1, <2>1, Joined DEF PlaceRiskOrder, Send
  <2> QED BY <1>0, <1>1, <2>2 DEF PlaceRiskOrder, Risks
<1>2. ASSUME NEW limit \in BOOLEAN, PlaceOrder(n, i, limit)
      PROVE  /\ pendingRisk' \in Risks \cup {Null}
             /\ toServer' \in Seq(Requests)
             /\ placed' \in [Cmds -> [Steps -> Nat]]
  <2>1. Order(n, i, limit) \in Requests BY RequestMade
  <2>2. toServer' \in Seq(Requests)
    BY <1>0, <1>2, <2>1, Joined DEF PlaceOrder, Send
  <2>3. placed' = [placed EXCEPT ![n][i] = placed[n][i] + 1] /\ UNCHANGED pendingRisk
    BY <1>2 DEF PlaceOrder
  <2>4. placed' \in [Cmds -> [Steps -> Nat]] BY <1>0, <2>3, CountedOnce
  <2> QED BY <1>0, <2>2, <2>3, <2>4
<1> QED BY <1>1, <1>2

LEMMA FirstCommandType ==
  ASSUME TypeOK, NEW n \in Cmds, FirstCommand(n)
  PROVE  /\ pendingRisk' \in Risks \cup {Null}
         /\ toServer' \in Seq(Requests)
         /\ placed' \in [Cmds -> [Steps -> Nat]]
<1>1. PlaceRiskOrder(n, 0) \/ \E limit \in BOOLEAN : PlaceOrder(n, 0, limit)
  BY DEF FirstCommand
<1>2. 0 \in Nat OBVIOUS
<1> QED BY <1>1, <1>2, PlaceType

LEMMA CommandType ==
  ASSUME TypeOK, Command
  PROVE  TypeOK'
<1> USE DEF appVars, serverVars, slotVars
<1>0. setting' = setting BY DEF Command
<1>1. CASE SingleCommand
  <2>1. cmds' \in Cmds /\ cmds' \in 0 .. MaxCmds /\ FirstCommand(cmds')
    BY <1>1, NewCommand DEF SingleCommand
  <2>2. /\ pendingRisk' \in Risks \cup {Null} /\ toServer' \in Seq(Requests)
        /\ placed' \in [Cmds -> [Steps -> Nat]]
    BY <2>1, FirstCommandType
  <2> QED BY <1>0, <1>1, <2>1, <2>2 DEF SingleCommand, TypeOK
<1>2. ASSUME NEW chain \in Chains, PipedCommand(chain)
      PROVE  TypeOK'
  <2>1. cmds' \in Cmds /\ cmds' \in 0 .. MaxCmds /\ FirstCommand(cmds')
    BY <1>2, NewCommand DEF PipedCommand
  <2>2. /\ pendingRisk' \in Risks \cup {Null} /\ toServer' \in Seq(Requests)
        /\ placed' \in [Cmds -> [Steps -> Nat]]
    BY <2>1, FirstCommandType
  <2>3. chain \in Seq(Kinds) \ {<<>>} BY ClientConstants
  <2>4. pendingAction' \in Chained \cup {Null}
    BY <1>2, <2>1, <2>3 DEF PipedCommand, Chained, TypeOK
  <2> QED BY <1>0, <1>2, <2>1, <2>2, <2>4 DEF PipedCommand, TypeOK
<1>3. ASSUME NEW k \in Stops, StopCommand(k)
      PROVE  TypeOK'
  <2>1. cmds' \in 0 .. MaxCmds BY <1>3, NewCommand DEF StopCommand
  <2>2. Stop(k, NoCmd) \in Requests BY RequestMade
  <2>3. toServer' \in Seq(Requests) BY <1>3, <2>2, Joined DEF StopCommand, Send, TypeOK
  <2> QED BY <1>0, <1>3, <2>1, <2>3 DEF StopCommand, TypeOK
<1>4. CASE ClosePosition
  <2>1. cmds' \in 0 .. MaxCmds BY <1>4, NewCommand DEF ClosePosition
  <2>2. toServer' \in Seq(Requests) BY <1>4, RequestMade, Joined DEF ClosePosition, Send, TypeOK
  <2> QED BY <1>0, <1>4, <2>1, <2>2 DEF ClosePosition, TypeOK
<1>5. ASSUME NEW s \in Symbols, SelectSymbol(s)
      PROVE  TypeOK'
  <2>1. cmds' \in 0 .. MaxCmds BY <1>5, NewCommand DEF SelectSymbol
  <2>2. Subscribe(NoSymbol) \in Requests /\ Subscribe(s) \in Requests
    BY RequestMade DEF Places
  <2>3. toServer' \in Seq(Requests)
    BY <1>5, <2>2, Joined DEF SelectSymbol, Select, Send, TypeOK
  <2> QED BY <1>0, <1>5, <2>1, <2>3 DEF SelectSymbol, Select, TypeOK, Places
<1>6. CASE AutoRefresh
  <2>1. toServer' \in Seq(Requests) BY <1>6, RequestMade, Joined DEF AutoRefresh, Send, TypeOK
  <2> QED BY <1>0, <1>6, <2>1 DEF AutoRefresh, TypeOK
<1> QED BY <1>1, <1>2, <1>3, <1>4, <1>5, <1>6 DEF Command

LEMMA TailLeft ==
  ASSUME NEW S, NEW q \in Seq(S), Len(q) > 1
  PROVE  Tail(q) # <<>>
<1> DEFINE t == Tail(q)
<1>1. q # <<>> BY EmptySeq
<1>2. t \in Seq(S) /\ Len(t) > 0 BY <1>1, HeadTailProperties, LenProperties
<1> HIDE DEF t
<1>3. t # <<>> BY <1>2
<1> QED BY <1>3 DEF t

\* What a chained action leaves behind.
LEMMA RunActionType ==
  ASSUME TypeOK, NEW k \in Kinds, NEW n \in Cmds, NEW i \in Nat, RunAction(k, n, i)
  PROVE  /\ symbol' \in Symbols /\ lastPrice' \in Places
         /\ pendingRisk' \in Risks \cup {Null}
         /\ toServer' \in Seq(Requests)
         /\ placed' \in [Cmds -> [Steps -> Nat]]
<1>0. /\ symbol \in Symbols /\ lastPrice \in Places /\ pendingRisk \in Risks \cup {Null}
      /\ toServer \in Seq(Requests) /\ placed \in [Cmds -> [Steps -> Nat]]
  BY DEF TypeOK
<1>1. CASE /\ k \in Stops
           /\ Send(IF k = "ts" /\ lastPrice = NoSymbol THEN <<>> ELSE <<Stop(k, n)>>)
           /\ UNCHANGED <<symbol, lastPrice, pendingRisk, placed>>
  BY <1>0, <1>1, RequestMade, Joined DEF Send
<1>2. CASE /\ Send(IF symbol \in positions' THEN <<Close>> ELSE <<>>)
           /\ UNCHANGED <<symbol, lastPrice, pendingRisk, placed>>
  BY <1>0, <1>2, RequestMade, Joined DEF Send
<1>3. CASE /\ PlaceRiskOrder(n, i) \/ \E limit \in BOOLEAN : PlaceOrder(n, i, limit)
           /\ UNCHANGED <<symbol, lastPrice>>
  BY <1>0, <1>3, PlaceType
<1>4. ASSUME NEW s \in Symbols, Select(s), UNCHANGED <<pendingRisk, placed>>
      PROVE  /\ symbol' \in Symbols /\ lastPrice' \in Places
             /\ pendingRisk' \in Risks \cup {Null}
             /\ toServer' \in Seq(Requests)
             /\ placed' \in [Cmds -> [Steps -> Nat]]
  <2>1. Subscribe(NoSymbol) \in Requests /\ Subscribe(s) \in Requests
    BY RequestMade DEF Places
  <2>2. toServer' \in Seq(Requests) BY <1>0, <1>4, <2>1, Joined DEF Select, Send
  <2> QED BY <1>0, <1>4, <2>2 DEF Select, Places
<1>5. (k = "limit") \in BOOLEAN OBVIOUS
<1> QED BY <1>1, <1>2, <1>3, <1>4, <1>5 DEF RunAction

\* The chain that is left after its first action, and the request of that action.
LEMMA TakeActionType ==
  ASSUME TypeOK, NEW s \in Symbols, TakeAction(s)
  PROVE  /\ pendingAction' \in Chained \cup {Null}
         /\ symbol' \in Symbols /\ lastPrice' \in Places
         /\ pendingRisk' \in Risks \cup {Null}
         /\ toServer' \in Seq(Requests)
         /\ ran' \in [Cmds -> Nat] /\ placed' \in [Cmds -> [Steps -> Nat]]
<1>0. /\ pendingAction \in Chained \cup {Null} /\ toServer \in Seq(Requests)
      /\ symbol \in Symbols /\ lastPrice \in Places /\ pendingRisk \in Risks \cup {Null}
      /\ ran \in [Cmds -> Nat] /\ placed \in [Cmds -> [Steps -> Nat]]
  BY DEF TypeOK
<1>1. CASE pendingAction = Null \/ pendingAction.symbol # s
  BY <1>0, <1>1 DEF TakeAction
<1>2. CASE ~(pendingAction = Null \/ pendingAction.symbol # s)
  <2> DEFINE a == pendingAction
             k == Head(a.left)
             i == ran[a.cmd] + 1
  <2>1. RunChain(a) BY <1>2 DEF TakeAction
  <2>2. a \in Chained BY <1>0, <1>2
  <2>3. a.cmd \in Cmds /\ a.left \in Seq(Kinds) /\ a.left # <<>>
    BY <2>2 DEF Chained
  <2>4. /\ k \in Kinds /\ Tail(a.left) \in Seq(Kinds)
        /\ Len(Tail(a.left)) = Len(a.left) - 1 /\ Len(a.left) \in Nat
    BY <2>3, HeadTailProperties, LenProperties
  <2>5. Len(a.left) > 1 => Tail(a.left) # <<>>
    BY <2>3, TailLeft
  <2>6. Rest(a) \in Chained \cup {Null}
    BY <2>2, <2>4, <2>5 DEF Rest, Chained
  <2>7. i \in Nat /\ RunAction(k, a.cmd, i) BY <1>0, <2>1, <2>3 DEF RunChain
  <2>8. ran' = [ran EXCEPT ![a.cmd] = ran[a.cmd] + 1] /\ pendingAction' = Rest(a)
    BY <2>1 DEF RunChain
  <2>9. ran' \in [Cmds -> Nat] /\ pendingAction' \in Chained \cup {Null}
    BY <1>0, <2>3, <2>6, <2>8
  <2> HIDE DEF k, i
  <2> QED BY <2>3, <2>4, <2>7, <2>9, RunActionType
<1> QED BY <1>1, <1>2

LEMMA StopsLeftNat ==
  ASSUME NEW a
  PROVE  Len(a.left) \in Nat => StopsLeft(a) \in Nat
<1> SUFFICES ASSUME Len(a.left) \in Nat PROVE StopsLeft(a) \in Nat OBVIOUS
<1>1. IsFiniteSet(1 .. Len(a.left)) BY FS_Interval
<1>2. IsFiniteSet({i \in 1 .. Len(a.left) : a.left[i] \in Stops}) BY <1>1, FS_Subset
<1> QED BY <1>2, FS_CardinalityType DEF StopsLeft

LEMMA OrderPlacedType ==
  ASSUME TypeOK, OnOrderPlaced, UNCHANGED setting
  PROVE  TypeOK'
<1> DEFINE m == Head(toClient)
           a == pendingAction
<1>1. m \in Messages /\ m.type = "orderPlaced" /\ toClient' \in Seq(Messages)
  BY Received DEF OnOrderPlaced
<1>2. /\ pendingAction \in Chained \cup {Null} /\ toServer \in Seq(Requests)
      /\ ran \in [Cmds -> Nat]
  BY DEF TypeOK
<1>3. /\ pendingAction' \in Chained \cup {Null} /\ toServer' \in Seq(Requests)
      /\ ran' \in [Cmds -> Nat]
  <2>1. CASE ~m.limit \/ a = Null
    BY <1>2, <2>1 DEF OnOrderPlaced
  <2>2. CASE ~(~m.limit \/ a = Null) /\ a.symbol # symbol
    BY <1>2, <2>2 DEF OnOrderPlaced
  <2>3. CASE ~(~m.limit \/ a = Null) /\ a.symbol = symbol
    <3> DEFINE plans == [i \in 1 .. StopsLeft(a) |-> Plan(m.cmd, a.cmd)]
    <3>1. a.cmd \in Cmds /\ a.left \in Seq(Kinds) BY <1>2, <2>3 DEF Chained
    <3>2. Len(a.left) \in Nat /\ StopsLeft(a) \in Nat BY <3>1, StopsLeftNat
    <3>3. Plan(m.cmd, a.cmd) \in Requests BY <1>1, <3>1, MessageShape, RequestMade
    <3>4. plans \in Seq(Requests) BY <3>2, <3>3, IsASeq
    <3>5. /\ toServer' = toServer \o plans /\ pendingAction' = Null
          /\ ran' = [ran EXCEPT ![a.cmd] = ran[a.cmd] + Len(a.left)]
      BY <2>3 DEF OnOrderPlaced, Send
    <3>6. toServer' \in Seq(Requests)
      <4> HIDE DEF plans
      <4> QED BY <1>2, <3>4, <3>5, ConcatProperties
    <3> QED BY <1>2, <3>1, <3>2, <3>5, <3>6
  <2> QED BY <2>1, <2>2, <2>3
<1> QED BY <1>1, <1>3 DEF OnOrderPlaced, TypeOK, serverVars

LEMMA PositionsType ==
  ASSUME TypeOK, OnPositions, UNCHANGED setting
  PROVE  TypeOK'
<1> DEFINE had == symbol \in positions
           has == symbol \in positions'
<1>1. toClient' \in Seq(Messages) /\ positions' \in SUBSET Symbols
  BY Received, MessageShape DEF OnPositions
<1>2. /\ pendingAction \in Chained \cup {Null} /\ toServer \in Seq(Requests)
      /\ lastPrice \in Places /\ pendingRisk \in Risks \cup {Null}
      /\ ran \in [Cmds -> Nat] /\ placed \in [Cmds -> [Steps -> Nat]]
      /\ symbol \in Symbols /\ stopShown \in BOOLEAN
  BY DEF TypeOK
<1>3. /\ pendingAction' \in Chained \cup {Null} /\ toServer' \in Seq(Requests)
      /\ symbol' \in Symbols /\ lastPrice' \in Places /\ pendingRisk' \in Risks \cup {Null}
      /\ ran' \in [Cmds -> Nat] /\ placed' \in [Cmds -> [Steps -> Nat]]
      /\ stopShown' \in BOOLEAN
  <2>1. CASE ~had /\ has
    <3>1. TakeAction(symbol) /\ UNCHANGED stopShown BY <2>1 DEF OnPositions
    <3> QED BY <1>2, <3>1, TakeActionType
  <2>2. CASE had /\ ~has /\ stopShown
    <3>1. Send(<<CancelStop>>) /\ stopShown' = FALSE /\ UNCHANGED <<symbol, lastPrice, slotVars>>
      BY <2>2 DEF OnPositions
    <3> QED BY <1>2, <3>1, RequestMade, Joined DEF Send, slotVars
  <2>3. CASE ~(~had /\ has) /\ ~(had /\ ~has /\ stopShown)
    <3>1. UNCHANGED <<symbol, lastPrice, toServer, stopShown, slotVars>>
      BY <2>3 DEF OnPositions
    <3> QED BY <1>2, <3>1 DEF slotVars
  <2> QED BY <2>1, <2>2, <2>3
<1> QED BY <1>1, <1>3 DEF OnPositions, TypeOK, serverVars

LEMMA StopSetType ==
  ASSUME TypeOK, OnStopSet, UNCHANGED setting
  PROVE  TypeOK'
<1>1. \/ Receive("tsSet") /\ UNCHANGED stopShown
      \/ Receive("asSet") /\ stopShown' = TRUE
  BY DEF OnStopSet
<1>2. /\ toClient' \in Seq(Messages) /\ Head(toClient).symbol \in Symbols
      /\ stopShown' \in BOOLEAN
  BY <1>1, Received, MessageShape DEF TypeOK
<1>3. TakeAction(Head(toClient).symbol) BY DEF OnStopSet
<1>4. /\ pendingAction' \in Chained \cup {Null} /\ toServer' \in Seq(Requests)
      /\ symbol' \in Symbols /\ lastPrice' \in Places /\ pendingRisk' \in Risks \cup {Null}
      /\ ran' \in [Cmds -> Nat] /\ placed' \in [Cmds -> [Steps -> Nat]]
  BY <1>2, <1>3, TakeActionType
<1> QED BY <1>2, <1>4 DEF OnStopSet, TypeOK, serverVars

LEMMA TickerType ==
  ASSUME TypeOK, OnTicker, UNCHANGED setting
  PROVE  TypeOK'
<1> DEFINE m == Head(toClient)
<1>1. m \in Messages /\ m.symbol \in Symbols /\ toClient' \in Seq(Messages)
  BY Received, MessageShape DEF OnTicker
<1>2. /\ pendingRisk \in Risks \cup {Null} /\ toServer \in Seq(Requests)
      /\ placed \in [Cmds -> [Steps -> Nat]] /\ lastPrice \in Places
  BY DEF TypeOK
<1>3. /\ pendingRisk' \in Risks \cup {Null} /\ toServer' \in Seq(Requests)
      /\ placed' \in [Cmds -> [Steps -> Nat]] /\ lastPrice' \in Places
  <2>1. CASE pendingRisk # Null /\ Awaited(m)
    <3> DEFINE n == pendingRisk.cmd
               i == pendingRisk.step
    <3>1. n \in Cmds /\ i \in Nat BY <1>2, <2>1 DEF Risks
    <3>2. Order(n, i, FALSE) \in Requests BY <3>1, RequestMade
    <3>3. /\ pendingRisk' = Null /\ lastPrice' = m.symbol
          /\ \/ /\ Send(<<Order(n, i, FALSE)>>)
                /\ placed' = [placed EXCEPT ![n][i] = placed[n][i] + 1]
             \/ UNCHANGED <<toServer, placed>>
      BY <2>1 DEF OnTicker, Settled
    <3>4. toServer \o <<Order(n, i, FALSE)>> \in Seq(Requests)
      BY <1>2, <3>2, Joined
    <3>5. toServer' \in Seq(Requests) BY <1>2, <3>3, <3>4 DEF Send
    <3>6. placed' \in [Cmds -> [Steps -> Nat]]
      <4>1. CASE placed' = [placed EXCEPT ![n][i] = placed[n][i] + 1]
        <5> HIDE DEF n, i
        <5> QED BY <1>2, <3>1, <4>1, CountedOnce
      <4>2. CASE placed' = placed BY <1>2, <4>2
      <4> QED BY <3>3, <4>1, <4>2
    <3> QED BY <1>1, <1>2, <3>1, <3>3, <3>5, <3>6 DEF Places
  <2>2. CASE ~(pendingRisk # Null /\ Awaited(m))
    <3>1. UNCHANGED <<pendingRisk, toServer, placed>> /\ lastPrice' \in {m.symbol, lastPrice}
      BY <2>2 DEF OnTicker, Settled
    <3> QED BY <1>1, <1>2, <3>1 DEF Places
  <2> QED BY <2>1, <2>2
<1> QED BY <1>1, <1>3 DEF OnTicker, TypeOK, serverVars

LEMMA ProcessType ==
  ASSUME TypeOK, ProcessMessages
  PROVE  TypeOK'
<1> USE DEF appVars, serverVars, slotVars
<1>0. setting' = setting BY DEF ProcessMessages
<1>1. CASE OnOrderPlaced BY <1>0, <1>1, OrderPlacedType
<1>2. CASE OnPositions BY <1>0, <1>2, PositionsType
<1>3. CASE OnStopSet BY <1>0, <1>3, StopSetType
<1>4. CASE OnStopStatus
  <2>1. toClient' \in Seq(Messages) /\ stopShown' \in BOOLEAN
    BY <1>4, Received, MessageShape DEF OnStopStatus
  <2> QED BY <1>0, <1>4, <2>1 DEF OnStopStatus, TypeOK
<1>5. CASE OnTicker BY <1>0, <1>5, TickerType
<1>6. CASE OnTrade
  <2>1. toClient' \in Seq(Messages) /\ lastPrice' \in Places
    BY <1>6, Received, MessageShape DEF OnTrade, Places
  <2> QED BY <1>0, <1>6, <2>1 DEF OnTrade, TypeOK
<1>7. CASE OnError
  <2>1. toClient' \in Seq(Messages) BY <1>7, Received DEF OnError
  <2> QED BY <1>0, <1>7, <2>1 DEF OnError, TypeOK
<1> QED BY <1>1, <1>2, <1>3, <1>4, <1>5, <1>6, <1>7 DEF ProcessMessages

\* A request changes the account and the session, and leaves an answer.
LEMMA HandledType ==
  ASSUME TypeOK, NEW type, Take(type), UNCHANGED setting,
         held' \subseteq Symbols, cache' \in {Null} \cup SUBSET Symbols,
         stopOn' \in Places, restored' \in BOOLEAN, chart' \in Places,
         reply' \in Messages \cup {Null}
  PROVE  TypeOK'
BY Taken DEF TypeOK, appVars

LEMMA HandleType ==
  ASSUME TypeOK, Handle
  PROVE  TypeOK'
<1>0. setting' = setting BY DEF Handle
<1>a. /\ held \subseteq Symbols /\ cache \in {Null} \cup SUBSET Symbols
      /\ stopOn \in Places /\ chart \in Places /\ reply \in Messages \cup {Null}
      /\ restored \in BOOLEAN
  BY DEF TypeOK
<1>b. Error \in Messages /\ \A S \in SUBSET Symbols : Positions(S) \in Messages
  BY MessageMade
<1>1. CASE HandleOrder
  <2>1. Take("order") BY <1>1 DEF HandleOrder
  <2>2. Head(toServer) \in Requests /\ Head(toServer).type = "order" BY <2>1, Taken
  <2>3. Head(toServer).symbol \in Symbols /\ OrderPlaced(Head(toServer)) \in Messages
    BY <2>2, RequestShape, MessageMade
  <2>4. /\ held' \subseteq Symbols /\ cache' \in {Null} \cup SUBSET Symbols
        /\ stopOn' \in Places /\ restored' \in BOOLEAN /\ chart' \in Places
        /\ reply' \in Messages \cup {Null}
    <3>1. held' \in {held, held \cup {Head(toServer).symbol}} /\ cache' \in {cache, Null}
      BY <1>1 DEF HandleOrder
    <3>2. reply' \in {OrderPlaced(Head(toServer)), Error} /\ UNCHANGED <<stopOn, restored, chart>>
      BY <1>1 DEF HandleOrder
    <3> QED BY <1>a, <1>b, <2>3, <3>1, <3>2
  <2> QED BY <1>0, <2>1, <2>4, HandledType
<1>2. CASE HandleClose
  <2>1. Take("close") BY <1>2 DEF HandleClose
  <2>2. OrderPlaced([limit |-> FALSE, cmd |-> NoCmd]) \in Messages BY MessageMade
  <2>4. /\ held' \subseteq Symbols /\ cache' \in {Null} \cup SUBSET Symbols
        /\ stopOn' \in Places /\ restored' \in BOOLEAN /\ chart' \in Places
        /\ reply' \in Messages \cup {Null}
    <3>1. held' \in {held, held \ {Head(toServer).symbol}} /\ cache' \in {cache, Null}
      BY <1>2 DEF HandleClose
    <3>2. /\ reply' \in {OrderPlaced([limit |-> FALSE, cmd |-> NoCmd]), Error}
          /\ UNCHANGED <<stopOn, restored, chart>>
      BY <1>2 DEF HandleClose
    <3> QED BY <1>a, <1>b, <2>2, <3>1, <3>2
  <2> QED BY <1>0, <2>1, <2>4, HandledType
<1>3. CASE HandlePositions
  <2>1. Take("positions") BY <1>3 DEF HandlePositions
  <2>4. /\ held' \subseteq Symbols /\ cache' \in {Null} \cup SUBSET Symbols
        /\ stopOn' \in Places /\ restored' \in BOOLEAN /\ chart' \in Places
        /\ reply' \in Messages \cup {Null}
    <3>1. /\ cache' \in {cache, held} /\ UNCHANGED <<held, stopOn, restored, chart>>
          /\ \/ cache # Null /\ reply' = Positions(cache)
             \/ reply' \in {Positions(held), Error}
      BY <1>3 DEF HandlePositions
    <3> QED BY <1>a, <1>b, <3>1
  <2> QED BY <1>0, <2>1, <2>4, HandledType
<1>4. CASE HandleTicker
  <2>1. Take("ticker") BY <1>4 DEF HandleTicker
  <2>2. Head(toServer).symbol \in Symbols BY <2>1, Taken, RequestShape
  <2>4. /\ held' \subseteq Symbols /\ cache' \in {Null} \cup SUBSET Symbols
        /\ stopOn' \in Places /\ restored' \in BOOLEAN /\ chart' \in Places
        /\ reply' \in Messages \cup {Null}
    BY <1>4, <1>a, <2>2, MessageMade DEF HandleTicker, Ticker
  <2> QED BY <1>0, <2>1, <2>4, HandledType
<1>5. CASE HandleStop
  <2>1. CASE Take("ts")
    <3>1. Head(toServer).symbol \in Symbols /\ Head(toServer).type = "ts"
      BY <2>1, Taken, RequestShape
    <3>2. /\ held' \subseteq Symbols /\ cache' \in {Null} \cup SUBSET Symbols
          /\ stopOn' \in Places /\ restored' \in BOOLEAN /\ chart' \in Places
        /\ reply' \in Messages \cup {Null}
      BY <1>5, <1>a, <3>1, MessageMade DEF HandleStop, Take
    <3> QED BY <1>0, <2>1, <3>2, HandledType
  <2>2. CASE Take("as")
    <3>1. Head(toServer).symbol \in Symbols /\ Head(toServer).type = "as"
      BY <2>2, Taken, RequestShape
    <3>2. /\ held' \subseteq Symbols /\ cache' \in {Null} \cup SUBSET Symbols
          /\ stopOn' \in Places /\ restored' \in BOOLEAN /\ chart' \in Places
        /\ reply' \in Messages \cup {Null}
      BY <1>5, <1>a, <3>1, MessageMade DEF HandleStop, Take, Places
    <3> QED BY <1>0, <2>2, <3>2, HandledType
  <2>3. CASE Take("cancelStop")
    <3>1. Head(toServer).type = "cancelStop" BY <2>3, Taken
    <3>2. /\ held' \subseteq Symbols /\ cache' \in {Null} \cup SUBSET Symbols
          /\ stopOn' \in Places /\ restored' \in BOOLEAN /\ chart' \in Places
        /\ reply' \in Messages \cup {Null}
      BY <1>5, <1>a, <3>1, MessageMade DEF HandleStop, Take, Places
    <3> QED BY <1>0, <2>3, <3>2, HandledType
  <2> QED BY <1>5, <2>1, <2>2, <2>3 DEF HandleStop
<1>6. CASE HandleOther
  <2>1. CASE Take("plan") /\ UNCHANGED chart
    BY <1>0, <1>6, <1>a, <2>1, HandledType DEF HandleOther
  <2>2. CASE Take("subscribe") /\ chart' = Head(toServer).symbol
    <3>1. Head(toServer).symbol \in Places BY <2>2, Taken, RequestShape
    <3> QED BY <1>0, <1>6, <1>a, <2>2, <3>1, HandledType DEF HandleOther
  <2> QED BY <1>6, <2>1, <2>2 DEF HandleOther
<1>7. CASE Answer
  <2>1. reply \in Messages BY <1>7, <1>a DEF Answer
  <2>2. toClient' \in Seq(Messages) BY <1>7, <2>1, Joined DEF Answer, Push, TypeOK
  <2> QED BY <1>0, <1>7, <2>2 DEF Answer, TypeOK, appVars
<1> QED BY <1>1, <1>2, <1>3, <1>4, <1>5, <1>6, <1>7 DEF Handle

LEMMA UnaskedType ==
  ASSUME TypeOK, Unasked
  PROVE  TypeOK'
<1> USE DEF appVars, serverVars, slotVars
<1>0. setting' = setting BY DEF Unasked
<1>a. /\ held \subseteq Symbols /\ stopOn \in Places /\ chart \in Places
      /\ toClient \in Seq(Messages) /\ restored \in BOOLEAN
  BY DEF TypeOK
<1>b. StopStatus(TRUE) \in Messages /\ StopStatus(FALSE) \in Messages /\ Error \in Messages
  BY MessageMade
<1>1. CASE Timer
  <2>1. toClient' \in Seq(Messages)
    BY <1>1, <1>a, <1>b, Joined DEF Timer, Push
  <2>2. held' \subseteq Symbols /\ stopOn' \in Places
    BY <1>1, <1>a DEF Timer, Places
  <2> QED BY <1>0, <1>1, <2>1, <2>2 DEF Timer, TypeOK
<1>2. CASE ForwardTrade
  <2>1. chart \in Symbols BY <1>2, <1>a DEF ForwardTrade, Places
  <2>2. toClient' \in Seq(Messages)
    BY <1>2, <1>a, <2>1, MessageMade, Joined DEF ForwardTrade, Push
  <2> QED BY <1>0, <1>2, <2>2 DEF ForwardTrade, TypeOK
<1>3. ASSUME NEW s \in Symbols, PositionMoves(s)
      PROVE  TypeOK'
  <2> DEFINE ends == stopOn # NoSymbol /\ (stopOn # s \/ s \notin held')
  <2>1. Positions({s}) \in Messages BY MessageMade
  <2>2. /\ toClient \o <<>> \in Seq(Messages) /\ toClient \o <<StopStatus(FALSE)>> \in Seq(Messages)
    BY <1>a, <1>b, Joined
  <2>3. /\ toClient \o <<>> \o <<Positions({s})>> \in Seq(Messages)
        /\ toClient \o <<StopStatus(FALSE)>> \o <<Positions({s})>> \in Seq(Messages)
    BY <2>1, <2>2, Joined
  <2>4. toClient' \in Seq(Messages) /\ stopOn' \in Places /\ restored' \in BOOLEAN
    BY <1>3, <1>a, <2>3 DEF PositionMoves, Places
  <2>5. held' \subseteq Symbols
    BY <1>3, <1>a DEF PositionMoves
  <2> QED BY <1>0, <1>3, <2>4, <2>5 DEF PositionMoves, TypeOK
<1> QED BY <1>1, <1>2, <1>3 DEF Unasked

LEMMA TypeKept == TypeOK /\ [Next]_vars => TypeOK'
<1> SUFFICES ASSUME TypeOK, [Next]_vars PROVE TypeOK' OBVIOUS
<1>1. CASE UNCHANGED vars
  BY <1>1 DEF vars, appVars, serverVars, TypeOK
<1> QED BY <1>1, CommandType, ProcessType, HandleType, UnaskedType DEF Next

\* Type correctness of the application, its queues, the session and the history.
THEOREM ClientTypeCorrect == Spec => []TypeOK
<1>1. Init => TypeOK
  <2> SUFFICES ASSUME Init PROVE TypeOK OBVIOUS
  <2>1. toServer \in Seq(Requests) /\ toClient \in Seq(Messages) BY EmptySeq DEF Init
  <2>2. cmds \in 0 .. MaxCmds BY ClientConstants DEF Init
  <2>3. ran \in [Cmds -> Nat] /\ placed \in [Cmds -> [Steps -> Nat]] /\ restored \in BOOLEAN
    BY DEF Init, RestoreStop
  <2>4. lastPrice \in Places /\ stopOn \in Places /\ chart \in Places
    BY DEF Init, RestoreStop, Places
  <2> QED BY <2>1, <2>2, <2>3, <2>4 DEF Init, TypeOK
<1> QED BY <1>1, TypeKept, PTL DEF Spec

-----------------------------------------------------------------------------
(* What a command waits for, and what has been done for it *)

\* Nothing is done for a command before it is typed, nor for an action behind it before it
\* is taken up; the slots hold commands that were typed, and the order of a waiting risk
\* order has not been sent.
ChainInv ==
  /\ \A n \in Cmds : n > cmds => ran[n] = 0
  /\ pendingAction # Null => pendingAction.cmd <= cmds
  /\ ChainInStep
RiskWaits ==
  pendingRisk # Null =>
    /\ pendingRisk.cmd <= cmds
    /\ pendingRisk.step <= ran[pendingRisk.cmd]
    /\ pendingRisk.step \in Steps => placed[pendingRisk.cmd][pendingRisk.step] = 0
OrderInv ==
  /\ \A n \in Cmds, i \in Steps : n > cmds \/ i > ran[n] => placed[n][i] = 0
  /\ RiskWaits
  /\ OrderOnce
HistoryInv == ChainInv /\ OrderInv

\* What a step may do with the chain that waits.
LEMMA ChainSteps ==
  ASSUME TypeOK, Next
  PROVE  \/ \E chain \in Chains : PipedCommand(chain)
         \/ OnOrderPlaced
         \/ UNCHANGED cmds /\ \E s \in Symbols : TakeAction(s)
         \/ UNCHANGED <<pendingAction, ran>> /\ cmds' \in {cmds, cmds + 1}
<1> USE DEF appVars, serverVars, slotVars
<1>1. CASE Command
  BY <1>1 DEF Command, Typed, SingleCommand, StopCommand, ClosePosition, SelectSymbol, AutoRefresh
<1>2. CASE ProcessMessages
  <2>1. CASE OnPositions
    <3>1. \/ TakeAction(symbol) /\ UNCHANGED stopShown
          \/ UNCHANGED <<pendingAction, ran>>
      BY <2>1 DEF OnPositions
    <3> QED BY <2>1, <3>1 DEF OnPositions, TypeOK
  <2>2. CASE OnStopSet
    <3>1. Head(toClient).symbol \in Symbols BY <2>2, Received, MessageShape DEF OnStopSet
    <3> QED BY <2>2, <3>1 DEF OnStopSet
  <2> QED BY <1>2, <2>1, <2>2 DEF ProcessMessages, OnStopStatus, OnTicker, OnTrade, OnError
<1>3. CASE Handle
  <2>1. CASE Answer BY <2>1 DEF Answer
  <2>2. CASE \E type \in {"order", "close", "positions", "ticker", "ts", "as", "cancelStop",
                          "plan", "subscribe"} : Take(type)
    BY <2>2 DEF Take
  <2> QED BY <1>3, <2>1, <2>2 DEF Handle, HandleOrder, HandleClose, HandlePositions,
            HandleTicker, HandleStop, HandleOther
<1>4. CASE Unasked
  BY <1>4 DEF Unasked, Timer, ForwardTrade, PositionMoves
<1> QED BY <1>1, <1>2, <1>3, <1>4 DEF Next

\* What a step may do with the risk order that waits.
LEMMA OrderSteps ==
  ASSUME TypeOK, Next
  PROVE  \/ Typed /\ FirstCommand(cmds') /\ UNCHANGED ran
         \/ OnTicker
         \/ UNCHANGED cmds /\ \E s \in Symbols : TakeAction(s)
         \/ /\ UNCHANGED <<pendingRisk, placed>> /\ cmds' \in {cmds, cmds + 1}
            /\ \A n \in Cmds : ran'[n] >= ran[n]
<1> USE DEF appVars, serverVars, slotVars
<1>0. ran \in [Cmds -> Nat] BY DEF TypeOK
<1>a. UNCHANGED ran => \A n \in Cmds : ran'[n] >= ran[n] BY <1>0
<1>1. CASE Command
  BY <1>1, <1>a DEF Command, Typed, SingleCommand, PipedCommand, StopCommand, ClosePosition,
       SelectSymbol, AutoRefresh
<1>2. CASE ProcessMessages
  <2>1. CASE OnPositions
    <3>1. \/ TakeAction(symbol) /\ UNCHANGED stopShown
          \/ UNCHANGED <<pendingRisk, placed, ran>>
      BY <2>1 DEF OnPositions
    <3> QED BY <1>a, <2>1, <3>1 DEF OnPositions, TypeOK
  <2>2. CASE OnStopSet
    <3>1. Head(toClient).symbol \in Symbols BY <2>2, Received, MessageShape DEF OnStopSet
    <3> QED BY <2>2, <3>1 DEF OnStopSet
  <2>3. CASE OnOrderPlaced
    <3> DEFINE a == pendingAction
    <3>1. CASE UNCHANGED ran BY <1>a, <2>3, <3>1 DEF OnOrderPlaced
    <3>2. CASE a # Null /\ ran' = [ran EXCEPT ![a.cmd] = ran[a.cmd] + Len(a.left)]
      <4>1. Len(a.left) \in Nat BY <3>2 DEF TypeOK, Chained
      <4>2. \A n \in Cmds : ran'[n] >= ran[n] BY <1>0, <3>2, <4>1
      <4> QED BY <2>3, <4>2 DEF OnOrderPlaced
    <3> QED BY <2>3, <3>1, <3>2 DEF OnOrderPlaced
  <2> QED BY <1>2, <1>a, <2>1, <2>2, <2>3 DEF ProcessMessages, OnStopStatus, OnTrade, OnError
<1>3. CASE Handle
  <2>1. CASE Answer BY <1>a, <2>1 DEF Answer
  <2>2. CASE \E type \in {"order", "close", "positions", "ticker", "ts", "as", "cancelStop",
                          "plan", "subscribe"} : Take(type)
    BY <1>a, <2>2 DEF Take
  <2> QED BY <1>3, <2>1, <2>2 DEF Handle, HandleOrder, HandleClose, HandlePositions,
            HandleTicker, HandleStop, HandleOther
<1>4. CASE Unasked
  BY <1>4, <1>a DEF Unasked, Timer, ForwardTrade, PositionMoves
<1> QED BY <1>1, <1>2, <1>3, <1>4 DEF Next

\* Taking the first action of what is left leaves what comes after it.
LEMMA LeftAfter ==
  ASSUME NEW list \in Seq(Kinds), NEW r \in Nat, NEW left \in Seq(Kinds), Len(left) > 1,
         left = SubSeq(list, r + 1, Len(list))
  PROVE  Tail(left) = SubSeq(list, (r + 1) + 1, Len(list))
<1>0. Len(list) \in Nat BY LenProperties
<1>1. r + 1 <= Len(list)
  <2>1. left # <<>> BY ONLY Len(left) > 1, EmptySeq
  <2>2. Len(list) < r + 1 => left = <<>> BY <1>0, SubSeqEmpty
  <2> QED BY <1>0, <2>1, <2>2
<1>2. r + 1 \in 1 .. Len(list) /\ Len(list) \in (r + 1) .. Len(list) BY <1>0, <1>1
<1> QED BY <1>2, HeadTailOfSubSeq

LEMMA ChainKept ==
  ASSUME TypeOK, TypeOK', HistoryInv, Next
  PROVE  ChainInv'
<1>0. /\ pendingAction \in Chained \cup {Null} /\ ran \in [Cmds -> Nat]
      /\ cmds \in Nat /\ cmds <= MaxCmds /\ MaxCmds \in Nat
  BY ClientConstants DEF TypeOK
<1>1. /\ \A n \in Cmds : n > cmds => ran[n] = 0
      /\ pendingAction # Null => pendingAction.cmd <= cmds
      /\ pendingAction # Null =>
           pendingAction.left = SubSeq(pendingAction.list, ran[pendingAction.cmd] + 1,
                                       Len(pendingAction.list))
  BY DEF HistoryInv, ChainInv, ChainInStep
<1>2. ASSUME NEW chain \in Chains, PipedCommand(chain)
      PROVE  ChainInv'
  <2>1. cmds' = cmds + 1 /\ cmds' \in Cmds BY <1>2, NewCommand DEF PipedCommand
  <2>2. /\ pendingAction' = [cmd |-> cmds', symbol |-> symbol, list |-> chain, left |-> chain]
        /\ ran' = ran
    BY <1>2 DEF PipedCommand
  <2>3. ran'[cmds'] = 0 BY <1>0, <1>1, <2>1, <2>2
  <2>4. chain = SubSeq(chain, 0 + 1, Len(chain))
    BY SubSeqFull, ClientConstants
  <2>5. ChainInStep' BY <2>2, <2>3, <2>4 DEF ChainInStep
  <2>6. \A n \in Cmds : n > cmds' => ran'[n] = 0 BY <1>0, <1>1, <2>1, <2>2 DEF Cmds
  <2> QED BY <2>1, <2>2, <2>5, <2>6 DEF ChainInv, Cmds
<1>3. CASE OnOrderPlaced
  <2> DEFINE m == Head(toClient)
             a == pendingAction
  <2>0. cmds' = cmds BY <1>3 DEF OnOrderPlaced
  <2>1. CASE UNCHANGED <<pendingAction, ran>>
    BY <1>1, <2>0, <2>1 DEF ChainInv, ChainInStep
  <2>2. CASE ~(~m.limit \/ a = Null)
    <3>1. pendingAction' = Null BY <1>3, <2>2 DEF OnOrderPlaced
    <3>2. a.cmd \in Cmds /\ a.cmd <= cmds BY <1>0, <1>1, <2>2 DEF Chained
    <3>3. ran' = ran \/ ran' = [ran EXCEPT ![a.cmd] = ran[a.cmd] + Len(a.left)]
      BY <1>3, <2>2 DEF OnOrderPlaced
    <3>4. \A n \in Cmds : n > cmds => ran'[n] = ran[n]
      BY <1>0, <3>2, <3>3 DEF Cmds
    <3> QED BY <1>1, <2>0, <3>1, <3>4 DEF ChainInv, ChainInStep
  <2> QED BY <1>3, <2>1, <2>2 DEF OnOrderPlaced
<1>4. ASSUME NEW s \in Symbols, TakeAction(s), UNCHANGED cmds
      PROVE  ChainInv'
  <2> DEFINE a == pendingAction
  <2>1. CASE pendingAction = Null \/ pendingAction.symbol # s
    BY <1>1, <1>4, <2>1 DEF TakeAction, ChainInv, ChainInStep
  <2>2. CASE ~(pendingAction = Null \/ pendingAction.symbol # s)
    <3>1. RunChain(a) BY <1>4, <2>2 DEF TakeAction
    <3>2. /\ a \in Chained /\ a.cmd \in Cmds /\ a.cmd <= cmds /\ a.list \in Seq(Kinds)
          /\ a.left \in Seq(Kinds)
      BY <1>0, <1>1, <2>2 DEF Chained
    <3>3. ran' = [ran EXCEPT ![a.cmd] = ran[a.cmd] + 1] /\ pendingAction' = Rest(a)
      BY <3>1 DEF RunChain
    <3>4. \A n \in Cmds : n > cmds => ran'[n] = 0
      BY <1>0, <1>1, <3>2, <3>3 DEF Cmds
    <3>5. CASE Len(a.left) > 1
      <4>1. pendingAction' = [a EXCEPT !.left = Tail(a.left)] BY <3>3, <3>5 DEF Rest
      <4>2. /\ pendingAction'.cmd = a.cmd /\ pendingAction'.list = a.list
            /\ pendingAction'.left = Tail(a.left)
        BY <3>2, <4>1 DEF Chained
      <4>3. ran[a.cmd] \in Nat /\ ran'[a.cmd] = ran[a.cmd] + 1 BY <1>0, <3>2, <3>3
      <4>4. Tail(a.left) = SubSeq(a.list, (ran[a.cmd] + 1) + 1, Len(a.list))
        BY <1>1, <2>2, <3>2, <3>5, <4>3, LeftAfter
      <4>5. ChainInStep' BY <4>2, <4>3, <4>4 DEF ChainInStep
      <4> QED BY <1>4, <3>2, <3>4, <4>2, <4>5 DEF ChainInv
    <3>6. CASE ~(Len(a.left) > 1)
      <4>1. pendingAction' = Null BY <3>3, <3>6 DEF Rest
      <4> QED BY <1>4, <3>4, <4>1 DEF ChainInv, ChainInStep
    <3> QED BY <3>5, <3>6
  <2> QED BY <2>1, <2>2
<1>5. CASE UNCHANGED <<pendingAction, ran>> /\ cmds' \in {cmds, cmds + 1}
  <2>1. \A n \in Cmds : n > cmds' => n > cmds BY <1>0, <1>5 DEF Cmds
  <2>2. pendingAction' # Null => pendingAction'.cmd <= cmds'
    <3> SUFFICES ASSUME pendingAction' # Null PROVE pendingAction'.cmd <= cmds' OBVIOUS
    <3>1. pendingAction.cmd \in Cmds BY <1>0, <1>5 DEF Chained
    <3> QED BY <1>0, <1>1, <1>5, <3>1 DEF Cmds
  <2> QED BY <1>1, <1>5, <2>1, <2>2 DEF ChainInv, ChainInStep
<1> QED BY <1>2, <1>3, <1>4, <1>5, ChainSteps

LEMMA Indices == Cmds \subseteq Nat /\ Steps \subseteq Nat
<1>1. \A n \in Cmds : n \in Nat BY ClientConstants DEF Cmds
<1>2. \A i \in Steps : i \in Nat BY ClientConstants DEF Steps
<1> QED BY <1>1, <1>2

\* An order goes out for a step it has not gone out for, and no risk order waits for it.
LEMMA OrderSent ==
  ASSUME TypeOK, TypeOK', HistoryInv, NEW n \in Cmds, NEW i \in Nat, NEW limit \in BOOLEAN,
         PlaceOrder(n, i, limit), n > cmds \/ i > ran[n],
         cmds' \in {cmds, cmds + 1}, n <= cmds', i <= ran'[n],
         \A m \in Cmds : ran'[m] >= ran[m]
  PROVE  OrderInv'
<1>a. /\ pendingRisk \in Risks \cup {Null} /\ placed \in [Cmds -> [Steps -> Nat]]
      /\ ran \in [Cmds -> Nat] /\ ran' \in [Cmds -> Nat] /\ cmds \in Nat
  BY DEF TypeOK
<1>b. pendingRisk # Null => pendingRisk.cmd \in Cmds /\ pendingRisk.step \in Nat
  BY <1>a DEF Risks
<1>0. /\ placed \in [Cmds -> [Steps -> Nat]]
      /\ ran \in [Cmds -> Nat] /\ ran' \in [Cmds -> Nat] /\ cmds \in Nat
      /\ pendingRisk # Null => pendingRisk.cmd \in Cmds /\ pendingRisk.step \in Nat
      /\ Cmds \subseteq Nat /\ Steps \subseteq Nat
  BY <1>a, <1>b, Indices
<1>1. /\ \A m \in Cmds, j \in Steps : m > cmds \/ j > ran[m] => placed[m][j] = 0
      /\ \A m \in Cmds, j \in Steps : placed[m][j] <= 1
      /\ RiskWaits
  BY DEF HistoryInv, OrderInv, OrderOnce
<1>2. /\ placed' = [placed EXCEPT ![n][i] = placed[n][i] + 1]
      /\ pendingRisk' = pendingRisk
  BY DEF PlaceOrder
<1>3. \A m \in Cmds, j \in Steps :
        placed'[m][j] = IF m = n /\ j = i THEN placed[m][j] + 1 ELSE placed[m][j]
  BY <1>0, <1>2, CountedOnce
<1>4. \A m \in Cmds, j \in Steps : placed'[m][j] = IF m = n /\ j = i THEN 1 ELSE placed[m][j]
  <2> SUFFICES ASSUME NEW m \in Cmds, NEW j \in Steps
               PROVE  placed'[m][j] = IF m = n /\ j = i THEN 1 ELSE placed[m][j]
    OBVIOUS
  <2>1. m = n /\ j = i => placed[m][j] = 0 BY <1>1
  <2> QED BY <1>3, <2>1
<1>5. ASSUME NEW m \in Cmds, NEW j \in Steps, m > cmds' \/ j > ran'[m]
      PROVE  placed'[m][j] = 0
  <2>1. ~(m = n /\ j = i) BY <1>0, <1>5
  <2>2. m > cmds \/ j > ran[m] BY <1>0, <1>5
  <2> QED BY <1>1, <1>4, <2>1, <2>2
<1>6. RiskWaits'
  <2> SUFFICES ASSUME pendingRisk # Null
               PROVE  /\ pendingRisk.cmd <= cmds' /\ pendingRisk.step <= ran'[pendingRisk.cmd]
                      /\ pendingRisk.step \in Steps
                           => placed'[pendingRisk.cmd][pendingRisk.step] = 0
    BY <1>2 DEF RiskWaits
  <2> DEFINE c == pendingRisk.cmd
             k == pendingRisk.step
  <2>1. /\ c \in Cmds /\ k \in Nat /\ c <= cmds /\ k <= ran[c]
        /\ k \in Steps => placed[c][k] = 0
    BY <1>0, <1>1 DEF RiskWaits
  <2> HIDE DEF c, k
  <2>2. c <= cmds' /\ k <= ran'[c] BY <1>0, <2>1
  <2>3. ~(c = n /\ k = i) BY <1>0, <2>1
  <2>4. k \in Steps => placed'[c][k] = 0 BY <1>4, <2>1, <2>3
  <2> QED BY <2>2, <2>4 DEF c, k
<1>7. OrderOnce' BY <1>1, <1>4 DEF OrderOnce
<1> QED BY <1>5, <1>6, <1>7 DEF OrderInv

\* A risk order is put into the slot for a step no order has gone out for.
LEMMA OrderWaits ==
  ASSUME TypeOK, TypeOK', HistoryInv, NEW n \in Cmds, NEW i \in Nat,
         PlaceRiskOrder(n, i), n > cmds \/ i > ran[n],
         cmds' \in {cmds, cmds + 1}, n <= cmds', i <= ran'[n],
         \A m \in Cmds : ran'[m] >= ran[m]
  PROVE  OrderInv'
<1>0. /\ ran \in [Cmds -> Nat] /\ ran' \in [Cmds -> Nat] /\ cmds \in Nat
      /\ Cmds \subseteq Nat /\ Steps \subseteq Nat
  BY Indices DEF TypeOK
<1>1. /\ \A m \in Cmds, j \in Steps : m > cmds \/ j > ran[m] => placed[m][j] = 0
      /\ OrderOnce
  BY DEF HistoryInv, OrderInv
<1>2. /\ placed' = placed
      /\ pendingRisk' = [cmd |-> n, step |-> i, symbol |-> symbol]
  BY DEF PlaceRiskOrder
<1>3. \A m \in Cmds, j \in Steps : m > cmds' \/ j > ran'[m] => m > cmds \/ j > ran[m]
  BY <1>0
<1>4. i \in Steps => placed[n][i] = 0 BY <1>1
<1>5. RiskWaits' BY <1>2, <1>4 DEF RiskWaits
<1> QED BY <1>1, <1>2, <1>3, <1>5 DEF OrderInv, OrderOnce

\* Nothing ordered, nothing put into the slot.
LEMMA OrderStays ==
  ASSUME TypeOK, TypeOK', HistoryInv, UNCHANGED <<pendingRisk, placed>>,
         cmds' \in {cmds, cmds + 1}, \A m \in Cmds : ran'[m] >= ran[m]
  PROVE  OrderInv'
<1>0. /\ ran \in [Cmds -> Nat] /\ ran' \in [Cmds -> Nat] /\ cmds \in Nat
      /\ pendingRisk # Null => pendingRisk.cmd \in Cmds /\ pendingRisk.step \in Nat
      /\ Cmds \subseteq Nat /\ Steps \subseteq Nat
  BY Indices DEF TypeOK, Risks
<1>1. /\ \A m \in Cmds, j \in Steps : m > cmds \/ j > ran[m] => placed[m][j] = 0
      /\ RiskWaits /\ OrderOnce
  BY DEF HistoryInv, OrderInv
<1>2. \A m \in Cmds, j \in Steps : m > cmds' \/ j > ran'[m] => m > cmds \/ j > ran[m]
  BY <1>0
<1>3. RiskWaits'
  <2> SUFFICES ASSUME pendingRisk # Null
               PROVE  pendingRisk.cmd <= cmds' /\ pendingRisk.step <= ran'[pendingRisk.cmd]
    BY <1>1 DEF RiskWaits
  <2> DEFINE c == pendingRisk.cmd
             k == pendingRisk.step
  <2>1. c \in Cmds /\ k \in Nat /\ c <= cmds /\ k <= ran[c]
    BY <1>0, <1>1 DEF RiskWaits
  <2> HIDE DEF c, k
  <2>2. c \in Nat /\ ran[c] \in Nat /\ ran'[c] \in Nat /\ ran'[c] >= ran[c]
    BY <1>0, <2>1
  <2>3. c <= cmds' /\ k <= ran'[c] BY <1>0, <2>1, <2>2
  <2> QED BY <2>3 DEF c, k
<1> QED BY <1>1, <1>2, <1>3 DEF OrderInv, OrderOnce

LEMMA OrderKept ==
  ASSUME TypeOK, TypeOK', HistoryInv, Next
  PROVE  OrderInv'
<1>0. /\ pendingRisk \in Risks \cup {Null} /\ placed \in [Cmds -> [Steps -> Nat]]
      /\ ran \in [Cmds -> Nat] /\ cmds \in Nat
      /\ pendingRisk # Null => pendingRisk.cmd \in Cmds /\ pendingRisk.step \in Nat
      /\ Cmds \subseteq Nat /\ Steps \subseteq Nat
  BY Indices DEF TypeOK, Risks
<1>1. /\ \A n \in Cmds, i \in Steps : n > cmds \/ i > ran[n] => placed[n][i] = 0
      /\ \A n \in Cmds, i \in Steps : placed[n][i] <= 1
      /\ RiskWaits
  BY DEF HistoryInv, OrderInv, OrderOnce
<1>2. CASE Typed /\ FirstCommand(cmds') /\ UNCHANGED ran
  <2>1. cmds' = cmds + 1 /\ cmds' \in Cmds BY <1>2, NewCommand
  <2>2. /\ 0 \in Nat /\ cmds' > cmds /\ cmds' <= cmds' /\ 0 <= ran'[cmds']
        /\ cmds' \in {cmds, cmds + 1} /\ \A m \in Cmds : ran'[m] >= ran[m]
    BY <1>0, <1>2, <2>1
  <2> QED BY <1>2, <2>1, <2>2, OrderSent, OrderWaits DEF FirstCommand
<1>3. CASE OnTicker
  <2> DEFINE m == Head(toClient)
             c == pendingRisk.cmd
             k == pendingRisk.step
  <2>0. cmds' = cmds /\ ran' = ran BY <1>3 DEF OnTicker
  <2>1. CASE pendingRisk # Null /\ Awaited(m)
    <3>1. /\ pendingRisk' = Null
          /\ \/ placed' = [placed EXCEPT ![c][k] = placed[c][k] + 1]
             \/ placed' = placed
      BY <1>3, <2>1 DEF OnTicker, Settled
    <3>2. /\ c \in Cmds /\ k \in Nat /\ c <= cmds /\ k <= ran[c]
          /\ k \in Steps => placed[c][k] = 0
      BY <1>0, <1>1, <2>1 DEF RiskWaits
    <3> HIDE DEF c, k
    <3>3. \A n \in Cmds, i \in Steps :
            placed'[n][i] \in {placed[n][i], IF n = c /\ i = k THEN placed[n][i] + 1
                                                            ELSE placed[n][i]}
      BY <1>0, <3>1, <3>2, CountedOnce
    <3>4. \A n \in Cmds, i \in Steps : placed'[n][i] <= 1
      <4> SUFFICES ASSUME NEW n \in Cmds, NEW i \in Steps PROVE placed'[n][i] <= 1 OBVIOUS
      <4>1. n = c /\ i = k => placed[n][i] = 0 BY <3>2
      <4> QED BY <1>1, <3>3, <4>1
    <3>5. \A n \in Cmds, i \in Steps : n > cmds \/ i > ran[n] => placed'[n][i] = 0
      <4> SUFFICES ASSUME NEW n \in Cmds, NEW i \in Steps, n > cmds \/ i > ran[n]
                   PROVE  placed'[n][i] = 0
        OBVIOUS
      <4>1. ~(n = c /\ i = k) BY <1>0, <3>2
      <4> QED BY <1>1, <3>3, <4>1
    <3> QED BY <2>0, <3>1, <3>4, <3>5 DEF OrderInv, OrderOnce, RiskWaits
  <2>2. CASE ~(pendingRisk # Null /\ Awaited(m))
    <3>1. UNCHANGED <<pendingRisk, placed>> BY <1>3, <2>2 DEF OnTicker, Settled
    <3>2. \A n \in Cmds : ran'[n] >= ran[n] BY <1>0, <2>0
    <3> QED BY <2>0, <3>1, <3>2, OrderStays
  <2> QED BY <2>1, <2>2
<1>4. ASSUME NEW s \in Symbols, TakeAction(s), UNCHANGED cmds
      PROVE  OrderInv'
  <2> DEFINE a == pendingAction
             n == a.cmd
             i == ran[n] + 1
  <2>1. CASE pendingAction = Null \/ pendingAction.symbol # s
    <3>1. UNCHANGED <<pendingRisk, placed, ran>> BY <1>4, <2>1 DEF TakeAction
    <3>2. \A m \in Cmds : ran'[m] >= ran[m] BY <1>0, <3>1
    <3> QED BY <1>4, <3>1, <3>2, OrderStays
  <2>2. CASE ~(pendingAction = Null \/ pendingAction.symbol # s)
    <3>1. /\ RunAction(Head(a.left), n, i)
          /\ ran' = [ran EXCEPT ![n] = ran[n] + 1]
      BY <1>4, <2>2 DEF TakeAction, RunChain
    <3>2. n \in Cmds /\ n <= cmds BY <2>2 DEF TypeOK, Chained, HistoryInv, ChainInv
    <3>3. /\ i \in Nat /\ i > ran[n] /\ n <= cmds' /\ i <= ran'[n]
          /\ \A m \in Cmds : ran'[m] >= ran[m]
      <4> HIDE DEF n
      <4>1. ran[n] \in Nat /\ ran'[n] = ran[n] + 1 BY <1>0, <3>1, <3>2
      <4>2. \A m \in Cmds : m # n => ran'[m] = ran[m] BY <1>0, <3>1
      <4>3. \A m \in Cmds : ran'[m] >= ran[m]
        <5> SUFFICES ASSUME NEW m \in Cmds PROVE ran'[m] >= ran[m] OBVIOUS
        <5>1. ran[m] \in Nat BY <1>0
        <5> QED BY <4>1, <4>2, <5>1
      <4> QED BY <1>0, <1>4, <3>2, <4>1, <4>3
    <3>4. \/ UNCHANGED <<pendingRisk, placed>>
          \/ PlaceRiskOrder(n, i)
          \/ \E limit \in BOOLEAN : PlaceOrder(n, i, limit)
      BY <3>1 DEF RunAction
    <3> HIDE DEF n, i
    <3> QED BY <1>4, <3>2, <3>3, <3>4, OrderStays, OrderWaits, OrderSent
  <2> QED BY <2>1, <2>2
<1>5. CASE /\ UNCHANGED <<pendingRisk, placed>> /\ cmds' \in {cmds, cmds + 1}
           /\ \A n \in Cmds : ran'[n] >= ran[n]
  BY <1>5, OrderStays
<1> QED BY <1>2, <1>3, <1>4, <1>5, OrderSteps

LEMMA History == Spec => []HistoryInv
<1>1. Init => HistoryInv
  BY DEF Init, HistoryInv, ChainInv, OrderInv, RiskWaits, ChainInStep, OrderOnce, Cmds, Steps
<1>2. TypeOK /\ TypeOK' /\ HistoryInv /\ [Next]_vars => HistoryInv'
  <2> SUFFICES ASSUME TypeOK, TypeOK', HistoryInv, [Next]_vars PROVE HistoryInv' OBVIOUS
  <2>1. CASE UNCHANGED vars
    BY <2>1 DEF vars, appVars, HistoryInv, ChainInv, OrderInv, RiskWaits, ChainInStep, OrderOnce
  <2>2. CASE Next
    BY <2>2, ChainKept, OrderKept DEF HistoryInv
  <2> QED BY <2>1, <2>2
<1> QED BY <1>1, <1>2, ClientTypeCorrect, PTL DEF Spec

\* The slot of a chain holds exactly the actions of it that have not been taken up.
THEOREM ChainGoesInStep == Spec => []ChainInStep
BY History, PTL DEF HistoryInv, ChainInv

\* A command and each action behind it send at most one order, also one that waits for a
\* ticker.
THEOREM OneOrderPerCommand == Spec => []OrderOnce
BY History, PTL DEF HistoryInv, OrderInv

-----------------------------------------------------------------------------
(* Tickers and words about the stop that are on their way *)

Has(q, s) == \E i \in 1 .. Len(q) : q[i].type = "ticker" /\ q[i].symbol = s
NoCancel(q) == \A i \in 1 .. Len(q) : q[i].type # "cancelStop"

\* A message that tells whether the session has a stop, and what it tells; the last such
\* message in a queue tells what holds, and without one the application shows what holds.
Says(m)  == m.type \in {"asSet", "stopStatus"}
Means(m) == m.type = "asSet" \/ m.on
Quiet(q, i) == \A j \in i + 1 .. Len(q) : ~Says(q[j])
LastWord(q, shown, on) ==
  /\ \A i \in 1 .. Len(q) : Says(q[i]) /\ Quiet(q, i) => (Means(q[i]) <=> on)
  /\ Quiet(q, 0) => (shown <=> on)

LEMMA HasJoined ==
  ASSUME NEW S, NEW q \in Seq(S), NEW r \in Seq(S), NEW s
  PROVE  Has(q, s) \/ Has(r, s) => Has(q \o r, s)
<1>1. /\ Len(q \o r) = Len(q) + Len(r) /\ Len(q) \in Nat /\ Len(r) \in Nat
      /\ \A i \in 1 .. Len(q) + Len(r) :
           (q \o r)[i] = IF i <= Len(q) THEN q[i] ELSE r[i - Len(q)]
  BY ConcatProperties, LenProperties
<1>2. Has(q, s) => Has(q \o r, s)
  BY <1>1 DEF Has
<1>3. ASSUME Has(r, s) PROVE Has(q \o r, s)
  <2>1. PICK i \in 1 .. Len(r) : r[i].type = "ticker" /\ r[i].symbol = s BY <1>3 DEF Has
  <2>2. /\ Len(q) + i \in 1 .. Len(q \o r) /\ ~(Len(q) + i <= Len(q))
        /\ (Len(q) + i) - Len(q) = i
    BY <1>1, <2>1
  <2>3. (q \o r)[Len(q) + i] = r[i] BY <1>1, <2>2
  <2> QED BY <2>1, <2>2, <2>3 DEF Has
<1> QED BY <1>2, <1>3

LEMMA HasTail ==
  ASSUME NEW S, NEW q \in Seq(S), q # <<>>, NEW s, Has(q, s),
         ~(Head(q).type = "ticker" /\ Head(q).symbol = s)
  PROVE  Has(Tail(q), s)
<1>1. /\ Len(q) \in Nat /\ Len(Tail(q)) = Len(q) - 1
      /\ \A i \in 1 .. Len(Tail(q)) : Tail(q)[i] = q[i + 1]
  BY HeadTailProperties, LenProperties
<1>2. PICK i \in 1 .. Len(q) : q[i].type = "ticker" /\ q[i].symbol = s BY DEF Has
<1>3. Head(q) = q[1] OBVIOUS
<1>4. i # 1 BY <1>2, <1>3
<1>5. i - 1 \in 1 .. Len(Tail(q)) /\ (i - 1) + 1 = i BY <1>1, <1>2, <1>4
<1>6. Tail(q)[i - 1] = q[i] BY <1>1, <1>5
<1> QED BY <1>2, <1>5, <1>6 DEF Has

LEMMA NoCancelJoined ==
  ASSUME NEW S, NEW q \in Seq(S), NEW r \in Seq(S), NoCancel(q \o r)
  PROVE  NoCancel(q)
<1>1. /\ Len(q \o r) = Len(q) + Len(r) /\ Len(q) \in Nat /\ Len(r) \in Nat
      /\ \A i \in 1 .. Len(q) + Len(r) :
           (q \o r)[i] = IF i <= Len(q) THEN q[i] ELSE r[i - Len(q)]
  BY ConcatProperties, LenProperties
<1> QED BY <1>1 DEF NoCancel

LEMMA NoCancelTail ==
  ASSUME NEW S, NEW q \in Seq(S), q # <<>>, Head(q).type # "cancelStop", NoCancel(Tail(q))
  PROVE  NoCancel(q)
<1>1. /\ Len(q) \in Nat /\ Len(Tail(q)) = Len(q) - 1
      /\ \A i \in 1 .. Len(Tail(q)) : Tail(q)[i] = q[i + 1]
  BY HeadTailProperties, LenProperties
<1>2. Head(q) = q[1] OBVIOUS
<1> SUFFICES ASSUME NEW i \in 1 .. Len(q) PROVE q[i].type # "cancelStop" BY DEF NoCancel
<1>3. CASE i = 1 BY <1>2, <1>3
<1>4. CASE i # 1
  <2>1. i - 1 \in 1 .. Len(Tail(q)) /\ (i - 1) + 1 = i BY <1>1, <1>4
  <2>2. Tail(q)[i - 1] = q[i] BY <1>1, <2>1
  <2> QED BY <2>1, <2>2 DEF NoCancel
<1> QED BY <1>3, <1>4

\* A message at the end of a queue is the last word if it says anything.
LEMMA LastWordAppend ==
  ASSUME NEW S, NEW q \in Seq(S), NEW m \in S, NEW shown \in BOOLEAN, NEW on \in BOOLEAN,
         IF Says(m) THEN Means(m) <=> on ELSE LastWord(q, shown, on)
  PROVE  LastWord(Append(q, m), shown, on)
<1> DEFINE p == Append(q, m)
<1>1. /\ Len(p) = Len(q) + 1 /\ Len(q) \in Nat /\ p[Len(q) + 1] = m
      /\ \A i \in 1 .. Len(q) : p[i] = q[i]
  BY AppendProperties, LenProperties
<1> HIDE DEF p
<1>2. CASE Says(m)
  <2>1. ASSUME NEW i \in 0 .. Len(q) PROVE ~Quiet(p, i)
    <3>1. Len(q) + 1 \in i + 1 .. Len(p) BY <1>1
    <3> QED BY <1>1, <1>2, <3>1 DEF Quiet
  <2>2. ASSUME NEW i \in 1 .. Len(p), Quiet(p, i) PROVE p[i] = m
    <3>1. i = Len(q) + 1 BY <1>1, <2>1, <2>2
    <3> QED BY <1>1, <3>1
  <2>3. ~Quiet(p, 0) BY <1>1, <2>1
  <2> QED BY <1>2, <2>2, <2>3 DEF LastWord, p
<1>3. CASE ~Says(m)
  <2>1. ASSUME NEW i \in 0 .. Len(q), Quiet(p, i) PROVE Quiet(q, i)
    <3> SUFFICES ASSUME NEW j \in i + 1 .. Len(q) PROVE ~Says(q[j]) BY DEF Quiet
    <3>1. j \in i + 1 .. Len(p) /\ j \in 1 .. Len(q) BY <1>1
    <3> QED BY <1>1, <2>1, <3>1 DEF Quiet
  <2>2. ASSUME NEW i \in 1 .. Len(p), Says(p[i]), Quiet(p, i) PROVE Means(p[i]) <=> on
    <3>1. i # Len(q) + 1 BY <1>1, <1>3, <2>2
    <3>2. i \in 1 .. Len(q) /\ i \in 0 .. Len(q) BY <1>1, <3>1
    <3>3. p[i] = q[i] /\ Quiet(q, i) BY <1>1, <2>1, <2>2, <3>2
    <3> QED BY <1>3, <2>2, <3>2, <3>3 DEF LastWord
  <2>3. Quiet(p, 0) => (shown <=> on)
    <3>1. 0 \in 0 .. Len(q) BY <1>1
    <3> QED BY <1>3, <2>1, <3>1 DEF LastWord
  <2> QED BY <2>2, <2>3 DEF LastWord, p
<1> QED BY <1>2, <1>3

\* A message taken from the front is shown if it says anything.
LEMMA LastWordTail ==
  ASSUME NEW S, NEW q \in Seq(S), q # <<>>, NEW shown \in BOOLEAN, NEW on \in BOOLEAN,
         NEW new \in BOOLEAN, LastWord(q, shown, on),
         IF Says(Head(q)) THEN new <=> Means(Head(q)) ELSE new <=> shown
  PROVE  LastWord(Tail(q), new, on)
<1> DEFINE t == Tail(q)
<1>1. /\ Len(q) \in Nat /\ Len(t) \in Nat /\ Len(q) = Len(t) + 1
      /\ \A i \in 1 .. Len(t) : t[i] = q[i + 1]
      /\ Head(q) = q[1]
  BY HeadTailProperties, LenProperties
<1> HIDE DEF t
<1>2. ASSUME NEW i \in 0 .. Len(t), Quiet(t, i) PROVE Quiet(q, i + 1)
  <2> SUFFICES ASSUME NEW j \in (i + 1) + 1 .. Len(q) PROVE ~Says(q[j]) BY DEF Quiet
  <2>1. j - 1 \in i + 1 .. Len(t) /\ j - 1 \in 1 .. Len(t) /\ (j - 1) + 1 = j BY <1>1
  <2>2. t[j - 1] = q[j] BY <1>1, <2>1
  <2> QED BY <1>2, <2>1, <2>2 DEF Quiet
<1>3. ASSUME NEW i \in 1 .. Len(t), Says(t[i]), Quiet(t, i) PROVE Means(t[i]) <=> on
  <2>1. i \in 0 .. Len(t) /\ i + 1 \in 1 .. Len(q) BY <1>1
  <2>2. t[i] = q[i + 1] /\ Quiet(q, i + 1) BY <1>1, <1>2, <1>3, <2>1
  <2> QED BY <1>3, <2>1, <2>2 DEF LastWord
<1>4. ASSUME Quiet(t, 0) PROVE new <=> on
  <2>1. 0 \in 0 .. Len(t) /\ 0 + 1 = 1 /\ 1 \in 1 .. Len(q) BY <1>1
  <2>2. Quiet(q, 1) BY <1>2, <1>4, <2>1
  <2>3. CASE Says(q[1]) BY <1>1, <2>1, <2>2, <2>3 DEF LastWord
  <2>4. CASE ~Says(q[1])
    <3>1. Quiet(q, 0)
      <4> SUFFICES ASSUME NEW j \in 0 + 1 .. Len(q) PROVE ~Says(q[j]) BY DEF Quiet
      <4>1. j = 1 \/ j \in 1 + 1 .. Len(q) BY <1>1
      <4> QED BY <2>2, <2>4, <4>1 DEF Quiet
    <3> QED BY <1>1, <2>4, <3>1 DEF LastWord
  <2> QED BY <2>3, <2>4
<1> QED BY <1>3, <1>4 DEF LastWord, t

\* Commands and messages processed only add requests.
Grown(q, r) == \E added : r = q \o added /\ added \in Seq(Requests)
LEMMA Unsent ==
  ASSUME NEW q \in Seq(Requests)
  PROVE  Grown(q, q)
<1>1. q = q \o <<>> /\ <<>> \in Seq(Requests) BY ConcatEmptySeq, EmptySeq
<1> QED BY <1>1 DEF Grown
LEMMA SentOne ==
  ASSUME NEW q \in Seq(Requests), NEW a \in Requests
  PROVE  Grown(q, q \o <<a>>)
<1>1. <<a>> \in Seq(Requests) OBVIOUS
<1> QED BY <1>1 DEF Grown

LEMMA PlaceGrows ==
  ASSUME TypeOK, NEW n \in Cmds, NEW i \in Nat,
         PlaceRiskOrder(n, i) \/ \E limit \in BOOLEAN : PlaceOrder(n, i, limit)
  PROVE  Grown(toServer, toServer')
<1>0. toServer \in Seq(Requests) /\ symbol \in Symbols BY DEF TypeOK
<1>1. CASE PlaceRiskOrder(n, i)
  BY <1>0, <1>1, RequestMade, SentOne DEF PlaceRiskOrder, Send
<1>2. ASSUME NEW limit \in BOOLEAN, PlaceOrder(n, i, limit) PROVE Grown(toServer, toServer')
  BY <1>0, <1>2, RequestMade, SentOne DEF PlaceOrder, Send
<1> QED BY <1>1, <1>2

LEMMA SelectGrows ==
  ASSUME TypeOK, NEW s \in Symbols, Select(s)
  PROVE  Grown(toServer, toServer')
<1>1. Subscribe(NoSymbol) \in Requests /\ Subscribe(s) \in Requests
  BY RequestMade DEF Places
<1>2. <<Subscribe(NoSymbol), Subscribe(s)>> \in Seq(Requests) BY <1>1
<1> QED BY <1>2 DEF Select, Send, Grown

LEMMA CommandGrows ==
  ASSUME TypeOK, Command
  PROVE  Grown(toServer, toServer')
<1>0. toServer \in Seq(Requests) /\ symbol \in Symbols BY DEF TypeOK
<1>1. CASE SingleCommand \/ \E chain \in Chains : PipedCommand(chain)
  <2>1. cmds' \in Cmds /\ FirstCommand(cmds')
    BY <1>1, NewCommand DEF SingleCommand, PipedCommand
  <2>2. 0 \in Nat OBVIOUS
  <2> QED BY <2>1, <2>2, PlaceGrows DEF FirstCommand
<1>3. ASSUME NEW k \in Stops, StopCommand(k) PROVE Grown(toServer, toServer')
  BY <1>0, <1>3, RequestMade, SentOne DEF StopCommand, Send
<1>4. CASE ClosePosition
  BY <1>0, <1>4, RequestMade, SentOne DEF ClosePosition, Send
<1>5. ASSUME NEW s \in Symbols, SelectSymbol(s) PROVE Grown(toServer, toServer')
  BY <1>5, SelectGrows DEF SelectSymbol
<1>6. CASE AutoRefresh
  BY <1>0, <1>6, RequestMade, SentOne DEF AutoRefresh, Send
<1> QED BY <1>1, <1>3, <1>4, <1>5, <1>6 DEF Command

LEMMA TakeActionGrows ==
  ASSUME TypeOK, NEW s \in Symbols, TakeAction(s)
  PROVE  Grown(toServer, toServer')
<1>0. /\ toServer \in Seq(Requests) /\ pendingAction \in Chained \cup {Null}
      /\ ran \in [Cmds -> Nat]
  BY DEF TypeOK
<1>1. CASE pendingAction = Null \/ pendingAction.symbol # s
  BY <1>0, <1>1, Unsent DEF TakeAction
<1>2. CASE ~(pendingAction = Null \/ pendingAction.symbol # s)
  <2> DEFINE a == pendingAction
             k == Head(a.left)
             i == ran[a.cmd] + 1
  <2>1. RunAction(k, a.cmd, i) BY <1>2 DEF TakeAction, RunChain
  <2>2. a.cmd \in Cmds /\ k \in Kinds
    BY <1>0, <1>2, HeadTailProperties DEF Chained
  <2>3. i \in Nat BY <1>0, <2>2
  <2> HIDE DEF k, i
  <2>4. CASE k \in Stops /\ Send(IF k = "ts" /\ lastPrice = NoSymbol THEN <<>> ELSE <<Stop(k, a.cmd)>>)
    <3>1. toServer' = toServer \o <<Stop(k, a.cmd)>> \/ toServer' = toServer
      BY <1>0, <2>4, ConcatEmptySeq DEF Send
    <3>2. Stop(k, a.cmd) \in Requests BY <2>2, <2>4, RequestMade
    <3> QED BY <1>0, <3>1, <3>2, SentOne, Unsent
  <2>5. CASE Send(IF symbol \in positions' THEN <<Close>> ELSE <<>>)
    <3>1. toServer' = toServer \o <<Close>> \/ toServer' = toServer
      BY <1>0, <2>5, ConcatEmptySeq DEF Send
    <3> QED BY <1>0, <3>1, RequestMade, SentOne, Unsent
  <2>6. CASE PlaceRiskOrder(a.cmd, i) \/ \E limit \in BOOLEAN : PlaceOrder(a.cmd, i, limit)
    BY <2>2, <2>3, <2>6, PlaceGrows
  <2>7. CASE \E x \in Symbols : Select(x)
    BY <2>7, SelectGrows
  <2> QED BY <2>1, <2>4, <2>5, <2>6, <2>7 DEF RunAction
<1> QED BY <1>1, <1>2

LEMMA ProcessGrows ==
  ASSUME TypeOK, ProcessMessages
  PROVE  Grown(toServer, toServer')
<1>0. toServer \in Seq(Requests) /\ symbol \in Symbols /\ pendingAction \in Chained \cup {Null}
      /\ pendingRisk \in Risks \cup {Null}
  BY DEF TypeOK
<1>1. CASE OnOrderPlaced
  <2> DEFINE m == Head(toClient)
             a == pendingAction
  <2>1. CASE (~m.limit \/ a = Null) \/ a.symbol # symbol
    <3>1. UNCHANGED toServer BY <1>1, <2>1 DEF OnOrderPlaced
    <3> QED BY <1>0, <3>1, Unsent
  <2>2. CASE ~((~m.limit \/ a = Null) \/ a.symbol # symbol)
    <3> DEFINE plans == [i \in 1 .. StopsLeft(a) |-> Plan(m.cmd, a.cmd)]
    <3>1. m \in Messages /\ m.type = "orderPlaced" BY <1>1, Received DEF OnOrderPlaced
    <3>2. a.cmd \in Cmds /\ a.left \in Seq(Kinds) BY <1>0, <2>2 DEF Chained
    <3>3. StopsLeft(a) \in Nat BY <3>2, StopsLeftNat
    <3>4. Plan(m.cmd, a.cmd) \in Requests BY <3>1, <3>2, MessageShape, RequestMade
    <3>5. plans \in Seq(Requests) BY <3>3, <3>4, IsASeq
    <3>6. toServer' = toServer \o plans BY <1>1, <2>2 DEF OnOrderPlaced, Send
    <3> HIDE DEF plans
    <3> QED BY <3>5, <3>6 DEF Grown
  <2> QED BY <2>1, <2>2
<1>2. CASE OnPositions
  <2>1. \/ TakeAction(symbol)
        \/ Send(<<CancelStop>>)
        \/ UNCHANGED toServer
    BY <1>2 DEF OnPositions
  <2> QED BY <1>0, <2>1, TakeActionGrows, RequestMade, SentOne, Unsent DEF Send
<1>3. CASE OnStopSet
  <2>1. Head(toClient).symbol \in Symbols BY <1>3, Received, MessageShape DEF OnStopSet
  <2> QED BY <1>3, <2>1, TakeActionGrows DEF OnStopSet
<1>4. CASE OnTicker
  <2>1. \/ pendingRisk # Null /\ Send(<<Order(pendingRisk.cmd, pendingRisk.step, FALSE)>>)
        \/ UNCHANGED toServer
    BY <1>4 DEF OnTicker
  <2>2. pendingRisk # Null => Order(pendingRisk.cmd, pendingRisk.step, FALSE) \in Requests
    BY <1>0, RequestMade DEF Risks
  <2> QED BY <1>0, <2>1, <2>2, SentOne, Unsent DEF Send
<1>5. CASE OnStopStatus \/ OnTrade \/ OnError
  <2>1. UNCHANGED toServer BY <1>5 DEF OnStopStatus, OnTrade, OnError
  <2> QED BY <1>0, <2>1, Unsent
<1> QED BY <1>1, <1>2, <1>3, <1>4, <1>5 DEF ProcessMessages

LEMMA LastWordTwo ==
  ASSUME NEW S, NEW q \in Seq(S), NEW a \in S, NEW b \in S, NEW shown \in BOOLEAN,
         NEW on \in BOOLEAN, Says(b), Means(b) <=> on
  PROVE  LastWord(q \o <<a, b>>, shown, on)
<1>1. q \o <<a, b>> = Append(Append(q, a), b) OBVIOUS
<1>2. Append(q, a) \in Seq(S) BY AppendProperties
<1>3. LastWord(Append(Append(q, a), b), shown, on) BY <1>2, LastWordAppend
<1> QED BY <1>1, <1>3

-----------------------------------------------------------------------------
(* The stop shown *)

\* The application has been told of the session's stop, or asked for it.
Told == stopOn # NoSymbol /\ ~restored

\* An answer under way tells what holds if it says anything; otherwise the last word among
\* the messages does.  A cancellation that is asked for will put things right.
ShownInv ==
  ~setting.fails /\ ~setting.pushes /\ NoCancel(toServer) =>
    IF reply # Null /\ Says(reply)
    THEN Means(reply) <=> Told
    ELSE LastWord(toClient, stopShown, Told)

LEMMA ShownByCommand ==
  ASSUME TypeOK, ShownInv, Command
  PROVE  ShownInv'
<1>1. UNCHANGED <<setting, toClient, stopShown, stopOn, restored, reply>>
  BY DEF Command, SingleCommand, PipedCommand, StopCommand, ClosePosition, SelectSymbol,
         AutoRefresh, appVars, serverVars
<1>2. NoCancel(toServer') => NoCancel(toServer)
  BY CommandGrows, NoCancelJoined DEF Grown, TypeOK
<1> QED BY <1>1, <1>2 DEF ShownInv, Told

LEMMA ShownByMessage ==
  ASSUME TypeOK, TypeOK', ShownInv, ProcessMessages
  PROVE  ShownInv'
<1> SUFFICES ASSUME ~setting.fails, ~setting.pushes, NoCancel(toServer')
             PROVE  IF reply' # Null /\ Says(reply')
                    THEN Means(reply') <=> Told'
                    ELSE LastWord(toClient', stopShown', Told')
  BY DEF ShownInv, ProcessMessages
<1> DEFINE m == Head(toClient)
<1>0. /\ stopShown \in BOOLEAN /\ stopShown' \in BOOLEAN /\ toServer \in Seq(Requests)
      /\ Told \in BOOLEAN
  BY DEF TypeOK, Told
<1>1. UNCHANGED <<stopOn, restored, reply>> /\ (Told' <=> Told)
  BY DEF ProcessMessages, OnOrderPlaced, OnPositions, OnStopSet, OnStopStatus, OnTicker,
         OnTrade, OnError, serverVars, Told
<1>2. NoCancel(toServer)
  BY ProcessGrows, NoCancelJoined DEF Grown, TypeOK
<1>3. \E type : Receive(type)
  BY DEF ProcessMessages, OnOrderPlaced, OnPositions, OnStopSet, OnStopStatus, OnTicker,
         OnTrade, OnError
<1>4. /\ toClient \in Seq(Messages) /\ toClient # <<>> /\ m \in Messages
      /\ toClient' = Tail(toClient)
  BY <1>3, Received
<1>5. IF Says(m) THEN stopShown' <=> Means(m) ELSE stopShown' <=> stopShown
  <2>1. CASE OnOrderPlaced \/ OnTicker \/ OnTrade \/ OnError
    BY <2>1 DEF OnOrderPlaced, OnTicker, OnTrade, OnError, Receive, Says, appVars
  <2>2. CASE OnPositions
    <3>1. m.type = "positions" BY <2>2 DEF OnPositions, Receive
    <3>2. stopShown' = stopShown \/ Send(<<CancelStop>>) BY <2>2 DEF OnPositions
    <3>3. ~Send(<<CancelStop>>)
      <4> SUFFICES ASSUME toServer' = toServer \o <<CancelStop>> PROVE FALSE BY DEF Send
      <4>1. CancelStop \in Requests BY RequestMade
      <4>2. /\ Len(toServer') = Len(toServer) + 1 /\ Len(toServer) \in Nat
            /\ toServer'[Len(toServer) + 1] = CancelStop
        BY <1>0, <4>1
      <4> QED BY <4>2 DEF NoCancel, CancelStop
    <3> QED BY <3>1, <3>2, <3>3 DEF Says
  <2>3. CASE OnStopSet
    BY <2>3 DEF OnStopSet, Receive, Says, Means
  <2>4. CASE OnStopStatus
    BY <2>4 DEF OnStopStatus, Receive, Says, Means
  <2> QED BY <2>1, <2>2, <2>3, <2>4 DEF ProcessMessages
<1>6. CASE reply # Null /\ Says(reply)
  BY <1>1, <1>2, <1>6 DEF ShownInv
<1>7. CASE ~(reply # Null /\ Says(reply))
  <2>1. LastWord(toClient, stopShown, Told) BY <1>2, <1>7 DEF ShownInv
  <2>2. LastWord(Tail(toClient), stopShown', Told)
    BY <1>0, <1>4, <1>5, <2>1, LastWordTail
  <2> QED BY <1>1, <1>4, <1>7, <2>2
<1> QED BY <1>6, <1>7

LEMMA ShownByHandling ==
  ASSUME TypeOK, ShownInv, Handle
  PROVE  ShownInv'
<1> SUFFICES ASSUME ~setting.fails, ~setting.pushes, NoCancel(toServer')
             PROVE  IF reply' # Null /\ Says(reply')
                    THEN Means(reply') <=> Told'
                    ELSE LastWord(toClient', stopShown', Told')
  BY DEF ShownInv, Handle
<1>0. stopShown \in BOOLEAN /\ toServer \in Seq(Requests) /\ toClient \in Seq(Messages)
      /\ reply \in Messages \cup {Null} /\ symbol \in Symbols /\ Told \in BOOLEAN
  BY DEF TypeOK, Told
<1>1. ASSUME NEW type, type # "cancelStop", Take(type), UNCHANGED <<stopOn, restored>>,
             reply' # Null => ~Says(reply')
      PROVE  ~(reply' # Null /\ Says(reply'))
             /\ LastWord(toClient', stopShown', Told')
  <2>1. /\ toServer # <<>> /\ Head(toServer).type = type /\ toServer' = Tail(toServer)
        /\ reply = Null /\ UNCHANGED <<stopShown, toClient>>
    BY <1>1, Taken DEF appVars
  <2>2. NoCancel(toServer) BY <1>0, <1>1, <2>1, NoCancelTail
  <2> QED BY <1>1, <2>1, <2>2 DEF ShownInv, Told
<1>2. CASE HandleOrder
  <2>1. Take("order") /\ UNCHANGED <<stopOn, restored>> /\ ~Says(reply')
    BY <1>2 DEF HandleOrder, OrderPlaced, Error, Says
  <2> QED BY <1>1, <2>1
<1>3. CASE HandleClose
  <2>1. Take("close") /\ UNCHANGED <<stopOn, restored>> /\ ~Says(reply')
    BY <1>3 DEF HandleClose, OrderPlaced, Error, Says
  <2> QED BY <1>1, <2>1
<1>4. CASE HandlePositions
  <2>1. Take("positions") /\ UNCHANGED <<stopOn, restored>> /\ ~Says(reply')
    BY <1>4 DEF HandlePositions, Positions, Error, Says
  <2> QED BY <1>1, <2>1
<1>5. CASE HandleTicker
  <2>1. Take("ticker") /\ UNCHANGED <<stopOn, restored>> /\ ~Says(reply')
    BY <1>5 DEF HandleTicker, Ticker, Error, Says
  <2> QED BY <1>1, <2>1
<1>6. CASE HandleStop
  <2>1. CASE Take("ts")
    <3>0. ~Take("as") /\ ~Take("cancelStop") BY <2>1 DEF Take
    <3>a. /\ UNCHANGED <<stopOn, restored>>
          /\ \/ reply' = [type |-> "tsSet", symbol |-> Head(toServer).symbol]
             \/ reply' = [type |-> "error"]
      BY <1>6, <3>0 DEF HandleStop, Error
    <3>b. reply'.type \in {"tsSet", "error"} BY <3>a
    <3>1. UNCHANGED <<stopOn, restored>> /\ ~Says(reply')
      BY <3>a, <3>b DEF Says
    <3> QED BY <1>1, <2>1, <3>1
  <2>2. CASE Take("as")
    <3>1. Head(toServer).symbol \in Symbols BY <2>2, Taken, RequestShape
    <3>0. ~Take("ts") /\ ~Take("cancelStop") BY <2>2 DEF Take
    <3>a. reply' = [type |-> "asSet", symbol |-> Head(toServer).symbol]
          /\ stopOn' = Head(toServer).symbol /\ restored' = FALSE
      BY <1>6, <3>0 DEF HandleStop
    <3>2. stopOn' \in Symbols /\ reply'.type = "asSet"
      BY <3>a, <3>1
    <3>3. reply' # Null
      BY <3>a, <3>1, MessageMade, ClientConstants
    <3>4. Told' BY <3>a, <3>2, ClientConstants DEF Told
    <3> QED BY <3>2, <3>3, <3>4 DEF Says, Means
  <2>3. CASE Take("cancelStop")
    <3>1. stopOn' = NoSymbol /\ reply' = StopStatus(FALSE)
      BY <1>6, <2>3 DEF HandleStop, Take
    <3>2. reply' # Null BY <3>1, MessageMade, ClientConstants
    <3> QED BY <3>1, <3>2 DEF Says, Means, StopStatus, Told
  <2> QED BY <1>6, <2>1, <2>2, <2>3 DEF HandleStop
<1>7. CASE HandleOther
  <2>1. \E type \in {"plan", "subscribe"} : Take(type) BY <1>7 DEF HandleOther
  <2>2. UNCHANGED <<stopOn, restored>> /\ reply' = Null BY <1>7, <2>1 DEF HandleOther, Take
  <2> QED BY <1>1, <2>1, <2>2
<1>8. CASE Answer
  <2>1. /\ reply # Null /\ toClient' = Append(toClient, reply) /\ reply' = Null
        /\ UNCHANGED <<stopShown, toServer>> /\ Told' = Told
    BY <1>8 DEF Answer, Push, appVars, Told
  <2>2. IF Says(reply) THEN Means(reply) <=> Told
        ELSE LastWord(toClient, stopShown, Told)
    BY <2>1 DEF ShownInv
  <2>3. reply \in Messages BY <1>0, <2>1
  <2>4. LastWord(Append(toClient, reply), stopShown, Told)
    BY <1>0, <2>2, <2>3, LastWordAppend
  <2> QED BY <2>1, <2>4
<1> QED BY <1>2, <1>3, <1>4, <1>5, <1>6, <1>7, <1>8 DEF Handle

LEMMA ShownUnasked ==
  ASSUME TypeOK, ShownInv, Unasked
  PROVE  ShownInv'
<1> SUFFICES ASSUME ~setting.fails, ~setting.pushes, NoCancel(toServer')
             PROVE  IF reply' # Null /\ Says(reply')
                    THEN Means(reply') <=> Told'
                    ELSE LastWord(toClient', stopShown', Told')
  BY DEF ShownInv, Unasked
<1>0. stopShown \in BOOLEAN /\ toClient \in Seq(Messages) /\ chart \in Places
      /\ Told \in BOOLEAN
  BY DEF TypeOK, Told
<1>1. UNCHANGED <<setting, stopShown, toServer, reply>>
  BY DEF Unasked, Timer, ForwardTrade, PositionMoves, appVars, serverVars
<1>2. IF reply # Null /\ Says(reply)
      THEN Means(reply) <=> Told
      ELSE LastWord(toClient, stopShown, Told)
  BY <1>1 DEF ShownInv
<1>a. ASSUME NEW on \in BOOLEAN
      PROVE  StopStatus(on) \in Messages /\ Says(StopStatus(on)) /\ (Means(StopStatus(on)) <=> on)
  BY MessageMade DEF StopStatus, Says, Means
<1>3. CASE Timer
  <2>1. stopOn # NoSymbol /\ reply = Null /\ restored' = FALSE BY <1>3 DEF Timer
  <2>2. CASE Push(StopStatus(TRUE)) /\ UNCHANGED stopOn
    <3>1. LastWord(Append(toClient, StopStatus(TRUE)), stopShown, TRUE)
      BY <1>0, <1>a, LastWordAppend
    <3>2. Told' = TRUE BY <2>1, <2>2 DEF Told
    <3> QED BY <1>1, <2>1, <2>2, <3>1, <3>2 DEF Push
  <2>3. CASE stopOn' = NoSymbol
             /\ toClient' = toClient \o <<StopStatus(TRUE), StopStatus(FALSE)>>
    <3>1. LastWord(toClient \o <<StopStatus(TRUE), StopStatus(FALSE)>>, stopShown, FALSE)
      BY <1>0, <1>a, LastWordTwo
    <3>2. Told' = FALSE BY <2>3 DEF Told
    <3> QED BY <1>1, <2>1, <2>3, <3>1, <3>2
  <2> QED BY <1>3, <2>2, <2>3 DEF Timer
<1>4. CASE ForwardTrade
  <2> DEFINE m == [type |-> "trade", symbol |-> chart]
  <2>1. chart \in Symbols BY <1>0, <1>4 DEF ForwardTrade, Places
  <2>2. m \in Messages /\ ~Says(m) BY <2>1, MessageMade DEF Says
  <2>3. toClient' = Append(toClient, m) /\ Told' = Told
    BY <1>4 DEF ForwardTrade, Push, serverVars, Told
  <2> HIDE DEF m
  <2>4. LastWord(toClient, stopShown, Told)
           => LastWord(Append(toClient, m), stopShown, Told)
    BY <1>0, <2>2, LastWordAppend
  <2> QED BY <1>1, <1>2, <2>3, <2>4
<1>5. ASSUME NEW s \in Symbols, PositionMoves(s)
      PROVE  UNCHANGED toClient /\ Told' = Told
  BY <1>5 DEF PositionMoves, Told
<1> QED BY <1>1, <1>2, <1>3, <1>4, <1>5 DEF Unasked

LEMMA ShownKept == Spec => []ShownInv
<1>1. Init => ShownInv
  <2> SUFFICES ASSUME Init PROVE ShownInv OBVIOUS
  <2>1. toClient = <<>> /\ stopShown = FALSE /\ Told = FALSE /\ reply = Null
    BY DEF Init, RestoreStop, Told
  <2>2. Len(<<>>) = 0 BY EmptySeq
  <2>3. LastWord(<<>>, FALSE, FALSE) BY <2>2 DEF LastWord
  <2> QED BY <2>1, <2>3 DEF ShownInv
<1>2. TypeOK /\ TypeOK' /\ ShownInv /\ [Next]_vars => ShownInv'
  <2> SUFFICES ASSUME TypeOK, TypeOK', ShownInv, [Next]_vars PROVE ShownInv' OBVIOUS
  <2>1. CASE UNCHANGED vars
    BY <2>1 DEF vars, appVars, serverVars, ShownInv, Told
  <2> QED BY <2>1, ShownByCommand, ShownByMessage, ShownByHandling, ShownUnasked DEF Next
<1> QED BY <1>1, <1>2, ClientTypeCorrect, PTL DEF Spec

\* With nothing in flight the application shows a stop just when the session has one that
\* it did not find in the database, or has told of since.
THEOREM StopShownIsStopOn == Spec => []StopShownAgrees
<1>1. ShownInv => StopShownAgrees
  <2> SUFFICES ASSUME ShownInv, ~setting.fails, ~setting.pushes, toServer = <<>>,
                      toClient = <<>>, reply = Null
               PROVE  stopShown <=> Told
    BY DEF StopShownAgrees, Told
  <2>1. Len(<<>>) = 0 BY EmptySeq
  <2>2. NoCancel(toServer) /\ Quiet(toClient, 0) BY <2>1 DEF NoCancel, Quiet
  <2> QED BY <2>2 DEF ShownInv, LastWord
<1> QED BY <1>1, ShownKept, PTL

-----------------------------------------------------------------------------
(* The ticker that is waited for *)

Awaiting(s) == Has(toServer, s) \/ Has(toClient, s) \/ reply = Ticker(s)
RiskInv == ~setting.fails /\ pendingRisk # Null => Awaiting(pendingRisk.symbol)

LEMMA Pair ==
  ASSUME NEW S, NEW a \in S, NEW b \in S
  PROVE  <<>> \in Seq(S) /\ <<a>> \in Seq(S) /\ <<a, b>> \in Seq(S)
OBVIOUS

LEMMA HasGrown ==
  ASSUME NEW q \in Seq(Requests), NEW r, Grown(q, r), NEW s, Has(q, s)
  PROVE  Has(r, s)
BY HasJoined DEF Grown

\* A risk order put into the slot asks for its ticker.
LEMMA RiskAsks ==
  ASSUME TypeOK, NEW n \in Cmds, NEW i \in Nat, PlaceRiskOrder(n, i)
  PROVE  RiskInv'
<1>0. toServer \in Seq(Requests) /\ symbol \in Symbols BY DEF TypeOK
<1>1. pendingRisk'.symbol = symbol /\ toServer' = toServer \o <<Ticker(symbol)>>
  BY DEF PlaceRiskOrder, Send
<1>2. <<Ticker(symbol)>> \in Seq(Requests) BY <1>0, RequestMade
<1>3. Has(<<Ticker(symbol)>>, symbol)
  <2>1. Len(<<Ticker(symbol)>>) = 1 /\ <<Ticker(symbol)>>[1] = Ticker(symbol) OBVIOUS
  <2> QED BY <2>1 DEF Has, Ticker
<1>4. Has(toServer', symbol) BY <1>0, <1>1, <1>2, <1>3, HasJoined
<1> QED BY <1>1, <1>4 DEF RiskInv, Awaiting

LEMMA RiskByCommand ==
  ASSUME TypeOK, RiskInv, Command
  PROVE  RiskInv'
<1>0. toServer \in Seq(Requests) /\ symbol \in Symbols BY DEF TypeOK
<1>1. UNCHANGED <<setting, toClient, reply>>
  BY DEF Command, SingleCommand, PipedCommand, StopCommand, ClosePosition, SelectSymbol,
         AutoRefresh, appVars, serverVars
<1>2. CASE pendingRisk' = pendingRisk
  BY <1>0, <1>1, <1>2, CommandGrows, HasGrown DEF RiskInv, Awaiting, Ticker
<1>3. ASSUME NEW n \in Cmds, NEW i \in Nat, PlaceRiskOrder(n, i)
      PROVE  RiskInv'
  BY <1>3, RiskAsks
<1>4. pendingRisk' = pendingRisk \/ \E n \in Cmds, i \in Nat : PlaceRiskOrder(n, i)
  <2>1. ASSUME NEW n \in Cmds, FirstCommand(n)
        PROVE  pendingRisk' = pendingRisk \/ \E k \in Cmds, i \in Nat : PlaceRiskOrder(k, i)
    <3>1. 0 \in Nat OBVIOUS
    <3> QED BY <2>1, <3>1 DEF FirstCommand, PlaceOrder
  <2>2. CASE SingleCommand \/ \E chain \in Chains : PipedCommand(chain)
    <3>1. cmds' \in Cmds /\ FirstCommand(cmds')
      BY <2>2, NewCommand DEF SingleCommand, PipedCommand
    <3> QED BY <2>1, <3>1
  <2> QED BY <2>2 DEF Command, StopCommand, ClosePosition, SelectSymbol, AutoRefresh,
            appVars, slotVars
<1> QED BY <1>2, <1>3, <1>4

\* A message leaves the slot alone, unless it is the awaited ticker or lets a chained risk
\* order into it.
LEMMA RiskStays ==
  ASSUME TypeOK, ProcessMessages
  PROVE  \/ OnTicker
         \/ ~OnTicker /\ UNCHANGED pendingRisk
         \/ \E n \in Cmds, i \in Nat : PlaceRiskOrder(n, i)
<1>0. pendingAction \in Chained \cup {Null} /\ ran \in [Cmds -> Nat] BY DEF TypeOK
<1>1. ASSUME NEW s \in Symbols, TakeAction(s)
      PROVE  UNCHANGED pendingRisk \/ \E n \in Cmds, i \in Nat : PlaceRiskOrder(n, i)
  <2> DEFINE a == pendingAction
             i == ran[a.cmd] + 1
  <2>1. CASE pendingAction = Null \/ pendingAction.symbol # s
    BY <1>1, <2>1 DEF TakeAction
  <2>2. CASE ~(pendingAction = Null \/ pendingAction.symbol # s)
    <3>1. RunAction(Head(a.left), a.cmd, i) BY <1>1, <2>2 DEF TakeAction, RunChain
    <3>2. a.cmd \in Cmds BY <1>0, <2>2 DEF Chained
    <3>3. i \in Nat BY <1>0, <3>2
    <3> HIDE DEF i
    <3> QED BY <3>1, <3>2, <3>3 DEF RunAction, PlaceOrder
  <2> QED BY <2>1, <2>2
<1>2. CASE OnPositions
  <2>1. TakeAction(symbol) \/ UNCHANGED pendingRisk BY <1>2 DEF OnPositions, slotVars
  <2>2. ~OnTicker BY <1>2 DEF OnPositions, OnTicker, Receive
  <2> QED BY <1>1, <2>1, <2>2 DEF TypeOK
<1>3. CASE OnStopSet
  <2>1. Head(toClient).symbol \in Symbols BY <1>3, Received, MessageShape DEF OnStopSet
  <2>2. ~OnTicker BY <1>3 DEF OnStopSet, OnTicker, Receive
  <2> QED BY <1>1, <1>3, <2>1, <2>2 DEF OnStopSet
<1> QED BY <1>2, <1>3 DEF ProcessMessages, OnOrderPlaced, OnStopStatus, OnTrade, OnError,
        appVars, slotVars

LEMMA RiskByMessage ==
  ASSUME TypeOK, RiskInv, ProcessMessages
  PROVE  RiskInv'
<1> DEFINE m == Head(toClient)
<1>0. toServer \in Seq(Requests) /\ Grown(toServer, toServer')
  BY ProcessGrows DEF TypeOK
<1>1. UNCHANGED <<setting, reply>>
  BY DEF ProcessMessages, OnOrderPlaced, OnPositions, OnStopSet, OnStopStatus, OnTicker,
         OnTrade, OnError, serverVars
<1>2. \E type : Receive(type)
  BY DEF ProcessMessages, OnOrderPlaced, OnPositions, OnStopSet, OnStopStatus, OnTicker,
         OnTrade, OnError
<1>3. toClient \in Seq(Messages) /\ toClient # <<>> /\ toClient' = Tail(toClient)
  BY <1>2, Received
<1>4. CASE \/ OnTicker
           \/ ~OnTicker /\ UNCHANGED pendingRisk
  <2> SUFFICES ASSUME ~setting.fails, pendingRisk' # Null
               PROVE  Awaiting(pendingRisk.symbol)'
    BY <1>1 DEF RiskInv
  <2>1. pendingRisk' = pendingRisk /\ (m.type = "ticker" => m.symbol # pendingRisk.symbol)
    <3>1. CASE OnTicker
      BY <3>1 DEF OnTicker, Settled, Awaited
    <3>2. CASE ~OnTicker /\ UNCHANGED pendingRisk
      BY <3>2 DEF ProcessMessages, OnOrderPlaced, OnPositions, OnStopSet, OnStopStatus,
           OnTrade, OnError, Receive
    <3> QED BY <1>4, <3>1, <3>2
  <2>2. PICK s : s = pendingRisk.symbol OBVIOUS
  <2>3. Has(toServer, s) => Has(toServer', s) BY <1>0, HasGrown
  <2>4. Has(toClient, s) => Has(toClient', s) BY <1>3, <2>1, <2>2, HasTail
  <2>5. Awaiting(s) BY <2>1, <2>2 DEF RiskInv
  <2>6. Awaiting(s)' BY <1>1, <2>3, <2>4, <2>5 DEF Awaiting, Ticker
  <2> QED BY <2>1, <2>2, <2>6 DEF Awaiting, Ticker
<1>5. CASE \E n \in Cmds, i \in Nat : PlaceRiskOrder(n, i)
  BY <1>5, RiskAsks
<1> QED BY <1>4, <1>5, RiskStays

LEMMA RiskByHandling ==
  ASSUME TypeOK, RiskInv, Handle
  PROVE  RiskInv'
<1> SUFFICES ASSUME ~setting.fails, pendingRisk' # Null
             PROVE  Awaiting(pendingRisk.symbol)'
  BY DEF RiskInv, Handle
<1>0. /\ pendingRisk \in Risks \cup {Null} /\ toServer \in Seq(Requests)
      /\ toClient \in Seq(Messages) /\ reply \in Messages \cup {Null}
  BY DEF TypeOK
<1>1. pendingRisk' = pendingRisk
  BY DEF Handle, HandleOrder, HandleClose, HandlePositions, HandleTicker, HandleStop,
         HandleOther, Answer, Take, appVars
<1>2. PICK s \in Symbols : s = pendingRisk.symbol BY <1>0, <1>1 DEF Risks
<1> DEFINE Later == Has(toServer', s) \/ Has(toClient', s) \/ reply' = Ticker(s)
<1> SUFFICES Later BY <1>1, <1>2 DEF Awaiting, Ticker
<1>3. Awaiting(s) BY <1>1, <1>2 DEF RiskInv
<1>4. Ticker(s) \in Messages /\ Ticker(s) # Null
  BY MessageMade, ClientConstants DEF Ticker
<1>5. ASSUME NEW type, Take(type),
             Head(toServer).type = "ticker" => reply' = Ticker(Head(toServer).symbol)
      PROVE  Later
  <2>1. /\ toServer # <<>> /\ Head(toServer).type = type /\ toServer' = Tail(toServer)
        /\ reply = Null /\ toClient' = toClient
    BY <1>5, Taken
  <2>2. Has(toServer, s) \/ Has(toClient, s) BY <1>3, <1>4, <2>1 DEF Awaiting
  <2>3. CASE Has(toClient, s) BY <2>1, <2>3
  <2>4. CASE Head(toServer).type = "ticker" /\ Head(toServer).symbol = s
    BY <1>5, <2>1, <2>4
  <2>5. CASE Has(toServer, s) /\ ~(Head(toServer).type = "ticker" /\ Head(toServer).symbol = s)
    <3>1. Has(Tail(toServer), s) BY <1>0, <2>1, <2>5, HasTail
    <3> QED BY <2>1, <3>1
  <2> QED BY <2>2, <2>3, <2>4, <2>5
<1>6. CASE HandleTicker
  <2>1. Take("ticker") /\ reply' = Ticker(Head(toServer).symbol) BY <1>6 DEF HandleTicker
  <2> QED BY <1>5, <2>1
<1>7. CASE Answer
  <2>1. /\ reply # Null /\ toClient' = Append(toClient, reply) /\ toServer' = toServer
    BY <1>7 DEF Answer, Push
  <2>2. reply \in Messages BY <1>0, <2>1
  <2>3. <<reply>> \in Seq(Messages) /\ Append(toClient, reply) = toClient \o <<reply>>
    BY <1>0, <2>2
  <2>4. reply = Ticker(s) => Has(<<reply>>, s)
    <3>1. Len(<<reply>>) = 1 /\ <<reply>>[1] = reply OBVIOUS
    <3> QED BY <3>1 DEF Has, Ticker
  <2>5. Has(toClient, s) \/ reply = Ticker(s) => Has(toClient', s)
    <3>1. Has(toClient, s) \/ Has(<<reply>>, s) => Has(toClient \o <<reply>>, s)
      BY <1>0, <2>3, HasJoined
    <3> QED BY <2>1, <2>3, <2>4, <3>1
  <2>6. Has(toServer', s) \/ Has(toClient', s) BY <1>3, <2>1, <2>5 DEF Awaiting
  <2> QED BY <2>6
<1>8. CASE \E type \in {"order", "close", "positions", "ts", "as", "cancelStop", "plan",
                        "subscribe"} : Take(type)
  <2>1. PICK type \in {"order", "close", "positions", "ts", "as", "cancelStop", "plan",
                      "subscribe"} : Take(type)
    BY <1>8
  <2>2. Head(toServer).type # "ticker" BY <2>1 DEF Take
  <2> QED BY <1>5, <2>1, <2>2
<1> HIDE DEF Later
<1> QED BY <1>6, <1>7, <1>8 DEF Handle, HandleOrder, HandleClose, HandlePositions,
        HandleStop, HandleOther

LEMMA RiskUnasked ==
  ASSUME TypeOK, RiskInv, Unasked
  PROVE  RiskInv'
<1>0. /\ toClient \in Seq(Messages) /\ stopOn \in Places /\ chart \in Places
  BY DEF TypeOK
<1>1. UNCHANGED <<setting, pendingRisk, toServer, reply>>
  BY DEF Unasked, Timer, ForwardTrade, PositionMoves, appVars, serverVars
<1>2. \E added \in Seq(Messages) : toClient' = toClient \o added
  <2>a. /\ StopStatus(TRUE) \in Messages /\ StopStatus(FALSE) \in Messages
        /\ Error \in Messages /\ \A s \in Symbols : Positions({s}) \in Messages
    BY MessageMade
  <2>b. ASSUME NEW m \in Messages, toClient' = Append(toClient, m)
        PROVE  \E added \in Seq(Messages) : toClient' = toClient \o added
    <3>1. <<m>> \in Seq(Messages) /\ toClient' = toClient \o <<m>> BY <1>0, <2>b
    <3> QED BY <3>1
  <2>1. CASE Timer
    <3>1. \/ toClient' = Append(toClient, StopStatus(TRUE))
          \/ \E last \in {StopStatus(FALSE), Error} :
               toClient' = toClient \o <<StopStatus(TRUE), last>>
      BY <2>1 DEF Timer, Push
    <3>2. \A last \in {StopStatus(FALSE), Error} : <<StopStatus(TRUE), last>> \in Seq(Messages)
      BY <2>a, Pair
    <3> QED BY <2>a, <2>b, <3>1, <3>2
  <2>2. CASE ForwardTrade
    <3>1. chart \in Symbols BY <1>0, <2>2 DEF ForwardTrade, Places
    <3>2. [type |-> "trade", symbol |-> chart] \in Messages BY <3>1, MessageMade
    <3> QED BY <2>2, <2>b, <3>2 DEF ForwardTrade, Push
  <2>3. ASSUME NEW s \in Symbols, PositionMoves(s)
        PROVE  \E added \in Seq(Messages) : toClient' = toClient \o added
    <3>1. /\ <<>> \in Seq(Messages) /\ <<StopStatus(FALSE)>> \in Seq(Messages)
          /\ <<Positions({s})>> \in Seq(Messages)
      BY <2>a, Pair
    <3>2. \/ toClient' = toClient
          \/ toClient' = (toClient \o <<>>) \o <<Positions({s})>>
          \/ toClient' = (toClient \o <<StopStatus(FALSE)>>) \o <<Positions({s})>>
      BY <2>3 DEF PositionMoves
    <3>a. toClient = toClient \o <<>> BY <1>0, ConcatEmptySeq
    <3>b. (toClient \o <<>>) \o <<Positions({s})>> = toClient \o (<<>> \o <<Positions({s})>>)
      BY <1>0, <3>1, ConcatAssociative
    <3>c. (toClient \o <<StopStatus(FALSE)>>) \o <<Positions({s})>>
            = toClient \o (<<StopStatus(FALSE)>> \o <<Positions({s})>>)
      BY <1>0, <3>1, ConcatAssociative
    <3>3. \/ toClient' = toClient \o <<>>
          \/ toClient' = toClient \o (<<>> \o <<Positions({s})>>)
          \/ toClient' = toClient \o (<<StopStatus(FALSE)>> \o <<Positions({s})>>)
      BY <3>2, <3>a, <3>b, <3>c
    <3>4. /\ <<>> \o <<Positions({s})>> \in Seq(Messages)
          /\ <<StopStatus(FALSE)>> \o <<Positions({s})>> \in Seq(Messages)
      BY <3>1, ConcatProperties
    <3> QED BY <3>1, <3>3, <3>4
  <2> QED BY <2>1, <2>2, <2>3 DEF Unasked
<1>3. \A s : Has(toClient, s) => Has(toClient', s) BY <1>0, <1>2, HasJoined
<1> QED BY <1>1, <1>3 DEF RiskInv, Awaiting, Ticker

LEMMA RiskKept == Spec => []RiskInv
<1>1. Init => RiskInv BY DEF Init, RiskInv
<1>2. TypeOK /\ RiskInv /\ [Next]_vars => RiskInv'
  <2> SUFFICES ASSUME TypeOK, RiskInv, [Next]_vars PROVE RiskInv' OBVIOUS
  <2>1. CASE UNCHANGED vars
    BY <2>1 DEF vars, appVars, serverVars, RiskInv, Awaiting, Ticker
  <2> QED BY <2>1, RiskByCommand, RiskByMessage, RiskByHandling, RiskUnasked DEF Next
<1> QED BY <1>1, <1>2, ClientTypeCorrect, PTL DEF Spec

\* Where requests are answered, the ticker of a waiting risk order is asked for or under way.
THEOREM RiskOrderHasTicker == Spec => []RiskOrderAwaited
<1>1. TypeOK /\ RiskInv => RiskOrderAwaited
  <2> SUFFICES ASSUME TypeOK, RiskInv, ~setting.fails, pendingRisk # Null
               PROVE  \E i \in DOMAIN InFlight :
                        InFlight[i].type = "ticker" /\ InFlight[i].symbol = pendingRisk.symbol
    BY DEF RiskOrderAwaited
  <2> DEFINE s == pendingRisk.symbol
             S == Requests \cup Messages
             r == IF reply = Null THEN <<>> ELSE <<reply>>
  <2>1. /\ pendingRisk \in Risks /\ s \in Symbols
        /\ toServer \in Seq(S) /\ toClient \in Seq(S) /\ reply \in S \cup {Null}
    BY SeqMonotonic DEF TypeOK, Risks
  <2>2. r \in Seq(S)
    <3>1. reply # Null => reply \in S BY <2>1
    <3> QED BY <3>1, Pair, EmptySeq
  <2>3. reply = Ticker(s) => Has(r, s)
    <3>1. Ticker(s) # Null BY <2>1, MessageMade, ClientConstants DEF Ticker
    <3>2. Len(<<reply>>) = 1 /\ <<reply>>[1] = reply OBVIOUS
    <3> QED BY <3>1, <3>2 DEF Has, Ticker
  <2>4. Has(toServer, s) \/ Has(r, s) \/ Has(toClient, s)
    BY <2>3 DEF RiskInv, Awaiting
  <2>5. toServer \o r \in Seq(S) /\ InFlight \in Seq(S)
    <3> HIDE DEF S
    <3>1. toServer \o r \in Seq(S) BY <2>1, <2>2, ConcatProperties
    <3>2. InFlight = toServer \o r \o toClient BY DEF InFlight
    <3> HIDE DEF r
    <3> QED BY <2>1, <3>1, <3>2, ConcatProperties
  <2>6. Has(InFlight, s)
    <3>1. InFlight = toServer \o r \o toClient BY DEF InFlight
    <3> HIDE DEF S, r, s
    <3>2. Has(toServer, s) \/ Has(r, s) => Has(toServer \o r, s)
      BY <2>1, <2>2, HasJoined
    <3>3. Has(toServer \o r, s) \/ Has(toClient, s) => Has(InFlight, s)
      BY <2>1, <2>5, <3>1, HasJoined
    <3> QED BY <2>4, <3>2, <3>3
  <2>7. DOMAIN InFlight = 1 .. Len(InFlight) BY <2>5, LenProperties
  <2> QED BY <2>6, <2>7 DEF Has
<1> QED BY <1>1, RiskKept, ClientTypeCorrect, PTL
=============================================================================
