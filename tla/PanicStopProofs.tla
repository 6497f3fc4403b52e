--------------------------- MODULE PanicStopProofs ---------------------------
(* Theorems about PanicStop for every value of its constants.  The first part *)
(* is about any number of sessions, symbols and requests, with crashes and    *)
(* failing transactions; the second about how a stop ends in the sessions of  *)
(* a single client; the third shows that these implement StopLifecycle.       *)
EXTENDS PanicStopRefinement, TLAPS

\* The inductive invariant: types, and what the guard of the timer protects.
\* Neither half is inductive alone: the position the close order leaves is a
\* number only because the quote is there, and the quote fits the stop only
\* because the state is well typed.
IInv == TypeOK /\ FiringIsHeld

-----------------------------------------------------------------------------
(* Lemmas about the operators *)

\* A tick keeps a stop a stop (and the absence of one), of the same request.
LEMMA AgedType ==
  ASSUME NEW s \in Stops \cup {Null}
  PROVE  Aged(s) \in Stops \cup {Null}
  BY NullAssumption DEF Aged, Stops

\* A stop whose time is up does not age any more.
LEMMA AgedExpired ==
  ASSUME NEW s \in Stops \cup {Null}, Expired(s)
  PROVE  Aged(s) = s
<1>1. s \in Stops /\ s.idle >= s.timeout  BY DEF Expired
<1>2. s.idle \in Nat /\ s.timeout \in Nat
  BY <1>1, ConstantsAssumption DEF Stops
<1>3. QED  BY <1>1, <1>2 DEF Aged

\* A trade changes nothing in a stop but its flag and its clock.
LEMMA TouchedType ==
  ASSUME NEW s \in Stops \cup {Null},
         NEW t \in [sub: Symbols \cup {NoSymbol}, price: Prices]
  PROVE  Touched(s, t) \in Stops \cup {Null}
  BY NullAssumption DEF Touched, Stops

\* What the exchange reports of a symbol is a report.
LEMMA ReportType ==
  ASSUME NEW p \in [Keys -> Nat], NEW s \in Symbols
  PROVE  Report(p, s) \in Reports
  BY DEF Report, Reports, Keys, Sides

\* Publishing the new position of a symbol keeps the feeds well typed.
LEMMA PublishType ==
  ASSUME NEW s \in Symbols, pos' \in [Keys -> Nat],
         feed \in [Conns -> Seq(Events)], Publish(s)
  PROVE  feed' \in [Conns -> Seq(Events)]
<1>1. Report(pos', s) \in Events  BY ReportType DEF Events
<1>2. QED  BY <1>1 DEF Publish

\* A reduce-only order leaves every position a number, no larger than before,
\* and changes the position it names only.
LEMMA ReduceOnlyReduces ==
  ASSUME NEW p \in [Keys -> Nat], NEW r \in Reports
  PROVE  /\ ReduceOnly(p, r) \in [Keys -> Nat]
         /\ \A k \in Keys : ReduceOnly(p, r)[k] <= p[k]
         /\ \A k \in Keys : k # r.key => ReduceOnly(p, r)[k] = p[k]
  BY DEF ReduceOnly, Reports

\* Ending a stop keeps stops, rows and history well typed, and empties the
\* Mutex of its own session only.
LEMMA ResolveType ==
  ASSUME TypeOK, NEW c \in Conns, NEW f \in Fates, Resolve(c, f)
  PROVE  /\ db'   \in [Keys -> Stops \cup {Null}]
         /\ stop' \in [Conns -> Stops \cup {Null}]
         /\ fate' \in [Ids -> Fates]
         /\ stop' = [stop EXCEPT ![c] = Null]
  BY DEF TypeOK, Resolve, DeleteActivityStop, DbOutcomes

\* Writing a new stop down keeps rows, counter and history well typed.
LEMMA RegisterType ==
  ASSUME TypeOK, NEW s \in Stops, Register(s)
  PROVE  /\ db'   \in [Keys -> Stops \cup {Null}]
         /\ arms' \in 0 .. MaxArms
         /\ fate' \in [Ids -> Fates]
<1>1. s.key \in Keys /\ s.id \in 1 .. MaxArms
  BY DEF Stops, Ids
<1>2. db' \in [Keys -> Stops \cup {Null}]
  BY <1>1 DEF Register, SaveActivityStop, DbOutcomes, TypeOK
<1>3. arms' \in 0 .. MaxArms
  BY <1>1, ConstantsAssumption DEF Register
<1>4. fate' \in [Ids -> Fates]
  BY DEF Register, TypeOK, Fates
<1>5. QED  BY <1>2, <1>3, <1>4

-----------------------------------------------------------------------------
(* The initial state *)

LEMMA InitIInv == Init => IInv
<1> SUFFICES ASSUME Init PROVE IInv
  OBVIOUS
<1>1. TypeOK
  BY ConstantsAssumption
  DEF Init, TypeOK, Places, Fates
<1>2. FiringIsHeld
  BY DEF Init, FiringIsHeld, Locked
<1>3. QED  BY <1>1, <1>2 DEF IInv

-----------------------------------------------------------------------------
(* Type correctness is kept by every step, one lemma per kind of action. *)

LEMMA SessionType ==
  ASSUME IInv, NEW c \in Conns, Connect(c) \/ Disconnect(c)
  PROVE  TypeOK'
<1> USE DEF IInv
<1>1. CASE Connect(c)
  <2>1. Restored \subseteq Stops \cup {Null}
    BY DEF TypeOK, Restored, FirstKeys, Stored
  <2>2. stop' \in [Conns -> Stops \cup {Null}]
    BY <1>1, <2>1 DEF Connect, TypeOK
  <2>3. QED  BY <1>1, <2>2 DEF Connect, TypeOK, Places
<1>2. CASE Disconnect(c)
  BY <1>2 DEF Disconnect, Drop, TypeOK, Places, historyVars
<1>3. QED  BY <1>1, <1>2

LEMMA CommandType ==
  ASSUME IInv, NEW c \in Conns, Command(c)
  PROVE  TypeOK'
<1> USE DEF IInv
<1>1. ASSUME NEW k \in Keys, NEW t \in Timeouts, NEW p \in Prices \cup {NoPrice},
             ActivityStop(c, k, t, p)
      PROVE  TypeOK'
  <2> DEFINE s == NewStop(arms + 1, k, t, p)
  <2>1. s \in Stops /\ s.id = arms + 1 /\ arms + 1 \in Ids
    BY <1>1, ConstantsAssumption DEF ActivityStop, TypeOK, Ids, NewStop, Stops
  <2>2. /\ db'   \in [Keys -> Stops \cup {Null}]
        /\ arms' \in 0 .. MaxArms
        /\ fate' \in [Ids -> Fates]
    BY <1>1, <2>1, RegisterType DEF ActivityStop
  <2>3. arm' \in [Conns -> Stops \cup {Null}]
    BY <1>1, <2>1 DEF ActivityStop, TypeOK
  <2>4. QED
    BY <1>1, <2>2, <2>3 DEF ActivityStop, TypeOK, Places, marketVars, chartVars
<1>2. CASE InstallStop(c)
  BY <1>2 DEF InstallStop, TypeOK, Places, marketVars, chartVars, historyVars
<1>3. CASE CancelActivityStop(c)
  BY <1>3, ResolveType DEF CancelActivityStop, TypeOK, Fates, marketVars, chartVars
<1>4. CASE (\E s \in Symbols : SubscribeChart(c, s)) \/ UnsubscribeChart(c)
  BY <1>4 DEF SubscribeChart, UnsubscribeChart, TypeOK, marketVars, historyVars
<1>5. QED  BY <1>1, <1>2, <1>3, <1>4 DEF Command

LEMMA TaskType ==
  ASSUME IInv, NEW c \in Conns, WsPositionUpdate(c) \/ ChartTake(c) \/ ChartApply(c)
  PROVE  TypeOK'
<1> USE DEF IInv
<1>1. CASE WsPositionUpdate(c)
  <2>1. feed' \in [Conns -> Seq(Events)]
    BY <1>1 DEF WsPositionUpdate, TypeOK
  <2>2. /\ db'   \in [Keys -> Stops \cup {Null}]
        /\ stop' \in [Conns -> Stops \cup {Null}]
        /\ fate' \in [Ids -> Fates]
    BY <1>1, ResolveType DEF WsPositionUpdate, TypeOK, Fates
  <2>3. QED  BY <1>1, <2>1, <2>2 DEF WsPositionUpdate, TypeOK, chartVars
<1>2. CASE ChartTake(c)
  <2>1. Head(trades[c]) \in Prices /\ Tail(trades[c]) \in Seq(Prices)
    BY <1>2 DEF ChartTake, TypeOK
  <2>2. QED  BY <1>2, <2>1 DEF ChartTake, TypeOK, marketVars, historyVars
<1>3. CASE ChartApply(c)
  <2>1. Touched(stop[c], seen[c]) \in Stops \cup {Null}
    BY <1>3, TouchedType DEF ChartApply, TypeOK
  <2>2. QED  BY <1>3, <2>1 DEF ChartApply, TypeOK, marketVars, historyVars
<1>4. QED  BY <1>1, <1>2, <1>3

\* Executing the close order: the quote is there, for FiringIsHeld says so.
LEMMA ExecuteType ==
  ASSUME IInv, NEW c \in Conns, NEW a \in {"ackOk", "ackErr"}, Execute(c, a)
  PROVE  /\ TypeOK'
         /\ quote[c] \in Reports
         /\ quote[c].key[1] = stop[c].key[1]
<1> USE DEF IInv
<1>1. quote[c] \in Reports /\ quote[c].key[1] = stop[c].key[1]
  BY DEF Execute, FiringIsHeld, Locked, TypeOK
<1>2. quote[c].key[1] \in Symbols
  BY <1>1 DEF Reports, Keys
<1>3. pos' \in [Keys -> Nat]
  BY <1>1, ReduceOnlyReduces DEF Execute, TypeOK
<1>4. feed' \in [Conns -> Seq(Events)]
  BY <1>2, <1>3, PublishType DEF Execute, TypeOK
<1>5. QED
  BY <1>1, <1>3, <1>4 DEF Execute, TypeOK, Places, Fates, chartVars

LEMMA TimerType ==
  ASSUME IInv, NEW c \in Conns, Timer(c)
  PROVE  TypeOK'
<1> USE DEF IInv
<1>1. CASE TimerExpire(c)
  BY <1>1 DEF TimerExpire, TypeOK, Places, marketVars, chartVars, historyVars
<1>2. CASE GetPositionsOk(c)
  <2>1. quote' \in [Conns -> Reports \cup {Null}]
    BY <1>2 DEF GetPositionsOk, Candidates, TypeOK, Reports
  <2>2. QED
    BY <1>2, <2>1 DEF GetPositionsOk, TypeOK, Places, marketVars, chartVars, historyVars
<1>3. CASE GetPositionsNone(c)
  BY <1>3, ResolveType
  DEF GetPositionsNone, TypeOK, Places, Fates, marketVars, chartVars
<1>4. CASE PlaceOrderOk(c) \/ PlaceOrderLost(c)
  BY <1>4, ExecuteType DEF PlaceOrderOk, PlaceOrderLost
<1>5. CASE PlaceOrderRefused(c)
  BY <1>5 DEF PlaceOrderRefused, TypeOK, Places, marketVars, chartVars, historyVars
<1>6. CASE CloseAnswered(c)
  BY <1>6, ResolveType
  DEF CloseAnswered, TypeOK, Places, Fates, marketVars, chartVars
<1>7. QED  BY <1>1, <1>2, <1>3, <1>4, <1>5, <1>6 DEF Timer

LEMMA WorldType ==
  ASSUME IInv, Market \/ Crash \/ Tick
  PROVE  TypeOK'
<1> USE DEF IInv
<1>1. ASSUME NEW s \in Symbols, NEW side \in Sides, NEW q \in 0 .. MaxQty,
             MovePosition(s, side, q)
      PROVE  TypeOK'
  <2>1. pos' \in [Keys -> Nat]
    BY <1>1, ConstantsAssumption DEF MovePosition, TypeOK
  <2>2. feed' \in [Conns -> Seq(Events)]
    BY <1>1, <2>1, PublishType DEF MovePosition, TypeOK
  <2>3. QED  BY <1>1, <2>1, <2>2 DEF MovePosition, TypeOK, chartVars, historyVars
<1>2. ASSUME NEW c \in Conns, NEW p \in Prices, MarketTrade(c, p)
      PROVE  TypeOK'
  BY <1>2 DEF MarketTrade, TypeOK, marketVars, historyVars
<1>3. CASE Crash
  BY <1>3 DEF Crash, Drop, TypeOK, Places, historyVars
<1>4. CASE Tick
  <2>1. /\ db'   \in [Keys  -> Stops \cup {Null}]
        /\ stop' \in [Conns -> Stops \cup {Null}]
        /\ arm'  \in [Conns -> Stops \cup {Null}]
    BY <1>4, AgedType DEF Tick, TypeOK
  <2>2. QED  BY <1>4, <2>1 DEF Tick, TypeOK, marketVars, chartVars, historyVars
<1>5. QED  BY <1>1, <1>2, <1>3, <1>4 DEF Market

-----------------------------------------------------------------------------
(* The guard of the timer *)

\* A step that leaves where session c is, its stop and its quote alone, or
\* takes it to a place where the guard is not held, keeps c's part of
\* FiringIsHeld.
HeldFor(c) == Locked(c) =>
  /\ Expired(stop[c])
  /\ main[c] # "fetch" =>
       quote[c] # Null /\ quote[c].key[1] = stop[c].key[1] /\ quote[c].qty > 0

LEMMA HeldIfUntouched ==
  ASSUME IInv, NEW d \in Conns,
         \/ main'[d] = main[d] /\ stop'[d] = stop[d] /\ quote'[d] = quote[d]
         \/ main'[d] \in {"down", "run", "arm"}
  PROVE  HeldFor(d)'
  BY DEF IInv, FiringIsHeld, HeldFor, Locked, Expired

\* The ws and the chart task wait for the guard, and so leave a firing
\* session as it is.
LEMMA HeldByTasks ==
  ASSUME IInv, NEW c \in Conns, NEW d \in Conns,
         WsPositionUpdate(c) \/ ChartTake(c) \/ ChartApply(c)
  PROVE  HeldFor(d)'
<1> USE DEF IInv
<1>1. main' = main /\ quote' = quote
  BY DEF WsPositionUpdate, ChartTake, ChartApply
<1>2. CASE Locked(d)
  <2>1. stop'[d] = stop[d]
    BY <1>2, ResolveType
    DEF WsPositionUpdate, ChartTake, ChartApply, MutexFree, Fates, TypeOK
  <2>2. QED  BY <1>1, <2>1, HeldIfUntouched
<1>3. CASE ~Locked(d)
  BY <1>1, <1>3 DEF HeldFor, Locked
<1>4. QED  BY <1>2, <1>3

\* A session's own commands run while its timer does not.
LEMMA HeldByCommand ==
  ASSUME IInv, NEW c \in Conns, NEW d \in Conns, Command(c)
  PROVE  HeldFor(d)'
<1> USE DEF IInv
<1>1. quote' = quote
  BY DEF Command, ActivityStop, InstallStop, CancelActivityStop, SubscribeChart, UnsubscribeChart
<1>2. d # c => main'[d] = main[d] /\ stop'[d] = stop[d]
  <2>1. CASE CancelActivityStop(c)
    BY <2>1, ResolveType DEF CancelActivityStop, TypeOK, Fates
  <2>2. CASE ~CancelActivityStop(c)
    BY <2>2 DEF Command, ActivityStop, InstallStop, SubscribeChart, UnsubscribeChart, TypeOK
  <2>3. QED  BY <2>1, <2>2
<1>3. d = c => main'[d] \in {"run", "arm"}
  BY DEF Command, ActivityStop, InstallStop, CancelActivityStop, SubscribeChart,
         UnsubscribeChart, TypeOK
<1>4. QED  BY <1>1, <1>2, <1>3, HeldIfUntouched

LEMMA HeldByTimer ==
  ASSUME IInv, NEW c \in Conns, NEW d \in Conns, Timer(c)
  PROVE  HeldFor(d)'
<1> USE DEF IInv
<1>1. CASE TimerExpire(c)
  <2>1. CASE d = c
    BY <1>1, <2>1 DEF TimerExpire, HeldFor, TypeOK, Expired
  <2>2. CASE d # c
    BY <1>1, <2>2, HeldIfUntouched DEF TimerExpire, TypeOK
  <2>3. QED  BY <2>1, <2>2
<1>2. CASE GetPositionsOk(c)
  <2>1. CASE d = c
    <3>1. PICK k \in Candidates(c) :
            quote' = [quote EXCEPT ![c] = [key |-> k, qty |-> pos[k]]]
      BY <1>2 DEF GetPositionsOk
    <3>2. k \in Keys /\ k[1] = stop[c].key[1] /\ pos[k] > 0 /\ pos[k] \in Nat
      BY <3>1 DEF Candidates, TypeOK
    <3>3. quote'[c] = [key |-> k, qty |-> pos[k]] /\ quote'[c] \in Reports
      BY <3>1, <3>2 DEF TypeOK, Reports
    <3>4. quote'[c] # Null
      BY <3>3, NullAssumption
    <3>5. Expired(stop[c]) /\ stop' = stop
      BY <1>2 DEF GetPositionsOk, FiringIsHeld, Locked
    <3>6. QED  BY <2>1, <3>2, <3>3, <3>4, <3>5 DEF HeldFor, Expired
  <2>2. CASE d # c
    BY <1>2, <2>2, HeldIfUntouched DEF GetPositionsOk, TypeOK
  <2>3. QED  BY <2>1, <2>2
<1>3. CASE GetPositionsNone(c) \/ CloseAnswered(c)
  <2>1. stop' = [stop EXCEPT ![c] = Null] /\ main' = [main EXCEPT ![c] = "run"]
    BY <1>3, ResolveType DEF GetPositionsNone, CloseAnswered, Fates
  <2>2. d # c => quote'[d] = quote[d]
    BY <1>3 DEF GetPositionsNone, CloseAnswered, TypeOK
  <2>3. QED  BY <2>1, <2>2, HeldIfUntouched DEF TypeOK
<1>4. CASE PlaceOrderOk(c) \/ PlaceOrderLost(c) \/ PlaceOrderRefused(c)
  <2>1. stop' = stop /\ quote' = quote /\ main[c] = "close" /\ (d # c => main'[d] = main[d])
    BY <1>4 DEF PlaceOrderOk, PlaceOrderLost, PlaceOrderRefused, Execute, TypeOK
  <2>2. HeldFor(d)
    BY DEF FiringIsHeld, HeldFor
  <2>3. QED  BY <2>1, <2>2, HeldIfUntouched DEF HeldFor, Locked, Expired
<1>5. QED  BY <1>1, <1>2, <1>3, <1>4 DEF Timer

LEMMA HeldByWorld ==
  ASSUME IInv, NEW d \in Conns, Market \/ Crash \/ Tick
  PROVE  HeldFor(d)'
<1> USE DEF IInv
<1>1. CASE Market
  BY <1>1, HeldIfUntouched DEF Market, MovePosition, MarketTrade
<1>2. CASE Crash
  BY <1>2, HeldIfUntouched DEF Crash, Drop
<1>3. CASE Tick
  <2>1. main' = main /\ quote' = quote /\ stop'[d] = Aged(stop[d])
    BY <1>3 DEF Tick
  <2>2. CASE Locked(d)
    <3>1. stop'[d] = stop[d]
      BY <2>1, <2>2, AgedExpired DEF FiringIsHeld, TypeOK
    <3>2. QED  BY <2>1, <3>1, HeldIfUntouched
  <2>3. CASE ~Locked(d)
    BY <2>1, <2>3 DEF HeldFor, Locked
  <2>4. QED  BY <2>2, <2>3
<1>4. QED  BY <1>1, <1>2, <1>3

-----------------------------------------------------------------------------
(* The theorems *)

LEMMA NextIInv == IInv /\ [Next]_vars => IInv'
<1> SUFFICES ASSUME IInv, [Next]_vars PROVE IInv'
  OBVIOUS
<1>1. ASSUME NEW c \in Conns, Session(c)
      PROVE  IInv'
  <2>1. TypeOK'
    BY <1>1, SessionType, CommandType, TaskType, TimerType DEF Session
  <2>2. ASSUME NEW d \in Conns PROVE HeldFor(d)'
    <3>1. CASE Connect(c) \/ Disconnect(c)
      <4>1. d # c => main'[d] = main[d] /\ stop'[d] = stop[d] /\ quote'[d] = quote[d]
        BY <3>1 DEF Connect, Disconnect, Drop, IInv, TypeOK
      <4>2. d = c => main'[d] \in {"down", "run"}
        BY <3>1 DEF Connect, Disconnect, Drop, IInv, TypeOK
      <4>3. QED  BY <4>1, <4>2, HeldIfUntouched
    <3>2. QED
      BY <1>1, <3>1, HeldByCommand, HeldByTasks, HeldByTimer DEF Session
  <2>3. QED  BY <2>1, <2>2 DEF IInv, FiringIsHeld, HeldFor
<1>2. CASE Market \/ Crash \/ Tick
  BY <1>2, WorldType, HeldByWorld DEF IInv, FiringIsHeld, HeldFor
<1>3. CASE UNCHANGED vars
  BY <1>3 DEF vars, IInv, TypeOK, FiringIsHeld, Locked, Expired
<1>4. QED  BY <1>1, <1>2, <1>3 DEF Next

THEOREM InductiveInvariant == Spec => []IInv
  BY InitIInv, NextIInv, PTL DEF Spec

\* The state stays well typed: in particular a position never becomes
\* negative, whatever a stale close order meets.
THEOREM TypeCorrect == Spec => []TypeOK
<1>1. IInv => TypeOK  BY DEF IInv
<1>2. QED  BY <1>1, InductiveInvariant, PTL

\* The guard of the timer holds the fired stop still over its three awaits,
\* for any number of sessions, through crashes and failing transactions.
THEOREM GuardHolds == Spec => []FiringIsHeld
<1>1. IInv => FiringIsHeld  BY DEF IInv
<1>2. QED  BY <1>1, InductiveInvariant, PTL

LEMMA CloseStepReduces ==
  ASSUME IInv, Next, NEW c \in Conns, main[c] = "close", main'[c] # "close", NEW k \in Keys
  PROVE  /\ pos'[k] <= pos[k]
         /\ k[1] # stop[c].key[1] => pos'[k] = pos[k]
<1> USE DEF IInv
<1>0. pos[k] \in Nat  BY DEF TypeOK
<1>1. ASSUME NEW d \in Conns, Timer(d)
      PROVE  /\ pos'[k] <= pos[k]
             /\ k[1] # stop[c].key[1] => pos'[k] = pos[k]
  <2>1. ASSUME NEW a \in {"ackOk", "ackErr"}, Execute(d, a)
        PROVE  /\ pos'[k] <= pos[k]
               /\ k[1] # stop[c].key[1] => pos'[k] = pos[k]
    <3>1. d = c
      BY <2>1 DEF Execute, TypeOK
    <3>2. pos' = ReduceOnly(pos, quote[c])
      BY <2>1, <3>1 DEF Execute
    <3>3. quote[c] \in Reports /\ quote[c].key[1] = stop[c].key[1]
      BY <2>1, <3>1, ExecuteType
    <3>4. QED  BY <3>2, <3>3, ReduceOnlyReduces DEF TypeOK
  <2>2. CASE PlaceOrderOk(d) \/ PlaceOrderLost(d)
    BY <2>1, <2>2 DEF PlaceOrderOk, PlaceOrderLost
  <2>3. CASE ~(PlaceOrderOk(d) \/ PlaceOrderLost(d))
    <3>1. pos' = pos
      BY <1>1, <2>3 DEF Timer, TimerExpire, GetPositionsOk, GetPositionsNone,
                        PlaceOrderRefused, CloseAnswered, marketVars
    <3>2. QED  BY <1>0, <3>1
  <2>4. QED  BY <2>2, <2>3
<1>2. CASE \E d \in Conns : Connect(d) \/ Disconnect(d) \/ WsPositionUpdate(d)
                             \/ ChartTake(d) \/ ChartApply(d)
  <2>1. pos' = pos
    BY <1>2 DEF Connect, Disconnect, Drop, WsPositionUpdate, ChartTake, ChartApply, marketVars
  <2>2. QED  BY <1>0, <2>1
<1>3. CASE \E d \in Conns : Command(d)
  <2>1. pos' = pos
    BY <1>3 DEF Command, ActivityStop, InstallStop, CancelActivityStop,
                SubscribeChart, UnsubscribeChart, marketVars
  <2>2. QED  BY <1>0, <2>1
<1>4. CASE Market
  <2>1. main' = main
    BY <1>4 DEF Market, MovePosition, MarketTrade
  <2>2. QED  BY <2>1
<1>5. CASE Crash \/ Tick
  <2>1. pos' = pos
    BY <1>5 DEF Crash, Drop, Tick, marketVars
  <2>2. QED  BY <1>0, <2>1
<1>6. QED  BY <1>1, <1>2, <1>3, <1>4, <1>5 DEF Next, Session

\* A close order never opens, flips or enlarges a position and stays on its
\* stop's symbol, although the position may have moved since it was fetched.
THEOREM CloseReduces == Spec => CloseOnlyReduces
<1> DEFINE A == \A c \in Conns : main[c] = "close" /\ main'[c] # "close" =>
                  \A k \in Keys : /\ pos'[k] <= pos[k]
                                  /\ k[1] # stop[c].key[1] => pos'[k] = pos[k]
<1>1. IInv /\ [Next]_vars => [A]_vars
  BY CloseStepReduces
<1>2. QED  BY <1>1, InductiveInvariant, PTL DEF Spec, CloseOnlyReduces
-----------------------------------------------------------------------------
(* What is on record *)

\* A row says whether its stop was asked for with a trigger, and nothing writes more into it.
LEMMA RecordStep ==
  ASSUME IInv, TriggerNotPersisted, [Next]_vars
  PROVE  TriggerNotPersisted'
<1> DEFINE Asked(s) == s # Null => (s.active <=> s.trigger = NoPrice)
<1> USE DEF IInv
<1>1. SUFFICES \A k \in Keys : Asked(db'[k])
  BY DEF TriggerNotPersisted
<1>2. \A k \in Keys : Asked(db[k]) /\ db[k] \in Stops \cup {Null}
  BY DEF TriggerNotPersisted, TypeOK
<1>3. ASSUME NEW k \in Keys, DeleteActivityStop(k) \/ UNCHANGED db
      PROVE  \A j \in Keys : Asked(db'[j])
  BY <1>2, <1>3 DEF DeleteActivityStop, DbOutcomes, TypeOK
<1>4. ASSUME NEW c \in Conns, NEW k \in Keys, NEW t \in Timeouts, NEW p \in Prices \cup {NoPrice},
             ActivityStop(c, k, t, p)
      PROVE  \A j \in Keys : Asked(db'[j])
  <2> DEFINE s == NewStop(arms + 1, k, t, p)
  <2>1. s.key = k /\ Asked(s)
    BY DEF NewStop
  <2>2. db' \in {db, [db EXCEPT ![k] = s]}
    BY <1>4, <2>1 DEF ActivityStop, Register, SaveActivityStop, DbOutcomes
  <2> HIDE DEF s
  <2>3. QED  BY <1>2, <2>1, <2>2 DEF TypeOK
<1>5. CASE Tick
  <2>1. ASSUME NEW s \in Stops \cup {Null}, Asked(s)
        PROVE  Asked(Aged(s))
    BY <2>1 DEF Aged, Stops
  <2>2. QED  BY <1>2, <1>5, <2>1 DEF Tick
<1>6. ASSUME NEW c \in Conns, NEW f, Resolve(c, f), stop[c] # Null
      PROVE  \A j \in Keys : Asked(db'[j])
  BY <1>3, <1>6 DEF Resolve, TypeOK, Stops
<1>7. ASSUME NEW c \in Conns, Session(c)
      PROVE  \A j \in Keys : Asked(db'[j])
  <2>1. CASE Locked(c) => stop[c] # Null
    <3>1. CASE CancelActivityStop(c) \/ WsPositionUpdate(c)
      BY <1>2, <1>6, <3>1 DEF CancelActivityStop, WsPositionUpdate
    <3>2. CASE GetPositionsNone(c) \/ CloseAnswered(c)
      BY <1>6, <2>1, <3>2 DEF GetPositionsNone, CloseAnswered, Locked
    <3>3. CASE UNCHANGED db
      BY <1>2, <3>3
    <3>4. QED
      BY <1>4, <1>7, <3>1, <3>2, <3>3
      DEF Session, Connect, Disconnect, Drop, Command, InstallStop, SubscribeChart, UnsubscribeChart,
          ChartTake, ChartApply, Timer, TimerExpire, GetPositionsOk, PlaceOrderOk, PlaceOrderLost,
          Execute, PlaceOrderRefused
  <2>2. QED  BY <2>1 DEF FiringIsHeld, Expired
<1>8. CASE UNCHANGED db
  BY <1>2, <1>8
<1>9. QED
  BY <1>5, <1>7, <1>8 DEF Next, Market, MovePosition, MarketTrade, Crash, Drop, vars

\* A trigger that fired is never on record, for any number of sessions, through crashes and
\* failing transactions: whoever restores the stop waits for the trigger again.
THEOREM TriggerNotOnRecord == Spec => []TriggerNotPersisted
<1>1. Init => TriggerNotPersisted
  BY DEF Init, TriggerNotPersisted
<1>2. QED  BY <1>1, RecordStep, InductiveInvariant, PTL DEF Spec

-----------------------------------------------------------------------------
(* SECOND PART: the end of a stop in the sessions of a single client *)

\* One client at a time, no crash and no failing transaction.
OneClient == ~Crashes /\ ~DbFails /\ \A c, d \in Conns : c = d

Acked(c)  == main[c] \in {"ackOk", "ackErr"}

\* A request has been used up to the counter and not beyond.
IdsCounted == \A i \in Ids : fate[i] = "unused" <=> i > arms

\* The stop in the Mutex has not ended; it has lost its row only while the
\* request that took it waits for the Mutex, and it has fired only while the
\* answer of its close order is awaited.
StopUnended ==
  \A c \in Conns : stop[c] # Null =>
    /\ main[c] # "down"
    /\ \/ fate[stop[c].id] = "live"
       \/ fate[stop[c].id] = "overwritten" /\ main[c] = "arm"
       \/ fate[stop[c].id] = "shot" /\ Acked(c)

\* A stop on its way to the Mutex is live and not the one that is there.
ArmLive ==
  \A c \in Conns :
    /\ arm[c] # Null <=> main[c] = "arm"
    /\ arm[c] # Null => /\ fate[arm[c].id] = "live"
                        /\ stop[c] # Null => stop[c].id # arm[c].id

\* A row lies under its key, is the only one of its request, and is live or
\* that of the stop being closed.
RowsUnended ==
  \A k \in Keys : db[k] # Null =>
    /\ db[k].key = k
    /\ \A j \in Keys : RowOf(db[j], db[k].id) => j = k
    /\ \/ fate[db[k].id] = "live"
       \/ /\ fate[db[k].id] = "shot"
          /\ \E c \in Conns : Acked(c) /\ RowOf(stop[c], db[k].id)

\* The row of a stop in memory lies where its deletion will look for it.
RowsFound ==
  \A c \in Conns, k \in Keys : db[k] # Null =>
    /\ RowOf(stop[c], db[k].id) => stop[c].key = k
    /\ RowOf(arm[c], db[k].id)  => arm[c].key = k

FinalInv == IdsCounted /\ StopUnended /\ ArmLive /\ RowsUnended /\ RowsFound

-----------------------------------------------------------------------------
(* Steps that end no stop and begin none *)

\* Both are absent, or they are the same request under the same key.
Same(s, t) == (t = Null <=> s = Null) /\ (s # Null => t.id = s.id /\ t.key = s.key)

\* Time and trades change clocks and flags only; most steps of the select
\* loop change its place only.
LEMMA FinalKept ==
  ASSUME TypeOK, FinalInv, arms' = arms, fate' = fate,
         \A c \in Conns : Same(stop[c], stop'[c]) /\ Same(arm[c], arm'[c]),
         \A k \in Keys : Same(db[k], db'[k]),
         \A c \in Conns : main'[c] # main[c] =>
            ~Acked(c) /\ main[c] \notin {"down", "arm"} /\ main'[c] \notin {"down", "arm"}
  PROVE  FinalInv'
<1> USE DEF FinalInv, Same
<1>1. IdsCounted'
  BY DEF IdsCounted
<1>2. StopUnended'
  BY DEF StopUnended, Acked
<1>3. ArmLive'
  BY DEF ArmLive
<1>4. RowsUnended'
  <2> SUFFICES ASSUME NEW k \in Keys, db'[k] # Null
               PROVE  /\ db'[k].key = k
                      /\ \A j \in Keys : RowOf(db'[j], db'[k].id) => j = k
                      /\ \/ fate'[db'[k].id] = "live"
                         \/ /\ fate'[db'[k].id] = "shot"
                            /\ \E c \in Conns : Acked(c)' /\ RowOf(stop'[c], db'[k].id)
    BY DEF RowsUnended
  <2>1. db[k] # Null /\ db'[k].key = k /\ db'[k].id = db[k].id
    BY DEF RowsUnended
  <2>2. \A j \in Keys : RowOf(db'[j], db'[k].id) => j = k
    BY <2>1 DEF RowsUnended, RowOf
  <2>3. \A c \in Conns : Acked(c) => Acked(c)'
    BY DEF Acked
  <2>4. \A c \in Conns : RowOf(stop[c], db[k].id) => RowOf(stop'[c], db[k].id)
    BY DEF RowOf
  <2>5. QED  BY <2>1, <2>2, <2>3, <2>4 DEF RowsUnended
<1>5. RowsFound'
  BY DEF RowsFound, RowOf
<1>6. QED  BY <1>1, <1>2, <1>3, <1>4, <1>5

-----------------------------------------------------------------------------
(* The end of a stop *)

LEMMA FinalResolve ==
  ASSUME OneClient, TypeOK, FinalInv, NEW c \in Conns, stop[c] # Null,
         NEW f \in Resolved, Resolve(c, f), arms' = arms, arm' = arm,
         main'[c] # "down", main'[c] = "arm" <=> main[c] = "arm"
  PROVE  FinalInv'
<1> DEFINE i == stop[c].id
<1> USE DEF FinalInv
<1>1. \A d \in Conns : d = c
  BY DEF OneClient
<1>2. /\ stop' = [stop EXCEPT ![c] = Null]
      /\ db'   = [db EXCEPT ![stop[c].key] = Null]
      /\ fate' = [fate EXCEPT ![i] = f]
  BY DEF Resolve, DeleteActivityStop, DbOutcomes, OneClient
<1>3. stop[c] \in Stops /\ i \in Ids /\ stop[c].key \in Keys
  BY DEF TypeOK, Stops
<1>4. \A k \in Keys : db'[k] # Null => /\ db'[k] = db[k] /\ db[k] \in Stops
                                       /\ db[k].id # i /\ db[k].id \in Ids
  <2> SUFFICES ASSUME NEW k \in Keys, db'[k] # Null
               PROVE  db'[k] = db[k] /\ db[k] \in Stops /\ db[k].id # i /\ db[k].id \in Ids
    OBVIOUS
  <2>1. k # stop[c].key /\ db'[k] = db[k]
    BY <1>2 DEF TypeOK
  <2>2. db[k] \in Stops /\ db[k].id \in Ids
    BY <2>1 DEF TypeOK, Stops
  <2>3. db[k].id # i
    BY <2>1 DEF RowsFound, RowOf
  <2>4. QED  BY <2>1, <2>2, <2>3
<1>5. \A x \in Ids : fate'[x] = IF x = i THEN f ELSE fate[x]
  BY <1>2, <1>3 DEF TypeOK
<1>6. IdsCounted'
  <2>1. fate[i] # "unused"
    BY DEF StopUnended
  <2>2. f # "unused"
    BY DEF Resolved
  <2>3. QED  BY <1>5, <2>1, <2>2 DEF IdsCounted
<1>7. stop'[c] = Null
  BY <1>2 DEF TypeOK
<1>8. StopUnended'
  BY <1>1, <1>7 DEF StopUnended
<1>9. ArmLive'
  <2>1. arm[c] # Null => arm[c].id \in Ids /\ arm[c].id # i
    BY DEF ArmLive, TypeOK, Stops
  <2>2. QED  BY <1>1, <1>5, <1>7, <2>1 DEF ArmLive
<1>10. RowsUnended'
  <2> SUFFICES ASSUME NEW k \in Keys, db'[k] # Null
               PROVE  /\ db'[k].key = k
                      /\ \A j \in Keys : RowOf(db'[j], db'[k].id) => j = k
                      /\ fate'[db'[k].id] = "live"
    BY DEF RowsUnended
  <2>1. db'[k] = db[k] /\ db[k] # Null /\ db[k].id # i /\ db[k].id \in Ids
    BY <1>4
  <2>2. \A j \in Keys : RowOf(db'[j], db[k].id) => j = k
    BY <1>4, <2>1 DEF RowsUnended, RowOf
  <2>3. fate[db[k].id] = "live"
    BY <1>1, <2>1 DEF RowsUnended, RowOf
  <2>4. QED  BY <1>5, <2>1, <2>2, <2>3 DEF RowsUnended
<1>11. RowsFound'
  BY <1>1, <1>4, <1>7 DEF RowsFound, RowOf
<1>12. QED  BY <1>6, <1>8, <1>9, <1>10, <1>11

-----------------------------------------------------------------------------
(* Sessions *)

LEMMA FinalConnect ==
  ASSUME OneClient, TypeOK, FinalInv, NEW c \in Conns, Connect(c)
  PROVE  FinalInv'
<1> USE DEF FinalInv
<1>1. \A d \in Conns : d = c
  BY DEF OneClient
<1>2. stop[c] = Null /\ arm[c] = Null
  BY DEF Connect, Up, StopUnended, ArmLive
<1>3. main'[c] = "run" /\ ~Acked(c) /\ arm' = arm /\ db' = db /\ arms' = arms /\ fate' = fate
  BY DEF Connect, TypeOK, Acked, Up
<1>4. PICK s \in Restored : stop' = [stop EXCEPT ![c] = s]
  BY DEF Connect
<1>5. stop'[c] = s
  BY <1>4 DEF TypeOK
<1>6. s # Null => \E k \in Keys : db[k] = s
  BY DEF Restored, FirstKeys, Stored, OneClient
<1>7. \A k \in Keys : db[k] # Null => fate[db[k].id] = "live"
  BY <1>1, <1>3 DEF RowsUnended
<1>8. IdsCounted'
  BY <1>3 DEF IdsCounted
<1>9. StopUnended'
  BY <1>1, <1>3, <1>5, <1>6, <1>7 DEF StopUnended
<1>10. ArmLive'
  BY <1>1, <1>2, <1>3 DEF ArmLive
<1>11. RowsUnended'
  BY <1>3, <1>7 DEF RowsUnended
<1>12. RowsFound'
  <2> SUFFICES ASSUME NEW k \in Keys, db[k] # Null, s # Null, s.id = db[k].id
               PROVE  s.key = k
    BY <1>1, <1>2, <1>3, <1>5 DEF RowsFound, RowOf
  <2>1. PICK j \in Keys : db[j] = s
    BY <1>6
  <2>2. j = k
    BY <2>1 DEF RowsUnended, RowOf
  <2>3. QED  BY <2>1, <2>2 DEF RowsUnended
<1>13. QED  BY <1>8, <1>9, <1>10, <1>11, <1>12

LEMMA FinalDisconnect ==
  ASSUME OneClient, TypeOK, FinalInv, NEW c \in Conns, Disconnect(c)
  PROVE  FinalInv'
<1> USE DEF FinalInv
<1>1. \A d \in Conns : d = c
  BY DEF OneClient
<1>2. /\ main[c] = "run" /\ main'[c] = "down" /\ stop'[c] = Null /\ arm'[c] = Null
      /\ db' = db /\ arms' = arms /\ fate' = fate
  BY DEF Disconnect, Drop, historyVars
<1>3. \A k \in Keys : db[k] # Null => fate[db[k].id] = "live"
  BY <1>1, <1>2 DEF RowsUnended, Acked
<1>4. IdsCounted'
  BY <1>2 DEF IdsCounted
<1>5. StopUnended' /\ ArmLive' /\ RowsFound'
  BY <1>1, <1>2 DEF StopUnended, ArmLive, RowsFound, RowOf
<1>6. RowsUnended'
  BY <1>2, <1>3 DEF RowsUnended
<1>7. QED  BY <1>4, <1>5, <1>6

-----------------------------------------------------------------------------
(* A new request *)

LEMMA FinalActivityStop ==
  ASSUME OneClient, TypeOK, FinalInv, NEW c \in Conns,
         NEW k \in Keys, NEW t \in Timeouts, NEW p \in Prices \cup {NoPrice},
         ActivityStop(c, k, t, p)
  PROVE  FinalInv'
<1> DEFINE s == NewStop(arms + 1, k, t, p)
<1> USE DEF FinalInv
<1>1. \A d \in Conns : d = c
  BY DEF OneClient
<1>2. s \in Stops /\ s.id = arms + 1 /\ s.key = k /\ s.id \in Ids /\ s # Null
  <2>1. s \in Stops /\ arms + 1 \in Ids
    BY ConstantsAssumption DEF ActivityStop, TypeOK, Ids, NewStop, Stops
  <2>2. s.id = arms + 1 /\ s.key = k
    BY DEF NewStop
  <2>3. QED  BY <2>1, <2>2, NullAssumption
<1>3. /\ main[c] = "run" /\ main'[c] = "arm" /\ arm'[c] = s /\ stop' = stop
      /\ Register(s) /\ arms' = arms + 1
  BY <1>2 DEF ActivityStop, Register, TypeOK
<1>4. db' = [db EXCEPT ![k] = s]
  BY <1>2, <1>3 DEF Register, SaveActivityStop, DbOutcomes, OneClient
<1>5. \A i \in Ids : fate'[i] = CASE i = s.id -> "live"
                                [] i # s.id /\ RowOf(db[k], i) /\ fate[i] \in {"live", "shot"}
                                     -> "overwritten"
                                [] OTHER -> fate[i]
  <2>1. \A i \in Ids : RowOf(db'[k], i) <=> i = s.id
    BY <1>2, <1>4 DEF RowOf, TypeOK
  <2>2. QED  BY <1>2, <1>3, <2>1 DEF Register
<1>6. fate[s.id] = "unused"
  BY <1>2 DEF IdsCounted, TypeOK, Ids
<1>7. stop[c] # Null => /\ stop[c].id \in Ids /\ stop[c].id # s.id
                        /\ fate[stop[c].id] = "live"
  BY <1>3, <1>6 DEF StopUnended, Acked, TypeOK, Stops
<1>8. \A j \in Keys : db[j] # Null => /\ db[j].id \in Ids /\ db[j].id # s.id
                                      /\ fate[db[j].id] = "live"
  <2>1. \A j \in Keys : db[j] # Null => db[j].id \in Ids
    BY DEF TypeOK, Stops
  <2>2. \A j \in Keys : db[j] # Null => fate[db[j].id] = "live"
    BY <1>1, <1>3 DEF RowsUnended, Acked
  <2>3. QED  BY <1>6, <2>1, <2>2
<1>9. IdsCounted'
  <2> SUFFICES ASSUME NEW i \in Ids PROVE fate'[i] = "unused" <=> i > arms + 1
    BY <1>3 DEF IdsCounted
  <2>1. i \in Nat /\ arms \in Nat
    BY ConstantsAssumption DEF Ids, TypeOK
  <2>2. CASE i = s.id
    BY <1>2, <1>5, <2>1, <2>2
  <2>3. CASE i # s.id
    BY <1>2, <1>5, <2>1, <2>3 DEF IdsCounted
  <2>4. QED  BY <2>2, <2>3
<1>10. StopUnended'
  BY <1>1, <1>3, <1>5, <1>7 DEF StopUnended
<1>11. ArmLive'
  BY <1>1, <1>2, <1>3, <1>5, <1>7 DEF ArmLive
<1>12. RowsUnended'
  <2> SUFFICES ASSUME NEW j \in Keys, db'[j] # Null
               PROVE  /\ db'[j].key = j
                      /\ \A m \in Keys : RowOf(db'[m], db'[j].id) => m = j
                      /\ fate'[db'[j].id] = "live"
    BY DEF RowsUnended
  <2>1. CASE j = k
    <3>1. db'[j] = s
      BY <1>4, <2>1 DEF TypeOK
    <3>2. \A m \in Keys : RowOf(db'[m], s.id) => m = j
      BY <1>4, <1>8, <2>1 DEF RowOf, TypeOK
    <3>3. QED  BY <1>2, <1>5, <2>1, <3>1, <3>2
  <2>2. CASE j # k
    <3>1. db'[j] = db[j] /\ db[j] # Null
      BY <1>4, <2>2 DEF TypeOK
    <3>2. ~RowOf(db[k], db[j].id)
      BY <2>2, <3>1 DEF RowsUnended
    <3>3. fate'[db[j].id] = "live"
      BY <1>5, <1>8, <3>1, <3>2
    <3>4. \A m \in Keys : RowOf(db'[m], db[j].id) => m = j
      BY <1>4, <1>8, <3>1 DEF RowOf, RowsUnended, TypeOK
    <3>5. QED  BY <3>1, <3>3, <3>4 DEF RowsUnended
  <2>3. QED  BY <2>1, <2>2
<1>13. RowsFound'
  <2>1. \A j \in Keys : j # k => db'[j] = db[j]
    BY <1>4 DEF TypeOK
  <2>2. db'[k] = s
    BY <1>4 DEF TypeOK
  <2>3. QED
    BY <1>1, <1>2, <1>3, <1>7, <1>8, <2>1, <2>2 DEF RowsFound, RowOf
<1>14. QED  BY <1>9, <1>10, <1>11, <1>12, <1>13

LEMMA FinalInstall ==
  ASSUME OneClient, TypeOK, FinalInv, NEW c \in Conns, InstallStop(c)
  PROVE  FinalInv'
<1> USE DEF FinalInv
<1>1. \A d \in Conns : d = c
  BY DEF OneClient
<1>2. /\ main[c] = "arm" /\ main'[c] = "run" /\ stop'[c] = arm[c] /\ arm'[c] = Null
      /\ db' = db /\ arms' = arms /\ fate' = fate
  BY DEF InstallStop, TypeOK, historyVars
<1>3. \A k \in Keys : db[k] # Null => fate[db[k].id] = "live"
  BY <1>1, <1>2 DEF RowsUnended, Acked
<1>4. IdsCounted'
  BY <1>2 DEF IdsCounted
<1>5. StopUnended' /\ ArmLive'
  BY <1>1, <1>2 DEF StopUnended, ArmLive
<1>6. RowsUnended'
  BY <1>2, <1>3 DEF RowsUnended
<1>7. RowsFound'
  BY <1>1, <1>2 DEF RowsFound, RowOf
<1>8. QED  BY <1>4, <1>5, <1>6, <1>7

-----------------------------------------------------------------------------
(* The close order *)

LEMMA FinalExecute ==
  ASSUME OneClient, IInv, FinalInv, NEW c \in Conns,
         NEW a \in {"ackOk", "ackErr"}, Execute(c, a)
  PROVE  FinalInv'
<1> DEFINE i == stop[c].id
<1> USE DEF FinalInv, IInv
<1>1. \A d \in Conns : d = c
  BY DEF OneClient
<1>2. /\ main[c] = "close" /\ main'[c] = a /\ stop' = stop /\ arm' = arm
      /\ db' = db /\ arms' = arms /\ fate' = [fate EXCEPT ![i] = "shot"]
  BY DEF Execute, TypeOK
<1>3. stop[c] # Null /\ i \in Ids /\ fate[i] = "live"
  <2>1. stop[c] # Null
    BY <1>2 DEF FiringIsHeld, Locked, Expired
  <2>2. i \in Ids
    BY <2>1 DEF TypeOK, Stops
  <2>3. fate[i] = "live"
    BY <1>2, <2>1 DEF StopUnended, Acked
  <2>4. QED  BY <2>1, <2>2, <2>3
<1>4. Acked(c)' /\ arm[c] = Null
  BY <1>2 DEF Acked, ArmLive
<1>5. \A x \in Ids : fate'[x] = IF x = i THEN "shot" ELSE fate[x]
  BY <1>2, <1>3 DEF TypeOK
<1>6. IdsCounted'
  BY <1>2, <1>3, <1>5 DEF IdsCounted
<1>7. StopUnended'
  BY <1>1, <1>2, <1>3, <1>4, <1>5 DEF StopUnended
<1>8. ArmLive'
  BY <1>1, <1>2, <1>4 DEF ArmLive
<1>9. RowsUnended'
  <2> SUFFICES ASSUME NEW k \in Keys, db[k] # Null
               PROVE  /\ db[k].key = k
                      /\ \A j \in Keys : RowOf(db[j], db[k].id) => j = k
                      /\ \/ fate'[db[k].id] = "live"
                         \/ fate'[db[k].id] = "shot" /\ RowOf(stop[c], db[k].id)
    BY <1>2, <1>4 DEF RowsUnended
  <2>1. db[k].id \in Ids
    BY DEF TypeOK, Stops
  <2>2. fate[db[k].id] = "live"
    BY <1>1, <1>2 DEF RowsUnended, Acked
  <2>3. QED  BY <1>3, <1>5, <2>1, <2>2 DEF RowsUnended, RowOf
<1>10. RowsFound'
  BY <1>2 DEF RowsFound
<1>11. QED  BY <1>6, <1>7, <1>8, <1>9, <1>10


-----------------------------------------------------------------------------
(* All steps *)

LEMMA FinalInit == Init => FinalInv
  BY ConstantsAssumption
  DEF Init, FinalInv, IdsCounted, StopUnended, ArmLive, RowsUnended, RowsFound, RowOf, Ids

LEMMA FinalCommand ==
  ASSUME OneClient, IInv, FinalInv, NEW c \in Conns, Command(c)
  PROVE  FinalInv'
<1> USE DEF IInv
<1>1. CASE \E k \in Keys, t \in Timeouts, p \in Prices \cup {NoPrice} : ActivityStop(c, k, t, p)
  BY <1>1, FinalActivityStop
<1>2. CASE InstallStop(c)
  BY <1>2, FinalInstall
<1>3. CASE CancelActivityStop(c)
  <2>1. /\ stop[c] # Null /\ Resolve(c, "cancelled") /\ "cancelled" \in Resolved
        /\ arms' = arms /\ arm' = arm /\ main' = main /\ main[c] = "run"
    BY <1>3 DEF CancelActivityStop, Resolved
  <2>2. QED  BY <2>1, FinalResolve
<1>4. CASE (\E s \in Symbols : SubscribeChart(c, s)) \/ UnsubscribeChart(c)
  <2>1. UNCHANGED <<stop, arm, db, main, arms, fate>>
    BY <1>4 DEF SubscribeChart, UnsubscribeChart, historyVars
  <2>2. QED  BY <2>1, FinalKept DEF Same
<1>5. QED  BY <1>1, <1>2, <1>3, <1>4 DEF Command

\* A trade changes the flag and the clock of a stop only.
LEMMA TouchedSame ==
  ASSUME NEW s \in Stops \cup {Null}, NEW t
  PROVE  Same(s, Touched(s, t))
<1>1. CASE Touched(s, t) = s
  BY <1>1 DEF Same
<1>2. CASE Touched(s, t) # s
  <2>1. s # Null /\ s \in Stops
    BY <1>2 DEF Touched
  <2>2. Touched(s, t) = [s EXCEPT !.active = TRUE, !.idle = 0]
    BY <1>2 DEF Touched
  <2>3. /\ [s EXCEPT !.active = TRUE, !.idle = 0] \in Stops
        /\ [s EXCEPT !.active = TRUE, !.idle = 0].id = s.id
        /\ [s EXCEPT !.active = TRUE, !.idle = 0].key = s.key
    BY <2>1 DEF Stops
  <2>4. QED  BY <2>1, <2>2, <2>3, NullAssumption DEF Same
<1>3. QED  BY <1>1, <1>2

LEMMA FinalTask ==
  ASSUME OneClient, IInv, FinalInv, NEW c \in Conns,
         WsPositionUpdate(c) \/ ChartTake(c) \/ ChartApply(c)
  PROVE  FinalInv'
<1> USE DEF IInv
<1>1. CASE WsPositionUpdate(c)
  <2>1. arm' = arm /\ arms' = arms /\ main' = main
    BY <1>1 DEF WsPositionUpdate
  <2>2. CASE stop[c] # Null /\ Resolve(c, "gone")
    <3>1. main[c] # "down" /\ "gone" \in Resolved
      BY <2>2 DEF FinalInv, StopUnended, Resolved
    <3>2. QED  BY <2>1, <2>2, <3>1, FinalResolve
  <2>3. CASE UNCHANGED <<db, stop, fate>>
    BY <2>1, <2>3, FinalKept DEF Same
  <2>4. QED  BY <1>1, <2>2, <2>3 DEF WsPositionUpdate
<1>2. CASE ChartTake(c)
  <2>1. UNCHANGED <<stop, arm, db, main, arms, fate>>
    BY <1>2 DEF ChartTake, historyVars
  <2>2. QED  BY <2>1, FinalKept DEF Same
<1>3. CASE ChartApply(c)
  <2>1. UNCHANGED <<arm, db, main, arms, fate>>
    BY <1>3 DEF ChartApply, historyVars
  <2>2. ASSUME NEW d \in Conns PROVE Same(stop[d], stop'[d])
    <3>1. d # c => stop'[d] = stop[d]
      BY <1>3 DEF ChartApply, TypeOK
    <3>2. stop'[c] = Touched(stop[c], seen[c]) /\ stop[c] \in Stops \cup {Null}
      BY <1>3 DEF ChartApply, TypeOK
    <3>3. Same(stop[c], Touched(stop[c], seen[c]))
      BY <3>2, TouchedSame
    <3>4. QED  BY <3>1, <3>2, <3>3 DEF Same
  <2>3. QED  BY <2>1, <2>2, FinalKept DEF Same
<1>4. QED  BY <1>1, <1>2, <1>3

LEMMA FinalTimer ==
  ASSUME OneClient, IInv, FinalInv, NEW c \in Conns, Timer(c)
  PROVE  FinalInv'
<1> USE DEF IInv
<1>1. CASE TimerExpire(c) \/ GetPositionsOk(c) \/ PlaceOrderRefused(c)
  <2>1. UNCHANGED <<stop, arm, db, arms, fate>>
    BY <1>1 DEF TimerExpire, GetPositionsOk, PlaceOrderRefused, historyVars
  <2>2. \A d \in Conns : main'[d] # main[d] =>
          main[d] \in {"run", "fetch", "close"} /\ main'[d] \in {"fetch", "close", "ackErr"}
    BY <1>1 DEF TimerExpire, GetPositionsOk, PlaceOrderRefused, TypeOK
  <2>3. QED  BY <2>1, <2>2, FinalKept DEF Same, Acked
<1>2. CASE GetPositionsNone(c)
  <2>1. /\ main[c] = "fetch" /\ main'[c] = "run" /\ arm' = arm /\ arms' = arms
        /\ Resolve(c, "gone") \/ Resolve(c, "failed")
    BY <1>2 DEF GetPositionsNone, TypeOK
  <2>2. stop[c] # Null
    BY <2>1 DEF FiringIsHeld, Locked, Expired
  <2>3. "gone" \in Resolved /\ "failed" \in Resolved
    BY DEF Resolved
  <2>4. QED  BY <2>1, <2>2, <2>3, FinalResolve
<1>3. CASE PlaceOrderOk(c) \/ PlaceOrderLost(c)
  BY <1>3, FinalExecute DEF PlaceOrderOk, PlaceOrderLost
<1>4. CASE CloseAnswered(c)
  <2>1. /\ main[c] \in {"ackOk", "ackErr"} /\ main'[c] = "run" /\ arm' = arm /\ arms' = arms
        /\ Resolve(c, "closed") \/ Resolve(c, "failed")
    BY <1>4 DEF CloseAnswered, TypeOK
  <2>2. stop[c] # Null
    BY <2>1 DEF FiringIsHeld, Locked, Expired
  <2>3. "closed" \in Resolved /\ "failed" \in Resolved
    BY DEF Resolved
  <2>4. QED  BY <2>1, <2>2, <2>3, FinalResolve
<1>5. QED  BY <1>1, <1>2, <1>3, <1>4 DEF Timer

\* Age changes the clock of a stop only.
LEMMA AgedSame ==
  ASSUME NEW s \in Stops \cup {Null}
  PROVE  Same(s, Aged(s))
  BY NullAssumption DEF Same, Aged, Stops

LEMMA FinalWorld ==
  ASSUME IInv, FinalInv, Market \/ Tick
  PROVE  FinalInv'
<1> USE DEF IInv
<1>1. CASE Market
  <2>1. UNCHANGED <<stop, arm, db, main, arms, fate>>
    BY <1>1 DEF Market, MovePosition, MarketTrade, historyVars
  <2>2. QED  BY <2>1, FinalKept DEF Same
<1>2. CASE Tick
  <2>1. UNCHANGED <<main, arms, fate>>
    BY <1>2 DEF Tick, historyVars
  <2>2. \A d \in Conns : Same(stop[d], stop'[d]) /\ Same(arm[d], arm'[d])
    BY <1>2, AgedSame DEF Tick, TypeOK
  <2>3. \A k \in Keys : Same(db[k], db'[k])
    BY <1>2, AgedSame DEF Tick, TypeOK
  <2>4. QED  BY <2>1, <2>2, <2>3, FinalKept
<1>3. QED  BY <1>1, <1>2

LEMMA FinalNext ==
  ASSUME OneClient, IInv, FinalInv, [Next]_vars
  PROVE  FinalInv'
<1>1. ASSUME NEW c \in Conns, Session(c)
      PROVE  FinalInv'
  BY <1>1, FinalConnect, FinalDisconnect, FinalCommand, FinalTask, FinalTimer DEF Session, IInv
<1>2. CASE Market \/ Tick
  BY <1>2, FinalWorld
<1>3. CASE Crash
  BY <1>3 DEF Crash, OneClient
<1>4. CASE UNCHANGED vars
  <2>1. UNCHANGED <<stop, arm, db, main, arms, fate>>
    BY <1>4 DEF vars
  <2>2. QED  BY <2>1, FinalKept DEF Same, IInv
<1>5. QED  BY <1>1, <1>2, <1>3, <1>4 DEF Next

LEMMA FinalImplies ==
  ASSUME IInv, FinalInv
  PROVE  FiresAtMostOnce
<1> SUFFICES ASSUME NEW c \in Conns, main[c] \in {"fetch", "close"}
             PROVE  fate[stop[c].id] = "live"
  BY DEF FiresAtMostOnce
<1>1. stop[c] # Null
  BY DEF IInv, FiringIsHeld, Locked, Expired
<1>2. QED  BY <1>1 DEF FinalInv, StopUnended, Acked

LEMMA FinalInductive ==
  ASSUME OneClient
  PROVE  Spec => [](IInv /\ FinalInv)
<1>1. Init => FinalInv  BY FinalInit
<1>2. IInv /\ FinalInv /\ [Next]_vars => FinalInv'
  BY FinalNext
<1>3. QED  BY <1>1, <1>2, InductiveInvariant, PTL DEF Spec

\* In the sessions of one client no request has its close order executed twice, for any number
\* of reconnects, as long as the process lives: after a crash a restored stop may fire again.
THEOREM ClosesOnce ==
  ASSUME OneClient
  PROVE  Spec => []FiresAtMostOnce
<1>1. IInv /\ FinalInv => FiresAtMostOnce  BY FinalImplies
<1>2. QED  BY <1>1, FinalInductive, PTL

-----------------------------------------------------------------------------
(* THIRD PART: one client's sessions implement StopLifecycle, crashes included *)

\* One session at a time and no failing transaction; the process may crash.
OneSession == ~DbFails /\ \A c, d \in Conns : c = d

\* Requests that have neither ended nor been replaced.
Going == {"live", "shot"}

\* A stop waits for the Mutex just while its handler does; a closed session has none.
SessionLoaded ==
  \A c \in Conns :
    /\ arm[c] # Null <=> main[c] = "arm"
    /\ main[c] = "down" => stop[c] = Null

\* A stop in memory has not ended; its row was replaced only by the request on its way.
MemoryGoing ==
  \A c \in Conns :
    /\ stop[c] # Null => \/ fate[stop[c].id] \in Going
                         \/ fate[stop[c].id] = "overwritten" /\ main[c] = "arm"
    /\ arm[c] # Null => /\ fate[arm[c].id] = "live"
                        /\ stop[c] # Null => stop[c].id # arm[c].id

\* A row lies under its key, is the only one of its request, and its request goes on.
RowsGoing ==
  \A k \in Keys : db[k] # Null =>
    /\ db[k].key = k
    /\ \A j \in Keys : RowOf(db[j], db[k].id) => j = k
    /\ fate[db[k].id] \in Going

\* Where a stop in memory would be deleted lies its own row, that of the request on its way,
\* or none.
OwnRow ==
  \A c \in Conns :
    /\ stop[c] # Null => \/ db[stop[c].key] = Null
                         \/ db[stop[c].key].id = stop[c].id
                         \/ arm[c] # Null /\ db[stop[c].key].id = arm[c].id
    /\ arm[c] # Null => db[arm[c].key] = Null \/ db[arm[c].key].id = arm[c].id

RecInv == IdsCounted /\ SessionLoaded /\ MemoryGoing /\ RowsGoing /\ RowsFound /\ OwnRow

-----------------------------------------------------------------------------
(* The invariant is kept *)

LEMMA RecInit == Init => RecInv
  BY ConstantsAssumption
  DEF Init, RecInv, IdsCounted, SessionLoaded, MemoryGoing, RowsGoing, RowsFound, OwnRow, RowOf, Ids

LEMMA RecKept ==
  ASSUME TypeOK, RecInv, arms' = arms, fate' = fate,
         \A c \in Conns : Same(stop[c], stop'[c]) /\ Same(arm[c], arm'[c]),
         \A k \in Keys : Same(db[k], db'[k]),
         \A c \in Conns : (main'[c] = "arm" <=> main[c] = "arm")
                          /\ (main'[c] = "down" => main[c] = "down")
  PROVE  RecInv'
<1> USE DEF RecInv, Same
<1>1. IdsCounted'
  BY DEF IdsCounted
<1>2. SessionLoaded' /\ MemoryGoing'
  BY DEF SessionLoaded, MemoryGoing
<1>3. RowsGoing'
  BY DEF RowsGoing, RowOf
<1>4. RowsFound'
  BY DEF RowsFound, RowOf
<1>5. OwnRow'
  <2>1. \A c \in Conns : /\ stop[c] # Null => stop[c].key \in Keys
                         /\ arm[c] # Null => arm[c].key \in Keys
    BY DEF TypeOK, Stops
  <2>2. QED  BY <2>1 DEF OwnRow
<1>6. QED  BY <1>1, <1>2, <1>3, <1>4, <1>5

\* The end of a stop takes its own row, or that of the request which replaces it.
LEMMA RecResolve ==
  ASSUME OneSession, TypeOK, RecInv, NEW c \in Conns, stop[c] # Null,
         NEW f \in Resolved, Resolve(c, f), arms' = arms, arm' = arm,
         main'[c] # "down", main'[c] = "arm" <=> main[c] = "arm"
  PROVE  RecInv'
<1> DEFINE i == stop[c].id
<1> USE DEF RecInv
<1>1. \A d \in Conns : d = c
  BY DEF OneSession
<1>2. /\ stop' = [stop EXCEPT ![c] = Null]
      /\ db'   = [db EXCEPT ![stop[c].key] = Null]
      /\ fate' = [fate EXCEPT ![i] = f]
  BY DEF Resolve, DeleteActivityStop, DbOutcomes, OneSession
<1>3. stop[c] \in Stops /\ i \in Ids /\ stop[c].key \in Keys
  BY DEF TypeOK, Stops
<1>4. \A k \in Keys : db'[k] # Null => /\ db'[k] = db[k] /\ db[k] \in Stops
                                       /\ db[k].id # i /\ db[k].id \in Ids
  <2> SUFFICES ASSUME NEW k \in Keys, db'[k] # Null
               PROVE  db'[k] = db[k] /\ db[k] \in Stops /\ db[k].id # i /\ db[k].id \in Ids
    OBVIOUS
  <2>1. k # stop[c].key /\ db'[k] = db[k]
    BY <1>2 DEF TypeOK
  <2>2. db[k] \in Stops /\ db[k].id \in Ids
    BY <2>1 DEF TypeOK, Stops
  <2>3. db[k].id # i
    BY <2>1 DEF RowsFound, RowOf
  <2>4. QED  BY <2>1, <2>2, <2>3
<1>5. \A x \in Ids : fate'[x] = IF x = i THEN f ELSE fate[x]
  BY <1>2, <1>3 DEF TypeOK
<1>6. stop'[c] = Null
  BY <1>2 DEF TypeOK
<1>7. IdsCounted'
  <2>1. fate[i] # "unused" /\ f # "unused"
    BY DEF MemoryGoing, Going, Resolved
  <2>2. QED  BY <1>5, <2>1 DEF IdsCounted
<1>8. SessionLoaded'
  BY <1>1, <1>6 DEF SessionLoaded
<1>9. MemoryGoing'
  <2>1. arm[c] # Null => arm[c].id \in Ids /\ arm[c].id # i
    BY DEF MemoryGoing, TypeOK, Stops
  <2>2. QED  BY <1>1, <1>5, <1>6, <2>1 DEF MemoryGoing
<1>10. RowsGoing'
  <2> SUFFICES ASSUME NEW k \in Keys, db'[k] # Null
               PROVE  /\ db'[k].key = k
                      /\ \A j \in Keys : RowOf(db'[j], db'[k].id) => j = k
                      /\ fate'[db'[k].id] \in Going
    BY DEF RowsGoing
  <2>1. db'[k] = db[k] /\ db[k] # Null /\ db[k].id # i /\ db[k].id \in Ids
    BY <1>4
  <2>2. \A j \in Keys : RowOf(db'[j], db[k].id) => j = k
    BY <1>4, <2>1 DEF RowsGoing, RowOf
  <2>3. QED  BY <1>5, <2>1, <2>2 DEF RowsGoing
<1>11. RowsFound'
  BY <1>1, <1>4, <1>6 DEF RowsFound, RowOf
<1>12. OwnRow'
  <2>1. arm[c] # Null => arm[c].key \in Keys
    BY DEF TypeOK, Stops
  <2>2. QED  BY <1>1, <1>4, <1>6, <2>1 DEF OwnRow
<1>13. QED  BY <1>7, <1>8, <1>9, <1>10, <1>11, <1>12

LEMMA RecConnect ==
  ASSUME OneSession, TypeOK, RecInv, NEW c \in Conns, Connect(c)
  PROVE  RecInv'
<1> USE DEF RecInv
<1>1. \A d \in Conns : d = c
  BY DEF OneSession
<1>2. stop[c] = Null /\ arm[c] = Null
  BY DEF Connect, Up, SessionLoaded
<1>3. main'[c] = "run" /\ arm' = arm /\ db' = db /\ arms' = arms /\ fate' = fate
  BY DEF Connect, TypeOK
<1>4. PICK s \in Restored : stop' = [stop EXCEPT ![c] = s]
  BY DEF Connect
<1>5. stop'[c] = s
  BY <1>4 DEF TypeOK
<1>6. s # Null => \E k \in Keys : db[k] = s
  BY DEF Restored, FirstKeys, Stored, OneSession
<1>7. IdsCounted'
  BY <1>3 DEF IdsCounted
<1>8. SessionLoaded'
  BY <1>1, <1>2, <1>3 DEF SessionLoaded
<1>9. MemoryGoing'
  BY <1>1, <1>2, <1>3, <1>5, <1>6 DEF MemoryGoing, RowsGoing
<1>10. RowsGoing'
  BY <1>3 DEF RowsGoing
<1>11. RowsFound'
  <2> SUFFICES ASSUME NEW k \in Keys, db[k] # Null, s # Null, s.id = db[k].id
               PROVE  s.key = k
    BY <1>1, <1>2, <1>3, <1>5 DEF RowsFound, RowOf
  <2>1. PICK j \in Keys : db[j] = s
    BY <1>6
  <2>2. j = k
    BY <2>1 DEF RowsGoing, RowOf
  <2>3. QED  BY <2>1, <2>2 DEF RowsGoing
<1>12. OwnRow'
  <2>1. s # Null => db[s.key] = s
    BY <1>6 DEF RowsGoing
  <2>2. QED  BY <1>1, <1>2, <1>3, <1>5, <2>1 DEF OwnRow
<1>13. QED  BY <1>7, <1>8, <1>9, <1>10, <1>11, <1>12

\* The end of a session, by a close or a crash, loses memory and no row.
LEMMA RecDrop ==
  ASSUME OneSession, TypeOK, RecInv, NEW C, Drop(C), NEW c \in Conns, c \in C
  PROVE  RecInv'
<1> USE DEF RecInv
<1>1. \A d \in Conns : d = c
  BY DEF OneSession
<1>2. /\ main'[c] = "down" /\ stop'[c] = Null /\ arm'[c] = Null
      /\ db' = db /\ arms' = arms /\ fate' = fate
  BY DEF Drop, historyVars
<1>3. IdsCounted' /\ SessionLoaded' /\ MemoryGoing'
  BY <1>1, <1>2 DEF IdsCounted, SessionLoaded, MemoryGoing
<1>4. RowsGoing' /\ RowsFound' /\ OwnRow'
  BY <1>1, <1>2 DEF RowsGoing, RowsFound, OwnRow, RowOf
<1>5. QED  BY <1>3, <1>4

\* What a request does, in the terms of the proofs: its row takes the place of another.
RequestTaken(c, k, s) ==
  /\ s \in Stops /\ s # Null /\ s.id = arms + 1 /\ s.key = k
  /\ main[c] = "run" /\ main' = [main EXCEPT ![c] = "arm"]
  /\ arm' = [arm EXCEPT ![c] = s] /\ stop' = stop
  /\ arms' = arms + 1
  /\ db' = [db EXCEPT ![k] = s]
  /\ \A i \in Ids : fate'[i] = IF i = s.id THEN "live"
                               ELSE IF RowOf(db[k], i) /\ fate[i] \in Going THEN "overwritten"
                               ELSE fate[i]

LEMMA RequestDoes ==
  ASSUME OneSession, TypeOK, NEW c \in Conns,
         NEW k \in Keys, NEW t \in Timeouts, NEW p \in Prices \cup {NoPrice},
         ActivityStop(c, k, t, p)
  PROVE  RequestTaken(c, k, NewStop(arms + 1, k, t, p))
<1> DEFINE s == NewStop(arms + 1, k, t, p)
<1>1. s \in Stops /\ s.id = arms + 1 /\ s.key = k
  <2>1. arms + 1 \in Ids
    BY ConstantsAssumption DEF ActivityStop, TypeOK, Ids
  <2>2. QED  BY <2>1, ConstantsAssumption DEF NewStop, Stops
<1>2. s # Null
  BY <1>1, NullAssumption
<1>3. Register(s) /\ main[c] = "run" /\ main' = [main EXCEPT ![c] = "arm"]
      /\ arm' = [arm EXCEPT ![c] = s] /\ stop' = stop
  BY DEF ActivityStop
<1> HIDE DEF s
<1>4. arms' = arms + 1 /\ db' = [db EXCEPT ![k] = s]
  BY <1>1, <1>3 DEF Register, SaveActivityStop, DbOutcomes, OneSession
<1>5. \A i \in Ids : RowOf(db'[k], i) <=> i = s.id
  BY <1>1, <1>2, <1>4 DEF RowOf, TypeOK
<1>6. fate' = [i \in Ids |->
                CASE i = s.id -> "live"
                  [] i # s.id /\ RowOf(db[k], i) /\ ~RowOf(db'[k], i) /\ fate[i] \in Going
                       -> "overwritten"
                  [] OTHER -> fate[i]]
  BY <1>1, <1>3 DEF Register, Going
<1>7. ASSUME NEW i \in Ids
      PROVE  fate'[i] = IF i = s.id THEN "live"
                        ELSE IF RowOf(db[k], i) /\ fate[i] \in Going THEN "overwritten"
                        ELSE fate[i]
  BY <1>5, <1>6
<1>8. QED  BY <1>1, <1>2, <1>3, <1>4, <1>7 DEF RequestTaken, s

LEMMA RecRequest ==
  ASSUME OneSession, TypeOK, RecInv, NEW c \in Conns, NEW k \in Keys, NEW s,
         RequestTaken(c, k, s)
  PROVE  RecInv'
<1> USE DEF RecInv, RequestTaken
<1>1. \A d \in Conns : d = c
  BY DEF OneSession
<1>2. main'[c] = "arm" /\ arm'[c] = s /\ s.id \in Ids /\ db'[k] = s
  BY DEF TypeOK, Stops
<1>3. fate[s.id] = "unused"
  BY <1>2 DEF IdsCounted, TypeOK, Ids
<1>4. stop[c] # Null => /\ stop[c].id \in Ids /\ stop[c].id # s.id /\ stop[c].key \in Keys
                        /\ fate[stop[c].id] \in Going
  BY <1>3 DEF MemoryGoing, Going, TypeOK, Stops
<1>5. \A j \in Keys : db[j] # Null => /\ db[j].id \in Ids /\ db[j].id # s.id
                                      /\ fate[db[j].id] \in Going
  BY <1>3 DEF RowsGoing, Going, TypeOK, Stops
<1>6. \A j \in Keys : j # k => db'[j] = db[j]
  BY DEF TypeOK
<1>7. IdsCounted'
  <2> SUFFICES ASSUME NEW i \in Ids PROVE fate'[i] = "unused" <=> i > arms + 1
    BY DEF IdsCounted
  <2>1. i \in Nat /\ arms \in Nat
    BY ConstantsAssumption DEF Ids, TypeOK
  <2>2. QED  BY <2>1 DEF IdsCounted, Going
<1>8. SessionLoaded'
  BY <1>1, <1>2 DEF SessionLoaded
<1>9. MemoryGoing'
  <2>1. stop[c] # Null => fate'[stop[c].id] \in {"live", "shot", "overwritten"}
    BY <1>4 DEF Going
  <2>2. fate'[s.id] = "live"
    BY <1>2
  <2>3. QED  BY <1>1, <1>2, <1>4, <2>1, <2>2 DEF MemoryGoing, Going
<1>10. RowsGoing'
  <2> SUFFICES ASSUME NEW j \in Keys, db'[j] # Null
               PROVE  /\ db'[j].key = j
                      /\ \A m \in Keys : RowOf(db'[m], db'[j].id) => m = j
                      /\ fate'[db'[j].id] \in Going
    BY DEF RowsGoing
  <2>1. CASE j = k
    BY <1>2, <1>5, <1>6, <2>1 DEF RowOf, Going
  <2>2. CASE j # k
    <3>1. db'[j] = db[j] /\ db[j] # Null /\ ~RowOf(db[k], db[j].id)
      BY <1>6, <2>2 DEF RowsGoing
    <3>2. fate'[db[j].id] \in Going
      BY <1>5, <3>1
    <3>3. \A m \in Keys : RowOf(db'[m], db[j].id) => m = j
      BY <1>2, <1>5, <1>6, <3>1 DEF RowOf, RowsGoing
    <3>4. QED  BY <3>1, <3>2, <3>3 DEF RowsGoing
  <2>3. QED  BY <2>1, <2>2
<1>11. RowsFound'
  BY <1>1, <1>2, <1>4, <1>5, <1>6 DEF RowsFound, RowOf
<1>12. OwnRow'
  <2>1. arm[c] = Null
    BY DEF SessionLoaded
  <2>2. QED  BY <1>1, <1>2, <1>4, <1>6, <2>1 DEF OwnRow
<1>13. QED  BY <1>7, <1>8, <1>9, <1>10, <1>11, <1>12

LEMMA RecInstall ==
  ASSUME OneSession, TypeOK, RecInv, NEW c \in Conns, InstallStop(c)
  PROVE  RecInv'
<1> USE DEF RecInv
<1>1. \A d \in Conns : d = c
  BY DEF OneSession
<1>2. /\ main[c] = "arm" /\ main'[c] = "run" /\ stop'[c] = arm[c] /\ arm'[c] = Null
      /\ db' = db /\ arms' = arms /\ fate' = fate
  BY DEF InstallStop, TypeOK, historyVars
<1>3. IdsCounted' /\ SessionLoaded' /\ MemoryGoing'
  BY <1>1, <1>2 DEF IdsCounted, SessionLoaded, MemoryGoing, Going
<1>4. RowsGoing' /\ RowsFound' /\ OwnRow'
  BY <1>1, <1>2 DEF RowsGoing, RowsFound, OwnRow, RowOf
<1>5. QED  BY <1>3, <1>4

LEMMA RecExecute ==
  ASSUME OneSession, IInv, RecInv, NEW c \in Conns,
         NEW a \in {"ackOk", "ackErr"}, Execute(c, a)
  PROVE  RecInv'
<1> DEFINE i == stop[c].id
<1> USE DEF RecInv, IInv
<1>1. \A d \in Conns : d = c
  BY DEF OneSession
<1>2. /\ main[c] = "close" /\ main'[c] = a /\ stop' = stop /\ arm' = arm
      /\ db' = db /\ arms' = arms /\ fate' = [fate EXCEPT ![i] = "shot"]
  BY DEF Execute, TypeOK
<1>3. stop[c] # Null /\ i \in Ids /\ fate[i] \in Going /\ arm[c] = Null
  <2>1. stop[c] # Null /\ arm[c] = Null
    BY <1>2 DEF FiringIsHeld, Locked, Expired, SessionLoaded
  <2>2. i \in Ids
    BY <2>1 DEF TypeOK, Stops
  <2>3. QED  BY <1>2, <2>1, <2>2 DEF MemoryGoing
<1>4. \A x \in Ids : fate'[x] = IF x = i THEN "shot" ELSE fate[x]
  BY <1>2, <1>3 DEF TypeOK
<1>5. IdsCounted'
  BY <1>2, <1>3, <1>4 DEF IdsCounted, Going
<1>6. SessionLoaded' /\ MemoryGoing'
  BY <1>1, <1>2, <1>3, <1>4 DEF SessionLoaded, MemoryGoing, Going
<1>7. RowsGoing'
  <2>1. \A k \in Keys : db[k] # Null => db[k].id \in Ids
    BY DEF TypeOK, Stops
  <2>2. QED  BY <1>2, <1>4, <2>1 DEF RowsGoing, Going
<1>8. RowsFound' /\ OwnRow'
  BY <1>2 DEF RowsFound, OwnRow
<1>9. QED  BY <1>5, <1>6, <1>7, <1>8

-----------------------------------------------------------------------------
(* The steps by what they do to the life of requests *)

\* A step that begins, ends and replaces nothing: trades, time, the exchange and most of the
\* select loop.
Idles ==
  /\ UNCHANGED <<arms, fate>>
  /\ \A c \in Conns : /\ Same(stop[c], stop'[c]) /\ Same(arm[c], arm'[c])
                      /\ main'[c] = "arm" <=> main[c] = "arm"
                      /\ main'[c] = "down" => main[c] = "down"
  /\ \A k \in Keys : Same(db[k], db'[k])

\* The stop of session c ends.
Ends(c) ==
  /\ stop[c] # Null
  /\ \E f \in Resolved : Resolve(c, f)
  /\ UNCHANGED <<arms, arm>>
  /\ main'[c] # "down"
  /\ main'[c] = "arm" <=> main[c] = "arm"

LEMMA RecIdle ==
  ASSUME TypeOK, RecInv, Idles
  PROVE  RecInv'
<1>1. /\ arms' = arms /\ fate' = fate
      /\ \A c \in Conns : Same(stop[c], stop'[c]) /\ Same(arm[c], arm'[c])
      /\ \A k \in Keys : Same(db[k], db'[k])
      /\ \A c \in Conns : (main'[c] = "arm" <=> main[c] = "arm")
                           /\ (main'[c] = "down" => main[c] = "down")
  BY DEF Idles
<1>2. QED  BY <1>1, RecKept

LEMMA RecEnd ==
  ASSUME OneSession, TypeOK, RecInv, NEW c \in Conns, Ends(c)
  PROVE  RecInv'
  BY RecResolve DEF Ends

\* Commands, updates and the timer end a stop in the same way.
LEMMA EndSteps ==
  ASSUME IInv, RecInv, NEW c \in Conns,
         \/ CancelActivityStop(c)
         \/ WsPositionUpdate(c) /\ ~UNCHANGED <<db, stop, fate>>
         \/ GetPositionsNone(c)
         \/ CloseAnswered(c)
  PROVE  Ends(c)
<1> USE DEF IInv, RecInv
<1>1. Locked(c) => stop[c] # Null
  BY DEF FiringIsHeld, Expired
<1>2. stop[c] # Null => main[c] # "down"
  BY DEF SessionLoaded
<1>3. CASE CancelActivityStop(c)
  BY <1>3 DEF CancelActivityStop, Ends, Resolved
<1>4. CASE WsPositionUpdate(c) /\ ~UNCHANGED <<db, stop, fate>>
  BY <1>2, <1>4 DEF WsPositionUpdate, Ends, Resolved
<1>5. CASE GetPositionsNone(c)
  BY <1>1, <1>5 DEF GetPositionsNone, Ends, Resolved, Locked, TypeOK
<1>6. CASE CloseAnswered(c)
  BY <1>1, <1>6 DEF CloseAnswered, Ends, Resolved, Locked, TypeOK
<1>7. QED  BY <1>3, <1>4, <1>5, <1>6

-----------------------------------------------------------------------------
(* The life of a request in the sessions of one client *)

Life(c, i) ==
  IF fate[i] \in Resolved \cup {"unused"}
  THEN IF fate[i] = "unused" THEN "unused" ELSE "resolved"
  ELSE IF RowOf(arm[c], i) THEN "arming"
  ELSE IF RowOf(stop[c], i)
       THEN IF Locked(c) THEN "firing" ELSE IF stop[c].active THEN "counting" ELSE "waiting"
  ELSE IF OnDisk(i) THEN "stored" ELSE "lost"

LEMMA LifeIsPhase ==
  ASSUME OneSession, RecInv, NEW c \in Conns, NEW i \in Ids
  PROVE  PhaseOf(i) = Life(c, i)
<1>1. \A d \in Conns : d = c
  BY DEF OneSession
<1>2. InMemory(i) <=> RowOf(stop[c], i) \/ RowOf(arm[c], i)
  BY <1>1 DEF InMemory
<1>3. ~(RowOf(stop[c], i) /\ RowOf(arm[c], i))
  BY DEF RecInv, MemoryGoing, RowOf
<1>4. fate[i] \in Resolved \cup {"unused"} => ~InMemory(i)
  BY <1>2 DEF RecInv, MemoryGoing, Going, Resolved, RowOf
<1>5. "unused" \notin Resolved
  BY DEF Resolved
<1>6. CASE fate[i] \in Resolved \cup {"unused"}
  BY <1>2, <1>1, <1>4, <1>5, <1>6 DEF PhaseOf, Life
<1>7. CASE fate[i] \notin Resolved \cup {"unused"}
  BY <1>2, <1>1, <1>3, <1>7 DEF PhaseOf, Life
<1>8. QED  BY <1>6, <1>7

LEMMA LifeIsPhasePrime ==
  ASSUME OneSession, RecInv', NEW c \in Conns, NEW i \in Ids
  PROVE  PhaseOf(i)' = Life(c, i)'
<1>1. \A d \in Conns : d = c
  BY DEF OneSession
<1>2. InMemory(i)' <=> RowOf(stop[c], i)' \/ RowOf(arm[c], i)'
  BY <1>1 DEF InMemory
<1>3. ~(RowOf(stop[c], i)' /\ RowOf(arm[c], i)')
  BY DEF RecInv, MemoryGoing, RowOf
<1>4. fate'[i] \in Resolved \cup {"unused"} => ~InMemory(i)'
  BY <1>2 DEF RecInv, MemoryGoing, Going, Resolved, RowOf
<1>5. "unused" \notin Resolved
  BY DEF Resolved
<1>6. CASE fate'[i] \in Resolved \cup {"unused"}
  BY <1>2, <1>1, <1>4, <1>5, <1>6 DEF PhaseOf, Life
<1>7. CASE fate'[i] \notin Resolved \cup {"unused"}
  BY <1>2, <1>1, <1>3, <1>7 DEF PhaseOf, Life
<1>8. QED  BY <1>6, <1>7

LEMMA LifeType ==
  ASSUME NEW c \in Conns, NEW i \in Ids
  PROVE  Life(c, i) \in Lifecycle!Phases
  BY DEF Life, Lifecycle!Phases

\* The expiry of a stop.
LEMMA ExpireImplements ==
  ASSUME OneSession, IInv, RecInv, RecInv', NEW c \in Conns, TimerExpire(c)
  PROVE  Lifecycle!Next
<1> DEFINE i == stop[c].id
<1> USE DEF IInv, RecInv
<1>1. \A j \in Ids : PhaseOf(j) = Life(c, j) /\ PhaseOf(j)' = Life(c, j)'
  BY LifeIsPhase, LifeIsPhasePrime
<1>2. /\ main[c] = "run" /\ main'[c] = "fetch" /\ UNCHANGED <<stop, arm, db, fate>>
      /\ stop[c] # Null /\ stop[c].active /\ arm[c] = Null /\ i \in Ids
  BY DEF TimerExpire, historyVars, Expired, TypeOK, SessionLoaded, Stops
<1>3. Life(c, i) = "counting" /\ Life(c, i)' = "firing"
  BY <1>2 DEF Life, RowOf, Locked, MemoryGoing, Going, Resolved
<1>4. \A j \in Ids : /\ j # i => Life(c, j)' = Life(c, j)
                     /\ Life(c, j) # "arming"
  BY <1>2 DEF Life, RowOf, Locked, OnDisk
<1>5. Lifecycle!Expire(i)
  BY <1>1, <1>2, <1>3, <1>4 DEF Lifecycle!Expire, Lifecycle!Arming
<1>6. QED  BY <1>2, <1>5 DEF Lifecycle!Next

\* A step that leaves every request in its phase.
Quiet ==
  /\ \A i \in Ids : /\ fate'[i] = "unused" <=> fate[i] = "unused"
                    /\ fate'[i] \in Resolved <=> fate[i] \in Resolved
  /\ \A c \in Conns : /\ Same(stop[c], stop'[c])
                      /\ Same(arm[c], arm'[c])
                      /\ Locked(c)' <=> Locked(c)
                      /\ stop[c] # Null => stop'[c].active = stop[c].active
  /\ \A k \in Keys : Same(db[k], db'[k])

LEMMA QuietImplements ==
  ASSUME Quiet
  PROVE  UNCHANGED [i \in Ids |-> PhaseOf(i)]
<1> SUFFICES ASSUME NEW i \in Ids PROVE PhaseOf(i)' = PhaseOf(i)
  OBVIOUS
<1>1. \A c \in Conns : /\ RowOf(stop[c], i)' <=> RowOf(stop[c], i)
                       /\ RowOf(arm[c], i)' <=> RowOf(arm[c], i)
  BY DEF Quiet, Same, RowOf
<1>2. OnDisk(i)' <=> OnDisk(i)
  BY DEF Quiet, Same, RowOf, OnDisk
<1>3. InMemory(i)' <=> InMemory(i)
  BY <1>1 DEF InMemory
<1>4. \A c \in Conns : RowOf(stop[c], i) => stop'[c].active = stop[c].active
  BY DEF Quiet, RowOf
<1> DEFINE Arms   == \E c \in Conns : RowOf(arm[c], i)
           Fires  == \E c \in Conns : RowOf(stop[c], i) /\ Locked(c)
           Counts == \E c \in Conns : RowOf(stop[c], i) /\ ~Locked(c) /\ stop[c].active
           Waits  == \E c \in Conns : RowOf(stop[c], i) /\ ~Locked(c) /\ ~stop[c].active
           Unused == fate[i] = "unused"
           Ended  == fate[i] \in Resolved
<1>5. PhaseOf(i) = CASE Unused -> "unused"
                     [] Ended  -> "resolved"
                     [] Arms   -> "arming"
                     [] Fires  -> "firing"
                     [] Counts -> "counting"
                     [] Waits  -> "waiting"
                     [] ~InMemory(i) /\ fate[i] \notin Resolved \cup {"unused"} ->
                          IF OnDisk(i) THEN "stored" ELSE "lost"
  BY DEF PhaseOf
<1>6. /\ Arms' <=> Arms
      /\ Fires' <=> Fires
      /\ Counts' <=> Counts
      /\ Waits' <=> Waits
      /\ Unused' <=> Unused
      /\ Ended' <=> Ended
  BY <1>1, <1>4 DEF Quiet
<1>7. Arms \/ Fires \/ Counts \/ Waits \/ ~InMemory(i)
  BY DEF InMemory
<1>8. /\ Arms' \/ Fires' \/ Counts' \/ Waits' \/ ~InMemory(i)'
      /\ PhaseOf(i)' = CASE Unused' -> "unused"
                         [] Ended'  -> "resolved"
                         [] Arms'   -> "arming"
                         [] Fires'  -> "firing"
                         [] Counts' -> "counting"
                         [] Waits'  -> "waiting"
                         [] ~InMemory(i)' /\ ~(Ended' \/ Unused') ->
                              IF OnDisk(i)' THEN "stored" ELSE "lost"
  BY DEF InMemory, PhaseOf
<1> HIDE DEF Arms, Fires, Counts, Waits, Unused, Ended
<1>9. PhaseOf(i) = CASE Unused -> "unused"
                     [] Ended  -> "resolved"
                     [] Arms   -> "arming"
                     [] Fires  -> "firing"
                     [] Counts -> "counting"
                     [] Waits  -> "waiting"
                     [] ~InMemory(i) /\ ~(Ended \/ Unused) ->
                          IF OnDisk(i) THEN "stored" ELSE "lost"
  BY <1>5 DEF Ended, Unused
<1>10. QED  BY <1>2, <1>3, <1>6, <1>7, <1>8, <1>9

\* A new session takes up a stored request, or none.
LEMMA ConnectImplements ==
  ASSUME OneSession, IInv, RecInv, RecInv', NEW c \in Conns, Connect(c)
  PROVE  Lifecycle!Next \/ UNCHANGED [i \in Ids |-> PhaseOf(i)]
<1> USE DEF IInv, RecInv
<1>1. \A j \in Ids : PhaseOf(j) = Life(c, j) /\ PhaseOf(j)' = Life(c, j)'
  BY LifeIsPhase, LifeIsPhasePrime
<1>2. /\ main[c] = "down" /\ main'[c] = "run" /\ UNCHANGED <<arm, db, fate>>
      /\ stop[c] = Null /\ arm[c] = Null
  BY DEF Connect, Up, TypeOK, SessionLoaded
<1>3. PICK s \in Restored : stop'[c] = s
  BY DEF Connect, TypeOK
<1>4. CASE s = Null
  <2>1. \A j \in Ids : Life(c, j)' = Life(c, j)
    BY <1>2, <1>3, <1>4 DEF Life, RowOf, Locked, OnDisk
  <2>2. QED  BY <1>1, <2>1
<1>5. CASE s # Null
  <2> DEFINE i == s.id
             w == IF s.active THEN "counting" ELSE "waiting"
  <2>1. PICK k \in Keys : db[k] = s
    BY <1>5 DEF Restored, FirstKeys, Stored, OneSession
  <2>2. i \in Ids /\ fate[i] \in Going /\ OnDisk(i)
    BY <1>5, <2>1 DEF TypeOK, Stops, RowsGoing, OnDisk, RowOf
  <2>3. Life(c, i) = "stored" /\ Life(c, i)' = w
    BY <1>2, <1>3, <1>5, <2>2 DEF Life, RowOf, Going, Resolved, Locked
  <2>4. \A j \in Ids : /\ j # i => Life(c, j)' = Life(c, j)
                       /\ Life(c, j) \notin {"arming", "waiting", "counting", "firing"}
    BY <1>2, <1>3 DEF Life, RowOf, OnDisk
  <2>5. w \in Lifecycle!Watching
    BY DEF Lifecycle!Watching
  <2> HIDE DEF w
  <2>6. Lifecycle!Restore(i)
    BY <1>1, <2>2, <2>3, <2>4, <2>5
    DEF Lifecycle!Restore, Lifecycle!Current, Lifecycle!Arming
  <2>7. QED  BY <2>2, <2>6 DEF Lifecycle!Next
<1>6. QED  BY <1>4, <1>5

\* A session that closes or is killed leaves its requests stored or lost.
LEMMA DropImplements ==
  ASSUME OneSession, IInv, RecInv, RecInv', NEW C, Drop(C), NEW c \in Conns, c \in C,
         Crashes \/ main[c] = "run"
  PROVE  Lifecycle!Next \/ UNCHANGED [i \in Ids |-> PhaseOf(i)]
<1> USE DEF IInv, RecInv
<1>1. \A j \in Ids : PhaseOf(j) = Life(c, j) /\ PhaseOf(j)' = Life(c, j)'
  BY LifeIsPhase, LifeIsPhasePrime
<1>2. main'[c] = "down" /\ stop'[c] = Null /\ arm'[c] = Null /\ UNCHANGED <<db, fate>>
  BY DEF Drop, historyVars
<1>3. \A j \in Ids : Life(c, j) \in {"arming", "waiting", "counting", "firing"}
                     <=> fate[j] \notin Resolved \cup {"unused"} /\ (RowOf(stop[c], j) \/ RowOf(arm[c], j))
  BY DEF Life
<1>4. \A j \in Ids : /\ Life(c, j)' \in Lifecycle!Phases
                     /\ IF Life(c, j) \in {"arming", "waiting", "counting", "firing"}
                        THEN Life(c, j)' \in {"stored", "lost"}
                        ELSE Life(c, j)' = Life(c, j)
  BY <1>2, <1>3 DEF Life, RowOf, OnDisk, Lifecycle!Phases
<1>5. CASE \E j \in Ids : Life(c, j) \in {"arming", "waiting", "counting", "firing"}
  <2>1. main[c] = "run" => \A j \in Ids : Life(c, j) \notin {"arming", "firing"}
    BY DEF Life, Locked, SessionLoaded, RowOf
  <2>2. Lifecycle!Drop
    BY <1>1, <1>4, <1>5, <2>1
    DEF Lifecycle!Drop, Lifecycle!Leave, Lifecycle!Current, Lifecycle!Arming
  <2>3. QED  BY <2>2 DEF Lifecycle!Next
<1>6. CASE ~\E j \in Ids : Life(c, j) \in {"arming", "waiting", "counting", "firing"}
  BY <1>1, <1>4, <1>6
<1>7. QED  BY <1>5, <1>6

\* A request is written down; the row it replaces was a stored request or the one in force.
LEMMA RequestImplements ==
  ASSUME OneSession, IInv, RecInv, RecInv', NEW c \in Conns, NEW k \in Keys, NEW s,
         RequestTaken(c, k, s)
  PROVE  Lifecycle!Next
<1> DEFINE i == s.id
           J == {j \in Ids : RowOf(db[k], j) /\ Life(c, j) = "stored"}
<1> USE DEF IInv, RecInv
<1>1. \A j \in Ids : PhaseOf(j) = Life(c, j) /\ PhaseOf(j)' = Life(c, j)'
  BY LifeIsPhase, LifeIsPhasePrime
<1>2. /\ main[c] = "run" /\ main'[c] = "arm" /\ arm[c] = Null /\ arm'[c] = s /\ stop' = stop
      /\ s # Null /\ i \in Ids /\ i = arms + 1
      /\ db'[k] = s /\ \A j \in Keys : j # k => db'[j] = db[j]
  BY DEF RequestTaken, TypeOK, Stops, SessionLoaded
<1>3. fate[i] = "unused" /\ fate'[i] = "live"
  BY <1>2 DEF RequestTaken, IdsCounted, TypeOK, Ids
<1>4. Life(c, i) = "unused" /\ Life(c, i)' = "arming"
  BY <1>2, <1>3 DEF Life, RowOf, Resolved
<1>5. \A j \in Ids : j # i =>
        /\ fate'[j] \in Resolved <=> fate[j] \in Resolved
        /\ fate'[j] = "unused" <=> fate[j] = "unused"
        /\ ~RowOf(arm[c], j) /\ ~RowOf(arm[c], j)'
        /\ RowOf(stop[c], j)' <=> RowOf(stop[c], j)
  BY <1>2 DEF RequestTaken, Going, Resolved, RowOf
<1>6. \A j \in Ids : j # i =>
        OnDisk(j)' <=> OnDisk(j) /\ ~RowOf(db[k], j)
  <2> SUFFICES ASSUME NEW j \in Ids, j # i
               PROVE  OnDisk(j)' <=> OnDisk(j) /\ ~RowOf(db[k], j)
    OBVIOUS
  <2>1. ~RowOf(db'[k], j)
    BY <1>2 DEF RowOf
  <2>2. RowOf(db[k], j) => \A m \in Keys : RowOf(db[m], j) => m = k
    BY DEF RowsGoing, RowOf
  <2>3. QED  BY <1>2, <2>1, <2>2 DEF OnDisk
<1>7. \A j \in Ids : /\ Life(c, j) \notin {"arming", "firing"}
                     /\ j # i => Life(c, j)' = IF j \in J THEN "lost" ELSE Life(c, j)
  <2> SUFFICES ASSUME NEW j \in Ids
               PROVE  /\ Life(c, j) \notin {"arming", "firing"}
                      /\ j # i => Life(c, j)' = IF j \in J THEN "lost" ELSE Life(c, j)
    OBVIOUS
  <2>1. ~Locked(c) /\ ~Locked(c)' /\ Life(c, j) \notin {"arming", "firing"}
    BY <1>2 DEF Locked, Life, RowOf
  <2>2. RowOf(db[k], j) => OnDisk(j)
    BY DEF OnDisk
  <2>3. CASE j # i /\ fate[j] \notin Resolved \cup {"unused"} /\ RowOf(stop[c], j)
    BY <1>2, <1>5, <2>1, <2>3 DEF Life
  <2>4. CASE j # i /\ fate[j] \notin Resolved \cup {"unused"} /\ ~RowOf(stop[c], j)
    BY <1>5, <1>6, <2>2, <2>4 DEF Life
  <2>5. CASE j # i /\ fate[j] \in Resolved \cup {"unused"}
    BY <1>5, <2>5 DEF Life
  <2>6. QED  BY <2>1, <2>3, <2>4, <2>5
<1>8. \E K \in {{}} \cup {{j} : j \in {x \in Ids : Life(c, x) = "stored"}} :
        \A j \in Ids : j \in K <=> j \in J
  <2>1. CASE J = {}
    BY <2>1
  <2>2. CASE J # {}
    <3>1. PICK j \in J : TRUE
      BY <2>2
    <3>2. J = {j}
      BY <3>1 DEF RowOf
    <3>3. {j} \in {{m} : m \in {x \in Ids : Life(c, x) = "stored"}}
      BY <3>1
    <3>4. QED  BY <3>2, <3>3
  <2>3. QED  BY <2>1, <2>2
<1>9. PICK K \in {{}} \cup {{j} : j \in {x \in Ids : Life(c, x) = "stored"}} :
        \A j \in Ids : j \in K <=> j \in J
  BY <1>8
<1>10. \A j \in Ids : PhaseOf(j)' = CASE j = i -> "arming"
                                      [] j \in K \ {i} -> "lost"
                                      [] OTHER -> PhaseOf(j)
  BY <1>1, <1>4, <1>7, <1>9
<1>11. K \in {{}} \cup {{j} : j \in {x \in Ids : [m \in Ids |-> PhaseOf(m)][x] = "stored"}}
  <2>1. {x \in Ids : [m \in Ids |-> PhaseOf(m)][x] = "stored"} = {x \in Ids : Life(c, x) = "stored"}
    BY <1>1
  <2>2. QED  BY <1>9, <2>1
<1>12. Lifecycle!Request(i)
  BY <1>1, <1>2, <1>4, <1>7, <1>10, <1>11
  DEF Lifecycle!Request, Lifecycle!Arming, Lifecycle!Current
<1>13. QED  BY <1>2, <1>12 DEF Lifecycle!Next

\* It comes into force; the request in force is stored or lost from then on.
LEMMA InstallImplements ==
  ASSUME OneSession, IInv, RecInv, RecInv', NEW c \in Conns, InstallStop(c)
  PROVE  Lifecycle!Next
<1> DEFINE w == IF arm[c].active THEN "counting" ELSE "waiting"
<1> USE DEF IInv, RecInv
<1>0. PICK i \in Ids : i = arm[c].id
  BY DEF InstallStop, SessionLoaded, TypeOK, Stops
<1>1. \A j \in Ids : PhaseOf(j) = Life(c, j) /\ PhaseOf(j)' = Life(c, j)'
  BY LifeIsPhase, LifeIsPhasePrime
<1>2. /\ main[c] = "arm" /\ main'[c] = "run" /\ stop'[c] = arm[c] /\ arm'[c] = Null
      /\ UNCHANGED <<db, fate>> /\ arm[c] # Null
      /\ ~Locked(c) /\ ~Locked(c)'
  BY DEF InstallStop, historyVars, SessionLoaded, TypeOK, Locked
<1>3. fate[i] = "live" /\ ~RowOf(stop[c], i)
  BY <1>0, <1>2 DEF MemoryGoing, RowOf
<1>4. Life(c, i) = "arming" /\ Life(c, i)' = w
  <2>1. fate[i] \notin Resolved \cup {"unused"} /\ fate'[i] \notin Resolved \cup {"unused"}
    BY <1>0, <1>2, <1>3 DEF Resolved
  <2>2. RowOf(arm[c], i) /\ ~RowOf(arm[c], i)' /\ RowOf(stop[c], i)' /\ stop'[c].active = arm[c].active
    BY <1>0, <1>2 DEF RowOf
  <2>3. QED  BY <1>2, <2>1, <2>2 DEF Life
<1>5. \A j \in Ids : j # i =>
        /\ Life(c, j)' \in Lifecycle!Phases
        /\ IF Life(c, j) \in {"waiting", "counting", "firing"}
           THEN Life(c, j)' \in {"stored", "lost"}
           ELSE Life(c, j)' = Life(c, j)
  BY <1>0, <1>2 DEF Life, RowOf, OnDisk, Lifecycle!Phases
<1>6. w \in Lifecycle!Watching /\ w \in Lifecycle!Phases
  BY DEF Lifecycle!Watching, Lifecycle!Phases
<1> HIDE DEF w
<1>7. Lifecycle!Install(i)
  <2> DEFINE Q == [j \in Ids |-> PhaseOf(j)]
             A == {j \in Ids : Q[j] \in {"waiting", "counting", "firing"}}
             R == [Q EXCEPT ![i] = w]
  <2>1. Q' \in [Ids -> Lifecycle!Phases]
    BY <1>1, <1>4, <1>5, <1>6
  <2>2. \A j \in Ids : IF j \in A THEN Q'[j] \in {"stored", "lost"} ELSE Q'[j] = R[j]
    BY <1>1, <1>2, <1>4, <1>5
  <2>3. Q[i] = "arming"
    BY <1>1, <1>2, <1>4
  <2>4. QED
    BY <1>6, <2>1, <2>2, <2>3 DEF Lifecycle!Install, Lifecycle!Leave, Lifecycle!Current
<1>8. QED  BY <1>2, <1>7 DEF Lifecycle!Next

\* A stop that ends is resolved for good.
LEMMA EndImplements ==
  ASSUME OneSession, IInv, RecInv, RecInv', NEW c \in Conns, Ends(c)
  PROVE  Lifecycle!Next
<1> USE DEF IInv, RecInv
<1>0. PICK i \in Ids : i = stop[c].id
  BY DEF Ends, TypeOK, Stops
<1>1. \A j \in Ids : PhaseOf(j) = Life(c, j) /\ PhaseOf(j)' = Life(c, j)'
  BY LifeIsPhase, LifeIsPhasePrime
<1>2. PICK f \in Resolved : Resolve(c, f)
  BY DEF Ends
<1>3. /\ stop[c] # Null /\ stop[c] \in Stops /\ i \in Ids /\ stop[c].key \in Keys
      /\ arm' = arm /\ stop'[c] = Null
      /\ db' = [db EXCEPT ![stop[c].key] = Null] /\ fate' = [fate EXCEPT ![i] = f]
  BY <1>0, <1>2 DEF Ends, Resolve, DeleteActivityStop, DbOutcomes, OneSession, TypeOK, Stops
<1>4. \A j \in Ids : fate'[j] = IF j = i THEN f ELSE fate[j]
  BY <1>3 DEF TypeOK
<1>5. Life(c, i) \in {"waiting", "counting", "firing"}
  BY <1>0, <1>3 DEF Life, RowOf, MemoryGoing, Going, Resolved
<1>6. Life(c, i)' = "resolved"
  <2>1. fate'[i] = f /\ f # "unused"
    BY <1>3, <1>4 DEF Resolved
  <2>2. QED  BY <2>1 DEF Life
<1>7. \A j \in Ids : j # i => Life(c, j)' = Life(c, j)
  <2> SUFFICES ASSUME NEW j \in Ids, j # i PROVE Life(c, j)' = Life(c, j)
    OBVIOUS
  <2>1. fate'[j] = fate[j] /\ ~RowOf(stop[c], j) /\ ~RowOf(stop[c], j)'
        /\ (RowOf(arm[c], j)' <=> RowOf(arm[c], j))
    BY <1>0, <1>3, <1>4 DEF RowOf
  <2>2. ~RowOf(arm[c], j) => ~RowOf(db[stop[c].key], j)
    BY <1>0, <1>3 DEF OwnRow, RowOf
  <2>3. ~RowOf(arm[c], j) => (OnDisk(j)' <=> OnDisk(j))
    BY <1>3, <2>2 DEF OnDisk, RowOf, TypeOK
  <2>4. QED  BY <2>1, <2>3 DEF Life
<1>8. Lifecycle!End(i)
  <2> DEFINE Q == [j \in Ids |-> PhaseOf(j)]
  <2>1. Q[i] \in {"waiting", "counting", "firing"}
    BY <1>1, <1>3, <1>5
  <2>2. Q' = [Q EXCEPT ![i] = "resolved"]
    BY <1>1, <1>3, <1>6, <1>7
  <2>3. QED  BY <1>3, <2>1, <2>2 DEF Lifecycle!End, Lifecycle!Current
<1>9. QED  BY <1>3, <1>8 DEF Lifecycle!Next

\* The steps that touch no stop but its clock.
Passes(c) ==
  \/ WsPositionUpdate(c) /\ UNCHANGED <<db, stop, fate>>
  \/ \E s \in Symbols : SubscribeChart(c, s)
  \/ UnsubscribeChart(c)
  \/ ChartTake(c)
  \/ GetPositionsOk(c)
  \/ PlaceOrderRefused(c)

LEMMA PassesQuietly ==
  ASSUME TypeOK, NEW c \in Conns, Passes(c)
  PROVE  Quiet /\ Idles
<1>1. UNCHANGED <<db, stop, arm, arms, fate>>
  BY DEF Passes, WsPositionUpdate, SubscribeChart, UnsubscribeChart, ChartTake, GetPositionsOk,
         PlaceOrderRefused, historyVars
<1>2. \A d \in Conns : main'[d] = main[d] \/ (Locked(d) /\ main'[d] \in {"close", "ackErr"})
  BY DEF Passes, WsPositionUpdate, SubscribeChart, UnsubscribeChart, ChartTake, GetPositionsOk,
         PlaceOrderRefused, Locked, TypeOK
<1>3. \A d \in Conns : /\ Locked(d)' <=> Locked(d)
                       /\ main'[d] = "arm" <=> main[d] = "arm"
                       /\ main'[d] = "down" => main[d] = "down"
  BY <1>2 DEF Locked
<1>4. Quiet
  BY <1>1, <1>3 DEF Quiet, Same
<1>5. Idles
  BY <1>1, <1>3 DEF Idles, Same
<1>6. QED  BY <1>4, <1>5

LEMMA WorldQuiet ==
  ASSUME TypeOK, Market \/ Tick \/ UNCHANGED vars
  PROVE  Quiet /\ Idles
<1>1. UNCHANGED <<main, arms, fate>>
  BY DEF Market, MovePosition, MarketTrade, Tick, historyVars, vars
<1>2. \A d \in Conns : /\ Same(stop[d], stop'[d])
                       /\ Same(arm[d], arm'[d])
                       /\ stop[d] # Null => stop'[d].active = stop[d].active
  <2>1. CASE UNCHANGED <<stop, arm>>
    BY <2>1 DEF Same
  <2>2. CASE Tick
    <3>1. \A s \in Stops : Aged(s).active = s.active
      BY DEF Aged, Stops
    <3>2. QED  BY <2>2, <3>1, AgedSame DEF Tick, TypeOK
  <2>3. QED  BY <2>1, <2>2 DEF Market, MovePosition, MarketTrade, vars
<1>3. \A k \in Keys : Same(db[k], db'[k])
  <2>1. CASE UNCHANGED db
    BY <2>1 DEF Same
  <2>2. CASE Tick
    BY <2>2, AgedSame DEF Tick, TypeOK
  <2>3. QED  BY <2>1, <2>2 DEF Market, MovePosition, MarketTrade, vars
<1>4. Quiet
  BY <1>1, <1>2, <1>3 DEF Quiet, Locked
<1>5. Idles
  BY <1>1, <1>2, <1>3 DEF Idles
<1>6. QED  BY <1>4, <1>5

\* The close order is executed: the request is shot, and still being fired.
LEMMA ExecuteQuiet ==
  ASSUME OneSession, IInv, RecInv, NEW c \in Conns,
         NEW a \in {"ackOk", "ackErr"}, Execute(c, a)
  PROVE  Quiet
<1> USE DEF IInv, RecInv
<1>1. /\ main[c] = "close" /\ main' = [main EXCEPT ![c] = a] /\ UNCHANGED <<stop, arm, db>>
      /\ fate' = [fate EXCEPT ![stop[c].id] = "shot"]
  BY DEF Execute
<1>2. stop[c] # Null /\ stop[c].id \in Ids /\ fate[stop[c].id] \in Going
  <2>1. stop[c] # Null
    BY <1>1 DEF FiringIsHeld, Locked, Expired
  <2>2. stop[c].id \in Ids
    BY <2>1 DEF TypeOK, Stops
  <2>3. fate[stop[c].id] \in Going
    BY <1>1, <2>1 DEF MemoryGoing
  <2>4. QED  BY <2>1, <2>2, <2>3
<1>3. \A i \in Ids : fate'[i] = IF i = stop[c].id THEN "shot" ELSE fate[i]
  BY <1>1, <1>2 DEF TypeOK
<1>4. \A d \in Conns : Locked(d)' <=> Locked(d)
  BY <1>1 DEF Locked, TypeOK
<1>5. QED  BY <1>1, <1>2, <1>3, <1>4 DEF Quiet, Same, Going, Resolved

LEMMA ApplyIdles ==
  ASSUME TypeOK, NEW c \in Conns, ChartApply(c)
  PROVE  Idles
<1>1. UNCHANGED <<arm, db, main, arms, fate>>
  BY DEF ChartApply, historyVars
<1>2. ASSUME NEW d \in Conns PROVE Same(stop[d], stop'[d])
  <2>1. d # c => stop'[d] = stop[d]
    BY DEF ChartApply, TypeOK
  <2>2. stop'[c] = Touched(stop[c], seen[c]) /\ stop[c] \in Stops \cup {Null}
    BY DEF ChartApply, TypeOK
  <2>3. Same(stop[c], Touched(stop[c], seen[c]))
    BY <2>2, TouchedSame
  <2>4. QED  BY <2>1, <2>2, <2>3 DEF Same
<1>3. QED  BY <1>1, <1>2 DEF Idles, Same

\* A trade fires the trigger of a waiting stop, or leaves every request as it is.
LEMMA ApplyImplements ==
  ASSUME OneSession, IInv, RecInv, RecInv', NEW c \in Conns, ChartApply(c)
  PROVE  Lifecycle!Next \/ UNCHANGED [i \in Ids |-> PhaseOf(i)]
<1> USE DEF IInv, RecInv
<1>1. /\ UNCHANGED <<arm, db, main, fate>> /\ ~Locked(c)
      /\ stop'[c] = Touched(stop[c], seen[c])
  BY DEF ChartApply, historyVars, MutexFree, TypeOK
<1>2. \A d \in Conns : d = c
  BY DEF OneSession
<1>3. Idles
  BY ApplyIdles
<1>4. CASE stop[c] # Null => stop'[c].active = stop[c].active
  <2>1. Quiet
    BY <1>1, <1>2, <1>3, <1>4 DEF Quiet, Idles, Locked
  <2>2. QED  BY <2>1, QuietImplements
<1>5. CASE stop[c] # Null /\ stop'[c].active # stop[c].active
  <2>1. PICK i \in Ids : i = stop[c].id
    BY <1>5 DEF TypeOK, Stops
  <2>2. \A j \in Ids : PhaseOf(j) = Life(c, j) /\ PhaseOf(j)' = Life(c, j)'
    BY LifeIsPhase, LifeIsPhasePrime
  <2>3. stop[c] \in Stops /\ stop'[c] = [stop[c] EXCEPT !.active = TRUE, !.idle = 0]
    BY <1>1, <1>5 DEF Touched, TypeOK
  <2>4. ~stop[c].active /\ stop'[c].active
    BY <1>5, <2>3 DEF Stops
  <2>5. Same(stop[c], stop'[c]) /\ stop'[c] # Null
    BY <1>3, <1>5 DEF Idles, Same
  <2>6. fate[i] \notin Resolved \cup {"unused"}
    BY <1>5, <2>1 DEF MemoryGoing, Going, Resolved
  <2>7. ~Locked(c)'
    BY <1>1 DEF Locked
  <2>8. Life(c, i) \in {"waiting", "arming"} /\ ~RowOf(arm[c], i)
    BY <1>1, <1>5, <2>1, <2>4, <2>6 DEF Life, RowOf, MemoryGoing
  <2>9. Life(c, i) = "waiting" /\ Life(c, i)' = "counting"
    BY <1>1, <1>5, <2>1, <2>4, <2>5, <2>6, <2>7, <2>8 DEF Life, RowOf, Same
  <2>10. \A j \in Ids : j # i => Life(c, j)' = Life(c, j)
    BY <1>1, <2>1, <2>5 DEF Life, RowOf, Same, OnDisk
  <2>11. Lifecycle!Trigger(i)
    BY <2>1, <2>2, <2>9, <2>10 DEF Lifecycle!Trigger
  <2>12. QED  BY <2>11 DEF Lifecycle!Next
<1>6. QED  BY <1>4, <1>5

-----------------------------------------------------------------------------
(* All steps *)

LEMMA ExecuteSteps ==
  ASSUME NEW c \in Conns, PlaceOrderOk(c) \/ PlaceOrderLost(c)
  PROVE  \E a \in {"ackOk", "ackErr"} : Execute(c, a)
  BY DEF PlaceOrderOk, PlaceOrderLost

\* The steps of a session, sorted by what they do to a request.
LEMMA SessionSteps ==
  ASSUME IInv, RecInv, NEW c \in Conns, Session(c)
  PROVE  \/ Connect(c)
         \/ Disconnect(c)
         \/ \E k \in Keys, t \in Timeouts, p \in Prices \cup {NoPrice} : ActivityStop(c, k, t, p)
         \/ InstallStop(c)
         \/ Ends(c)
         \/ Passes(c)
         \/ ChartApply(c)
         \/ TimerExpire(c)
         \/ \E a \in {"ackOk", "ackErr"} : Execute(c, a)
<1>1. CASE CancelActivityStop(c) \/ GetPositionsNone(c) \/ CloseAnswered(c)
  BY <1>1, EndSteps
<1>2. CASE WsPositionUpdate(c)
  BY <1>2, EndSteps DEF Passes
<1>3. QED  BY <1>1, <1>2, ExecuteSteps DEF Session, Command, Timer, Passes

LEMMA RecNext ==
  ASSUME OneSession, IInv, RecInv, [Next]_vars
  PROVE  RecInv'
<1> TypeOK  BY DEF IInv
<1>1. ASSUME NEW c \in Conns, Session(c)
      PROVE  RecInv'
  <2>1. CASE Disconnect(c)
    <3>1. Drop({c}) /\ c \in {c}
      BY <2>1 DEF Disconnect
    <3>2. QED  BY <3>1, RecDrop
  <2>2. CASE \E k \in Keys, t \in Timeouts, p \in Prices \cup {NoPrice} : ActivityStop(c, k, t, p)
    BY <2>2, RequestDoes, RecRequest
  <2>3. CASE Passes(c) \/ ChartApply(c)
    BY <2>3, PassesQuietly, ApplyIdles, RecIdle
  <2>4. CASE TimerExpire(c)
    <3>1. Idles
      BY <2>4 DEF TimerExpire, Idles, Same, historyVars, IInv, TypeOK
    <3>2. QED  BY <3>1, RecIdle
  <2>5. QED
    BY <1>1, <2>1, <2>2, <2>3, <2>4, SessionSteps, RecConnect, RecInstall, RecEnd, RecExecute
<1>2. CASE Market \/ Tick \/ UNCHANGED vars
  BY <1>2, WorldQuiet, RecIdle
<1>3. CASE Crash
  BY <1>3, RecDrop DEF Crash
<1>4. QED  BY <1>1, <1>2, <1>3 DEF Next

\* Every step of the sessions is a step in the life of a request, or none.
LEMMA StepImplements ==
  ASSUME OneSession, IInv, RecInv, RecInv', [Next]_vars
  PROVE  Lifecycle!Next \/ UNCHANGED [i \in Ids |-> PhaseOf(i)]
<1> TypeOK  BY DEF IInv
<1>1. ASSUME NEW c \in Conns, Session(c)
      PROVE  Lifecycle!Next \/ UNCHANGED [i \in Ids |-> PhaseOf(i)]
  <2>1. CASE Disconnect(c)
    <3>1. Drop({c}) /\ c \in {c} /\ main[c] = "run"
      BY <2>1 DEF Disconnect
    <3>2. QED  BY <3>1, DropImplements
  <2>2. CASE \E k \in Keys, t \in Timeouts, p \in Prices \cup {NoPrice} : ActivityStop(c, k, t, p)
    BY <2>2, RequestDoes, RequestImplements
  <2>3. CASE Passes(c) \/ \E a \in {"ackOk", "ackErr"} : Execute(c, a)
    BY <2>3, PassesQuietly, ExecuteQuiet, QuietImplements
  <2>4. QED
    BY <1>1, <2>1, <2>2, <2>3, SessionSteps, ConnectImplements, InstallImplements, EndImplements,
       ApplyImplements, ExpireImplements
<1>2. CASE Market \/ Tick \/ UNCHANGED vars
  BY <1>2, WorldQuiet, QuietImplements
<1>3. CASE Crash
  BY <1>3, DropImplements DEF Crash
<1>4. QED  BY <1>1, <1>2, <1>3 DEF Next

LEMMA InitImplements == Init => Lifecycle!Init
<1> SUFFICES ASSUME Init, NEW i \in Ids PROVE PhaseOf(i) = "unused"
  BY DEF Lifecycle!Init
<1>1. fate[i] = "unused" /\ "unused" \notin Resolved
  BY DEF Init, Resolved
<1>2. ~InMemory(i)
  BY DEF Init, InMemory, RowOf
<1>3. QED  BY <1>1, <1>2 DEF PhaseOf, InMemory

LEMMA RecInductive ==
  ASSUME OneSession
  PROVE  Spec => [](IInv /\ RecInv)
<1>1. Init => RecInv  BY RecInit
<1>2. IInv /\ RecInv /\ [Next]_vars => RecInv'
  BY RecNext
<1>3. QED  BY <1>1, <1>2, InductiveInvariant, PTL DEF Spec

\* The sessions of one client, any number of them one after the other, with the process
\* killed in any state, lead each request a legal life: it fires only after it has counted,
\* an ended or lost request never returns, and one request at a time is in force.
THEOREM LifecycleImplemented ==
  ASSUME OneSession
  PROVE  Spec => ImplementsLifecycle
<1>1. IInv /\ RecInv /\ (IInv /\ RecInv)' /\ [Next]_vars
        => [Lifecycle!Next]_([i \in Ids |-> PhaseOf(i)])
  BY StepImplements
<1>2. [Lifecycle!Next]_([i \in Ids |-> PhaseOf(i)])
        => [/\ [i \in Ids |-> PhaseOf(i)]' # [i \in Ids |-> PhaseOf(i)]
            /\ Lifecycle!Next]_([i \in Ids |-> PhaseOf(i)])
  OBVIOUS
<1>3. QED  BY <1>1, <1>2, InitImplements, RecInductive, PTL DEF Spec, ImplementsLifecycle, Lifecycle!Spec

\* A stop that was closed, cancelled or dropped is in no Mutex and no row any more, whenever
\* the process dies and however often a session restores what is on record.
THEOREM EndedStopNeverRestored ==
  ASSUME OneSession
  PROVE  Spec => []ResolvedIsFinal
<1>1. RecInv => ResolvedIsFinal
  <2> SUFFICES ASSUME RecInv, NEW i \in Ids, fate[i] \in Resolved
               PROVE  ~InMemory(i) /\ ~OnDisk(i)
    BY DEF ResolvedIsFinal
  <2>1. \A c \in Conns : ~RowOf(stop[c], i) /\ ~RowOf(arm[c], i)
    BY DEF RecInv, MemoryGoing, Going, Resolved, RowOf
  <2>2. \A k \in Keys : ~RowOf(db[k], i)
    BY DEF RecInv, RowsGoing, Going, Resolved, RowOf
  <2>3. QED  BY <2>1, <2>2 DEF InMemory, OnDisk
<1>2. QED  BY <1>1, RecInductive, PTL

-----------------------------------------------------------------------------
(* Bybit: no update is ever heard, and a request that goes on is on record *)

Unheard == \A c \in Conns : feed[c] = <<>>

LEMMA UnheardStep ==
  ASSUME Venue = "bybit", TypeOK, Unheard, [Next]_vars
  PROVE  Unheard'
<1>1. ASSUME NEW s, Publish(s)
      PROVE  Unheard'
  BY <1>1 DEF Publish, Listeners, Unheard
<1>2. CASE UNCHANGED feed
  BY <1>2 DEF Unheard
<1>3. ASSUME NEW C, Drop(C)
      PROVE  Unheard'
  BY <1>3 DEF Drop, Unheard
<1>4. CASE \E c \in Conns : WsPositionUpdate(c)
  BY <1>4 DEF WsPositionUpdate, Unheard
<1>5. QED
  BY <1>1, <1>2, <1>3, <1>4
  DEF Next, Session, Connect, Disconnect, Command, ActivityStop, InstallStop, CancelActivityStop,
      SubscribeChart, UnsubscribeChart, ChartTake, ChartApply, Timer, TimerExpire, GetPositionsOk,
      GetPositionsNone, PlaceOrderOk, PlaceOrderLost, Execute, PlaceOrderRefused, CloseAnswered,
      Market, MovePosition, MarketTrade, Crash, Tick, marketVars, vars

\* A step that keeps every row and lets no request begin keeps the record.
LEMMA DurableKept ==
  ASSUME LiveIsDurable, \A k \in Keys : Same(db[k], db'[k]),
         \A i \in Ids : fate'[i] \in Going => fate[i] \in Going
  PROVE  LiveIsDurable'
  BY DEF LiveIsDurable, OnDisk, RowOf, Same, Going

LEMMA DurableRequest ==
  ASSUME TypeOK, LiveIsDurable, NEW c \in Conns, NEW k \in Keys, NEW s, RequestTaken(c, k, s)
  PROVE  LiveIsDurable'
<1> SUFFICES ASSUME NEW i \in Ids, fate'[i] \in Going PROVE OnDisk(i)'
  BY DEF LiveIsDurable, Going
<1>1. db'[k] = s /\ s # Null /\ \A j \in Keys : j # k => db'[j] = db[j]
  BY DEF RequestTaken, TypeOK
<1>2. CASE i = s.id
  BY <1>1, <1>2 DEF OnDisk, RowOf
<1>3. CASE i # s.id
  <2>1. fate[i] \in Going /\ ~RowOf(db[k], i)
    BY <1>3 DEF RequestTaken, Going
  <2>2. PICK j \in Keys : RowOf(db[j], i)
    BY <2>1 DEF LiveIsDurable, OnDisk, Going
  <2>3. QED  BY <1>1, <2>1, <2>2 DEF OnDisk, RowOf
<1>4. QED  BY <1>2, <1>3

\* The row a stop takes with it is its own: no other request waits for the Mutex meanwhile.
LEMMA DurableEnd ==
  ASSUME OneSession, TypeOK, RecInv, LiveIsDurable, NEW c \in Conns, Ends(c), arm[c] = Null
  PROVE  LiveIsDurable'
<1> SUFFICES ASSUME NEW i \in Ids, fate'[i] \in Going PROVE OnDisk(i)'
  BY DEF LiveIsDurable, Going
<1>1. PICK f \in Resolved : Resolve(c, f)
  BY DEF Ends
<1>2. /\ stop[c] # Null /\ stop[c].id \in Ids /\ stop[c].key \in Keys
      /\ db' = [db EXCEPT ![stop[c].key] = Null] /\ fate' = [fate EXCEPT ![stop[c].id] = f]
  BY <1>1 DEF Ends, Resolve, DeleteActivityStop, DbOutcomes, OneSession, TypeOK, Stops
<1>3. i # stop[c].id /\ fate[i] \in Going
  BY <1>2 DEF TypeOK, Going, Resolved
<1>4. PICK j \in Keys : RowOf(db[j], i)
  BY <1>3 DEF LiveIsDurable, OnDisk, Going
<1>5. j # stop[c].key
  BY <1>2, <1>3, <1>4 DEF RecInv, OwnRow, RowOf
<1>6. QED  BY <1>2, <1>4, <1>5 DEF OnDisk, RowOf, TypeOK

LEMMA DurableStep ==
  ASSUME OneSession, IInv, RecInv, Unheard, LiveIsDurable, [Next]_vars
  PROVE  LiveIsDurable'
<1> TypeOK  BY DEF IInv
<1>1. ASSUME NEW c \in Conns, Session(c)
      PROVE  LiveIsDurable'
  <2>1. CASE Ends(c) /\ arm[c] = Null
    BY <2>1, DurableEnd
  <2>2. CASE \E k \in Keys, t \in Timeouts, p \in Prices \cup {NoPrice} : ActivityStop(c, k, t, p)
    BY <2>2, RequestDoes, DurableRequest
  <2>3. CASE Passes(c) \/ ChartApply(c)
    BY <2>3, PassesQuietly, ApplyIdles, DurableKept DEF Idles
  <2>4. CASE Connect(c) \/ Disconnect(c) \/ InstallStop(c) \/ TimerExpire(c)
    <3>1. UNCHANGED <<db, fate>>
      BY <2>4 DEF Connect, Disconnect, Drop, InstallStop, TimerExpire, historyVars
    <3>2. QED  BY <3>1, DurableKept DEF Same
  <2>5. ASSUME NEW a \in {"ackOk", "ackErr"}, Execute(c, a)
        PROVE  LiveIsDurable'
    <3>1. db' = db /\ fate' = [fate EXCEPT ![stop[c].id] = "shot"] /\ main[c] = "close"
      BY <2>5 DEF Execute
    <3>2. stop[c] # Null /\ fate[stop[c].id] \in Going
      BY <3>1 DEF IInv, FiringIsHeld, Locked, Expired, RecInv, MemoryGoing
    <3>3. \A i \in Ids : fate'[i] \in Going => fate[i] \in Going
      BY <3>1, <3>2 DEF TypeOK
    <3>4. QED  BY <3>1, <3>3, DurableKept DEF Same
  <2>6. CASE CancelActivityStop(c) \/ GetPositionsNone(c) \/ CloseAnswered(c)
    <3>1. arm[c] = Null
      BY <2>6 DEF CancelActivityStop, GetPositionsNone, CloseAnswered, RecInv, SessionLoaded
    <3>2. Ends(c)
      BY <2>6, EndSteps
    <3>3. QED  BY <2>1, <3>1, <3>2
  <2>7. ~WsPositionUpdate(c)
    BY DEF WsPositionUpdate, Unheard
  <2>8. QED
    BY <1>1, <2>2, <2>3, <2>4, <2>5, <2>6, <2>7, ExecuteSteps DEF Session, Command, Timer, Passes
<1>2. CASE Market \/ Tick \/ UNCHANGED vars
  BY <1>2, WorldQuiet, DurableKept DEF Idles
<1>3. CASE Crash
  BY <1>3, DurableKept DEF Crash, Drop, historyVars, Same
<1>4. QED  BY <1>1, <1>2, <1>3 DEF Next

\* On Bybit a request that has neither ended nor been replaced under its key is on record at
\* every moment, crashes included: a restart finds it.  (On Binance a position update that
\* comes between the row and the Mutex takes the new request's row away with the old stop's.)
THEOREM LiveIsOnRecord ==
  ASSUME OneSession, Venue = "bybit"
  PROVE  Spec => []LiveIsDurable
<1>1. Init => Unheard /\ LiveIsDurable
  BY DEF Init, Unheard, LiveIsDurable
<1>2. IInv /\ Unheard /\ [Next]_vars => Unheard'
  BY UnheardStep DEF IInv
<1>3. IInv /\ RecInv /\ Unheard /\ LiveIsDurable /\ [Next]_vars => LiveIsDurable'
  BY DurableStep
<1>4. QED  BY <1>1, <1>2, <1>3, RecInductive, PTL DEF Spec

=============================================================================
