------------------------ MODULE PendingAutostopProofs ------------------------
(* Theorems about PendingAutostop: the plans for limit orders and the activity *)
(* stop they arm, for any number of sessions, symbols, orders and plans, with  *)
(* crashes and, where it is not said otherwise, failing transactions.          *)
EXTENDS PendingAutostop, PanicStopProofs

\* A closed session hears nothing.
Deaf == \A c \in Conns : ~Up(c) => feed[c] = <<>>

\* The inductive invariant: that of the activity stop, which is still inductive with the
\* steps of orders and plans added, and the types of orders and plans.  That a closed session
\* has no ws task holds because it has nothing to take either.
PInv == IInv /\ PTypeOK /\ Deaf

-----------------------------------------------------------------------------
(* The steps of PendingAutostop as steps of PanicStop *)

\* Order events added to the private feed.
OrderMoves ==
  \E o \in Orders : \/ \E status \in {"partial", "filled"} : FillOrder(o, status)
                    \/ \E status \in {"cancelled", "rejected"} : EndOrder(o, status)
\* The sessions and the market as in PanicStop.
Plain == PlainStep \/ \E c \in Conns : TimerStep(c)
\* What the ws task takes from it.
Takes(c) == StartTrailing(c) \/ StartActivity(c) \/ DropPlan(c) \/ IgnoreUpdate(c)

\* Everything else is a step of the activity stop or leaves it alone.
LEMMA StepKinds ==
  ASSUME PNext
  PROVE  \/ Next \/ UNCHANGED vars \/ OrderMoves
         \/ \E c \in Conns : Takes(c) \/ InstallPlanned(c)
<1>1. CASE Plain \/ TimePasses \/ ServerCrash
  BY <1>1 DEF Plain, PlainStep, TimerStep, TimePasses, ServerCrash, Next, Session
<1>2. ASSUME NEW c \in Conns, WsTask(c)
      PROVE  Next \/ UNCHANGED vars \/ Takes(c) \/ InstallPlanned(c)
  BY <1>2 DEF WsTask, SpawnSweep, PositionUpdate, WsOrderUpdate, Takes, TrailingAnswered, FinishPlan,
              Next, Session
<1>3. CASE \E c \in Conns : PlanCommand(c)
  BY <1>3 DEF PlanCommand, CreatePendingAutostop, LoadForUpdate, SaveUpdate, CancelPendingAutostop
<1>4. CASE OrderMarket
  BY <1>4 DEF OrderMarket, PlaceLimitOrder, OrderMoves
<1>5. CASE \E w \in sweeps : SweepList(w)
  BY <1>5 DEF SweepList
<1>6. CASE \E w \in sweeps : \E o \in Orders : SweepCancel(w, o)
  BY <1>6 DEF SweepCancel, OrderMoves
<1>7. QED  BY <1>1, <1>2, <1>3, <1>4, <1>5, <1>6 DEF PNext, Plain

-----------------------------------------------------------------------------
(* The activity stop under the new steps *)

\* Whatever is heard is appended to the feeds.
LEMMA HearType ==
  ASSUME feed \in [Conns -> Seq(Events)], NEW events \in Seq(Events), Hear(events)
  PROVE  feed' \in [Conns -> Seq(Events)]
<1>1. PICK heard : feed' = [c \in Conns |-> IF c \in heard THEN feed[c] \o events ELSE feed[c]]
  BY DEF Hear
<1>2. \A c \in Conns : feed[c] \o events \in Seq(Events)  OBVIOUS
<1>3. QED  BY <1>1, <1>2

\* A step that leaves the select loops, their stops and quotes alone keeps the guard.
LEMMA GuardKept ==
  ASSUME IInv, UNCHANGED <<main, stop, quote>>
  PROVE  FiringIsHeld'
<1>1. \A d \in Conns : HeldFor(d)'  BY HeldIfUntouched
<1>2. QED  BY <1>1 DEF FiringIsHeld, HeldFor

LEMMA OrdersIInv ==
  ASSUME PInv, OrderMoves
  PROVE  IInv'
<1> USE DEF PInv, IInv
<1>1. ASSUME NEW o \in Orders, NEW status \in {"partial", "filled"}, FillOrder(o, status)
      PROVE  IInv'
  <2>1. Update(o) \in Events
    <3>1. orders'[o] = status  BY <1>1 DEF FillOrder, PTypeOK
    <3>2. QED  BY <3>1, OrdersAssumption DEF Update, Events, Ended
  <2>2. OrderKey[o] \in Keys /\ OrderKey[o][1] \in Symbols
    BY OrdersAssumption DEF Keys
  <2>3. pos' \in [Keys -> Nat]
    BY <1>1, <2>2, ConstantsAssumption DEF FillOrder, TypeOK
  <2>4. Report(pos', OrderKey[o][1]) \in Events
    BY <2>2, <2>3, ReportType DEF Events
  <2>5. PICK up \in {<<Update(o), Report(pos', OrderKey[o][1])>>,
                     <<Report(pos', OrderKey[o][1]), Update(o)>>} : Hear(up)
    BY <1>1 DEF FillOrder
  <2>6. up \in Seq(Events)
    <3>1. \A a, b \in Events : <<a, b>> \in Seq(Events)  OBVIOUS
    <3>2. QED  BY <2>1, <2>4, <2>5, <3>1
  <2>7. feed' \in [Conns -> Seq(Events)]  BY <2>5, <2>6, HearType DEF TypeOK
  <2>8. UNCHANGED <<db, main, stop, arm, quote, chart, trades, seen, arms, fate>>
    BY <1>1 DEF FillOrder, chartVars, historyVars
  <2>9. QED  BY <2>3, <2>7, <2>8, GuardKept DEF TypeOK
<1>2. ASSUME NEW o \in Orders, NEW status \in {"cancelled", "rejected"}, EndOrder(o, status)
      PROVE  IInv'
  <2>1. Update(o) \in Events
    <3>1. orders'[o] = status  BY <1>2 DEF EndOrder, PTypeOK
    <3>2. QED  BY <3>1, OrdersAssumption DEF Update, Events, Ended
  <2>2. feed' \in [Conns -> Seq(Events)]
    <3>1. <<Update(o)>> \in Seq(Events)  BY <2>1
    <3>2. QED  BY <1>2, <3>1, HearType DEF EndOrder, TypeOK
  <2>3. UNCHANGED <<pos, db, main, stop, arm, quote, chart, trades, seen, arms, fate>>
    BY <1>2 DEF EndOrder, chartVars, historyVars
  <2>4. QED  BY <2>2, <2>3, GuardKept DEF TypeOK
<1>3. QED  BY <1>1, <1>2 DEF OrderMoves

\* The stop a plan asks for.
LEMMA PlannedStop ==
  ASSUME PInv, NEW c \in Conns, StartActivity(c)
  PROVE  LET o == Head(feed[c]).order
             s == NewStop(arms + 1, OrderKey[o], pending[o].timeout, pending[o].trigger)
         IN  /\ o \in Orders /\ pending[o] \in Plans /\ s \in Stops /\ s.key = OrderKey[o]
             /\ (s.active <=> s.trigger = NoPrice) /\ Register(s)
             /\ job' = [job EXCEPT ![c] = [order |-> o, plan |-> pending[o],
                                           step |-> "install", stop |-> s]]
<1> DEFINE o == Head(feed[c]).order
           s == NewStop(arms + 1, OrderKey[o], pending[o].timeout, pending[o].trigger)
<1>1. o \in Orders  BY OrdersAssumption DEF StartActivity, Take
<1>2. pending[o] \in Plans  BY <1>1 DEF StartActivity, PInv, PTypeOK
<1>3. arms + 1 \in Ids
  BY ConstantsAssumption DEF StartActivity, PInv, IInv, TypeOK, Ids
<1>4. OrderKey[o] \in Keys  BY <1>1, OrdersAssumption
<1>5. s \in Stops /\ s.key = OrderKey[o] /\ (s.active <=> s.trigger = NoPrice)
  BY <1>2, <1>3, <1>4 DEF NewStop, Stops, Plans
<1>6. QED  BY <1>1, <1>2, <1>5 DEF StartActivity

LEMMA TakesIInv ==
  ASSUME PInv, NEW c \in Conns, Takes(c)
  PROVE  IInv'
<1> USE DEF PInv, IInv
<1>1. /\ Take(c) /\ feed' \in [Conns -> Seq(Events)]
      /\ UNCHANGED <<pos, main, stop, arm, quote, chart, trades, seen>>
  <2>1. Take(c)  BY DEF Takes, StartTrailing, StartActivity, DropPlan, IgnoreUpdate
  <2>2. Tail(feed[c]) \in Seq(Events)  BY <2>1 DEF Take, TypeOK
  <2>3. QED  BY <2>1, <2>2 DEF Take, TypeOK, chartVars
<1>2. FiringIsHeld'  BY <1>1, GuardKept
<1>3. CASE StartActivity(c)
  <2> DEFINE o == Head(feed[c]).order
             s == NewStop(arms + 1, OrderKey[o], pending[o].timeout, pending[o].trigger)
  <2>1. s \in Stops /\ Register(s)  BY <1>3, PlannedStop
  <2> HIDE DEF s
  <2>2. /\ db' \in [Keys -> Stops \cup {Null}] /\ arms' \in 0 .. MaxArms
        /\ fate' \in [Ids -> Fates]
    BY <2>1, RegisterType
  <2>3. QED  BY <1>1, <1>2, <2>2 DEF TypeOK
<1>4. CASE StartTrailing(c) \/ DropPlan(c) \/ IgnoreUpdate(c)
  <2>1. UNCHANGED <<db, arms, fate>>
    BY <1>4 DEF StartTrailing, DropPlan, IgnoreUpdate, historyVars
  <2>2. QED  BY <1>1, <1>2, <2>1 DEF TypeOK
<1>5. QED  BY <1>3, <1>4 DEF Takes

\* The stop of a plan is put where no timer is firing.
LEMMA InstallIInv ==
  ASSUME PInv, NEW c \in Conns, InstallPlanned(c)
  PROVE  IInv'
<1> USE DEF PInv, IInv
<1>1. job[c] \in Jobs  BY DEF InstallPlanned, JobAt, PTypeOK
<1>2. /\ stop' = [stop EXCEPT ![c] = job[c].stop] /\ job[c].stop \in Stops \cup {Null}
      /\ ~Locked(c)
      /\ UNCHANGED <<pos, db, main, arm, quote, feed, chart, trades, seen, arms, fate>>
  BY <1>1 DEF InstallPlanned, MutexFree, Jobs, marketVars, chartVars, historyVars
<1>3. TypeOK'  BY <1>2 DEF TypeOK
<1>4. ASSUME NEW d \in Conns  PROVE HeldFor(d)'
  <2>1. CASE d = c
    <3>1. ~Locked(c)'  BY <1>2 DEF Locked
    <3>2. QED  BY <2>1, <3>1 DEF HeldFor
  <2>2. CASE d # c
    <3>1. stop'[d] = stop[d]  BY <1>2, <2>2 DEF TypeOK
    <3>2. QED  BY <1>2, <3>1, HeldIfUntouched
  <2>3. QED  BY <2>1, <2>2
<1>5. QED  BY <1>3, <1>4 DEF FiringIsHeld, HeldFor

LEMMA NextStopInv == PInv /\ [PNext]_pvars => IInv'
<1> SUFFICES ASSUME PInv, [PNext]_pvars  PROVE IInv'  OBVIOUS
<1>1. CASE [Next]_vars  BY <1>1, NextIInv DEF PInv
<1>2. CASE OrderMoves  BY <1>2, OrdersIInv
<1>3. CASE \E c \in Conns : Takes(c) \/ InstallPlanned(c)  BY <1>3, TakesIInv, InstallIInv
<1>4. CASE UNCHANGED pvars  BY <1>1, <1>4 DEF pvars
<1>5. QED  BY <1>1, <1>2, <1>3, <1>4, StepKinds

-----------------------------------------------------------------------------
(* Types of orders and plans *)

LEMMA OutcomesType ==
  ASSUME NEW d \in [Orders -> Plans \cup {Null}], pending \in [Orders -> Plans \cup {Null}],
         pending' \in PendingOutcomes(d)
  PROVE  pending' \in [Orders -> Plans \cup {Null}]
  BY DEF PendingOutcomes

\* The select loop that updates a plan does nothing else.
LEMMA LoopWaitsForSave ==
  ASSUME PInv, Plain, NEW d \in Conns, edit[d] # Null
  PROVE  main'[d] = main[d]
<1> USE DEF PInv, IInv, TypeOK
<1>1. main[d] = "run"  BY DEF PTypeOK
<1>2. CASE Market
  <2>1. CASE \E s \in Symbols, side \in Sides, q \in 0 .. MaxQty : MovePosition(s, side, q)
    BY <2>1 DEF MovePosition
  <2>2. CASE \E c \in Conns, p \in Prices : MarketTrade(c, p)
    BY <2>2 DEF MarketTrade
  <2>3. QED  BY <1>2, <2>1, <2>2 DEF Market
<1>3. ASSUME NEW c \in Conns, Connect(c)
      PROVE  main'[d] = main[d]
  <2>1. c # d  BY <1>1, <1>3 DEF Connect, Up
  <2>2. QED  BY <1>3, <2>1 DEF Connect
<1>4. ASSUME NEW c \in Conns, ChartTake(c) \/ ChartApply(c)
      PROVE  main'[d] = main[d]
  BY <1>4 DEF ChartTake, ChartApply
<1>5. ASSUME NEW c \in Conns, c # d, Disconnect(c)
      PROVE  main'[d] = main[d]
  BY <1>5 DEF Disconnect, Drop
<1>6. ASSUME NEW c \in Conns, c # d, Command(c)
      PROVE  main'[d] = main[d]
  BY <1>6 DEF Command, ActivityStop, InstallStop, CancelActivityStop, SubscribeChart,
              UnsubscribeChart
<1>7. ASSUME NEW c \in Conns, c # d, Timer(c)
      PROVE  main'[d] = main[d]
  BY <1>7 DEF Timer, TimerExpire, GetPositionsOk, GetPositionsNone, PlaceOrderOk,
              PlaceOrderLost, Execute, PlaceOrderRefused, CloseAnswered
<1>8. QED  BY <1>2, <1>3, <1>4, <1>5, <1>6, <1>7 DEF Plain, PlainStep, TimerStep

\* A closed session has no ws task.
LEMMA PlainPType ==
  ASSUME PInv, Plain \/ TimePasses \/ ServerCrash
  PROVE  PTypeOK'
<1> USE DEF PInv
<1>1. CASE Plain \/ ServerCrash
  <2>1. /\ AbortWsTasks /\ UNCHANGED <<orders, pending, created, told>>
        /\ sweeps' \in {sweeps, {}}
    BY <1>1 DEF Plain, PlainStep, TimerStep, ServerCrash, planVars
  <2>2. /\ job' \in [Conns -> Jobs \cup {Null}] /\ swept' \in [Conns -> BOOLEAN]
        /\ \A c \in Conns : ~Up(c)' => job'[c] = Null /\ ~swept'[c]
    BY <2>1 DEF AbortWsTasks, PTypeOK
  <2>3. /\ edit' \in [Conns -> Edits \cup {Null}]
        /\ \A c \in Conns : edit'[c] # Null => edit'[c] = edit[c]
    BY <1>1 DEF Plain, PlainStep, TimerStep, ServerCrash, planVars, PTypeOK
  <2>4. \A c \in Conns : edit'[c] # Null => main'[c] = "run"
    <3>1. CASE ServerCrash  BY <3>1 DEF ServerCrash
    <3>2. CASE Plain  BY <2>3, <3>2, LoopWaitsForSave DEF PTypeOK
    <3>3. QED  BY <1>1, <3>1, <3>2
  <2>5. QED  BY <2>1, <2>2, <2>3, <2>4 DEF PTypeOK, Up
<1>2. CASE TimePasses
  <2>1. UNCHANGED <<main, orders, pending, edit, created, told, sweeps, swept>>
    BY <1>2 DEF TimePasses, Tick, planVars
  <2>2. ASSUME NEW c \in Conns
        PROVE  /\ job'[c] \in Jobs \cup {Null}
               /\ job[c] = Null => job'[c] = Null
    <3>1. CASE job[c] = Null  BY <1>2, <3>1 DEF TimePasses
    <3>2. CASE job[c] # Null
      <4>1. job[c] \in Jobs  BY <3>2 DEF PTypeOK
      <4>2. Aged(job[c].stop) \in Stops \cup {Null}  BY <4>1, AgedType DEF Jobs
      <4>3. job'[c] = [job[c] EXCEPT !.stop = Aged(@)]  BY <1>2, <3>2 DEF TimePasses
      <4>4. QED  BY <3>2, <4>1, <4>2, <4>3 DEF Jobs
    <3>3. QED  BY <3>1, <3>2
  <2>3. job' \in [Conns -> Jobs \cup {Null}]  BY <1>2, <2>2 DEF TimePasses
  <2>4. QED  BY <2>1, <2>2, <2>3 DEF PTypeOK, Up
<1>3. QED  BY <1>1, <1>2

\* The ws task takes an event or goes on with an order update.
LEMMA WsPType ==
  ASSUME PInv, NEW c \in Conns, WsTask(c)
  PROVE  PTypeOK'
<1> USE DEF PInv, IInv
<1>1. SUFFICES /\ main' = main
               /\ UNCHANGED <<orders, edit, created>>
               /\ pending' \in [Orders -> Plans \cup {Null}]
               /\ told' \in [Orders -> Nat]
               /\ sweeps' \subseteq Sweeps
               /\ \E j \in Jobs \cup {Null} : job' = [job EXCEPT ![c] = j] /\ (j # Null => Up(c))
               /\ \E b \in BOOLEAN : swept' = [swept EXCEPT ![c] = b] /\ (b => Up(c))
  BY <1>1 DEF PTypeOK, Up
<1>2. UNCHANGED <<main, orders, edit, created>>
  BY DEF WsTask, SpawnSweep, PositionUpdate, WsPositionUpdate, WsOrderUpdate, StartTrailing,
         StartActivity, DropPlan, IgnoreUpdate, Take, TrailingAnswered, InstallPlanned, FinishPlan,
         vars, planVars
<1>3. feed[c] # <<>> => Up(c)  BY DEF Deaf
<1>4. job[c] # Null => Up(c) /\ job[c] \in Jobs  BY DEF PTypeOK
<1>5. swept[c] => Up(c)  BY DEF PTypeOK
<1>6. /\ job = [job EXCEPT ![c] = job[c]] /\ swept = [swept EXCEPT ![c] = swept[c]]
      /\ job[c] \in Jobs \cup {Null} /\ swept[c] \in BOOLEAN
      /\ pending \in [Orders -> Plans \cup {Null}] /\ told \in [Orders -> Nat]
      /\ sweeps \subseteq Sweeps
  BY DEF PTypeOK
<1>7. CASE SpawnSweep(c)
  <2>1. Head(feed[c]).key[1] \in Symbols  BY <1>7 DEF SpawnSweep, Reports, Keys
  <2>2. [symbol |-> Head(feed[c]).key[1], listed |-> FALSE, left |-> {}] \in Sweeps
    BY <2>1 DEF Sweeps
  <2>3. UNCHANGED <<pending, told, job>> /\ sweeps' \subseteq Sweeps
        /\ swept' = [swept EXCEPT ![c] = TRUE] /\ feed[c] # <<>>
    BY <1>6, <1>7, <2>2 DEF SpawnSweep
  <2>4. QED  BY <1>2, <1>3, <1>4, <1>6, <2>3
<1>8. CASE PositionUpdate(c)
  BY <1>2, <1>4, <1>6, <1>8 DEF PositionUpdate, planVars
<1>9. CASE StartTrailing(c)
  <2> DEFINE o == Head(feed[c]).order
             j == [order |-> o, plan |-> pending[o], step |-> "trail", stop |-> Null]
  <2>1. o \in Orders /\ pending[o] \in Plans
    BY <1>6, <1>9, OrdersAssumption DEF StartTrailing, Take
  <2>2. j \in Jobs  BY <2>1 DEF Jobs
  <2>3. UNCHANGED <<pending, told, sweeps, swept>> /\ job' = [job EXCEPT ![c] = j] /\ Up(c)
    BY <1>3, <1>9 DEF StartTrailing, Take, planVars
  <2>4. QED  BY <1>2, <1>5, <1>6, <2>2, <2>3
<1>10. CASE StartActivity(c)
  <2> DEFINE o == Head(feed[c]).order
             s == NewStop(arms + 1, OrderKey[o], pending[o].timeout, pending[o].trigger)
             j == [order |-> o, plan |-> pending[o], step |-> "install", stop |-> s]
  <2>1. o \in Orders /\ pending[o] \in Plans /\ s \in Stops /\ job' = [job EXCEPT ![c] = j]
    BY <1>10, PlannedStop
  <2>2. j \in Jobs
    <3> HIDE DEF s
    <3>1. QED  BY <2>1 DEF Jobs
  <2>3. UNCHANGED <<pending, told, sweeps, swept>> /\ Up(c)
    BY <1>3, <1>10 DEF StartActivity, Take, planVars
  <2> HIDE DEF j
  <2>4. QED  BY <1>2, <1>5, <1>6, <2>1, <2>2, <2>3
<1>11. CASE DropPlan(c)
  <2>1. [pending EXCEPT ![Head(feed[c]).order] = Null] \in [Orders -> Plans \cup {Null}]
    BY <1>6
  <2>2. pending' \in [Orders -> Plans \cup {Null}]
    BY <1>6, <1>11, <2>1, OutcomesType DEF DropPlan
  <2>3. UNCHANGED <<told, sweeps, job, swept>>  BY <1>11 DEF DropPlan, Take
  <2>4. QED  BY <1>2, <1>4, <1>5, <1>6, <2>2, <2>3
<1>12. CASE IgnoreUpdate(c)
  <2>1. UNCHANGED <<pending, told, sweeps, job, swept>>
    BY <1>12 DEF IgnoreUpdate, Take, planVars
  <2>2. QED  BY <1>2, <1>4, <1>5, <1>6, <2>1
<1>13. CASE TrailingAnswered(c) \/ InstallPlanned(c)
  <2>1. job[c] # Null /\ ToFinish(c) /\ UNCHANGED <<pending, told, sweeps, swept>>
    BY <1>13 DEF TrailingAnswered, InstallPlanned, JobAt, planVars
  <2>2. [job[c] EXCEPT !.step = "finish"] \in Jobs  BY <1>4, <2>1 DEF Jobs
  <2>3. job' = [job EXCEPT ![c] = [job[c] EXCEPT !.step = "finish"]]
    BY <2>1 DEF ToFinish, PTypeOK
  <2>4. QED  BY <1>2, <1>4, <1>5, <1>6, <2>1, <2>2, <2>3
<1>14. CASE FinishPlan(c)
  <2>1. job[c].order \in Orders  BY <1>4, <1>14 DEF FinishPlan, JobAt, Jobs
  <2>2. [pending EXCEPT ![job[c].order] = Null] \in [Orders -> Plans \cup {Null}]
    BY <1>6
  <2>3. pending' \in [Orders -> Plans \cup {Null}]
    BY <1>6, <1>14, <2>2, OutcomesType DEF FinishPlan
  <2>4. told' \in [Orders -> Nat]  BY <1>6, <1>14, <2>1 DEF FinishPlan
  <2>5. UNCHANGED <<sweeps, swept>> /\ job' = [job EXCEPT ![c] = Null]
    BY <1>14 DEF FinishPlan
  <2>6. QED  BY <1>2, <1>5, <1>6, <2>3, <2>4, <2>5
<1>15. QED
  BY <1>7, <1>8, <1>9, <1>10, <1>11, <1>12, <1>13, <1>14 DEF WsTask, WsOrderUpdate

\* Commands of the client, the exchange and the sweeps leave the ws tasks alone.
LEMMA OutsidePType ==
  ASSUME PInv,
         \/ \E c \in Conns : PlanCommand(c)
         \/ OrderMarket
         \/ \E w \in sweeps : SweepList(w)
         \/ \E w \in sweeps : \E o \in Orders : SweepCancel(w, o)
  PROVE  PTypeOK'
<1> USE DEF PInv
<1>1. CASE \E c \in Conns : PlanCommand(c)
  <2>1. UNCHANGED <<main, orders, job, swept, sweeps, told>>
    BY <1>1 DEF PlanCommand, CreatePendingAutostop, LoadForUpdate, SaveUpdate, CancelPendingAutostop,
                vars, wsVars
  <2>2. pending' \in [Orders -> Plans \cup {Null}]
    <3>1. ASSUME NEW o, NEW p \in Plans \cup {Null},
                 pending' \in PendingOutcomes([pending EXCEPT ![o] = p])
          PROVE  pending' \in [Orders -> Plans \cup {Null}]
      <4>1. [pending EXCEPT ![o] = p] \in [Orders -> Plans \cup {Null}]  BY DEF PTypeOK
      <4>2. QED  BY <3>1, <4>1, OutcomesType DEF PTypeOK
    <3>2. ASSUME NEW c \in Conns, SaveUpdate(c)
          PROVE  pending' \in [Orders -> Plans \cup {Null}]
      <4>1. edit[c].plan \in Plans  BY <3>2 DEF SaveUpdate, PTypeOK, Edits
      <4>2. QED  BY <3>1, <3>2, <4>1 DEF SaveUpdate
    <3>3. ASSUME NEW c \in Conns, NEW o \in Orders, NEW p \in Plans, LoadForUpdate(c, o, p)
          PROVE  pending' \in [Orders -> Plans \cup {Null}]
      BY <3>3 DEF LoadForUpdate, PTypeOK
    <3>4. QED
      BY <1>1, <3>1, <3>2, <3>3 DEF PlanCommand, CreatePendingAutostop, CancelPendingAutostop
  <2>3. created' \in [Orders -> Nat]
    <3>1. CASE created' = created  BY <3>1 DEF PTypeOK
    <3>2. ASSUME NEW o \in Orders, created' = [created EXCEPT ![o] = @ + 1]
          PROVE  created' \in [Orders -> Nat]
      BY <3>2 DEF PTypeOK
    <3>3. \A c \in Conns : edit[c] # Null => edit[c].order \in Orders  BY DEF PTypeOK, Edits
    <3>4. QED
      BY <1>1, <3>1, <3>2, <3>3
      DEF PlanCommand, CreatePendingAutostop, LoadForUpdate, SaveUpdate, CancelPendingAutostop
  <2>4. /\ edit' \in [Conns -> Edits \cup {Null}]
        /\ \A c \in Conns : edit'[c] # Null => main'[c] = "run"
    <3>1. CASE edit' = edit  BY <2>1, <3>1 DEF PTypeOK
    <3>2. ASSUME NEW c \in Conns, SaveUpdate(c)
          PROVE  edit' \in [Conns -> Edits \cup {Null}] /\ \A d \in Conns : edit'[d] # Null => edit'[d] = edit[d]
      BY <3>2 DEF SaveUpdate, PTypeOK
    <3>3. ASSUME NEW c \in Conns, NEW o \in Orders, NEW p \in Plans, LoadForUpdate(c, o, p)
          PROVE  /\ edit' \in [Conns -> Edits \cup {Null}]
                 /\ \A d \in Conns : edit'[d] # Null => edit'[d] = edit[d] \/ main[d] = "run"
      BY <3>3 DEF LoadForUpdate, PTypeOK, Edits
    <3>4. QED
      BY <1>1, <2>1, <3>1, <3>2, <3>3
      DEF PlanCommand, CreatePendingAutostop, CancelPendingAutostop, PTypeOK
  <2>5. QED  BY <2>1, <2>2, <2>3, <2>4 DEF PTypeOK, Up
<1>2. CASE OrderMarket
  <2>1. UNCHANGED <<main, pending, edit, job, swept, sweeps, created, told>>
    BY <1>2 DEF OrderMarket, PlaceLimitOrder, FillOrder, EndOrder, vars, wsVars
  <2>2. orders' \in [Orders -> {"none"} \cup Open \cup Ended]
    BY <1>2 DEF OrderMarket, PlaceLimitOrder, FillOrder, EndOrder, PTypeOK, Open, Ended
  <2>3. QED  BY <2>1, <2>2 DEF PTypeOK, Up
<1>3. ASSUME NEW w \in sweeps, SweepList(w)
      PROVE  PTypeOK'
  <2>1. UNCHANGED <<main, orders, pending, edit, job, swept, created, told>>
    BY <1>3 DEF SweepList, vars, wsVars
  <2>2. w \in Sweeps /\ OpenOrders(w.symbol) \subseteq Orders
    BY DEF PTypeOK, OpenOrders
  <2>3. [w EXCEPT !.listed = TRUE, !.left = OpenOrders(w.symbol)] \in Sweeps
    BY <2>2 DEF Sweeps
  <2>4. sweeps' \subseteq Sweeps  BY <1>3, <2>3 DEF SweepList, PTypeOK
  <2>5. QED  BY <2>1, <2>4 DEF PTypeOK, Up
<1>4. ASSUME NEW w \in sweeps, NEW o \in Orders, SweepCancel(w, o)
      PROVE  PTypeOK'
  <2>1. UNCHANGED <<main, pending, edit, job, swept, created, told>>
    BY <1>4 DEF SweepCancel, EndOrder, vars, wsVars
  <2>2. orders' \in [Orders -> {"none"} \cup Open \cup Ended]
    BY <1>4 DEF SweepCancel, EndOrder, PTypeOK, Ended
  <2>3. w \in Sweeps  BY DEF PTypeOK
  <2>4. [w EXCEPT !.left = @ \ {o}] \in Sweeps  BY <2>3 DEF Sweeps
  <2>5. sweeps' \subseteq Sweeps  BY <1>4, <2>4 DEF SweepCancel, PTypeOK
  <2>6. QED  BY <2>1, <2>2, <2>5 DEF PTypeOK, Up
<1>5. QED  BY <1>1, <1>2, <1>3, <1>4

LEMMA NextPType == PInv /\ [PNext]_pvars => PTypeOK'
<1> SUFFICES ASSUME PInv, [PNext]_pvars  PROVE PTypeOK'  OBVIOUS
<1>1. CASE PNext  BY <1>1, PlainPType, WsPType, OutsidePType DEF PNext, Plain
<1>2. CASE UNCHANGED pvars
  BY <1>2 DEF pvars, vars, planVars, wsVars, PInv, PTypeOK, Up
<1>3. QED  BY <1>1, <1>2

-----------------------------------------------------------------------------
(* A closed session hears nothing *)

\* Only open sessions are sent anything, and a session that closes loses what it had.
LEMMA DeafStep ==
  ASSUME PInv, Next
  PROVE  Deaf'
<1> USE DEF PInv, IInv
<1>1. SUFFICES ASSUME NEW d \in Conns
               PROVE  Up(d)' \/ feed'[d] = <<>> \/ (~Up(d) /\ feed'[d] = feed[d])
  BY <1>1 DEF Deaf
<1>2. ASSUME NEW s \in Symbols, Publish(s)
      PROVE  ~Up(d) => feed'[d] = feed[d]
  BY <1>2 DEF Publish, Listeners
<1>3. CASE Market
  <2>1. CASE \E s \in Symbols, side \in Sides, q \in 0 .. MaxQty : MovePosition(s, side, q)
    BY <1>2, <2>1 DEF MovePosition, Up
  <2>2. CASE \E c \in Conns, p \in Prices : MarketTrade(c, p)
    BY <2>2 DEF MarketTrade, marketVars, Up
  <2>3. QED  BY <1>3, <2>1, <2>2 DEF Market
<1>4. CASE Crash
  BY <1>4 DEF Crash, Drop
<1>5. CASE Tick
  BY <1>5 DEF Tick, marketVars, Up
<1>6. ASSUME NEW c \in Conns, Session(c)
      PROVE  Up(d)' \/ feed'[d] = <<>> \/ (~Up(d) /\ feed'[d] = feed[d])
  <2>1. CASE Disconnect(c)
    BY <2>1 DEF Disconnect, Drop, Up
  <2>2. CASE Connect(c) \/ Command(c) \/ ChartTake(c) \/ ChartApply(c)
    <3>1. feed' = feed /\ (main'[d] = "down" => main[d] = "down")
      BY <2>2 DEF Connect, Command, ActivityStop, InstallStop, CancelActivityStop, SubscribeChart,
                  UnsubscribeChart, ChartTake, ChartApply, marketVars, TypeOK
    <3>2. QED  BY <3>1 DEF Up
  <2>3. CASE WsPositionUpdate(c)
    <3>1. Up(c) /\ main' = main  BY <2>3 DEF WsPositionUpdate, Deaf
    <3>2. d # c => feed'[d] = feed[d]  BY <2>3 DEF WsPositionUpdate, TypeOK
    <3>3. QED  BY <3>1, <3>2 DEF Up
  <2>4. CASE Timer(c)
    <3>1. main'[d] = "down" => main[d] = "down"
      BY <2>4 DEF Timer, TimerExpire, GetPositionsOk, GetPositionsNone, PlaceOrderOk,
                  PlaceOrderLost, Execute, PlaceOrderRefused, CloseAnswered, TypeOK
    <3>2. CASE feed' = feed  BY <3>1, <3>2 DEF Up
    <3>3. ASSUME NEW a \in {"ackOk", "ackErr"}, Execute(c, a)
          PROVE  ~Up(d) => feed'[d] = feed[d]
      <4>1. quote[c] \in Reports  BY <3>3, ExecuteType
      <4>2. quote[c].key[1] \in Symbols  BY <4>1 DEF Reports, Keys
      <4>3. QED  BY <1>2, <3>3, <4>2 DEF Execute
    <3>4. CASE PlaceOrderOk(c) \/ PlaceOrderLost(c)
      BY <3>1, <3>3, <3>4 DEF PlaceOrderOk, PlaceOrderLost, Up
    <3>5. QED
      BY <2>4, <3>2, <3>4 DEF Timer, TimerExpire, GetPositionsOk, GetPositionsNone,
                              PlaceOrderRefused, CloseAnswered, marketVars
  <2>5. QED  BY <1>6, <2>1, <2>2, <2>3, <2>4 DEF Session
<1>7. QED  BY <1>3, <1>4, <1>5, <1>6 DEF Next

LEMMA NextDeaf == PInv /\ [PNext]_pvars => Deaf'
<1> SUFFICES ASSUME PInv, [PNext]_pvars  PROVE Deaf'  OBVIOUS
<1>1. CASE Next  BY <1>1, DeafStep
<1>2. CASE UNCHANGED vars \/ UNCHANGED pvars
  BY <1>2 DEF vars, pvars, PInv, Deaf, Up
<1>3. CASE OrderMoves
  <2>1. main' = main /\ \E events : Hear(events)
    BY <1>3 DEF OrderMoves, FillOrder, EndOrder
  <2>2. \A d \in Conns : ~Up(d) => feed'[d] = feed[d]
    BY <2>1 DEF Hear, Listeners
  <2>3. QED  BY <2>1, <2>2 DEF PInv, Deaf, Up
<1>4. ASSUME NEW c \in Conns, Takes(c) \/ InstallPlanned(c)
      PROVE  Deaf'
  <2>1. CASE Takes(c)
    <3>1. Take(c)
      BY <2>1 DEF Takes, StartTrailing, StartActivity, DropPlan, IgnoreUpdate
    <3>2. main' = main /\ Up(c) /\ \A d \in Conns : d # c => feed'[d] = feed[d]
      BY <3>1 DEF Take, PInv, Deaf, IInv, TypeOK
    <3>3. QED  BY <3>2 DEF PInv, Deaf, Up
  <2>2. CASE InstallPlanned(c)
    BY <2>2 DEF InstallPlanned, marketVars, PInv, Deaf, Up
  <2>3. QED  BY <1>4, <2>1, <2>2
<1>5. QED  BY <1>1, <1>2, <1>3, <1>4, StepKinds

LEMMA InitPInv == PInit => PInv
<1> SUFFICES ASSUME PInit PROVE PInv  OBVIOUS
<1>1. IInv  BY InitIInv DEF PInit
<1>2. PTypeOK  BY OrdersAssumption DEF PInit, PTypeOK
<1>3. Deaf  BY DEF PInit, Init, Deaf
<1>4. QED  BY <1>1, <1>2, <1>3 DEF PInv

LEMMA NextPInv == PInv /\ [PNext]_pvars => PInv'
  BY NextStopInv, NextPType, NextDeaf DEF PInv

-----------------------------------------------------------------------------
(* The theorems *)

LEMMA PInductive == PSpec => []PInv
  BY InitPInv, NextPInv, PTL DEF PSpec

\* Plans, orders, the order updates the ws tasks are in the middle of and the sweeps stay well
\* typed, and a session that closes takes its ws task along, in whatever await it is
\* (server.rs:245-418, 742-751).
THEOREM PlansTypeCorrect == PSpec => []PTypeOK
<1>1. PInv => PTypeOK  BY DEF PInv
<1>2. QED  BY <1>1, PInductive, PTL

\* Also with limit orders, plans and sweeps about, the stop that fires is held still over its
\* awaits: a plan that arms a stop waits for the guard like everybody else
\* (server.rs:314-326, 622-735).
THEOREM GuardHoldsWithPlans == PSpec => []FiringIsHeld
<1>1. PInv => FiringIsHeld  BY DEF PInv, IInv
<1>2. QED  BY <1>1, PInductive, PTL

\* Also then a close order only reduces the position of its own symbol (server.rs:653-685).
THEOREM CloseReducesWithPlans == PSpec => CloseOnlyReduces
<1> DEFINE A == \A c \in Conns : main[c] = "close" /\ main'[c] # "close" =>
                  \A k \in Keys : /\ pos'[k] <= pos[k]
                                  /\ k[1] # stop[c].key[1] => pos'[k] = pos[k]
<1>1. PInv /\ [PNext]_pvars => [A]_vars
  <2> SUFFICES ASSUME PInv, [PNext]_pvars, ~UNCHANGED vars  PROVE A  OBVIOUS
  <2>1. CASE Next  BY <2>1, CloseStepReduces DEF PInv
  <2>2. CASE main' = main  BY <2>2
  <2>3. PNext  BY DEF pvars
  <2>4. QED
    BY <2>1, <2>2, <2>3, StepKinds
    DEF OrderMoves, FillOrder, EndOrder, Takes, StartTrailing, StartActivity, DropPlan, IgnoreUpdate,
        Take, InstallPlanned
<1>2. QED  BY <1>1, PInductive, PTL DEF PSpec, CloseOnlyReduces

\* Also a stop armed by a plan has its trigger on record as it was asked for, and as not yet
\* fired (server.rs:290-312, 499-515).
THEOREM TriggerNotOnRecordWithPlans == PSpec => []TriggerNotPersisted
<1>1. PInit => TriggerNotPersisted
  BY DEF PInit, Init, TriggerNotPersisted
<1>2. PInv /\ TriggerNotPersisted /\ [PNext]_pvars => TriggerNotPersisted'
  <2> SUFFICES ASSUME PInv, TriggerNotPersisted, [PNext]_pvars  PROVE TriggerNotPersisted'
    OBVIOUS
  <2>1. CASE [Next]_vars  BY <2>1, RecordStep DEF PInv
  <2>2. CASE db' = db  BY <2>2 DEF TriggerNotPersisted
  <2>3. ASSUME NEW c \in Conns, StartActivity(c)  PROVE TriggerNotPersisted'
    <3> DEFINE o == Head(feed[c]).order
               s == NewStop(arms + 1, OrderKey[o], pending[o].timeout, pending[o].trigger)
    <3>1. s \in Stops /\ Register(s) /\ (s.active <=> s.trigger = NoPrice)
      BY <2>3, PlannedStop
    <3> HIDE DEF s
    <3>2. db' \in {db, [db EXCEPT ![s.key] = s]}
      BY <3>1 DEF Register, SaveActivityStop, DbOutcomes
    <3>3. QED  BY <3>1, <3>2 DEF TriggerNotPersisted, PInv, IInv, TypeOK
  <2>4. CASE UNCHANGED pvars  BY <2>1, <2>4 DEF pvars
  <2>5. QED
    BY <2>1, <2>2, <2>3, <2>4, StepKinds
    DEF OrderMoves, FillOrder, EndOrder, Takes, StartTrailing, DropPlan, IgnoreUpdate, InstallPlanned
<1>3. QED  BY <1>1, <1>2, PInductive, PTL DEF PSpec

-----------------------------------------------------------------------------
(* Plans are reported once *)

\* The sessions of one client, and no transaction that fails: a row that could not be deleted
\* is carried out again with the next fill, and two sessions that hear of the same fill both
\* carry it out.
OneReader == ~DbFails /\ \A c, d \in Conns : c = d

\* A plan on record or being carried out is one that has not been reported.
Owed(o) == pending[o] # Null \/ \E c \in Conns : job[c] # Null /\ job[c].order = o
ToldInv ==
  \A o \in Orders : told[o] <= created[o] /\ (Owed(o) => told[o] < created[o])

\* Nothing is told and no plan is added by most steps.
LEMMA ToldKept ==
  ASSUME ToldInv, UNCHANGED <<created, told>>, \A o \in Orders : Owed(o)' => Owed(o)
  PROVE  ToldInv'
  BY DEF ToldInv

LEMMA ToldByTask ==
  ASSUME OneReader, PInv, ToldInv, NEW c \in Conns, WsTask(c)
  PROVE  ToldInv'
<1> USE DEF PInv, PTypeOK
<1>1. \A d \in Conns : d = c  BY DEF OneReader
<1>2. CASE FinishPlan(c)
  <2> DEFINE o == job[c].order
  <2>1. job[c] # Null /\ o \in Orders /\ job'[c] = Null
    BY <1>2 DEF FinishPlan, JobAt, Jobs
  <2>2. pending' = [pending EXCEPT ![o] = Null] /\ told' = [told EXCEPT ![o] = @ + 1]
        /\ created' = created
    BY <1>2 DEF FinishPlan, PendingOutcomes, OneReader
  <2>3. told[o] < created[o] /\ told[o] \in Nat /\ created[o] \in Nat
    BY <2>1, OrdersAssumption DEF ToldInv, Owed
  <2>4. ASSUME NEW q \in Orders
        PROVE  told'[q] <= created'[q] /\ (Owed(q)' => told'[q] < created'[q])
    <3>1. \A d \in Conns : job'[d] = Null  BY <1>1, <2>1
    <3>2. CASE q = o
      <4>1. ~Owed(q)'  BY <2>1, <2>2, <3>1, <3>2 DEF Owed
      <4>2. told'[q] = told[q] + 1  BY <2>1, <2>2, <3>2
      <4>3. QED  BY <2>2, <2>3, <3>2, <4>1, <4>2
    <3>3. CASE q # o
      BY <2>2, <3>1, <3>3 DEF Owed, ToldInv
    <3>4. QED  BY <3>2, <3>3
  <2>5. QED  BY <2>4 DEF ToldInv
<1>3. CASE StartTrailing(c) \/ StartActivity(c)
  <2> DEFINE o == Head(feed[c]).order
  <2>1. /\ pending[o] # Null
        /\ job'[c] # Null => job'[c].order = o
        /\ UNCHANGED <<pending, created, told>>
    BY <1>3 DEF StartTrailing, StartActivity, planVars
  <2>2. ASSUME NEW q \in Orders, Owed(q)'  PROVE Owed(q)
    <3>1. CASE pending'[q] # Null  BY <2>1, <3>1 DEF Owed
    <3>2. ASSUME NEW d \in Conns, job'[d] # Null, job'[d].order = q  PROVE Owed(q)
      <4>1. q = o  BY <1>1, <2>1, <3>2
      <4>2. QED  BY <2>1, <4>1 DEF Owed
    <3>3. QED  BY <2>2, <3>1, <3>2 DEF Owed
  <2>3. QED  BY <2>1, <2>2, ToldKept
<1>4. CASE DropPlan(c)
  <2>1. /\ pending' = [pending EXCEPT ![Head(feed[c]).order] = Null]
        /\ UNCHANGED <<job, created, told>>
    BY <1>4 DEF DropPlan, PendingOutcomes, OneReader
  <2>2. \A q \in Orders : pending'[q] # Null => pending[q] # Null  BY <2>1
  <2>3. QED  BY <2>1, <2>2, ToldKept DEF Owed
<1>5. CASE TrailingAnswered(c) \/ InstallPlanned(c)
  <2>1. job[c] # Null /\ job'[c].order = job[c].order /\ UNCHANGED <<pending, created, told>>
    <3>1. job[c] \in Jobs /\ job[c] # Null
      BY <1>5 DEF TrailingAnswered, InstallPlanned, JobAt
    <3>2. job'[c] = [job[c] EXCEPT !.step = "finish"]
      BY <1>5 DEF TrailingAnswered, InstallPlanned, ToFinish
    <3>3. job'[c].order = job[c].order  BY <3>1, <3>2 DEF Jobs
    <3>4. QED  BY <1>5, <3>1, <3>3 DEF TrailingAnswered, InstallPlanned, planVars
  <2>2. \A q \in Orders : Owed(q)' => Owed(q)  BY <1>1, <2>1 DEF Owed
  <2>3. QED  BY <2>1, <2>2, ToldKept
<1>6. CASE SpawnSweep(c) \/ PositionUpdate(c) \/ IgnoreUpdate(c)
  <2>1. UNCHANGED <<pending, job, created, told>>
    BY <1>6 DEF SpawnSweep, PositionUpdate, IgnoreUpdate, planVars
  <2>2. QED  BY <2>1, ToldKept DEF Owed
<1>7. QED  BY <1>2, <1>3, <1>4, <1>5, <1>6 DEF WsTask, WsOrderUpdate

LEMMA ToldByCommand ==
  ASSUME OneReader, PInv, ToldInv, NEW c \in Conns, PlanCommand(c)
  PROVE  ToldInv'
<1> USE DEF PInv, PTypeOK
<1>1. UNCHANGED <<job, told>>
  BY DEF PlanCommand, CreatePendingAutostop, LoadForUpdate, SaveUpdate, CancelPendingAutostop, wsVars
<1>2. ASSUME NEW o \in Orders, NEW p \in Plans, created' = [created EXCEPT ![o] = @ + 1],
             pending' = [pending EXCEPT ![o] = p]
      PROVE  ToldInv'
  <2>1. created' = [created EXCEPT ![o] = @ + 1] /\ pending' = [pending EXCEPT ![o] = p]
    BY <1>2
  <2>2. ASSUME NEW q \in Orders
        PROVE  told'[q] <= created'[q] /\ (Owed(q)' => told'[q] < created'[q])
    <3>1. told[q] \in Nat /\ created[q] \in Nat /\ told[q] <= created[q]
      BY OrdersAssumption DEF ToldInv
    <3>2. CASE q = o
      <4>1. created'[q] = created[q] + 1  BY <2>1, <3>2
      <4>2. QED  BY <1>1, <3>1, <4>1
    <3>3. CASE q # o
      <4>1. created'[q] = created[q] /\ pending'[q] = pending[q]  BY <2>1, <3>3
      <4>2. Owed(q)' => Owed(q)  BY <1>1, <4>1 DEF Owed
      <4>3. QED  BY <1>1, <4>1, <4>2 DEF ToldInv
    <3>4. QED  BY <3>2, <3>3
  <2>3. QED  BY <2>2 DEF ToldInv
<1>3. ASSUME NEW o \in Orders, NEW p \in Plans \cup {Null}, created' = created,
             p # Null => pending[o] # Null,
             pending' \in PendingOutcomes([pending EXCEPT ![o] = p])
      PROVE  ToldInv'
  <2>1. pending' = [pending EXCEPT ![o] = p]  BY <1>3 DEF PendingOutcomes, OneReader
  <2>2. \A q \in Orders : pending'[q] # Null => pending[q] # Null  BY <1>3, <2>1
  <2>3. QED  BY <1>1, <1>3, <2>2, ToldKept DEF Owed
<1>4. ASSUME NEW o \in Orders, NEW p \in Plans, LoadForUpdate(c, o, p)
      PROVE  ToldInv'
  BY <1>1, <1>4, ToldKept DEF LoadForUpdate, Owed
<1>6. ASSUME SaveUpdate(c)
      PROVE  ToldInv'
  <2> DEFINE o == edit[c].order
             p == edit[c].plan
  <2>1. o \in Orders /\ p \in Plans  BY <1>6 DEF SaveUpdate, Edits
  <2>2. CASE pending[o] = Null
    <3>1. created' = [created EXCEPT ![o] = @ + 1] /\ pending' = [pending EXCEPT ![o] = p]
      BY <1>6, <2>2 DEF SaveUpdate, PendingOutcomes, OneReader
    <3>2. QED  BY <1>2, <2>1, <3>1
  <2>3. CASE pending[o] # Null
    BY <1>3, <1>6, <2>1, <2>3 DEF SaveUpdate
  <2>4. QED  BY <2>2, <2>3
<1>5. ASSUME NEW o \in Orders, CancelPendingAutostop(c, o)
      PROVE  ToldInv'
  BY <1>3, <1>5 DEF CancelPendingAutostop
<1>7. ASSUME NEW o \in Orders, NEW p \in Plans, CreatePendingAutostop(c, o, p)
      PROVE  ToldInv'
  BY <1>2, <1>7 DEF CreatePendingAutostop, PendingOutcomes, OneReader
<1>8. QED  BY <1>4, <1>5, <1>6, <1>7 DEF PlanCommand

LEMMA NextTold ==
  ASSUME OneReader
  PROVE  PInv /\ ToldInv /\ [PNext]_pvars => ToldInv'
<1> SUFFICES ASSUME PInv, ToldInv, [PNext]_pvars  PROVE ToldInv'  OBVIOUS
<1>1. CASE Plain \/ ServerCrash
  <2>1. AbortWsTasks /\ UNCHANGED <<pending, created, told>>
    BY <1>1 DEF Plain, PlainStep, TimerStep, ServerCrash, planVars
  <2>2. \A d \in Conns : job'[d] # Null => job'[d] = job[d]  BY <2>1 DEF AbortWsTasks
  <2>3. \A o \in Orders : Owed(o)' => Owed(o)  BY <2>1, <2>2 DEF Owed
  <2>4. QED  BY <2>1, <2>3, ToldKept
<1>2. CASE TimePasses
  <2>1. UNCHANGED <<pending, created, told>>  BY <1>2 DEF TimePasses, planVars
  <2>2. ASSUME NEW d \in Conns, job'[d] # Null
        PROVE  job[d] # Null /\ job'[d].order = job[d].order
    <3>1. job[d] # Null  BY <1>2, <2>2 DEF TimePasses
    <3>2. job[d] \in Jobs /\ job'[d] = [job[d] EXCEPT !.stop = Aged(@)]
      BY <1>2, <3>1 DEF TimePasses, PInv, PTypeOK
    <3>3. QED  BY <3>1, <3>2 DEF Jobs
  <2>3. \A o \in Orders : Owed(o)' => Owed(o)  BY <2>1, <2>2 DEF Owed
  <2>4. QED  BY <2>1, <2>3, ToldKept
<1>3. CASE \E c \in Conns : WsTask(c)  BY <1>3, ToldByTask
<1>4. CASE \E c \in Conns : PlanCommand(c)  BY <1>4, ToldByCommand
<1>5. CASE \/ OrderMarket
           \/ \E w \in sweeps : SweepList(w)
           \/ \E w \in sweeps : \E o \in Orders : SweepCancel(w, o)
           \/ UNCHANGED pvars
  <2>1. UNCHANGED <<pending, job, created, told>>
    BY <1>5 DEF OrderMarket, PlaceLimitOrder, FillOrder, EndOrder, SweepList, SweepCancel, wsVars,
                planVars, pvars
  <2>2. QED  BY <2>1, ToldKept DEF Owed
<1>6. QED  BY <1>1, <1>2, <1>3, <1>4, <1>5 DEF PNext, Plain

\* Each time a plan was put into the table, by a create or by an update that found it gone when
\* it saved (client_handler.rs:194-205), it is reported activated at most once, however many
\* fills its order has and wherever the session that carries it out is cut off, also by a crash
\* (server.rs:246-339).
THEOREM ToldOnce ==
  ASSUME OneReader
  PROVE  PSpec => []ToldOncePerPlan
<1>1. PInit => ToldInv
  <2> SUFFICES ASSUME PInit  PROVE ToldInv  OBVIOUS
  <2>1. \A o \in Orders : ~Owed(o) /\ told[o] = 0 /\ created[o] = 0
    BY DEF PInit, Owed
  <2>2. QED  BY <2>1 DEF ToldInv
<1>2. ToldInv => ToldOncePerPlan  BY DEF ToldInv, ToldOncePerPlan
<1>3. QED  BY <1>1, <1>2, NextTold, PInductive, PTL DEF PSpec
=============================================================================
