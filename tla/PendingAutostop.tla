--------------------------- MODULE PendingAutostop ---------------------------
(***************************************************************************)
(* Autostops that wait for a limit order to fill, on top of the activity   *)
(* stop of PanicStop.                                                      *)
(*                                                                         *)
(* The client writes a plan for an order into the PENDING_AUTOSTOPS table; *)
(* the ws task of a session that hears of a fill carries the plan out, at  *)
(* the exchange (trailing stop) or in the session's Mutex (activity stop), *)
(* deletes it and tells the client.  A position update of size zero makes  *)
(* the ws task spawn a sweep that cancels the limit orders of the symbol.  *)
(*                                                                         *)
(* The ws task handles one event at a time: while it awaits inside an      *)
(* order update (job), the position updates behind it wait.                *)
(***************************************************************************)
EXTENDS PanicStop

CONSTANTS
  Orders,    \* limit orders
  OrderKey,  \* symbol and side of the position each of them opens
  MaxPlans   \* bound: plans created for an order; an update may put one more back

Open   == {"new", "partial"}
Ended  == {"filled", "cancelled", "rejected"}
Plans  == [kind: {"trailing", "activity"}, timeout: Timeouts, trigger: Prices \cup {NoPrice}]
Jobs   == [order: Orders, plan: Plans, step: {"trail", "install", "finish"},
           stop: Stops \cup {Null}]
Edits  == [order: Orders, plan: Plans]
Sweeps == [symbol: Symbols, listed: BOOLEAN, left: SUBSET Orders]

ASSUME OrdersAssumption ==
  /\ OrderKey \in [Orders -> Keys]
  /\ OrderEvents = [order: Orders, status: {"partial"} \cup Ended]
  /\ MaxPlans \in Nat

VARIABLES
  orders,   \* the orders at the exchange
  pending,  \* PENDING_AUTOSTOPS table
  job,      \* order update the ws task of a session is in the middle of
  swept,    \* has the sweep of the position update at the head been spawned?
  sweeps,   \* spawned cancellations of limit orders
  edit,     \* update of a plan a session has loaded and not yet saved
  created,  \* history: plans put into the table for each order
  told      \* history: PendingAutostopActivated messages for each order

planVars == <<orders, pending, edit, sweeps, created, told>>
wsVars   == <<job, swept>>
pvars == <<vars, planVars, wsVars>>

PInit ==
  /\ Init
  /\ orders   = [o \in Orders |-> "none"]
  /\ pending  = [o \in Orders |-> Null]
  /\ job      = [c \in Conns |-> Null]
  /\ swept    = [c \in Conns |-> FALSE]
  /\ sweeps   = {}
  /\ edit     = [c \in Conns |-> Null]
  /\ created  = [o \in Orders |-> 0]
  /\ told     = [o \in Orders |-> 0]

-----------------------------------------------------------------------------
(* Steps of PanicStop *)

\* Closing a session aborts its ws task at whatever await it is in.
MutAbortWsTasks == UNCHANGED wsVars
AbortWsTasks ==
  /\ job'   = [c \in Conns |-> IF Up(c)' THEN job[c] ELSE Null]
  /\ swept' = [c \in Conns |-> Up(c)' /\ swept[c]]

\* Bound: client requests leave an id for every fill still to come.
IdsLeft == arms' = arms \/ arms' + 2 * Cardinality(Orders) <= MaxArms

\* The select loop does nothing else while it updates a plan.
TimerStep(c) ==
  /\ edit[c] = Null
  /\ Timer(c)
  /\ AbortWsTasks
  /\ UNCHANGED planVars

PlainStep ==
  /\ \/ \E c \in Conns : \/ Connect(c)
                         \/ edit[c] = Null /\ Disconnect(c)
                         \/ edit[c] = Null /\ Command(c) /\ IdsLeft
                         \/ ChartTake(c)
                         \/ ChartApply(c)
     \/ Market
  /\ AbortWsTasks
  /\ UNCHANGED planVars

TimePasses ==
  /\ Tick
  /\ job' = [c \in Conns |-> IF job[c] = Null THEN Null
                             ELSE [job[c] EXCEPT !.stop = Aged(@)]]
  /\ UNCHANGED <<planVars, swept>>

ServerCrash ==
  /\ Crash
  /\ AbortWsTasks
  /\ sweeps' = {}
  /\ edit' = [c \in Conns |-> Null]
  /\ UNCHANGED <<orders, pending, created, told>>

\* A closed position starts a sweep, before the ws task asks for the Mutex;
\* sweeps outlive their session.
SpawnSweep(c) ==
  /\ job[c] = Null /\ ~swept[c]
  /\ feed[c] # <<>>
  /\ Head(feed[c]) \in Reports /\ Head(feed[c]).qty = 0
  /\ sweeps' = sweeps \cup {[symbol |-> Head(feed[c]).key[1], listed |-> FALSE, left |-> {}]}
  /\ swept' = [swept EXCEPT ![c] = TRUE]
  /\ UNCHANGED <<vars, orders, pending, edit, created, told, job>>

PositionUpdate(c) ==
  /\ job[c] = Null
  /\ WsPositionUpdate(c)
  /\ swept[c] \/ Head(feed[c]).qty > 0
  /\ swept' = [swept EXCEPT ![c] = FALSE]
  /\ UNCHANGED <<planVars, job>>

-----------------------------------------------------------------------------
(* Client commands *)

PendingOutcomes(d) == IF DbFails THEN {pending, d} ELSE {d}

\* The client asks once the exchange has answered the order, which by then
\* may be filled or gone.
CreatePendingAutostop(c, o, p) ==
  /\ main[c] = "run" /\ edit[c] = Null
  /\ orders[o] # "none"
  /\ created[o] < MaxPlans
  /\ pending' \in PendingOutcomes([pending EXCEPT ![o] = p])
  /\ created' = [created EXCEPT ![o] = @ + 1]
  /\ UNCHANGED <<vars, orders, wsVars, edit, sweeps, told>>

\* An update loads the plan in one transaction and saves its own in another.
\* Nothing is locked in between: ws tasks and other sessions go on.
LoadForUpdate(c, o, p) ==
  /\ main[c] = "run" /\ edit[c] = Null
  /\ pending[o] # Null
  /\ created[o] <= MaxPlans
  /\ edit' = [edit EXCEPT ![c] = [order |-> o, plan |-> p]]
  /\ UNCHANGED <<vars, orders, pending, wsVars, sweeps, created, told>>

\* The save does not look again: a plan that was carried out or cancelled
\* meanwhile is put back into the table.
SaveUpdate(c) ==
  /\ edit[c] # Null
  /\ LET o == edit[c].order
     IN  /\ pending' \in PendingOutcomes([pending EXCEPT ![o] = edit[c].plan])
         /\ created' = IF pending[o] = Null THEN [created EXCEPT ![o] = @ + 1] ELSE created
  /\ edit' = [edit EXCEPT ![c] = Null]
  /\ UNCHANGED <<vars, orders, wsVars, sweeps, told>>

CancelPendingAutostop(c, o) ==
  /\ main[c] = "run" /\ edit[c] = Null
  /\ pending' \in PendingOutcomes([pending EXCEPT ![o] = Null])
  /\ UNCHANGED <<vars, orders, wsVars, edit, sweeps, created, told>>

-----------------------------------------------------------------------------
(* The exchange *)

Hear(events) ==
  \E heard \in (IF FeedLossy THEN SUBSET Listeners ELSE {Listeners}) :
    /\ \A c \in heard : Len(feed[c]) + Len(events) <= MaxQueue
    /\ feed' = [c \in Conns |-> IF c \in heard THEN feed[c] \o events ELSE feed[c]]

Update(o) == [order |-> o, status |-> orders'[o]]

PlaceLimitOrder(o) ==
  /\ orders[o] = "none"
  /\ orders' = [orders EXCEPT ![o] = "new"]
  /\ UNCHANGED <<vars, pending, wsVars, edit, sweeps, created, told>>

\* A fill grows the position; the two updates come in either order.
FillOrder(o, status) ==
  /\ orders[o] \in Open
  /\ orders[o] # status
  /\ orders' = [orders EXCEPT ![o] = status]
  /\ \E q \in 1 .. MaxQty : pos' = [pos EXCEPT ![OrderKey[o]] = q]
  /\ \E up \in {<<Update(o), Report(pos', OrderKey[o][1])>>,
                <<Report(pos', OrderKey[o][1]), Update(o)>>} : Hear(up)
  /\ UNCHANGED <<db, main, stop, arm, quote, chartVars, historyVars,
                 pending, wsVars, edit, sweeps, created, told>>

EndOrder(o, status) ==
  /\ orders[o] \in Open
  /\ orders' = [orders EXCEPT ![o] = status]
  /\ Hear(<<Update(o)>>)
  /\ UNCHANGED <<pos, db, main, stop, arm, quote, chartVars, historyVars>>

-----------------------------------------------------------------------------
(* The ws task: order updates *)

Take(c) ==
  /\ feed[c] # <<>>
  /\ job[c] = Null
  /\ Head(feed[c]) \in OrderEvents
  /\ feed' = [feed EXCEPT ![c] = Tail(@)]
  /\ UNCHANGED <<pos, main, stop, arm, quote, chartVars, swept>>

Fills(e) == e.status \in {"partial", "filled"}

\* A fill of an order with a trailing plan: the plan is carried out from the
\* copy just read, the row stays until the end.
StartTrailing(c) ==
  /\ Take(c)
  /\ LET o == Head(feed[c]).order
     IN  /\ Fills(Head(feed[c])) /\ pending[o] # Null /\ pending[o].kind = "trailing"
         /\ job' = [job EXCEPT ![c] = [order |-> o, plan |-> pending[o],
                                       step |-> "trail", stop |-> Null]]
  /\ UNCHANGED <<db, historyVars, planVars>>

\* ... with an activity plan: the stop's row is written first.
StartActivity(c) ==
  /\ Take(c)
  /\ arms < MaxArms
  /\ LET o == Head(feed[c]).order
         s == NewStop(arms + 1, OrderKey[o], pending[o].timeout, pending[o].trigger)
     IN  /\ Fills(Head(feed[c])) /\ pending[o] # Null /\ pending[o].kind = "activity"
         /\ Register(s)
         /\ job' = [job EXCEPT ![c] = [order |-> o, plan |-> pending[o],
                                       step |-> "install", stop |-> s]]
  /\ UNCHANGED planVars

\* A cancelled order takes its plan along; a rejected one does not.
MutDropPlan(c) ==
  /\ Take(c)
  /\ Head(feed[c]).status = "cancelled"
  /\ pending[Head(feed[c]).order] # Null
  /\ UNCHANGED <<db, historyVars, planVars, job>>
DropPlan(c) ==
  /\ Take(c)
  /\ LET e == Head(feed[c])
     IN  /\ e.status = "cancelled" /\ pending[e.order] # Null
         /\ pending' \in PendingOutcomes([pending EXCEPT ![e.order] = Null])
  /\ UNCHANGED <<db, historyVars, orders, edit, sweeps, created, told, job>>

\* Nothing to do, or the plan could not be read.
IgnoreUpdate(c) ==
  /\ Take(c)
  /\ \/ Head(feed[c]).status = "rejected"
     \/ pending[Head(feed[c]).order] = Null
     \/ DbFails
  /\ UNCHANGED <<db, historyVars, planVars, job>>

JobAt(c, step) == job[c] # Null /\ job[c].step = step
ToFinish(c) == job' = [job EXCEPT ![c].step = "finish"]

\* set_trailing_stop: taken by the exchange or refused, which is logged; the plan goes on alike.
TrailingAnswered(c) ==
  /\ JobAt(c, "trail")
  /\ ToFinish(c)
  /\ UNCHANGED <<vars, orders, pending, edit, sweeps, created, told, swept>>

InstallPlanned(c) ==
  /\ JobAt(c, "install")
  /\ MutexFree(c)
  /\ stop' = [stop EXCEPT ![c] = job[c].stop]
  /\ ToFinish(c)
  /\ UNCHANGED <<db, main, arm, quote, marketVars, chartVars, historyVars,
                 planVars, swept>>

\* The row is deleted and the client told, whatever became of the plan.
MutFinishPlan(c) ==
  /\ JobAt(c, "finish")
  /\ job'  = [job EXCEPT ![c] = Null]
  /\ told' = [told EXCEPT ![job[c].order] = @ + 1]
  /\ UNCHANGED <<vars, orders, pending, edit, sweeps, created, swept>>
FinishPlan(c) ==
  /\ JobAt(c, "finish")
  /\ LET o == job[c].order
     IN  /\ pending' \in PendingOutcomes([pending EXCEPT ![o] = Null])
         /\ told'    = [told EXCEPT ![o] = @ + 1]
  /\ job' = [job EXCEPT ![c] = Null]
  /\ UNCHANGED <<vars, orders, edit, sweeps, created, swept>>

-----------------------------------------------------------------------------
(* Sweeps *)

OpenOrders(s) == {o \in Orders : orders[o] \in Open /\ OrderKey[o][1] = s}

\* get_orders answers, or fails and ends the sweep.
SweepList(w) ==
  /\ ~w.listed
  /\ \/ sweeps' = (sweeps \ {w}) \cup
                    (IF OpenOrders(w.symbol) = {} THEN {}
                     ELSE {[w EXCEPT !.listed = TRUE, !.left = OpenOrders(w.symbol)]})
     \/ sweeps' = sweeps \ {w}
  /\ UNCHANGED <<vars, orders, pending, wsVars, edit, created, told>>

\* cancel_order for one listed order: by now it may have filled, or the
\* request fails; the sweep goes on either way.
SweepCancel(w, o) ==
  /\ w.listed
  /\ o \in w.left
  /\ sweeps' = (sweeps \ {w}) \cup
                 (IF w.left = {o} THEN {} ELSE {[w EXCEPT !.left = @ \ {o}]})
  /\ EndOrder(o, "cancelled") \/ UNCHANGED <<vars, orders>>
  /\ UNCHANGED <<pending, wsVars, edit, created, told>>

-----------------------------------------------------------------------------
WsOrderUpdate(c) ==
  \/ StartTrailing(c)
  \/ StartActivity(c)
  \/ DropPlan(c)
  \/ IgnoreUpdate(c)
  \/ TrailingAnswered(c)
  \/ InstallPlanned(c)
  \/ FinishPlan(c)

WsTask(c) == SpawnSweep(c) \/ PositionUpdate(c) \/ WsOrderUpdate(c)

PlanCommand(c) ==
  \/ \E o \in Orders : \/ \E p \in Plans : CreatePendingAutostop(c, o, p)
                       \/ \E p \in Plans : LoadForUpdate(c, o, p)
                       \/ CancelPendingAutostop(c, o)
  \/ SaveUpdate(c)

OrderMarket ==
  \E o \in Orders :
    \/ PlaceLimitOrder(o)
    \/ \E status \in {"partial", "filled"} : FillOrder(o, status)
    \/ \E status \in {"cancelled", "rejected"} :
         EndOrder(o, status) /\ UNCHANGED <<pending, wsVars, edit, sweeps, created, told>>

PNext ==
  \/ PlainStep
  \/ \E c \in Conns : TimerStep(c)
  \/ TimePasses
  \/ ServerCrash
  \/ \E c \in Conns : WsTask(c)
  \/ \E c \in Conns : PlanCommand(c)
  \/ OrderMarket
  \/ \E w \in sweeps : SweepList(w)
  \/ \E w \in sweeps : \E o \in Orders : SweepCancel(w, o)

PSpec == PInit /\ [][PNext]_pvars

\* The ws task of an open session runs, the timer lets go of the Mutex and a
\* command that was begun is carried through.
PFairSpec ==
  /\ PSpec
  /\ \A c \in Conns : /\ WF_pvars(WsTask(c))
                      /\ WF_pvars(TimerStep(c))
                      /\ WF_pvars(SaveUpdate(c))

-----------------------------------------------------------------------------
(* Properties *)

\* Type invariant of what this module adds; only an open session has a ws
\* task, and it updates a plan only where it takes commands.
PTypeOK ==
  /\ orders   \in [Orders -> {"none"} \cup Open \cup Ended]
  /\ pending  \in [Orders -> Plans \cup {Null}]
  /\ job      \in [Conns -> Jobs \cup {Null}]
  /\ swept    \in [Conns -> BOOLEAN]
  /\ \A c \in Conns : ~Up(c) => job[c] = Null /\ ~swept[c]
  /\ sweeps   \subseteq Sweeps
  /\ edit     \in [Conns -> Edits \cup {Null}]
  /\ \A c \in Conns : edit[c] # Null => main[c] = "run"
  /\ created  \in [Orders -> Nat]
  /\ told     \in [Orders -> Nat]

\* Each time a plan was put into the table it is reported activated at most
\* once, however many fills its order has and wherever the session that
\* carries it out is cut off.  An update that loaded the plan before it was
\* carried out puts one into the table, too.
ToldOncePerPlan == \A o \in Orders : told[o] <= created[o]

\* An update that ends the wait of a plan and has reached the session's queue
\* is acted on: the plan leaves the table, unless the session closes first.
Settles(e, o) == e \in OrderEvents /\ e.order = o /\ e.status # "rejected"
HeardUpdateSettles ==
  \A c \in Conns, o \in Orders :
    (pending[o] # Null /\ \E i \in DOMAIN feed[c] : Settles(feed[c][i], o))
      ~> (pending[o] = Null \/ ~Up(c))

=============================================================================
