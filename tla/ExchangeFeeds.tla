---------------------------- MODULE ExchangeFeeds ----------------------------
(***************************************************************************)
(* The streams a session opens at the exchange                             *)
(* (src/server/src/binance/ws.rs, bybit/ws.rs, exchange.rs, server.rs).    *)
(*                                                                         *)
(*   exchange --> feed --buffer--> converter --inbox--> task of the session *)
(*                                                                         *)
(* One feed carries the events of the account for as long as the server    *)
(* runs; one feed carries the chart of the subscribed symbol and is        *)
(* aborted when the client subscribes to another.  A feed reconnects for   *)
(* ever, each wait twice the one before.  Channels are bounded and their   *)
(* senders wait.  feeds[1] is the account's, the others are chart feeds in *)
(* the order of subscription.                                              *)
(***************************************************************************)
EXTENDS Integers, Sequences

CONSTANTS Symbols,
          Account,          \* what the private feed is about; not a symbol
          Null,
          Cap,              \* capacity of buffer and inbox (100 in the code)
          BaseDelay, MaxDelay,
          MaxSubscriptions, \* chart subscriptions in a behaviour
          MaxEvents,        \* events of the account, and of each chart feed
          Loads             \* attempts of a feed of either kind that are answered

ASSUME FeedAssumption ==
    /\ Account \notin Symbols /\ Null \notin Symbols
    /\ {Cap, BaseDelay, MaxDelay} \subseteq Nat \ {0}
    /\ {MaxSubscriptions, MaxEvents} \subseteq Nat
    /\ Loads \subseteq [account : Nat, chart : Nat]
    /\ BaseDelay <= MaxDelay

VARIABLES load,     \* the load of this behaviour
          session,  \* "open" or "ended"
          chart,    \* chart_symbol: what the session takes trades to be of
          feeds,    \* [of, task, delay, tries, buffer, read, helpers]
          inbox,    \* [account, chart]: the channels to the two tasks of the session
          hand,     \* the event the chart task holds while it awaits the client and the Mutex
          heard,    \* account events the session has handled, in order (history)
          strays,   \* events of one symbol taken for another's (history)
          aborts    \* chart feeds aborted (history)

vars == <<load, session, chart, feeds, inbox, hand, heard, strays, aborts>>

Feeds == DOMAIN feeds
Kind(f) == IF f = 1 THEN "account" ELSE "chart"
Notice(f) == [of |-> feeds[f].of, n |-> 0]  \* Connected or Disconnected
Event(f, n) == [of |-> feeds[f].of, n |-> n]
IsData(e) == e.n > 0

Spawned(what) == [of |-> what, task |-> "connecting", delay |-> BaseDelay,
                  tries |-> 0, buffer |-> <<>>, read |-> 0, helpers |-> 0]

\* The session starts with the feed of its account.
Init ==
    /\ load \in Loads
    /\ session = "open"
    /\ chart = Null
    /\ feeds = <<Spawned(Account)>>
    /\ inbox = [account |-> <<>>, chart |-> <<>>]
    /\ hand = Null
    /\ heard = <<>>
    /\ strays = 0 /\ aborts = 0

-----------------------------------------------------------------------------
(* A feed: connect_private, connect_chart and their ..._once. *)

\* The converter holds one event of the buffer while it waits for room in the inbox.
Room(f) == Len(feeds[f].buffer) < Cap + 1

Sends(f, e, task) == [feeds[f] EXCEPT !.buffer = Append(@, e), !.task = task]

\* The exchange answers so many attempts; a further one hangs, there is no timeout.
Answers(f) == feeds[f].tries < load[Kind(f)]

\* Connected (for the account on Binance with a listen key) and subscribed; the answer of the
\* exchange to the subscription is not looked at.
ConnectOk(f) ==
    /\ feeds[f].task = "connecting" /\ Answers(f)
    /\ feeds' = [feeds EXCEPT ![f].task = "greeting", ![f].tries = @ + 1]
    /\ UNCHANGED <<load, session, chart, inbox, hand, heard, strays, aborts>>

ConnectFails(f) ==
    /\ feeds[f].task = "connecting" /\ Answers(f)
    /\ feeds' = [feeds EXCEPT ![f].task = "closing", ![f].tries = @ + 1]
    /\ UNCHANGED <<load, session, chart, inbox, hand, heard, strays, aborts>>

\* Connected is told before the helper starts: the keepalive of the listen key (Binance, account)
\* or the pings (Bybit).
Greet(f) ==
    /\ feeds[f].task = "greeting" /\ Room(f)
    /\ feeds' = [feeds EXCEPT ![f] = [Sends(f, Notice(f), "reading") EXCEPT !.helpers = @ + 1]]
    /\ UNCHANGED <<load, session, chart, inbox, hand, heard, strays, aborts>>

\* An event is read when there is room for it; until then it waits in the socket.
Read(f) ==
    /\ feeds[f].task = "reading" /\ Room(f) /\ feeds[f].read < MaxEvents
    /\ feeds' = [feeds EXCEPT ![f] = [Sends(f, Event(f, feeds[f].read + 1), "reading")
                                          EXCEPT !.read = @ + 1]]
    /\ UNCHANGED <<load, session, chart, inbox, hand, heard, strays, aborts>>

\* Closed by the exchange or broken: the attempt counts as a success, the delay starts again.
LinkEnds(f) ==
    /\ feeds[f].task = "reading"
    /\ feeds' = [feeds EXCEPT ![f].task = "closing", ![f].delay = BaseDelay]
    /\ UNCHANGED <<load, session, chart, inbox, hand, heard, strays, aborts>>

MutSayDisconnected(f) ==
    /\ feeds[f].task = "closing" /\ session = "open" /\ Room(f)
    /\ feeds' = [feeds EXCEPT ![f] = Sends(f, Notice(f), "sleeping")]
    /\ UNCHANGED <<load, session, chart, inbox, hand, heard, strays, aborts>>
SayDisconnected(f) ==
    /\ feeds[f].task = "closing" /\ Room(f)
    /\ feeds' = [feeds EXCEPT ![f] = Sends(f, Notice(f), "sleeping")]
    /\ UNCHANGED <<load, session, chart, inbox, hand, heard, strays, aborts>>

MutNextDelay(d) == 2 * d
NextDelay(d) == IF 2 * d < MaxDelay THEN 2 * d ELSE MaxDelay

Wake(f) ==
    /\ feeds[f].task = "sleeping"
    /\ feeds' = [feeds EXCEPT ![f].task = "connecting", ![f].delay = NextDelay(@)]
    /\ UNCHANGED <<load, session, chart, inbox, hand, heard, strays, aborts>>

\* A helper ends when its own request or write fails, which no other task waits for; the
\* keepalive says Disconnected, whatever the state of the feed.
HelperEnds(f) ==
    /\ feeds[f].helpers > 0
    /\ \/ feeds' = [feeds EXCEPT ![f].helpers = @ - 1]
       \/ /\ f = 1 /\ Room(f)
          /\ feeds' = [feeds EXCEPT ![f].helpers = @ - 1, ![f].buffer = Append(@, Notice(f))]
    /\ UNCHANGED <<load, session, chart, inbox, hand, heard, strays, aborts>>

\* The converter of the exchange wrapper passes an event on, or drops it when nobody receives:
\* it outlives the abort of its feed until its buffer is empty.
MutForward(f) ==
    /\ feeds[f].buffer # <<>>
    /\ feeds' = [feeds EXCEPT ![f].buffer = Tail(@)]
    /\ inbox' = IF session = "ended" \/ Len(inbox[Kind(f)]) >= Cap THEN inbox
                ELSE [inbox EXCEPT ![Kind(f)] = Append(@, Head(feeds[f].buffer))]
    /\ UNCHANGED <<load, session, chart, hand, heard, strays, aborts>>
Forward(f) ==
    /\ feeds[f].buffer # <<>>
    /\ feeds' = [feeds EXCEPT ![f].buffer = Tail(@)]
    /\ IF session = "ended" THEN UNCHANGED inbox
       ELSE /\ Len(inbox[Kind(f)]) < Cap
            /\ inbox' = [inbox EXCEPT ![Kind(f)] = Append(@, Head(feeds[f].buffer))]
    /\ UNCHANGED <<load, session, chart, hand, heard, strays, aborts>>

-----------------------------------------------------------------------------
(* The session. *)

\* The account task takes the next event and handles it; notices are ignored.
HandleAccount ==
    /\ inbox.account # <<>>
    /\ LET e == Head(inbox.account)
       IN heard' = IF IsData(e) THEN Append(heard, e.n) ELSE heard
    /\ inbox' = [inbox EXCEPT !.account = Tail(@)]
    /\ UNCHANGED <<load, session, chart, feeds, hand, strays, aborts>>

\* The chart task takes an event and sends it on to the client ...
TakeChart ==
    /\ hand = Null /\ inbox.chart # <<>>
    /\ hand' = Head(inbox.chart)
    /\ inbox' = [inbox EXCEPT !.chart = Tail(@)]
    /\ UNCHANGED <<load, session, chart, feeds, heard, strays, aborts>>

\* ... and then looks up what it is an event of.
HandleChart ==
    /\ hand # Null
    /\ strays' = IF IsData(hand) /\ chart \notin {Null, hand.of} THEN strays + 1 ELSE strays
    /\ hand' = Null
    /\ UNCHANGED <<load, session, chart, feeds, inbox, heard, aborts>>

LastIsChart == Len(feeds) > 1 /\ feeds[Len(feeds)].task # "aborted"

\* The task of the last chart subscription, if there is one, is aborted wherever it waits.
MutStopped == feeds
Stopped == [f \in Feeds |-> IF f = Len(feeds) /\ LastIsChart
                            THEN [feeds[f] EXCEPT !.task = "aborted"] ELSE feeds[f]]
CountAbort == aborts' = IF LastIsChart THEN aborts + 1 ELSE aborts

MutSubscribeChart(s) ==
    /\ session = "open" /\ Len(feeds) <= MaxSubscriptions
    /\ chart' = s
    /\ feeds' = Append(feeds, Spawned(s))
    /\ UNCHANGED <<load, session, inbox, hand, heard, strays, aborts>>
SubscribeChart(s) ==
    /\ session = "open" /\ Len(feeds) <= MaxSubscriptions
    /\ chart' = s
    /\ feeds' = Append(Stopped, Spawned(s))
    /\ CountAbort
    /\ UNCHANGED <<load, session, inbox, hand, heard, strays>>

UnsubscribeChart ==
    /\ session = "open" /\ chart # Null
    /\ chart' = Null
    /\ feeds' = Stopped
    /\ CountAbort
    /\ UNCHANGED <<load, session, inbox, hand, heard, strays>>

\* The connection of the client ends: the chart feed and the tasks of the session are aborted.
EndSession ==
    /\ session = "open"
    /\ session' = "ended"
    /\ feeds' = Stopped
    /\ CountAbort
    /\ inbox' = [account |-> <<>>, chart |-> <<>>]
    /\ hand' = Null
    /\ UNCHANGED <<load, chart, heard, strays>>

\* What the task of a feed does unless it waits for the exchange to send or to close.
Driven(f) == ConnectOk(f) \/ ConnectFails(f) \/ Greet(f) \/ SayDisconnected(f) \/ Wake(f)
FeedStep(f) == Driven(f) \/ Read(f) \/ LinkEnds(f) \/ HelperEnds(f) \/ Forward(f)
SessionTask == HandleAccount \/ TakeChart \/ HandleChart

Next == \/ \E f \in Feeds : FeedStep(f)
        \/ SessionTask
        \/ \E s \in Symbols : SubscribeChart(s)
        \/ UnsubscribeChart \/ EndSession

Spec == Init /\ [][Next]_vars

\* The tasks are scheduled, a sleep ends, and the tasks of a session get their messages out and
\* obtain the Mutex.
FairSpec ==
    /\ Spec
    /\ \A f \in 1..(MaxSubscriptions + 1) : /\ WF_vars(f \in Feeds /\ Driven(f))
                                            /\ WF_vars(f \in Feeds /\ Forward(f))
    /\ WF_vars(HandleAccount) /\ WF_vars(TakeChart) /\ WF_vars(HandleChart)

-----------------------------------------------------------------------------
(* Properties. *)

Events == [of : Symbols \cup {Account}, n : 0..MaxEvents]
Tasks == {"connecting", "greeting", "reading", "closing", "sleeping", "aborted"}

\* Types, and the bounds of the waits and of the channels (ws.rs:60-76, exchange.rs:175).
TypeOK ==
    /\ load \in Loads
    /\ session \in {"open", "ended"}
    /\ chart \in Symbols \cup {Null}
    /\ feeds # <<>>
    /\ \A f \in Feeds : /\ feeds[f].of \in Symbols \cup {Account}
                        /\ feeds[f].task \in Tasks
                        /\ feeds[f].delay \in BaseDelay..MaxDelay
                        /\ feeds[f].buffer \in Seq(Events) /\ Len(feeds[f].buffer) <= Cap + 1
                        /\ feeds[f].read \in 0..MaxEvents
                        /\ feeds[f].tries \in 0..load[Kind(f)]
                        /\ feeds[f].helpers \in 0..feeds[f].tries
    /\ \A k \in {"account", "chart"} : inbox[k] \in Seq(Events) /\ Len(inbox[k]) <= Cap
    /\ hand \in Events \cup {Null}

\* Events and notices of the account between the exchange and the task of the session, in order.
OnTheWay == inbox.account \o feeds[1].buffer

\* An open session hears every event its account feed has read, once and in the order of the
\* exchange, across reconnections and whatever waits where: fills, positions and cancellations
\* are never handled in another order than they happened (exchange.rs:177-188, server.rs:246).
\* What was heard are the first events, and the others are on their way in order.
AccountInOrder ==
    session = "open" =>
        /\ \A i \in DOMAIN heard : heard[i] = i
        /\ {OnTheWay[i].n : i \in DOMAIN OnTheWay} \ {0} = (Len(heard) + 1)..feeds[1].read
        /\ \A i, j \in DOMAIN OnTheWay :
              i < j /\ IsData(OnTheWay[i]) /\ IsData(OnTheWay[j]) => OnTheWay[i].n < OnTheWay[j].n

Running == {f \in Feeds : f > 1 /\ feeds[f].task # "aborted"}

\* At most one chart feed runs, it is of the symbol the session takes its trades for, and none
\* runs without a subscription or after the session (server.rs:578-600, 742-744).
OneChartFeed ==
    \A f \in Running : f = Len(feeds) /\ session = "open" /\ feeds[f].of = chart

\* Trades of the former symbol that are taken for the new one (server.rs:500) are those which
\* were on their way when its feed was aborted: their number is bounded by the channels.
StraysBounded == strays <= aborts * (2 * Cap + 2)

\* A feed of the account that is down is tried again, while the session lives and after it.
FeedRetries == feeds[1].task \in {"greeting", "closing", "sleeping"} ~>
                   feeds[1].task \in {"connecting", "reading"}
==============================================================================
