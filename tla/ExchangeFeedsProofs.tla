-------------------------- MODULE ExchangeFeedsProofs -------------------------
(* Theorems about ExchangeFeeds for every capacity of the channels, every     *)
(* number of symbols, subscriptions and events, and any delays.               *)
EXTENDS ExchangeFeeds, SequenceTheorems, FiniteSetTheorems, TLAPS

FeedRecords == [of : Symbols \cup {Account}, task : Tasks, delay : Nat, tries : Nat,
                buffer : Seq(Events), read : Nat, helpers : Nat]

\* The feeds, the tasks of the session and the channels between them hold what they may.
FeedTypes ==
    /\ load \in [account : Nat, chart : Nat]
    /\ session \in {"open", "ended"}
    /\ chart \in Symbols \cup {Null}
    /\ feeds \in Seq(FeedRecords) /\ Len(feeds) >= 1
    /\ inbox \in [account : Seq(Events), chart : Seq(Events)]
    /\ hand \in Events \cup {Null}
    /\ heard \in Seq(Nat)
    /\ strays \in Nat /\ aborts \in Nat

\* A helper is started by an attempt that succeeded, once.
FeedBounds(f) ==
    /\ feeds[f].delay \in BaseDelay..MaxDelay
    /\ feeds[f].read \in 0..MaxEvents
    /\ Len(feeds[f].buffer) <= Cap + 1
    /\ feeds[f].tries <= load[Kind(f)]
    /\ feeds[f].helpers <= feeds[f].tries
    /\ feeds[f].task = "greeting" => feeds[f].helpers < feeds[f].tries

Bounds ==
    /\ load \in Loads
    /\ \A f \in Feeds : FeedBounds(f)
    /\ \A k \in {"account", "chart"} : Len(inbox[k]) <= Cap

IInv == FeedTypes /\ Bounds /\ OneChartFeed

-----------------------------------------------------------------------------
LEMMA Numbers ==
  /\ Cap \in Nat \ {0} /\ BaseDelay \in Nat \ {0} /\ MaxDelay \in Nat \ {0}
  /\ MaxEvents \in Nat /\ BaseDelay <= MaxDelay
  BY FeedAssumption

LEMMA NextDelayType ==
  ASSUME NEW d \in BaseDelay..MaxDelay
  PROVE  NextDelay(d) \in BaseDelay..MaxDelay
  BY Numbers DEF NextDelay

\* Notices and events are well typed.
LEMMA EventType ==
  ASSUME FeedTypes, NEW f \in Feeds, NEW n \in 0..MaxEvents
  PROVE  Event(f, n) \in Events /\ Notice(f) \in Events
<1>1. feeds[f] \in FeedRecords  BY DEF FeedTypes, Feeds
<1>2. feeds[f].of \in Symbols \cup {Account}  BY <1>1 DEF FeedRecords
<1>3. QED  BY <1>2, Numbers DEF Event, Notice, Events

LEMMA SpawnedType ==
  ASSUME NEW s \in Symbols \cup {Account}
  PROVE  Spawned(s) \in FeedRecords
  BY Numbers DEF Spawned, FeedRecords, Tasks

LEMMA InitIInv == Init => IInv
<1> SUFFICES ASSUME Init PROVE IInv  OBVIOUS
<1>1. Spawned(Account) \in FeedRecords  BY SpawnedType
<1>2. load \in [account : Nat, chart : Nat] /\ load \in Loads  BY FeedAssumption DEF Init
<1>3. FeedTypes  BY <1>1, <1>2 DEF Init, FeedTypes
<1>4. Feeds = {1} /\ feeds[1] = Spawned(Account)  BY <1>1 DEF Init, Feeds
<1>5. Bounds  BY <1>2, <1>4, Numbers DEF Init, Bounds, FeedBounds, Spawned, Kind
<1>6. OneChartFeed  BY <1>4 DEF OneChartFeed, Running
<1>7. QED  BY <1>3, <1>5, <1>6 DEF IInv

-----------------------------------------------------------------------------
(* A step of one feed changes the feed it is a step of, and the inbox when an event is passed  *)
(* on.  Each kind of step is one lemma about the feed after it.                                *)

\* What a step of feed f leaves of it: r is the feed afterwards.
Steps(f, r) ==
    /\ r \in FeedRecords
    /\ r.of = feeds[f].of
    /\ (r.task = "aborted") <=> (feeds[f].task = "aborted")
    /\ r.delay \in BaseDelay..MaxDelay
    /\ r.read \in 0..MaxEvents
    /\ Len(r.buffer) <= Cap + 1
    /\ r.tries <= load[Kind(f)]
    /\ r.helpers <= r.tries
    /\ r.task = "greeting" => r.helpers < r.tries

LEMMA FeedFacts ==
  ASSUME IInv, NEW f \in Feeds
  PROVE  /\ feeds[f] \in FeedRecords
         /\ feeds[f].of \in Symbols \cup {Account} /\ feeds[f].task \in Tasks
         /\ feeds[f].tries \in Nat /\ feeds[f].helpers \in Nat
         /\ feeds[f].buffer \in Seq(Events) /\ Len(feeds[f].buffer) \in Nat
         /\ load[Kind(f)] \in Nat
         /\ FeedBounds(f)
<1>1. feeds[f] \in FeedRecords  BY DEF IInv, FeedTypes, Feeds
<1>2. FeedBounds(f) /\ load[Kind(f)] \in Nat  BY DEF IInv, Bounds, FeedTypes, Kind
<1>3. QED  BY <1>1, <1>2 DEF FeedRecords

\* Sending a notice or the next event.
LEMMA SendsSteps ==
  ASSUME IInv, NEW f \in Feeds, Room(f), NEW e \in Events, NEW task \in Tasks \ {"greeting"},
         (task = "aborted") <=> (feeds[f].task = "aborted")
  PROVE  /\ Steps(f, Sends(f, e, task))
         /\ Sends(f, e, task).buffer = Append(feeds[f].buffer, e)
<1> DEFINE r == Sends(f, e, task)
<1>1. /\ r = [feeds[f] EXCEPT !.buffer = Append(@, e), !.task = task]
      /\ feeds[f] \in FeedRecords /\ feeds[f].buffer \in Seq(Events)
      /\ FeedBounds(f) /\ Len(feeds[f].buffer) < Cap + 1
  BY FeedFacts DEF Sends, Room
<1>2. Append(feeds[f].buffer, e) \in Seq(Events)
      /\ Len(Append(feeds[f].buffer, e)) <= Cap + 1
  BY <1>1, Numbers
<1>3. r \in FeedRecords  BY <1>1, <1>2 DEF FeedRecords
<1>4. QED  BY <1>1, <1>2, <1>3 DEF Steps, FeedBounds, FeedRecords

LEMMA ConnectSteps ==
  ASSUME IInv, NEW f \in Feeds, ConnectOk(f) \/ ConnectFails(f)
  PROVE  Steps(f, feeds'[f])
<1>1. /\ feeds[f] \in FeedRecords /\ FeedBounds(f) /\ feeds[f].tries \in Nat
      /\ load[Kind(f)] \in Nat /\ feeds[f].helpers \in Nat
  BY FeedFacts
<1>2. feeds[f].tries < load[Kind(f)] /\ feeds[f].task = "connecting"
  BY DEF ConnectOk, ConnectFails, Answers
<1>3. \E task \in {"greeting", "closing"} :
          feeds'[f] = [feeds[f] EXCEPT !.task = task, !.tries = @ + 1]
  BY DEF ConnectOk, ConnectFails, Feeds
<1>4. PICK task \in {"greeting", "closing"} :
          feeds'[f] = [feeds[f] EXCEPT !.task = task, !.tries = @ + 1]
  BY <1>3
<1>5. feeds[f].tries + 1 \in Nat /\ feeds[f].tries + 1 <= load[Kind(f)]  BY <1>1, <1>2
<1>6. feeds'[f] \in FeedRecords  BY <1>1, <1>4, <1>5 DEF FeedRecords, Tasks
<1>7. /\ feeds'[f].task = task /\ feeds'[f].tries = feeds[f].tries + 1
      /\ feeds'[f].of = feeds[f].of /\ feeds'[f].delay = feeds[f].delay
      /\ feeds'[f].read = feeds[f].read /\ feeds'[f].buffer = feeds[f].buffer
      /\ feeds'[f].helpers = feeds[f].helpers
  BY <1>1, <1>4 DEF FeedRecords
<1>8. feeds[f].helpers <= feeds[f].tries  BY <1>1 DEF FeedBounds
<1>9. feeds'[f].helpers < feeds'[f].tries  BY <1>1, <1>7, <1>8
<1>10. QED  BY <1>1, <1>2, <1>5, <1>6, <1>7, <1>9 DEF Steps, FeedBounds

LEMMA GreetSteps ==
  ASSUME IInv, NEW f \in Feeds, Greet(f)
  PROVE  Steps(f, feeds'[f]) /\ feeds'[f].buffer = Append(feeds[f].buffer, Notice(f))
<1> DEFINE r == Sends(f, Notice(f), "reading")
<1>1. feeds[f].task = "greeting" /\ Room(f) /\ feeds'[f] = [r EXCEPT !.helpers = @ + 1]
  BY DEF Greet, Feeds
<1>2. Notice(f) \in Events  BY EventType, Numbers DEF IInv
<1>3. Steps(f, r) /\ r.buffer = Append(feeds[f].buffer, Notice(f))
  BY <1>1, <1>2, SendsSteps DEF Tasks
<1>4. feeds[f].helpers < feeds[f].tries  BY <1>1, FeedFacts DEF FeedBounds
<1>5. r.helpers = feeds[f].helpers /\ r.tries = feeds[f].tries /\ r.task = "reading"
  BY FeedFacts DEF Sends, FeedRecords
<1>6. feeds[f].helpers \in Nat /\ feeds[f].tries \in Nat  BY FeedFacts
<1>7. r \in FeedRecords  BY <1>3 DEF Steps
<1>8. /\ feeds'[f] \in FeedRecords
      /\ feeds'[f].helpers = feeds[f].helpers + 1 /\ feeds'[f].tries = r.tries
      /\ feeds'[f].of = r.of /\ feeds'[f].delay = r.delay /\ feeds'[f].read = r.read
      /\ feeds'[f].buffer = r.buffer /\ feeds'[f].task = "reading"
  BY <1>1, <1>5, <1>6, <1>7 DEF FeedRecords
<1>9. feeds'[f].helpers <= feeds'[f].tries  BY <1>4, <1>5, <1>6, <1>8
<1>10. QED  BY <1>1, <1>3, <1>8, <1>9 DEF Steps

LEMMA ReadSteps ==
  ASSUME IInv, NEW f \in Feeds, Read(f)
  PROVE  /\ Steps(f, feeds'[f])
         /\ feeds'[f].buffer = Append(feeds[f].buffer, Event(f, feeds[f].read + 1))
         /\ feeds'[f].read = feeds[f].read + 1
<1> DEFINE e == Event(f, feeds[f].read + 1)
           r == Sends(f, e, "reading")
<1>1. /\ feeds[f].task = "reading" /\ Room(f) /\ feeds[f].read < MaxEvents
      /\ feeds'[f] = [r EXCEPT !.read = @ + 1]
  BY DEF Read, Feeds
<1>2. feeds[f].read \in 0..MaxEvents  BY FeedFacts DEF FeedBounds
<1>3. feeds[f].read + 1 \in 0..MaxEvents  BY <1>1, <1>2, Numbers
<1>4. e \in Events  BY <1>3, EventType DEF IInv
<1>5. Steps(f, r) /\ r.buffer = Append(feeds[f].buffer, e)
  BY <1>1, <1>4, SendsSteps DEF Tasks
<1>6. r.read = feeds[f].read  BY FeedFacts DEF Sends, FeedRecords
<1>7. QED  BY <1>1, <1>2, <1>3, <1>5, <1>6 DEF Steps, FeedRecords

LEMMA SayDisconnectedSteps ==
  ASSUME IInv, NEW f \in Feeds, SayDisconnected(f)
  PROVE  Steps(f, feeds'[f]) /\ feeds'[f].buffer = Append(feeds[f].buffer, Notice(f))
<1>1. /\ feeds[f].task = "closing" /\ Room(f)
      /\ feeds'[f] = Sends(f, Notice(f), "sleeping")
  BY DEF SayDisconnected, Feeds
<1>2. Notice(f) \in Events  BY EventType, Numbers DEF IInv
<1>3. QED  BY <1>1, <1>2, SendsSteps DEF Tasks

LEMMA WaitSteps ==
  ASSUME IInv, NEW f \in Feeds, LinkEnds(f) \/ Wake(f)
  PROVE  Steps(f, feeds'[f]) /\ feeds'[f].buffer = feeds[f].buffer
<1>1. feeds[f] \in FeedRecords /\ FeedBounds(f)  BY FeedFacts
<1>2. NextDelay(feeds[f].delay) \in BaseDelay..MaxDelay /\ BaseDelay \in BaseDelay..MaxDelay
  <2>1. feeds[f].delay \in BaseDelay..MaxDelay  BY <1>1 DEF FeedBounds
  <2>2. NextDelay(feeds[f].delay) \in BaseDelay..MaxDelay  BY <2>1, NextDelayType
  <2>3. QED  BY <2>2, Numbers
<1>3. \E task \in {"closing", "connecting"}, d \in BaseDelay..MaxDelay :
          feeds'[f] = [feeds[f] EXCEPT !.task = task, !.delay = d]
  BY <1>2 DEF LinkEnds, Wake, Feeds
<1>4. feeds[f].task # "aborted"  BY DEF LinkEnds, Wake
<1>5. PICK task \in {"closing", "connecting"}, d \in BaseDelay..MaxDelay :
          feeds'[f] = [feeds[f] EXCEPT !.task = task, !.delay = d]
  BY <1>3
<1>6. d \in Nat  BY Numbers
<1>7. feeds'[f] \in FeedRecords  BY <1>1, <1>5, <1>6 DEF FeedRecords, Tasks
<1>8. QED  BY <1>1, <1>4, <1>5, <1>7 DEF Steps, FeedBounds, FeedRecords

LEMMA HelperEndsSteps ==
  ASSUME IInv, NEW f \in Feeds, HelperEnds(f)
  PROVE  /\ Steps(f, feeds'[f])
         /\ \/ feeds'[f].buffer = feeds[f].buffer
            \/ feeds'[f].buffer = Append(feeds[f].buffer, Notice(f))
         /\ feeds'[f].read = feeds[f].read
<1>1. /\ feeds[f] \in FeedRecords /\ FeedBounds(f) /\ feeds[f].helpers \in Nat \ {0}
      /\ feeds[f].buffer \in Seq(Events) /\ feeds[f].tries \in Nat
  BY FeedFacts DEF HelperEnds
<1>2. feeds[f].helpers - 1 \in Nat  BY <1>1
<1>3. CASE feeds' = [feeds EXCEPT ![f].helpers = @ - 1]
  <2>1. feeds'[f] = [feeds[f] EXCEPT !.helpers = @ - 1]  BY <1>3 DEF Feeds
  <2>2. feeds'[f] \in FeedRecords  BY <1>1, <1>2, <2>1 DEF FeedRecords
  <2>3. QED  BY <1>1, <1>2, <2>1, <2>2 DEF Steps, FeedBounds, FeedRecords
<1>4. CASE /\ Room(f)
           /\ feeds' = [feeds EXCEPT ![f].helpers = @ - 1, ![f].buffer = Append(@, Notice(f))]
  <2>1. feeds'[f] = [feeds[f] EXCEPT !.helpers = @ - 1, !.buffer = Append(@, Notice(f))]
    BY <1>4 DEF Feeds
  <2>2. Notice(f) \in Events  BY EventType, Numbers DEF IInv
  <2>3. /\ Append(feeds[f].buffer, Notice(f)) \in Seq(Events)
        /\ Len(Append(feeds[f].buffer, Notice(f))) <= Cap + 1
    BY <1>1, <1>4, <2>2, Numbers DEF Room
  <2>4. feeds'[f] \in FeedRecords  BY <1>1, <1>2, <2>1, <2>3 DEF FeedRecords
  <2>5. /\ feeds'[f].buffer = Append(feeds[f].buffer, Notice(f))
        /\ feeds'[f].helpers = feeds[f].helpers - 1 /\ feeds'[f].tries = feeds[f].tries
        /\ feeds'[f].of = feeds[f].of /\ feeds'[f].delay = feeds[f].delay
        /\ feeds'[f].read = feeds[f].read /\ feeds'[f].task = feeds[f].task
    BY <1>1, <2>1 DEF FeedRecords
  <2>6. QED  BY <1>1, <1>2, <2>3, <2>4, <2>5 DEF Steps, FeedBounds
<1>5. QED  BY <1>3, <1>4 DEF HelperEnds

LEMMA ForwardSteps ==
  ASSUME IInv, NEW f \in Feeds, Forward(f)
  PROVE  Steps(f, feeds'[f]) /\ feeds'[f].read = feeds[f].read
<1>1. /\ feeds[f] \in FeedRecords /\ FeedBounds(f) /\ feeds[f].buffer # <<>>
      /\ feeds[f].buffer \in Seq(Events) /\ Len(feeds[f].buffer) <= Cap + 1
  BY FeedFacts DEF Forward, FeedBounds
<1>2. feeds'[f] = [feeds[f] EXCEPT !.buffer = Tail(@)]  BY DEF Forward, Feeds
<1>3. Tail(feeds[f].buffer) \in Seq(Events) /\ Len(Tail(feeds[f].buffer)) <= Cap + 1
  BY <1>1, Numbers
<1>4. feeds'[f] \in FeedRecords  BY <1>1, <1>2, <1>3 DEF FeedRecords
<1>5. QED  BY <1>1, <1>2, <1>3, <1>4 DEF Steps, FeedBounds, FeedRecords

LEMMA FeedStepSteps ==
  ASSUME IInv, NEW f \in Feeds, FeedStep(f)
  PROVE  /\ Steps(f, feeds'[f])
         /\ feeds' = [feeds EXCEPT ![f] = feeds'[f]]
         /\ UNCHANGED <<load, session, chart, hand, heard, strays, aborts>>
<1>1. Steps(f, feeds'[f])
  BY ConnectSteps, GreetSteps, ReadSteps, SayDisconnectedSteps, WaitSteps, HelperEndsSteps,
     ForwardSteps DEF FeedStep, Driven
<1>2. /\ \E r : feeds' = [feeds EXCEPT ![f] = r]
      /\ UNCHANGED <<load, session, chart, hand, heard, strays, aborts>>
  <2>1. CASE ConnectOk(f)  BY <2>1 DEF ConnectOk
  <2>2. CASE ConnectFails(f)  BY <2>2 DEF ConnectFails
  <2>3. CASE Greet(f)  BY <2>3 DEF Greet
  <2>4. CASE SayDisconnected(f)  BY <2>4 DEF SayDisconnected
  <2>5. CASE Wake(f)  BY <2>5 DEF Wake
  <2>6. CASE Read(f)  BY <2>6 DEF Read
  <2>7. CASE LinkEnds(f)  BY <2>7 DEF LinkEnds
  <2>8. CASE HelperEnds(f)  BY <2>8 DEF HelperEnds
  <2>9. CASE Forward(f)  BY <2>9 DEF Forward
  <2>10. QED  BY <2>1, <2>2, <2>3, <2>4, <2>5, <2>6, <2>7, <2>8, <2>9 DEF FeedStep, Driven
<1>3. QED  BY <1>1, <1>2 DEF Feeds

\* Only an event that is passed on reaches an inbox, and only where there is room.
LEMMA FeedStepInbox ==
  ASSUME IInv, NEW f \in Feeds, FeedStep(f)
  PROVE  /\ inbox' \in [account : Seq(Events), chart : Seq(Events)]
         /\ \A k \in {"account", "chart"} : Len(inbox'[k]) <= Cap
<1>1. /\ inbox \in [account : Seq(Events), chart : Seq(Events)]
      /\ \A k \in {"account", "chart"} : Len(inbox[k]) <= Cap
  BY DEF IInv, FeedTypes, Bounds
<1>2. CASE Forward(f) /\ session # "ended"
  <2> DEFINE k == Kind(f)
             e == Head(feeds[f].buffer)
  <2>1. k \in {"account", "chart"}  BY DEF Kind
  <2>2. Len(inbox[k]) < Cap /\ inbox' = [inbox EXCEPT ![k] = Append(@, e)]
    BY <1>2 DEF Forward
  <2>3. e \in Events  BY <1>2, FeedFacts DEF Forward
  <2>4. inbox[k] \in Seq(Events)  BY <1>1, <2>1
  <2>5. Append(inbox[k], e) \in Seq(Events) /\ Len(Append(inbox[k], e)) <= Cap
    BY <2>2, <2>3, <2>4, Numbers
  <2>6. QED  BY <1>1, <2>1, <2>2, <2>5
<1>3. CASE ~(Forward(f) /\ session # "ended")
  <2>1. UNCHANGED inbox
    BY <1>3 DEF FeedStep, Driven, ConnectOk, ConnectFails, Greet, SayDisconnected, Wake, Read,
                LinkEnds, HelperEnds, Forward
  <2>2. QED  BY <1>1, <2>1
<1>4. QED  BY <1>2, <1>3

LEMMA FeedStepIInv ==
  ASSUME IInv, NEW f \in Feeds, FeedStep(f)
  PROVE  IInv'
<1> DEFINE r == feeds'[f]
<1>1. /\ Steps(f, r) /\ feeds' = [feeds EXCEPT ![f] = r]
      /\ UNCHANGED <<load, session, chart, hand, heard, strays, aborts>>
  BY FeedStepSteps
<1>2. feeds \in Seq(FeedRecords) /\ Len(feeds) >= 1 /\ r \in FeedRecords
  BY <1>1 DEF IInv, FeedTypes, Steps
<1>3. /\ feeds' \in Seq(FeedRecords) /\ Len(feeds') = Len(feeds) /\ Feeds' = Feeds
      /\ \A g \in Feeds : g # f => feeds'[g] = feeds[g]
  BY <1>1, <1>2, ExceptSeq DEF Feeds
<1>4. FeedTypes'  BY <1>1, <1>2, <1>3, FeedStepInbox DEF IInv, FeedTypes
<1>5. ASSUME NEW g \in Feeds  PROVE FeedBounds(g)'
  <2>1. CASE g = f  BY <1>1, <2>1 DEF Steps, FeedBounds, Kind
  <2>2. CASE g # f
    <3>1. feeds'[g] = feeds[g]  BY <1>3, <2>2
    <3>2. QED  BY <1>1, <3>1 DEF IInv, Bounds, FeedBounds, Kind
  <2>3. QED  BY <2>1, <2>2
<1>6. Bounds'  BY <1>1, <1>3, <1>5, FeedStepInbox DEF IInv, Bounds
<1>7. OneChartFeed'
  <2>1. ASSUME NEW g \in Running'  PROVE g \in Running /\ feeds'[g].of = feeds[g].of
    BY <1>1, <1>3, <2>1 DEF Running, Steps
  <2>2. QED  BY <1>1, <1>3, <2>1 DEF IInv, OneChartFeed
<1>8. QED  BY <1>4, <1>6, <1>7 DEF IInv

\* Aborting the last chart feed leaves none that runs, and touches nothing but its task.
LEMMA StoppedFeeds ==
  ASSUME IInv
  PROVE  /\ Stopped \in Seq(FeedRecords) /\ Len(Stopped) = Len(feeds) /\ DOMAIN Stopped = Feeds
         /\ \A f \in Feeds : f > 1 => Stopped[f].task = "aborted"
         /\ \A f \in Feeds : \/ Stopped[f] = feeds[f]
                              \/ Stopped[f] = [feeds[f] EXCEPT !.task = "aborted"]
         /\ Stopped[1] = feeds[1]
<1>1. feeds \in Seq(FeedRecords) /\ Len(feeds) \in Nat /\ Len(feeds) >= 1 /\ Feeds = 1..Len(feeds)
  BY DEF IInv, FeedTypes, Feeds
<1>2. ASSUME NEW f \in Feeds
      PROVE  feeds[f] \in FeedRecords /\ [feeds[f] EXCEPT !.task = "aborted"] \in FeedRecords
  BY <1>1, FeedFacts DEF FeedRecords, Tasks
<1>3. ASSUME NEW f \in Feeds
      PROVE  \/ Stopped[f] = feeds[f]
             \/ Stopped[f] = [feeds[f] EXCEPT !.task = "aborted"]
  BY DEF Stopped
<1>4. Stopped = [f \in 1..Len(feeds) |-> Stopped[f]]  BY <1>1 DEF Stopped
<1>5. \A f \in 1..Len(feeds) : Stopped[f] \in FeedRecords
  BY <1>1, <1>2, <1>3
<1>6. Stopped \in Seq(FeedRecords) /\ Len(Stopped) = Len(feeds)
  BY <1>1, <1>4, <1>5, IsASeq
<1>7. ASSUME NEW f \in Feeds, f > 1  PROVE Stopped[f].task = "aborted"
  <2>1. CASE feeds[f].task = "aborted"
    <3>1. feeds[f] \in FeedRecords  BY FeedFacts
    <3>2. QED  BY <1>3, <2>1, <3>1 DEF FeedRecords
  <2>2. CASE feeds[f].task # "aborted"
    <3>1. f = Len(feeds)  BY <1>7, <2>2 DEF IInv, OneChartFeed, Running
    <3>2. LastIsChart  BY <1>1, <1>7, <2>2, <3>1 DEF LastIsChart
    <3>3. Stopped[f] = [feeds[f] EXCEPT !.task = "aborted"]  BY <3>1, <3>2 DEF Stopped
    <3>4. feeds[f] \in FeedRecords  BY FeedFacts
    <3>5. QED  BY <3>3, <3>4 DEF FeedRecords
  <2>3. QED  BY <2>1, <2>2
<1>8. Stopped[1] = feeds[1]  BY <1>1 DEF Stopped, LastIsChart
<1>9. DOMAIN Stopped = Feeds  BY DEF Stopped
<1>10. QED  BY <1>3, <1>6, <1>7, <1>8, <1>9

LEMMA StoppedBounds ==
  ASSUME IInv, NEW f \in Feeds, feeds'[f] = Stopped[f], load' = load
  PROVE  FeedBounds(f)'
<1>1. feeds[f] \in FeedRecords /\ FeedBounds(f)  BY FeedFacts
<1>2. Stopped[f] = feeds[f] \/ Stopped[f] = [feeds[f] EXCEPT !.task = "aborted"]
  BY StoppedFeeds
<1>3. QED  BY <1>1, <1>2 DEF FeedBounds, Kind, FeedRecords

LEMMA CountAbortType ==
  ASSUME aborts \in Nat, CountAbort
  PROVE  aborts' \in Nat
  BY DEF CountAbort

LEMMA SubscribeIInv ==
  ASSUME IInv, NEW s \in Symbols, SubscribeChart(s)
  PROVE  IInv'
<1>1. /\ session = "open" /\ chart' = s /\ feeds' = Append(Stopped, Spawned(s)) /\ CountAbort
      /\ UNCHANGED <<load, session, inbox, hand, heard, strays>>
  BY DEF SubscribeChart
<1>2. /\ Stopped \in Seq(FeedRecords) /\ Len(Stopped) = Len(feeds) /\ Len(feeds) \in Nat
      /\ Len(feeds) >= 1 /\ Spawned(s) \in FeedRecords
  BY StoppedFeeds, SpawnedType DEF IInv, FeedTypes
<1>3. /\ feeds' \in Seq(FeedRecords) /\ Len(feeds') = Len(feeds) + 1
      /\ \A f \in 1..Len(feeds) : feeds'[f] = Stopped[f]
      /\ feeds'[Len(feeds) + 1] = Spawned(s)
  BY <1>1, <1>2, AppendProperties
<1>4. Feeds = 1..Len(feeds) /\ Feeds' = 1..(Len(feeds) + 1)
  BY <1>2, <1>3 DEF Feeds, IInv, FeedTypes
<1>5. aborts' \in Nat  BY <1>1, CountAbortType DEF IInv, FeedTypes
<1>6. FeedTypes'  BY <1>1, <1>2, <1>3, <1>5 DEF IInv, FeedTypes
<1>7. ASSUME NEW f \in Feeds'  PROVE FeedBounds(f)'
  <2>1. CASE f \in Feeds
    <3>1. feeds'[f] = Stopped[f]  BY <1>3, <1>4, <2>1
    <3>2. QED  BY <1>1, <2>1, <3>1, StoppedBounds
  <2>2. CASE f = Len(feeds) + 1
    <3>1. feeds'[f] = Spawned(s)  BY <1>3, <2>2
    <3>2. load[Kind(f)] \in Nat  BY DEF IInv, FeedTypes, Kind
    <3>3. /\ feeds'[f].delay = BaseDelay /\ feeds'[f].read = 0 /\ feeds'[f].buffer = <<>>
          /\ feeds'[f].tries = 0 /\ feeds'[f].helpers = 0 /\ feeds'[f].task = "connecting"
      BY <3>1 DEF Spawned
    <3>4. BaseDelay \in BaseDelay..MaxDelay /\ 0 \in 0..MaxEvents /\ Len(<<>>) <= Cap + 1
      BY Numbers
    <3>5. 0 <= load'[Kind(f)]  BY <1>1, <3>2
    <3>6. QED  BY <3>3, <3>4, <3>5 DEF FeedBounds, Kind
  <2>3. QED  BY <1>2, <1>4, <1>7, <2>1, <2>2
<1>8. Bounds'  BY <1>1, <1>7 DEF IInv, Bounds
<1>9. OneChartFeed'
  <2>1. ASSUME NEW f \in Running'  PROVE f = Len(feeds) + 1
    <3>1. f \in Feeds' /\ f > 1 /\ feeds'[f].task # "aborted"  BY <2>1 DEF Running
    <3>2. CASE f \in Feeds  BY <1>3, <1>4, <3>1, <3>2, StoppedFeeds
    <3>3. QED  BY <1>2, <1>4, <3>1, <3>2
  <2>2. Spawned(s).of = s  BY DEF Spawned
  <2>3. QED  BY <1>1, <1>3, <2>1, <2>2 DEF OneChartFeed
<1>10. QED  BY <1>6, <1>8, <1>9 DEF IInv

\* Unsubscribing and the end of the session abort the chart feed.
LEMMA StopIInv ==
  ASSUME IInv, feeds' = Stopped, CountAbort, chart' \in Symbols \cup {Null},
         session' \in {"open", "ended"}, hand' \in {hand, Null},
         inbox' \in {inbox, [account |-> <<>>, chart |-> <<>>]},
         UNCHANGED <<load, heard, strays>>
  PROVE  IInv'
<1>1. /\ feeds' \in Seq(FeedRecords) /\ Len(feeds') = Len(feeds) /\ Feeds' = Feeds
      /\ \A f \in Feeds : f > 1 => feeds'[f].task = "aborted"
  BY StoppedFeeds DEF Feeds
<1>2. aborts' \in Nat  BY CountAbortType DEF IInv, FeedTypes
<1>3. /\ inbox' \in [account : Seq(Events), chart : Seq(Events)]
      /\ \A k \in {"account", "chart"} : Len(inbox'[k]) <= Cap
  <2>1. CASE inbox' = inbox  BY <2>1 DEF IInv, FeedTypes, Bounds
  <2>2. CASE inbox' = [account |-> <<>>, chart |-> <<>>]  BY <2>2, Numbers
  <2>3. QED  BY <2>1, <2>2
<1>4. FeedTypes'  BY <1>1, <1>2, <1>3 DEF IInv, FeedTypes
<1>5. \A f \in Feeds' : FeedBounds(f)'  BY <1>1, StoppedBounds
<1>6. Bounds'  BY <1>3, <1>5 DEF IInv, Bounds
<1>7. OneChartFeed'  BY <1>1 DEF OneChartFeed, Running
<1>8. QED  BY <1>4, <1>6, <1>7 DEF IInv

LEMMA SessionTaskIInv ==
  ASSUME IInv, SessionTask
  PROVE  IInv'
<1>1. /\ UNCHANGED <<load, session, chart, feeds, aborts>>
      /\ inbox \in [account : Seq(Events), chart : Seq(Events)]
      /\ \A k \in {"account", "chart"} : Len(inbox[k]) <= Cap
  BY DEF SessionTask, HandleAccount, TakeChart, HandleChart, IInv, FeedTypes, Bounds
<1>2. \A k \in {"account", "chart"} : inbox[k] # <<>> =>
          /\ Tail(inbox[k]) \in Seq(Events) /\ Len(Tail(inbox[k])) <= Cap
          /\ Head(inbox[k]) \in Events
  BY <1>1, Numbers
<1>3. /\ inbox' \in [account : Seq(Events), chart : Seq(Events)]
      /\ \A k \in {"account", "chart"} : Len(inbox'[k]) <= Cap
  BY <1>1, <1>2 DEF SessionTask, HandleAccount, TakeChart, HandleChart
<1>4. hand' \in Events \cup {Null} /\ strays' \in Nat
  BY <1>2 DEF SessionTask, HandleAccount, TakeChart, HandleChart, IInv, FeedTypes
<1>5. heard' \in Seq(Nat)
  <2>1. heard \in Seq(Nat)  BY DEF IInv, FeedTypes
  <2>2. \A e \in Events : e.n \in Nat  BY Numbers DEF Events
  <2>3. CASE HandleAccount
    <3>1. Head(inbox.account) \in Events  BY <1>2, <2>3 DEF HandleAccount
    <3>2. Head(inbox.account).n \in Nat  BY <2>2, <3>1
    <3>3. heard' = Append(heard, Head(inbox.account).n) \/ heard' = heard
      BY <2>3 DEF HandleAccount
    <3>4. QED  BY <2>1, <3>2, <3>3
  <2>4. CASE TakeChart \/ HandleChart  BY <2>1, <2>4 DEF TakeChart, HandleChart
  <2>5. QED  BY <2>3, <2>4 DEF SessionTask
<1>6. FeedTypes'  BY <1>1, <1>3, <1>4, <1>5 DEF IInv, FeedTypes
<1>7. Bounds'  BY <1>1, <1>3 DEF IInv, Bounds, FeedBounds, Feeds, Kind
<1>8. OneChartFeed'  BY <1>1 DEF IInv, OneChartFeed, Running, Feeds
<1>9. QED  BY <1>6, <1>7, <1>8 DEF IInv

LEMMA NextIInv == IInv /\ [Next]_vars => IInv'
<1> SUFFICES ASSUME IInv, [Next]_vars  PROVE IInv'  OBVIOUS
<1>1. ASSUME NEW f \in Feeds, FeedStep(f)  PROVE IInv'  BY <1>1, FeedStepIInv
<1>2. CASE SessionTask  BY <1>2, SessionTaskIInv
<1>3. ASSUME NEW s \in Symbols, SubscribeChart(s)  PROVE IInv'  BY <1>3, SubscribeIInv
<1>4. CASE UnsubscribeChart
  BY <1>4, StopIInv DEF UnsubscribeChart, IInv, FeedTypes
<1>5. CASE EndSession
  BY <1>5, StopIInv DEF EndSession, IInv, FeedTypes
<1>6. CASE UNCHANGED vars
  BY <1>6 DEF vars, IInv, FeedTypes, Bounds, FeedBounds, Kind, Feeds, OneChartFeed, Running
<1>7. QED  BY <1>1, <1>2, <1>3, <1>4, <1>5, <1>6 DEF Next

-----------------------------------------------------------------------------
(* The order of account events.  p is what is on the way, h what was heard, r the number of      *)
(* events read.                                                                                  *)

InOrder(p, h, r) ==
    /\ \A i \in DOMAIN h : h[i] = i
    /\ {p[i].n : i \in DOMAIN p} \ {0} = (Len(h) + 1)..r
    /\ \A i, j \in DOMAIN p : i < j /\ IsData(p[i]) /\ IsData(p[j]) => p[i].n < p[j].n

OrderInv == /\ IInv
            /\ session = "open" => /\ Len(heard) <= feeds[1].read
                                    /\ InOrder(OnTheWay, heard, feeds[1].read)

\* Passing an event on from one channel to the next leaves what is on the way as it is.
LEMMA ForwardConcat ==
  ASSUME NEW s \in Seq(Events), NEW t \in Seq(Events), t # <<>>
  PROVE  Append(s, Head(t)) \o Tail(t) = s \o t
<1>1. /\ Head(t) \in Events /\ Tail(t) \in Seq(Events) /\ t = <<Head(t)>> \o Tail(t)
      /\ <<Head(t)>> \in Seq(Events)
  BY HeadTailProperties, ConcatSimplifications
<1>2. Append(s, Head(t)) = s \o <<Head(t)>>  BY <1>1, AppendIsConcat
<1>3. (s \o <<Head(t)>>) \o Tail(t) = s \o (<<Head(t)>> \o Tail(t))
  BY <1>1, ConcatAssociative
<1>4. QED  BY <1>1, <1>2, <1>3

LEMMA AppendConcat ==
  ASSUME NEW s \in Seq(Events), NEW t \in Seq(Events), NEW e \in Events
  PROVE  s \o Append(t, e) = Append(s \o t, e)
<1>1. Append(t, e) = t \o <<e>> /\ Append(s \o t, e) = (s \o t) \o <<e>> /\ <<e>> \in Seq(Events)
      /\ s \o t \in Seq(Events)
  BY AppendIsConcat, ConcatProperties
<1>2. QED  BY <1>1, ConcatAssociative

LEMMA TailConcat ==
  ASSUME NEW s \in Seq(Events), NEW t \in Seq(Events), s # <<>>
  PROVE  s \o t # <<>> /\ Head(s \o t) = Head(s) /\ Tail(s \o t) = Tail(s) \o t
  BY ConcatProperties

\* A notice at the end changes nothing; the next event does not either, but for its number.
LEMMA NoticeKeepsOrder ==
  ASSUME NEW p \in Seq(Events), NEW h \in Seq(Nat), NEW r \in Nat, NEW e \in Events,
         e.n = 0, InOrder(p, h, r)
  PROVE  InOrder(Append(p, e), h, r)
<1> DEFINE q == Append(p, e)
<1>1. /\ DOMAIN p = 1..Len(p) /\ DOMAIN q = 1..(Len(p) + 1) /\ Len(p) \in Nat
      /\ \A i \in 1..Len(p) : q[i] = p[i]
      /\ q[Len(p) + 1] = e
  BY AppendProperties
<1>2. {q[i].n : i \in DOMAIN q} \ {0} = {p[i].n : i \in DOMAIN p} \ {0}
  <2>1. ASSUME NEW i \in DOMAIN q  PROVE q[i].n \in {p[j].n : j \in DOMAIN p} \cup {0}
    <3>1. CASE i \in DOMAIN p  BY <1>1, <3>1
    <3>2. CASE i \notin DOMAIN p  BY <1>1, <3>2
    <3>3. QED  BY <3>1, <3>2
  <2>2. ASSUME NEW i \in DOMAIN p  PROVE p[i].n \in {q[j].n : j \in DOMAIN q}
    <3>1. i \in DOMAIN q /\ q[i] = p[i]  BY <1>1
    <3>2. QED  BY <3>1
  <2>3. QED  BY <2>1, <2>2
<1>3. ~IsData(e)  BY DEF IsData
<1>4. \A i, j \in DOMAIN q : i < j /\ IsData(q[i]) /\ IsData(q[j]) => q[i].n < q[j].n
  BY <1>1, <1>3 DEF InOrder
<1>5. QED  BY <1>2, <1>4 DEF InOrder

LEMMA EventKeepsOrder ==
  ASSUME NEW p \in Seq(Events), NEW h \in Seq(Nat), NEW r \in Nat, NEW e \in Events,
         e.n = r + 1, Len(h) <= r, InOrder(p, h, r)
  PROVE  InOrder(Append(p, e), h, r + 1)
<1> DEFINE q == Append(p, e)
<1>1. /\ DOMAIN p = 1..Len(p) /\ DOMAIN q = 1..(Len(p) + 1) /\ Len(p) \in Nat
      /\ \A i \in 1..Len(p) : q[i] = p[i]
      /\ q[Len(p) + 1] = e /\ Len(h) \in Nat
  BY AppendProperties
<1>2. {p[i].n : i \in DOMAIN p} \ {0} = (Len(h) + 1)..r  BY DEF InOrder
<1>3. {q[i].n : i \in DOMAIN q} \ {0} = (Len(h) + 1)..(r + 1)
  <2>1. ASSUME NEW i \in DOMAIN q, q[i].n # 0  PROVE q[i].n \in (Len(h) + 1)..(r + 1)
    <3>1. CASE i \in DOMAIN p
      <4>1. q[i] = p[i]  BY <1>1, <3>1
      <4>2. p[i].n \in {p[j].n : j \in DOMAIN p} \ {0}  BY <2>1, <3>1, <4>1
      <4>3. p[i].n \in (Len(h) + 1)..r  BY <1>2, <4>2
      <4>4. QED  BY <1>1, <4>1, <4>3
    <3>2. CASE i \notin DOMAIN p  BY <1>1, <3>2
    <3>3. QED  BY <3>1, <3>2
  <2>2. ASSUME NEW n \in (Len(h) + 1)..(r + 1)  PROVE n \in {q[j].n : j \in DOMAIN q} \ {0}
    <3>1. CASE n = r + 1
      <4>1. Len(p) + 1 \in DOMAIN q /\ q[Len(p) + 1].n = n  BY <1>1, <3>1
      <4>2. QED  BY <3>1, <4>1
    <3>2. CASE n # r + 1
      <4>1. n \in (Len(h) + 1)..r  BY <1>1, <3>2
      <4>2. PICK i \in DOMAIN p : p[i].n = n /\ n # 0  BY <1>2, <4>1
      <4>3. i \in DOMAIN q /\ q[i] = p[i]  BY <1>1
      <4>4. QED  BY <4>2, <4>3
    <3>3. QED  BY <3>1, <3>2
  <2>3. QED  BY <2>1, <2>2
<1>4. ASSUME NEW i \in DOMAIN q, NEW j \in DOMAIN q, i < j, IsData(q[i]), IsData(q[j])
      PROVE  q[i].n < q[j].n
  <2>1. i \in DOMAIN p /\ q[i] = p[i]  BY <1>1, <1>4
  <2>2. CASE j \in DOMAIN p  BY <1>1, <1>4, <2>1, <2>2 DEF InOrder
  <2>3. CASE j \notin DOMAIN p
    <3>1. q[j].n = r + 1  BY <1>1, <2>3
    <3>2. p[i].n \in {p[k].n : k \in DOMAIN p} \ {0}  BY <1>4, <2>1 DEF IsData
    <3>3. p[i].n \in (Len(h) + 1)..r  BY <1>2, <3>2
    <3>4. QED  BY <1>1, <2>1, <3>1, <3>3
  <2>4. QED  BY <2>2, <2>3
<1>5. QED  BY <1>3, <1>4 DEF InOrder

\* The first of what is on the way is a notice, or the event after the last one heard.
LEMMA TakeKeepsOrder ==
  ASSUME NEW p \in Seq(Events), NEW h \in Seq(Nat), NEW r \in Nat, p # <<>>,
         InOrder(p, h, r), Len(h) <= r,
         NEW g, g = IF IsData(Head(p)) THEN Append(h, Head(p).n) ELSE h
  PROVE  InOrder(Tail(p), g, r) /\ Len(g) <= r
<1> DEFINE q == Tail(p)
           e == Head(p)
<1>1. /\ Len(p) \in Nat \ {0} /\ DOMAIN p = 1..Len(p) /\ DOMAIN q = 1..(Len(p) - 1)
      /\ e = p[1] /\ \A i \in DOMAIN q : q[i] = p[i + 1] /\ i + 1 \in DOMAIN p
      /\ \A i \in DOMAIN p : i # 1 => i - 1 \in DOMAIN q
      /\ 1 \in DOMAIN p /\ Len(h) \in Nat
  BY HeadTailProperties
<1>2. \A i \in DOMAIN p : p[i].n \in Nat
  <2>1. \A x \in Events : x.n \in Nat  BY Numbers DEF Events
  <2>2. \A i \in DOMAIN p : p[i] \in Events  BY <1>1, ElementOfSeq
  <2>3. QED  BY <2>1, <2>2
<1>3. {p[i].n : i \in DOMAIN p} \ {0} = (Len(h) + 1)..r  BY DEF InOrder
<1>4. \A i, j \in DOMAIN q : i < j /\ IsData(q[i]) /\ IsData(q[j]) => q[i].n < q[j].n
  <2>1. ASSUME NEW i \in DOMAIN q, NEW j \in DOMAIN q, i < j, IsData(q[i]), IsData(q[j])
        PROVE  q[i].n < q[j].n
    <3>1. i + 1 \in DOMAIN p /\ j + 1 \in DOMAIN p /\ i + 1 < j + 1
      BY <1>1, <2>1
    <3>2. q[i] = p[i + 1] /\ q[j] = p[j + 1]  BY <1>1
    <3>3. QED  BY <2>1, <3>1, <3>2 DEF InOrder
  <2>2. QED  BY <2>1
<1>5. CASE ~IsData(e)
  <2>1. e.n = 0 /\ g = h  BY <1>1, <1>2, <1>5 DEF IsData
  <2>2. {q[i].n : i \in DOMAIN q} \ {0} = {p[i].n : i \in DOMAIN p} \ {0}
    <3>1. ASSUME NEW i \in DOMAIN q  PROVE q[i].n \in {p[j].n : j \in DOMAIN p}
      BY <1>1
    <3>2. ASSUME NEW i \in DOMAIN p, p[i].n # 0  PROVE p[i].n \in {q[j].n : j \in DOMAIN q}
      <4>1. i # 1  BY <1>1, <2>1, <3>2
      <4>2. i - 1 \in DOMAIN q  BY <1>1, <4>1
      <4>3. q[i - 1] = p[i]  BY <1>1, <4>2
      <4>4. QED  BY <4>2, <4>3
    <3>3. QED  BY <3>1, <3>2
  <2>3. QED  BY <1>3, <1>4, <2>1, <2>2 DEF InOrder
<1>6. CASE IsData(e)
  <2>1. p[1].n \in (Len(h) + 1)..r
    <3>1. p[1].n \in {p[i].n : i \in DOMAIN p} \ {0}  BY <1>1, <1>6 DEF IsData
    <3>2. QED  BY <1>3, <3>1
  <2>2. p[1].n = Len(h) + 1
    <3>1. Len(h) + 1 \in (Len(h) + 1)..r  BY <1>1, <2>1
    <3>2. PICK i \in DOMAIN p : p[i].n = Len(h) + 1  BY <1>3, <3>1
    <3>3. CASE i = 1  BY <3>2, <3>3
    <3>4. CASE i # 1
      <4>1. IsData(p[i]) /\ IsData(p[1]) /\ 1 < i  BY <1>1, <1>6, <3>2, <3>4 DEF IsData
      <4>2. p[1].n < p[i].n  BY <1>1, <4>1 DEF InOrder
      <4>3. QED  BY <1>1, <2>1, <3>2, <4>2
    <3>5. QED  BY <3>3, <3>4
  <2>3. g = Append(h, Len(h) + 1)  BY <1>1, <1>6, <2>2
  <2>4. /\ Len(g) = Len(h) + 1 /\ DOMAIN g = 1..(Len(h) + 1) /\ DOMAIN h = 1..Len(h)
        /\ \A i \in 1..Len(h) : g[i] = h[i]
        /\ g[Len(h) + 1] = Len(h) + 1
    BY <1>1, <2>3, AppendProperties
  <2>5. \A i \in DOMAIN g : g[i] = i  BY <1>1, <2>4 DEF InOrder
  <2>6. {q[i].n : i \in DOMAIN q} \ {0} = ((Len(h) + 1) + 1)..r
    <3>1. ASSUME NEW i \in DOMAIN q, q[i].n # 0  PROVE q[i].n \in ((Len(h) + 1) + 1)..r
      <4>1. i + 1 \in DOMAIN p /\ q[i] = p[i + 1] /\ 1 < i + 1  BY <1>1
      <4>2. IsData(p[i + 1])  BY <1>2, <3>1, <4>1 DEF IsData
      <4>3. p[1].n < p[i + 1].n  BY <1>1, <1>6, <4>1, <4>2 DEF InOrder
      <4>4. p[i + 1].n \in {p[j].n : j \in DOMAIN p} \ {0}  BY <3>1, <4>1
      <4>5. p[i + 1].n \in (Len(h) + 1)..r  BY <1>3, <4>4
      <4>6. QED  BY <1>1, <2>2, <4>1, <4>3, <4>5
    <3>2. ASSUME NEW n \in ((Len(h) + 1) + 1)..r  PROVE n \in {q[i].n : i \in DOMAIN q} \ {0}
      <4>1. n \in (Len(h) + 1)..r /\ n # Len(h) + 1 /\ n # 0  BY <1>1
      <4>2. PICK i \in DOMAIN p : p[i].n = n  BY <1>3, <4>1
      <4>3. i # 1  BY <2>2, <4>1, <4>2
      <4>4. i - 1 \in DOMAIN q  BY <1>1, <4>3
      <4>5. q[i - 1] = p[i]  BY <1>1, <4>4
      <4>6. QED  BY <4>1, <4>2, <4>4, <4>5
    <3>3. QED  BY <3>1, <3>2
  <2>7. QED  BY <1>1, <1>4, <2>1, <2>4, <2>5, <2>6 DEF InOrder
<1>7. QED  BY <1>5, <1>6

LEMMA PipeTypes ==
  ASSUME IInv
  PROVE  /\ 1 \in Feeds /\ inbox.account \in Seq(Events) /\ feeds[1].buffer \in Seq(Events)
         /\ OnTheWay \in Seq(Events) /\ feeds[1].read \in Nat /\ feeds[1].read \in 0..MaxEvents
         /\ heard \in Seq(Nat) /\ Len(heard) \in Nat
<1>1. 1 \in Feeds  BY DEF IInv, FeedTypes, Feeds
<1>2. feeds[1].buffer \in Seq(Events) /\ feeds[1].read \in 0..MaxEvents
  BY <1>1, FeedFacts DEF FeedBounds
<1>3. inbox.account \in Seq(Events) /\ heard \in Seq(Nat)  BY DEF IInv, FeedTypes
<1>4. QED  BY <1>1, <1>2, <1>3, Numbers, ConcatProperties DEF OnTheWay

LEMMA InitOrder == Init => OrderInv
<1> SUFFICES ASSUME Init PROVE OrderInv  OBVIOUS
<1>1. IInv  BY InitIInv
<1>2. feeds[1].buffer = <<>> /\ feeds[1].read = 0 /\ inbox.account = <<>> /\ heard = <<>>
  BY DEF Init, Spawned
<1>3. OnTheWay = <<>>  BY <1>2 DEF OnTheWay
<1>4. InOrder(OnTheWay, heard, 0)
  <2>1. {OnTheWay[i].n : i \in DOMAIN OnTheWay} = {} /\ DOMAIN OnTheWay = {}  BY <1>3
  <2>2. (Len(heard) + 1)..0 = {} /\ DOMAIN heard = {}  BY <1>2
  <2>3. QED  BY <2>1, <2>2 DEF InOrder
<1>5. QED  BY <1>1, <1>2, <1>4 DEF OrderInv

\* Steps that leave the account's feed, its inbox and what was heard alone, or end the session.
LEMMA ElsewhereKeepsOrder ==
  ASSUME OrderInv, IInv', heard' = heard, feeds'[1].read = feeds[1].read,
         session' = "open" => /\ session = "open" /\ inbox'.account = inbox.account
                              /\ feeds'[1].buffer = feeds[1].buffer
  PROVE  OrderInv'
  BY DEF OrderInv, OnTheWay

\* A notice at the end of the feed's buffer.
LEMMA NoticeOrder ==
  ASSUME OrderInv, IInv', heard' = heard, feeds'[1].read = feeds[1].read, session' = session,
         inbox' = inbox, feeds'[1].buffer = Append(feeds[1].buffer, Notice(1))
  PROVE  OrderInv'
<1>1. IInv /\ 0 \in 0..MaxEvents  BY Numbers DEF OrderInv
<1>2. Notice(1) \in Events /\ Notice(1).n = 0
  BY <1>1, PipeTypes, EventType DEF IInv, Notice
<1>3. OnTheWay' = Append(OnTheWay, Notice(1))
  BY <1>1, <1>2, PipeTypes, AppendConcat DEF OnTheWay
<1>4. session = "open" => InOrder(Append(OnTheWay, Notice(1)), heard, feeds[1].read)
  BY <1>1, <1>2, PipeTypes, NoticeKeepsOrder DEF OrderInv
<1>5. QED  BY <1>3, <1>4 DEF OrderInv

LEMMA ReadOrder ==
  ASSUME OrderInv, IInv', Read(1)
  PROVE  OrderInv'
<1> DEFINE e == Event(1, feeds[1].read + 1)
<1>1. IInv  BY DEF OrderInv
<1>2. /\ feeds'[1].buffer = Append(feeds[1].buffer, e) /\ feeds'[1].read = feeds[1].read + 1
      /\ UNCHANGED <<session, inbox, heard>>
  BY <1>1, PipeTypes, ReadSteps DEF Read
<1>3. e \in Events /\ e.n = feeds[1].read + 1
  <2>1. feeds[1].read + 1 \in 0..MaxEvents  BY <1>1, PipeTypes, Numbers DEF Read
  <2>2. QED  BY <1>1, <2>1, PipeTypes, EventType DEF IInv, Event
<1>4. OnTheWay' = Append(OnTheWay, e)
  <2>1. OnTheWay' = inbox.account \o Append(feeds[1].buffer, e)  BY <1>2 DEF OnTheWay
  <2>2. inbox.account \in Seq(Events) /\ feeds[1].buffer \in Seq(Events)  BY <1>1, PipeTypes
  <2>3. QED  BY <1>3, <2>1, <2>2, AppendConcat DEF OnTheWay
<1>5. session = "open" => InOrder(Append(OnTheWay, e), heard, feeds[1].read + 1)
  BY <1>1, <1>3, PipeTypes, EventKeepsOrder DEF OrderInv
<1>6. session = "open" => Len(heard') <= feeds'[1].read  BY <1>1, <1>2, PipeTypes DEF OrderInv
<1>7. QED  BY <1>2, <1>4, <1>5, <1>6 DEF OrderInv

LEMMA ForwardOrder ==
  ASSUME OrderInv, IInv', Forward(1)
  PROVE  OrderInv'
<1>1. IInv  BY DEF OrderInv
<1>2. feeds[1].buffer # <<>> /\ feeds'[1].buffer = Tail(feeds[1].buffer)
      /\ feeds'[1].read = feeds[1].read /\ UNCHANGED <<session, heard>>
  <2>1. feeds[1] \in FeedRecords  BY <1>1, PipeTypes, FeedFacts
  <2>2. feeds' = [feeds EXCEPT ![1].buffer = Tail(@)] /\ 1 \in DOMAIN feeds
    BY <1>1, PipeTypes DEF Forward, Feeds
  <2>3. QED  BY <2>1, <2>2 DEF Forward, FeedRecords
<1>3. CASE session = "open"
  <2>1. inbox' = [inbox EXCEPT !.account = Append(@, Head(feeds[1].buffer))]
    BY <1>3 DEF Forward, Kind
  <2>2. inbox'.account = Append(inbox.account, Head(feeds[1].buffer))
    BY <1>1, <2>1 DEF IInv, FeedTypes
  <2>3. OnTheWay' = OnTheWay
    BY <1>1, <1>2, <2>2, PipeTypes, ForwardConcat DEF OnTheWay
  <2>4. QED  BY <1>2, <2>3 DEF OrderInv
<1>4. CASE session # "open"  BY <1>2, <1>4 DEF OrderInv
<1>5. QED  BY <1>3, <1>4

LEMMA HandleOrder ==
  ASSUME OrderInv, IInv', HandleAccount
  PROVE  OrderInv'
<1>1. IInv  BY DEF OrderInv
<1>2. /\ inbox.account # <<>> /\ inbox'.account = Tail(inbox.account)
      /\ UNCHANGED <<feeds, session>>
      /\ heard' = IF IsData(Head(inbox.account)) THEN Append(heard, Head(inbox.account).n)
                  ELSE heard
  BY <1>1 DEF HandleAccount, IInv, FeedTypes
<1>3. /\ OnTheWay # <<>> /\ Head(OnTheWay) = Head(inbox.account)
      /\ OnTheWay' = Tail(OnTheWay)
  <2>1. OnTheWay' = Tail(inbox.account) \o feeds[1].buffer  BY <1>2 DEF OnTheWay
  <2>2. inbox.account \in Seq(Events) /\ feeds[1].buffer \in Seq(Events)  BY <1>1, PipeTypes
  <2>3. QED  BY <1>2, <2>1, <2>2, TailConcat DEF OnTheWay
<1>4. CASE session = "open"
  <2>1. /\ InOrder(OnTheWay, heard, feeds[1].read) /\ Len(heard) <= feeds[1].read
        /\ heard' = IF IsData(Head(OnTheWay)) THEN Append(heard, Head(OnTheWay).n) ELSE heard
    BY <1>2, <1>3, <1>4 DEF OrderInv
  <2>2. /\ OnTheWay \in Seq(Events) /\ heard \in Seq(Nat) /\ feeds[1].read \in Nat
    BY <1>1, PipeTypes
  <2>3. InOrder(Tail(OnTheWay), heard', feeds[1].read) /\ Len(heard') <= feeds[1].read
    BY <1>3, <2>1, <2>2, TakeKeepsOrder
  <2>4. QED  BY <1>2, <1>3, <2>3 DEF OrderInv
<1>5. CASE session # "open"  BY <1>2, <1>5 DEF OrderInv
<1>6. QED  BY <1>4, <1>5

LEMMA FeedStepOrder ==
  ASSUME OrderInv, NEW f \in Feeds, FeedStep(f), IInv'
  PROVE  OrderInv'
<1>1. IInv  BY DEF OrderInv
<1>2. /\ feeds' = [feeds EXCEPT ![f] = feeds'[f]] /\ UNCHANGED <<session, heard>>
  BY <1>1, FeedStepSteps
<1>3. CASE f = 1
  <2>1. CASE Forward(1)  BY <2>1, ForwardOrder
  <2>2. CASE Read(1)  BY <2>2, ReadOrder
  <2>3. CASE Greet(1) \/ SayDisconnected(1) \/ HelperEnds(1)
    <3>1. feeds'[1].read = feeds[1].read
      <4>1. feeds[1] \in FeedRecords /\ 1 \in DOMAIN feeds  BY <1>1, PipeTypes, FeedFacts DEF Feeds
      <4>2. CASE Greet(1)  BY <4>1, <4>2 DEF Greet, Sends, FeedRecords
      <4>3. CASE SayDisconnected(1)  BY <4>1, <4>3 DEF SayDisconnected, Sends, FeedRecords
      <4>4. CASE HelperEnds(1)  BY <1>1, <1>3, <4>4, HelperEndsSteps
      <4>5. QED  BY <2>3, <4>2, <4>3, <4>4
    <3>2. inbox' = inbox  BY <2>3 DEF Greet, SayDisconnected, HelperEnds
    <3>3. \/ feeds'[1].buffer = feeds[1].buffer
          \/ feeds'[1].buffer = Append(feeds[1].buffer, Notice(1))
      BY <1>1, <1>3, <2>3, GreetSteps, SayDisconnectedSteps, HelperEndsSteps
    <3>4. CASE feeds'[1].buffer = feeds[1].buffer
      BY <1>2, <3>1, <3>2, <3>4, ElsewhereKeepsOrder
    <3>5. CASE feeds'[1].buffer = Append(feeds[1].buffer, Notice(1))
      BY <1>2, <3>1, <3>2, <3>5, NoticeOrder
    <3>6. QED  BY <3>3, <3>4, <3>5
  <2>4. CASE ConnectOk(1) \/ ConnectFails(1) \/ LinkEnds(1) \/ Wake(1)
    <3>1. feeds[1] \in FeedRecords /\ 1 \in DOMAIN feeds  BY <1>1, PipeTypes, FeedFacts DEF Feeds
    <3>2. feeds'[1].read = feeds[1].read /\ feeds'[1].buffer = feeds[1].buffer /\ inbox' = inbox
      BY <2>4, <3>1 DEF ConnectOk, ConnectFails, LinkEnds, Wake, FeedRecords
    <3>3. QED  BY <1>2, <3>2, ElsewhereKeepsOrder
  <2>5. QED  BY <1>3, <2>1, <2>2, <2>3, <2>4 DEF FeedStep, Driven
<1>4. CASE f # 1
  <2>1. feeds'[1] = feeds[1]  BY <1>1, <1>2, <1>4, PipeTypes DEF Feeds
  <2>2. inbox'.account = inbox.account
    <3>1. inbox \in [account : Seq(Events), chart : Seq(Events)]  BY <1>1 DEF IInv, FeedTypes
    <3>2. Kind(f) = "chart"  BY <1>4 DEF Kind
    <3>3. QED
      BY <3>1, <3>2 DEF FeedStep, Driven, ConnectOk, ConnectFails, Greet, SayDisconnected, Wake,
                        Read, LinkEnds, HelperEnds, Forward
  <2>3. QED  BY <1>2, <2>1, <2>2, ElsewhereKeepsOrder
<1>5. QED  BY <1>3, <1>4

LEMMA NextOrder == OrderInv /\ [Next]_vars => OrderInv'
<1> SUFFICES ASSUME OrderInv, [Next]_vars  PROVE OrderInv'  OBVIOUS
<1>1. IInv /\ IInv'  BY NextIInv DEF OrderInv
<1>2. ASSUME NEW f \in Feeds, FeedStep(f)  PROVE OrderInv'  BY <1>1, <1>2, FeedStepOrder
<1>3. CASE HandleAccount  BY <1>1, <1>3, HandleOrder
<1>4. CASE TakeChart \/ HandleChart
  <2>1. UNCHANGED <<session, feeds, heard>>  BY <1>4 DEF TakeChart, HandleChart
  <2>2. inbox'.account = inbox.account
    BY <1>1, <1>4 DEF TakeChart, HandleChart, IInv, FeedTypes
  <2>3. QED  BY <1>1, <2>1, <2>2, ElsewhereKeepsOrder
<1>5. ASSUME NEW s \in Symbols, SubscribeChart(s)  PROVE OrderInv'
  <2>1. /\ feeds' = Append(Stopped, Spawned(s)) /\ UNCHANGED <<session, inbox, heard>>
    BY <1>5 DEF SubscribeChart
  <2>2. /\ Stopped \in Seq(FeedRecords) /\ Len(Stopped) >= 1 /\ Stopped[1] = feeds[1]
        /\ Spawned(s) \in FeedRecords
    BY <1>1, StoppedFeeds, SpawnedType DEF IInv, FeedTypes
  <2>3. feeds'[1] = feeds[1]  BY <2>1, <2>2, AppendProperties
  <2>4. QED  BY <1>1, <2>1, <2>3, ElsewhereKeepsOrder
<1>6. CASE UnsubscribeChart
  <2>1. feeds'[1] = feeds[1] /\ UNCHANGED <<session, inbox, heard>>
    BY <1>1, <1>6, StoppedFeeds DEF UnsubscribeChart
  <2>2. QED  BY <1>1, <2>1, ElsewhereKeepsOrder
<1>7. CASE EndSession
  <2>1. feeds'[1] = feeds[1] /\ session' # "open" /\ UNCHANGED heard
    BY <1>1, <1>7, StoppedFeeds DEF EndSession
  <2>2. QED  BY <1>1, <2>1, ElsewhereKeepsOrder
<1>8. CASE UNCHANGED vars  BY <1>1, <1>8, ElsewhereKeepsOrder DEF vars
<1>9. QED  BY <1>2, <1>3, <1>4, <1>5, <1>6, <1>7, <1>8 DEF Next, SessionTask

-----------------------------------------------------------------------------
(* Strays.  What may still be taken for another symbol's is waiting somewhere: in the buffer of *)
(* an aborted chart feed, in the inbox of the chart task or in its hand.                         *)

Behind ==
    {p \in Feeds \X (1..(Cap + 1)) :
        p[1] > 1 /\ feeds[p[1]].task = "aborted" /\ p[2] <= Len(feeds[p[1]].buffer)}
OthersIn(q, s) == {i \in 1..Len(q) : q[i].of # s}
HeldStray == IF hand # Null /\ hand.of # chart THEN 1 ELSE 0
Waiting == Cardinality(Behind) + Cardinality(OthersIn(inbox.chart, chart)) + HeldStray

\* A chart feed and the channels after it carry events of symbols, each feed those of its own.
OwnEvents ==
    /\ \A f \in Feeds : /\ f > 1 => feeds[f].of \in Symbols
                        /\ \A i \in DOMAIN feeds[f].buffer : feeds[f].buffer[i].of = feeds[f].of
    /\ \A i \in DOMAIN inbox.chart : inbox.chart[i].of \in Symbols
    /\ hand # Null => hand.of \in Symbols

\* The bound of the strays is not inductive, it says nothing of those still to come: they count
\* as well, and each abort adds what the channels can hold.
Balance == 2 * Cap + 2
StrayInv ==
    /\ IInv
    /\ OwnEvents
    /\ session = "open" /\ chart # Null => LastIsChart
    /\ strays + Waiting <= aborts * Balance

LEMMA OthersType ==
  ASSUME NEW q \in Seq(Events), NEW s
  PROVE  /\ IsFiniteSet(OthersIn(q, s)) /\ Cardinality(OthersIn(q, s)) \in Nat
         /\ Cardinality(OthersIn(q, s)) <= Len(q)
<1>1. Len(q) \in Nat /\ OthersIn(q, s) \subseteq 1..Len(q)  BY DEF OthersIn
<1>2. IsFiniteSet(1..Len(q)) /\ Cardinality(1..Len(q)) = Len(q)
  <2>1. 1 \in Int /\ Len(q) \in Int /\ (1 > Len(q) => Len(q) = 0)  BY <1>1
  <2>2. QED  BY <2>1, FS_Interval
<1>3. QED  BY <1>1, <1>2, FS_Subset, FS_CardinalityType

\* One more event counts if it is of another symbol, the first one no longer counts once taken.
LEMMA OthersAppend ==
  ASSUME NEW q \in Seq(Events), NEW e \in Events, NEW s
  PROVE  Cardinality(OthersIn(Append(q, e), s))
           = Cardinality(OthersIn(q, s)) + (IF e.of # s THEN 1 ELSE 0)
<1> DEFINE r == Append(q, e)
           n == Len(q) + 1
<1>1. /\ Len(q) \in Nat /\ Len(r) = n /\ r[n] = e
      /\ \A i \in 1..Len(q) : r[i] = q[i]
  BY AppendProperties
<1>2. 1..n = 1..Len(q) \cup {n} /\ n \notin 1..Len(q)  BY <1>1
<1>3. n \notin OthersIn(q, s)  BY <1>2 DEF OthersIn
<1>4. CASE e.of # s
  <2>1. OthersIn(r, s) = OthersIn(q, s) \cup {n}  BY <1>1, <1>2, <1>4 DEF OthersIn
  <2>2. QED  BY <1>3, <1>4, <2>1, OthersType, FS_AddElement
<1>5. CASE e.of = s
  <2>1. OthersIn(r, s) = OthersIn(q, s)  BY <1>1, <1>2, <1>5 DEF OthersIn
  <2>2. QED  BY <1>5, <2>1, OthersType
<1>6. QED  BY <1>4, <1>5

LEMMA OthersTail ==
  ASSUME NEW q \in Seq(Events), q # <<>>, NEW s
  PROVE  Cardinality(OthersIn(q, s))
           = Cardinality(OthersIn(Tail(q), s)) + (IF Head(q).of # s THEN 1 ELSE 0)
<1> DEFINE r == Tail(q)
           S == OthersIn(r, s)
           T == OthersIn(q, s) \ {1}
           shift == [i \in S |-> i + 1]
<1>1. /\ r \in Seq(Events) /\ Len(q) \in Nat \ {0} /\ Len(r) = Len(q) - 1
      /\ \A i \in 1..Len(r) : r[i] = q[i + 1] /\ i + 1 \in 1..Len(q)
      /\ \A i \in 1..Len(q) : i # 1 => i - 1 \in 1..Len(r)
      /\ Head(q) = q[1] /\ 1 \in 1..Len(q)
  BY HeadTailProperties
<1>2. shift \in [S -> T]
  BY <1>1 DEF OthersIn
<1>3. \A i, j \in S : shift[i] = shift[j] => i = j  BY <1>1 DEF OthersIn
<1>4. \A j \in T : \E i \in S : shift[i] = j
  <2> SUFFICES ASSUME NEW j \in T  PROVE \E i \in S : shift[i] = j
    OBVIOUS
  <2>1. j \in 1..Len(q) /\ j # 1 /\ q[j].of # s  BY DEF OthersIn
  <2>2. j - 1 \in 1..Len(r) /\ r[j - 1] = q[j]  BY <1>1, <2>1
  <2>3. j - 1 \in S /\ shift[j - 1] = j  BY <2>1, <2>2 DEF OthersIn
  <2>4. QED  BY <2>3
<1>5. shift \in Bijection(S, T)
  BY <1>2, <1>3, <1>4 DEF Bijection, Injection, Surjection, IsInjective
<1>6. ExistsBijection(S, T)  BY <1>5 DEF ExistsBijection
<1>7. IsFiniteSet(S) /\ Cardinality(S) \in Nat  BY <1>1, OthersType
<1>8. Cardinality(T) = Cardinality(S)  BY <1>6, <1>7, FS_Bijection
<1>9. Cardinality(T) = IF 1 \in OthersIn(q, s) THEN Cardinality(OthersIn(q, s)) - 1
                       ELSE Cardinality(OthersIn(q, s))
  BY OthersType, FS_RemoveElement
<1>10. 1 \in OthersIn(q, s) <=> Head(q).of # s  BY <1>1 DEF OthersIn
<1>11. QED  BY <1>7, <1>8, <1>9, <1>10, OthersType

LEMMA BehindType ==
  ASSUME IInv
  PROVE  IsFiniteSet(Behind) /\ Cardinality(Behind) \in Nat
<1>1. Feeds = 1..Len(feeds) /\ Len(feeds) \in Nat  BY DEF IInv, FeedTypes, Feeds
<1>2. IsFiniteSet(Feeds) /\ IsFiniteSet(1..(Cap + 1))  BY <1>1, Numbers, FS_Interval
<1>3. IsFiniteSet(Feeds \X (1..(Cap + 1)))  BY <1>2, FS_Product
<1>4. Behind \subseteq Feeds \X (1..(Cap + 1))  BY DEF Behind
<1>5. QED  BY <1>3, <1>4, FS_Subset, FS_CardinalityType

LEMMA WaitingType ==
  ASSUME IInv
  PROVE  /\ Cardinality(Behind) \in Nat
         /\ \A s : Cardinality(OthersIn(inbox.chart, s)) \in 0..Cap
         /\ HeldStray \in 0..1 /\ Waiting \in Nat /\ Balance \in Nat
         /\ aborts \in Nat /\ strays \in Nat /\ aborts * Balance \in Nat
         /\ (aborts + 1) * Balance = aborts * Balance + Balance
<1>1. inbox.chart \in Seq(Events) /\ Len(inbox.chart) <= Cap /\ Cap \in Nat
  BY Numbers DEF IInv, FeedTypes, Bounds
<1>2. \A s : Cardinality(OthersIn(inbox.chart, s)) \in 0..Cap
  BY <1>1, OthersType
<1>3. HeldStray \in 0..1  BY DEF HeldStray
<1>4. Balance \in Nat /\ aborts \in Nat /\ strays \in Nat  BY Numbers DEF Balance, IInv, FeedTypes
<1>5. aborts * Balance \in Nat /\ (aborts + 1) * Balance = aborts * Balance + Balance
  BY ONLY <1>4
<1>6. Cardinality(Behind) \in Nat  BY BehindType
<1>7. QED  BY <1>1, <1>2, <1>3, <1>4, <1>5, <1>6 DEF Waiting

WaitingNumbers ==
    /\ Cardinality(Behind) \in Nat
    /\ Cardinality(OthersIn(inbox.chart, chart)) \in 0..Cap
    /\ HeldStray \in 0..1 /\ Waiting \in Nat /\ strays \in Nat

LEMMA WaitingNow == IInv => WaitingNumbers
<1> SUFFICES ASSUME IInv PROVE WaitingNumbers  OBVIOUS
<1>1. QED  BY WaitingType DEF WaitingNumbers

\* The same of the state after a step.
LEMMA WaitingAfter == IInv' => WaitingNumbers'
  BY WaitingNow, PTL

LEMMA InitStray == Init => StrayInv
<1> SUFFICES ASSUME Init PROVE StrayInv  OBVIOUS
<1>1. IInv  BY InitIInv
<1>2. /\ feeds = <<Spawned(Account)>> /\ Spawned(Account) \in FeedRecords
      /\ inbox.chart = <<>> /\ hand = Null /\ chart = Null /\ strays = 0 /\ aborts = 0
  BY SpawnedType DEF Init
<1>3. Feeds = {1} /\ feeds[1].buffer = <<>>  BY <1>2 DEF Feeds, Spawned
<1>4. OwnEvents  BY <1>2, <1>3 DEF OwnEvents
<1>5. Behind = {} /\ OthersIn(inbox.chart, chart) = {}
  BY <1>2, <1>3 DEF Behind, OthersIn
<1>6. Waiting = 0
  <2>1. Cardinality(Behind) = 0 /\ Cardinality(OthersIn(inbox.chart, chart)) = 0
    BY <1>5, FS_EmptySet
  <2>2. HeldStray = 0  BY <1>2 DEF HeldStray
  <2>3. QED  BY <2>1, <2>2 DEF Waiting
<1>7. strays + Waiting <= aborts * Balance
  BY <1>1, <1>2, <1>6, WaitingType
<1>8. QED  BY <1>1, <1>2, <1>4, <1>7 DEF StrayInv

-----------------------------------------------------------------------------
\* What a step of a feed does to its buffer: it stays, an event of the feed's own is added, or
\* the first one is passed on.
LEMMA FeedStepBuffer ==
  ASSUME IInv, NEW f \in Feeds, FeedStep(f)
  PROVE  \/ Forward(f) /\ feeds'[f].buffer = Tail(feeds[f].buffer)
         \/ /\ inbox' = inbox
            /\ \/ feeds'[f].buffer = feeds[f].buffer
               \/ \E e \in Events : /\ e.of = feeds[f].of
                                    /\ feeds'[f].buffer = Append(feeds[f].buffer, e)
                                    /\ f = 1 \/ feeds[f].task # "aborted"
<1>1. feeds[f] \in FeedRecords  BY FeedFacts
<1>2. CASE Forward(f)
  <2>1. feeds'[f] = [feeds[f] EXCEPT !.buffer = Tail(@)]  BY <1>2 DEF Forward, Feeds
  <2>2. QED  BY <1>1, <1>2, <2>1 DEF FeedRecords
<1>3. CASE ConnectOk(f) \/ ConnectFails(f) \/ LinkEnds(f) \/ Wake(f)
  <2>1. feeds'[f].buffer = feeds[f].buffer /\ inbox' = inbox
    BY <1>1, <1>3 DEF ConnectOk, ConnectFails, LinkEnds, Wake, Feeds, FeedRecords
  <2>2. QED  BY <2>1
<1>4. Notice(f) \in Events /\ Notice(f).of = feeds[f].of
  BY EventType, Numbers DEF IInv, Notice
<1>5. CASE Greet(f) \/ SayDisconnected(f)
  <2>1. feeds'[f].buffer = Append(feeds[f].buffer, Notice(f))
    BY <1>5, GreetSteps, SayDisconnectedSteps
  <2>2. feeds[f].task # "aborted" /\ inbox' = inbox  BY <1>5 DEF Greet, SayDisconnected
  <2>3. QED  BY <1>4, <2>1, <2>2
<1>6. CASE Read(f)
  <2> DEFINE e == Event(f, feeds[f].read + 1)
  <2>1. feeds'[f].buffer = Append(feeds[f].buffer, e)  BY <1>6, ReadSteps
  <2>2. feeds[f].read + 1 \in 0..MaxEvents
    <3>1. feeds[f].read \in 0..MaxEvents  BY FeedFacts DEF FeedBounds
    <3>2. QED  BY <1>6, <3>1, Numbers DEF Read
  <2>3. e \in Events /\ e.of = feeds[f].of  BY <2>2, EventType DEF IInv, Event
  <2>4. feeds[f].task # "aborted" /\ inbox' = inbox  BY <1>6 DEF Read
  <2>5. QED  BY <2>1, <2>3, <2>4
<1>7. CASE HelperEnds(f)
  <2>1. inbox' = inbox  BY <1>7 DEF HelperEnds
  <2>2. CASE feeds' = [feeds EXCEPT ![f].helpers = @ - 1]
    <3>1. feeds'[f].buffer = feeds[f].buffer  BY <1>1, <2>2 DEF Feeds, FeedRecords
    <3>2. QED  BY <2>1, <3>1
  <2>3. CASE feeds' # [feeds EXCEPT ![f].helpers = @ - 1]
    <3>1. f = 1  BY <1>7, <2>3 DEF HelperEnds
    <3>2. \/ feeds'[f].buffer = feeds[f].buffer
          \/ feeds'[f].buffer = Append(feeds[f].buffer, Notice(f))
      BY <1>7, HelperEndsSteps
    <3>3. QED  BY <1>4, <2>1, <3>1, <3>2
  <2>4. QED  BY <2>2, <2>3
<1>8. QED  BY <1>2, <1>3, <1>5, <1>6, <1>7 DEF FeedStep, Driven

\* What the feeds and channels carry stays their own.
LEMMA FeedStepOwn ==
  ASSUME IInv, OwnEvents, NEW f \in Feeds, FeedStep(f)
  PROVE  OwnEvents'
<1>1. /\ feeds' = [feeds EXCEPT ![f] = feeds'[f]] /\ Steps(f, feeds'[f])
      /\ UNCHANGED <<chart, hand>>
  BY FeedStepSteps
<1>2. /\ Feeds' = Feeds /\ feeds'[f].of = feeds[f].of
      /\ \A g \in Feeds : g # f => feeds'[g] = feeds[g]
  BY <1>1 DEF Feeds, Steps
<1>3. feeds[f].buffer \in Seq(Events)  BY FeedFacts
<1>4. \A i \in DOMAIN feeds'[f].buffer : feeds'[f].buffer[i].of = feeds[f].of
  <2>1. CASE Forward(f) /\ feeds'[f].buffer = Tail(feeds[f].buffer)
    <3>1. feeds[f].buffer # <<>>  BY <2>1 DEF Forward
    <3>2. \A i \in DOMAIN Tail(feeds[f].buffer) :
              i + 1 \in DOMAIN feeds[f].buffer /\ Tail(feeds[f].buffer)[i] = feeds[f].buffer[i + 1]
      BY <1>3, <3>1, HeadTailProperties
    <3>3. QED  BY <2>1, <3>2 DEF OwnEvents
  <2>2. CASE feeds'[f].buffer = feeds[f].buffer  BY <2>2 DEF OwnEvents
  <2>3. ASSUME NEW e \in Events, e.of = feeds[f].of, feeds'[f].buffer = Append(feeds[f].buffer, e)
        PROVE  \A i \in DOMAIN feeds'[f].buffer : feeds'[f].buffer[i].of = feeds[f].of
    BY <1>3, <2>3, AppendProperties DEF OwnEvents
  <2>4. QED  BY <2>1, <2>2, <2>3, FeedStepBuffer
<1>5. \A i \in DOMAIN inbox'.chart : inbox'.chart[i].of \in Symbols
  <2>1. inbox \in [account : Seq(Events), chart : Seq(Events)]  BY DEF IInv, FeedTypes
  <2>2. CASE Forward(f) /\ session # "ended" /\ f > 1
    <3> DEFINE e == Head(feeds[f].buffer)
    <3>1. inbox'.chart = Append(inbox.chart, e) /\ feeds[f].buffer # <<>>
      BY <2>1, <2>2 DEF Forward, Kind
    <3>2. e = feeds[f].buffer[1] /\ 1 \in DOMAIN feeds[f].buffer  BY <1>3, <3>1
    <3>3. e.of \in Symbols  BY <2>2, <3>2 DEF OwnEvents
    <3>4. e \in Events  BY <1>3, <3>1
    <3>5. QED  BY <2>1, <3>1, <3>3, <3>4, AppendProperties DEF OwnEvents
  <2>3. CASE ~(Forward(f) /\ session # "ended" /\ f > 1)
    <3>1. inbox'.chart = inbox.chart
      <4>1. CASE Forward(f)
        <5>1. session = "ended" \/ f = 1  BY <2>3, <4>1 DEF Feeds, IInv, FeedTypes
        <5>2. QED  BY <2>1, <4>1, <5>1 DEF Forward, Kind
      <4>2. CASE ~Forward(f)  BY <4>2, FeedStepBuffer
      <4>3. QED  BY <4>1, <4>2
    <3>2. QED  BY <3>1 DEF OwnEvents
  <2>4. QED  BY <2>2, <2>3
<1>6. QED  BY <1>1, <1>2, <1>4, <1>5 DEF OwnEvents
\* A step of a feed leaves those waiting behind aborted feeds where they are, unless it passes
\* one of them on.
LEMMA FeedStepBehind ==
  ASSUME IInv, NEW f \in Feeds, FeedStep(f)
  PROVE  IF f > 1 /\ feeds[f].task = "aborted" /\ Forward(f)
         THEN Cardinality(Behind') = Cardinality(Behind) - 1
         ELSE Behind' = Behind
<1>1. /\ feeds' = [feeds EXCEPT ![f] = feeds'[f]]
      /\ (feeds'[f].task = "aborted") <=> (feeds[f].task = "aborted")
  BY FeedStepSteps DEF Steps
<1>2. Feeds' = Feeds /\ \A g \in Feeds : g # f => feeds'[g] = feeds[g]  BY <1>1 DEF Feeds
<1>3. /\ feeds[f].buffer \in Seq(Events) /\ Len(feeds[f].buffer) \in Nat
      /\ Len(feeds[f].buffer) <= Cap + 1
  BY FeedFacts DEF FeedBounds
<1>4. CASE f > 1 /\ feeds[f].task = "aborted" /\ Forward(f)
  <2> DEFINE n == Len(feeds[f].buffer)
  <2>1. feeds[f].buffer # <<>> /\ feeds'[f].buffer = Tail(feeds[f].buffer)
    <3>1. feeds[f] \in FeedRecords  BY FeedFacts
    <3>2. feeds'[f] = [feeds[f] EXCEPT !.buffer = Tail(@)]  BY <1>4 DEF Forward, Feeds
    <3>3. QED  BY <1>4, <3>1, <3>2 DEF Forward, FeedRecords
  <2>2. n \in 1..(Cap + 1) /\ Len(feeds'[f].buffer) = n - 1  BY <1>3, <2>1, Numbers
  <2>3. <<f, n>> \in Behind  BY <1>4, <2>2 DEF Behind
  <2>4. ASSUME NEW g \in Feeds, NEW i \in 1..(Cap + 1)
        PROVE  <<g, i>> \in Behind' <=> <<g, i>> \in Behind /\ <<g, i>> # <<f, n>>
    <3>1. <<g, i>> \in Behind' <=> g > 1 /\ feeds'[g].task = "aborted" /\ i <= Len(feeds'[g].buffer)
      BY <1>2 DEF Behind
    <3>2. <<g, i>> \in Behind <=> g > 1 /\ feeds[g].task = "aborted" /\ i <= Len(feeds[g].buffer)
      BY DEF Behind
    <3>3. CASE g = f  BY <1>1, <1>3, <2>2, <3>1, <3>2, <3>3
    <3>4. CASE g # f  BY <1>2, <3>1, <3>2, <3>4
    <3>5. QED  BY <3>3, <3>4
  <2>5. Behind' = Behind \ {<<f, n>>}
    <3>1. Behind \subseteq Feeds \X (1..(Cap + 1)) /\ Behind' \subseteq Feeds \X (1..(Cap + 1))
      BY <1>2 DEF Behind
    <3>2. QED  BY <2>4, <3>1
  <2>6. QED  BY <1>4, <2>3, <2>5, BehindType, FS_RemoveElement
<1>5. CASE ~(f > 1 /\ feeds[f].task = "aborted" /\ Forward(f))
  <2>1. f > 1 /\ feeds[f].task = "aborted" => feeds'[f].buffer = feeds[f].buffer
    BY <1>5, FeedStepBuffer
  <2>2. Behind' = Behind
    BY <1>1, <1>2, <2>1 DEF Behind
  <2>3. QED  BY <1>5, <2>2
<1>6. QED  BY <1>4, <1>5

\* Passing an event on moves it, and adds none that could be a stray: a feed that runs is of the
\* symbol the session takes its trades for.
LEMMA FeedStepWaiting ==
  ASSUME StrayInv, NEW f \in Feeds, FeedStep(f)
  PROVE  Waiting' <= Waiting
<1>1. IInv /\ IInv'  BY FeedStepIInv DEF StrayInv
<1>2. UNCHANGED <<session, chart, hand, strays, aborts>>  BY <1>1, FeedStepSteps
<1>3. HeldStray' = HeldStray  BY <1>2 DEF HeldStray
<1>4. inbox \in [account : Seq(Events), chart : Seq(Events)]  BY <1>1 DEF IInv, FeedTypes
<1> DEFINE A == Cardinality(Behind)
           O == Cardinality(OthersIn(inbox.chart, chart))
<1>5. /\ A \in Nat /\ O \in Nat /\ HeldStray \in Nat
      /\ A' \in Nat /\ O' \in Nat
  BY <1>1, WaitingType, WaitingAfter DEF WaitingNumbers
<1>6. CASE Forward(f) /\ session # "ended" /\ f > 1
  <2> DEFINE e == Head(feeds[f].buffer)
  <2>1. inbox'.chart = Append(inbox.chart, e) /\ feeds[f].buffer # <<>>
    BY <1>4, <1>6 DEF Forward, Kind
  <2>2. feeds[f].buffer \in Seq(Events)  BY <1>1, FeedFacts
  <2>3. e \in Events /\ e.of = feeds[f].of
    BY <2>1, <2>2 DEF StrayInv, OwnEvents
  <2>4. O' = O + (IF e.of # chart THEN 1 ELSE 0)
    BY <1>2, <1>4, <2>1, <2>3, OthersAppend
  <2>5. CASE feeds[f].task = "aborted"
    <3>1. A' = A - 1  BY <1>1, <1>6, <2>5, FeedStepBehind
    <3>2. QED  BY <1>3, <1>5, <2>4, <3>1 DEF Waiting
  <2>6. CASE feeds[f].task # "aborted"
    <3>1. feeds[f].of = chart  BY <1>1, <1>6, <2>6 DEF IInv, OneChartFeed, Running
    <3>2. Behind' = Behind  BY <1>1, <2>6, FeedStepBehind
    <3>3. QED  BY <1>3, <1>5, <2>3, <2>4, <3>1, <3>2 DEF Waiting
  <2>7. QED  BY <2>5, <2>6
<1>7. CASE ~(Forward(f) /\ session # "ended" /\ f > 1)
  <2>1. inbox'.chart = inbox.chart
    <3>1. CASE Forward(f)
      <4>1. session = "ended" \/ f = 1  BY <1>1, <1>7, <3>1 DEF Feeds, IInv, FeedTypes
      <4>2. QED  BY <1>4, <3>1, <4>1 DEF Forward, Kind
    <3>2. CASE ~Forward(f)  BY <1>1, <3>2, FeedStepBuffer
    <3>3. QED  BY <3>1, <3>2
  <2>2. O' = O  BY <1>2, <2>1
  <2>3. A' <= A  BY <1>1, <1>5, FeedStepBehind
  <2>4. QED  BY <1>3, <1>5, <2>2, <2>3 DEF Waiting
<1>8. QED  BY <1>6, <1>7

LEMMA FeedStepStray ==
  ASSUME StrayInv, NEW f \in Feeds, FeedStep(f)
  PROVE  StrayInv'
<1>1. IInv /\ IInv' /\ OwnEvents /\ OwnEvents'  BY FeedStepIInv, FeedStepOwn DEF StrayInv
<1>2. /\ feeds' = [feeds EXCEPT ![f] = feeds'[f]] /\ Steps(f, feeds'[f])
      /\ UNCHANGED <<session, chart, strays, aborts>>
  BY <1>1, FeedStepSteps
<1>3. LastIsChart' = LastIsChart
  <2>1. Len(feeds) \in Nat /\ feeds \in Seq(FeedRecords) /\ feeds'[f] \in FeedRecords
    BY <1>1, <1>2 DEF IInv, FeedTypes, Steps
  <2>2. Len(feeds') = Len(feeds) /\ \A g \in Feeds : g # f => feeds'[g] = feeds[g]
    BY <1>2, <2>1, ExceptSeq DEF Feeds
  <2>3. Feeds = 1..Len(feeds)  BY <2>1 DEF Feeds
  <2>4. QED  BY <1>2, <2>1, <2>2, <2>3 DEF LastIsChart, Steps
<1>4. Waiting' <= Waiting /\ Waiting \in Nat /\ Waiting' \in Nat
  BY <1>1, FeedStepWaiting, WaitingType, WaitingAfter DEF WaitingNumbers
<1>5. strays \in Nat /\ aborts * Balance \in Nat  BY <1>1, WaitingType
<1>6. strays' + Waiting' <= aborts' * Balance
  <2>1. strays' = strays /\ aborts' * Balance = aborts * Balance  BY <1>2
  <2>2. QED  BY <1>4, <1>5, <2>1 DEF StrayInv
<1>7. QED  BY <1>1, <1>2, <1>3, <1>6 DEF StrayInv, Balance

-----------------------------------------------------------------------------
\* An abort leaves behind what the buffer of the feed holds.
LEMMA StoppedBehind ==
  ASSUME IInv, Feeds \subseteq Feeds', \A f \in Feeds : feeds'[f] = Stopped[f],
         \A f \in Feeds' \ Feeds : feeds'[f].task # "aborted"
  PROVE  Cardinality(Behind') <= Cardinality(Behind) + (IF LastIsChart THEN Cap + 1 ELSE 0)
<1> DEFINE n == Len(feeds)
           more == {n} \X (1..Len(feeds[n].buffer))
<1>1. n \in Feeds /\ n \in Nat /\ Feeds = 1..n  BY DEF IInv, FeedTypes, Feeds
<1>2. Len(feeds[n].buffer) \in Nat /\ Len(feeds[n].buffer) <= Cap + 1
  BY <1>1, FeedFacts DEF FeedBounds
<1>3. ASSUME NEW f \in Feeds
      PROVE  /\ feeds'[f].buffer = feeds[f].buffer
             /\ feeds'[f].task = "aborted" => feeds[f].task = "aborted" \/ (f = n /\ LastIsChart)
  <2>1. feeds[f] \in FeedRecords  BY FeedFacts
  <2>2. feeds'[f] = IF f = n /\ LastIsChart THEN [feeds[f] EXCEPT !.task = "aborted"]
                    ELSE feeds[f]
    BY DEF Stopped
  <2>3. QED  BY <2>1, <2>2 DEF FeedRecords
<1>4. ASSUME NEW p \in Behind'
      PROVE  p \in Behind \/ (LastIsChart /\ p \in more)
  <2>1. PICK f \in Feeds', i \in 1..(Cap + 1) : p = <<f, i>>  BY DEF Behind
  <2>2. f > 1 /\ feeds'[f].task = "aborted" /\ i <= Len(feeds'[f].buffer)  BY <2>1 DEF Behind
  <2>3. f \in Feeds  BY <2>2
  <2>4. i <= Len(feeds[f].buffer)  BY <1>3, <2>2, <2>3
  <2>5. CASE feeds[f].task = "aborted"
    <3>1. <<f, i>> \in Behind  BY <2>2, <2>3, <2>4, <2>5 DEF Behind
    <3>2. QED  BY <2>1, <3>1
  <2>6. CASE f = n /\ LastIsChart
    <3>1. i \in 1..Len(feeds[n].buffer)  BY <1>2, <2>4, <2>6
    <3>2. QED  BY <2>1, <2>6, <3>1
  <2>7. QED  BY <1>3, <2>2, <2>3, <2>5, <2>6
<1>5. IsFiniteSet(Behind) /\ Cardinality(Behind) \in Nat  BY BehindType
<1>6. CASE LastIsChart
  <2>1. IsFiniteSet({n}) /\ Cardinality({n}) = 1  BY FS_Singleton
  <2>2. /\ IsFiniteSet(1..Len(feeds[n].buffer))
        /\ Cardinality(1..Len(feeds[n].buffer)) = Len(feeds[n].buffer)
    <3>1. 1 \in Int /\ Len(feeds[n].buffer) \in Int
          /\ (1 > Len(feeds[n].buffer) => Len(feeds[n].buffer) = 0)
      BY <1>2
    <3>2. QED  BY <3>1, FS_Interval
  <2>3. IsFiniteSet(more) /\ Cardinality(more) = 1 * Len(feeds[n].buffer)
    <3>1. IsFiniteSet(more)
          /\ Cardinality(more) = Cardinality({n}) * Cardinality(1..Len(feeds[n].buffer))
      BY <2>1, <2>2, FS_Product
    <3>2. QED  BY <2>1, <2>2, <3>1
  <2>4. IsFiniteSet(Behind \cup more) /\ Cardinality(Behind \cup more)
            = Cardinality(Behind) + Cardinality(more) - Cardinality(Behind \cap more)
    BY <1>5, <2>3, FS_Union
  <2>5. Cardinality(Behind \cap more) \in Nat
    BY <1>5, FS_Intersection, FS_CardinalityType
  <2>6. Behind' \subseteq Behind \cup more  BY <1>4
  <2>7. Cardinality(Behind') <= Cardinality(Behind \cup more) /\ Cardinality(Behind') \in Nat
    BY <2>4, <2>6, FS_Subset, FS_CardinalityType
  <2>8. QED  BY <1>2, <1>5, <1>6, <2>3, <2>4, <2>5, <2>7, Numbers
<1>7. CASE ~LastIsChart
  <2>1. Behind' \subseteq Behind  BY <1>4, <1>7
  <2>2. Cardinality(Behind') <= Cardinality(Behind)  BY <1>5, <2>1, FS_Subset
  <2>3. QED  BY <1>5, <1>7, <2>2
<1>8. QED  BY <1>6, <1>7

\* An abort adds to the balance what the channels of one feed can hold; without one, no event
\* becomes a possible stray.
LEMMA StopStray ==
  ASSUME StrayInv, IInv', OwnEvents', CountAbort, strays' = strays,
         Feeds \subseteq Feeds', \A f \in Feeds : feeds'[f] = Stopped[f],
         \A f \in Feeds' \ Feeds : feeds'[f].task # "aborted",
         ~LastIsChart => /\ Cardinality(OthersIn(inbox'.chart, chart'))
                              <= Cardinality(OthersIn(inbox.chart, chart))
                         /\ HeldStray' <= HeldStray,
         session' = "open" /\ chart' # Null => LastIsChart'
  PROVE  StrayInv'
<1> DEFINE A == Cardinality(Behind)
           O == Cardinality(OthersIn(inbox.chart, chart))
<1>1. IInv  BY DEF StrayInv
<1>2. /\ A \in Nat /\ A' \in Nat /\ O \in 0..Cap /\ O' \in 0..Cap
      /\ HeldStray \in 0..1 /\ HeldStray' \in 0..1
      /\ strays \in Nat /\ aborts * Balance \in Nat
      /\ (aborts + 1) * Balance = aborts * Balance + Balance
  BY <1>1, WaitingType, WaitingAfter DEF WaitingNumbers
<1>3. A' <= A + (IF LastIsChart THEN Cap + 1 ELSE 0)  BY <1>1, StoppedBehind
<1>4. strays + (A + O + HeldStray) <= aborts * Balance  BY DEF StrayInv, Waiting
<1>5. strays + (A' + O' + HeldStray') <= aborts' * Balance
  <2>1. CASE LastIsChart
    <3>1. aborts' = aborts + 1  BY <2>1 DEF CountAbort
    <3>2. A' <= A + (Cap + 1)  BY <1>3, <2>1
    <3>3. aborts' * Balance = aborts * Balance + (2 * Cap + 2)  BY <1>2, <3>1 DEF Balance
    <3>4. QED  BY <1>2, <1>4, <3>2, <3>3, Numbers
  <2>2. CASE ~LastIsChart
    <3>1. aborts' = aborts  BY <2>2 DEF CountAbort
    <3>2. A' <= A /\ O' <= O /\ HeldStray' <= HeldStray  BY <1>2, <1>3, <2>2
    <3>3. QED  BY <1>2, <1>4, <3>1, <3>2
  <2>3. QED  BY <2>1, <2>2
<1>6. strays' + Waiting' <= aborts' * Balance'  BY <1>5 DEF Waiting, Balance
<1>7. QED  BY <1>6 DEF StrayInv

LEMMA StoppedOwn ==
  ASSUME IInv, OwnEvents, NEW f \in Feeds
  PROVE  /\ f > 1 => Stopped[f].of \in Symbols
         /\ \A i \in DOMAIN Stopped[f].buffer : Stopped[f].buffer[i].of = Stopped[f].of
<1>1. feeds[f] \in FeedRecords  BY FeedFacts
<1>2. Stopped[f].of = feeds[f].of /\ Stopped[f].buffer = feeds[f].buffer
  BY <1>1, StoppedFeeds DEF FeedRecords
<1>3. QED  BY <1>2 DEF OwnEvents

LEMMA SubscribeStray ==
  ASSUME StrayInv, NEW s \in Symbols, SubscribeChart(s)
  PROVE  StrayInv'
<1>1. IInv /\ OwnEvents /\ IInv'  BY SubscribeIInv DEF StrayInv
<1>2. /\ session = "open" /\ chart' = s /\ feeds' = Append(Stopped, Spawned(s)) /\ CountAbort
      /\ UNCHANGED <<session, inbox, hand, strays>>
  BY DEF SubscribeChart
<1>3. /\ Stopped \in Seq(FeedRecords) /\ Len(Stopped) = Len(feeds) /\ Len(feeds) \in Nat
      /\ Len(feeds) >= 1 /\ Spawned(s) \in FeedRecords /\ Feeds = 1..Len(feeds)
  BY <1>1, StoppedFeeds, SpawnedType DEF IInv, FeedTypes, Feeds
<1>4. /\ Len(feeds') = Len(feeds) + 1 /\ Feeds' = 1..(Len(feeds) + 1)
      /\ \A f \in Feeds : feeds'[f] = Stopped[f]
      /\ feeds'[Len(feeds) + 1] = Spawned(s)
  BY <1>2, <1>3, AppendProperties DEF Feeds
<1>5. /\ Spawned(s).of = s /\ Spawned(s).buffer = <<>> /\ Spawned(s).task # "aborted"
  BY DEF Spawned
<1>6. OwnEvents'
  <2>1. ASSUME NEW f \in Feeds'
        PROVE  /\ f > 1 => feeds'[f].of \in Symbols
               /\ \A i \in DOMAIN feeds'[f].buffer : feeds'[f].buffer[i].of = feeds'[f].of
    <3>1. CASE f \in Feeds  BY <1>1, <1>4, <3>1, StoppedOwn
    <3>2. CASE f \notin Feeds
      <4>1. f = Len(feeds) + 1  BY <1>3, <1>4, <3>2
      <4>2. QED  BY <1>4, <1>5, <4>1
    <3>3. QED  BY <3>1, <3>2
  <2>2. QED  BY <1>1, <1>2, <2>1 DEF OwnEvents
<1>7. \A f \in Feeds' \ Feeds : feeds'[f].task # "aborted"
  <2>1. \A f \in Feeds' \ Feeds : f = Len(feeds) + 1  BY <1>3, <1>4
  <2>2. QED  BY <1>4, <1>5, <2>1
<1>8. LastIsChart'  BY <1>3, <1>4, <1>5 DEF LastIsChart
<1>9. ASSUME ~LastIsChart
      PROVE  /\ Cardinality(OthersIn(inbox'.chart, chart'))
                  <= Cardinality(OthersIn(inbox.chart, chart))
             /\ HeldStray' <= HeldStray
  <2>1. chart = Null  BY <1>2, <1>9 DEF StrayInv
  <2>2. OthersIn(inbox'.chart, chart') \subseteq OthersIn(inbox.chart, chart)
    <3>1. inbox.chart \in Seq(Events)  BY <1>1 DEF IInv, FeedTypes
    <3>2. \A i \in 1..Len(inbox.chart) : inbox.chart[i].of # Null
      BY <1>1, <3>1, FeedAssumption DEF OwnEvents
    <3>3. QED  BY <1>2, <2>1, <3>2 DEF OthersIn
  <2>3. inbox.chart \in Seq(Events)  BY <1>1 DEF IInv, FeedTypes
  <2>4. Cardinality(OthersIn(inbox'.chart, chart')) <= Cardinality(OthersIn(inbox.chart, chart))
    BY <2>2, <2>3, OthersType, FS_Subset
  <2>5. HeldStray' <= HeldStray
    <3>1. hand # Null => hand.of # Null  BY <1>1, FeedAssumption DEF OwnEvents
    <3>2. QED  BY <1>2, <2>1, <3>1 DEF HeldStray
  <2>6. QED  BY <2>4, <2>5
<1>10. QED  BY <1>1, <1>2, <1>3, <1>4, <1>6, <1>7, <1>8, <1>9, StopStray

LEMMA UnsubscribeStray ==
  ASSUME StrayInv, UnsubscribeChart \/ EndSession
  PROVE  StrayInv'
<1>1. IInv /\ OwnEvents  BY DEF StrayInv
<1>2. IInv'
  BY <1>1, StopIInv DEF UnsubscribeChart, EndSession, IInv, FeedTypes
<1>3. /\ feeds' = Stopped /\ CountAbort /\ strays' = strays
      /\ ~(session' = "open" /\ chart' # Null)
  BY DEF UnsubscribeChart, EndSession
<1>4. DOMAIN Stopped = Feeds  BY <1>1, StoppedFeeds
<1>5. Feeds' = Feeds /\ \A f \in Feeds : feeds'[f] = Stopped[f]  BY <1>3, <1>4 DEF Feeds
<1>6. OwnEvents'
  <2>1. ASSUME NEW f \in Feeds'
        PROVE  /\ f > 1 => feeds'[f].of \in Symbols
               /\ \A i \in DOMAIN feeds'[f].buffer : feeds'[f].buffer[i].of = feeds'[f].of
    BY <1>1, <1>5, StoppedOwn
  <2>2. /\ inbox'.chart = inbox.chart \/ inbox'.chart = <<>>
        /\ hand' = hand \/ hand' = Null
    BY DEF UnsubscribeChart, EndSession
  <2>3. QED  BY <1>1, <2>1, <2>2 DEF OwnEvents
<1>7. ASSUME ~LastIsChart
      PROVE  /\ Cardinality(OthersIn(inbox'.chart, chart'))
                  <= Cardinality(OthersIn(inbox.chart, chart))
             /\ HeldStray' <= HeldStray
  <2>1. EndSession  BY <1>7 DEF StrayInv, UnsubscribeChart
  <2>2. inbox'.chart = <<>> /\ hand' = Null  BY <2>1 DEF EndSession
  <2>3. OthersIn(inbox'.chart, chart') = {}  BY <2>2 DEF OthersIn
  <2>4. Cardinality(OthersIn(inbox'.chart, chart')) = 0  BY <2>3, FS_EmptySet
  <2>5. HeldStray' = 0  BY <2>2 DEF HeldStray
  <2>6. Cardinality(OthersIn(inbox.chart, chart)) \in 0..Cap /\ HeldStray \in 0..1
    BY <1>1, WaitingType
  <2>7. QED  BY <2>4, <2>5, <2>6, Numbers
<1>8. QED  BY <1>2, <1>3, <1>5, <1>6, <1>7, StopStray

\* A task of the session takes one event from its inbox, or handles the one in its hand: a stray
\* is counted when it no longer waits.
LEMMA SessionTaskStray ==
  ASSUME StrayInv, SessionTask
  PROVE  StrayInv'
<1> DEFINE A == Cardinality(Behind)
           O == Cardinality(OthersIn(inbox.chart, chart))
<1>1. IInv /\ IInv' /\ OwnEvents  BY SessionTaskIInv DEF StrayInv
<1>2. UNCHANGED <<session, chart, feeds, aborts>>
  BY DEF SessionTask, HandleAccount, TakeChart, HandleChart
<1>3. Behind' = Behind /\ LastIsChart' = LastIsChart
  BY <1>2 DEF Behind, Feeds, LastIsChart
<1>4. /\ A \in Nat /\ O \in Nat /\ O' \in Nat /\ HeldStray \in Nat /\ HeldStray' \in Nat
      /\ strays \in Nat /\ strays' \in Nat /\ aborts * Balance \in Nat
  BY <1>1, WaitingType, WaitingAfter DEF WaitingNumbers
<1>5. inbox \in [account : Seq(Events), chart : Seq(Events)]  BY <1>1 DEF IInv, FeedTypes
<1>6. OwnEvents' /\ strays' + O' + HeldStray' <= strays + O + HeldStray
  <2>1. CASE HandleAccount
    <3>1. inbox'.chart = inbox.chart /\ UNCHANGED <<hand, strays>>
      BY <1>5, <2>1 DEF HandleAccount
    <3>2. OwnEvents'  BY <1>1, <1>2, <3>1 DEF OwnEvents, Feeds
    <3>3. O' = O /\ HeldStray' = HeldStray  BY <1>2, <3>1 DEF HeldStray
    <3>4. QED  BY <1>4, <3>1, <3>2, <3>3
  <2>2. CASE TakeChart
    <3>1. /\ hand = Null /\ inbox.chart # <<>> /\ hand' = Head(inbox.chart)
          /\ inbox'.chart = Tail(inbox.chart) /\ strays' = strays
      BY <1>5, <2>2 DEF TakeChart
    <3>2. inbox.chart \in Seq(Events)  BY <1>5
    <3>3. Head(inbox.chart) = inbox.chart[1] /\ 1 \in DOMAIN inbox.chart
          /\ \A i \in DOMAIN Tail(inbox.chart) :
                 i + 1 \in DOMAIN inbox.chart /\ Tail(inbox.chart)[i] = inbox.chart[i + 1]
      BY <3>1, <3>2, HeadTailProperties
    <3>4. OwnEvents'  BY <1>1, <1>2, <3>1, <3>3 DEF OwnEvents, Feeds
    <3>5. O = O' + (IF Head(inbox.chart).of # chart THEN 1 ELSE 0)
      BY <1>2, <3>1, <3>2, OthersTail
    <3>6. HeldStray' <= (IF Head(inbox.chart).of # chart THEN 1 ELSE 0) /\ HeldStray = 0
      BY <1>2, <3>1 DEF HeldStray
    <3>7. QED  BY <1>4, <3>1, <3>4, <3>5, <3>6
  <2>3. CASE HandleChart
    <3>1. inbox' = inbox /\ hand' = Null /\ hand # Null
          /\ strays' = IF IsData(hand) /\ chart \notin {Null, hand.of} THEN strays + 1 ELSE strays
      BY <2>3 DEF HandleChart
    <3>2. OwnEvents'  BY <1>1, <1>2, <3>1 DEF OwnEvents, Feeds
    <3>3. O' = O /\ HeldStray' = 0 /\ strays' <= strays + HeldStray
      BY <1>2, <1>4, <3>1 DEF HeldStray
    <3>4. QED  BY <1>4, <3>2, <3>3
  <2>4. QED  BY <2>1, <2>2, <2>3 DEF SessionTask
<1>7. strays' + Waiting' <= aborts' * Balance'
  <2>1. strays + (A + O + HeldStray) <= aborts * Balance  BY DEF StrayInv, Waiting
  <2>2. A' = A /\ aborts' * Balance = aborts * Balance  BY <1>2, <1>3
  <2>3. strays' + (A' + O' + HeldStray') <= aborts' * Balance
    BY <1>4, <1>6, <2>1, <2>2
  <2>4. QED  BY <2>3 DEF Waiting, Balance
<1>8. QED  BY <1>1, <1>2, <1>3, <1>6, <1>7 DEF StrayInv

LEMMA NextStray == StrayInv /\ [Next]_vars => StrayInv'
<1> SUFFICES ASSUME StrayInv, [Next]_vars  PROVE StrayInv'  OBVIOUS
<1>1. ASSUME NEW f \in Feeds, FeedStep(f)  PROVE StrayInv'  BY <1>1, FeedStepStray
<1>2. CASE SessionTask  BY <1>2, SessionTaskStray
<1>3. ASSUME NEW s \in Symbols, SubscribeChart(s)  PROVE StrayInv'  BY <1>3, SubscribeStray
<1>4. CASE UnsubscribeChart \/ EndSession  BY <1>4, UnsubscribeStray
<1>5. CASE UNCHANGED vars
  <2>1. IInv'  BY <1>5, NextIInv DEF StrayInv
  <2>2. OwnEvents' /\ Waiting' = Waiting /\ LastIsChart' = LastIsChart
    BY <1>5 DEF vars, StrayInv, OwnEvents, Feeds, Waiting, Behind, HeldStray, LastIsChart
  <2>3. QED  BY <1>5, <2>1, <2>2 DEF vars, StrayInv, Balance
<1>6. QED  BY <1>1, <1>2, <1>3, <1>4, <1>5 DEF Next

-----------------------------------------------------------------------------
\* Every feed, channel and wait keeps within its bounds (ws.rs:60-76, exchange.rs:175).
THEOREM TypeCorrect == Spec => []TypeOK
<1>1. IInv => TypeOK
  <2> SUFFICES ASSUME IInv PROVE TypeOK  OBVIOUS
  <2>1. feeds # <<>>  BY DEF IInv, FeedTypes
  <2>2. ASSUME NEW f \in Feeds
        PROVE  /\ feeds[f].of \in Symbols \cup {Account}
               /\ feeds[f].task \in Tasks
               /\ feeds[f].delay \in BaseDelay..MaxDelay
               /\ feeds[f].buffer \in Seq(Events) /\ Len(feeds[f].buffer) <= Cap + 1
               /\ feeds[f].read \in 0..MaxEvents
               /\ feeds[f].tries \in 0..load[Kind(f)]
               /\ feeds[f].helpers \in 0..feeds[f].tries
    BY FeedFacts DEF FeedBounds
  <2>3. QED  BY <2>1, <2>2 DEF IInv, FeedTypes, Bounds, TypeOK
<1>2. QED  BY <1>1, InitIInv, NextIInv, PTL DEF Spec

\* At most one chart feed runs, of the symbol the session takes its trades for, and none
\* without a subscription or after the session (server.rs:578-600, 742-744).
THEOREM ChartFeedUnique == Spec => []OneChartFeed
<1>1. IInv => OneChartFeed  BY DEF IInv
<1>2. QED  BY <1>1, InitIInv, NextIInv, PTL DEF Spec

\* An open session hears the events of its account in the order of the exchange, none twice and
\* none left out, through every channel and reconnection (exchange.rs:177-188, server.rs:246).
THEOREM EventsInOrder == Spec => []AccountInOrder
<1>1. OrderInv => AccountInOrder  BY DEF OrderInv, InOrder, AccountInOrder
<1>2. QED  BY <1>1, InitOrder, NextOrder, PTL DEF Spec

\* However often the client changes its chart, no more trades of a former symbol are taken for
\* the new one than the channels of one feed can hold, for each change (server.rs:500, 578-600).
THEOREM FewStrays == Spec => []StraysBounded
<1>1. StrayInv => StraysBounded
  <2> SUFFICES ASSUME StrayInv PROVE StraysBounded  OBVIOUS
  <2>1. strays \in Nat /\ Waiting \in Nat /\ aborts * Balance \in Nat
    BY WaitingType DEF StrayInv
  <2>2. strays <= aborts * Balance  BY <2>1 DEF StrayInv
  <2>3. QED  BY <2>2 DEF StraysBounded, Balance
<1>2. QED  BY <1>1, InitStray, NextStray, PTL DEF Spec
===============================================================================
