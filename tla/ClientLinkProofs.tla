--------------------------- MODULE ClientLinkProofs ---------------------------
(* Theorems about ClientLink for every capacity of the queues and buffers,     *)
(* every number of connections and commands, and any credentials.              *)
EXTENDS ClientLink, SequenceTheorems, TLAPS

Commands == [kind : {"command"}, n : 0..MaxCommands]
Replies == [kind : {"connected", "other"}, n : {0}]
Greetings == [kind : {"good", "wrong"}, n : {0}]
Notices == [kind : {"connected", "other", "disconnected"}, link : Links]
Pcs == {"connect", "sleep", "open", "write", "deliver", "notify"}
Linked == {"open", "write", "deliver", "notify"}

\* Commands go up, replies come down, and each is held where it is passed on.
Types ==
    /\ setup \in Setups
    /\ issued \in 0..MaxCommands
    /\ ui \in [todo : Seq(Commands), connected : BOOLEAN, gone : 0..MaxLinks]
    /\ up \in Seq(Commands) /\ down \in Seq(Notices)
    /\ conn \in [pc : Pcs, link : 0..MaxLinks, held : Commands \cup Replies \cup {None},
                 delay : BaseDelay..MaxDelay]
    /\ net \in [Links -> [state : {"none", "up", "broken", "silent"},
                          c2s : Seq(Commands \cup Greetings), s2c : Seq(Replies)]]
    /\ srv \in [Links -> [pc : {"none", "auth", "over"} \cup Serving, out : Seq(Replies),
                          writer : BOOLEAN, due : BOOLEAN]]
    /\ handled \in [Links -> Seq(1..MaxCommands)]

Holds ==
    /\ conn.pc = "write" => conn.held \in Commands
    /\ conn.pc = "deliver" => conn.held \in Replies
    /\ conn.pc \in Linked => Now \in Links
    /\ \A l \in Links : l > Now => /\ net[l].state = "none" /\ srv[l].pc = "none"
                                   /\ net[l].c2s = <<>> /\ net[l].s2c = <<>>

Bounds ==
    /\ Len(up) <= QueueCap /\ Len(down) <= QueueCap
    /\ \A l \in Links : /\ Len(net[l].c2s) <= WireCap /\ Len(net[l].s2c) <= WireCap
                        /\ Len(srv[l].out) <= QueueCap

TInv == Types /\ Holds

-----------------------------------------------------------------------------
LEMMA Numbered ==
  /\ QueueCap \in Nat \ {0} /\ WireCap \in Nat \ {0}
  /\ BaseDelay \in Nat \ {0} /\ MaxDelay \in Nat \ {0} /\ BaseDelay <= MaxDelay
  /\ MaxLinks \in Nat /\ MaxCommands \in Nat
  BY LinkAssumption

\* Greetings have the number zero, commands count from one.
LEMMA NumbersFromOne ==
  \A n \in 0..MaxCommands : n # 0 => n \in 1..MaxCommands
  BY Numbered

\* What a setup allows.
LEMMA SetupType ==
  ASSUME NEW s \in Setups
  PROVE  /\ s.key \in {"none", "wrong", "good"} /\ s.required \in BOOLEAN
         /\ s.links \in 0..MaxLinks /\ s.commands \in 0..MaxCommands
  BY LinkAssumption

LEMMA NextDelayType ==
  ASSUME NEW d \in BaseDelay..MaxDelay
  PROVE  NextDelay(d) \in BaseDelay..MaxDelay
  BY Numbered DEF NextDelay

\* Requests of the application, and the greeting.
LEMMA MessageTypes ==
  /\ Refresh \in Seq(Commands) /\ Resume \in Seq(Commands)
  /\ \A i \in 0..MaxCommands : <<Command(i)>> \in Seq(Commands)
  /\ Message("connected") \in Replies /\ Message("other") \in Replies
<1>1. \A i \in 0..MaxCommands : Command(i) \in Commands  BY DEF Command, Commands
<1>2. Command(0) \in Commands  BY <1>1, Numbered
<1>3. Refresh \in Seq(Commands)  BY <1>2 DEF Refresh
<1>4. <<Command(0)>> \in Seq(Commands)  BY <1>2
<1>5. Resume \in Seq(Commands)  BY <1>3, <1>4, ConcatProperties DEF Resume
<1>6. QED  BY <1>1, <1>3, <1>5 DEF Message, Replies

LEMMA GreetingType ==
  ASSUME setup \in Setups
  PROVE  Greeting \in Seq(Commands \cup Greetings)
<1>1. CASE setup.key = "none"  BY <1>1 DEF Greeting
<1>2. CASE setup.key # "none"
  <2>1. setup.key \in {"good", "wrong"}  BY <1>2, SetupType
  <2>2. [kind |-> setup.key, n |-> 0] \in Greetings  BY <2>1 DEF Greetings
  <2>3. QED  BY <1>2, <2>2 DEF Greeting
<1>3. QED  BY <1>1, <1>2

LEMMA InitTInv == Init => TInv /\ Bounds
<1> SUFFICES ASSUME Init PROVE TInv /\ Bounds  OBVIOUS
<1>1. 0 \in 0..MaxCommands /\ 0 \in 0..MaxLinks /\ BaseDelay \in BaseDelay..MaxDelay
  BY Numbered
<1>2. Types  BY <1>1 DEF Init, Types, Pcs
<1>3. Holds  BY <1>1 DEF Init, Holds, Linked
<1>4. Bounds  BY Numbered DEF Init, Bounds
<1>5. QED  BY <1>2, <1>3, <1>4 DEF TInv

-----------------------------------------------------------------------------
(* Types: one lemma for the UI loop, one for the connection task, one for a session. *)

LEMMA UiTypes ==
  ASSUME TInv, UiLoop
  PROVE  TInv'
<1> USE DEF TInv
<1>1. CASE UiCommand
  <2>1. issued + 1 \in 0..MaxCommands
    <3>1. setup.commands \in 0..MaxCommands  BY SetupType DEF Types
    <3>2. QED  BY <1>1, <3>1, Numbered DEF UiCommand, Types
  <2>2. <<Command(issued + 1)>> \in Seq(Commands)  BY <2>1, MessageTypes
  <2>3. Types'  BY <1>1, <2>1, <2>2 DEF UiCommand, Types
  <2>4. Holds'  BY <1>1 DEF UiCommand, Holds, Now
  <2>5. QED  BY <2>3, <2>4
<1>2. CASE AutoRefresh
  <2>1. Types'  BY <1>2, MessageTypes DEF AutoRefresh, Types
  <2>2. Holds'  BY <1>2 DEF AutoRefresh, Holds, Now
  <2>3. QED  BY <2>1, <2>2
<1>3. CASE UiSend
  <2>1. ui.todo \in Seq(Commands) /\ ui.todo # <<>>  BY <1>3 DEF UiSend, Types
  <2>2. Head(ui.todo) \in Commands /\ Tail(ui.todo) \in Seq(Commands)  BY <2>1
  <2>3. Types'
    <3>1. up' \in Seq(Commands)  BY <1>3, <2>2 DEF UiSend, Types
    <3>2. ui' \in [todo : Seq(Commands), connected : BOOLEAN, gone : 0..MaxLinks]
      BY <1>3, <2>2 DEF UiSend, Types
    <3>3. QED  BY <1>3, <3>1, <3>2 DEF UiSend, Types
  <2>4. Holds'  BY <1>3 DEF UiSend, Holds, Now
  <2>5. QED  BY <2>3, <2>4
<1>4. CASE UiReceive
  <2>1. down \in Seq(Notices) /\ down # <<>>  BY <1>4 DEF UiReceive, Types
  <2>2. Head(down) \in Notices /\ Tail(down) \in Seq(Notices)  BY <2>1
  <2>3. Head(down).link \in 0..MaxLinks  BY <2>2, Numbered DEF Notices, Links
  <2>4. ui' \in [todo : Seq(Commands), connected : BOOLEAN, gone : 0..MaxLinks]
    BY <1>4, <2>3, MessageTypes DEF UiReceive, Types
  <2>5. Types'  BY <1>4, <2>2, <2>4 DEF UiReceive, Types
  <2>6. Holds'  BY <1>4 DEF UiReceive, Holds, Now
  <2>7. QED  BY <2>5, <2>6
<1>5. QED  BY <1>1, <1>2, <1>3, <1>4 DEF UiLoop

LEMMA ConnectionTypes ==
  ASSUME TInv, Connection
  PROVE  TInv'
<1> USE DEF TInv
<1> DEFINE ConnType == [pc : Pcs, link : 0..MaxLinks, held : Commands \cup Replies \cup {None},
                        delay : BaseDelay..MaxDelay]
           NetType == [state : {"none", "up", "broken", "silent"},
                       c2s : Seq(Commands \cup Greetings), s2c : Seq(Replies)]
<1>1. conn \in ConnType /\ net \in [Links -> NetType]  BY DEF Types
<1>2. CASE ConnectOk
  <2>1. Now + 1 \in Links /\ Now + 1 \in 0..MaxLinks
    <3>1. setup.links \in 0..MaxLinks  BY SetupType DEF Types
    <3>2. QED  BY <1>1, <1>2, <3>1, Numbered DEF ConnectOk, Now, Links
  <2>2. [state |-> "up", c2s |-> Greeting, s2c |-> <<>>] \in NetType
    BY GreetingType DEF Types
  <2>3. conn' \in ConnType  BY <1>1, <1>2, <2>1 DEF ConnectOk, Pcs
  <2>4. net' \in [Links -> NetType]  BY <1>1, <1>2, <2>2 DEF ConnectOk
  <2>5. <<Message("connected")>> \in Seq(Replies)  BY MessageTypes
  <2>6. srv' \in [Links -> [pc : {"none", "auth", "over"} \cup Serving, out : Seq(Replies),
                            writer : BOOLEAN, due : BOOLEAN]]
    <3> DEFINE old == srv[Now + 1]
               new == [old EXCEPT !.pc = IF setup.required THEN "auth" ELSE "loop",
                                  !.out = IF setup.required THEN <<>> ELSE <<Message("connected")>>]
               SrvType == [pc : {"none", "auth", "over"} \cup Serving, out : Seq(Replies),
                           writer : BOOLEAN, due : BOOLEAN]
    <3>1. old \in SrvType /\ srv \in [Links -> SrvType]  BY <2>1 DEF Types
    <3>2. new \in SrvType
      <4>1. CASE setup.required
        <5>1. <<>> \in Seq(Replies)  OBVIOUS
        <5>2. [old EXCEPT !.pc = "auth", !.out = <<>>] \in SrvType  BY <3>1, <5>1
        <5>3. QED  BY <4>1, <5>2
      <4>2. CASE ~setup.required  BY <2>5, <3>1, <4>2 DEF Serving
      <4>3. QED  BY <4>1, <4>2
    <3>3. srv' = [srv EXCEPT ![Now + 1] = new]  BY <1>2 DEF ConnectOk
    <3>4. QED  BY <2>1, <3>1, <3>2, <3>3
  <2>7. Types'  BY <1>2, <2>3, <2>4, <2>6 DEF ConnectOk, Types
  <2>8. Now' = Now + 1 /\ conn'.pc = "open"  BY <1>1, <1>2 DEF ConnectOk, Now
  <2>9. \A l \in Links : l > Now' => net'[l] = net[l] /\ srv'[l] = srv[l] /\ l > Now
    <3>1. Now \in Int  BY <1>1 DEF Now
    <3>2. ASSUME NEW l \in Links, l > Now + 1  PROVE l # Now + 1 /\ l > Now
      BY <3>1, <3>2 DEF Links
    <3>3. QED  BY <1>2, <2>8, <3>2 DEF ConnectOk, Types
  <2>10. Holds'  BY <2>1, <2>8, <2>9 DEF Holds, Linked
  <2>11. QED  BY <2>7, <2>10
<1>3. CASE ConnectFails \/ Wake \/ ReadFails
  <2>1. NextDelay(conn.delay) \in BaseDelay..MaxDelay  BY <1>1, NextDelayType
  <2>2. conn' \in ConnType  BY <1>1, <1>3, <2>1 DEF ConnectFails, Wake, ReadFails, Pcs
  <2>3. Types'  BY <1>3, <2>2 DEF ConnectFails, Wake, ReadFails, Types
  <2>4. conn'.pc \in {"sleep", "connect", "notify"} /\ Now' = Now
        /\ (conn'.pc = "notify" => conn.pc = "open") /\ UNCHANGED <<net, srv>>
    BY <1>1, <1>3 DEF ConnectFails, Wake, ReadFails, Now
  <2>5. Holds'  BY <2>4 DEF Holds, Linked
  <2>6. QED  BY <2>3, <2>5
<1>4. CASE TakeCommand
  <2>1. up \in Seq(Commands) /\ up # <<>>  BY <1>4 DEF TakeCommand, Types
  <2>2. Head(up) \in Commands /\ Tail(up) \in Seq(Commands)  BY <2>1
  <2>3. conn' \in ConnType  BY <1>1, <1>4, <2>2 DEF TakeCommand, Pcs
  <2>4. Types'  BY <1>4, <2>2, <2>3 DEF TakeCommand, Types
  <2>5. conn'.pc = "write" /\ conn.pc = "open" /\ conn'.held = Head(up) /\ Now' = Now
        /\ UNCHANGED <<net, srv>>
    BY <1>1, <1>4 DEF TakeCommand, Now
  <2>6. Holds'  BY <2>2, <2>5 DEF Holds, Linked
  <2>7. QED  BY <2>4, <2>6
<1>5. CASE WriteCommand
  <2>1. conn.pc = "write" /\ conn.held \in Commands /\ Now \in Links
    BY <1>5 DEF WriteCommand, Holds, Linked
  <2>2. conn' \in ConnType /\ conn'.pc \in {"open", "notify"} /\ Now' = Now
    BY <1>1, <1>5 DEF WriteCommand, Pcs, Now
  <2>3. net[Now].c2s \in Seq(Commands \cup Greetings)  BY <1>1, <2>1
  <2>4. Append(net[Now].c2s, conn.held) \in Seq(Commands \cup Greetings)  BY <2>1, <2>3
  <2>5. /\ net' \in [Links -> NetType]
        /\ \A l \in Links : l # Now => net'[l] = net[l]
    <3>1. CASE net' = [net EXCEPT ![Now].c2s = Append(@, conn.held)]
      BY <1>1, <2>1, <2>4, <3>1
    <3>2. CASE UNCHANGED net  BY <1>1, <3>2
    <3>3. QED  BY <1>5, <3>1, <3>2 DEF WriteCommand
  <2>6. Types'  BY <1>5, <2>2, <2>5 DEF WriteCommand, Types
  <2>7. \A l \in Links : l > Now => net'[l] = net[l]
    <3>1. Now \in 0..MaxLinks  BY <1>1 DEF Now
    <3>2. QED  BY <2>5, <3>1 DEF Links
  <2>8. Holds'  BY <1>5, <2>1, <2>2, <2>7 DEF WriteCommand, Holds, Linked
  <2>9. QED  BY <2>6, <2>8
<1>6. CASE TakeMessage
  <2>1. conn.pc = "open" /\ Now \in Links /\ net[Now].s2c # <<>>
    BY <1>6 DEF TakeMessage, Holds, Linked
  <2>2. net[Now].s2c \in Seq(Replies)  BY <1>1, <2>1
  <2>3. Head(net[Now].s2c) \in Replies /\ Tail(net[Now].s2c) \in Seq(Replies)  BY <2>1, <2>2
  <2>4. conn' \in ConnType /\ conn'.pc = "deliver" /\ Now' = Now
        /\ conn'.held = Head(net[Now].s2c)
    BY <1>1, <1>6, <2>3 DEF TakeMessage, Pcs, Now
  <2>5. net' \in [Links -> NetType]  BY <1>1, <1>6, <2>1, <2>3 DEF TakeMessage
  <2>6. Types'  BY <1>6, <2>4, <2>5 DEF TakeMessage, Types
  <2>7. \A l \in Links : l > Now => net'[l] = net[l]
    <3>1. Now \in 0..MaxLinks  BY <1>1 DEF Now
    <3>2. QED  BY <1>1, <1>6, <3>1 DEF TakeMessage, Links
  <2>8. Holds'  BY <1>6, <2>1, <2>3, <2>4, <2>7 DEF TakeMessage, Holds, Linked
  <2>9. QED  BY <2>6, <2>8
<1>7. CASE Deliver
  <2>1. conn.pc = "deliver" /\ conn.held \in Replies /\ Now \in Links
    BY <1>7 DEF Deliver, Holds, Linked
  <2>2. [kind |-> conn.held.kind, link |-> Now] \in Notices
    BY <2>1 DEF Replies, Notices
  <2>3. down' \in Seq(Notices)  BY <1>7, <2>2 DEF Deliver, Types
  <2>4. conn' \in ConnType /\ conn'.pc = "open" /\ Now' = Now
    BY <1>1, <1>7 DEF Deliver, Pcs, Now
  <2>5. Types'  BY <1>7, <2>3, <2>4 DEF Deliver, Types
  <2>6. Holds'  BY <1>7, <2>1, <2>4 DEF Deliver, Holds, Linked
  <2>7. QED  BY <2>5, <2>6
<1>8. CASE SendDisconnected
  <2>1. Now \in Links  BY <1>8 DEF SendDisconnected, Holds, Linked
  <2>2. [kind |-> "disconnected", link |-> Now] \in Notices  BY <2>1 DEF Notices
  <2>3. down' \in Seq(Notices)  BY <1>8, <2>2 DEF SendDisconnected, Types
  <2>4. BaseDelay \in BaseDelay..MaxDelay  BY Numbered
  <2>5. conn' \in ConnType /\ conn'.pc = "connect" /\ Now' = Now
    BY <1>1, <1>8, <2>4 DEF SendDisconnected, Pcs, Now
  <2>6. Types'  BY <1>8, <2>3, <2>5 DEF SendDisconnected, Types
  <2>7. Holds'  BY <1>8, <2>5 DEF SendDisconnected, Holds, Linked
  <2>8. QED  BY <2>6, <2>7
<1>9. QED  BY <1>2, <1>3, <1>4, <1>5, <1>6, <1>7, <1>8 DEF Connection

\* Steps of a session change it and its connection, and what it has carried out.
LEMMA SessionTypes ==
  ASSUME TInv, NEW l \in Links, Session(l) \/ NetFails(l)
  PROVE  TInv'
<1> USE DEF TInv
<1> DEFINE SrvType == [pc : {"none", "auth", "over"} \cup Serving, out : Seq(Replies),
                       writer : BOOLEAN, due : BOOLEAN]
           NetType == [state : {"none", "up", "broken", "silent"},
                       c2s : Seq(Commands \cup Greetings), s2c : Seq(Replies)]
           s == srv[l]
           c == net[l]
<1>1. /\ srv \in [Links -> SrvType] /\ net \in [Links -> NetType] /\ s \in SrvType /\ c \in NetType
      /\ handled \in [Links -> Seq(1..MaxCommands)]
  BY DEF Types
<1>2. UNCHANGED <<setup, issued, ui, up, down, conn>>
  BY DEF Session, Authenticate, AuthTimeout, Handle, SendAnswer, StopExpires, TimerTick, FireStop,
         WriteTask, EndSession, NetFails
<1>3. l <= Now
  <2>1. s.pc # "none" \/ c.state # "none"
    BY DEF Session, Authenticate, AuthTimeout, Handle, SendAnswer, StopExpires, TimerTick,
           FireStop, WriteTask, EndSession, NetFails, At, Serving
  <2>2. Now \in Int /\ l \in Int  BY DEF Types, Now, Links
  <2>3. QED  BY <2>1, <2>2 DEF Holds
<1>4. SUFFICES /\ \E r \in SrvType : srv' = [srv EXCEPT ![l] = r]
               /\ \E r \in NetType : net' = [net EXCEPT ![l] = r]
               /\ handled' \in [Links -> Seq(1..MaxCommands)]
  <2>1. Types'
    <3>1. PICK r \in SrvType : srv' = [srv EXCEPT ![l] = r]  BY <1>4
    <3>2. PICK d \in NetType : net' = [net EXCEPT ![l] = d]  BY <1>4
    <3>3. srv' \in [Links -> SrvType] /\ net' \in [Links -> NetType]  BY <1>1, <3>1, <3>2
    <3>4. QED  BY <1>2, <1>4, <3>3 DEF Types
  <2>2. ASSUME NEW k \in Links, k > Now  PROVE net'[k] = net[k] /\ srv'[k] = srv[k]
    <3>1. k # l
      <4>1. Now \in Int /\ l \in Int /\ k \in Int  BY DEF Types, Now, Links
      <4>2. QED  BY <1>3, <2>2, <4>1
    <3>2. QED  BY <1>1, <1>4, <3>1
  <2>3. Now' = Now  BY <1>2 DEF Now
  <2>4. Holds'  BY <1>2, <2>2, <2>3 DEF Holds
  <2>5. QED  BY <2>1, <2>4
<1>5. srv = [srv EXCEPT ![l] = s] /\ net = [net EXCEPT ![l] = c]  BY <1>1
<1>6. c.c2s # <<>> => /\ Head(c.c2s) \in Commands \cup Greetings
                     /\ Tail(c.c2s) \in Seq(Commands \cup Greetings)
  BY <1>1
<1>7. s.out # <<>> => Head(s.out) \in Replies /\ Tail(s.out) \in Seq(Replies)
  BY <1>1
<1>8. <<Message("connected")>> \in Seq(Replies) /\ <<Message("other")>> \in Seq(Replies)
  BY MessageTypes
<1>9. Sending(l) \in Seq(Replies)  BY <1>1, MessageTypes DEF Sending
<1>10. CASE Authenticate(l)
  <2>1. CASE Head(c.c2s).kind = "good"
    <3>1. [s EXCEPT !.pc = "loop", !.out = <<Message("connected")>>] \in SrvType
      BY <1>1, <1>8 DEF Serving
    <3>2. [c EXCEPT !.c2s = Tail(@)] \in NetType
      BY <1>1, <1>6, <1>10 DEF Authenticate
    <3>3. /\ srv' = [srv EXCEPT ![l] = [s EXCEPT !.pc = "loop", !.out = <<Message("connected")>>]]
          /\ net' = [net EXCEPT ![l] = [c EXCEPT !.c2s = Tail(@)]]
          /\ handled' = handled
      BY <1>10, <2>1 DEF Authenticate
    <3>4. QED  BY <1>1, <3>1, <3>2, <3>3
  <2>2. CASE Head(c.c2s).kind # "good"
    <3> DEFINE last == IF Head(c.c2s).kind = "wrong" /\ c.state = "up"
                       THEN <<Message("other")>> ELSE <<>>
    <3>1. [s EXCEPT !.pc = "over"] \in SrvType  BY <1>1
    <3>2. last \in Seq(Replies)  BY <1>8
    <3>3. [c EXCEPT !.state = "broken", !.c2s = <<>>, !.s2c = last] \in NetType
      <4>1. <<>> \in Seq(Commands \cup Greetings)  OBVIOUS
      <4>2. QED  BY <1>1, <3>2, <4>1
    <3>4. /\ srv' = [srv EXCEPT ![l] = [s EXCEPT !.pc = "over"]]
          /\ net' = [net EXCEPT ![l] = [c EXCEPT !.state = "broken", !.c2s = <<>>, !.s2c = last]]
          /\ handled' = handled
      BY <1>10, <2>2 DEF Authenticate
    <3>5. QED  BY <1>1, <3>1, <3>3, <3>4
  <2>3. QED  BY <2>1, <2>2
<1>11. CASE AuthTimeout(l)
  <2>1. [s EXCEPT !.pc = "over"] \in SrvType  BY <1>1
  <2>2. [c EXCEPT !.state = "broken", !.c2s = <<>>] \in NetType
    <3>1. <<>> \in Seq(Commands \cup Greetings)  OBVIOUS
    <3>2. QED  BY <1>1, <3>1
  <2>3. /\ srv' = [srv EXCEPT ![l] = [s EXCEPT !.pc = "over"]] /\ handled' = handled
        /\ net' = [net EXCEPT ![l] = [c EXCEPT !.state = "broken", !.c2s = <<>>]]
    BY <1>11 DEF AuthTimeout, Close
  <2>4. QED  BY <1>1, <2>1, <2>2, <2>3
<1>12. CASE Handle(l)
  <2>1. [s EXCEPT !.pc = "answer"] \in SrvType  BY <1>1 DEF Serving
  <2>2. [c EXCEPT !.c2s = Tail(@)] \in NetType  BY <1>1, <1>6, <1>12 DEF Handle
  <2>3. /\ srv' = srv \/ srv' = [srv EXCEPT ![l] = [s EXCEPT !.pc = "answer"]]
        /\ net' = [net EXCEPT ![l] = [c EXCEPT !.c2s = Tail(@)]]
    BY <1>12 DEF Handle
  <2>4. handled' \in [Links -> Seq(1..MaxCommands)]
    <3> DEFINE m == Head(c.c2s)
    <3>1. handled' = handled \/ (m.n # 0 /\ m.kind = "command"
                                 /\ handled' = [handled EXCEPT ![l] = Append(@, m.n)])
      <4>1. CASE m.kind = "command" /\ m.n # 0  BY <1>12, <4>1 DEF Handle
      <4>2. CASE m.kind = "command" /\ m.n = 0
        <5>1. handled' = [handled EXCEPT ![l] = handled[l]]  BY <1>12, <4>2 DEF Handle
        <5>2. QED  BY <1>1, <5>1
      <4>3. CASE m.kind # "command"  BY <1>12, <4>3 DEF Handle
      <4>4. QED  BY <4>1, <4>2, <4>3
    <3>2. m \in Commands \cup Greetings  BY <1>6, <1>12 DEF Handle
    <3>3. m.n # 0 => m.n \in 1..MaxCommands  BY <3>2, Numbered DEF Commands, Greetings
    <3>4. CASE handled' = handled  BY <1>1, <3>4
    <3>5. CASE m.n # 0 /\ handled' = [handled EXCEPT ![l] = Append(@, m.n)]
      <4>1. handled[l] \in Seq(1..MaxCommands) /\ m.n \in 1..MaxCommands  BY <1>1, <3>3, <3>5
      <4>2. Append(handled[l], m.n) \in Seq(1..MaxCommands)  BY <4>1
      <4>3. QED  BY <1>1, <3>5, <4>2
    <3>6. QED  BY <3>1, <3>4, <3>5
  <2>5. QED  BY <1>1, <1>5, <2>1, <2>2, <2>3, <2>4
<1>13. CASE SendAnswer(l)
  <2>1. [s EXCEPT !.pc = "loop", !.out = Sending(l)] \in SrvType  BY <1>1, <1>9 DEF Serving
  <2>2. /\ srv' = [srv EXCEPT ![l] = [s EXCEPT !.pc = "loop", !.out = Sending(l)]]
        /\ UNCHANGED <<net, handled>>
    BY <1>13 DEF SendAnswer
  <2>3. QED  BY <1>1, <1>5, <2>1, <2>2
<1>14. CASE StopExpires(l) \/ TimerTick(l)
  <2>1. [s EXCEPT !.due = TRUE] \in SrvType /\ [s EXCEPT !.pc = "fire"] \in SrvType
    BY <1>1 DEF Serving
  <2>2. /\ \/ srv' = [srv EXCEPT ![l] = [s EXCEPT !.due = TRUE]]
           \/ srv' = [srv EXCEPT ![l] = [s EXCEPT !.pc = "fire"]]
        /\ UNCHANGED <<net, handled>>
    BY <1>14 DEF StopExpires, TimerTick
  <2>3. QED  BY <1>1, <1>5, <2>1, <2>2
<1>15. CASE FireStop(l)
  <2>1. [s EXCEPT !.pc = "loop", !.due = FALSE, !.out = Sending(l)] \in SrvType
    BY <1>1, <1>9 DEF Serving
  <2>2. /\ srv' = [srv EXCEPT ![l] = [s EXCEPT !.pc = "loop", !.due = FALSE, !.out = Sending(l)]]
        /\ UNCHANGED <<net, handled>>
    BY <1>15 DEF FireStop
  <2>3. QED  BY <1>1, <1>5, <2>1, <2>2
<1>16. CASE WriteTask(l)
  <2>1. s.out # <<>>  BY <1>16 DEF WriteTask
  <2>2. /\ [s EXCEPT !.out = Tail(@)] \in SrvType
        /\ [s EXCEPT !.writer = FALSE, !.out = <<>>] \in SrvType
        /\ [c EXCEPT !.s2c = Append(@, Head(s.out))] \in NetType
    <3>1. <<>> \in Seq(Replies)  OBVIOUS
    <3>2. Append(c.s2c, Head(s.out)) \in Seq(Replies)  BY <1>1, <1>7, <2>1
    <3>3. [s EXCEPT !.out = Tail(@)] \in SrvType  BY <1>1, <1>7, <2>1
    <3>4. [s EXCEPT !.writer = FALSE, !.out = <<>>] \in SrvType  BY <1>1, <3>1
    <3>5. [c EXCEPT !.s2c = Append(@, Head(s.out))] \in NetType  BY <1>1, <3>2
    <3>6. QED  BY <3>3, <3>4, <3>5
  <2>3. /\ \/ /\ srv' = [srv EXCEPT ![l] = [s EXCEPT !.out = Tail(@)]]
              /\ net' = [net EXCEPT ![l] = [c EXCEPT !.s2c = Append(@, Head(s.out))]]
           \/ /\ srv' = [srv EXCEPT ![l] = [s EXCEPT !.writer = FALSE, !.out = <<>>]]
              /\ UNCHANGED net
        /\ UNCHANGED handled
    BY <1>16 DEF WriteTask
  <2>4. QED  BY <1>1, <1>5, <2>2, <2>3
<1>17. CASE EndSession(l)
  <2>1. [s EXCEPT !.pc = "over", !.out = <<>>, !.writer = FALSE] \in SrvType
    <3>1. <<>> \in Seq(Replies)  OBVIOUS
    <3>2. QED  BY <1>1, <3>1
  <2>2. /\ srv' = [srv EXCEPT ![l] = [s EXCEPT !.pc = "over", !.out = <<>>, !.writer = FALSE]]
        /\ UNCHANGED <<net, handled>>
    BY <1>17 DEF EndSession
  <2>3. QED  BY <1>1, <1>5, <2>1, <2>2
<1>18. CASE NetFails(l)
  <2>1. PICK state \in {"broken", "silent"} : net' = [net EXCEPT ![l].state = state]
    BY <1>18 DEF NetFails, Failures
  <2>2. [c EXCEPT !.state = state] \in NetType  BY <1>1
  <2>3. net' = [net EXCEPT ![l] = [c EXCEPT !.state = state]] /\ UNCHANGED <<srv, handled>>
    BY <1>18, <2>1 DEF NetFails
  <2>4. QED  BY <1>1, <1>5, <2>2, <2>3
<1>19. QED
  BY <1>10, <1>11, <1>12, <1>13, <1>14, <1>15, <1>16, <1>17, <1>18 DEF Session

LEMMA NextTInv == TInv /\ [Next]_vars => TInv'
<1> SUFFICES ASSUME TInv, [Next]_vars  PROVE TInv'  OBVIOUS
<1>1. CASE UiLoop  BY <1>1, UiTypes
<1>2. CASE Connection  BY <1>2, ConnectionTypes
<1>3. ASSUME NEW l \in Links, Session(l) \/ NetFails(l)  PROVE TInv'
  BY <1>3, SessionTypes
<1>4. CASE UNCHANGED vars  BY <1>4 DEF vars, TInv, Types, Holds, Now
<1>5. QED  BY <1>1, <1>2, <1>3, <1>4 DEF Next

-----------------------------------------------------------------------------
(* Bounds: whoever adds to a queue waited for room. *)

LEMMA AppendLen ==
  ASSUME NEW S, NEW q \in Seq(S), NEW e \in S, NEW cap \in Nat, HasRoom(q, cap)
  PROVE  Len(Append(q, e)) <= cap
  BY AppendProperties DEF HasRoom

LEMMA TailLen ==
  ASSUME NEW S, NEW q \in Seq(S), q # <<>>, NEW cap \in Nat, Len(q) <= cap
  PROVE  Len(Tail(q)) <= cap
<1>1. Len(Tail(q)) = Len(q) - 1 /\ Len(q) \in Nat  BY HeadTailProperties
<1>2. QED  BY <1>1

LEMMA UiBounds ==
  ASSUME TInv, Bounds, UiLoop
  PROVE  Bounds'
<1>1. UNCHANGED <<net, srv>>  BY DEF UiLoop, UiCommand, AutoRefresh, UiSend, UiReceive
<1>2. CASE UiCommand \/ AutoRefresh
  BY <1>1, <1>2 DEF UiCommand, AutoRefresh, Bounds
<1>3. CASE UiSend
  <2>1. Head(ui.todo) \in Commands /\ up \in Seq(Commands)
    BY <1>3 DEF UiSend, TInv, Types
  <2>2. Len(up') <= QueueCap  BY <1>3, <2>1, AppendLen, Numbered DEF UiSend
  <2>3. QED  BY <1>1, <1>3, <2>2 DEF UiSend, Bounds
<1>4. CASE UiReceive
  <2>1. Len(down') <= QueueCap
    BY <1>4, TailLen, Numbered DEF UiReceive, Bounds, TInv, Types
  <2>2. QED  BY <1>1, <1>4, <2>1 DEF UiReceive, Bounds
<1>5. QED  BY <1>2, <1>3, <1>4 DEF UiLoop

LEMMA ConnectionBounds ==
  ASSUME TInv, Bounds, Connection
  PROVE  Bounds'
<1> DEFINE NetOk(k) == Len(net'[k].c2s) <= WireCap /\ Len(net'[k].s2c) <= WireCap
           SrvOk(k) == Len(srv'[k].out) <= QueueCap
<1>1. /\ \A k \in Links : /\ net[k].c2s \in Seq(Commands \cup Greetings)
                           /\ net[k].s2c \in Seq(Replies)
                           /\ Len(net[k].c2s) <= WireCap /\ Len(net[k].s2c) <= WireCap
                           /\ Len(srv[k].out) <= QueueCap
      /\ Len(up) <= QueueCap /\ Len(down) <= QueueCap
  BY DEF TInv, Types, Bounds
<1>2. CASE ConnectOk
  <2>1. Len(Greeting) <= 1  BY DEF Greeting
  <2>2. Len(Greeting) <= WireCap /\ Len(<<>>) <= WireCap /\ Len(<<>>) <= QueueCap
        /\ Len(<<Message("connected")>>) <= QueueCap
    BY <2>1, Numbered DEF Greeting
  <2>3. ASSUME NEW k \in Links  PROVE NetOk(k) /\ SrvOk(k)
    <3>1. CASE k = Now + 1
      <4>1. net'[k].c2s = Greeting /\ net'[k].s2c = <<>>
        BY <1>2, <3>1 DEF ConnectOk, TInv, Types
      <4>2. srv'[k].out \in {<<>>, <<Message("connected")>>}
        BY <1>2, <3>1 DEF ConnectOk, TInv, Types
      <4>3. QED  BY <2>2, <4>1, <4>2
    <3>2. CASE k # Now + 1
      <4>1. net'[k] = net[k] /\ srv'[k] = srv[k]
        BY <1>2, <3>2 DEF ConnectOk, TInv, Types
      <4>2. QED  BY <1>1, <4>1
    <3>3. QED  BY <3>1, <3>2
  <2>4. QED  BY <1>1, <1>2, <2>3 DEF ConnectOk, Bounds
<1>3. CASE ConnectFails \/ Wake \/ ReadFails
  BY <1>1, <1>3 DEF ConnectFails, Wake, ReadFails, Bounds
<1>4. CASE TakeCommand
  <2>1. Len(up') <= QueueCap
    BY <1>1, <1>4, TailLen, Numbered DEF TakeCommand, TInv, Types
  <2>2. QED  BY <1>1, <1>4, <2>1 DEF TakeCommand, Bounds
<1>5. CASE WriteCommand
  <2>1. Now \in Links /\ conn.held \in Commands
    BY <1>5 DEF WriteCommand, TInv, Holds, Linked
  <2>2. ASSUME NEW k \in Links  PROVE NetOk(k)
    <3>1. CASE net' = net  BY <1>1, <3>1
    <3>2. CASE HasRoom(net[Now].c2s, WireCap)
               /\ net' = [net EXCEPT ![Now].c2s = Append(@, conn.held)]
      <4>1. Len(Append(net[Now].c2s, conn.held)) <= WireCap
        <5>1. net[Now].c2s \in Seq(Commands \cup Greetings) /\ conn.held \in Commands \cup Greetings
          BY <1>1, <2>1
        <5>2. QED  BY <3>2, <5>1, AppendLen, Numbered
      <4>2. k = Now => net'[k].c2s = Append(net[Now].c2s, conn.held) /\ net'[k].s2c = net[k].s2c
        BY <3>2 DEF TInv, Types
      <4>3. k # Now => net'[k] = net[k]  BY <3>2 DEF TInv, Types
      <4>4. QED  BY <1>1, <4>1, <4>2, <4>3
    <3>3. QED  BY <1>5, <3>1, <3>2 DEF WriteCommand
  <2>3. QED  BY <1>1, <1>5, <2>2 DEF WriteCommand, Bounds
<1>6. CASE TakeMessage
  <2>1. Now \in Links /\ net[Now].s2c # <<>>
    BY <1>6 DEF TakeMessage, TInv, Holds, Linked
  <2>2. Len(Tail(net[Now].s2c)) <= WireCap  BY <1>1, <2>1, TailLen, Numbered
  <2>3. ASSUME NEW k \in Links  PROVE NetOk(k)
    <3>1. k = Now => net'[k].s2c = Tail(net[Now].s2c) /\ net'[k].c2s = net[k].c2s
      BY <1>6 DEF TakeMessage, TInv, Types
    <3>2. k # Now => net'[k] = net[k]  BY <1>6 DEF TakeMessage, TInv, Types
    <3>3. QED  BY <1>1, <2>2, <3>1, <3>2
  <2>4. QED  BY <1>1, <1>6, <2>3 DEF TakeMessage, Bounds
<1>7. CASE Deliver
  <2>1. [kind |-> conn.held.kind, link |-> Now] \in Notices
    BY <1>7 DEF Deliver, TInv, Holds, Linked, Replies, Notices
  <2>2. Len(down') <= QueueCap
    BY <1>7, <2>1, AppendLen, Numbered DEF Deliver, TInv, Types
  <2>3. QED  BY <1>1, <1>7, <2>2 DEF Deliver, Bounds
<1>8. CASE SendDisconnected
  <2>1. [kind |-> "disconnected", link |-> Now] \in Notices
    BY <1>8 DEF SendDisconnected, TInv, Holds, Linked, Notices
  <2>2. Len(down') <= QueueCap
    BY <1>8, <2>1, AppendLen, Numbered DEF SendDisconnected, TInv, Types
  <2>3. QED  BY <1>1, <1>8, <2>2 DEF SendDisconnected, Bounds
<1>9. QED  BY <1>2, <1>3, <1>4, <1>5, <1>6, <1>7, <1>8 DEF Connection

LEMMA SessionBounds ==
  ASSUME TInv, Bounds, NEW l \in Links, Session(l) \/ NetFails(l)
  PROVE  Bounds'
<1> DEFINE s == srv[l]
           c == net[l]
<1>1. /\ \A k \in Links : Len(net[k].c2s) <= WireCap /\ Len(net[k].s2c) <= WireCap
                           /\ Len(srv[k].out) <= QueueCap
      /\ Len(up) <= QueueCap /\ Len(down) <= QueueCap
      /\ c.c2s \in Seq(Commands \cup Greetings) /\ c.s2c \in Seq(Replies)
      /\ s.out \in Seq(Replies)
  BY DEF TInv, Types, Bounds
<1>2. /\ UNCHANGED <<up, down>>
      /\ \A k \in Links : k # l => net'[k] = net[k] /\ srv'[k] = srv[k]
  <2> USE DEF TInv, Types
  <2>1. CASE Authenticate(l)  BY <2>1 DEF Authenticate
  <2>2. CASE AuthTimeout(l)  BY <2>2 DEF AuthTimeout, Close
  <2>3. CASE Handle(l)  BY <2>3 DEF Handle
  <2>4. CASE SendAnswer(l) \/ StopExpires(l) \/ TimerTick(l) \/ FireStop(l) \/ EndSession(l)
    BY <2>4 DEF SendAnswer, StopExpires, TimerTick, FireStop, EndSession
  <2>5. CASE WriteTask(l)  BY <2>5 DEF WriteTask
  <2>6. CASE NetFails(l)  BY <2>6 DEF NetFails
  <2>7. QED  BY <2>1, <2>2, <2>3, <2>4, <2>5, <2>6 DEF Session
<1>3. /\ Len(<<>>) <= WireCap /\ Len(<<>>) <= QueueCap
      /\ Len(<<Message("connected")>>) <= QueueCap /\ Len(<<Message("other")>>) <= WireCap
  BY Numbered
<1>4. c.c2s # <<>> => Len(Tail(c.c2s)) <= WireCap  BY <1>1, TailLen, Numbered
<1>5. s.out # <<>> => Len(Tail(s.out)) <= QueueCap  BY <1>1, TailLen, Numbered
<1>6. CanSend(l) => Len(Sending(l)) <= QueueCap
  BY <1>1, MessageTypes, AppendLen, Numbered DEF CanSend, Sending
<1>7. SUFFICES /\ Len(net'[l].c2s) <= WireCap /\ Len(net'[l].s2c) <= WireCap
               /\ Len(srv'[l].out) <= QueueCap
  <2>1. \A k \in Links : /\ Len(net'[k].c2s) <= WireCap /\ Len(net'[k].s2c) <= WireCap
                         /\ Len(srv'[k].out) <= QueueCap
    BY <1>1, <1>2, <1>7
  <2>2. QED  BY <1>1, <1>2, <2>1 DEF Bounds
<1>8. CASE Authenticate(l)
  <2>1. /\ net'[l].c2s \in {Tail(c.c2s), <<>>} /\ c.c2s # <<>>
        /\ net'[l].s2c \in {c.s2c, <<>>, <<Message("other")>>}
        /\ srv'[l].out \in {s.out, <<Message("connected")>>}
    BY <1>8 DEF Authenticate, TInv, Types
  <2>2. QED  BY <1>1, <1>3, <1>4, <2>1
<1>9. CASE AuthTimeout(l) \/ NetFails(l)
  <2>1. /\ net'[l].c2s \in {c.c2s, <<>>} /\ net'[l].s2c = c.s2c /\ srv'[l].out = s.out
    BY <1>9 DEF AuthTimeout, Close, NetFails, TInv, Types
  <2>2. QED  BY <1>1, <1>3, <2>1
<1>10. CASE Handle(l)
  <2>1. /\ net'[l].c2s = Tail(c.c2s) /\ c.c2s # <<>> /\ net'[l].s2c = c.s2c
        /\ srv'[l].out = s.out
    BY <1>10 DEF Handle, TInv, Types
  <2>2. QED  BY <1>1, <1>4, <2>1
<1>11. CASE SendAnswer(l) \/ FireStop(l)
  <2>1. net'[l] = c /\ srv'[l].out = Sending(l) /\ CanSend(l)
    BY <1>11 DEF SendAnswer, FireStop, TInv, Types
  <2>2. QED  BY <1>1, <1>6, <2>1
<1>12. CASE StopExpires(l) \/ TimerTick(l) \/ EndSession(l)
  <2>1. net'[l] = c /\ srv'[l].out \in {s.out, <<>>}
    BY <1>12 DEF StopExpires, TimerTick, EndSession, TInv, Types
  <2>2. QED  BY <1>1, <1>3, <2>1
<1>13. CASE WriteTask(l)
  <2>1. s.out # <<>>  BY <1>13 DEF WriteTask
  <2>2. Head(s.out) \in Replies  BY <1>1, <2>1
  <2>3. CASE net[l].state = "up"
    <3>1. /\ HasRoom(c.s2c, WireCap) /\ net'[l].s2c = Append(c.s2c, Head(s.out))
          /\ net'[l].c2s = c.c2s /\ srv'[l].out = Tail(s.out)
      <4>1. /\ HasRoom(c.s2c, WireCap) /\ net' = [net EXCEPT ![l].s2c = Append(@, Head(s.out))]
            /\ srv' = [srv EXCEPT ![l].out = Tail(@)]
        BY <1>13, <2>3 DEF WriteTask
      <4>2. net'[l].s2c = Append(c.s2c, Head(s.out)) /\ net'[l].c2s = c.c2s
        BY <4>1 DEF TInv, Types
      <4>3. srv'[l].out = Tail(s.out)  BY <4>1 DEF TInv, Types
      <4>4. QED  BY <4>1, <4>2, <4>3
    <3>2. Len(net'[l].s2c) <= WireCap  BY <1>1, <2>2, <3>1, AppendLen, Numbered
    <3>3. QED  BY <1>1, <1>5, <2>1, <3>1, <3>2
  <2>4. CASE net[l].state # "up"
    <3>1. net'[l] = c /\ srv'[l].out = <<>>
      BY <1>13, <2>4 DEF WriteTask, TInv, Types
    <3>2. QED  BY <1>1, <1>3, <3>1
  <2>5. QED  BY <2>3, <2>4
<1>14. QED  BY <1>8, <1>9, <1>10, <1>11, <1>12, <1>13 DEF Session

LEMMA NextBounds == TInv /\ Bounds /\ [Next]_vars => Bounds'
<1> SUFFICES ASSUME TInv, Bounds, [Next]_vars  PROVE Bounds'  OBVIOUS
<1>1. CASE UiLoop  BY <1>1, UiBounds
<1>2. CASE Connection  BY <1>2, ConnectionBounds
<1>3. ASSUME NEW l \in Links, Session(l) \/ NetFails(l)  PROVE Bounds'
  BY <1>3, SessionBounds
<1>4. CASE UNCHANGED vars  BY <1>4 DEF vars, Bounds
<1>5. QED  BY <1>1, <1>2, <1>3, <1>4 DEF Next

-----------------------------------------------------------------------------
(* The end of a connection: what the application hears of it comes before. *)

\* Notices reach the application in the order of the connections they are about, and after that
\* of the end of one there is no other of it.  While a connection lasts its end is not told.
NoticesInOrder ==
    /\ EndedLinkIsSilent
    /\ \A i \in DOMAIN down : down[i].link <= Now
    /\ \A i, j \in DOMAIN down : i < j =>
          /\ down[i].link <= down[j].link
          /\ down[i].kind = "disconnected" => down[i].link < down[j].link
    /\ ui.gone <= Now
    /\ conn.pc \in Linked => /\ ui.gone < Now
                              /\ \A i \in DOMAIN down :
                                    down[i].kind = "disconnected" => down[i].link < Now

LEMMA InitNotices == Init => NoticesInOrder
  BY Numbered DEF Init, NoticesInOrder, EndedLinkIsSilent, Now, Linked

\* A notice of the present connection is added.
LEMMA AddedNotice ==
  ASSUME TInv, NoticesInOrder, conn.pc \in Linked, NEW m \in Notices, m.link = Now,
         down' = Append(down, m), ui' = ui, Now' = Now,
         conn'.pc \in Linked => m.kind # "disconnected"
  PROVE  NoticesInOrder'
<1>1. /\ down \in Seq(Notices) /\ Len(down) \in Nat /\ DOMAIN down = 1..Len(down)
      /\ DOMAIN down' = 1..(Len(down) + 1)
      /\ \A i \in 1..Len(down) : down'[i] = down[i]
      /\ down'[Len(down) + 1] = m
  BY AppendProperties DEF TInv, Types
<1>2. /\ Now \in Nat /\ ui.gone \in Nat /\ ui.gone < Now
      /\ \A i \in DOMAIN down : down[i].link <= Now /\ down[i].link > ui.gone
                                /\ (down[i].kind = "disconnected" => down[i].link < Now)
  BY DEF TInv, Types, Now, NoticesInOrder, EndedLinkIsSilent
<1>3. \A i \in DOMAIN down' : /\ down'[i].link <= Now /\ down'[i].link > ui.gone
                              /\ down'[i] = m \/ (i \in DOMAIN down /\ down'[i] = down[i])
  BY <1>1, <1>2
<1>4. ASSUME NEW i \in DOMAIN down', NEW j \in DOMAIN down', i < j
      PROVE  /\ down'[i].link <= down'[j].link
             /\ down'[i].kind = "disconnected" => down'[i].link < down'[j].link
  <2>1. i \in DOMAIN down /\ down'[i] = down[i]  BY <1>1, <1>4
  <2>2. CASE j \in DOMAIN down  BY <1>1, <1>4, <2>1, <2>2 DEF NoticesInOrder
  <2>3. CASE j \notin DOMAIN down
    <3>1. down'[j] = m  BY <1>1, <2>3
    <3>2. QED  BY <1>2, <2>1, <3>1
  <2>4. QED  BY <2>2, <2>3
<1>5. conn'.pc \in Linked => \A i \in DOMAIN down' :
          down'[i].kind = "disconnected" => down'[i].link < Now
  BY <1>2, <1>3
<1>6. QED  BY <1>2, <1>3, <1>4, <1>5 DEF NoticesInOrder, EndedLinkIsSilent

LEMMA NextNotices ==
  ASSUME TInv, NoticesInOrder, [Next]_vars
  PROVE  NoticesInOrder'
<1>1. CASE UiReceive
  <2>1. /\ down \in Seq(Notices) /\ down # <<>> /\ down' = Tail(down) /\ conn' = conn
        /\ ui'.gone = IF Head(down).kind = "disconnected" THEN Head(down).link ELSE ui.gone
    BY <1>1 DEF UiReceive, TInv, Types
  <2>2. /\ Len(down) \in Nat \ {0} /\ DOMAIN down = 1..Len(down) /\ Head(down) = down[1]
        /\ DOMAIN down' = 1..(Len(down) - 1)
        /\ \A i \in DOMAIN down' : down'[i] = down[i + 1] /\ i + 1 \in DOMAIN down /\ 1 < i + 1
        /\ 1 \in DOMAIN down
    BY <2>1, HeadTailProperties
  <2>3. \A i \in DOMAIN down' : down'[i].link > ui'.gone /\ down'[i].link <= Now
    BY <2>1, <2>2 DEF NoticesInOrder, EndedLinkIsSilent
  <2>4. ASSUME NEW i \in DOMAIN down', NEW j \in DOMAIN down', i < j
        PROVE  /\ down'[i].link <= down'[j].link
               /\ down'[i].kind = "disconnected" => down'[i].link < down'[j].link
    <3>1. /\ i + 1 \in DOMAIN down /\ j + 1 \in DOMAIN down /\ i + 1 < j + 1
          /\ down'[i] = down[i + 1] /\ down'[j] = down[j + 1]
      BY <2>2, <2>4
    <3>2. QED  BY <3>1 DEF NoticesInOrder
  <2>5. ui'.gone <= Now  BY <2>1, <2>2 DEF NoticesInOrder
  <2>6. conn.pc \in Linked => /\ ui'.gone < Now
                              /\ \A i \in DOMAIN down' :
                                    down'[i].kind = "disconnected" => down'[i].link < Now
    BY <2>1, <2>2 DEF NoticesInOrder
  <2>7. Now' = Now  BY <2>1 DEF Now
  <2>8. QED  BY <2>1, <2>3, <2>4, <2>5, <2>6, <2>7 DEF NoticesInOrder, EndedLinkIsSilent
<1>2. CASE Deliver
  <2>1. [kind |-> conn.held.kind, link |-> Now] \in Notices /\ conn.held.kind # "disconnected"
    BY <1>2 DEF Deliver, TInv, Holds, Linked, Replies, Notices
  <2>2. conn.pc \in Linked /\ Now' = Now  BY <1>2 DEF Deliver, Linked, Now, TInv, Types
  <2>3. QED  BY <1>2, <2>1, <2>2, AddedNotice DEF Deliver
<1>3. CASE SendDisconnected
  <2>1. [kind |-> "disconnected", link |-> Now] \in Notices
    BY <1>3 DEF SendDisconnected, TInv, Holds, Linked, Notices
  <2>2. conn.pc \in Linked /\ Now' = Now /\ conn'.pc \notin Linked
    BY <1>3 DEF SendDisconnected, Linked, Now, TInv, Types
  <2>3. QED  BY <1>3, <2>1, <2>2, AddedNotice DEF SendDisconnected
<1>4. CASE ConnectOk
  <2>1. /\ Now \in Nat /\ Now' = Now + 1 /\ UNCHANGED <<ui, down>> /\ ui.gone \in Nat
        /\ down \in Seq(Notices)
    BY <1>4 DEF ConnectOk, Now, TInv, Types
  <2>2. \A i \in DOMAIN down : down[i].link \in Nat
    <3>1. \A m \in Notices : m.link \in Nat  BY DEF Notices, Links
    <3>2. QED  BY <2>1, <3>1
  <2>3. QED  BY <2>1, <2>2 DEF NoticesInOrder, EndedLinkIsSilent
<1>5. CASE UNCHANGED <<ui, down>> /\ Now' = Now /\ (conn'.pc \in Linked => conn.pc \in Linked)
  BY <1>5 DEF NoticesInOrder, EndedLinkIsSilent
<1>6. CASE UiCommand \/ AutoRefresh \/ UiSend
  <2>1. ui'.gone = ui.gone /\ UNCHANGED <<conn, down>>
    BY <1>6 DEF UiCommand, AutoRefresh, UiSend, TInv, Types
  <2>2. QED  BY <2>1 DEF NoticesInOrder, EndedLinkIsSilent, Now
<1>7. CASE ConnectFails \/ Wake \/ TakeCommand \/ WriteCommand \/ TakeMessage \/ ReadFails
  <2>1. /\ UNCHANGED <<ui, down>> /\ conn'.link = conn.link
        /\ conn'.pc \in Linked => conn.pc \in Linked
    BY <1>7 DEF ConnectFails, Wake, TakeCommand, WriteCommand, TakeMessage, ReadFails, Linked,
                TInv, Types
  <2>2. QED  BY <1>5, <2>1 DEF Now
<1>8. ASSUME NEW l \in Links, Session(l) \/ NetFails(l)  PROVE NoticesInOrder'
  <2>1. UNCHANGED <<ui, down, conn>>
    BY <1>8 DEF Session, Authenticate, AuthTimeout, Handle, SendAnswer, StopExpires, TimerTick,
                FireStop, WriteTask, EndSession, NetFails
  <2>2. QED  BY <1>5, <2>1 DEF Now
<1>9. CASE UNCHANGED vars  BY <1>5, <1>9 DEF vars, Now
<1>10. QED
  BY <1>1, <1>2, <1>3, <1>4, <1>6, <1>7, <1>8, <1>9 DEF Next, UiLoop, Connection

-----------------------------------------------------------------------------
(* The key. *)

\* Only a client that has the key sends it.
KeyShown ==
    /\ ServedWithKey
    /\ \A l \in Links : \A i \in DOMAIN net[l].c2s :
          net[l].c2s[i].kind = "good" => setup.key = "good"

LEMMA InitKey == Init => KeyShown
  BY DEF Init, KeyShown, ServedWithKey, Serving

LEMMA NextKey ==
  ASSUME TInv, KeyShown, [Next]_vars
  PROVE  KeyShown'
<1> DEFINE Shown(q) == \A i \in DOMAIN q : q[i].kind = "good" => setup.key = "good"
<1> USE DEF TInv
<1>1. CASE ConnectOk
  <2>1. Shown(Greeting)
    BY DEF Greeting
  <2>2. setup' = setup /\ \A k \in Links :
            /\ net'[k] = net[k] \/ net'[k].c2s = Greeting
            /\ srv'[k].pc \in Serving => srv[k].pc \in Serving \/ ~setup.required
    BY <1>1 DEF ConnectOk, Types, Serving
  <2>3. QED  BY <2>1, <2>2 DEF KeyShown, ServedWithKey
<1>2. CASE WriteCommand
  <2>1. Now \in Links /\ conn.held.kind = "command"
    BY <1>2 DEF WriteCommand, Holds, Linked, Commands
  <2>2. ASSUME NEW k \in Links  PROVE Shown(net'[k].c2s)
    <3>1. net[k].c2s \in Seq(Commands \cup Greetings) /\ Shown(net[k].c2s)
      BY DEF Types, KeyShown
    <3>2. net'[k].c2s = net[k].c2s \/ net'[k].c2s = Append(net[k].c2s, conn.held)
      <4>1. net' = net \/ net' = [net EXCEPT ![Now].c2s = Append(net[Now].c2s, conn.held)]
        BY <1>2 DEF WriteCommand
      <4>2. DOMAIN net = Links /\ "c2s" \in DOMAIN net[Now]  BY <2>1 DEF Types
      <4>3. CASE net' = net  BY <4>3
      <4>4. CASE net' = [net EXCEPT ![Now].c2s = Append(net[Now].c2s, conn.held)]
        <5>1. CASE k = Now
          <6>1. net'[Now].c2s = Append(net[Now].c2s, conn.held)  BY ONLY <2>1, <4>2, <4>4
          <6>2. QED  BY ONLY <5>1, <6>1
        <5>2. CASE k # Now
          <6>1. net'[k] = net[k]  BY ONLY <4>2, <4>4, <5>2, k \in Links
          <6>2. QED  BY ONLY <6>1
        <5>3. QED  BY ONLY <5>1, <5>2
      <4>5. QED  BY ONLY <4>1, <4>3, <4>4
    <3>3. Shown(Append(net[k].c2s, conn.held))  BY <2>1, <3>1, AppendProperties
    <3>4. QED  BY <3>1, <3>2, <3>3
  <2>3. UNCHANGED <<setup, srv>>  BY <1>2 DEF WriteCommand
  <2>4. QED  BY <2>2, <2>3 DEF KeyShown, ServedWithKey
<1>3. CASE TakeMessage
  <2>1. UNCHANGED <<setup, srv>> /\ \A k \in Links : net'[k].c2s = net[k].c2s
    BY <1>3 DEF TakeMessage, Types
  <2>2. QED  BY <2>1 DEF KeyShown, ServedWithKey
<1>4. ASSUME NEW l \in Links, Session(l) \/ NetFails(l)  PROVE KeyShown'
  <2> DEFINE c == net[l].c2s
  <2>1. c \in Seq(Commands \cup Greetings) /\ Shown(c)  BY DEF Types, KeyShown
  <2>2. c # <<>> => Shown(Tail(c)) /\ (Head(c).kind = "good" => setup.key = "good")
    <3>1. ASSUME c # <<>>
          PROVE  /\ Head(c) = c[1] /\ 1 \in DOMAIN c
                 /\ \A i \in DOMAIN Tail(c) : i + 1 \in DOMAIN c /\ Tail(c)[i] = c[i + 1]
      BY <2>1, <3>1, HeadTailProperties
    <3>2. QED  BY <2>1, <3>1
  <2>3. setup' = setup /\ \A k \in Links : k # l => net'[k] = net[k] /\ srv'[k] = srv[k]
    <3> USE DEF Types
    <3>1. CASE Authenticate(l)  BY <3>1 DEF Authenticate
    <3>2. CASE AuthTimeout(l)  BY <3>2 DEF AuthTimeout, Close
    <3>3. CASE Handle(l)  BY <3>3 DEF Handle
    <3>4. CASE SendAnswer(l) \/ StopExpires(l) \/ TimerTick(l) \/ FireStop(l) \/ EndSession(l)
      BY <3>4 DEF SendAnswer, StopExpires, TimerTick, FireStop, EndSession
    <3>5. CASE WriteTask(l)  BY <3>5 DEF WriteTask
    <3>6. CASE NetFails(l)  BY <3>6 DEF NetFails
    <3>7. QED  BY <1>4, <3>1, <3>2, <3>3, <3>4, <3>5, <3>6 DEF Session
  <2>4. SUFFICES /\ Shown(net'[l].c2s)
                 /\ srv'[l].pc \in Serving => ~setup.required \/ setup.key = "good"
    <3>1. \A k \in Links : /\ Shown(net'[k].c2s)
                           /\ srv'[k].pc \in Serving => ~setup.required \/ setup.key = "good"
      BY <2>3, <2>4 DEF KeyShown, ServedWithKey
    <3>2. QED  BY <2>3, <3>1 DEF KeyShown, ServedWithKey
  <2>5. srv[l].pc \in Serving => ~setup.required \/ setup.key = "good"
    BY DEF KeyShown, ServedWithKey
  <2>6. CASE Authenticate(l)
    <3>1. /\ c # <<>> /\ net'[l].c2s \in {Tail(c), <<>>}
          /\ srv'[l].pc \in Serving => Head(c).kind = "good"
      BY <2>6 DEF Authenticate, Types, Serving
    <3>2. QED  BY <2>2, <3>1
  <2>7. CASE AuthTimeout(l) \/ NetFails(l)
    <3>1. net'[l].c2s \in {c, <<>>} /\ (srv'[l].pc = srv[l].pc \/ srv'[l].pc \notin Serving)
      BY <2>7 DEF AuthTimeout, NetFails, Close, Types, Serving
    <3>2. QED  BY <2>1, <2>5, <3>1
  <2>8. CASE Handle(l)
    <3>1. c # <<>> /\ net'[l].c2s = Tail(c) /\ srv[l].pc \in Serving
      BY <2>8 DEF Handle, At, Types, Serving
    <3>2. QED  BY <2>2, <2>5, <3>1
  <2>9. CASE SendAnswer(l) \/ StopExpires(l) \/ TimerTick(l) \/ FireStop(l)
    <3>1. net' = net /\ srv[l].pc \in Serving
      BY <2>9 DEF SendAnswer, StopExpires, TimerTick, FireStop, At, Serving
    <3>2. QED  BY <2>1, <2>5, <3>1
  <2>10. CASE WriteTask(l) \/ EndSession(l)
    <3>1. net'[l].c2s = c /\ (srv'[l].pc = srv[l].pc \/ srv'[l].pc = "over")
      BY <2>10 DEF WriteTask, EndSession, Types
    <3>2. "over" \notin Serving  BY DEF Serving
    <3>3. QED  BY <2>1, <2>5, <3>1, <3>2
  <2>11. QED  BY <1>4, <2>6, <2>7, <2>8, <2>9, <2>10 DEF Session
<1>5. CASE UiLoop \/ ConnectFails \/ Wake \/ TakeCommand \/ Deliver \/ ReadFails \/ SendDisconnected
           \/ UNCHANGED vars
  <2>1. UNCHANGED <<setup, net, srv>>
    BY <1>5 DEF UiLoop, UiCommand, AutoRefresh, UiSend, UiReceive, ConnectFails, Wake,
                TakeCommand, Deliver, ReadFails, SendDisconnected, vars
  <2>2. QED  BY <2>1 DEF KeyShown, ServedWithKey
<1>6. QED  BY <1>1, <1>2, <1>3, <1>4, <1>5 DEF Next, Connection

-----------------------------------------------------------------------------
(* The order of commands, by the numbers in which they were entered. *)

One(m) == {m.n} \ {0}

LEMMA AppendSent ==
  ASSUME NEW S, NEW q \in Seq(S), NEW m \in S
  PROVE  /\ Sent(Append(q, m)) = Sent(q) \cup One(m)
         /\ Sorted(q) /\ Below(Sent(q), One(m)) => Sorted(Append(q, m))
<1> DEFINE r == Append(q, m)
<1>1. /\ Len(q) \in Nat /\ DOMAIN q = 1..Len(q) /\ DOMAIN r = 1..(Len(q) + 1)
      /\ \A i \in 1..Len(q) : r[i] = q[i]
      /\ r[Len(q) + 1] = m
  BY AppendProperties
<1>2. ASSUME NEW x \in Sent(r)  PROVE x \in Sent(q) \cup One(m)
  <2>1. PICK i \in DOMAIN r : x = r[i].n /\ x # 0  BY <1>2 DEF Sent
  <2>2. CASE i \in DOMAIN q  BY <1>1, <2>1, <2>2 DEF Sent
  <2>3. CASE i \notin DOMAIN q  BY <1>1, <2>1, <2>3 DEF One
  <2>4. QED  BY <2>2, <2>3
<1>3. ASSUME NEW x \in Sent(q) \cup One(m)  PROVE x \in Sent(r)
  <2>1. CASE x \in Sent(q)
    <3>1. PICK i \in DOMAIN q : x = q[i].n /\ x # 0  BY <2>1 DEF Sent
    <3>2. i \in DOMAIN r /\ r[i] = q[i]  BY <1>1
    <3>3. QED  BY <3>1, <3>2 DEF Sent
  <2>2. CASE x \in One(m)
    <3>1. Len(q) + 1 \in DOMAIN r /\ x = r[Len(q) + 1].n /\ x # 0  BY <1>1, <2>2 DEF One
    <3>2. QED  BY <3>1 DEF Sent
  <2>3. QED  BY <1>3, <2>1, <2>2
<1>4. ASSUME Sorted(q), Below(Sent(q), One(m)),
             NEW i \in DOMAIN r, NEW j \in DOMAIN r, i < j, r[i].n # 0, r[j].n # 0
      PROVE  r[i].n < r[j].n
  <2>1. i \in DOMAIN q /\ r[i] = q[i]  BY <1>1, <1>4
  <2>2. CASE j \in DOMAIN q  BY <1>1, <1>4, <2>1, <2>2 DEF Sorted
  <2>3. CASE j \notin DOMAIN q
    <3>1. r[j] = m  BY <1>1, <2>3
    <3>2. r[i].n \in Sent(q) /\ r[j].n \in One(m)  BY <1>4, <2>1, <3>1 DEF Sent, One
    <3>3. QED  BY <1>4, <3>2 DEF Below
  <2>4. QED  BY <2>2, <2>3
<1>5. QED  BY <1>2, <1>3, <1>4 DEF Sorted

LEMMA TailSent ==
  ASSUME NEW S, NEW q \in Seq(S), q # <<>>
  PROVE  /\ Sent(Tail(q)) \subseteq Sent(q) /\ One(Head(q)) \subseteq Sent(q)
         /\ Sent(q) = One(Head(q)) \cup Sent(Tail(q))
         /\ Sorted(q) => Sorted(Tail(q)) /\ Below(One(Head(q)), Sent(Tail(q)))
<1> DEFINE r == Tail(q)
<1>1. /\ Head(q) = q[1] /\ 1 \in DOMAIN q
      /\ \A i \in DOMAIN r : /\ r[i] = q[i + 1] /\ i + 1 \in DOMAIN q /\ 1 < i + 1
                            /\ \A j \in DOMAIN r : i < j => i + 1 < j + 1
  BY HeadTailProperties
<1>2. Sent(r) \subseteq Sent(q)  BY <1>1 DEF Sent
<1>3. One(Head(q)) \subseteq Sent(q)  BY <1>1 DEF One, Sent
<1>4. ASSUME Sorted(q)  PROVE Sorted(r)  BY <1>1, <1>4 DEF Sorted
<1>5. ASSUME Sorted(q), NEW a \in One(Head(q)), NEW b \in Sent(r)  PROVE a < b
  <2>1. a = q[1].n /\ a # 0  BY <1>1, <1>5 DEF One
  <2>2. PICK i \in DOMAIN r : b = r[i].n /\ b # 0  BY <1>5 DEF Sent
  <2>3. b = q[i + 1].n /\ i + 1 \in DOMAIN q /\ 1 < i + 1  BY <1>1, <2>2
  <2>4. QED  BY <1>1, <1>5, <2>1, <2>2, <2>3 DEF Sorted
<1>6. ASSUME NEW x \in Sent(q)  PROVE x \in One(Head(q)) \cup Sent(r)
  <2>1. PICK i \in DOMAIN q : x = q[i].n /\ x # 0  BY <1>6 DEF Sent
  <2>2. /\ Len(q) \in Nat /\ DOMAIN q = 1..Len(q) /\ DOMAIN r = 1..(Len(q) - 1)
        /\ \A k \in 1..(Len(q) - 1) : r[k] = q[k + 1]
    BY HeadTailProperties
  <2>3. CASE i = 1  BY <1>1, <2>1, <2>3 DEF One
  <2>4. CASE i # 1
    <3>1. i - 1 \in DOMAIN r /\ r[i - 1] = q[i]  BY <2>1, <2>2, <2>4
    <3>2. QED  BY <2>1, <3>1 DEF Sent
  <2>5. QED  BY <2>3, <2>4
<1>7. Sent(q) = One(Head(q)) \cup Sent(r)  BY <1>2, <1>3, <1>6
<1>8. QED  BY <1>2, <1>3, <1>4, <1>5, <1>7 DEF Below

LEMMA NothingSent ==
  /\ Sent(<<>>) = {} /\ Sorted(<<>>)
  /\ Sent(Refresh) = {} /\ Sorted(Refresh) /\ Sent(Resume) = {} /\ Sorted(Resume)
  /\ Sent(Greeting) = {} /\ Sorted(Greeting)
<1>1. Sent(<<>>) = {} /\ Sorted(<<>>)  BY DEF Sent, Sorted
<1>2. Command(0).n = 0  BY DEF Command
<1>3. \A i \in DOMAIN Refresh : Refresh[i].n = 0  BY <1>2 DEF Refresh
<1>4. \A i \in DOMAIN Resume : Resume[i].n = 0  BY <1>2 DEF Resume, Refresh
<1>5. \A i \in DOMAIN Greeting : Greeting[i].n = 0  BY DEF Greeting
<1>6. QED  BY <1>1, <1>3, <1>4, <1>5 DEF Sent, Sorted

On(l) == Done(l) \cup Sent(net[l].c2s)
Hand == One(conn.held)

\* From the session to the user every command is later than those before it, and each
\* connection is later than the ones before it.
SessionsOrdered ==
    /\ \A l \in Links : /\ Increasing(handled[l]) /\ Sorted(net[l].c2s)
                        /\ Below(Done(l), Sent(net[l].c2s))
                        /\ l > Now => On(l) = {}
    /\ \A k, l \in Links : k < l => Below(On(k), On(l))

QueuesOrdered ==
    /\ Sorted(up) /\ Sorted(ui.todo)
    /\ Below(Hand, Sent(up)) /\ Below(Hand, Sent(ui.todo)) /\ Below(Sent(up), Sent(ui.todo))
    /\ \A l \in Links : /\ Below(On(l), Hand) /\ Below(On(l), Sent(up))
                        /\ Below(On(l), Sent(ui.todo))
                        /\ \A n \in On(l) : n <= issued
    /\ \A n \in Hand \cup Sent(up) \cup Sent(ui.todo) : n <= issued

CommandOrder == SessionsOrdered /\ QueuesOrdered

LEMMA InitOrder == Init => CommandOrder
<1> SUFFICES ASSUME Init PROVE CommandOrder  OBVIOUS
<1>1. \A l \in Links : Done(l) = {} /\ net[l].c2s = <<>> /\ Increasing(handled[l])
  BY DEF Init, Done, Increasing
<1>2. Hand = {}  BY DEF Init, Hand, One, None
<1>3. up = <<>> /\ ui.todo = <<>>  BY DEF Init
<1>4. \A l \in Links : On(l) = {}  BY <1>1, NothingSent DEF On
<1>5. SessionsOrdered  BY <1>1, <1>4, NothingSent DEF SessionsOrdered, Below
<1>6. QueuesOrdered  BY <1>2, <1>3, <1>4, NothingSent DEF QueuesOrdered, Below
<1>7. QED  BY <1>5, <1>6 DEF CommandOrder

\* Numbers are numbers.
LEMMA NumberTypes ==
  ASSUME TInv
  PROVE  /\ \A l \in Links : On(l) \subseteq Nat
         /\ Hand \subseteq Nat /\ Sent(up) \subseteq Nat /\ Sent(ui.todo) \subseteq Nat
         /\ issued \in Nat
<1>1. \A q \in Seq(Commands) : Sent(q) \subseteq Nat
  <2>1. \A m \in Commands : m.n \in Nat  BY Numbered DEF Commands
  <2>2. QED  BY <2>1 DEF Sent
<1>2. \A q \in Seq(Commands \cup Greetings) : Sent(q) \subseteq Nat
  <2>1. \A m \in Commands \cup Greetings : m.n \in Nat  BY Numbered DEF Commands, Greetings
  <2>2. QED  BY <2>1 DEF Sent
<1>3. \A l \in Links : Done(l) \subseteq Nat
  <2>1. \A q \in Seq(1..MaxCommands) : \A i \in DOMAIN q : q[i] \in Nat  BY Numbered
  <2>2. QED  BY <2>1 DEF Done, TInv, Types
<1>4. Hand \subseteq Nat
  BY Numbered DEF Hand, One, TInv, Types, Commands, Replies, None
<1>5. \A l \in Links : net[l].c2s \in Seq(Commands \cup Greetings)  BY DEF TInv, Types
<1>6. issued \in Nat /\ up \in Seq(Commands) /\ ui.todo \in Seq(Commands)
  BY Numbered DEF TInv, Types
<1>7. QED  BY <1>1, <1>2, <1>3, <1>4, <1>5, <1>6 DEF On

\* Whatever is only taken away leaves the order of the rest.
LEMMA FewerQueues ==
  ASSUME QueuesOrdered, Sorted(up'), Sorted(ui'.todo), issued' = issued,
         \A l \in Links : On(l)' \subseteq On(l),
         Hand' \subseteq Hand, Sent(up') \subseteq Sent(up), Sent(ui'.todo) \subseteq Sent(ui.todo)
  PROVE  QueuesOrdered'
<1>1. Sorted(up)' /\ Sorted(ui.todo)'  BY DEF Sorted
<1>2. QED  BY <1>1 DEF QueuesOrdered, Below

LEMMA SameSessions ==
  ASSUME SessionsOrdered, UNCHANGED <<net, handled>>, Now' >= Now, Now \in Int, Now' \in Int
  PROVE  SessionsOrdered' /\ \A l \in Links : On(l)' = On(l)
<1>1. \A l \in Links : On(l)' = On(l) /\ Done(l)' = Done(l)  BY DEF On, Done
<1>2. \A l \in Links : l > Now' => l > Now  BY DEF Links
<1>3. QED  BY <1>1, <1>2 DEF SessionsOrdered

LEMMA UiOrder ==
  ASSUME TInv, CommandOrder, UiLoop
  PROVE  CommandOrder'
<1>1. UNCHANGED <<net, handled, conn>> /\ Now' = Now /\ Now \in Int
  BY DEF UiLoop, UiCommand, AutoRefresh, UiSend, UiReceive, Now, TInv, Types
<1>2. SessionsOrdered' /\ (\A l \in Links : On(l)' = On(l)) /\ Hand' = Hand
  BY <1>1, SameSessions DEF CommandOrder, Hand
<1>3. CASE UiCommand
  <2>1. ui'.todo = <<Command(issued + 1)>> /\ issued' = issued + 1 /\ up' = up
    BY <1>3 DEF UiCommand, TInv, Types
  <2>2. Sorted(ui'.todo) /\ Sent(ui'.todo) \subseteq {issued + 1}
    BY <2>1 DEF Sorted, Sent, Command
  <2>3. \A n : n \in Nat /\ n <= issued => n < issued + 1 /\ n <= issued + 1
    BY NumberTypes
  <2>4. issued + 1 <= issued + 1  BY NumberTypes
  <2>5. QueuesOrdered'
    BY <1>2, <2>1, <2>2, <2>3, <2>4, NumberTypes DEF CommandOrder, QueuesOrdered, Below
  <2>6. QED  BY <1>2, <2>5 DEF CommandOrder
<1>4. CASE AutoRefresh \/ UiReceive
  <2>1. ui'.todo \in {Refresh, Resume, <<>>} /\ UNCHANGED <<issued, up>>
    BY <1>4 DEF AutoRefresh, UiReceive, TInv, Types
  <2>2. Sent(ui'.todo) = {} /\ Sorted(ui'.todo)  BY <2>1, NothingSent
  <2>3. QueuesOrdered'  BY <1>2, <2>1, <2>2, FewerQueues DEF CommandOrder, QueuesOrdered
  <2>4. QED  BY <1>2, <2>3 DEF CommandOrder
<1>5. CASE UiSend
  <2> DEFINE m == Head(ui.todo)
  <2>1. ui.todo \in Seq(Commands) /\ ui.todo # <<>> /\ up \in Seq(Commands) /\ m \in Commands
    BY <1>5 DEF UiSend, TInv, Types
  <2>2. up' = Append(up, m) /\ ui'.todo = Tail(ui.todo) /\ issued' = issued
    BY <1>5 DEF UiSend, TInv, Types
  <2>3. /\ Sent(Tail(ui.todo)) \subseteq Sent(ui.todo) /\ One(m) \subseteq Sent(ui.todo)
        /\ Sorted(Tail(ui.todo)) /\ Below(One(m), Sent(Tail(ui.todo)))
    BY <2>1, TailSent DEF CommandOrder, QueuesOrdered
  <2>4. Below(Sent(up), One(m))  BY <2>3 DEF CommandOrder, QueuesOrdered, Below
  <2>5. Sent(up') = Sent(up) \cup One(m) /\ Sorted(up')
    BY <2>1, <2>2, <2>4, AppendSent DEF CommandOrder, QueuesOrdered
  <2>6. QueuesOrdered'
    BY <1>2, <2>2, <2>3, <2>5 DEF CommandOrder, QueuesOrdered, Below
  <2>7. QED  BY <1>2, <2>6 DEF CommandOrder
<1>6. QED  BY <1>3, <1>4, <1>5 DEF UiLoop

LEMMA ConnectionOrder ==
  ASSUME TInv, CommandOrder, Connection
  PROVE  CommandOrder'
<1>1. CASE ConnectOk
  <2>1. Now' = Now + 1 /\ Now \in Int /\ UNCHANGED <<issued, ui, up, handled>> /\ Hand' = Hand
    BY <1>1 DEF ConnectOk, Now, TInv, Types, Hand
  <2>2. \A l \in Links : net'[l].c2s = net[l].c2s \/ (l = Now + 1 /\ net'[l].c2s = Greeting)
    BY <1>1 DEF ConnectOk, TInv, Types
  <2>3. \A l \in Links : l = Now + 1 => On(l) = {}
    BY <2>1 DEF CommandOrder, SessionsOrdered, Links
  <2>4. \A l \in Links : Done(l)' = Done(l) /\ On(l)' = On(l)
    <3>1. ASSUME NEW l \in Links  PROVE Done(l)' = Done(l)  BY <2>1 DEF Done
    <3>2. ASSUME NEW l \in Links, net'[l].c2s = net[l].c2s  PROVE On(l)' = On(l)
      BY <3>1, <3>2 DEF On
    <3>3. ASSUME NEW l \in Links, l = Now + 1, net'[l].c2s = Greeting  PROVE On(l)' = On(l)
      BY <2>3, <3>1, <3>3, NothingSent DEF On
    <3>4. QED  BY <2>2, <3>1, <3>2, <3>3
  <2>5. \A l \in Links : Sorted(net'[l].c2s) /\ Sent(net'[l].c2s) \subseteq Sent(net[l].c2s)
    BY <2>2, NothingSent DEF CommandOrder, SessionsOrdered
  <2>6. SessionsOrdered'
    <3>1. \A l \in Links : Increasing(handled'[l])  BY <2>1 DEF CommandOrder, SessionsOrdered
    <3>2. \A l \in Links : l > Now' => l > Now  BY <2>1 DEF Links
    <3>3. QED  BY <2>4, <2>5, <3>1, <3>2 DEF CommandOrder, SessionsOrdered, Below
  <2>7. QueuesOrdered'  BY <2>1, <2>4 DEF CommandOrder, QueuesOrdered
  <2>8. QED  BY <2>6, <2>7 DEF CommandOrder
<1>2. CASE WriteCommand
  <2>1. Now \in Links /\ conn.held \in Commands /\ Now' = Now /\ Now \in Int
        /\ UNCHANGED <<issued, ui, up, handled>>
    <3>1. Now \in Links /\ conn.held \in Commands /\ Now \in Int
      BY <1>2 DEF WriteCommand, TInv, Holds, Linked, Links
    <3>2. conn'.link = conn.link  BY <1>2 DEF WriteCommand, TInv, Types
    <3>3. QED  BY <1>2, <3>1, <3>2 DEF WriteCommand, Now
  <2>2. CASE net' = net /\ conn'.held = None
    <3>1. Hand' = {}  BY <2>2 DEF Hand, One, None
    <3>2. SessionsOrdered' /\ \A l \in Links : On(l)' = On(l)
      BY <2>1, <2>2, SameSessions DEF CommandOrder
    <3>3. QueuesOrdered'  BY <2>1, <3>1, <3>2, FewerQueues DEF CommandOrder, QueuesOrdered
    <3>4. QED  BY <3>2, <3>3 DEF CommandOrder
  <2>3. CASE net' = [net EXCEPT ![Now].c2s = Append(@, conn.held)] /\ conn'.held = None
    <3> DEFINE c == net[Now].c2s
    <3>1. Hand' = {}  BY <2>3 DEF Hand, One, None
    <3>2. c \in Seq(Commands \cup Greetings) /\ conn.held \in Commands \cup Greetings
      BY <2>1 DEF TInv, Types
    <3>3. Below(Sent(c), Hand) /\ Below(Done(Now), Hand) /\ Sorted(c)
      BY <2>1 DEF CommandOrder, QueuesOrdered, SessionsOrdered, Below, On
    <3>4. Sent(Append(c, conn.held)) = Sent(c) \cup Hand /\ Sorted(Append(c, conn.held))
      BY <3>2, <3>3, AppendSent DEF Hand
    <3>5. /\ net'[Now].c2s = Append(c, conn.held)
          /\ \A l \in Links : l # Now => net'[l] = net[l]
      BY <2>1, <2>3 DEF TInv, Types
    <3>6. /\ \A l \in Links : Done(l)' = Done(l)
          /\ \A l \in Links : l # Now => On(l)' = On(l)
          /\ \A l \in Links : l = Now => On(l)' = On(l) \cup Hand
      <4>1. \A l \in Links : Done(l)' = Done(l)  BY <2>1 DEF Done
      <4>2. \A l \in Links : l # Now => On(l)' = On(l)  BY <3>5, <4>1 DEF On
      <4>3. ASSUME NEW l \in Links, l = Now  PROVE On(l)' = On(l) \cup Hand
        <5>1. On(l)' = Done(l) \cup Sent(net'[l].c2s)  BY <4>1 DEF On
        <5>2. net'[l].c2s = Append(c, conn.held)  BY <3>5, <4>3
        <5>3. QED  BY <3>4, <4>3, <5>1, <5>2 DEF On
      <4>4. QED  BY <4>1, <4>2, <4>3
    <3>7. ASSUME NEW l \in Links
          PROVE  /\ Increasing(handled'[l]) /\ Sorted(net'[l].c2s)
                 /\ Below(Done(l)', Sent(net'[l].c2s))
                 /\ l > Now' => On(l)' = {}
      <4>1. CASE l = Now
        <5>1. Below(Done(Now), Sent(c) \cup Hand)
          BY <2>1, <3>3 DEF CommandOrder, SessionsOrdered, Below
        <5>2. ~(l > Now')  BY <2>1, <4>1
        <5>3. QED  BY <2>1, <3>4, <3>5, <3>6, <4>1, <5>1, <5>2 DEF CommandOrder, SessionsOrdered
      <4>2. CASE l # Now
        BY <2>1, <3>5, <3>6, <4>2 DEF CommandOrder, SessionsOrdered
      <4>3. QED  BY <4>1, <4>2
    <3>8. ASSUME NEW k \in Links, NEW l \in Links, k < l  PROVE Below(On(k)', On(l)')
      <4>1. Below(On(k), On(l)) /\ Below(On(k), Hand)
        BY <3>8 DEF CommandOrder, SessionsOrdered, QueuesOrdered
      <4>2. k = Now => On(l) = {}  BY <3>8 DEF CommandOrder, SessionsOrdered
      <4>3. CASE k = Now
        <5>1. On(l)' = {}  BY <3>6, <3>8, <4>2, <4>3, <2>1 DEF Links
        <5>2. QED  BY <5>1 DEF Below
      <4>4. CASE k # Now
        <5>1. On(k)' = On(k) /\ On(l)' \subseteq On(l) \cup Hand  BY <3>6, <4>4
        <5>2. QED  BY <4>1, <5>1 DEF Below
      <4>5. QED  BY <4>3, <4>4
    <3>9. SessionsOrdered'  BY <3>7, <3>8 DEF SessionsOrdered
    <3>10. \A l \in Links : On(l)' \subseteq On(l) \cup Hand  BY <3>6
    <3>11. QueuesOrdered'
      BY <2>1, <3>1, <3>10 DEF CommandOrder, QueuesOrdered, Below
    <3>12. QED  BY <3>9, <3>11 DEF CommandOrder
  <2>4. QED  BY <1>2, <2>2, <2>3 DEF WriteCommand, TInv, Types
<1>3. CASE TakeCommand
  <2>1. up \in Seq(Commands) /\ up # <<>> /\ up' = Tail(up) /\ conn'.held = Head(up)
        /\ Now' = Now /\ Now \in Int /\ UNCHANGED <<issued, ui, net, handled>>
    BY <1>3 DEF TakeCommand, Now, TInv, Types
  <2>2. /\ Sent(up') \subseteq Sent(up) /\ Hand' \subseteq Sent(up)
        /\ Sorted(up') /\ Below(Hand', Sent(up'))
    BY <2>1, TailSent DEF CommandOrder, QueuesOrdered, Hand
  <2>3. SessionsOrdered' /\ \A l \in Links : On(l)' = On(l)
    BY <2>1, SameSessions DEF CommandOrder
  <2>4. QueuesOrdered'
    BY <2>1, <2>2, <2>3 DEF CommandOrder, QueuesOrdered, Below
  <2>5. QED  BY <2>3, <2>4 DEF CommandOrder
<1>4. CASE TakeMessage \/ Deliver \/ ConnectFails \/ Wake \/ ReadFails \/ SendDisconnected
  <2>1. Now' = Now /\ Now \in Int /\ UNCHANGED <<issued, ui, up, handled>>
    <3>1. UNCHANGED <<issued, ui, up, handled>>
      BY <1>4 DEF TakeMessage, Deliver, ConnectFails, Wake, ReadFails, SendDisconnected
    <3>2. CASE TakeMessage  BY <3>1, <3>2 DEF TakeMessage, Now, TInv, Types
    <3>3. CASE Deliver  BY <3>1, <3>3 DEF Deliver, Now, TInv, Types
    <3>4. CASE ConnectFails \/ Wake \/ ReadFails \/ SendDisconnected
      <4>1. conn'.link = conn.link
        BY <3>4 DEF ConnectFails, Wake, ReadFails, SendDisconnected, TInv, Types
      <4>2. conn.link \in Int  BY DEF TInv, Types
      <4>3. QED  BY <3>1, <4>1, <4>2 DEF Now
    <3>5. QED  BY <1>4, <3>2, <3>3, <3>4
  <2>2. \A l \in Links : net'[l].c2s = net[l].c2s
    <3>1. CASE TakeMessage
      <4>1. net' = [net EXCEPT ![Now].s2c = Tail(@)]  BY <3>1 DEF TakeMessage
      <4>2. QED  BY <4>1 DEF TInv, Types
    <3>2. CASE Deliver \/ ConnectFails \/ Wake \/ ReadFails \/ SendDisconnected
      BY <3>2 DEF Deliver, ConnectFails, Wake, ReadFails, SendDisconnected
    <3>3. QED  BY <1>4, <3>1, <3>2
  <2>3. Hand' \subseteq Hand
    <3>1. CASE TakeMessage
      <4>1. conn'.held = Head(net[Now].s2c) /\ net[Now].s2c # <<>> /\ Now \in Links
        BY <3>1 DEF TakeMessage, TInv, Types, Holds, Linked
      <4>2. net[Now].s2c \in Seq(Replies)  BY <4>1 DEF TInv, Types
      <4>3. conn'.held \in Replies  BY <4>1, <4>2
      <4>4. QED  BY <4>3 DEF Hand, One, Replies
    <3>2. CASE Deliver
      <4>1. conn'.held = None  BY <3>2 DEF Deliver, TInv, Types
      <4>2. QED  BY <4>1 DEF Hand, One, None
    <3>3. CASE ConnectFails \/ Wake \/ ReadFails \/ SendDisconnected
      <4>1. conn'.held = conn.held
        BY <3>3 DEF ConnectFails, Wake, ReadFails, SendDisconnected, TInv, Types
      <4>2. QED  BY <4>1 DEF Hand
    <3>4. QED  BY <1>4, <3>1, <3>2, <3>3
  <2>4. \A l \in Links : On(l)' = On(l) /\ Done(l)' = Done(l)  BY <2>1, <2>2 DEF On, Done
  <2>5. SessionsOrdered'
    BY <2>1, <2>2, <2>4 DEF CommandOrder, SessionsOrdered
  <2>6. QueuesOrdered'
    BY <2>1, <2>3, <2>4, FewerQueues DEF CommandOrder, QueuesOrdered
  <2>7. QED  BY <2>5, <2>6 DEF CommandOrder
<1>5. QED  BY <1>1, <1>2, <1>3, <1>4 DEF Connection

\* A session changes its own connection and what it has carried out itself.
LEMMA SessionLocal ==
  ASSUME TInv, NEW l \in Links, Session(l) \/ NetFails(l)
  PROVE  /\ UNCHANGED <<issued, ui, up, conn>>
         /\ \A k \in Links : k # l => net'[k] = net[k] /\ handled'[k] = handled[k]
<1>1. UNCHANGED <<issued, ui, up, conn>>
  BY DEF Session, Authenticate, AuthTimeout, Handle, SendAnswer, StopExpires, TimerTick, FireStop,
         WriteTask, EndSession, NetFails
<1>2. \A k \in Links : k # l => net'[k] = net[k] /\ handled'[k] = handled[k]
  <2> USE DEF TInv, Types
  <2>1. CASE Authenticate(l)  BY <2>1 DEF Authenticate
  <2>2. CASE AuthTimeout(l)  BY <2>2 DEF AuthTimeout, Close
  <2>3. CASE Handle(l)  BY <2>3 DEF Handle
  <2>4. CASE SendAnswer(l) \/ StopExpires(l) \/ TimerTick(l) \/ FireStop(l) \/ EndSession(l)
    BY <2>4 DEF SendAnswer, StopExpires, TimerTick, FireStop, EndSession
  <2>5. CASE WriteTask(l)  BY <2>5 DEF WriteTask
  <2>6. CASE NetFails(l)  BY <2>6 DEF NetFails
  <2>7. QED  BY <2>1, <2>2, <2>3, <2>4, <2>5, <2>6 DEF Session
<1>3. QED  BY <1>1, <1>2

\* One more number in a list.
LEMMA AppendedNumber ==
  ASSUME NEW h \in Seq(1..MaxCommands), NEW n \in 1..MaxCommands
  PROVE  LET g == Append(h, n)
         IN /\ g \in Seq(1..MaxCommands)
            /\ {g[i] : i \in DOMAIN g} = {h[i] : i \in DOMAIN h} \cup {n}
<1> DEFINE g == Append(h, n)
<1>1. /\ g \in Seq(1..MaxCommands) /\ Len(h) \in Nat /\ DOMAIN h = 1..Len(h)
      /\ DOMAIN g = 1..(Len(h) + 1) /\ \A i \in 1..Len(h) : g[i] = h[i]
      /\ g[Len(h) + 1] = n
  BY AppendProperties
<1>2. ASSUME NEW x \in {g[i] : i \in DOMAIN g}  PROVE x \in {h[i] : i \in DOMAIN h} \cup {n}
  <2>1. PICK i \in DOMAIN g : x = g[i]  BY <1>2
  <2>2. i \in DOMAIN h \/ i = Len(h) + 1  BY <1>1
  <2>3. QED  BY <1>1, <2>1, <2>2
<1>3. ASSUME NEW x \in {h[i] : i \in DOMAIN h}  PROVE x \in {g[i] : i \in DOMAIN g}
  <2>1. PICK i \in DOMAIN h : x = h[i]  BY <1>3
  <2>2. i \in DOMAIN g /\ g[i] = h[i]  BY <1>1
  <2>3. QED  BY <2>1, <2>2
<1>4. n \in {g[i] : i \in DOMAIN g}
  <2>1. Len(h) + 1 \in DOMAIN g  BY <1>1
  <2>2. QED  BY <1>1, <2>1
<1>5. QED  BY <1>1, <1>2, <1>3, <1>4

LEMMA SessionOrder ==
  ASSUME TInv, CommandOrder, NEW l \in Links, Session(l) \/ NetFails(l)
  PROVE  CommandOrder'
<1> DEFINE c == net[l].c2s
           h == handled[l]
<1>1. /\ UNCHANGED <<issued, ui, up, conn>> /\ Now' = Now /\ Hand' = Hand
      /\ c \in Seq(Commands \cup Greetings) /\ h \in Seq(1..MaxCommands)
  BY SessionLocal DEF Now, Hand, TInv, Types
<1>2. \A k \in Links : k # l => net'[k].c2s = net[k].c2s /\ handled'[k] = handled[k]
  BY SessionLocal
<1>3. SUFFICES /\ Increasing(handled'[l]) /\ Sorted(net'[l].c2s)
               /\ Below(Done(l)', Sent(net'[l].c2s)) /\ On(l)' \subseteq On(l)
  <2>1. \A k \in Links : k # l => On(k)' = On(k) /\ Done(k)' = Done(k)  BY <1>2 DEF On, Done
  <2>2. \A k \in Links : On(k)' \subseteq On(k)  BY <1>3, <2>1
  <2>3. QueuesOrdered'
    BY <1>1, <2>2, FewerQueues DEF CommandOrder, QueuesOrdered
  <2>4. \A k \in Links : /\ Increasing(handled'[k]) /\ Sorted(net'[k].c2s)
                         /\ Below(Done(k)', Sent(net'[k].c2s))
                         /\ k > Now => On(k)' = {}
    BY <1>2, <1>3, <2>1, <2>2 DEF CommandOrder, SessionsOrdered
  <2>5. \A j, k \in Links : j < k => Below(On(j)', On(k)')
    BY <2>2 DEF CommandOrder, SessionsOrdered, Below
  <2>6. SessionsOrdered'  BY <1>1, <2>4, <2>5 DEF SessionsOrdered
  <2>7. QED  BY <2>3, <2>6 DEF CommandOrder
<1>4. Increasing(h) /\ Sorted(c) /\ Below(Done(l), Sent(c))
  BY DEF CommandOrder, SessionsOrdered
<1>5. c # <<>> => /\ Sent(Tail(c)) \subseteq Sent(c) /\ One(Head(c)) \subseteq Sent(c)
                 /\ Sorted(Tail(c)) /\ Below(One(Head(c)), Sent(Tail(c)))
  BY <1>1, <1>4, TailSent
<1>6. CASE Handle(l) /\ Head(c).kind = "command" /\ Head(c).n # 0
  <2> DEFINE n == Head(c).n
             g == Append(h, n)
  <2>1. c # <<>> /\ net'[l].c2s = Tail(c)  BY <1>6 DEF Handle, TInv, Types
  <2>2. handled'[l] = g  BY <1>6 DEF Handle, TInv, Types
  <2>3. n \in One(Head(c)) /\ n \in Sent(c)  BY <1>5, <1>6, <2>1 DEF One
  <2>4. \A i \in DOMAIN h : h[i] \in Done(l) /\ h[i] < n  BY <1>4, <2>3 DEF Done, Below
  <2>5. n \in 1..MaxCommands
    <3>1. Head(c) \in Commands \cup Greetings  BY <1>1, <2>1
    <3>2. QED  BY <1>6, <3>1, Numbered DEF Commands, Greetings
  <2>6. /\ Len(h) \in Nat /\ DOMAIN h = 1..Len(h) /\ DOMAIN g = 1..(Len(h) + 1)
        /\ \A i \in 1..Len(h) : g[i] = h[i]
        /\ g[Len(h) + 1] = n
    BY <1>1, <2>5, AppendProperties
  <2>7. Increasing(g)
    <3>1. ASSUME NEW i \in DOMAIN g, NEW j \in DOMAIN g, i < j  PROVE g[i] < g[j]
      <4>1. i \in DOMAIN h /\ g[i] = h[i]  BY <2>6, <3>1
      <4>2. CASE j \in DOMAIN h  BY <1>4, <2>6, <3>1, <4>1, <4>2 DEF Increasing
      <4>3. CASE j \notin DOMAIN h
        <5>1. g[j] = n  BY <2>6, <4>3
        <5>2. QED  BY <2>4, <4>1, <5>1
      <4>4. QED  BY <4>2, <4>3
    <3>2. QED  BY <3>1 DEF Increasing
  <2>8. Done(l)' = Done(l) \cup {n}
    <3>1. Done(l)' = {g[i] : i \in DOMAIN g}  BY <2>2 DEF Done
    <3>2. QED  BY <1>1, <2>5, <3>1, AppendedNumber DEF Done
  <2>9. Below(Done(l)', Sent(net'[l].c2s))
    BY <1>4, <1>5, <2>1, <2>3, <2>8 DEF Below
  <2>10. On(l)' \subseteq On(l)
    <3>1. On(l)' = Done(l)' \cup Sent(net'[l].c2s)  BY DEF On
    <3>2. QED  BY <1>5, <2>1, <2>3, <2>8, <3>1 DEF On
  <2>11. QED  BY <1>5, <2>1, <2>2, <2>7, <2>9, <2>10
<1>7. CASE ~(Handle(l) /\ Head(c).kind = "command" /\ Head(c).n # 0)
  <2>1. handled'[l] = h
    BY <1>7 DEF Session, Authenticate, AuthTimeout, Handle, SendAnswer, StopExpires, TimerTick,
                FireStop, WriteTask, EndSession, NetFails, TInv, Types
  <2>2. net'[l].c2s = c \/ net'[l].c2s = <<>> \/ (c # <<>> /\ net'[l].c2s = Tail(c))
    <3> USE DEF TInv, Types
    <3>1. CASE Authenticate(l)
      <4>1. CASE Head(c).kind = "good"
        <5>1. net' = [net EXCEPT ![l].c2s = Tail(@)] /\ c # <<>>
          BY <3>1, <4>1 DEF Authenticate
        <5>2. QED  BY <5>1
      <4>2. CASE Head(c).kind # "good"
        <5>1. \E x : net' = [net EXCEPT ![l].state = "broken", ![l].c2s = <<>>, ![l].s2c = x]
          BY <3>1, <4>2 DEF Authenticate
        <5>2. QED  BY <5>1
      <4>3. QED  BY <4>1, <4>2
    <3>2. CASE AuthTimeout(l)  BY <3>2 DEF AuthTimeout, Close
    <3>3. CASE Handle(l)  BY <3>3 DEF Handle
    <3>4. CASE SendAnswer(l) \/ StopExpires(l) \/ TimerTick(l) \/ FireStop(l) \/ EndSession(l)
      BY <3>4 DEF SendAnswer, StopExpires, TimerTick, FireStop, EndSession
    <3>5. CASE WriteTask(l)  BY <3>5 DEF WriteTask
    <3>6. CASE NetFails(l)  BY <3>6 DEF NetFails
    <3>7. QED  BY <3>1, <3>2, <3>3, <3>4, <3>5, <3>6 DEF Session
  <2>3. Sorted(net'[l].c2s) /\ Sent(net'[l].c2s) \subseteq Sent(c)
    BY <1>4, <1>5, <2>2, NothingSent
  <2>4. Done(l)' = Done(l)  BY <2>1 DEF Done
  <2>5. Below(Done(l)', Sent(net'[l].c2s))  BY <1>4, <2>3, <2>4 DEF Below
  <2>6. On(l)' \subseteq On(l)  BY <2>3, <2>4 DEF On
  <2>7. QED  BY <1>4, <2>1, <2>3, <2>5, <2>6
<1>8. QED  BY <1>6, <1>7

LEMMA NextOrder == TInv /\ CommandOrder /\ [Next]_vars => CommandOrder'
<1> SUFFICES ASSUME TInv, CommandOrder, [Next]_vars  PROVE CommandOrder'  OBVIOUS
<1>1. CASE UiLoop  BY <1>1, UiOrder
<1>2. CASE Connection  BY <1>2, ConnectionOrder
<1>3. ASSUME NEW l \in Links, Session(l) \/ NetFails(l)  PROVE CommandOrder'
  BY <1>3, SessionOrder
<1>4. CASE UNCHANGED vars
  BY <1>4 DEF vars, CommandOrder, SessionsOrdered, QueuesOrdered, On, Done, Hand, Now
<1>5. QED  BY <1>1, <1>2, <1>3, <1>4 DEF Next

-----------------------------------------------------------------------------
(* Nothing is lost while no connection fails. *)

Reached == UNION {On(l) : l \in Links}
Everything == Reached \cup Hand \cup Sent(up) \cup Sent(ui.todo)

\* A connection that was made never looks as if it had not been; a held message is passed on
\* before the next is taken; and as long as none has failed the first connection is the only
\* one, with every command before, on or behind it.
Whole ==
    /\ \A l \in Links : l <= Now => net[l].state # "none"
    /\ conn.pc \notin {"write", "deliver"} => conn.held = None
    /\ Unbroken => /\ Now = 0 \/ (Now = 1 /\ conn.pc \in {"open", "write", "deliver"})
                   /\ Everything = 1..issued

LEMMA ReachedBy == \A x : x \in Reached <=> \E l \in Links : x \in On(l)
  BY DEF Reached

LEMMA ReachedNext == \A x : x \in Reached' <=> \E l \in Links : x \in On(l)'
  BY DEF Reached

LEMMA SameReached ==
  ASSUME \A l \in Links : On(l)' = On(l)
  PROVE  Reached' = Reached
  BY ReachedBy, ReachedNext

LEMMA InitWhole == Init => Whole
<1> SUFFICES ASSUME Init PROVE Whole  OBVIOUS
<1>1. Now = 0 /\ conn.held = None /\ issued = 0  BY DEF Init, Now
<1>2. \A l \in Links : ~(l <= Now)  BY <1>1 DEF Links
<1>3. Hand = {}  BY <1>1 DEF Hand, One, None
<1>4. \A l \in Links : On(l) = {}
  <2>1. \A l \in Links : Done(l) = {} /\ net[l].c2s = <<>>  BY DEF Init, Done
  <2>2. QED  BY <2>1, NothingSent DEF On
<1>5. Sent(up) = {} /\ Sent(ui.todo) = {}  BY NothingSent DEF Init
<1>6. Everything = {}  BY <1>3, <1>4, <1>5 DEF Everything, Reached
<1>7. 1..issued = {}  BY <1>1
<1>8. QED  BY <1>1, <1>2, <1>6, <1>7 DEF Whole

LEMMA UiWhole ==
  ASSUME TInv, Whole, UiLoop
  PROVE  Whole'
<1>1. UNCHANGED <<net, handled, conn>> /\ Now' = Now
  BY DEF UiLoop, UiCommand, AutoRefresh, UiSend, UiReceive, Now
<1>2. Unbroken' = Unbroken /\ Hand' = Hand /\ \A l \in Links : On(l)' = On(l)
  BY <1>1 DEF Unbroken, Hand, On, Done
<1>3. SUFFICES ASSUME Everything = 1..issued  PROVE Everything' = 1..issued'
  BY <1>1, <1>2 DEF Whole
<1>4. Everything' = Reached \cup Hand \cup Sent(up)' \cup Sent(ui.todo)'
  <2>1. Reached' = Reached  BY <1>2, SameReached
  <2>2. QED  BY <1>2, <2>1 DEF Everything
<1>5. Sent(up)' = Sent(up') /\ Sent(ui.todo)' = Sent(ui'.todo)  BY DEF Sent
<1>6. CASE UiCommand
  <2>1. ui'.todo = <<Command(issued + 1)>> /\ issued' = issued + 1 /\ up' = up /\ ui.todo = <<>>
    BY <1>6 DEF UiCommand, TInv, Types
  <2>2. issued \in Nat  BY NumberTypes
  <2>3. Sent(ui'.todo) = {issued + 1}  BY <2>1, <2>2 DEF Sent, Command
  <2>4. Sent(ui.todo) = {}  BY <2>1, NothingSent
  <2>5. 1..(issued + 1) = 1..issued \cup {issued + 1}  BY <2>2
  <2>6. Everything' = Everything \cup {issued + 1}
    <3>1. Everything' = Reached \cup Hand \cup Sent(up) \cup {issued + 1}
      <4>1. Sent(up)' = Sent(up) /\ Sent(ui.todo)' = {issued + 1}  BY <1>5, <2>1, <2>3
      <4>2. QED  BY <1>4, <4>1
    <3>2. Everything = Reached \cup Hand \cup Sent(up)  BY <2>4 DEF Everything
    <3>3. QED  BY <3>1, <3>2
  <2>7. QED  BY <1>3, <2>1, <2>5, <2>6
<1>7. CASE AutoRefresh \/ UiReceive
  <2>1. ui'.todo \in {Refresh, Resume, <<>>} /\ UNCHANGED <<issued, up>> /\ ui.todo = <<>>
    BY <1>7 DEF AutoRefresh, UiReceive, TInv, Types
  <2>2. Sent(ui'.todo) = {} /\ Sent(ui.todo) = {}  BY <2>1, NothingSent
  <2>3. QED  BY <1>3, <1>4, <1>5, <2>1, <2>2 DEF Everything
<1>8. CASE UiSend
  <2>1. ui.todo \in Seq(Commands) /\ ui.todo # <<>> /\ up \in Seq(Commands)
        /\ Head(ui.todo) \in Commands
    BY <1>8 DEF UiSend, TInv, Types
  <2>2. up' = Append(up, Head(ui.todo)) /\ ui'.todo = Tail(ui.todo) /\ issued' = issued
    BY <1>8 DEF UiSend, TInv, Types
  <2>3. Sent(ui.todo) = One(Head(ui.todo)) \cup Sent(ui'.todo)  BY <2>1, <2>2, TailSent
  <2>4. Sent(up') = Sent(up) \cup One(Head(ui.todo))  BY <2>1, <2>2, AppendSent
  <2>5. QED  BY <1>3, <1>4, <1>5, <2>2, <2>3, <2>4 DEF Everything
<1>9. QED  BY <1>6, <1>7, <1>8 DEF UiLoop

LEMMA ConnectionWhole ==
  ASSUME TInv, CommandOrder, Whole, Connection
  PROVE  Whole'
<1>1. Now \in 0..MaxLinks /\ Sent(up)' = Sent(up') /\ Sent(ui.todo)' = Sent(ui'.todo)
  BY DEF TInv, Types, Now, Sent
<1>2. CASE ConnectOk
  <2>1. /\ Now' = Now + 1 /\ conn'.pc = "open" /\ conn'.held = conn.held /\ conn.pc = "connect"
        /\ UNCHANGED <<issued, ui, up, handled>>
    BY <1>2 DEF ConnectOk, Now, TInv, Types
  <2>2. Now + 1 \in Links
    <3>1. setup.links \in 0..MaxLinks  BY SetupType DEF TInv, Types
    <3>2. QED  BY <1>1, <1>2, <3>1, Numbered DEF ConnectOk, Links
  <2>3. /\ net'[Now + 1].state = "up" /\ net'[Now + 1].c2s = Greeting
        /\ \A l \in Links : l # Now + 1 => net'[l] = net[l]
    BY <1>2, <2>2 DEF ConnectOk, TInv, Types
  <2>4. net[Now + 1].state = "none" /\ net[Now + 1].c2s = <<>>
    BY <1>1, <2>2 DEF TInv, Holds
  <2>5. \A l \in Links : l <= Now' => net'[l].state # "none"
    BY <1>1, <2>1, <2>3 DEF Whole, Links
  <2>6. conn'.held = None /\ Hand' = Hand  BY <2>1 DEF Whole, Hand
  <2>7. ASSUME Unbroken'  PROVE Now = 0 /\ Everything' = 1..issued
    <3>1. Unbroken  BY <2>3, <2>4, <2>7 DEF Unbroken
    <3>2. \A l \in Links : On(l)' = On(l)
      <4>1. \A l \in Links : Done(l)' = Done(l)  BY <2>1 DEF Done
      <4>2. \A l \in Links : Sent(net'[l].c2s) = Sent(net[l].c2s)
        BY <2>3, <2>4, NothingSent
      <4>3. \A l \in Links : Sent(net[l].c2s)' = Sent(net'[l].c2s)  BY DEF Sent
      <4>4. QED  BY <4>1, <4>2, <4>3 DEF On
    <3>3. Reached' = Reached  BY <3>2, SameReached
    <3>4. QED  BY <2>1, <2>6, <3>1, <3>3 DEF Whole, Everything
  <2>8. Whole'  BY <1>1, <2>1, <2>5, <2>6, <2>7 DEF Whole
  <2>9. QED  BY <2>8
<1>3. CASE WriteCommand
  <2>1. /\ conn.pc = "write" /\ Now \in Links /\ conn.held \in Commands
        /\ conn'.held = None /\ Now' = Now /\ UNCHANGED <<issued, ui, up, handled>>
    BY <1>3 DEF WriteCommand, TInv, Types, Holds, Linked, Now
  <2>2. Hand' = {}  BY <2>1 DEF Hand, One, None
  <2>3. CASE net[Now].state = "up"
    <3> DEFINE c == net[Now].c2s
    <3>1. conn'.pc = "open" /\ net' = [net EXCEPT ![Now].c2s = Append(@, conn.held)]
      BY <1>3, <2>3 DEF WriteCommand, TInv, Types
    <3>2. /\ net'[Now].c2s = Append(c, conn.held) /\ net'[Now].state = net[Now].state
          /\ \A l \in Links : l # Now => net'[l] = net[l]
      BY <2>1, <3>1 DEF TInv, Types
    <3>3. c \in Seq(Commands \cup Greetings) /\ conn.held \in Commands \cup Greetings
      BY <2>1 DEF TInv, Types
    <3>4. Sent(net'[Now].c2s) = Sent(c) \cup Hand  BY <3>2, <3>3, AppendSent DEF Hand
    <3>5. \A l \in Links : Done(l)' = Done(l) /\ Sent(net[l].c2s)' = Sent(net'[l].c2s)
      BY <2>1 DEF Done, Sent
    <3>6. \A l \in Links : IF l = Now THEN On(l)' = On(l) \cup Hand ELSE On(l)' = On(l)
      BY <3>2, <3>4, <3>5 DEF On
    <3>7. Everything' = Everything
      <4>1. Reached' = Reached \cup Hand
        <5>1. \A x : (\E l \in Links : x \in On(l)') <=> (\E l \in Links : x \in On(l)) \/ x \in Hand
          BY <2>1, <3>6
        <5>2. QED  BY <5>1, ReachedBy, ReachedNext
      <4>2. Sent(up') = Sent(up) /\ Sent(ui'.todo) = Sent(ui.todo)  BY <2>1
      <4>3. Everything' = Reached' \cup Hand' \cup Sent(up') \cup Sent(ui'.todo)
        BY <1>1 DEF Everything
      <4>4. QED  BY <2>2, <4>1, <4>2, <4>3 DEF Everything
    <3>8. Unbroken' => Unbroken  BY <3>2 DEF Unbroken
    <3>9. QED  BY <2>1, <3>1, <3>2, <3>7, <3>8 DEF Whole
  <2>4. CASE net[Now].state # "up"
    <3>1. conn'.pc = "notify" /\ net' = net  BY <1>3, <2>4 DEF WriteCommand, TInv, Types
    <3>2. net[Now].state # "none"  BY <1>1, <2>1 DEF Whole
    <3>3. ~Unbroken'  BY <2>1, <2>4, <3>1, <3>2 DEF Unbroken
    <3>4. QED  BY <2>1, <3>1, <3>3 DEF Whole
  <2>5. QED  BY <2>3, <2>4
<1>4. CASE TakeCommand
  <2>1. /\ conn.pc = "open" /\ conn'.pc = "write" /\ conn'.held = Head(up) /\ up' = Tail(up)
        /\ Now' = Now /\ UNCHANGED <<issued, ui, net, handled>>
        /\ up \in Seq(Commands) /\ up # <<>>
    BY <1>4 DEF TakeCommand, Now, TInv, Types
  <2>2. Hand = {}  BY <2>1 DEF Whole, Hand, One, None
  <2>3. Sent(up) = Hand' \cup Sent(up')  BY <2>1, TailSent DEF Hand
  <2>4. \A l \in Links : On(l)' = On(l)  BY <2>1 DEF On, Done
  <2>5. Everything' = Everything
    <3>1. Reached' = Reached  BY <2>4, SameReached
    <3>2. QED  BY <1>1, <2>1, <2>2, <2>3, <2>4, <3>1 DEF Everything
  <2>6. QED  BY <2>1, <2>5 DEF Whole, Unbroken
<1>5. CASE TakeMessage
  <2>1. /\ conn.pc = "open" /\ Now \in Links /\ conn'.pc = "deliver" /\ Now' = Now
        /\ conn'.held = Head(net[Now].s2c) /\ net[Now].s2c # <<>>
        /\ UNCHANGED <<issued, ui, up, handled>>
    BY <1>5 DEF TakeMessage, TInv, Types, Holds, Linked, Now
  <2>2. \A l \in Links : net'[l].c2s = net[l].c2s /\ net'[l].state = net[l].state
    BY <1>5 DEF TakeMessage, TInv, Types
  <2>3. net[Now].s2c \in Seq(Replies)  BY <2>1 DEF TInv, Types
  <2>4. conn'.held \in Replies  BY <2>1, <2>3
  <2>5. Hand = {} /\ Hand' = {}  BY <2>1, <2>4 DEF Whole, Hand, One, None, Replies
  <2>6. \A l \in Links : On(l)' = On(l)  BY <2>1, <2>2 DEF On, Done
  <2>7. Everything' = Everything
    <3>1. Reached' = Reached  BY <2>6, SameReached
    <3>2. QED  BY <1>1, <2>1, <2>5, <2>6, <3>1 DEF Everything
  <2>8. QED  BY <2>1, <2>2, <2>7 DEF Whole, Unbroken
<1>6. CASE Deliver
  <2>1. /\ conn.pc = "deliver" /\ conn'.pc = "open" /\ conn'.held = None /\ Now' = Now
        /\ UNCHANGED <<issued, ui, up, net, handled>> /\ conn.held \in Replies
    BY <1>6 DEF Deliver, TInv, Types, Holds, Now
  <2>2. Hand = {} /\ Hand' = {}  BY <2>1 DEF Hand, One, None, Replies
  <2>3. \A l \in Links : On(l)' = On(l)  BY <2>1 DEF On, Done
  <2>4. Everything' = Everything
    <3>1. Reached' = Reached  BY <2>3, SameReached
    <3>2. QED  BY <1>1, <2>1, <2>2, <2>3, <3>1 DEF Everything
  <2>5. QED  BY <2>1, <2>4 DEF Whole, Unbroken
<1>7. CASE ConnectFails \/ Wake \/ ReadFails \/ SendDisconnected
  <2>1. /\ UNCHANGED <<issued, ui, up, net, handled>> /\ conn'.held = conn.held /\ Now' = Now
        /\ conn.pc \notin {"write", "deliver"} /\ conn'.pc \notin {"write", "deliver"}
    BY <1>7 DEF ConnectFails, Wake, ReadFails, SendDisconnected, TInv, Types, Now
  <2>2. Unbroken' = Unbroken /\ Hand' = Hand /\ \A l \in Links : On(l)' = On(l)
    BY <2>1 DEF Unbroken, Hand, On, Done
  <2>3. Everything' = Everything
    <3>1. Reached' = Reached  BY <2>2, SameReached
    <3>2. QED  BY <1>1, <2>1, <2>2, <3>1 DEF Everything
  <2>4. ASSUME Unbroken  PROVE Now = 0
    <3>1. CASE conn.pc # "open"  BY <2>1, <2>4, <3>1 DEF Whole
    <3>2. CASE conn.pc = "open"
      <4>1. net[Now].state = "broken" /\ Now \in Links
        BY <1>7, <3>2 DEF ConnectFails, Wake, ReadFails, SendDisconnected, TInv, Holds, Linked
      <4>2. QED  BY <2>4, <4>1 DEF Unbroken
    <3>3. QED  BY <3>1, <3>2
  <2>5. QED  BY <2>1, <2>2, <2>3, <2>4 DEF Whole
<1>8. QED  BY <1>2, <1>3, <1>4, <1>5, <1>6, <1>7 DEF Connection

\* A session loses a command only with its connection.
LEMMA SessionWhole ==
  ASSUME TInv, Whole, NEW l \in Links, Session(l) \/ NetFails(l)
  PROVE  Whole'
<1> DEFINE c == net[l].c2s
           h == handled[l]
<1>1. /\ UNCHANGED <<issued, ui, up, conn>> /\ Now' = Now /\ Hand' = Hand
      /\ c \in Seq(Commands \cup Greetings) /\ h \in Seq(1..MaxCommands)
      /\ Sent(up)' = Sent(up) /\ Sent(ui.todo)' = Sent(ui.todo)
  <2>1. UNCHANGED <<issued, ui, up, conn>>  BY SessionLocal
  <2>2. QED  BY <2>1 DEF Now, Hand, TInv, Types
<1>2. \A k \in Links : k # l => net'[k] = net[k] /\ handled'[k] = handled[k]
  BY SessionLocal
<1>3. /\ net'[l].state \in {net[l].state, "broken", "silent"}
      /\ net'[l].state # net[l].state => net[l].state # "none" \/ srv[l].pc # "none"
  <2> USE DEF TInv, Types
  <2>1. CASE Authenticate(l)  BY <2>1 DEF Authenticate, At
  <2>2. CASE AuthTimeout(l)  BY <2>2 DEF AuthTimeout, Close, At
  <2>3. CASE Handle(l)  BY <2>3 DEF Handle
  <2>4. CASE SendAnswer(l) \/ StopExpires(l) \/ TimerTick(l) \/ FireStop(l) \/ EndSession(l)
    BY <2>4 DEF SendAnswer, StopExpires, TimerTick, FireStop, EndSession
  <2>5. CASE WriteTask(l)  BY <2>5 DEF WriteTask
  <2>6. CASE NetFails(l)
    <3>1. PICK s \in {"broken", "silent"} : net' = [net EXCEPT ![l].state = s]
      BY <2>6 DEF NetFails, Failures
    <3>2. QED  BY <2>6, <3>1 DEF NetFails
  <2>7. QED  BY <2>1, <2>2, <2>3, <2>4, <2>5, <2>6 DEF Session
<1>4. ASSUME net'[l].state \in {"none", "up"}  PROVE On(l)' = On(l)
  <2>1. c # <<>> => /\ Sent(c) = One(Head(c)) \cup Sent(Tail(c))
                   /\ Head(c) \in Commands \cup Greetings
    BY <1>1, TailSent
  <2>2. On(l)' = Done(l)' \cup Sent(net'[l].c2s)  BY DEF On, Sent
  <2> USE DEF TInv, Types
  <2>3. CASE Handle(l)
    <3>1. c # <<>> /\ net'[l].c2s = Tail(c)  BY <2>3 DEF Handle
    <3>2. CASE One(Head(c)) = {}
      <4>1. handled' = handled  BY <2>3, <3>2 DEF Handle, One
      <4>2. QED  BY <2>1, <2>2, <3>1, <3>2, <4>1 DEF Done, On
    <3>3. CASE One(Head(c)) # {}
      <4>1. Head(c).kind = "command" /\ Head(c).n # 0
        BY <2>1, <3>1, <3>3 DEF One, Commands, Greetings
      <4>2. handled'[l] = Append(h, Head(c).n) /\ Head(c).n \in 1..MaxCommands
        <5>1. handled'[l] = Append(h, Head(c).n)  BY <2>3, <4>1 DEF Handle
        <5>2. Head(c).n \in 0..MaxCommands
          BY <2>1, <3>1, Numbered DEF Commands, Greetings
        <5>3. Head(c).n \in 1..MaxCommands  BY <4>1, <5>2, NumbersFromOne, Zenon
        <5>4. QED  BY <5>1, <5>3, Zenon
      <4>3. Done(l)' = Done(l) \cup {Head(c).n}
        <5>1. Done(l)' = {Append(h, Head(c).n)[i] : i \in DOMAIN Append(h, Head(c).n)}
          BY <4>2 DEF Done
        <5>2. QED  BY <1>1, <4>2, <5>1, AppendedNumber DEF Done
      <4>4. One(Head(c)) = {Head(c).n}  BY <4>1 DEF One
      <4>5. QED  BY <2>1, <2>2, <3>1, <4>3, <4>4 DEF On
    <3>4. QED  BY <3>2, <3>3
  <2>4. CASE ~Handle(l)
    <3>1. handled' = handled
      BY <2>4 DEF Session, Authenticate, AuthTimeout, SendAnswer, StopExpires, TimerTick, FireStop,
                  WriteTask, EndSession, NetFails
    <3>2. Sent(net'[l].c2s) = Sent(c)
      <4>1. CASE Authenticate(l)
        <5>1. Head(c).kind = "good" /\ c # <<>>  BY <1>4, <4>1 DEF Authenticate
        <5>2. net' = [net EXCEPT ![l].c2s = Tail(@)]  BY <4>1, <5>1 DEF Authenticate
        <5>3. Head(c).n = 0  BY <2>1, <5>1 DEF Commands, Greetings
        <5>4. net'[l].c2s = Tail(c)  BY <5>2
        <5>5. QED  BY <2>1, <5>1, <5>3, <5>4 DEF One
      <4>2. CASE AuthTimeout(l)  BY <1>4, <4>2 DEF AuthTimeout, Close
      <4>3. CASE SendAnswer(l) \/ StopExpires(l) \/ TimerTick(l) \/ FireStop(l) \/ EndSession(l)
        BY <4>3 DEF SendAnswer, StopExpires, TimerTick, FireStop, EndSession
      <4>4. CASE WriteTask(l)
        <5>1. net'[l].c2s = c  BY <4>4 DEF WriteTask
        <5>2. QED  BY <5>1
      <4>5. CASE NetFails(l)
        <5>1. net'[l].c2s = c  BY <4>5 DEF NetFails
        <5>2. QED  BY <5>1
      <4>6. QED  BY <2>4, <4>1, <4>2, <4>3, <4>4, <4>5 DEF Session
    <3>3. QED  BY <2>2, <3>1, <3>2 DEF Done, On
  <2>5. QED  BY <2>3, <2>4
<1>5. ASSUME NEW k \in Links, k <= Now'  PROVE net'[k].state # "none"
  <2>1. net[k].state # "none"  BY <1>1, <1>5 DEF Whole
  <2>2. QED  BY <1>2, <1>3, <2>1
<1>6. ASSUME Unbroken'  PROVE Unbroken /\ Everything' = Everything
  <2>1. net'[l].state \in {"none", "up"}  BY <1>6 DEF Unbroken
  <2>2. \A k \in Links : On(k)' = On(k)
    <3>1. \A k \in Links : k # l => On(k)' = On(k)  BY <1>2 DEF On, Done
    <3>2. QED  BY <1>4, <2>1, <3>1
  <2>3. \A k \in Links : net[k].state \in {"none", "up"}
    BY <1>2, <1>3, <1>6, <2>1 DEF Unbroken
  <2>4. Reached' = Reached  BY <2>2, SameReached
  <2>5. QED  BY <1>1, <2>3, <2>4 DEF Unbroken, Everything
<1>7. QED  BY <1>1, <1>5, <1>6 DEF Whole

LEMMA NextWhole == TInv /\ CommandOrder /\ Whole /\ [Next]_vars => Whole'
<1> SUFFICES ASSUME TInv, CommandOrder, Whole, [Next]_vars  PROVE Whole'  OBVIOUS
<1>1. CASE UiLoop  BY <1>1, UiWhole
<1>2. CASE Connection  BY <1>2, ConnectionWhole
<1>3. ASSUME NEW l \in Links, Session(l) \/ NetFails(l)  PROVE Whole'
  BY <1>3, SessionWhole
<1>4. CASE UNCHANGED vars
  <2>1. UNCHANGED <<issued, ui, up, net, handled, conn>>  BY <1>4 DEF vars
  <2>2. Unbroken' = Unbroken /\ Hand' = Hand /\ \A l \in Links : On(l)' = On(l)
    BY <2>1 DEF Unbroken, Hand, On, Done
  <2>3. Sent(up)' = Sent(up) /\ Sent(ui.todo)' = Sent(ui.todo)  BY <2>1
  <2>4. Everything' = Everything
    <3>1. Reached' = Reached  BY <2>2, SameReached
    <3>2. QED  BY <2>2, <2>3, <3>1 DEF Everything
  <2>5. QED  BY <2>1, <2>2, <2>4 DEF Whole, Now
<1>5. QED  BY <1>1, <1>2, <1>3, <1>4 DEF Next

\* Two queues one behind the other.
LEMMA ConcatSent ==
  ASSUME NEW S, NEW p \in Seq(S), NEW q \in Seq(S)
  PROVE  /\ p \o q \in Seq(S)
         /\ Sent(p \o q) = Sent(p) \cup Sent(q)
         /\ Sorted(p) /\ Sorted(q) /\ Below(Sent(p), Sent(q)) => Sorted(p \o q)
<1> DEFINE r == p \o q
<1>1. /\ r \in Seq(S) /\ Len(p) \in Nat /\ Len(q) \in Nat /\ Len(r) = Len(p) + Len(q)
      /\ DOMAIN p = 1..Len(p) /\ DOMAIN q = 1..Len(q) /\ DOMAIN r = 1..(Len(p) + Len(q))
      /\ \A i \in 1..(Len(p) + Len(q)) : r[i] = IF i <= Len(p) THEN p[i] ELSE q[i - Len(p)]
  BY ConcatProperties
<1>2. /\ \A i \in DOMAIN p : i \in DOMAIN r /\ r[i] = p[i]
      /\ \A i \in DOMAIN q : i + Len(p) \in DOMAIN r /\ r[i + Len(p)] = q[i]
  BY <1>1
<1>3. \A i \in DOMAIN r : \/ i \in DOMAIN p /\ r[i] = p[i]
                          \/ i - Len(p) \in DOMAIN q /\ r[i] = q[i - Len(p)] /\ i > Len(p)
  BY <1>1
<1>4. Sent(r) = Sent(p) \cup Sent(q)
  <2>1. ASSUME NEW x \in Sent(r)  PROVE x \in Sent(p) \cup Sent(q)
    <3>1. PICK i \in DOMAIN r : x = r[i].n /\ x # 0  BY <2>1 DEF Sent
    <3>2. QED  BY <1>3, <3>1 DEF Sent
  <2>2. Sent(p) \subseteq Sent(r)  BY <1>2 DEF Sent
  <2>3. Sent(q) \subseteq Sent(r)
    <3>1. ASSUME NEW x \in Sent(q)  PROVE x \in Sent(r)
      <4>1. PICK i \in DOMAIN q : x = q[i].n /\ x # 0  BY <3>1 DEF Sent
      <4>2. QED  BY <1>2, <4>1 DEF Sent
    <3>2. QED  BY <3>1
  <2>4. QED  BY <2>1, <2>2, <2>3
<1>5. ASSUME Sorted(p), Sorted(q), Below(Sent(p), Sent(q)),
             NEW i \in DOMAIN r, NEW j \in DOMAIN r, i < j, r[i].n # 0, r[j].n # 0
      PROVE  r[i].n < r[j].n
  <2>1. i \in Int /\ j \in Int  BY <1>1
  <2>2. CASE i \in DOMAIN p /\ r[i] = p[i]
    <3>1. CASE j \in DOMAIN p /\ r[j] = p[j]  BY <1>5, <2>2, <3>1 DEF Sorted
    <3>2. CASE j - Len(p) \in DOMAIN q /\ r[j] = q[j - Len(p)]
      <4>1. r[i].n \in Sent(p) /\ r[j].n \in Sent(q)  BY <1>5, <2>2, <3>2 DEF Sent
      <4>2. QED  BY <1>5, <4>1 DEF Below
    <3>3. QED  BY <1>3, <3>1, <3>2
  <2>3. CASE i - Len(p) \in DOMAIN q /\ r[i] = q[i - Len(p)] /\ i > Len(p)
    <3>1. j \notin DOMAIN p  BY <1>1, <1>5, <2>1, <2>3
    <3>2. j - Len(p) \in DOMAIN q /\ r[j] = q[j - Len(p)]  BY <1>3, <3>1
    <3>3. i - Len(p) < j - Len(p)  BY <1>1, <1>5, <2>1
    <3>4. QED  BY <1>5, <2>3, <3>2, <3>3 DEF Sorted
  <2>4. QED  BY <1>3, <2>2, <2>3
<1>6. QED  BY <1>1, <1>4, <1>5 DEF Sorted

LEMMA FourSent ==
  ASSUME NEW S, NEW a \in Seq(S), NEW b \in Seq(S), NEW c \in Seq(S), NEW d \in Seq(S),
         Sorted(a), Sorted(b), Sorted(c), Sorted(d),
         Below(Sent(a), Sent(b)), Below(Sent(a), Sent(c)), Below(Sent(a), Sent(d)),
         Below(Sent(b), Sent(c)), Below(Sent(b), Sent(d)), Below(Sent(c), Sent(d))
  PROVE  /\ Sent(a \o b \o c \o d) = Sent(a) \cup Sent(b) \cup Sent(c) \cup Sent(d)
         /\ Sorted(a \o b \o c \o d)
<1>1. a \o b \in Seq(S) /\ Sorted(a \o b)  BY ConcatSent
<1>2. Sent(a \o b) = Sent(a) \cup Sent(b)  BY ConcatSent
<1>3. Below(Sent(a \o b), Sent(c))  BY <1>2 DEF Below
<1>4. a \o b \o c \in Seq(S) /\ Sorted(a \o b \o c)
  BY ONLY <1>1, <1>3, c \in Seq(S), Sorted(c), ConcatSent
<1>5. Sent(a \o b \o c) = Sent(a \o b) \cup Sent(c)
  BY ONLY <1>1, c \in Seq(S), ConcatSent
<1>6. Below(Sent(a \o b \o c), Sent(d))  BY <1>2, <1>5 DEF Below
<1>7. Sorted(a \o b \o c \o d)  BY ONLY <1>4, <1>6, d \in Seq(S), Sorted(d), ConcatSent
<1>8. Sent(a \o b \o c \o d) = Sent(a \o b \o c) \cup Sent(d)
  BY ONLY <1>4, d \in Seq(S), ConcatSent
<1>9. QED  BY <1>2, <1>5, <1>7, <1>8

-----------------------------------------------------------------------------
\* Queues, buffers and the waits between attempts keep within their bounds (connection.rs:20-60).
THEOREM TypeCorrect == Spec => []TypeOK
<1>1. TInv /\ Bounds => TypeOK
  <2> SUFFICES ASSUME TInv, Bounds PROVE TypeOK  OBVIOUS
  <2>1. conn.held \in Messages
    <3>1. 0 \in 0..MaxCommands  BY Numbered
    <3>2. QED  BY <3>1 DEF TInv, Types, Commands, Replies, None, Messages
  <2>2. conn.pc \in Pcs /\ conn.link \in 0..MaxLinks /\ conn.delay \in BaseDelay..MaxDelay
        /\ issued \in 0..MaxCommands
    BY DEF TInv, Types
  <2>3. QED  BY <2>1, <2>2 DEF TInv, Holds, Bounds, TypeOK, Pcs, Now
<1>2. QED  BY <1>1, InitTInv, NextTInv, NextBounds, PTL DEF Spec

\* A command is carried out at most once and in the order of the user's input, whichever
\* connections fail under it (connection.rs:77-120).
THEOREM OnceInOrder == Spec => []CommandsOnceInOrder
<1>1. TInv /\ CommandOrder => CommandsOnceInOrder
  <2> SUFFICES ASSUME TInv, CommandOrder PROVE CommandsOnceInOrder  OBVIOUS
  <2>1. \A l \in Links : Increasing(handled[l])  BY DEF CommandOrder, SessionsOrdered
  <2>2. ASSUME NEW k \in Links, NEW l \in Links, k < l  PROVE Done(k) \cap Done(l) = {}
    <3>1. Below(Done(k), Done(l)) /\ Done(k) \subseteq Nat
      BY <2>2, NumberTypes DEF CommandOrder, SessionsOrdered, Below, On
    <3>2. ASSUME NEW a \in Done(k), a \in Done(l)  PROVE FALSE
      <4>1. a < a /\ a \in Nat  BY <3>1, <3>2 DEF Below
      <4>2. QED  BY <4>1
    <3>3. QED  BY <3>2
  <2>3. ASSUME NEW k \in Links, NEW l \in Links, k # l  PROVE Done(k) \cap Done(l) = {}
    <3>1. k < l \/ l < k  BY <2>3 DEF Links
    <3>2. QED  BY <2>2, <3>1
  <2>4. QED  BY <2>1, <2>3 DEF CommandsOnceInOrder, Done
<1>2. Init => TInv  BY InitTInv
<1>3. QED  BY <1>1, <1>2, InitOrder, NextTInv, NextOrder, PTL DEF Spec

\* While no connection has failed every command is carried out or on its way, once and in
\* order, also those entered before there was a connection (connection.rs:69-120).
THEOREM NothingLost == Spec => []NothingLostUnbroken
<1>1. TInv /\ CommandOrder /\ Whole => NothingLostUnbroken
  <2> SUFFICES ASSUME TInv, CommandOrder, Whole, Unbroken  PROVE NothingLostUnbroken
    BY DEF NothingLostUnbroken
  <2> DEFINE Any == Commands \cup Greetings \cup Replies \cup {None}
             c == IF Now = 0 THEN <<>> ELSE net[Now].c2s
             held == <<conn.held>>
             served == IF Now = 0 THEN {} ELSE Done(Now)
  <2>1. Now = 0 \/ (Now = 1 /\ Now \in Links)
    <3>1. Now \in 0..MaxLinks  BY DEF TInv, Types, Now
    <3>2. QED  BY <3>1, Numbered DEF Whole, Links
  <2>2. c \in Seq(Any) /\ held \in Seq(Any) /\ up \in Seq(Any) /\ ui.todo \in Seq(Any)
    <3>1. c \in Seq(Any)
      <4>1. CASE Now = 0  BY <4>1
      <4>2. CASE Now # 0
        <5>1. net[Now].c2s \in Seq(Commands \cup Greetings)  BY <2>1, <4>2 DEF TInv, Types
        <5>2. QED  BY <4>2, <5>1
      <4>3. QED  BY <4>1, <4>2
    <3>2. conn.held \in Any  BY DEF TInv, Types
    <3>3. up \in Seq(Commands) /\ ui.todo \in Seq(Commands)  BY DEF TInv, Types
    <3>4. QED  BY <3>1, <3>2, <3>3
  <2>3. Sent(held) = Hand /\ Sorted(held)  BY DEF Sent, Sorted, Hand, One
  <2>4. /\ Sorted(c) /\ Sorted(up) /\ Sorted(ui.todo)
        /\ Below(Sent(c), Hand) /\ Below(Sent(c), Sent(up)) /\ Below(Sent(c), Sent(ui.todo))
        /\ Below(Hand, Sent(up)) /\ Below(Hand, Sent(ui.todo)) /\ Below(Sent(up), Sent(ui.todo))
        /\ Below(served, Sent(c)) /\ Below(served, Hand) /\ Below(served, Sent(up))
        /\ Below(served, Sent(ui.todo))
    <3>1. CASE Now = 0
      BY <3>1, NothingSent DEF CommandOrder, QueuesOrdered, Below
    <3>2. CASE Now # 0
      BY <2>1, <3>2 DEF CommandOrder, QueuesOrdered, SessionsOrdered, On, Below
    <3>3. QED  BY <3>1, <3>2
  <2>5. Way = c \o held \o up \o ui.todo  BY DEF Way
  <2> HIDE DEF Any, c, held, served
  <2>6. /\ Below(Sent(c), Sent(held)) /\ Below(Sent(held), Sent(up)) /\ Sorted(held)
        /\ Below(Sent(held), Sent(ui.todo))
    BY <2>3, <2>4
  <2>7. /\ Sent(Way) = Sent(c) \cup Hand \cup Sent(up) \cup Sent(ui.todo) /\ Sorted(Way)
    BY <2>2, <2>3, <2>4, <2>5, <2>6, FourSent
  <2> USE DEF c, served
  <2>8. Reached = served \cup Sent(c)
    <3>1. CASE Now = 0
      <4>1. \A l \in Links : On(l) = {}  BY <3>1 DEF CommandOrder, SessionsOrdered, Links
      <4>2. QED  BY <3>1, <4>1, NothingSent, ReachedBy
    <3>2. CASE Now # 0
      <4>1. Now = 1 /\ Now \in Links  BY <2>1, <3>2
      <4>2. \A l \in Links : l # Now => On(l) = {}
        BY <4>1 DEF CommandOrder, SessionsOrdered, Links
      <4>3. On(Now) = served \cup Sent(c)  BY <3>2 DEF On
      <4>4. Reached = On(Now)  BY <4>1, <4>2, ReachedBy
      <4>5. QED  BY <4>3, <4>4
    <3>3. QED  BY <3>1, <3>2
  <2>9. served \cup Sent(Way) = 1..issued
    <3>1. Reached \cup Hand \cup Sent(up) \cup Sent(ui.todo) = 1..issued  BY DEF Whole, Everything
    <3>2. Reached = served \cup Sent(c)  BY <2>8 DEF Reached
    <3> HIDE DEF c, served
    <3>3. QED  BY <2>7, <3>1, <3>2
  <2>10. Below(served, Sent(Way))  BY <2>4, <2>7 DEF Below
  <2>11. Now # 0 => Increasing(handled[Now])
    BY <2>1 DEF CommandOrder, SessionsOrdered
  <2>12. QED  BY <2>7, <2>9, <2>10, <2>11 DEF NothingLostUnbroken
<1>2. Init => TInv  BY InitTInv
<1>3. QED
  BY <1>1, <1>2, InitOrder, InitWhole, NextTInv, NextOrder, NextWhole, PTL DEF Spec

\* After the end of a connection was told nothing of it reaches the application any more
\* (connection.rs:40-60, 113-118).
THEOREM EndIsLast == Spec => []EndedLinkIsSilent
<1>1. NoticesInOrder => EndedLinkIsSilent  BY DEF NoticesInOrder
<1>2. Init => TInv  BY InitTInv
<1>3. QED  BY <1>1, <1>2, InitNotices, NextTInv, NextNotices, PTL DEF Spec

\* No session serves a client that did not show the key the server asks for (server.rs:145-170).
THEOREM KeyRequired == Spec => []ServedWithKey
<1>1. KeyShown => ServedWithKey  BY DEF KeyShown
<1>2. Init => TInv  BY InitTInv
<1>3. QED  BY <1>1, <1>2, InitKey, NextTInv, NextKey, PTL DEF Spec
===============================================================================
