------------------------------ MODULE ClientLink -----------------------------
(***************************************************************************)
(* The way of a command from the terminal to a session of the server, and  *)
(* of messages back.                                                       *)
(*                                                                         *)
(*   UI loop  --up-->  connection task  --c2s-->  session loop             *)
(*   UI loop <--down-- connection task <--s2c-- write task <--out-- session *)
(*                                                                         *)
(* src/client/src/main.rs (UI loop), connection.rs (connection task),      *)
(* src/server/src/server.rs (authentication, session loop, write task).    *)
(* up, down and out are bounded channels whose senders await room; c2s and *)
(* s2c are the buffers of a TCP connection.  The connection task waits in  *)
(* a send or a delivery without looking at its other channel, and so does  *)
(* the session loop, which also runs the timer of the activity stop.       *)
(***************************************************************************)
EXTENDS Integers, Sequences, FiniteSets

CONSTANTS QueueCap,     \* capacity of up, down and out (100 in the code)
          WireCap,      \* capacity of a TCP buffer
          MaxLinks,     \* connections in a behaviour
          MaxCommands,  \* commands the user enters
          BaseDelay, MaxDelay,
          Setups        \* behaviours to look at: credentials of the client, whether the server
                      \* asks for them, how many links and commands; a quiet one is without
                      \* refreshes by the clock, stops, attempts to connect that fail and
                      \* connections that fall silent, and its last one does not fail

ASSUME LinkAssumption ==
    /\ {QueueCap, WireCap, BaseDelay, MaxDelay} \subseteq Nat \ {0}
    /\ {MaxLinks, MaxCommands} \subseteq Nat
    /\ BaseDelay <= MaxDelay
    /\ Setups \subseteq [key : {"none", "wrong", "good"}, required : BOOLEAN, quiet : BOOLEAN,
                         links : 0..MaxLinks, commands : 0..MaxCommands]

VARIABLES setup,   \* of this behaviour
          issued,  \* commands entered so far; refreshes have the number 0
          ui,      \* [todo, connected, gone]: messages to be queued, the status shown,
           \* the last connection whose end was told (history)
          up, down,
          conn,    \* [pc, link, held, delay]: the connection task
          net,     \* net[l]: [state, c2s, s2c]
          srv,     \* srv[l]: [pc, out, writer, due]: the session at the other end
          handled  \* handled[l]: commands session l has carried out (history)

vars == <<setup, issued, ui, up, down, conn, net, srv, handled>>

Links == 1..MaxLinks
None == [kind |-> "none", n |-> 0]
HasRoom(q, cap) == Len(q) < cap
Now == conn.link
Message(kind) == [kind |-> kind, n |-> 0]
Command(n) == [kind |-> "command", n |-> n]
Refresh == <<Command(0), Command(0)>>
Resume == Refresh \o <<Command(0)>>

Init ==
    /\ setup \in Setups
    /\ issued = 0
    /\ ui = [todo |-> <<>>, connected |-> FALSE, gone |-> 0]
    /\ up = <<>> /\ down = <<>>
    /\ conn = [pc |-> "connect", link |-> 0, held |-> None, delay |-> BaseDelay]
    /\ net = [l \in Links |-> [state |-> "none", c2s |-> <<>>, s2c |-> <<>>]]
    /\ srv = [l \in Links |-> [pc |-> "none", out |-> <<>>, writer |-> TRUE, due |-> FALSE]]
    /\ handled = [l \in Links |-> <<>>]

-----------------------------------------------------------------------------
(* The UI loop. *)

\* A key press that ends in a command.
UiCommand ==
    /\ ui.todo = <<>> /\ issued < setup.commands
    /\ issued' = issued + 1
    /\ ui' = [ui EXCEPT !.todo = <<Command(issued')>>]
    /\ UNCHANGED <<setup, up, down, conn, net, srv, handled>>

\* Once a second, after the queue was emptied, while the application believes to be connected.
AutoRefresh ==
    /\ ~setup.quiet
    /\ ui.todo = <<>> /\ down = <<>> /\ ui.connected
    /\ ui' = [ui EXCEPT !.todo = Refresh]
    /\ UNCHANGED <<setup, issued, up, down, conn, net, srv, handled>>

\* The loop awaits room in the queue to the connection task.
UiSend ==
    /\ ui.todo # <<>> /\ HasRoom(up, QueueCap)
    /\ up' = Append(up, Head(ui.todo))
    /\ ui' = [ui EXCEPT !.todo = Tail(@)]
    /\ UNCHANGED <<setup, issued, down, conn, net, srv, handled>>

\* A message is handled; Connected is answered with requests for the lists and the chart.
MutUiReceive ==
    /\ down # <<>>
    /\ LET m == Head(down)
       IN ui' = [todo |-> IF m.kind = "connected" THEN Resume ELSE <<>>,
                 connected |-> IF m.kind = "other" THEN ui.connected ELSE m.kind = "connected",
                 gone |-> IF m.kind = "disconnected" THEN m.link ELSE ui.gone]
    /\ down' = Tail(down)
    /\ UNCHANGED <<setup, issued, up, conn, net, srv, handled>>
UiReceive ==
    /\ ui.todo = <<>> /\ down # <<>>
    /\ LET m == Head(down)
       IN ui' = [todo |-> IF m.kind = "connected" THEN Resume ELSE <<>>,
                 connected |-> IF m.kind = "other" THEN ui.connected ELSE m.kind = "connected",
                 gone |-> IF m.kind = "disconnected" THEN m.link ELSE ui.gone]
    /\ down' = Tail(down)
    /\ UNCHANGED <<setup, issued, up, conn, net, srv, handled>>

-----------------------------------------------------------------------------
(* The connection task. *)

\* A connection over TLS starts with the key.
Greeting == IF setup.key = "none" THEN <<>> ELSE <<[kind |-> setup.key, n |-> 0]>>

ConnectOk ==
    /\ conn.pc = "connect" /\ Now < setup.links
    /\ conn' = [conn EXCEPT !.pc = "open", !.link = Now + 1]
    /\ net' = [net EXCEPT ![Now + 1] = [state |-> "up", c2s |-> Greeting, s2c |-> <<>>]]
    /\ srv' = [srv EXCEPT ![Now + 1] =
                  [@ EXCEPT !.pc = IF setup.required THEN "auth" ELSE "loop",
                            !.out = IF setup.required THEN <<>> ELSE <<Message("connected")>>]]
    /\ UNCHANGED <<setup, issued, ui, up, down, handled>>

\* The attempt fails: the task sleeps, longer each time.
ConnectFails ==
    /\ conn.pc = "connect" /\ ~setup.quiet
    /\ conn' = [conn EXCEPT !.pc = "sleep"]
    /\ UNCHANGED <<setup, issued, ui, up, down, net, srv, handled>>

MutNextDelay(d) == 2 * d
NextDelay(d) == IF 2 * d < MaxDelay THEN 2 * d ELSE MaxDelay

Wake ==
    /\ conn.pc = "sleep"
    /\ conn' = [conn EXCEPT !.pc = "connect", !.delay = NextDelay(@)]
    /\ UNCHANGED <<setup, issued, ui, up, down, net, srv, handled>>

\* select! takes a command from the UI ...
TakeCommand ==
    /\ conn.pc = "open" /\ up # <<>>
    /\ conn' = [conn EXCEPT !.pc = "write", !.held = Head(up)]
    /\ up' = Tail(up)
    /\ UNCHANGED <<setup, issued, ui, down, net, srv, handled>>

\* ... and awaits room on the wire; on a dead connection the command is lost, noticed or not.
MutWrittenTwice ==
    /\ conn.pc = "write"
    /\ \/ /\ net[Now].state = "up" /\ HasRoom(net[Now].c2s, WireCap)
          /\ net' = [net EXCEPT ![Now].c2s = Append(@, conn.held)]
          /\ UNCHANGED conn
       \/ /\ net[Now].state # "up"
          /\ conn' = [conn EXCEPT !.pc = "notify", !.held = None]
          /\ UNCHANGED net
    /\ UNCHANGED <<setup, issued, ui, up, down, srv, handled>>
MutWriteIgnored ==
    /\ conn.pc = "write"
    /\ net[Now].state = "up" => HasRoom(net[Now].c2s, WireCap)
    /\ net' = IF net[Now].state = "up" THEN [net EXCEPT ![Now].c2s = Append(@, conn.held)] ELSE net
    /\ conn' = [conn EXCEPT !.pc = "open", !.held = None]
    /\ UNCHANGED <<setup, issued, ui, up, down, srv, handled>>
WriteCommand ==
    /\ conn.pc = "write"
    /\ \/ /\ net[Now].state = "up" /\ HasRoom(net[Now].c2s, WireCap)
          /\ net' = [net EXCEPT ![Now].c2s = Append(@, conn.held)]
          /\ conn' = [conn EXCEPT !.pc = "open", !.held = None]
       \/ /\ net[Now].state # "up"
          /\ conn' = [conn EXCEPT !.pc = "notify", !.held = None]
          /\ UNCHANGED net
    /\ UNCHANGED <<setup, issued, ui, up, down, srv, handled>>

\* select! takes a message from the wire ...
TakeMessage ==
    /\ conn.pc = "open" /\ net[Now].s2c # <<>>
    /\ conn' = [conn EXCEPT !.pc = "deliver", !.held = Head(net[Now].s2c)]
    /\ net' = [net EXCEPT ![Now].s2c = Tail(@)]
    /\ UNCHANGED <<setup, issued, ui, up, down, srv, handled>>

\* ... and awaits room in the queue to the UI.
Deliver ==
    /\ conn.pc = "deliver" /\ HasRoom(down, QueueCap)
    /\ down' = Append(down, [kind |-> conn.held.kind, link |-> Now])
    /\ conn' = [conn EXCEPT !.pc = "open", !.held = None]
    /\ UNCHANGED <<setup, issued, ui, up, net, srv, handled>>

\* A close frame or a read error; a connection that went silent shows neither.
ReadFails ==
    /\ conn.pc = "open" /\ net[Now].state = "broken"
    /\ conn' = [conn EXCEPT !.pc = "notify"]
    /\ UNCHANGED <<setup, issued, ui, up, down, net, srv, handled>>

\* The UI is told, and the next attempt follows without a pause.
MutSendDisconnected ==
    /\ conn.pc = "notify" /\ HasRoom(down, QueueCap)
    /\ down' = Append(down, [kind |-> "disconnected", link |-> Now])
    /\ conn' = [conn EXCEPT !.pc = "open"]
    /\ UNCHANGED <<setup, issued, ui, up, net, srv, handled>>
SendDisconnected ==
    /\ conn.pc = "notify" /\ HasRoom(down, QueueCap)
    /\ down' = Append(down, [kind |-> "disconnected", link |-> Now])
    /\ conn' = [conn EXCEPT !.pc = "connect", !.delay = BaseDelay]
    /\ UNCHANGED <<setup, issued, ui, up, net, srv, handled>>

-----------------------------------------------------------------------------
(* The server: authentication, the session loop with its timer, the write task. *)

At(l, pc) == srv[l].pc = pc
Serving == {"loop", "answer", "fire"}
Close(l) == net' = [net EXCEPT ![l].state = "broken", ![l].c2s = <<>>]

\* The first message must carry the key.  A wrong key is answered, anything else, or
\* nothing for AUTH_TIMEOUT, is not; the connection ends.
Authenticate(l) ==
    /\ At(l, "auth") /\ net[l].c2s # <<>>
    /\ LET first == Head(net[l].c2s).kind
       IN IF first = "good"
          THEN /\ srv' = [srv EXCEPT ![l].pc = "loop", ![l].out = <<Message("connected")>>]
               /\ net' = [net EXCEPT ![l].c2s = Tail(@)]
          ELSE /\ srv' = [srv EXCEPT ![l].pc = "over"]
               /\ net' = [net EXCEPT ![l].state = "broken", ![l].c2s = <<>>,
                             ![l].s2c = IF first = "wrong" /\ net[l].state = "up"
                                        THEN <<Message("other")>> ELSE <<>>]
    /\ UNCHANGED <<setup, issued, ui, up, down, conn, handled>>

AuthTimeout(l) ==
    /\ At(l, "auth")
    /\ srv' = [srv EXCEPT ![l].pc = "over"]
    /\ Close(l)
    /\ UNCHANGED <<setup, issued, ui, up, down, conn, handled>>

\* A command is carried out, then its answer awaits room; a greeting is no command.
Handle(l) ==
    /\ At(l, "loop") /\ net[l].c2s # <<>>
    /\ LET m == Head(net[l].c2s)
       IN IF m.kind = "command"
          THEN /\ handled' = [handled EXCEPT ![l] = IF m.n = 0 THEN @ ELSE Append(@, m.n)]
               /\ srv' = [srv EXCEPT ![l].pc = "answer"]
          ELSE UNCHANGED <<handled, srv>>
    /\ net' = [net EXCEPT ![l].c2s = Tail(@)]
    /\ UNCHANGED <<setup, issued, ui, up, down, conn>>

\* With the write task gone a send fails at once; otherwise it awaits room.
CanSend(l) == srv[l].writer => HasRoom(srv[l].out, QueueCap)
Sending(l) == IF srv[l].writer THEN Append(srv[l].out, Message("other")) ELSE srv[l].out

SendAnswer(l) ==
    /\ At(l, "answer") /\ CanSend(l)
    /\ srv' = [srv EXCEPT ![l].pc = "loop", ![l].out = Sending(l)]
    /\ UNCHANGED <<setup, issued, ui, up, down, conn, net, handled>>

\* The timeout of the activity stop runs out ...
StopExpires(l) ==
    /\ ~setup.quiet
    /\ srv[l].pc \in {"loop", "answer"} /\ ~srv[l].due
    /\ srv' = [srv EXCEPT ![l].due = TRUE]
    /\ UNCHANGED <<setup, issued, ui, up, down, conn, net, handled>>

\* ... the session loop takes the branch of the timer ...
TimerTick(l) ==
    /\ At(l, "loop") /\ srv[l].due
    /\ srv' = [srv EXCEPT ![l].pc = "fire"]
    /\ UNCHANGED <<setup, issued, ui, up, down, conn, net, handled>>

\* ... and sends the status, awaiting room with the Mutex held, before it closes the position.
MutFireStop(l) ==
    /\ At(l, "fire") /\ CanSend(l)
    /\ srv' = [srv EXCEPT ![l].pc = "loop", ![l].out = Sending(l)]
    /\ UNCHANGED <<setup, issued, ui, up, down, conn, net, handled>>
FireStop(l) ==
    /\ At(l, "fire") /\ CanSend(l)
    /\ srv' = [srv EXCEPT ![l].pc = "loop", ![l].due = FALSE, ![l].out = Sending(l)]
    /\ UNCHANGED <<setup, issued, ui, up, down, conn, net, handled>>

\* The write task awaits room on the wire and ends with the first error.
WriteTask(l) ==
    /\ srv[l].pc \in Serving /\ srv[l].writer /\ srv[l].out # <<>>
    /\ IF net[l].state = "up"
       THEN /\ HasRoom(net[l].s2c, WireCap)
            /\ net' = [net EXCEPT ![l].s2c = Append(@, Head(srv[l].out))]
            /\ srv' = [srv EXCEPT ![l].out = Tail(@)]
       ELSE /\ srv' = [srv EXCEPT ![l].writer = FALSE, ![l].out = <<>>]
            /\ UNCHANGED net
    /\ UNCHANGED <<setup, issued, ui, up, down, conn, handled>>

\* The loop sees the end of the connection and aborts its tasks.  A stop that
\* is due and has not fired goes with it, unfired: only its row remains.
EndSession(l) ==
    /\ srv[l].pc \in {"loop", "auth"} /\ net[l].state = "broken"
    /\ srv' = [srv EXCEPT ![l].pc = "over", ![l].out = <<>>, ![l].writer = FALSE]
    /\ UNCHANGED <<setup, issued, ui, up, down, conn, net, handled>>

\* The network: the connection of the two breaks, or falls silent without a sign.
Failures == IF setup.quiet THEN {"broken"} ELSE {"broken", "silent"}
NetFails(l) ==
    /\ net[l].state = "up" /\ (setup.quiet => l < setup.links)
    /\ \E state \in Failures : net' = [net EXCEPT ![l].state = state]
    /\ UNCHANGED <<setup, issued, ui, up, down, conn, srv, handled>>

UiLoop == UiCommand \/ AutoRefresh \/ UiSend \/ UiReceive
Connection == \/ ConnectOk \/ ConnectFails \/ Wake \/ TakeCommand \/ WriteCommand
              \/ TakeMessage \/ Deliver \/ ReadFails \/ SendDisconnected
Session(l) == \/ Authenticate(l) \/ AuthTimeout(l) \/ Handle(l) \/ SendAnswer(l)
              \/ StopExpires(l) \/ TimerTick(l) \/ FireStop(l) \/ WriteTask(l) \/ EndSession(l)

Next == UiLoop \/ Connection \/ \E l \in Links : Session(l) \/ NetFails(l)

Spec == Init /\ [][Next]_vars

\* Every task goes on as long as it is not waiting, and select! polls its branches in random
\* order, so a timer that is due is not passed over for ever.  Nothing makes a connection
\* succeed, fail or time out, and nothing makes the user enter commands.
FairSpec ==
    /\ Spec
    /\ WF_vars(AutoRefresh \/ UiSend \/ UiReceive)
    /\ WF_vars(\/ Wake \/ TakeCommand \/ WriteCommand \/ TakeMessage
               \/ Deliver \/ ReadFails \/ SendDisconnected)
    /\ \A l \in Links : /\ WF_vars(Authenticate(l) \/ Handle(l) \/ SendAnswer(l)
                               \/ FireStop(l) \/ EndSession(l))
                        /\ WF_vars(WriteTask(l))
                        /\ SF_vars(TimerTick(l))

-----------------------------------------------------------------------------
(* Properties. *)

Messages == [kind : {"none", "command", "good", "wrong", "connected", "other"}, n : 0..MaxCommands]

TypeOK ==
    /\ issued \in 0..MaxCommands
    /\ Len(up) <= QueueCap /\ Len(down) <= QueueCap
    /\ conn.pc \in {"connect", "sleep", "open", "write", "deliver", "notify"}
    /\ conn.link \in 0..MaxLinks /\ conn.held \in Messages
    /\ conn.delay \in BaseDelay..MaxDelay
    /\ \A l \in Links : /\ Len(net[l].c2s) <= WireCap /\ Len(net[l].s2c) <= WireCap
                        /\ Len(srv[l].out) <= QueueCap
                        /\ l > conn.link => net[l].state = "none" /\ srv[l].pc = "none"

\* The commands in a queue, and their order; requests of the application itself do not count.
Sent(q) == {q[i].n : i \in DOMAIN q} \ {0}
Sorted(q) == \A i, j \in DOMAIN q : i < j /\ q[i].n # 0 /\ q[j].n # 0 => q[i].n < q[j].n
Increasing(q) == \A i, j \in DOMAIN q : i < j => q[i] < q[j]
Below(A, B) == \A a \in A, b \in B : a < b
Done(l) == {handled[l][i] : i \in DOMAIN handled[l]}

\* Whatever breaks, a command is carried out at most once and a session takes the commands in
\* the order they were entered: the task that lost a write never sends it again.
CommandsOnceInOrder ==
    /\ \A l \in Links : Increasing(handled[l])
    /\ \A k, l \in Links : k # l => Done(k) \cap Done(l) = {}

\* While no connection has failed, every command is carried out or on its way, in order and
\* once, also those entered before there was a connection.
Unbroken == \A l \in Links : net[l].state \in {"none", "up"}
Way == (IF Now = 0 THEN <<>> ELSE net[Now].c2s) \o <<conn.held>> \o up \o ui.todo
NothingLostUnbroken ==
    Unbroken =>
        LET served == IF Now = 0 THEN {} ELSE Done(Now)
        IN /\ served \cup Sent(Way) = 1..issued
           /\ Below(served, Sent(Way))
           /\ Sorted(Way) /\ (Now # 0 => Increasing(handled[Now]))

\* No session serves a client that did not show the key the server asks for.
ServedWithKey ==
    \A l \in Links : srv[l].pc \in Serving => ~setup.required \/ setup.key = "good"

\* Once the application has been told of the end of a connection it hears nothing of it any more.
EndedLinkIsSilent == \A i \in DOMAIN down : down[i].link > ui.gone

\* The connection task awaits the UI loop while the UI loop awaits it, or it awaits the server
\* while the session awaits the write task and that one the connection task.
Jammed == \/ /\ conn.pc \in {"deliver", "notify"} /\ ~HasRoom(down, QueueCap)
             /\ ui.todo # <<>> /\ ~HasRoom(up, QueueCap)
          \/ /\ conn.pc = "write" /\ net[Now].state = "up" /\ ~HasRoom(net[Now].c2s, WireCap)
             /\ srv[Now].pc \in {"answer", "fire"} /\ ~HasRoom(srv[Now].out, QueueCap)
             /\ ~HasRoom(net[Now].s2c, WireCap)

\* The UI loop awaits room for a message.
UiWaits == ui.todo # <<>> /\ ~HasRoom(up, QueueCap)

\* A connection that broke or went silent is noticed and the application shows it, unless the
\* UI loop hangs for ever on a queue nobody empties.
LossIsNoticed ==
    (\E l \in Links : Now = l /\ net[l].state \in {"broken", "silent"})
        ~> (~ui.connected \/ []UiWaits)

\* A stop that expires in a session fires, however slowly the client reads and also when the link
\* is dead and nobody has noticed.  Two things come first: the session may end, and the stop is
\* then left to the next session and its row (PanicStop), or everybody waits on everybody.
StopFires == \A l \in Links : srv[l].due ~> ~srv[l].due \/ At(l, "over") \/ Jammed
=============================================================================
