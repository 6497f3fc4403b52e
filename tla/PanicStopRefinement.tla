------------------------- MODULE PanicStopRefinement -------------------------
(* With one session at a time, PanicStop implements StopLifecycle. *)
EXTENDS PanicStop

\* The life of request i, read off the state of the sessions and the database.
PhaseOf(i) ==
  CASE fate[i] = "unused"   -> "unused"
    [] fate[i] \in Resolved -> "resolved"
    [] \E c \in Conns : RowOf(arm[c], i) -> "arming"
    [] \E c \in Conns : RowOf(stop[c], i) /\ Locked(c) -> "firing"
    [] \E c \in Conns : RowOf(stop[c], i) /\ ~Locked(c) /\ stop[c].active -> "counting"
    [] \E c \in Conns : RowOf(stop[c], i) /\ ~Locked(c) /\ ~stop[c].active -> "waiting"
    [] ~InMemory(i) /\ fate[i] \notin Resolved \cup {"unused"} ->
         IF OnDisk(i) THEN "stored" ELSE "lost"

Lifecycle == INSTANCE StopLifecycle
  WITH Requests <- Ids, phase <- [i \in Ids |-> PhaseOf(i)]

\* Every behaviour of one client's sessions, reconnects and crashes included,
\* is a legal life of each request: nothing fires before it has counted, an
\* ended or lost request never returns, one request at a time is in force.
ImplementsLifecycle == Lifecycle!Spec

=============================================================================
