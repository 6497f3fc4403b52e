------------------------------ MODULE OrderDesk ------------------------------
(***************************************************************************)
(* The request a session has at the exchange.  ExchangeClientWrapper       *)
(* (src/server/src/exchange.rs) passes it to the adapter of the exchange   *)
(* the server is configured for; the adapter makes one REST call after     *)
(* another and answers.  The account moves between any two calls.          *)
(***************************************************************************)
EXTENDS ExchangeAccount

CONSTANTS MaxRequests,   \* requests in a behaviour
          Null

\* What a request is answered with.
Answers == {"placed", "error", "cancelled", "trailing"}

ASSUME DeskAssumption == MaxRequests \in Nat /\ Null \notin Answers

VARIABLES exchange,   \* the configured exchange
          desk,       \* [pc, n, req, order]: the call to make next for request n
          answer,     \* answer[n]: what request n was answered, Null until then
          placed      \* requests whose order the exchange has accepted (history)

vars == <<mode, pos, legs, book, exchange, desk, answer, placed>>

Idle == [pc |-> "idle", n |-> 0, req |-> Null, order |-> Null]
At(pc) == desk.pc = pc
Goto(pc) == desk' = [desk EXCEPT !.pc = pc]
GotoWith(pc, o) == desk' = [desk EXCEPT !.pc = pc, !.order = o]

\* The adapter returns: the handler sends the answer and takes the next request.
Answer(a) == /\ desk' = Idle
             /\ answer' = [answer EXCEPT ![desk.n] = a]
Fail == Answer("error")

\* A request that changes the account: done and answered, done with the answer lost, or not done.
Post(possible, effect, ok, err) ==
    \/ possible /\ effect /\ (ok \/ err)
    \/ err /\ UNCHANGED <<mode, pos, legs, book, placed>>

\* The order of a request reaches the exchange.
IsLimit == desk.req.op = "place" /\ desk.req.type = "limit"
MutPostOrder(o, ok) ==
    Post(IF IsLimit THEN WellFormed(o) ELSE Accepts(o),
         /\ IF IsLimit THEN PlaceLimit(o) ELSE PlaceMarket(o)
         /\ placed' = placed \cup {desk.n},
         ok, ok)
PostOrder(o, ok) ==
    Post(IF IsLimit THEN WellFormed(o) ELSE Accepts(o),
         /\ IF IsLimit THEN PlaceLimit(o) ELSE PlaceMarket(o)
         /\ placed' = placed \cup {desk.n},
         ok, Fail)

\* A query: answered with what the account holds, or failed.
Query(ok) == /\ ok \/ Fail
             /\ UNCHANGED <<mode, pos, legs, book, placed>>

\* Positions the exchange reports for a symbol: those with a size.
Held(s) == {d \in Sides : pos[s][d] > 0}
==============================================================================
