--------------------------- MODULE ExchangeOrdersProofs --------------------------
(* Theorems about ExchangeOrders, for any symbols, lot size, margin and number of requests. *)
EXTENDS ExchangeOrders, TLAPS

\* What an order, a leg or a request to trade names exists.
Sound(o) == o.symbol \in Symbols /\ o.side \in Sides /\ o.qty \in Nat

\* The desk works on a request that has no answer yet.
DeskType ==
  /\ DOMAIN desk = {"pc", "n", "req", "order"}
  /\ desk.n \in 0..MaxRequests
  /\ desk.pc \notin {"start", "stopped", "idle"} => desk.n > 0
  /\ answer \in [1..MaxRequests -> Answers \cup {Null}]
  /\ desk.n > 0 => answer[desk.n] = Null
  /\ placed \subseteq 1..MaxRequests

\* What the next call of a request is made with; a leg is placed for an order that was taken.
\* The position mode is settled before anything is traded.
RequestType ==
  /\ desk.pc \in {"order", "close", "target", "size", "trail"} =>
       desk.req.symbol \in Symbols /\ desk.req.side \in Sides
  /\ At("close") => /\ DOMAIN desk.req = {"op", "symbol", "side", "qty", "stops"}
                    /\ desk.req.op = "close"
  /\ At("order") => desk.req.qty \in Nat
  /\ desk.pc \in {"sl", "tp"} =>
       Sound(desk.order) /\ desk.order.id = desk.n /\ desk.n \in placed
  /\ At("trail") /\ exchange = "binance" => Sound(desk.order)
  /\ At("start") => pos = Flat

\* What waits at the exchange is of an order that was taken.
Entries ==
  /\ \A o \in book : o.id \in placed
  /\ LegsAfterEntry

DeskInv == DeskType /\ RequestType /\ ToldMeansPlaced
AccountInv == AccountTypeOK /\ Entries
IInv == DeskInv /\ AccountInv

-----------------------------------------------------------------------------
(* The account *)

\* A trade keeps every position within the margin, and in one-way mode one side flat: an order
\* closes the whole other side before it opens its own.
LEMMA TradedType ==
  ASSUME AccountTypeOK, NEW o, Sound(o), Accepts(o)
  PROVE  /\ Traded(o) \in [Symbols -> [Sides -> 0..MaxQty]]
         /\ \A s \in Symbols : mode = "oneway" => \E d \in Sides : Traded(o)[s][d] = 0
<1> DEFINE s == o.symbol
           d == o.side
           e == Opposite(o.side)
<1>1. s \in Symbols /\ d \in Sides /\ e \in Sides /\ d # e /\ o.qty \in Nat /\ Sides = {d, e}
  BY DEF Sound, Sides, Opposite
<1>2. pos[s][d] \in 0..MaxQty /\ pos[s][e] \in 0..MaxQty /\ MaxQty \in Nat
  BY <1>1, AccountAssumption DEF AccountTypeOK
<1>3. Closes(o) \in 0..o.qty /\ Closes(o) <= pos[s][e]
  BY <1>1, <1>2 DEF Closes, Smaller
<1>4. Opens(o) \in Nat /\ pos[s][d] + Opens(o) <= MaxQty
  BY <1>1, <1>2, <1>3 DEF Opens, Accepts
<1>5. /\ pos[s][e] - Closes(o) \in 0..MaxQty
      /\ pos[s][d] + Opens(o) \in 0..MaxQty
  BY <1>2, <1>3, <1>4
<1>6. /\ Traded(o) \in [Symbols -> [Sides -> 0..MaxQty]]
      /\ Traded(o)[s][e] = pos[s][e] - Closes(o)
      /\ Traded(o)[s][d] = pos[s][d] + Opens(o)
      /\ \A r \in Symbols \ {s} : Traded(o)[r] = pos[r]
  <2> DEFINE row == [pos[s] EXCEPT ![e] = pos[s][e] - Closes(o), ![d] = pos[s][d] + Opens(o)]
  <2>1. pos \in [Symbols -> [Sides -> 0..MaxQty]] /\ pos[s] \in [Sides -> 0..MaxQty]
    BY <1>1 DEF AccountTypeOK
  <2>2. /\ row \in [Sides -> 0..MaxQty]
        /\ row[e] = pos[s][e] - Closes(o)
        /\ row[d] = pos[s][d] + Opens(o)
    BY <1>1, <1>5, <2>1
  <2>3. Traded(o) = [pos EXCEPT ![s] = row]
    BY <1>1, <2>1 DEF Traded
  <2> HIDE DEF row
  <2>4. QED  BY <1>1, <2>1, <2>2, <2>3
<1>7. ASSUME mode = "oneway"
      PROVE  Traded(o)[s][d] = 0 \/ Traded(o)[s][e] = 0
  <2>1. o.idx = "both" /\ o.idx # d /\ o.idx # e
    BY <1>1, <1>7 DEF Accepts, WellFormed, Sides
  <2>2. Closes(o) = Smaller(o.qty, pos[s][e])
    BY <2>1 DEF Closes
  <2>3. CASE Closes(o) = pos[s][e]
    BY <1>2, <1>6, <2>3
  <2>4. CASE Closes(o) = o.qty /\ o.qty < pos[s][e]
    <3>1. Opens(o) = 0
      BY <1>1, <2>4 DEF Opens
    <3>2. pos[s][d] = 0
      BY <1>1, <1>2, <1>7, <2>4 DEF AccountTypeOK
    <3>3. QED  BY <1>6, <3>1, <3>2
  <2>5. QED  BY <1>1, <1>2, <2>2, <2>3, <2>4 DEF Smaller
<1>8. QED  BY <1>1, <1>6, <1>7 DEF AccountTypeOK

\* Executing an order keeps the account well formed; its stops are those of a sound order.
LEMMA ExecuteType ==
  ASSUME AccountTypeOK, NEW o, Sound(o), Accepts(o), Execute(o), mode' = mode,
         book' \subseteq book
  PROVE  /\ AccountTypeOK'
         /\ \A l \in legs' : l \in legs \/ (l.id = o.id /\ l.kind \in o.stops)
<1>1. /\ pos' \in [Symbols -> [Sides -> 0..MaxQty]]
      /\ \A s \in Symbols : mode' = "oneway" => \E d \in Sides : pos'[s][d] = 0
  BY TradedType DEF Execute
<1>2. \A l \in legs' : l \in legs \/ l \in Attached(o)
  BY DEF Execute
<1>3. \A l \in Attached(o) : Sound(l) /\ l.id = o.id /\ l.kind \in o.stops
  BY AccountAssumption DEF Attached, Sound, Sides, Opposite
<1>4. \A l \in legs' \cup book' : Sound(l)
  BY <1>2, <1>3 DEF AccountTypeOK, Sound
<1>5. AccountTypeOK'
  BY <1>1, <1>4 DEF AccountTypeOK, Sound
<1>6. QED  BY <1>2, <1>3, <1>5

-----------------------------------------------------------------------------
(* The desk *)

\* A request that is told as placed was taken; any other answer ends it too.
LEMMA Answered ==
  ASSUME IInv, NEW a \in Answers, Answer(a), desk.n > 0,
         placed \subseteq placed', placed' \subseteq 1..MaxRequests,
         a = "placed" => desk.n \in placed'
  PROVE  DeskInv'
<1> USE DEF IInv, DeskInv
<1>1. /\ DOMAIN desk' = {"pc", "n", "req", "order"} /\ desk'.n = 0 /\ desk'.pc = "idle"
      /\ answer' = [answer EXCEPT ![desk.n] = a]
  BY DEF Answer, Idle
<1>2. desk.n \in 1..MaxRequests
  BY DeskAssumption DEF DeskType
<1>3. DeskType'
  BY <1>1, <1>2, DeskAssumption DEF DeskType
<1>4. RequestType'
  BY <1>1 DEF RequestType, At
<1>5. ToldMeansPlaced'
  BY <1>1, <1>2 DEF ToldMeansPlaced, DeskType
<1>6. QED  BY <1>3, <1>4, <1>5

\* The request goes on to its next call.
LEMMA Advanced ==
  ASSUME IInv, desk.n > 0, UNCHANGED answer,
         placed \subseteq placed', placed' \subseteq 1..MaxRequests,
         DOMAIN desk' = {"pc", "n", "req", "order"}, desk'.n = desk.n, RequestType'
  PROVE  DeskInv'
<1>1. DeskType'
  BY DEF IInv, DeskInv, DeskType
<1>2. ToldMeansPlaced'
  BY DEF IInv, DeskInv, ToldMeansPlaced
<1>3. QED  BY <1>1, <1>2 DEF DeskInv

\* An order that reaches the exchange is recorded as taken, and so are its stops.
LEMMA OrderTaken ==
  ASSUME IInv, desk.n > 0, NEW o, Sound(o), o.id = desk.n, placed' = placed \cup {desk.n},
         \/ PlaceLimit(o)
         \/ Accepts(o) /\ PlaceMarket(o)
  PROVE  /\ AccountInv'
         /\ placed \subseteq placed' /\ placed' \subseteq 1..MaxRequests /\ desk.n \in placed'
<1> USE DEF IInv, DeskInv, AccountInv
<1>0. desk.n \in 1..MaxRequests /\ placed \subseteq 1..MaxRequests
  BY DeskAssumption DEF DeskType
<1>1. placed \subseteq placed' /\ placed' \subseteq 1..MaxRequests /\ desk.n \in placed'
  BY <1>0
<1>2. CASE PlaceLimit(o)
  <2>1. book' = book \cup {o} /\ UNCHANGED <<mode, pos, legs>>
    BY <1>2 DEF PlaceLimit
  <2>2. AccountTypeOK'
    BY <2>1 DEF AccountTypeOK, Sound
  <2>3. Entries'
    BY <1>1, <2>1 DEF Entries, LegsAfterEntry
  <2>4. QED  BY <1>1, <2>2, <2>3
<1>3. CASE Accepts(o) /\ PlaceMarket(o)
  <2>1. Execute(o) /\ mode' = mode /\ book' = book
    BY <1>3 DEF PlaceMarket
  <2>2. AccountTypeOK' /\ \A l \in legs' : l \in legs \/ (l.id = o.id /\ l.kind \in o.stops)
    BY <1>3, <2>1, ExecuteType
  <2>3. Entries'
    BY <1>1, <2>1, <2>2 DEF Entries, LegsAfterEntry
  <2>4. QED  BY <1>1, <2>2, <2>3
<1>4. QED  BY <1>2, <1>3

\* A call that leaves the account alone.
LEMMA AccountKept ==
  ASSUME IInv, UNCHANGED <<mode, pos, legs, book, placed>>
  PROVE  /\ AccountInv'
         /\ placed \subseteq placed' /\ placed' \subseteq 1..MaxRequests
<1>1. AccountTypeOK'
  BY DEF IInv, AccountInv, AccountTypeOK
<1>2. Entries'
  BY DEF IInv, AccountInv, Entries, LegsAfterEntry
<1>3. QED  BY <1>1, <1>2 DEF IInv, AccountInv, DeskInv, DeskType

LEMMA Failed ==
  ASSUME IInv, desk.n > 0, Fail, UNCHANGED <<mode, pos, legs, book, placed>>
  PROVE  IInv'
  BY Answered, AccountKept DEF Fail, Answers, IInv

-----------------------------------------------------------------------------
(* The first steps of a server and of a request *)

LEMMA InitIInv == Init => IInv
<1> SUFFICES ASSUME Init PROVE IInv
  OBVIOUS
<1>1. AccountTypeOK
  BY AccountAssumption DEF Init, AccountTypeOK, Flat, Sides
<1>2. Entries
  BY DEF Init, Entries, LegsAfterEntry
<1>3. DeskType
  BY DeskAssumption DEF Init, DeskType, Idle
<1>4. RequestType
  BY DEF Init, RequestType, At, Idle
<1>5. ToldMeansPlaced
  BY DeskAssumption DEF Init, ToldMeansPlaced, Answers
<1>6. QED  BY <1>1, <1>2, <1>3, <1>4, <1>5 DEF IInv, DeskInv, AccountInv

\* The server starts before it trades, so that the mode may change under flat positions only.
LEMMA StartStep ==
  ASSUME IInv, EnsurePositionMode
  PROVE  IInv'
<1> USE DEF IInv, DeskInv, AccountInv
<1>1. /\ At("start") /\ UNCHANGED <<pos, legs, book, placed, answer, exchange>>
      /\ mode' = mode \/ mode' \in {"oneway", "hedge"}
      /\ desk' = Idle \/ desk' = [Idle EXCEPT !.pc = "stopped"]
  BY DEF EnsurePositionMode, EnsureOneWayMode, SwitchToHedgeMode
<1>2. AccountTypeOK'
  <2>1. \A s \in Symbols : \E d \in Sides : pos'[s][d] = 0
    BY <1>1 DEF RequestType, Flat, Sides
  <2>2. QED  BY <1>1, <2>1 DEF AccountTypeOK
<1>3. Entries'
  BY <1>1 DEF Entries, LegsAfterEntry
<1>4. DOMAIN desk' = {"pc", "n", "req", "order"} /\ desk'.n = 0 /\ desk'.pc \in {"idle", "stopped"}
  BY <1>1 DEF Idle
<1>5. DeskType'
  BY <1>1, <1>4, DeskAssumption DEF DeskType
<1>6. RequestType'
  BY <1>4 DEF RequestType, At
<1>7. ToldMeansPlaced'
  BY <1>1 DEF ToldMeansPlaced
<1>8. QED  BY <1>2, <1>3, <1>5, <1>6, <1>7

\* A request begins with the call of its kind.
LEMMA TakeStep ==
  ASSUME IInv, Take
  PROVE  IInv'
<1> USE DEF IInv, DeskInv
<1>1. PICK n \in 1..MaxRequests, r \in Requests :
        answer[n] = Null /\ desk' = [pc |-> FirstCall(r), n |-> n, req |-> r, order |-> Null]
  BY DEF Take
<1>2. UNCHANGED <<mode, pos, legs, book, exchange, answer, placed>>
  BY DEF Take
<1>3. /\ DOMAIN desk' = {"pc", "n", "req", "order"}
      /\ desk'.pc = FirstCall(r) /\ desk'.n = n /\ desk'.req = r
  BY <1>1
<1>4. n \in 0..MaxRequests /\ n > 0
  BY DeskAssumption
<1>5. DeskType'
  BY <1>1, <1>2, <1>3, <1>4 DEF DeskType
<1>6. RequestType'
  <2>1. CASE r.op = "place"
    <3>1. FirstCall(r) = "order"
      BY <2>1 DEF FirstCall
    <3>2. r.symbol \in Symbols /\ r.side \in Sides /\ r.qty \in Nat
      BY <2>1, SizesAssumption DEF Requests
    <3>3. QED  BY <1>3, <3>1, <3>2 DEF RequestType, At
  <2>2. CASE r.op = "close"
    <3>1. FirstCall(r) = "close"
      BY <2>2 DEF FirstCall
    <3>2. r.symbol \in Symbols /\ r.side \in Sides /\ DOMAIN r = {"op", "symbol", "side", "qty", "stops"}
      BY <2>2 DEF Requests
    <3>3. QED  BY <1>3, <2>2, <3>1, <3>2 DEF RequestType, At
  <2>3. CASE r.op = "trail"
    <3>1. FirstCall(r) = "target"
      BY <2>3 DEF FirstCall
    <3>2. r.symbol \in Symbols /\ r.side \in Sides
      BY <2>3 DEF Requests
    <3>3. QED  BY <1>3, <3>1, <3>2 DEF RequestType, At
  <2>4. CASE r.op \in {"cancel", "cancel_all"}
    <3>1. FirstCall(r) = "cancel"
      BY <2>4 DEF FirstCall
    <3>2. QED  BY <1>3, <3>1 DEF RequestType, At
  <2>5. QED  BY <2>1, <2>2, <2>3, <2>4 DEF Requests
<1>7. ToldMeansPlaced'
  BY <1>2 DEF ToldMeansPlaced
<1>8. AccountInv'
  BY <1>2, AccountKept
<1>9. QED  BY <1>5, <1>6, <1>7, <1>8

LEMMA CancelStep ==
  ASSUME IInv, CancelOrders
  PROVE  IInv'
<1>1. desk.n > 0
  BY DEF IInv, DeskInv, DeskType, CancelOrders, At
<1>2. CASE Fail /\ UNCHANGED <<mode, pos, legs, book, placed>>
  BY <1>1, <1>2, Failed
<1>3. CASE /\ book' = book \ Cancelled(desk.req) /\ UNCHANGED <<mode, pos, legs, placed>>
           /\ Answer("cancelled") \/ Fail
  <2>1. placed \subseteq placed' /\ placed' \subseteq 1..MaxRequests
    BY <1>3 DEF IInv, DeskInv, DeskType
  <2>2. DeskInv'
    BY <1>1, <1>3, <2>1, Answered DEF Fail, Answers
  <2>3. AccountTypeOK'
    BY <1>3 DEF IInv, AccountInv, AccountTypeOK
  <2>4. Entries'
    BY <1>3 DEF IInv, AccountInv, Entries, LegsAfterEntry
  <2>5. QED  BY <2>2, <2>3, <2>4 DEF IInv, AccountInv
<1>4. QED  BY <1>2, <1>3 DEF CancelOrders, Post

-----------------------------------------------------------------------------
(* The adapters *)

\* The quantity an order goes out with.
LEMMA RoundedType ==
  ASSUME NEW q \in Nat
  PROVE  RoundToStep(q) \in Nat
<1>1. Step \in Nat /\ Step > 0
  BY AccountAssumption
<1>2. q \div Step \in Nat
  BY <1>1
<1>3. QED  BY <1>1, <1>2 DEF RoundToStep

\* A query is answered with what the account holds and changes nothing.
LEMMA Queried ==
  ASSUME IInv, desk.n > 0, UNCHANGED <<mode, pos, legs, book, placed, exchange>>,
         \/ Fail
         \/ /\ UNCHANGED answer
            /\ DOMAIN desk' = {"pc", "n", "req", "order"} /\ desk'.n = desk.n
            /\ RequestType'
  PROVE  IInv'
  BY Failed, Advanced, AccountKept DEF IInv

\* Both adapters look the position of a close order up in the same way.
LEMMA CloseLookedUp ==
  ASSUME IInv, At("close"), desk.req.side \in Held(desk.req.symbol),
         desk' = [desk EXCEPT !.pc = "order", !.req.side = Opposite(@),
                              !.req.qty = pos[desk.req.symbol][desk.req.side]]
  PROVE  /\ DOMAIN desk' = {"pc", "n", "req", "order"} /\ desk'.n = desk.n
         /\ RequestType'
<1> USE DEF IInv, DeskInv, AccountInv
<1>1. /\ desk.req.symbol \in Symbols /\ desk.req.side \in Sides
      /\ DOMAIN desk = {"pc", "n", "req", "order"}
      /\ DOMAIN desk.req = {"op", "symbol", "side", "qty", "stops"}
  BY DEF RequestType, DeskType, At
<1>2. pos[desk.req.symbol][desk.req.side] \in Nat
  BY <1>1, AccountAssumption DEF AccountTypeOK
<1>3. /\ DOMAIN desk' = {"pc", "n", "req", "order"} /\ desk'.n = desk.n /\ desk'.pc = "order"
      /\ desk'.req.symbol = desk.req.symbol /\ desk'.req.side = Opposite(desk.req.side)
      /\ desk'.req.qty = pos[desk.req.symbol][desk.req.side]
  BY <1>1
<1>4. RequestType'
  BY <1>1, <1>2, <1>3 DEF RequestType, At, Opposite, Sides
<1>5. QED  BY <1>3, <1>4

\* An order of Binance is taken before its legs are placed; one that is not taken gets none.
LEMMA BinanceOrderStep ==
  ASSUME IInv, PlaceOrderBinance, UNCHANGED exchange
  PROVE  IInv'
<1> DEFINE o == BinanceOrder(desk.req)
<1> USE DEF IInv, DeskInv
<1>1. desk.n > 0 /\ DOMAIN desk = {"pc", "n", "req", "order"}
  BY DEF PlaceOrderBinance, DeskType, At
<1>2. Sound(o) /\ o.id = desk.n
  BY RoundedType DEF PlaceOrderBinance, RequestType, At, BinanceOrder, Sound
<1>3. CASE Fail /\ UNCHANGED <<mode, pos, legs, book, placed>>
  BY <1>1, <1>3, Failed
<1>4. CASE /\ PlaceLimit(o) \/ (Accepts(o) /\ PlaceMarket(o))
           /\ placed' = placed \cup {desk.n}
           /\ AfterOrder(o) \/ Fail
  <2>1. /\ AccountInv'
        /\ placed \subseteq placed' /\ placed' \subseteq 1..MaxRequests /\ desk.n \in placed'
    BY <1>1, <1>2, <1>4, OrderTaken
  <2>2. CASE Fail
    BY <1>1, <2>1, <2>2, Answered DEF Fail, Answers
  <2>3. CASE Answer("placed")
    BY <1>1, <2>1, <2>3, Answered DEF Answers
  <2>4. CASE UNCHANGED answer /\ (GotoWith("sl", o) \/ GotoWith("tp", o))
    <3>1. /\ DOMAIN desk' = {"pc", "n", "req", "order"} /\ desk'.n = desk.n
          /\ desk'.pc \in {"sl", "tp"} /\ desk'.order = o
      BY <1>1, <2>4 DEF GotoWith
    <3>2. RequestType'
      BY <1>2, <2>1, <3>1 DEF RequestType, At, Sound
    <3>3. QED  BY <1>1, <2>1, <2>4, <3>1, <3>2, Advanced
  <2>5. QED  BY <1>4, <2>2, <2>3, <2>4 DEF AfterOrder
<1>5. QED
  BY <1>3, <1>4 DEF PlaceOrderBinance, PostOrder, Post

LEMMA BybitOrderStep ==
  ASSUME IInv, PlaceOrderBybit, UNCHANGED exchange
  PROVE  IInv'
<1> DEFINE o == BybitOrder(desk.req)
<1> USE DEF IInv, DeskInv
<1>1. desk.n > 0
  BY DEF PlaceOrderBybit, DeskType, At
<1>2. Sound(o) /\ o.id = desk.n
  BY DEF PlaceOrderBybit, RequestType, At, BybitOrder, Sound
<1>3. CASE Fail /\ UNCHANGED <<mode, pos, legs, book, placed>>
  BY <1>1, <1>3, Failed
<1>4. CASE /\ PlaceLimit(o) \/ (Accepts(o) /\ PlaceMarket(o))
           /\ placed' = placed \cup {desk.n}
           /\ Answer("placed") \/ Fail
  <2>1. /\ AccountInv'
        /\ placed \subseteq placed' /\ placed' \subseteq 1..MaxRequests /\ desk.n \in placed'
    BY <1>1, <1>2, <1>4, OrderTaken
  <2>2. QED  BY <1>1, <1>4, <2>1, Answered DEF Fail, Answers
<1>5. QED
  BY <1>3, <1>4 DEF PlaceOrderBybit, PostOrder, Post

\* A leg is one of the order at the desk, which was taken, or a trailing stop.
LEMMA LegPlaced ==
  ASSUME IInv, NEW kind \in {"sl", "tp", "trail"}, PlaceLeg(kind), Sound(desk.order),
         kind # "trail" => desk.order.id \in placed
  PROVE  AccountInv'
<1> USE DEF IInv, AccountInv
<1>1. legs' = legs \cup {BinanceLeg(desk.order, kind)} /\ UNCHANGED <<mode, pos, book, placed>>
  BY DEF PlaceLeg
<1>2. /\ Sound(BinanceLeg(desk.order, kind))
      /\ BinanceLeg(desk.order, kind).id = desk.order.id
      /\ BinanceLeg(desk.order, kind).kind = kind
  BY RoundedType DEF BinanceLeg, Sound, Opposite, Sides
<1>3. AccountTypeOK'
  BY <1>1, <1>2 DEF AccountTypeOK, Sound
<1>4. Entries'
  BY <1>1, <1>2 DEF Entries, LegsAfterEntry
<1>5. QED  BY <1>3, <1>4

\* A leg that is placed or refused leads on to the take profit or to the answer.
LEMMA LegStep ==
  ASSUME IInv, PlaceAlgoStop, UNCHANGED exchange
  PROVE  IInv'
<1> USE DEF IInv, DeskInv
<1>1. /\ desk.n > 0 /\ DOMAIN desk = {"pc", "n", "req", "order"}
      /\ Sound(desk.order) /\ desk.order.id = desk.n /\ desk.n \in placed
  BY DEF PlaceAlgoStop, DeskType, RequestType, At
<1>2. AccountInv' /\ placed' = placed
  <2>1. CASE UNCHANGED <<mode, pos, legs, book, placed>>
    BY <2>1, AccountKept
  <2>2. CASE PlaceLeg("sl") \/ PlaceLeg("tp")
    BY <1>1, <2>2, LegPlaced DEF PlaceLeg
  <2>3. QED  BY <2>1, <2>2 DEF PlaceAlgoStop, Post
<1>3. Answer("placed") \/ (Goto("tp") /\ UNCHANGED answer)
  BY DEF PlaceAlgoStop, Post, AfterStopLoss
<1>4. CASE Answer("placed")
  BY <1>1, <1>2, <1>4, Answered DEF Answers, DeskType
<1>5. CASE Goto("tp") /\ UNCHANGED answer
  <2>1. /\ DOMAIN desk' = {"pc", "n", "req", "order"} /\ desk'.n = desk.n
        /\ desk'.pc = "tp" /\ desk'.order = desk.order
    BY <1>1, <1>5 DEF Goto
  <2>2. RequestType'
    BY <1>1, <1>2, <2>1 DEF RequestType, At, Sound
  <2>3. QED  BY <1>1, <1>2, <1>5, <2>1, <2>2, Advanced DEF DeskType
<1>6. QED  BY <1>3, <1>4, <1>5

LEMMA BinanceKeeps ==
  ASSUME IInv, BinanceStep, exchange = "binance", UNCHANGED exchange
  PROVE  IInv'
<1> USE DEF IInv, DeskInv
<1>1. DOMAIN desk = {"pc", "n", "req", "order"} /\ desk.n > 0
  BY DEF BinanceStep, PlaceOrderBinance, PlaceAlgoStop, ClosePositionBinance, CallbackRateBinance,
         TrailingSizeBinance, TrailingStopBinance, DeskType, At
<1>2. CASE PlaceOrderBinance
  BY <1>2, BinanceOrderStep
<1>3. CASE PlaceAlgoStop
  BY <1>3, LegStep
<1>4. CASE ClosePositionBinance
  BY <1>1, <1>4, CloseLookedUp, Queried DEF ClosePositionBinance, Query
<1>5. CASE CallbackRateBinance
  <2>1. CASE Fail
    BY <1>1, <1>5, <2>1, Queried DEF CallbackRateBinance, Query
  <2>2. CASE Goto("size") /\ UNCHANGED answer
    <3>1. /\ DOMAIN desk' = {"pc", "n", "req", "order"} /\ desk'.n = desk.n
          /\ desk'.pc = "size" /\ desk'.req = desk.req
      BY <1>1, <2>2 DEF Goto
    <3>2. RequestType'
      BY <1>5, <3>1 DEF RequestType, At, CallbackRateBinance
    <3>3. QED  BY <1>1, <1>5, <2>2, <3>1, <3>2, Queried DEF CallbackRateBinance, Query
  <2>3. QED  BY <1>5, <2>1, <2>2 DEF CallbackRateBinance, Query
<1>6. CASE TrailingSizeBinance
  <2> DEFINE r == desk.req
             o == [id |-> desk.n, symbol |-> r.symbol, side |-> r.side, qty |-> pos[r.symbol][r.side]]
  <2>1. CASE Fail
    BY <1>1, <1>6, <2>1, Queried DEF TrailingSizeBinance, Query
  <2>2. CASE GotoWith("trail", o) /\ UNCHANGED answer
    <3>1. /\ DOMAIN desk' = {"pc", "n", "req", "order"} /\ desk'.n = desk.n
          /\ desk'.pc = "trail" /\ desk'.req = desk.req /\ desk'.order = o
      BY <1>1, <2>2 DEF GotoWith
    <3>2. r.symbol \in Symbols /\ r.side \in Sides /\ pos[r.symbol][r.side] \in Nat
      BY <1>6, AccountAssumption DEF RequestType, At, TrailingSizeBinance, AccountInv, AccountTypeOK
    <3>3. RequestType'
      BY <3>1, <3>2 DEF RequestType, At, Sound
    <3>4. QED  BY <1>1, <1>6, <2>2, <3>1, <3>3, Queried DEF TrailingSizeBinance, Query
  <2>3. QED  BY <1>6, <2>1, <2>2 DEF TrailingSizeBinance, Query
<1>7. CASE TrailingStopBinance
  <2>1. AccountInv' /\ placed' = placed
    <3>1. CASE UNCHANGED <<mode, pos, legs, book, placed>>
      BY <3>1, AccountKept
    <3>2. CASE PlaceLeg("trail")
      BY <1>7, <3>2, LegPlaced DEF TrailingStopBinance, RequestType, At, PlaceLeg
    <3>3. QED  BY <1>7, <3>1, <3>2 DEF TrailingStopBinance, Post
  <2>2. Answer("trailing") \/ Fail
    BY <1>7 DEF TrailingStopBinance, Post
  <2>3. QED  BY <1>1, <2>1, <2>2, Answered DEF Answers, Fail, DeskType
<1>8. QED  BY <1>2, <1>3, <1>4, <1>5, <1>6, <1>7 DEF BinanceStep

LEMMA BybitKeeps ==
  ASSUME IInv, BybitStep, exchange # "binance", UNCHANGED exchange
  PROVE  IInv'
<1> USE DEF IInv, DeskInv
<1>1. DOMAIN desk = {"pc", "n", "req", "order"} /\ desk.n > 0
  BY DEF BybitStep, PlaceOrderBybit, ClosePositionBybit, ResolveTargetBybit, TrailingStopBybit,
         DeskType, At
<1>2. CASE PlaceOrderBybit
  BY <1>2, BybitOrderStep
<1>3. CASE ClosePositionBybit
  BY <1>1, <1>3, CloseLookedUp, Queried DEF ClosePositionBybit, Query
<1>4. CASE ResolveTargetBybit
  <2>1. CASE Fail
    BY <1>1, <1>4, <2>1, Queried DEF ResolveTargetBybit, Query
  <2>2. CASE Goto("trail") /\ UNCHANGED answer
    <3>1. /\ DOMAIN desk' = {"pc", "n", "req", "order"} /\ desk'.n = desk.n
          /\ desk'.pc = "trail" /\ desk'.req = desk.req
      BY <1>1, <2>2 DEF Goto
    <3>2. RequestType'
      BY <1>4, <3>1 DEF RequestType, At, ResolveTargetBybit
    <3>3. QED  BY <1>1, <1>4, <2>2, <3>1, <3>2, Queried DEF ResolveTargetBybit, Query
  <2>3. QED  BY <1>4, <2>1, <2>2 DEF ResolveTargetBybit, Query
<1>5. CASE TrailingStopBybit
  <2> DEFINE r == desk.req
             o == [id |-> desk.n, symbol |-> r.symbol, side |-> r.side, idx |-> r.side,
                   stops |-> {"trail"}]
  <2>1. AccountInv' /\ placed' = placed
    <3>1. CASE UNCHANGED <<mode, pos, legs, book, placed>>
      BY <3>1, AccountKept
    <3>2. CASE legs' = (legs \ Replaced(o)) \cup Attached(o) /\ UNCHANGED <<mode, pos, book, placed>>
      <4>1. r.symbol \in Symbols /\ r.side \in Sides
        BY <1>5 DEF TrailingStopBybit, RequestType, At
      <4>2. \A l \in Attached(o) : Sound(l) /\ l.kind = "trail"
        BY <4>1, AccountAssumption DEF Attached, Sound, Opposite, Sides
      <4>3. AccountTypeOK'
        BY <3>2, <4>2 DEF AccountInv, AccountTypeOK, Sound
      <4>4. Entries'
        BY <3>2, <4>2 DEF AccountInv, Entries, LegsAfterEntry
      <4>5. QED  BY <3>2, <4>3, <4>4 DEF AccountInv
    <3>3. QED  BY <1>5, <3>1, <3>2 DEF TrailingStopBybit, Post
  <2>2. Answer("trailing") \/ Fail
    BY <1>5 DEF TrailingStopBybit, Post
  <2>3. QED  BY <1>1, <2>1, <2>2, Answered DEF Answers, Fail, DeskType
<1>6. QED  BY <1>2, <1>3, <1>4, <1>5 DEF BybitStep

-----------------------------------------------------------------------------
(* The market *)

\* Fills, triggered legs and the trades of others take orders out of the book and add stops of
\* orders that were taken only.
LEMMA MarketStep ==
  ASSUME IInv, Market
  PROVE  IInv'
<1> USE DEF IInv, DeskInv, AccountInv
<1>1. ~At("start") /\ UNCHANGED <<exchange, desk, answer, placed>> /\ mode' = mode
  BY DEF Market, Fill, TriggerLeg, OtherTrade, PlaceMarket
<1>2. DeskInv'
  BY <1>1 DEF DeskType, RequestType, At, ToldMeansPlaced, Sound
<1>3. ASSUME NEW o, Sound(o), Accepts(o), Execute(o), book' \subseteq book,
             o.id \in placed \/ o.stops = {}
      PROVE  AccountInv'
  <2>1. AccountTypeOK' /\ \A l \in legs' : l \in legs \/ (l.id = o.id /\ l.kind \in o.stops)
    BY <1>1, <1>3, ExecuteType
  <2>2. Entries'
    BY <1>1, <1>3, <2>1 DEF Entries, LegsAfterEntry
  <2>3. QED  BY <2>1, <2>2
<1>4. CASE Fill
  <2>1. PICK o \in book : Accepts(o) /\ Execute(o) /\ book' = book \ {o}
    BY <1>4 DEF Fill
  <2>2. Sound(o) /\ o.id \in placed
    BY DEF AccountTypeOK, Sound, Entries
  <2>3. QED  BY <1>2, <1>3, <2>1, <2>2
<1>5. CASE TriggerLeg
  <2>1. PICK l \in legs :
          /\ IF Accepts(l)
             THEN /\ pos' = Traded(l)
                  /\ legs' = {k \in legs \ {l} : k.idx = "both" \/ Traded(l)[k.symbol][k.idx] > 0}
             ELSE legs' = legs \ {l} /\ UNCHANGED pos
          /\ UNCHANGED <<mode, book>>
    BY <1>5 DEF TriggerLeg
  <2>2. Sound(l)
    BY DEF AccountTypeOK, Sound
  <2>3. /\ pos' \in [Symbols -> [Sides -> 0..MaxQty]]
        /\ \A s \in Symbols : mode' = "oneway" => \E d \in Sides : pos'[s][d] = 0
    <3>1. CASE Accepts(l)
      BY <2>1, <2>2, <3>1, TradedType
    <3>2. CASE ~Accepts(l)
      BY <2>1, <3>2 DEF AccountTypeOK
    <3>3. QED  BY <3>1, <3>2
  <2>4. legs' \subseteq legs /\ book' = book
    BY <2>1
  <2>5. AccountTypeOK'
    BY <1>1, <2>3, <2>4 DEF AccountTypeOK
  <2>6. Entries'
    BY <1>1, <2>4 DEF Entries, LegsAfterEntry
  <2>7. QED  BY <1>2, <2>5, <2>6
<1>6. CASE OtherTrade
  <2>1. PICK s \in Symbols, d \in Sides, reduce \in BOOLEAN :
          LET o == [id |-> 0, symbol |-> s, side |-> d, qty |-> Step, reduce |-> reduce, stops |-> {},
                    idx |-> IF mode = "oneway" THEN "both" ELSE IF reduce THEN Opposite(d) ELSE d]
          IN Accepts(o) /\ PlaceMarket(o)
    BY <1>6 DEF OtherTrade
  <2> DEFINE o == [id |-> 0, symbol |-> s, side |-> d, qty |-> Step, reduce |-> reduce, stops |-> {},
                   idx |-> IF mode = "oneway" THEN "both" ELSE IF reduce THEN Opposite(d) ELSE d]
  <2>2. Accepts(o) /\ Execute(o) /\ book' = book
    BY <2>1 DEF PlaceMarket
  <2>3. Sound(o) /\ o.stops = {}
    BY AccountAssumption DEF Sound
  <2> HIDE DEF o
  <2>4. QED  BY <1>2, <1>3, <2>2, <2>3
<1>7. QED  BY <1>4, <1>5, <1>6 DEF Market

-----------------------------------------------------------------------------
(* The theorems *)

LEMMA NextIInv == IInv /\ [Next]_vars => IInv'
<1> SUFFICES ASSUME IInv, [Next]_vars PROVE IInv'
  OBVIOUS
<1>1. CASE UNCHANGED vars
  <2>1. UNCHANGED <<mode, pos, legs, book, exchange, desk, answer, placed>>
    BY <1>1 DEF vars
  <2>2. DeskInv'
    BY <2>1 DEF IInv, DeskInv, DeskType, RequestType, At, ToldMeansPlaced, Sound
  <2>3. QED  BY <2>1, <2>2, AccountKept DEF IInv
<1>2. CASE Adapter
  BY <1>2, BinanceKeeps, BybitKeeps DEF Adapter
<1>3. QED
  BY <1>1, <1>2, StartStep, TakeStep, CancelStep, MarketStep DEF Next

THEOREM InductiveInvariant == Spec => []IInv
  BY InitIInv, NextIInv, PTL DEF Spec

\* Positions stay within the margin, in one-way mode one side of a symbol is flat, and the desk
\* works on requests that have no answer yet (exchange.rs:60-130).
THEOREM TypeCorrect == Spec => []TypeOK
<1>1. IInv => TypeOK
  BY DEF IInv, DeskInv, AccountInv, DeskType, TypeOK
<1>2. QED  BY <1>1, InductiveInvariant, PTL

\* What is answered as placed was taken by the exchange, whichever adapter, however many legs
\* were refused and answers lost (binance/client.rs:264-330, bybit/client.rs).
THEOREM ToldIsPlaced == Spec => []ToldMeansPlaced
<1>1. IInv => ToldMeansPlaced
  BY DEF IInv, DeskInv
<1>2. QED  BY <1>1, InductiveInvariant, PTL

\* No stop loss or take profit waits at the exchange without its order
\* (binance/client.rs:273-330).
THEOREM LegsFollowEntry == Spec => []LegsAfterEntry
<1>1. IInv => LegsAfterEntry
  BY DEF IInv, AccountInv, Entries
<1>2. QED  BY <1>1, InductiveInvariant, PTL

\* A close order that is executed takes from the side the client named and from nothing else.
LEMMA CloseStep ==
  ASSUME IInv, Next, desk.req # Null, placed' # placed, desk.req.op = "close"
  PROVE  LET s == desk.req.symbol
             held == Opposite(desk.req.side)
         IN pos'[s][held] < pos[s][held] /\ pos' = [pos EXCEPT ![s] = [@ EXCEPT ![held] = pos'[s][held]]]
<1> DEFINE s == desk.req.symbol
           d == desk.req.side
           held == Opposite(desk.req.side)
<1> USE DEF IInv, DeskInv, AccountInv
<1>1. PICK o \in {BinanceOrder(desk.req), BybitOrder(desk.req)} :
        At("order") /\ Accepts(o) /\ Execute(o)
  <2>1. PlaceOrderBinance \/ PlaceOrderBybit
    BY DEF Next, EnsurePositionMode, EnsureOneWayMode, SwitchToHedgeMode, Take, CancelOrders, Post,
           Adapter, BinanceStep, BybitStep, Query, PlaceAlgoStop, PlaceLeg, ClosePositionBinance,
           CallbackRateBinance, TrailingSizeBinance, TrailingStopBinance, ClosePositionBybit,
           ResolveTargetBybit, TrailingStopBybit, Market
  <2>2. ~IsLimit
    BY DEF IsLimit
  <2>3. QED
    BY <2>1, <2>2 DEF PlaceOrderBinance, PlaceOrderBybit, PostOrder, Post, PlaceMarket
<1>2. /\ s \in Symbols /\ d \in Sides /\ held \in Sides /\ held # d /\ desk.req.qty \in Nat
      /\ Sides = {d, held}
  BY <1>1 DEF RequestType, At, Opposite, Sides
<1>3. /\ o.symbol = s /\ o.side = d /\ o.reduce = TRUE /\ o.idx # d /\ o.qty \in Nat
  <2>1. CASE o = BinanceOrder(desk.req)
    BY <1>2, <2>1, RoundedType DEF BinanceOrder, Sides
  <2>2. CASE o = BybitOrder(desk.req)
    BY <1>2, <2>2 DEF BybitOrder, PositionIdx
  <2>3. QED  BY <1>1, <2>1, <2>2
<1>4. /\ pos \in [Symbols -> [Sides -> 0..MaxQty]] /\ pos[s] \in [Sides -> 0..MaxQty]
      /\ pos[s][held] \in Nat /\ pos[s][d] \in Nat
  <2>1. pos \in [Symbols -> [Sides -> 0..MaxQty]] /\ pos[s] \in [Sides -> 0..MaxQty]
    BY <1>2 DEF AccountTypeOK
  <2>2. pos[s][held] \in 0..MaxQty /\ pos[s][d] \in 0..MaxQty
    BY <1>2, <2>1
  <2>3. QED  BY <2>1, <2>2, AccountAssumption
<1>5. Opens(o) = 0 /\ Closes(o) = Smaller(o.qty, pos[s][held])
  BY <1>3 DEF Opens, Closes
<1>6. Closes(o) > 0 /\ Closes(o) \in Nat
  BY <1>1, <1>3, <1>4, <1>5 DEF Accepts, Smaller
<1>7. pos' = [pos EXCEPT ![s][held] = pos[s][held] - Closes(o), ![s][d] = pos[s][d] + 0]
  BY <1>1, <1>3, <1>5 DEF Execute, Traded
<1>8. pos'[s][held] = pos[s][held] - Closes(o)
  BY <1>2, <1>4, <1>7
<1>9. pos' = [pos EXCEPT ![s] = [pos[s] EXCEPT ![held] = pos'[s][held]]]
  <2> DEFINE row == [pos[s] EXCEPT ![held] = pos[s][held] - Closes(o)]
  <2>1. pos' = [pos EXCEPT ![s] = [pos[s] EXCEPT ![held] = pos[s][held] - Closes(o),
                                                ![d] = pos[s][d] + 0]]
    BY <1>2, <1>4, <1>7
  <2>2. pos[s][d] + 0 = pos[s][d]
    BY <1>4
  <2>3. [pos[s] EXCEPT ![held] = pos[s][held] - Closes(o), ![d] = pos[s][d] + 0] = row
    BY <1>2, <1>4, <2>2
  <2>4. QED  BY <1>8, <2>1, <2>3
<1>10. QED  BY <1>4, <1>6, <1>8, <1>9

\* Closing never touches the other side of its symbol nor another symbol, on either exchange and
\* whatever happened since the position was looked up (binance/client.rs:450-476,
\* bybit/client.rs:352-386).
THEOREM CloseStaysOnSide == Spec => CloseTakesItsSide
<1> DEFINE A == desk.req # Null /\ placed' # placed /\ desk.req.op = "close" =>
                  LET s == desk.req.symbol
                      held == Opposite(desk.req.side)
                  IN pos'[s][held] < pos[s][held] /\ pos' = [pos EXCEPT ![s] = [@ EXCEPT ![held] = pos'[s][held]]]
<1>1. IInv /\ [Next]_vars => [A]_vars
  BY CloseStep
<1>2. QED  BY <1>1, InductiveInvariant, PTL DEF Spec, CloseTakesItsSide

=============================================================================
