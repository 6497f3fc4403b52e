-------------------------- MODULE HandlerCacheProofs --------------------------
(* Theorems about HandlerCache for every set of symbols, lifetime, latency   *)
(* of a request and number of changes.                                       *)
EXTENDS HandlerCache, TLAPS

\* Every version the session deals in was the one of the exchange at some time: confirmed
\* changes and the versions of former ticks are not ahead of it.
PastIsPast ==
    /\ \A k \in Kinds : told[k] <= version
    /\ \A i \in 0..Window : past[i] <= version
    /\ \A i, j \in 0..Window : i <= j => past[j] <= past[i]

\* An answer under way, and an entry that is kept, are as new as the last confirmed change ...
NoOlderThanTold ==
    /\ call # Null /\ call.ver # Null =>
          call.ver <= version /\ \A k \in Kinds : told[k] <= call.ver
    /\ \A k \in Kinds : cache[k] # Null => told[k] <= cache[k].ver

\* ... and as their age allows.
Age(e) == now - e.fetched
NoOlderThanAge ==
    /\ call # Null /\ call.ver # Null => past[call.late] <= call.ver
    /\ \A k \in Kinds : cache[k] # Null /\ Age(cache[k]) < TTL =>
          past[Age(cache[k]) + Latency] <= cache[k].ver

\* Only the queries of one symbol carry one.
Asks(op, s) == IF op \in OfSymbol THEN s \in Symbols ELSE s = Null
AsksRight == call # Null => Asks(call.op, call.symbol)

IInv == /\ TypeOK /\ AsksRight
        /\ PastIsPast /\ NoOlderThanTold /\ NoOlderThanAge
        /\ ReadsOwnChanges /\ ServedWithinLifetime

-----------------------------------------------------------------------------
\* The window of remembered versions covers a request and the life of an entry.
LEMMA WindowType ==
  /\ Window \in Nat /\ Latency \in 0..Window /\ TTL \in Nat \ {0}
  /\ \A a \in Nat : a < TTL => a + Latency \in 0..Window
  BY CacheAssumption DEF Window

\* Every request asks for one of the kinds of list.
LEMMA KindType == \A op : KindOf(op) \in Kinds
  BY DEF KindOf, Kinds

\* Null is no entry, no request and no version.
LEMMA NullIsNone ==
  /\ Null \notin Nat
  /\ Null \notin Symbols
  BY CacheAssumption

LEMMA InitIInv == Init => IInv
<1> SUFFICES ASSUME Init PROVE IInv  OBVIOUS
<1>1. TypeOK  BY WindowType DEF Init, TypeOK
<1>2. QED  BY <1>1 DEF Init, IInv, AsksRight, PastIsPast, NoOlderThanTold, NoOlderThanAge,
                       ReadsOwnChanges, ServedWithinLifetime

\* Confirmed changes touch no kind whose entry the handler keeps.
LEMMA ChangedIsCleared == \A op : Changed(op) \subseteq Cleared(op)
  BY DEF Changed, Cleared

\* What is sent from a well-typed entry is a well-typed reply.
LEMMA SentType ==
  ASSUME TypeOK, NEW op \in Reads, NEW s \in Symbols \cup {Null}, NEW e \in Entries
  PROVE  Sent(op, s, e) \in [op : Reads, asked : Symbols \cup {Null}, entry : Entries,
                             floor : Nat, told : Nat]
  BY WindowType, KindType DEF Sent, TypeOK

\* The age of an entry is the time since it was fetched.
LEMMA AgeType ==
  ASSUME TypeOK, NEW k \in Kinds, cache[k] # Null
  PROVE  /\ cache[k] \in Entries /\ Keepable(k, cache[k])
         /\ cache[k].fetched \in Nat /\ cache[k].ver \in Nat
         /\ Age(cache[k]) \in Nat
<1>1. cache[k] \in Entries /\ Keepable(k, cache[k])  BY DEF TypeOK
<1>2. now \in Nat  BY DEF TypeOK
<1>3. QED  BY <1>1, <1>2 DEF Entries, Age

\* An answer that is as new as its age allows is as new as the oldest version remembered.
LEMMA WithinWindow ==
  ASSUME IInv, NEW i \in 0..Window
  PROVE  past[Window] <= past[i]
  BY WindowType DEF IInv, PastIsPast

-----------------------------------------------------------------------------
(* The invariant holds after every step, one lemma for each kind of step. *)

LEMMA ReceiveIInv ==
  ASSUME IInv, NEW op \in Reads \cup Writes, NEW s, Asks(op, s), Receive(op, s)
  PROVE  IInv'
<1> USE DEF IInv
<1>0. s \in Symbols \cup {Null}  BY DEF Asks
<1>1. CASE op \in Reads /\ UseCache(op, s)
  <2> DEFINE k == KindOf(op)
             e == cache[k]
  <2>1. reply' = Sent(op, s, e) /\ UNCHANGED <<now, version, past, told, cache, call>>
    BY <1>1 DEF Receive
  <2>2. k \in Kinds  BY KindType
  <2>3. e # Null /\ now - e.fetched < TTL
    BY <1>1 DEF UseCache, IsFresh
  <2>4. /\ e \in Entries /\ Keepable(k, e) /\ e.fetched \in Nat /\ e.ver \in Nat
        /\ Age(e) \in Nat /\ Age(e) < TTL
    BY <2>2, <2>3, AgeType DEF Age
  <2>5. TypeOK'
    <3>1. Sent(op, s, e) \in [op : Reads, asked : Symbols \cup {Null}, entry : Entries,
                              floor : Nat, told : Nat]
      BY <1>0, <1>1, <2>4, SentType
    <3>2. Entries' = Entries  BY <2>1 DEF Entries
    <3> HIDE DEF k, e
    <3>3. QED  BY <2>1, <3>1, <3>2 DEF TypeOK
  <2>6. PastIsPast' /\ NoOlderThanTold' /\ NoOlderThanAge' /\ AsksRight'
    BY <2>1 DEF AsksRight, PastIsPast, NoOlderThanTold, NoOlderThanAge, Age
  <2>7. told[k] <= e.ver /\ past[Window] <= e.ver
    <3>1. Age(e) + Latency \in 0..Window  BY <2>4, WindowType
    <3>2. past[Age(e) + Latency] <= e.ver /\ told[k] <= e.ver
      BY <2>2, <2>3, <2>4 DEF NoOlderThanAge, NoOlderThanTold
    <3>3. past[Window] <= past[Age(e) + Latency]  BY <3>1, WithinWindow
    <3>4. past[Window] \in Nat /\ past[Age(e) + Latency] \in Nat
      BY <3>1, WindowType DEF TypeOK
    <3>5. QED  BY <2>4, <3>2, <3>3, <3>4
  <2>8. e.symbol = s
    <3>1. CASE op = "ticker"  BY <1>1, <3>1 DEF UseCache, KindOf
    <3>2. CASE op # "ticker"
      <4>1. op # "symbol_orders"  BY <1>1 DEF UseCache
      <4>2. s = Null  BY <3>2, <4>1 DEF Asks, OfSymbol
      <4>3. k # "ticker"  BY <1>1, <3>2 DEF KindOf, Reads
      <4>4. QED  BY <2>4, <4>2, <4>3 DEF Keepable
    <3>3. QED  BY <3>1, <3>2
  <2>9. ~e.read => k = "positions"  BY <2>4 DEF Keepable
  <2>10. /\ reply'.entry = e /\ reply'.asked = s /\ reply'.op = op
         /\ reply'.floor = past[Window] /\ reply'.told = told[k] /\ now' = now
    BY <2>1 DEF Sent
  <2> HIDE DEF k, e
  <2>11. KindOf(op) = k  BY DEF k
  <2>12. ReadsOwnChanges' /\ ServedWithinLifetime'
    BY <2>3, <2>7, <2>8, <2>9, <2>10, <2>11 DEF ReadsOwnChanges, ServedWithinLifetime
  <2>13. QED  BY <2>5, <2>6, <2>12
<1>2. CASE ~(op \in Reads /\ UseCache(op, s))
  <2>1. /\ call' = [op |-> op, symbol |-> s, ver |-> Null, late |-> 0] /\ reply' = Null
        /\ UNCHANGED <<now, version, past, told, cache>>
    BY <1>2 DEF Receive
  <2>2. Entries' = Entries  BY <2>1 DEF Entries
  <2>3. TypeOK' /\ AsksRight'
    BY <1>0, <2>1, <2>2, WindowType, CacheAssumption DEF TypeOK, AsksRight, Asks
  <2>4. QED  BY <2>1, <2>3 DEF PastIsPast, NoOlderThanTold, NoOlderThanAge, Age,
                               ReadsOwnChanges, ServedWithinLifetime
<1>3. QED  BY <1>1, <1>2

LEMMA AtExchangeIInv ==
  ASSUME IInv, AtExchange
  PROVE  IInv'
<1> USE DEF IInv
<1>1. /\ version' \in Nat /\ version <= version' /\ UNCHANGED <<now, past, told, cache>>
      /\ reply' = Null
  BY DEF AtExchange, TypeOK
<1>2. call # Null /\ call' = [call EXCEPT !.ver = version'] /\ call.late \in 0..Latency
  BY DEF AtExchange, TypeOK
<1>3. TypeOK'
  <2>1. Entries' = Entries  BY <1>1 DEF Entries
  <2>2. QED  BY <1>1, <1>2, <2>1 DEF TypeOK
<1>4. /\ call'.ver = version' /\ call'.late = call.late
      /\ call'.op = call.op /\ call'.symbol = call.symbol
  BY <1>2 DEF TypeOK
<1>5. PastIsPast'
  <2>1. \A k \in Kinds : told[k] <= version'  BY <1>1 DEF PastIsPast, TypeOK
  <2>2. \A i \in 0..Window : past[i] <= version'  BY <1>1 DEF PastIsPast, TypeOK
  <2>3. QED  BY <1>1, <2>1, <2>2 DEF PastIsPast
<1>6. call.late \in 0..Window  BY <1>2, WindowType
<1>7. NoOlderThanTold' /\ NoOlderThanAge'
  BY <1>1, <1>4, <1>5, <1>6 DEF NoOlderThanTold, NoOlderThanAge, Age, PastIsPast, TypeOK
<1>8. QED  BY <1>1, <1>2, <1>3, <1>4, <1>5, <1>7 DEF AsksRight, ReadsOwnChanges, ServedWithinLifetime

\* An answer of version v that is stored and sent.
LEMMA AnswerIInv ==
  ASSUME IInv, NEW op \in Reads, NEW e \in Entries, e.fetched = now, e.ver <= version,
         Asks(op, e.symbol), e.read \/ op = "account",
         \A k \in Kinds : told[k] <= e.ver, past[Latency] <= e.ver,
         cache' = Stored(op, e), reply' = Sent(op, e.symbol, e), call' = Null,
         UNCHANGED <<now, version, past, told>>
  PROVE  IInv'
<1> USE DEF IInv
<1>1. KindOf(op) \in Kinds /\ (op # "symbol_orders" => Keepable(KindOf(op), e))
  BY KindType, NullIsNone DEF Keepable, KindOf, Asks, OfSymbol, Reads
<1>2. e.symbol \in Symbols \cup {Null} /\ e.ver \in Nat  BY DEF Entries
<1>3. now \in Nat /\ Age(e) = 0  BY DEF Age, TypeOK
<1>4. \A k \in Kinds : \/ cache'[k] = cache[k]
                       \/ cache'[k] = e /\ Keepable(k, e)
  BY <1>1 DEF Stored, TypeOK
<1>5. TypeOK'
  <2>1. Entries' = Entries  BY DEF Entries
  <2>2. cache' \in [Kinds -> Entries \cup {Null}]  BY <1>1 DEF Stored, TypeOK
  <2>3. \A k \in Kinds : cache'[k] # Null => Keepable(k, cache'[k])
    BY <1>4 DEF TypeOK
  <2>4. reply' \in [op : Reads, asked : Symbols \cup {Null}, entry : Entries,
                    floor : Nat, told : Nat]
    BY <1>2, SentType
  <2>5. QED  BY <2>1, <2>2, <2>3, <2>4 DEF TypeOK
<1>6. PastIsPast' /\ NoOlderThanTold' /\ AsksRight'
  BY <1>4 DEF PastIsPast, NoOlderThanTold, AsksRight
<1>7. NoOlderThanAge'
  <2>1. ASSUME NEW k \in Kinds, cache'[k] # Null, Age(cache[k])' < TTL
        PROVE  past[Age(cache[k])' + Latency] <= cache'[k].ver
    <3>1. CASE cache'[k] = cache[k]
      BY <2>1, <3>1 DEF NoOlderThanAge, Age
    <3>2. CASE cache'[k] = e
      <4>1. Age(cache[k])' = 0  BY <1>3, <3>2 DEF Age
      <4>2. QED  BY <3>2, <4>1, WindowType
    <3>3. QED  BY <1>4, <3>1, <3>2
  <2>2. QED  BY <2>1 DEF NoOlderThanAge
<1>8. past[Window] <= e.ver
  BY <1>2, WithinWindow, WindowType DEF TypeOK
<1>9. ReadsOwnChanges' /\ ServedWithinLifetime'
  <2>1. told[KindOf(op)] <= e.ver  BY <1>1
  <2>2. ~e.read => KindOf(op) = "positions"  BY DEF KindOf
  <2>3. now - e.fetched < TTL  BY <1>3, WindowType DEF Age
  <2>4. /\ reply'.entry = e /\ reply'.asked = e.symbol /\ reply'.op = op
        /\ reply'.floor = past[Window] /\ reply'.told = told[KindOf(op)]
    BY DEF Sent
  <2>5. QED  BY <1>8, <2>1, <2>2, <2>3, <2>4 DEF ReadsOwnChanges, ServedWithinLifetime
<1>10. QED  BY <1>5, <1>6, <1>7, <1>9

LEMMA QueryAnsweredIInv ==
  ASSUME IInv, QueryAnswered
  PROVE  IInv'
<1> DEFINE e == Entry(call, call.ver, TRUE)
<1>1. /\ call # Null /\ call.op \in Reads /\ call.ver \in Nat /\ call.late \in 0..Latency
      /\ call.symbol \in Symbols \cup {Null} /\ now \in Nat
  BY NullIsNone DEF QueryAnswered, IInv, TypeOK
<1>2. /\ e \in Entries /\ e.fetched = now /\ e.ver = call.ver /\ e.symbol = call.symbol
      /\ e.read = TRUE
  BY <1>1 DEF Entry, Entries
<1>3. call.ver # Null  BY <1>1, NullIsNone
<1>4. e.ver <= version /\ \A k \in Kinds : told[k] <= e.ver
  BY <1>1, <1>2, <1>3 DEF IInv, NoOlderThanTold
<1>5. past[Latency] <= e.ver
  <2>1. past[call.late] <= call.ver  BY <1>1, <1>3 DEF IInv, NoOlderThanAge
  <2>2. past[Latency] <= past[call.late]
    BY <1>1, WindowType DEF IInv, PastIsPast
  <2>3. past[Latency] \in Nat /\ past[call.late] \in Nat
    BY <1>1, WindowType DEF IInv, TypeOK
  <2>4. past[Latency] <= call.ver  BY <1>1, <2>1, <2>2, <2>3
  <2>5. QED  BY <1>2, <2>4
<1>6. Asks(call.op, e.symbol)  BY <1>1, <1>2 DEF IInv, AsksRight
<1>7. /\ cache' = Stored(call.op, e) /\ reply' = Sent(call.op, e.symbol, e) /\ call' = Null
      /\ UNCHANGED <<now, version, past, told>>
  BY <1>2 DEF QueryAnswered
<1> HIDE DEF e
<1>8. QED  BY <1>1, <1>2, <1>4, <1>5, <1>6, <1>7, AnswerIInv

LEMMA AccountFailsIInv ==
  ASSUME IInv, AccountFails
  PROVE  IInv'
<1> DEFINE e == Entry(call, version, FALSE)
<1>1. call # Null /\ call.op = "account" /\ call.symbol \in Symbols \cup {Null}
  BY DEF AccountFails, IInv, TypeOK
<1>2. /\ e \in Entries /\ e.fetched = now /\ e.ver = version /\ e.symbol = call.symbol
  BY <1>1 DEF Entry, Entries, IInv, TypeOK
<1> HIDE DEF e
<1>3. \A k \in Kinds : told[k] <= e.ver  BY <1>2 DEF IInv, PastIsPast
<1>4. past[Latency] <= e.ver  BY <1>2, WindowType DEF IInv, PastIsPast
<1>5. e.ver <= version
  <2>1. version \in Nat  BY DEF IInv, TypeOK
  <2>2. QED  BY <1>2, <2>1
<1>6. Asks("account", e.symbol)  BY <1>1, <1>2 DEF IInv, AsksRight
<1>7. /\ cache' = Stored("account", e) /\ reply' = Sent("account", e.symbol, e)
      /\ call' = Null /\ UNCHANGED <<now, version, past, told>>
  BY <1>2 DEF AccountFails, e
<1>8. QED  BY <1>2, <1>3, <1>4, <1>5, <1>6, <1>7, AnswerIInv DEF Reads

LEMMA ChangeAnsweredIInv ==
  ASSUME IInv, ChangeAnswered
  PROVE  IInv'
<1> USE DEF IInv
<1>1. /\ call # Null /\ call.ver \in Nat /\ call.ver # Null /\ call' = Null /\ reply' = Null
      /\ UNCHANGED <<now, version, past>>
  BY NullIsNone DEF ChangeAnswered, TypeOK
<1>2. call.ver <= version /\ \A k \in Kinds : told[k] <= call.ver
  BY <1>1 DEF NoOlderThanTold
<1>3. told' \in [Kinds -> Nat] /\ \A k \in Kinds : told'[k] <= call.ver
  BY <1>1, <1>2 DEF ChangeAnswered, TypeOK
<1>4. \A k \in Kinds : cache'[k] \in {Null, cache[k]}  BY DEF ChangeAnswered, TypeOK
<1>5. TypeOK'
  <2>1. Entries' = Entries  BY <1>1 DEF Entries
  <2>2. cache' \in [Kinds -> Entries \cup {Null}]  BY DEF ChangeAnswered, TypeOK
  <2>3. QED  BY <1>1, <1>3, <1>4, <2>1, <2>2 DEF TypeOK
<1>6. \A k \in Kinds : cache'[k] # Null => cache'[k] = cache[k] /\ told'[k] = told[k]
  BY ChangedIsCleared DEF ChangeAnswered, TypeOK
<1>7. PastIsPast'
  <2>1. \A k \in Kinds : told'[k] <= version
    BY <1>1, <1>2, <1>3 DEF TypeOK
  <2>2. QED  BY <1>1, <2>1 DEF PastIsPast
<1>8. NoOlderThanTold' /\ NoOlderThanAge'
  BY <1>1, <1>6 DEF NoOlderThanTold, NoOlderThanAge, Age
<1>9. QED  BY <1>1, <1>5, <1>7, <1>8 DEF AsksRight, ReadsOwnChanges, ServedWithinLifetime

LEMMA TickIInv ==
  ASSUME IInv, Tick
  PROVE  IInv'
<1> USE DEF IInv
<1>1. UNCHANGED <<version, told, cache>> /\ reply' = Null /\ now' = now + 1 /\ now \in Nat
  BY DEF Tick, TypeOK
<1>2. past' = [i \in 0..Window |-> IF i = 0 THEN version ELSE past[i - 1]]  BY DEF Tick
<1>3. past' \in [0..Window -> Nat]  BY <1>2, WindowType DEF TypeOK
<1>4. Entries \subseteq Entries'  BY <1>1 DEF Entries
<1>5. call # Null => /\ call' = [call EXCEPT !.late = @ + 1]
                     /\ call.late \in 0..Latency /\ call.late + 1 \in 0..Latency
  BY WindowType DEF Tick, TypeOK
<1>6. call = Null => call' = Null  BY DEF Tick
<1>7. TypeOK'
  <2>1. cache' \in [Kinds -> Entries' \cup {Null}]  BY <1>1, <1>4 DEF TypeOK
  <2>2. \A k \in Kinds : cache'[k] # Null => Keepable(k, cache'[k])  BY <1>1 DEF TypeOK
  <2>3. /\ call' \in {Null} \cup [op : Reads \cup Writes, symbol : Symbols \cup {Null},
                                  ver : Nat \cup {Null}, late : 0..Latency]
        /\ reply' = Null
    BY <1>1, <1>5, <1>6 DEF TypeOK
  <2>4. now' \in Nat /\ version' \in Nat /\ told' \in [Kinds -> Nat]  BY <1>1 DEF TypeOK
  <2>5. QED  BY <1>3, <2>1, <2>2, <2>3, <2>4 DEF TypeOK
<1>8. PastIsPast'
  <2>1. \A i \in 0..Window : past'[i] <= version
    BY <1>2, WindowType DEF PastIsPast, TypeOK
  <2>2. ASSUME NEW i \in 0..Window, NEW j \in 0..Window, i <= j  PROVE past'[j] <= past'[i]
    <3>1. CASE i = 0  BY <3>1, <2>1, <1>2, WindowType
    <3>2. CASE i # 0
      <4>1. i - 1 \in 0..Window /\ j - 1 \in 0..Window /\ i - 1 <= j - 1 /\ j # 0
        BY <3>2, <2>2, WindowType
      <4>2. past[j - 1] <= past[i - 1]  BY <4>1 DEF PastIsPast
      <4>3. QED  BY <4>1, <4>2, <3>2, <1>2
    <3>3. QED  BY <3>1, <3>2
  <2>3. QED  BY <1>1, <2>1, <2>2 DEF PastIsPast
<1>9. \A i \in 0..Window : i + 1 \in 0..Window => past'[i + 1] = past[i]
  BY <1>2, WindowType
<1>10. call # Null => /\ call'.ver = call.ver /\ call'.late = call.late + 1
                      /\ call'.op = call.op /\ call'.symbol = call.symbol
  BY <1>5 DEF TypeOK
<1>11. NoOlderThanTold' /\ AsksRight'
  BY <1>1, <1>6, <1>10 DEF NoOlderThanTold, AsksRight
<1>12. ASSUME NEW k \in Kinds, cache[k] # Null, Age(cache[k])' < TTL
       PROVE  past'[Age(cache[k])' + Latency] <= cache[k].ver
  <2> DEFINE a == Age(cache[k])
  <2>1. a \in Nat /\ cache[k].fetched \in Nat  BY <1>12, AgeType
  <2>2. Age(cache[k])' = a + 1  BY <1>1, <2>1 DEF Age
  <2> HIDE DEF a
  <2>3. a < TTL /\ a + 1 < TTL /\ a + 1 \in Nat  BY <1>12, <2>1, <2>2, WindowType
  <2>4. a + Latency \in 0..Window /\ (a + 1) + Latency \in 0..Window
    BY <2>1, <2>3, WindowType
  <2>5. (a + 1) + Latency = (a + Latency) + 1  BY <2>1, WindowType
  <2>6. past[a + Latency] <= cache[k].ver  BY <1>12, <2>3 DEF NoOlderThanAge, a
  <2>7. past'[(a + 1) + Latency] = past[a + Latency]  BY <1>9, <2>4, <2>5
  <2>8. QED  BY <2>2, <2>6, <2>7
<1>13. call' # Null /\ call'.ver # Null => past'[call'.late] <= call'.ver
  <2>1. SUFFICES ASSUME call' # Null, call'.ver # Null  PROVE past'[call'.late] <= call'.ver
    OBVIOUS
  <2>2. call # Null /\ call'.ver = call.ver /\ call'.late = call.late + 1
    BY <2>1, <1>6, <1>10
  <2>3. past[call.late] <= call.ver  BY <2>1, <2>2 DEF NoOlderThanAge
  <2>4. past'[call.late + 1] = past[call.late]  BY <2>2, <1>5, <1>9, WindowType
  <2>5. QED  BY <2>2, <2>3, <2>4
<1>14. NoOlderThanAge'
  <2>1. \A k \in Kinds : cache'[k] = cache[k]  BY <1>1
  <2>2. QED  BY <1>12, <1>13, <2>1 DEF NoOlderThanAge, Age
<1>15. QED  BY <1>1, <1>7, <1>8, <1>11, <1>14 DEF ReadsOwnChanges, ServedWithinLifetime

\* Every step of the handler, the exchange and the clock keeps the invariant.
LEMMA NextIInv == IInv /\ [Next]_vars => IInv'
<1> SUFFICES ASSUME IInv, [Next]_vars  PROVE IInv'  OBVIOUS
<1>1. ASSUME NEW op \in OfSymbol, NEW s \in Symbols, Receive(op, s)  PROVE IInv'
  <2>1. op \in Reads \cup Writes /\ Asks(op, s)  BY DEF OfSymbol, Reads, Asks
  <2>2. QED  BY <1>1, <2>1, ReceiveIInv
<1>2. ASSUME NEW op \in (Reads \cup Writes) \ OfSymbol, Receive(op, Null)  PROVE IInv'
  <2>1. Asks(op, Null)  BY DEF Asks
  <2>2. QED  BY <1>2, <2>1, ReceiveIInv
<1>3. CASE AtExchange  BY <1>3, AtExchangeIInv
<1>4. CASE QueryAnswered  BY <1>4, QueryAnsweredIInv
<1>5. CASE ChangeAnswered  BY <1>5, ChangeAnsweredIInv
<1>6. CASE AccountFails  BY <1>6, AccountFailsIInv
<1>7. CASE RequestFails
  <2>1. call' = Null /\ reply' = Null /\ UNCHANGED <<now, version, past, told, cache>>
    BY <1>7 DEF RequestFails
  <2>2. Entries' = Entries  BY <2>1 DEF Entries
  <2>3. TypeOK'  BY <2>1, <2>2 DEF IInv, TypeOK
  <2>4. QED  BY <2>1, <2>3 DEF IInv, AsksRight, PastIsPast, NoOlderThanTold, NoOlderThanAge, Age,
                               ReadsOwnChanges, ServedWithinLifetime
<1>8. CASE Outside
  <2>1. /\ version' = version + 1 /\ reply' = Null
        /\ UNCHANGED <<now, past, told, cache, call>>
    BY <1>8 DEF Outside
  <2>2. Entries' = Entries  BY <2>1 DEF Entries
  <2>3. TypeOK'  BY <2>1, <2>2 DEF IInv, TypeOK
  <2>4. NoOlderThanTold' /\ PastIsPast'
    BY <2>1 DEF IInv, TypeOK, PastIsPast, NoOlderThanTold
  <2>5. QED  BY <2>1, <2>3, <2>4 DEF IInv, AsksRight, NoOlderThanAge, Age,
                                     ReadsOwnChanges, ServedWithinLifetime
<1>9. CASE Tick  BY <1>9, TickIInv
<1>10. CASE UNCHANGED vars
  <2>1. Entries' = Entries  BY <1>10 DEF vars, Entries
  <2>2. TypeOK'  BY <1>10, <2>1 DEF vars, IInv, TypeOK
  <2>3. QED  BY <1>10, <2>2 DEF vars, IInv, AsksRight, PastIsPast, NoOlderThanTold, NoOlderThanAge,
                                Age, ReadsOwnChanges, ServedWithinLifetime
<1>11. QED  BY <1>1, <1>2, <1>3, <1>4, <1>5, <1>6, <1>7, <1>8, <1>9, <1>10 DEF Next

-----------------------------------------------------------------------------
\* The caches, the request under way and what is sent are well typed; in particular the lists
\* kept are those of all symbols, and none but the positions ever stands for a query that failed
\* (client_handler.rs:319-322, 339-341).
THEOREM TypeCorrect == Spec => []TypeOK
<1>1. IInv => TypeOK  BY DEF IInv
<1>2. QED  BY <1>1, InitIInv, NextIInv, PTL DEF Spec

\* A list or ticker that was read shows every order, close and cancel confirmed to the client
\* before it was sent (client_handler.rs:55-56, 71, 88, 268-269), whatever else it queries
\* meanwhile; the empty list of a failed query shows nothing, and is not one of before either.
THEOREM OwnChangesRead == Spec => []ReadsOwnChanges
<1>1. IInv => ReadsOwnChanges  BY DEF IInv
<1>2. QED  BY <1>1, InitIInv, NextIInv, PTL DEF Spec

\* What was read is never sent when it was out of date for longer than the lifetime of an entry
\* and the time of one request, the empty list of a failed query not for longer than a lifetime,
\* and nothing is sent for another symbol than the one asked for (client_handler.rs:281-372).
THEOREM LifetimeKept == Spec => []ServedWithinLifetime
<1>1. IInv => ServedWithinLifetime  BY DEF IInv
<1>2. QED  BY <1>1, InitIInv, NextIInv, PTL DEF Spec
===============================================================================
