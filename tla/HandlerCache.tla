----------------------------- MODULE HandlerCache ----------------------------
(***************************************************************************)
(* The caches of a session's ClientHandler                                 *)
(* (src/server/src/client_handler.rs).  Positions, open orders and the     *)
(* ticker of one symbol are kept for TTL ticks after their query has been  *)
(* answered.  What the exchange holds is a version number, raised by every *)
(* change: by this session's requests, and by fills, stops and other       *)
(* sessions, of which the handler hears nothing.                           *)
(***************************************************************************)
EXTENDS Integers

CONSTANTS Symbols,
          TTL,        \* ticks an entry is fresh: CACHE_TTL_MS
          Latency,    \* ticks a request may be under way
          MaxChanges, \* bound on the versions
          MaxTicks,   \* bound on the clock
          Null

ASSUME CacheAssumption == /\ TTL \in Nat \ {0}
                          /\ Latency \in Nat
                          /\ MaxChanges \in Nat
                          /\ MaxTicks \in Nat
                          /\ Null \notin Symbols
                          /\ Null \notin Int

Kinds == {"positions", "orders", "ticker"}
Reads == {"positions", "account", "orders", "symbol_orders", "ticker"}
Writes == {"place", "close", "cancel", "trail"}
Window == TTL + Latency - 1

VARIABLES now,       \* the clock, in ticks
          version,   \* the account and the market at the exchange now
          past,      \* past[i]: the version when the last tick but i came (history)
          told,      \* told[k]: the version made by the last confirmed change to kind k (history)
          cache,     \* cache[k]: an entry, or Null
          call,      \* the request at the exchange, or Null
          reply      \* the list or ticker sent by the last step, or Null

vars == <<now, version, past, told, cache, call, reply>>

\* The kind of list a query answers, and the kinds an order changes.
KindOf(op) == CASE op \in {"positions", "account"} -> "positions"
                [] op \in {"orders", "symbol_orders"} -> "orders"
                [] OTHER -> "ticker"
Changed(op) == CASE op \in {"place", "close"} -> {"positions", "orders"}
                 [] op = "cancel" -> {"orders"}
                 [] OTHER -> {}

\* The entries a successful request clears; a trailing stop clears none.
MutCleared(op) == IF op \in {"place", "close", "cancel"} THEN {"orders"} ELSE {}
Cleared(op) == CASE op \in {"place", "close"} -> {"orders", "positions"}
                 [] op = "cancel" -> {"orders"}
                 [] OTHER -> {}

Init ==
    /\ now = 0
    /\ version = 0
    /\ past = [i \in 0..Window |-> 0]
    /\ told = [k \in Kinds |-> 0]
    /\ cache = [k \in Kinds |-> Null]
    /\ call = Null
    /\ reply = Null

MutIsFresh(k) == cache[k] # Null /\ now - cache[k].fetched <= TTL
IsFresh(k) == cache[k] # Null /\ now - cache[k].fetched < TTL

\* An entry answers a query for all positions, all orders, or the ticker of its own symbol.
UseCache(op, s) == /\ IsFresh(KindOf(op))
                   /\ op # "symbol_orders"
                   /\ op = "ticker" => cache["ticker"].symbol = s

Sent(op, s, e) == [op |-> op, asked |-> s, entry |-> e,
                   floor |-> past[Window], told |-> told[KindOf(op)]]

\* A query is answered at once from the cache, or goes to the exchange like any other request.
Receive(op, s) ==
    /\ call = Null
    /\ IF op \in Reads /\ UseCache(op, s)
       THEN reply' = Sent(op, s, cache[KindOf(op)]) /\ UNCHANGED call
       ELSE call' = [op |-> op, symbol |-> s, ver |-> Null, late |-> 0] /\ reply' = Null
    /\ UNCHANGED <<now, version, past, told, cache>>

\* The exchange carries it out: a query sees the version of that moment.
AtExchange ==
    /\ call # Null /\ call.ver = Null
    /\ IF call.op \in Writes
       THEN version < MaxChanges /\ version' = version + 1
       ELSE UNCHANGED version
    /\ call' = [call EXCEPT !.ver = version']
    /\ reply' = Null
    /\ UNCHANGED <<now, past, told, cache>>

\* CachedData::new: what the request c read of version v, or an empty list where it read nothing.
Entry(c, v, read) == [ver |-> v, read |-> read, symbol |-> c.symbol, fetched |-> now]

\* The orders of one symbol are passed on and not kept.
MutStored(op, e) == [cache EXCEPT ![KindOf(op)] = e]
Stored(op, e) == IF op = "symbol_orders" THEN cache ELSE [cache EXCEPT ![KindOf(op)] = e]

\* The answer of a query arrives, is stored as of now, and is passed on.
QueryAnswered ==
    /\ call # Null /\ call.op \in Reads /\ call.ver # Null
    /\ LET e == Entry(call, call.ver, TRUE)
       IN /\ cache' = Stored(call.op, e)
          /\ reply' = Sent(call.op, call.symbol, e)
    /\ call' = Null
    /\ UNCHANGED <<now, version, past, told>>

\* A change is confirmed to the client; the entries it makes out of date go.
ChangeAnswered ==
    /\ call # Null /\ call.op \in Writes /\ call.ver # Null
    /\ cache' = [k \in Kinds |-> IF k \in Cleared(call.op) THEN Null ELSE cache[k]]
    /\ told' = [k \in Kinds |-> IF k \in Changed(call.op) THEN call.ver ELSE told[k]]
    /\ call' = Null
    /\ reply' = Null
    /\ UNCHANGED <<now, version, past>>

\* An error, also for a change that was carried out: the caches stay as they are.
RequestFails ==
    /\ call # Null /\ call.op # "account"
    /\ call' = Null
    /\ reply' = Null
    /\ UNCHANGED <<now, version, past, told, cache>>

\* A failed query of the account's positions is stored and sent as an empty list, of now.
AccountFails ==
    /\ call # Null /\ call.op = "account"
    /\ LET e == Entry(call, version, FALSE)
       IN /\ cache' = Stored("account", e)
          /\ reply' = Sent("account", call.symbol, e)
    /\ call' = Null
    /\ UNCHANGED <<now, version, past, told>>

\* Fills, stops that fire, other sessions, trades: the handler is not told.
Outside ==
    /\ version < MaxChanges
    /\ version' = version + 1
    /\ reply' = Null
    /\ UNCHANGED <<now, past, told, cache, call>>

Tick ==
    /\ now < MaxTicks
    /\ call # Null => call.late < Latency
    /\ now' = now + 1
    /\ past' = [i \in 0..Window |-> IF i = 0 THEN version ELSE past[i - 1]]
    /\ call' = IF call = Null THEN Null ELSE [call EXCEPT !.late = @ + 1]
    /\ reply' = Null
    /\ UNCHANGED <<version, told, cache>>

OfSymbol == {"ticker", "symbol_orders"}

Next == \/ \E op \in OfSymbol, s \in Symbols : Receive(op, s)
        \/ \E op \in (Reads \cup Writes) \ OfSymbol : Receive(op, Null)
        \/ AtExchange \/ QueryAnswered \/ ChangeAnswered
        \/ RequestFails \/ AccountFails
        \/ Outside \/ Tick

Spec == Init /\ [][Next]_vars

-----------------------------------------------------------------------------
(* Properties. *)

Entries == [ver : Nat, read : BOOLEAN, symbol : Symbols \cup {Null}, fetched : 0..now]

\* Only the positions may stand for a query that failed, the lists kept are those of all symbols,
\* and the ticker is the one of a symbol.
Keepable(k, e) == (e.read \/ k = "positions") /\ (e.symbol = Null <=> k # "ticker")

\* Type invariant, with what the caches may hold.
TypeOK ==
    /\ now \in Nat
    /\ version \in Nat
    /\ past \in [0..Window -> Nat]
    /\ told \in [Kinds -> Nat]
    /\ cache \in [Kinds -> Entries \cup {Null}]
    /\ \A k \in Kinds : cache[k] # Null => Keepable(k, cache[k])
    /\ call \in {Null} \cup [op : Reads \cup Writes, symbol : Symbols \cup {Null},
                              ver : Nat \cup {Null}, late : 0..Latency]
    /\ reply \in {Null} \cup [op : Reads, asked : Symbols \cup {Null}, entry : Entries,
                               floor : Nat, told : Nat]

\* A list or ticker that was read and is sent after an order, a close or a cancel was confirmed
\* to the client shows it: no entry of before outlives the confirmation.  An empty list of
\* positions that could not be read shows nothing; the query that failed is one of after the
\* confirmation, too (client_handler.rs:55-56, 71, 88, 268-269, 339-341).
ReadsOwnChanges ==
    reply # Null => /\ reply.entry.read => reply.entry.ver >= reply.told
                    /\ ~reply.entry.read => /\ KindOf(reply.op) = "positions"
                                           /\ reply.entry.ver >= reply.told

\* What a client is sent is of what it asked for: a symbol, or all of them.  What was read was
\* true within the lifetime of an entry and the time of one request, and the empty list of a
\* query that failed is not sent for longer than the lifetime, however the caches were filled
\* and cleared (:22-27, 281-372).
ServedWithinLifetime ==
    reply # Null => /\ reply.entry.symbol = reply.asked
                    /\ reply.entry.read => reply.entry.ver >= reply.floor
                    /\ ~reply.entry.read => now - reply.entry.fetched < TTL
==============================================================================
