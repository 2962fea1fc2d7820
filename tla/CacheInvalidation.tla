--------------------------- MODULE CacheInvalidation ---------------------------
(***************************************************************************)
(* The second-level cache of the items, the requests that read and change  *)
(* items through it, and the listener that evicts an item when somebody    *)
(* else has changed its row.                                               *)
(*                                                                         *)
(* An item is its price: requests set all fields at once.  The cache       *)
(* itself is a library and stands here with the contract the application   *)
(* relies on: what a request puts is dropped if an eviction or an update   *)
(* of the item overlapped with the request.                                *)
(***************************************************************************)
EXTENDS Naturals, Sequences, SequencesExt

CONSTANTS
  Items,
  Prices,
  Clients,       \* the request threads of the application
  NoItem,        \* no row, no entry
  MaxTx          \* bounds the transactions that change items

ASSUME CacheAssumption == NoItem \notin Prices /\ MaxTx \in Nat

VARIABLES
  row,                \* the table item
  lastTx,             \* the last transaction id given by the database
  events,             \* the change events the listener has not handled
  listening,          \* the embedded engine runs
  cache,              \* the cache region of the entity Item
  knownTransactions,  \* the simple cache "tx-id-cache"
  expired,            \* the ids it has dropped after 60 seconds
  request             \* what each thread is doing

databaseVars == <<row, lastTx>>
listenerVars == <<events, listening>>
knownVars    == <<knownTransactions, expired>>
cacheVars    == <<databaseVars, listenerVars, cache, knownVars, request>>

Operation == {"CREATE", "UPDATE", "DELETE", "TOMBSTONE"}
Event     == [item: Items, op: Operation, tx: Nat, by: {"application", "other"}]

\* reading: the item is not cached; fetched: its row was read; loaded: find() has
\* returned; locked, written, registered, committed: a flush, its UPDATE, the
\* callback before completion, the commit.
Found == {"fetched", "loaded", "locked", "written", "registered", "committed"}
Idle == [phase |-> "idle"]
Request ==
  {Idle} \union
  [phase: {"reading"}, item: Items, price: {NoItem}, valid: BOOLEAN, tx: Nat] \union
  [phase: Found, item: Items, price: Prices, valid: BOOLEAN, tx: Nat]

At(c, i, phases) == request[c].phase \in phases /\ request[c].item = i

\* Who keeps others from filling the cache, and who from changing the row.
Locking(c, i)   == At(c, i, {"locked", "written", "registered", "committed"})
HoldsRow(c, i)  == At(c, i, {"written", "registered"})
Putting(c, i)   == Locking(c, i) \/ At(c, i, {"reading", "fetched"})

CacheInit ==
  /\ row \in [Items -> Prices]
  /\ lastTx = 0
  /\ events = <<>> /\ listening = TRUE
  /\ cache = [i \in Items |-> NoItem]
  /\ knownTransactions = {} /\ expired = {}
  /\ request = [c \in Clients |-> Idle]

-------------------------------------------------------------------------------
\* The cache region.

\* Whoever is about to put an item that is invalidated will not.
Invalidated(i) ==
  [c \in Clients |->
     IF Putting(c, i) THEN [request[c] EXCEPT !.valid = FALSE] ELSE request[c]]

Evict(i) ==
  /\ cache' = [cache EXCEPT ![i] = NoItem]
  /\ request' = Invalidated(i)

Put(c) ==
  LET r == request[c] IN
  cache' = IF r.valid THEN [cache EXCEPT ![r.item] = r.price] ELSE cache

-------------------------------------------------------------------------------
\* find(Item.class, id), by which PUT /items/{id} and POST /orders begin.
FindCached(c, i) ==
  /\ request[c] = Idle
  /\ cache[i] # NoItem
  /\ request' = [request EXCEPT ![c] =
       [phase |-> "loaded", item |-> i, price |-> cache[i], valid |-> FALSE, tx |-> 0]]
  /\ UNCHANGED <<databaseVars, listenerVars, cache, knownVars>>

FindMissing(c, i) ==
  /\ request[c] = Idle
  /\ cache[i] = NoItem
  /\ request' = [request EXCEPT ![c] =
       [phase |-> "reading", item |-> i, price |-> NoItem,
        valid |-> \A d \in Clients : ~ Locking(d, i), tx |-> 0]]
  /\ UNCHANGED <<databaseVars, listenerVars, cache, knownVars>>

\* The SELECT; without a row the request ends with an error.
Fetch(c) ==
  /\ request[c].phase = "reading"
  /\ LET i == request[c].item IN
     \/ /\ row[i] = NoItem
        /\ request' = [request EXCEPT ![c] = Idle]
     \/ /\ row[i] # NoItem
        /\ request' = [request EXCEPT ![c].phase = "fetched", ![c].price = row[i]]
  /\ UNCHANGED <<databaseVars, listenerVars, cache, knownVars>>

Fill(c) ==
  /\ request[c].phase = "fetched"
  /\ Put(c)
  /\ request' = [request EXCEPT ![c].phase = "loaded", ![c].valid = FALSE]
  /\ UNCHANGED <<databaseVars, listenerVars, knownVars>>

\* A request that changes no item: an order, or an update to what the item is
\* already, for which nothing is flushed.
Finish(c) ==
  /\ request[c].phase = "loaded"
  /\ request' = [request EXCEPT ![c] = Idle]
  /\ UNCHANGED <<databaseVars, listenerVars, cache, knownVars>>

-------------------------------------------------------------------------------
\* PUT /items/{id}: the flush locks the item in the cache, issues the UPDATE and
\* registers the transaction; then it is committed, and the item is put.
Flush(c, price) ==
  /\ request[c].phase = "loaded" /\ price # request[c].price
  /\ LET i == request[c].item IN
     /\ cache' = [cache EXCEPT ![i] = NoItem]
     /\ request' = [Invalidated(i) EXCEPT
          ![c].phase = "locked", ![c].price = price,
          ![c].valid = \A d \in Clients : ~ Locking(d, i)]
  /\ UNCHANGED <<databaseVars, listenerVars, knownVars>>

\* The UPDATE waits for the lock of the row; without a row the flush fails.
Write(c) ==
  /\ request[c].phase = "locked"
  /\ LET i == request[c].item IN
     /\ \A d \in Clients : ~ HoldsRow(d, i)
     /\ \/ /\ row[i] # NoItem
           /\ lastTx < MaxTx /\ lastTx' = lastTx + 1
           /\ request' = [request EXCEPT ![c].phase = "written", ![c].tx = lastTx']
        \/ /\ row[i] = NoItem
           /\ request' = [request EXCEPT ![c] = Idle]
           /\ UNCHANGED lastTx
  /\ UNCHANGED <<row, listenerVars, cache, knownVars>>

\* Mutants: the callback registers nothing; it registers the id that comes next.
OnFlushUnregistered(c) ==
  /\ request[c].phase = "written"
  /\ request' = [request EXCEPT ![c].phase = "registered"]
  /\ UNCHANGED <<databaseVars, listenerVars, cache, knownVars>>

OnFlushNextId(c) ==
  /\ request[c].phase = "written"
  /\ knownTransactions' = knownTransactions \union {request[c].tx + 1}
  /\ request' = [request EXCEPT ![c].phase = "registered"]
  /\ UNCHANGED <<databaseVars, listenerVars, cache, expired>>

\* onFlush(): the callback before the completion of the transaction.
OnFlush(c) ==
  /\ request[c].phase = "written"
  /\ knownTransactions' = knownTransactions \union {request[c].tx}
  /\ request' = [request EXCEPT ![c].phase = "registered"]
  /\ UNCHANGED <<databaseVars, listenerVars, cache, expired>>

Commit(c) ==
  /\ request[c].phase = "registered"
  /\ LET r == request[c] IN
     /\ row' = [row EXCEPT ![r.item] = r.price]
     /\ events' = Append(events,
          [item |-> r.item, op |-> "UPDATE", tx |-> r.tx, by |-> "application"])
  /\ request' = [request EXCEPT ![c].phase = "committed"]
  /\ UNCHANGED <<lastTx, listening, cache, knownVars>>

Complete(c) ==
  /\ request[c].phase = "committed"
  /\ Put(c)
  /\ request' = [request EXCEPT ![c] = Idle]
  /\ UNCHANGED <<databaseVars, listenerVars, knownVars>>

\* The database rolls the transaction back: a lost connection, a timeout.
RollBack(c) ==
  /\ request[c].phase \in {"locked", "written", "registered"}
  /\ request' = [request EXCEPT ![c] = Idle]
  /\ UNCHANGED <<databaseVars, listenerVars, cache, knownVars>>

-------------------------------------------------------------------------------
\* KnownTransactions: lifespan of 60 seconds.
Expire(tx) ==
  /\ tx \in knownTransactions
  /\ knownTransactions' = knownTransactions \ {tx}
  /\ expired' = expired \union {tx}
  /\ UNCHANGED <<databaseVars, listenerVars, cache, request>>

\* DELETE /cache/item/{id}
InvalidateItemCacheEntry(i) ==
  /\ cache[i] # NoItem
  /\ Evict(i)
  /\ UNCHANGED <<databaseVars, listenerVars, knownVars>>

\* A statement of another client of the database; a deletion is followed by a
\* tombstone in the stream of events.
ChangeByOther(i, price) ==
  /\ price # row[i]
  /\ \A d \in Clients : ~ HoldsRow(d, i)
  /\ lastTx < MaxTx /\ lastTx' = lastTx + 1
  /\ row' = [row EXCEPT ![i] = price]
  /\ LET event(op) == [item |-> i, op |-> op, tx |-> lastTx', by |-> "other"] IN
     events' = events \o
       CASE price = NoItem  -> <<event("DELETE"), event("TOMBSTONE")>>
         [] row[i] = NoItem -> <<event("CREATE")>>
         [] OTHER           -> <<event("UPDATE")>>
  /\ UNCHANGED <<listening, cache, knownVars, request>>

-------------------------------------------------------------------------------
\* Mutant: only updates evict.
EvictedOnUpdate(e) == e.tx \notin knownTransactions /\ e.op = "UPDATE"

Evicted(e) == e.tx \notin knownTransactions /\ e.op \in {"UPDATE", "DELETE"}

\* The handler throws for the value of a tombstone, which is null, and the engine
\* stops.
HandleTombstone ==
  /\ listening /\ events # <<>>
  /\ Head(events).op = "TOMBSTONE"
  /\ listening' = FALSE
  /\ UNCHANGED <<databaseVars, events, cache, knownVars, request>>

HandleDbChangeEvent ==
  /\ listening /\ events # <<>>
  /\ LET e == Head(events) IN
     /\ e.op # "TOMBSTONE"
     /\ \/ Evicted(e) /\ Evict(e.item)
        \/ ~ Evicted(e) /\ UNCHANGED <<cache, request>>
  /\ events' = Tail(events)
  /\ UNCHANGED <<databaseVars, listening, knownVars>>

Listen == HandleDbChangeEvent \/ HandleTombstone

Serve(c) ==
  \/ \E i \in Items : FindCached(c, i) \/ FindMissing(c, i)
  \/ Fetch(c) \/ Fill(c) \/ Finish(c)
  \/ \E price \in Prices : Flush(c, price)
  \/ Write(c) \/ OnFlush(c) \/ Commit(c) \/ Complete(c) \/ RollBack(c)

CacheNext ==
  \/ \E c \in Clients : Serve(c)
  \/ \E i \in Items, price \in Prices \union {NoItem} : ChangeByOther(i, price)
  \/ \E i \in Items : InvalidateItemCacheEntry(i)
  \/ \E tx \in knownTransactions : Expire(tx)
  \/ Listen

CacheSafety == CacheInit /\ [][CacheNext]_cacheVars

\* The engine's thread handles what the connector gives it; nothing is assumed of
\* the requests, or of the other clients of the database.
CacheSpec == CacheSafety /\ WF_cacheVars(Listen)

(***************************************************************************)
(* Properties.                                                             *)
(***************************************************************************)
CacheTypeOK ==
  /\ row \in [Items -> Prices \union {NoItem}]
  /\ lastTx \in Nat
  /\ events \in Seq(Event)
  /\ listening \in BOOLEAN
  /\ cache \in [Items -> Prices \union {NoItem}]
  /\ knownTransactions \subseteq 1..lastTx /\ expired \subseteq 1..lastTx
  /\ request \in [Clients -> Request]

\* An event that will evict the item is on its way.
EvictionPending(i) ==
  \E n \in DOMAIN events :
    /\ events[n].item = i /\ events[n].by = "other"
    /\ events[n].op \in {"UPDATE", "DELETE"}

Stale(i) == cache[i] # NoItem /\ cache[i] # row[i]

\* An item is stale in the cache only until the event of the change that made it
\* so is handled: neither a read, nor an update of the application, nor a put
\* that began before the change leaves it stale for good.
StaleOnlyWhileEventPending == \A i \in Items : Stale(i) => EvictionPending(i)

\* The id of a transaction of the application is known before its first event is
\* there, and until it expires: its own updates do not empty the cache.
OwnEventsAreKnown ==
  \A n \in DOMAIN events :
    events[n].by = "application" => events[n].tx \in knownTransactions \union expired

\* Every item that is stale is evicted or put anew (DatabaseChangeEventListener:
\* "that Item will be removed from the JPA 2nd-level cache").
StaleItemsAreEvicted == \A i \in Items : Stale(i) ~> ~ Stale(i)

\* The only thing that keeps a stale item in the cache is a listener that has
\* stopped at a tombstone.
StaleUntilHandled == \A i \in Items : Stale(i) ~> (~ Stale(i) \/ ~ listening)

-------------------------------------------------------------------------------
(***************************************************************************)
(* The invariant by which they hold.                                       *)
(***************************************************************************)
\* Who locks an item is the only one whose put will count, if any will.
PutsExclude ==
  \A c, d \in Clients, i \in Items :
    c # d /\ Locking(c, i) /\ Putting(d, i) => ~ request[d].valid

LockedIsNotCached ==
  \A c \in Clients, i \in Items : Locking(c, i) => cache[i] = NoItem

\* A value that will be put is current, or an eviction will follow it.
PutsAreFollowed ==
  \A c \in Clients, i \in Items :
    At(c, i, {"fetched", "committed"}) /\ request[c].valid /\ request[c].price # row[i]
      => EvictionPending(i)

OwnIdsAreKnown ==
  \A c \in Clients :
    request[c].phase \in {"registered", "committed"} =>
      request[c].tx \in knownTransactions \union expired

\* Ids are not given twice.
OthersAreUnknown ==
  \A n \in DOMAIN events :
    events[n].by = "other" =>
      /\ events[n].tx \in 1..lastTx
      /\ events[n].tx \notin knownTransactions
      /\ \A c \in Clients : request[c].phase = "written" => request[c].tx # events[n].tx

WrittenHasId ==
  \A c \in Clients :
    request[c].phase \in {"written", "registered", "committed"} => request[c].tx \in 1..lastTx

CacheInv ==
  /\ CacheTypeOK /\ PutsExclude /\ LockedIsNotCached /\ PutsAreFollowed
  /\ OwnIdsAreKnown /\ OwnEventsAreKnown /\ OthersAreUnknown /\ WrittenHasId
  /\ StaleOnlyWhileEventPending

===============================================================================
