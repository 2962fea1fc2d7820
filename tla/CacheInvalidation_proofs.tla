------------------------ MODULE CacheInvalidation_proofs ------------------------
(***************************************************************************)
(* Proofs about CacheInvalidation, for any items, clients and transactions: *)
(* its types, and that an item is stale in the cache only while the event   *)
(* that will evict it is on its way.                                        *)
(***************************************************************************)
EXTENDS CacheInvalidation, TLAPS

-------------------------------------------------------------------------------
\* Events.

\* An event on its way stays on its way when others follow it.
LEMMA PendingAfterAppend ==
  ASSUME events \in Seq(Event), NEW s \in Seq(Event), events' = events \o s,
         NEW i, EvictionPending(i)
  PROVE  EvictionPending(i)'
<1>1. PICK n \in DOMAIN events :
        events[n].item = i /\ events[n].by = "other" /\ events[n].op \in {"UPDATE", "DELETE"}
  BY DEF EvictionPending
<1>2. n \in DOMAIN events' /\ events'[n] = events[n]
  BY <1>1
<1> QED
  BY <1>1, <1>2 DEF EvictionPending

\* It stays on its way when an event before it is handled.
LEMMA PendingAfterTail ==
  ASSUME events \in Seq(Event), events # <<>>, events' = Tail(events),
         NEW i, EvictionPending(i),
         ~ (/\ Head(events).item = i /\ Head(events).by = "other"
            /\ Head(events).op \in {"UPDATE", "DELETE"})
  PROVE  EvictionPending(i)'
<1>1. PICK n \in DOMAIN events :
        events[n].item = i /\ events[n].by = "other" /\ events[n].op \in {"UPDATE", "DELETE"}
  BY DEF EvictionPending
<1>2. n # 1
  BY <1>1
<1>3. n - 1 \in DOMAIN events' /\ events'[n - 1] = events[n]
  BY <1>1, <1>2
<1> QED
  BY <1>1, <1>3 DEF EvictionPending

LEMMA PendingUnchanged ==
  ASSUME UNCHANGED events, NEW i PROVE EvictionPending(i)' <=> EvictionPending(i)
BY DEF EvictionPending

-------------------------------------------------------------------------------
\* The invariant holds at the start.
LEMMA CacheInitInv == CacheInit => CacheInv
<1> SUFFICES ASSUME CacheInit PROVE CacheInv
  OBVIOUS
<1>1. CacheTypeOK
  BY DEF CacheInit, CacheTypeOK, Request
<1>2. \A c \in Clients : request[c].phase = "idle"
  BY DEF CacheInit, Idle
<1>3. PutsExclude /\ LockedIsNotCached /\ PutsAreFollowed /\ OwnIdsAreKnown /\ WrittenHasId
  BY <1>2 DEF PutsExclude, LockedIsNotCached, PutsAreFollowed, OwnIdsAreKnown, WrittenHasId,
              Locking, Putting, At
<1>4. OwnEventsAreKnown /\ OthersAreUnknown
  BY DEF CacheInit, OwnEventsAreKnown, OthersAreUnknown
<1>5. StaleOnlyWhileEventPending
  BY DEF CacheInit, StaleOnlyWhileEventPending, Stale
<1> QED
  BY <1>1, <1>3, <1>4, <1>5 DEF CacheInv

-------------------------------------------------------------------------------
\* A request that is under way.
BusyRequests ==
  {r \in [phase: Found \union {"reading"}, item: Items, price: Prices \union {NoItem},
          valid: BOOLEAN, tx: Nat] : r.price \in Prices <=> r.phase \in Found}

LEMMA BusyRequest ==
  ASSUME CacheTypeOK, NEW c \in Clients, request[c].phase # "idle"
  PROVE  request[c] \in BusyRequests
BY CacheAssumption DEF CacheTypeOK, Request, Idle, Found, BusyRequests

USE DEF BusyRequests

\* A request that lets go of the item, or only reads the cache (FindCached, Finish,
\* RollBack, Fetch and Write without a row): it will put nothing.
LEMMA LettingGoInv ==
  ASSUME CacheInv, NEW c \in Clients, NEW r \in Request, r.phase \in {"idle", "loaded"},
         request' = [request EXCEPT ![c] = r],
         UNCHANGED <<row, lastTx, events, listening, cache, knownTransactions, expired>>
  PROVE  CacheInv'
<1> USE DEF CacheInv
<1>1. CacheTypeOK'
  BY DEF CacheTypeOK
<1>2. (\A d \in Clients : d # c => request'[d] = request[d]) /\ request'[c] = r
  BY DEF CacheTypeOK
<1>3. \A j : EvictionPending(j)' <=> EvictionPending(j)
  BY PendingUnchanged
<1>4. PutsExclude' /\ LockedIsNotCached'
  BY <1>2 DEF PutsExclude, LockedIsNotCached, Locking, Putting, At
<1>5. PutsAreFollowed' /\ StaleOnlyWhileEventPending'
  BY <1>2, <1>3 DEF PutsAreFollowed, StaleOnlyWhileEventPending, Stale, At
<1>6. OwnIdsAreKnown' /\ OwnEventsAreKnown' /\ OthersAreUnknown' /\ WrittenHasId'
  BY <1>2 DEF OwnIdsAreKnown, OwnEventsAreKnown, OthersAreUnknown, WrittenHasId
<1> QED
  BY <1>1, <1>4, <1>5, <1>6

LEMMA FindInv ==
  ASSUME CacheInv, NEW c \in Clients, NEW i \in Items,
         FindCached(c, i) \/ FindMissing(c, i)
  PROVE  CacheInv'
<1>1. CASE FindCached(c, i)
  <2> DEFINE r == [phase |-> "loaded", item |-> i, price |-> cache[i], valid |-> FALSE, tx |-> 0]
  <2>1. r \in Request
    BY <1>1 DEF FindCached, CacheInv, CacheTypeOK, Request, Found
  <2>2. request' = [request EXCEPT ![c] = r]
    BY <1>1 DEF FindCached
  <2> QED
    BY <1>1, <2>1, <2>2, LettingGoInv DEF FindCached, databaseVars, listenerVars, knownVars
<1>2. CASE FindMissing(c, i)
  <2> USE DEF CacheInv
  <2> DEFINE free == \A d \in Clients : ~ Locking(d, i)
             r == [phase |-> "reading", item |-> i, price |-> NoItem, valid |-> free, tx |-> 0]
  <2>1. /\ request' = [request EXCEPT ![c] = r]
        /\ UNCHANGED <<row, lastTx, events, listening, cache, knownTransactions, expired>>
    BY <1>2 DEF FindMissing, databaseVars, listenerVars, knownVars
  <2>2. CacheTypeOK'
    BY <2>1 DEF CacheTypeOK, Request, Found
  <2>3. /\ \A d \in Clients : d # c => request'[d] = request[d]
        /\ request'[c] = r
    BY <2>1 DEF CacheTypeOK
  <2>4. \A j : EvictionPending(j)' <=> EvictionPending(j)
    BY <2>1, PendingUnchanged
  <2>5. \A d \in Clients, j \in Items :
          Locking(d, j)' => d # c /\ Locking(d, j) /\ (j = i => ~ free)
    BY <2>3 DEF Locking, At
  <2>6. PutsExclude'
    BY <2>3, <2>5 DEF PutsExclude, Locking, Putting, At
  <2>7. LockedIsNotCached'
    BY <2>1, <2>5 DEF LockedIsNotCached
  <2>8. PutsAreFollowed' /\ StaleOnlyWhileEventPending'
    BY <2>1, <2>3, <2>4 DEF PutsAreFollowed, StaleOnlyWhileEventPending, Stale, At
  <2>9. OwnIdsAreKnown' /\ OwnEventsAreKnown' /\ OthersAreUnknown' /\ WrittenHasId'
    BY <2>1, <2>3 DEF OwnIdsAreKnown, OwnEventsAreKnown, OthersAreUnknown, WrittenHasId
  <2> QED
    BY <2>2, <2>6, <2>7, <2>8, <2>9
<1> QED
  BY <1>1, <1>2

LEMMA FetchInv ==
  ASSUME CacheInv, NEW c \in Clients, Fetch(c)
  PROVE  CacheInv'
<1> DEFINE i == request[c].item
<1>1. CASE row[i] = NoItem /\ request' = [request EXCEPT ![c] = Idle]
  BY <1>1, LettingGoInv DEF Fetch, databaseVars, listenerVars, knownVars, Request, Idle
<1>2. CASE row[i] # NoItem /\ request' =
             [request EXCEPT ![c].phase = "fetched", ![c].price = row[i]]
  <2> USE DEF CacheInv
  <2>0. /\ request[c].phase = "reading"
        /\ UNCHANGED <<row, lastTx, events, listening, cache, knownTransactions, expired>>
    BY DEF Fetch, databaseVars, listenerVars, knownVars
  <2>1. request[c] \in BusyRequests
    BY <2>0, BusyRequest
  <2>2. CacheTypeOK'
    BY <1>2, <2>0, <2>1 DEF CacheTypeOK, Request, Found
  <2>3. /\ \A d \in Clients : d # c => request'[d] = request[d]
        /\ request'[c].phase = "fetched" /\ request'[c].item = i
        /\ request'[c].price = row[i] /\ request'[c].valid = request[c].valid
    BY <1>2, <2>1 DEF CacheTypeOK
  <2>4. \A j : EvictionPending(j)' <=> EvictionPending(j)
    BY <2>0, PendingUnchanged
  <2>5. PutsExclude' /\ LockedIsNotCached'
    BY <2>0, <2>3 DEF PutsExclude, LockedIsNotCached, Locking, Putting, At
  <2>6. PutsAreFollowed' /\ StaleOnlyWhileEventPending'
    BY <2>0, <2>3, <2>4 DEF PutsAreFollowed, StaleOnlyWhileEventPending, Stale, At
  <2>7. OwnIdsAreKnown' /\ OwnEventsAreKnown' /\ OthersAreUnknown' /\ WrittenHasId'
    BY <2>0, <2>3 DEF OwnIdsAreKnown, OwnEventsAreKnown, OthersAreUnknown, WrittenHasId
  <2> QED
    BY <2>2, <2>5, <2>6, <2>7
<1> QED
  BY <1>1, <1>2 DEF Fetch

\* What is put is current, or its eviction is on its way (Fill, Complete).
LEMMA PutInv ==
  ASSUME CacheInv, NEW c \in Clients, request[c].phase \in {"fetched", "committed"},
         Put(c), NEW r \in Request, r.phase \in {"idle", "loaded"},
         request' = [request EXCEPT ![c] = r],
         UNCHANGED <<row, lastTx, events, listening, knownTransactions, expired>>
  PROVE  CacheInv'
<1> USE DEF CacheInv
<1> DEFINE i == request[c].item
<1>1. request[c] \in BusyRequests
  BY BusyRequest
<1>2. CacheTypeOK'
  BY <1>1 DEF CacheTypeOK, Put
<1>3. (\A d \in Clients : d # c => request'[d] = request[d]) /\ request'[c] = r
  BY DEF CacheTypeOK
<1>4. \A j : EvictionPending(j)' <=> EvictionPending(j)
  BY PendingUnchanged
<1>5. \/ UNCHANGED cache
      \/ request[c].valid /\ cache' = [cache EXCEPT ![i] = request[c].price]
  BY <1>1 DEF Put
<1>6. PutsExclude'
  BY <1>3 DEF PutsExclude, Locking, Putting, At
<1>7. ASSUME NEW d \in Clients, NEW j \in Items, Locking(d, j)'
      PROVE  cache'[j] = NoItem
  <2>1. d # c /\ Locking(d, j)
    BY <1>3, <1>7 DEF Locking, At
  <2>2. cache[j] = NoItem
    BY <2>1 DEF LockedIsNotCached
  <2>3. request[c].valid => j # i
    BY <1>1, <2>1 DEF PutsExclude, Putting, Locking, At
  <2> QED
    BY <1>5, <2>2, <2>3 DEF CacheTypeOK
<1>8. PutsAreFollowed'
  BY <1>3, <1>4 DEF PutsAreFollowed, At
<1>9. ASSUME NEW j \in Items, Stale(j)'
      PROVE  EvictionPending(j)
  <2>1. CASE Stale(j)
    BY <2>1 DEF StaleOnlyWhileEventPending
  <2>2. CASE ~ Stale(j)
    <3>1. j = i /\ request[c].valid /\ request[c].price # row[i]
      BY <1>5, <1>9, <2>2 DEF CacheTypeOK, Stale
    <3> QED
      BY <1>1, <3>1 DEF PutsAreFollowed, At
  <2> QED
    BY <2>1, <2>2
<1>10. OwnIdsAreKnown' /\ OwnEventsAreKnown' /\ OthersAreUnknown' /\ WrittenHasId'
  BY <1>3 DEF OwnIdsAreKnown, OwnEventsAreKnown, OthersAreUnknown, WrittenHasId
<1>11. LockedIsNotCached' /\ StaleOnlyWhileEventPending'
  BY <1>4, <1>7, <1>9 DEF LockedIsNotCached, StaleOnlyWhileEventPending
<1> QED
  BY <1>2, <1>6, <1>8, <1>10, <1>11

-------------------------------------------------------------------------------
\* Nobody else's put of an invalidated item counts; nothing else changes.
LEMMA InvalidatedRequest ==
  ASSUME CacheTypeOK, NEW i \in Items, NEW c \in Clients
  PROVE  /\ Invalidated(i)[c] \in Request
         /\ Invalidated(i)[c].phase = request[c].phase
         /\ request[c].phase # "idle" =>
              /\ Invalidated(i)[c].item = request[c].item
              /\ Invalidated(i)[c].price = request[c].price
              /\ Invalidated(i)[c].tx = request[c].tx
              /\ Putting(c, i) => ~ Invalidated(i)[c].valid
              /\ ~ Putting(c, i) => Invalidated(i)[c] = request[c]
         /\ request[c].phase = "idle" => Invalidated(i)[c] = request[c]
<1>1. CASE request[c].phase = "idle"
  BY <1>1 DEF CacheTypeOK, Invalidated, Putting, Locking, At
<1>2. CASE request[c].phase # "idle"
  <2>1. request[c] \in BusyRequests
    BY <1>2, BusyRequest
  <2> QED
    BY <1>2, <2>1 DEF CacheTypeOK, Invalidated, Request
<1> QED
  BY <1>1, <1>2

\* An item that is evicted is absent, and no put of it counts (DELETE /cache, and
\* the listener, which takes the event away with it).
LEMMA EvictInv ==
  ASSUME CacheInv, NEW i \in Items, Evict(i),
         UNCHANGED <<row, lastTx, listening, knownTransactions, expired>>,
         events' \in Seq(Event),
         \A j \in Items : j # i /\ EvictionPending(j) => EvictionPending(j)',
         \A n \in DOMAIN events' : \E m \in DOMAIN events : events'[n] = events[m]
  PROVE  CacheInv'
<1> USE DEF CacheInv
<1>1. /\ request' = Invalidated(i)
      /\ \A c \in Clients :
         /\ request'[c] \in Request /\ request'[c].phase = request[c].phase
         /\ request[c].phase # "idle" =>
              /\ request'[c].item = request[c].item
              /\ request'[c].price = request[c].price
              /\ request'[c].tx = request[c].tx
              /\ Putting(c, i) => ~ request'[c].valid
              /\ ~ Putting(c, i) => request'[c] = request[c]
  BY InvalidatedRequest DEF Evict
<1>2. cache'[i] = NoItem /\ \A j \in Items : j # i => cache'[j] = cache[j]
  BY DEF Evict, CacheTypeOK
<1>3. CacheTypeOK'
  BY <1>1, <1>2 DEF CacheTypeOK, Evict, Invalidated
<1>4. \A c \in Clients, j \in Items :
        /\ Locking(c, j)' <=> Locking(c, j)
        /\ Putting(c, j)' <=> Putting(c, j)
        /\ At(c, j, {"fetched", "committed"})' <=> At(c, j, {"fetched", "committed"})
  BY <1>1 DEF Putting, Locking, At
<1>5. \A c \in Clients, j \in Items :
        Putting(c, j) => /\ request'[c].valid => request[c].valid /\ j # i
                         /\ request'[c].price = request[c].price
  BY <1>1 DEF Putting, Locking, At, CacheTypeOK
<1>6. PutsExclude'
  <2> SUFFICES ASSUME NEW c \in Clients, NEW d \in Clients, NEW j \in Items,
                      c # d, Locking(c, j), Putting(d, j)
               PROVE  ~ request'[d].valid
    BY <1>4 DEF PutsExclude
  <2>1. ~ request[d].valid
    BY DEF PutsExclude
  <2> QED
    BY <1>5, <2>1
<1>7. LockedIsNotCached'
  BY <1>2, <1>4 DEF LockedIsNotCached
<1>8. PutsAreFollowed'
  <2> SUFFICES ASSUME NEW c \in Clients, NEW j \in Items,
                      At(c, j, {"fetched", "committed"}), request'[c].valid,
                      request'[c].price # row[j]
               PROVE  EvictionPending(j)'
    BY <1>4 DEF PutsAreFollowed
  <2>1. request[c].valid /\ j # i /\ request'[c].price = request[c].price
    BY <1>5 DEF Putting, Locking, At
  <2> QED
    BY <2>1 DEF PutsAreFollowed
<1>9. StaleOnlyWhileEventPending'
  BY <1>2 DEF StaleOnlyWhileEventPending, Stale
<1>10. OwnIdsAreKnown' /\ WrittenHasId'
  BY <1>1 DEF OwnIdsAreKnown, WrittenHasId
<1>11. OwnEventsAreKnown' /\ OthersAreUnknown'
  BY <1>1 DEF OwnEventsAreKnown, OthersAreUnknown
<1> QED
  BY <1>3, <1>6, <1>7, <1>8, <1>9, <1>10, <1>11

LEMMA FlushInv ==
  ASSUME CacheInv, NEW c \in Clients, NEW price \in Prices, Flush(c, price)
  PROVE  CacheInv'
<1> USE DEF CacheInv
<1> DEFINE i == request[c].item
           free == \A d \in Clients : ~ Locking(d, i)
<1>1. /\ request[c].phase = "loaded"
      /\ cache' = [cache EXCEPT ![i] = NoItem]
      /\ request' = [Invalidated(i) EXCEPT
           ![c].phase = "locked", ![c].price = price, ![c].valid = free]
      /\ UNCHANGED <<row, lastTx, events, listening, knownTransactions, expired>>
  BY DEF Flush, databaseVars, listenerVars, knownVars
<1>2. /\ request[c] \in BusyRequests
      /\ Invalidated(i)[c] = request[c]
  BY <1>1, BusyRequest, InvalidatedRequest DEF Putting, Locking, At
<1>3. /\ request'[c] = [request[c] EXCEPT !.phase = "locked", !.price = price, !.valid = free]
      /\ \A d \in Clients : d # c => request'[d] = Invalidated(i)[d]
  BY <1>1, <1>2 DEF Invalidated
<1>4. \A d \in Clients : d # c =>
         /\ request'[d] \in Request /\ request'[d].phase = request[d].phase
         /\ request[d].phase # "idle" =>
              /\ request'[d].item = request[d].item
              /\ request'[d].price = request[d].price
              /\ request'[d].tx = request[d].tx
              /\ Putting(d, i) => ~ request'[d].valid
              /\ ~ Putting(d, i) => request'[d] = request[d]
  BY <1>2, <1>3, InvalidatedRequest
<1>5. CacheTypeOK'
  <2>1. request'[c] \in Request
    BY <1>2, <1>3 DEF Request, Found
  <2>2. request' = [d \in Clients |-> request'[d]]
    BY <1>1 DEF Invalidated
  <2>3. \A d \in Clients : request'[d] \in Request
    BY <1>4, <2>1
  <2>4. request' \in [Clients -> Request]
    BY <2>2, <2>3
  <2> QED
    BY <1>1, <1>2, <2>4 DEF CacheTypeOK
<1>6. cache'[i] = NoItem /\ \A j \in Items : j # i => cache'[j] = cache[j]
  BY <1>1, <1>2 DEF CacheTypeOK
<1>7. /\ request'[c].phase = "locked" /\ request'[c].item = i /\ request'[c].valid = free
  BY <1>2, <1>3
<1>8. \A d \in Clients, j \in Items : d # c =>
        /\ Locking(d, j)' <=> Locking(d, j)
        /\ Putting(d, j)' <=> Putting(d, j)
        /\ At(d, j, {"fetched", "committed"})' <=> At(d, j, {"fetched", "committed"})
        /\ Putting(d, j) => /\ request'[d].valid => request[d].valid /\ j # i
                            /\ request'[d].price = request[d].price
  BY <1>4 DEF Putting, Locking, At, CacheTypeOK
<1>9. \A j \in Items : EvictionPending(j)' <=> EvictionPending(j)
  BY <1>1, PendingUnchanged
<1>10. \A j \in Items : (Putting(c, j)' \/ Locking(c, j)') => j = i
  BY <1>7 DEF Putting, Locking, At
<1>11. PutsExclude'
  <2> SUFFICES ASSUME NEW a \in Clients, NEW d \in Clients, NEW j \in Items,
                      a # d, Locking(a, j)', Putting(d, j)'
               PROVE  ~ request'[d].valid
    BY DEF PutsExclude
  <2>1. CASE a = c
    BY <1>8, <1>10, <2>1
  <2>2. CASE d = c
    BY <1>7, <1>8, <1>10, <2>2
  <2>3. CASE a # c /\ d # c
    BY <1>8, <2>3 DEF PutsExclude
  <2> QED
    BY <2>1, <2>2, <2>3
<1>12. LockedIsNotCached'
  BY <1>6, <1>8, <1>10 DEF LockedIsNotCached
<1>13. PutsAreFollowed'
  <2> SUFFICES ASSUME NEW d \in Clients, NEW j \in Items,
                      At(d, j, {"fetched", "committed"})', request'[d].valid,
                      request'[d].price # row[j]
               PROVE  EvictionPending(j)
    BY <1>1, <1>9 DEF PutsAreFollowed
  <2>1. d # c
    BY <1>7 DEF At
  <2>2. At(d, j, {"fetched", "committed"}) /\ request[d].valid /\ request'[d].price = request[d].price
    BY <1>8, <2>1 DEF Putting, Locking, At
  <2> QED
    BY <2>2 DEF PutsAreFollowed
<1>14. StaleOnlyWhileEventPending'
  BY <1>1, <1>6, <1>9 DEF StaleOnlyWhileEventPending, Stale
<1>15. \A d \in Clients :
          request'[d].phase \in {"written", "registered", "committed"} =>
            request'[d].phase = request[d].phase /\ request'[d].tx = request[d].tx
  BY <1>4, <1>7
<1>16. OwnIdsAreKnown' /\ WrittenHasId'
  BY <1>1, <1>15 DEF OwnIdsAreKnown, WrittenHasId
<1>17. OwnEventsAreKnown' /\ OthersAreUnknown'
  BY ZenonT(60), <1>1, <1>15 DEF OwnEventsAreKnown, OthersAreUnknown
<1> QED
  BY <1>16, <1>17, <1>5, <1>11, <1>12, <1>13, <1>14

LEMMA WriteInv ==
  ASSUME CacheInv, NEW c \in Clients, Write(c)
  PROVE  CacheInv'
<1> DEFINE i == request[c].item
<1>1. CASE request' = [request EXCEPT ![c] = Idle] /\ UNCHANGED lastTx
  BY <1>1, LettingGoInv DEF Write, listenerVars, knownVars, Request, Idle
<1>2. CASE /\ lastTx' = lastTx + 1
           /\ request' = [request EXCEPT ![c].phase = "written", ![c].tx = lastTx']
  <2> USE DEF CacheInv
  <2>1. /\ request[c].phase = "locked"
        /\ UNCHANGED <<row, events, listening, cache, knownTransactions, expired>>
    BY DEF Write, listenerVars, knownVars
  <2>2. request[c] \in BusyRequests
    BY <2>1, BusyRequest
  <2>3. lastTx \in Nat /\ lastTx' \in Nat /\ 1..lastTx \subseteq 1..lastTx'
        /\ lastTx' \in 1..lastTx' /\ lastTx' \notin 1..lastTx
    BY <1>2 DEF CacheTypeOK
  <2>4. CacheTypeOK'
    BY <1>2, <2>1, <2>2, <2>3 DEF CacheTypeOK, Request, Found
  <2>5. /\ \A d \in Clients : d # c => request'[d] = request[d]
        /\ request'[c].phase = "written" /\ request'[c].item = i
        /\ request'[c].valid = request[c].valid /\ request'[c].tx = lastTx'
    BY <1>2, <2>2 DEF CacheTypeOK
  <2>6. \A j : EvictionPending(j)' <=> EvictionPending(j)
    BY <2>1, PendingUnchanged
  <2>7. PutsExclude' /\ LockedIsNotCached'
    BY <2>1, <2>5 DEF PutsExclude, LockedIsNotCached, Locking, Putting, At
  <2>8. PutsAreFollowed' /\ StaleOnlyWhileEventPending'
    BY <2>1, <2>5, <2>6 DEF PutsAreFollowed, StaleOnlyWhileEventPending, Stale, At
  <2>9. OwnIdsAreKnown' /\ OwnEventsAreKnown' /\ WrittenHasId'
    BY <2>1, <2>3, <2>5 DEF OwnIdsAreKnown, OwnEventsAreKnown, WrittenHasId
  <2>10. OthersAreUnknown'
    BY <2>1, <2>3, <2>5 DEF OthersAreUnknown
  <2> QED
    BY <2>4, <2>7, <2>8, <2>9, <2>10
<1> QED
  BY <1>1, <1>2 DEF Write

LEMMA OnFlushInv ==
  ASSUME CacheInv, NEW c \in Clients, OnFlush(c)
  PROVE  CacheInv'
<1> USE DEF CacheInv
<1>1. /\ request[c].phase = "written"
      /\ knownTransactions' = knownTransactions \union {request[c].tx}
      /\ request' = [request EXCEPT ![c].phase = "registered"]
      /\ UNCHANGED <<row, lastTx, events, listening, cache, expired>>
  BY DEF OnFlush, databaseVars, listenerVars
<1>2. request[c] \in BusyRequests
  BY <1>1, BusyRequest
<1>3. request[c].tx \in 1..lastTx
  BY <1>1 DEF WrittenHasId
<1>4. CacheTypeOK'
  BY <1>1, <1>2, <1>3 DEF CacheTypeOK, Request, Found
<1>5. /\ \A d \in Clients : d # c => request'[d] = request[d]
      /\ request'[c].phase = "registered" /\ request'[c].item = request[c].item
      /\ request'[c].valid = request[c].valid /\ request'[c].tx = request[c].tx
  BY <1>1, <1>2 DEF CacheTypeOK
<1>6. \A j : EvictionPending(j)' <=> EvictionPending(j)
  BY <1>1, PendingUnchanged
<1>7. PutsExclude' /\ LockedIsNotCached'
  BY <1>1, <1>5 DEF PutsExclude, LockedIsNotCached, Locking, Putting, At
<1>8. PutsAreFollowed' /\ StaleOnlyWhileEventPending'
  BY <1>1, <1>5, <1>6 DEF PutsAreFollowed, StaleOnlyWhileEventPending, Stale, At
<1>9. OwnIdsAreKnown' /\ OwnEventsAreKnown' /\ WrittenHasId'
  BY <1>1, <1>3, <1>5 DEF OwnIdsAreKnown, OwnEventsAreKnown, WrittenHasId
<1>10. OthersAreUnknown'
  BY <1>1, <1>5 DEF OthersAreUnknown
<1> QED
  BY <1>4, <1>7, <1>8, <1>9, <1>10

LEMMA CommitInv ==
  ASSUME CacheInv, NEW c \in Clients, Commit(c)
  PROVE  CacheInv'
<1> USE DEF CacheInv
<1> DEFINE i == request[c].item
           e == [item |-> i, op |-> "UPDATE", tx |-> request[c].tx, by |-> "application"]
<1>1. /\ request[c].phase = "registered"
      /\ row' = [row EXCEPT ![i] = request[c].price]
      /\ events' = Append(events, e)
      /\ request' = [request EXCEPT ![c].phase = "committed"]
      /\ UNCHANGED <<lastTx, listening, cache, knownTransactions, expired>>
  BY DEF Commit, knownVars
<1>2. request[c] \in BusyRequests
  BY <1>1, BusyRequest
<1>3. e \in Event /\ events' = events \o <<e>> /\ events \in Seq(Event)
  BY <1>1, <1>2 DEF Event, Operation, CacheTypeOK
<1>4. CacheTypeOK'
  BY SMTT(30), <1>1, <1>2, <1>3 DEF CacheTypeOK, Request, Found
<1>5. /\ \A d \in Clients : d # c => request'[d] = request[d]
      /\ request'[c].phase = "committed" /\ request'[c].item = i
      /\ request'[c].price = request[c].price
      /\ request'[c].valid = request[c].valid /\ request'[c].tx = request[c].tx
  BY <1>1, <1>2 DEF CacheTypeOK
<1>6. \A j : EvictionPending(j) => EvictionPending(j)'
  BY <1>3, PendingAfterAppend, <<e>> \in Seq(Event)
<1>7. row'[i] = request[c].price /\ \A j \in Items : j # i => row'[j] = row[j]
  BY <1>1, <1>2 DEF CacheTypeOK
<1>8. Locking(c, i) /\ cache[i] = NoItem
  BY <1>1, <1>2 DEF Locking, At, LockedIsNotCached
<1>9. PutsExclude' /\ LockedIsNotCached'
  BY <1>1, <1>5 DEF PutsExclude, LockedIsNotCached, Locking, Putting, At
<1>10. PutsAreFollowed'
  <2> SUFFICES ASSUME NEW d \in Clients, NEW j \in Items,
                      At(d, j, {"fetched", "committed"})', request'[d].valid,
                      request'[d].price # row'[j]
               PROVE  EvictionPending(j)
    BY <1>6 DEF PutsAreFollowed
  <2>1. d # c
    BY <1>5, <1>7 DEF At
  <2>2. At(d, j, {"fetched", "committed"}) /\ request[d].valid /\ request[d].price # row'[j]
    BY <1>5, <2>1 DEF At
  <2>3. Putting(d, j)
    BY <2>2 DEF Putting, Locking, At
  <2>4. j # i
    BY <1>8, <2>1, <2>2, <2>3 DEF PutsExclude
  <2> QED
    BY <1>7, <2>2, <2>4 DEF PutsAreFollowed
<1>11. StaleOnlyWhileEventPending'
  BY <1>1, <1>6, <1>7, <1>8 DEF StaleOnlyWhileEventPending, Stale
<1>12. OwnIdsAreKnown' /\ WrittenHasId'
  BY <1>1, <1>5 DEF OwnIdsAreKnown, WrittenHasId
<1>13. \A n \in DOMAIN events' : events'[n] = e \/ (n \in DOMAIN events /\ events'[n] = events[n])
  BY <1>1, <1>3
<1>14. OwnEventsAreKnown'
  BY <1>1, <1>13 DEF OwnEventsAreKnown, OwnIdsAreKnown
<1>15. OthersAreUnknown'
  BY <1>1, <1>5, <1>13 DEF OthersAreUnknown
<1> QED
  BY <1>4, <1>9, <1>10, <1>11, <1>12, <1>14, <1>15

LEMMA ExpireInv ==
  ASSUME CacheInv, NEW tx, Expire(tx)
  PROVE  CacheInv'
<1> USE DEF CacheInv, Expire, databaseVars, listenerVars
<1>1. CacheTypeOK'
  BY DEF CacheTypeOK
<1>2. \A j : EvictionPending(j)' <=> EvictionPending(j)
  BY PendingUnchanged
<1>3. PutsExclude' /\ LockedIsNotCached'
  BY DEF PutsExclude, LockedIsNotCached, Locking, Putting, At
<1>4. PutsAreFollowed' /\ StaleOnlyWhileEventPending'
  BY <1>2 DEF PutsAreFollowed, StaleOnlyWhileEventPending, Stale, At
<1>5. OwnIdsAreKnown' /\ OwnEventsAreKnown' /\ OthersAreUnknown' /\ WrittenHasId'
  BY DEF OwnIdsAreKnown, OwnEventsAreKnown, OthersAreUnknown, WrittenHasId
<1> QED
  BY <1>1, <1>3, <1>4, <1>5

LEMMA ChangeByOtherInv ==
  ASSUME CacheInv, NEW i \in Items, NEW price \in Prices \union {NoItem}, ChangeByOther(i, price)
  PROVE  CacheInv'
<1> USE DEF CacheInv
<1> DEFINE e(op) == [item |-> i, op |-> op, tx |-> lastTx', by |-> "other"]
           s == CASE price = NoItem  -> <<e("DELETE"), e("TOMBSTONE")>>
                  [] row[i] = NoItem -> <<e("CREATE")>>
                  [] OTHER           -> <<e("UPDATE")>>
<1>1. /\ price # row[i] /\ lastTx' = lastTx + 1
      /\ row' = [row EXCEPT ![i] = price]
      /\ events' = events \o s
      /\ UNCHANGED <<listening, cache, knownTransactions, expired, request>>
  BY DEF ChangeByOther, knownVars
<1>2. lastTx \in Nat /\ lastTx' \in Nat /\ lastTx' \in 1..lastTx' /\ lastTx' \notin 1..lastTx
      /\ 1..lastTx \subseteq 1..lastTx' /\ events \in Seq(Event)
  BY <1>1 DEF CacheTypeOK
<1>3. \A op \in Operation : e(op) \in Event
  BY <1>2 DEF Event
<1>4. /\ s \in Seq(Event)
      /\ \A n \in DOMAIN s : s[n].tx = lastTx' /\ s[n].by = "other"
      /\ row[i] # NoItem => s # <<>> /\ s[1].item = i /\ s[1].op \in {"UPDATE", "DELETE"}
  <2>1. CASE price = NoItem
    BY <1>3, <2>1 DEF Operation
  <2>2. CASE price # NoItem /\ row[i] = NoItem
    BY <1>3, <2>2 DEF Operation
  <2>3. CASE price # NoItem /\ row[i] # NoItem
    BY <1>3, <2>3 DEF Operation
  <2> QED
    BY <2>1, <2>2, <2>3
<1> HIDE DEF s
<1>5. CacheTypeOK'
  <2>1. events' \in Seq(Event)
    BY <1>1, <1>2, <1>4
  <2>2. row' \in [Items -> Prices \union {NoItem}]
    BY <1>1 DEF CacheTypeOK
  <2> QED
    BY <1>1, <1>2, <2>1, <2>2 DEF CacheTypeOK
<1>6. \A j : EvictionPending(j) => EvictionPending(j)'
  BY <1>1, <1>2, <1>4, PendingAfterAppend
<1>7. row[i] # NoItem => EvictionPending(i)'
  <2> SUFFICES ASSUME row[i] # NoItem PROVE EvictionPending(i)'
    OBVIOUS
  <2>1. s # <<>> /\ s[1].item = i /\ s[1].op \in {"UPDATE", "DELETE"} /\ s[1].by = "other"
    BY <1>4
  <2>2. Len(events) + 1 \in DOMAIN events' /\ events'[Len(events) + 1] = s[1]
    BY <1>1, <1>2, <1>4, <2>1
  <2> QED
    BY <2>1, <2>2 DEF EvictionPending
<1>8. PutsExclude' /\ LockedIsNotCached'
  BY <1>1 DEF PutsExclude, LockedIsNotCached, Locking, Putting, At
<1>9. \A j \in Items : j # i => row'[j] = row[j]
  BY <1>1 DEF CacheTypeOK
<1>10. PutsAreFollowed'
  <2> SUFFICES ASSUME NEW d \in Clients, NEW j \in Items,
                      At(d, j, {"fetched", "committed"}), request[d].valid,
                      request[d].price # row'[j]
               PROVE  EvictionPending(j)'
    BY <1>1 DEF PutsAreFollowed, At
  <2>1. CASE j # i
    BY <1>6, <1>9, <2>1 DEF PutsAreFollowed
  <2>2. CASE j = i /\ row[i] # NoItem
    BY <1>7, <2>2
  <2>3. CASE j = i /\ row[i] = NoItem
    <3>1. request[d].price # NoItem
      BY CacheAssumption, BusyRequest DEF At, Found
    <3> QED
      BY <1>6, <2>3, <3>1 DEF PutsAreFollowed
  <2> QED
    BY <2>1, <2>2, <2>3
<1>11. StaleOnlyWhileEventPending'
  BY <1>1, <1>6, <1>7, <1>9 DEF StaleOnlyWhileEventPending, Stale
<1>12. OwnIdsAreKnown' /\ WrittenHasId'
  BY <1>1, <1>2 DEF OwnIdsAreKnown, WrittenHasId
<1>13. \A n \in DOMAIN events' :
         \/ n \in DOMAIN events /\ events'[n] = events[n]
         \/ events'[n].tx = lastTx' /\ events'[n].by = "other"
  <2> SUFFICES ASSUME NEW n \in DOMAIN events', n \notin DOMAIN events
               PROVE  events'[n].tx = lastTx' /\ events'[n].by = "other"
    BY <1>1, <1>2, <1>4
  <2>1. n - Len(events) \in DOMAIN s /\ events'[n] = s[n - Len(events)]
    BY <1>1, <1>2, <1>4
  <2> QED
    BY <1>4, <2>1
<1>14. OwnEventsAreKnown'
  BY <1>1, <1>13 DEF OwnEventsAreKnown
<1>15. OthersAreUnknown'
  BY <1>1, <1>2, <1>13 DEF OthersAreUnknown, WrittenHasId, CacheTypeOK
<1> QED
  BY <1>5, <1>8, <1>10, <1>11, <1>12, <1>14, <1>15

LEMMA ListenInv ==
  ASSUME CacheInv, HandleDbChangeEvent
  PROVE  CacheInv'
<1> DEFINE e == Head(events)
<1>1. /\ events # <<>> /\ events' = Tail(events)
      /\ UNCHANGED <<row, lastTx, listening, knownTransactions, expired>>
  BY DEF HandleDbChangeEvent, databaseVars, knownVars
<1>5. \/ Evicted(e) /\ Evict(e.item)
      \/ ~ Evicted(e) /\ UNCHANGED <<cache, request>>
  BY Zenon DEF HandleDbChangeEvent
<1>2. /\ events \in Seq(Event) /\ e \in Event /\ events' \in Seq(Event)
      /\ e = events[1] /\ 1 \in DOMAIN events
      /\ \A n \in DOMAIN events' : n + 1 \in DOMAIN events /\ events'[n] = events[n + 1]
  BY <1>1 DEF CacheInv, CacheTypeOK
<1>3. CASE Evicted(e) /\ Evict(e.item)
  <2>1. \A j \in Items : j # e.item /\ EvictionPending(j) => EvictionPending(j)'
    BY <1>1, <1>2, PendingAfterTail
  <2>2. e.item \in Items
    BY <1>2 DEF Event
  <2>3. \A n \in DOMAIN events' : \E m \in DOMAIN events : events'[n] = events[m]
    BY <1>2
  <2> QED
    BY <1>1, <1>2, <1>3, <2>1, <2>2, <2>3, EvictInv
<1>4. CASE ~ Evicted(e) /\ UNCHANGED <<cache, request>>
  <2> USE DEF CacheInv
  <2>1. ~ (e.by = "other" /\ e.op \in {"UPDATE", "DELETE"})
    BY <1>2, <1>4 DEF Evicted, OthersAreUnknown
  <2>2. \A j : EvictionPending(j) => EvictionPending(j)'
    BY <1>1, <1>2, <2>1, PendingAfterTail
  <2>3. CacheTypeOK'
    BY <1>1, <1>2, <1>4 DEF CacheTypeOK
  <2>4. PutsExclude' /\ LockedIsNotCached'
    BY <1>4 DEF PutsExclude, LockedIsNotCached, Locking, Putting, At
  <2>5. PutsAreFollowed' /\ StaleOnlyWhileEventPending'
    BY <1>1, <1>4, <2>2 DEF PutsAreFollowed, StaleOnlyWhileEventPending, Stale, At
  <2>6. OwnIdsAreKnown' /\ WrittenHasId'
    BY <1>1, <1>4 DEF OwnIdsAreKnown, WrittenHasId
  <2>7. OwnEventsAreKnown' /\ OthersAreUnknown'
    BY <1>1, <1>2, <1>4 DEF OwnEventsAreKnown, OthersAreUnknown
  <2> QED
    BY <2>3, <2>4, <2>5, <2>6, <2>7
<1> QED
  BY <1>5, <1>3, <1>4

\* Nothing the invariant speaks of: the engine stops, or nothing happens.
LEMMA RestInv ==
  ASSUME CacheInv, listening' \in BOOLEAN,
         UNCHANGED <<row, lastTx, events, cache, knownTransactions, expired, request>>
  PROVE  CacheInv'
<1> USE DEF CacheInv
<1>1. CacheTypeOK'
  BY DEF CacheTypeOK
<1>2. \A j : EvictionPending(j)' <=> EvictionPending(j)
  BY PendingUnchanged
<1>3. PutsExclude' /\ LockedIsNotCached'
  BY DEF PutsExclude, LockedIsNotCached, Locking, Putting, At
<1>4. PutsAreFollowed' /\ StaleOnlyWhileEventPending'
  BY <1>2 DEF PutsAreFollowed, StaleOnlyWhileEventPending, Stale, At
<1>5. OwnIdsAreKnown' /\ OwnEventsAreKnown' /\ OthersAreUnknown' /\ WrittenHasId'
  BY DEF OwnIdsAreKnown, OwnEventsAreKnown, OthersAreUnknown, WrittenHasId
<1> QED
  BY <1>1, <1>3, <1>4, <1>5

-------------------------------------------------------------------------------
\* Whatever requests do.
LEMMA ServeInv ==
  ASSUME CacheInv, NEW c \in Clients, Serve(c)
  PROVE  CacheInv'
<1>1. CASE \E i \in Items : FindCached(c, i) \/ FindMissing(c, i)
  BY <1>1, FindInv
<1>2. CASE Fetch(c)
  BY <1>2, FetchInv
<1>3. CASE Fill(c)
  <2> DEFINE r == [request[c] EXCEPT !.phase = "loaded", !.valid = FALSE]
  <2>1. request[c] \in BusyRequests /\ request[c].phase = "fetched"
    BY <1>3, BusyRequest DEF Fill, CacheInv
  <2>2. r \in Request /\ r.phase = "loaded"
    BY <2>1 DEF Request, Found
  <2>3. request' = [request EXCEPT ![c] = r]
    BY <1>3, <2>1 DEF Fill, CacheInv, CacheTypeOK
  <2> QED
    BY <1>3, <2>1, <2>2, <2>3, PutInv
       DEF Fill, databaseVars, listenerVars, knownVars
<1>4. CASE Complete(c)
  BY <1>4, PutInv DEF Complete, databaseVars, listenerVars, knownVars, Request, Idle
<1>5. CASE Finish(c) \/ RollBack(c)
  BY <1>5, LettingGoInv
     DEF Finish, RollBack, databaseVars, listenerVars, knownVars, Request, Idle
<1>6. CASE \E price \in Prices : Flush(c, price)
  BY <1>6, FlushInv
<1>7. CASE Write(c)
  BY <1>7, WriteInv
<1>8. CASE OnFlush(c)
  BY <1>8, OnFlushInv
<1>9. CASE Commit(c)
  BY <1>9, CommitInv
<1> QED
  BY <1>1, <1>2, <1>3, <1>4, <1>5, <1>6, <1>7, <1>8, <1>9 DEF Serve

LEMMA CacheNextInv == CacheInv /\ [CacheNext]_cacheVars => CacheInv'
<1> SUFFICES ASSUME CacheInv, [CacheNext]_cacheVars PROVE CacheInv'
  OBVIOUS
<1>1. CASE \E c \in Clients : Serve(c)
  BY <1>1, ServeInv
<1>2. CASE \E i \in Items, price \in Prices \union {NoItem} : ChangeByOther(i, price)
  BY <1>2, ChangeByOtherInv
<1>3. CASE \E i \in Items : InvalidateItemCacheEntry(i)
  <2>1. PICK i \in Items : InvalidateItemCacheEntry(i)
    BY <1>3
  <2>2. /\ Evict(i)
        /\ UNCHANGED <<row, lastTx, events, listening, knownTransactions, expired>>
    BY <2>1 DEF InvalidateItemCacheEntry, databaseVars, listenerVars, knownVars
  <2>3. events' \in Seq(Event)
    BY <2>2 DEF CacheInv, CacheTypeOK
  <2>4. \A j \in Items : EvictionPending(j) => EvictionPending(j)'
    BY <2>2, PendingUnchanged
  <2> QED
    BY <2>2, <2>3, <2>4, EvictInv
<1>4. CASE \E tx \in knownTransactions : Expire(tx)
  BY <1>4, ExpireInv
<1>5. CASE HandleDbChangeEvent
  BY <1>5, ListenInv
<1>6. CASE HandleTombstone
  BY <1>6, RestInv DEF HandleTombstone, databaseVars, knownVars
<1>7. CASE UNCHANGED cacheVars
  BY <1>7, RestInv
     DEF cacheVars, databaseVars, listenerVars, knownVars, CacheInv, CacheTypeOK
<1> QED
  BY <1>1, <1>2, <1>3, <1>4, <1>5, <1>6, <1>7 DEF CacheNext, Listen

-------------------------------------------------------------------------------
\* The inductive invariant: at every step of any number of requests, events and
\* changes by others.
THEOREM CacheInvariant == CacheSpec => []CacheInv
BY CacheInitInv, CacheNextInv, PTL DEF CacheSpec, CacheSafety

\* An item is stale in the cache only while the event that will evict it is on its
\* way: for any items and prices, any clients, and any number of changes.
THEOREM CacheStaleOnlyWhilePending == CacheSpec => []StaleOnlyWhileEventPending
<1>1. CacheInv => StaleOnlyWhileEventPending
  BY DEF CacheInv
<1> QED
  BY <1>1, CacheInvariant, PTL

\* The listener never takes a transaction of the application for one of others,
\* unless its id has expired.
THEOREM CacheKnowsOwnEvents == CacheSpec => []OwnEventsAreKnown
<1>1. CacheInv => OwnEventsAreKnown
  BY DEF CacheInv
<1> QED
  BY <1>1, CacheInvariant, PTL

===============================================================================
