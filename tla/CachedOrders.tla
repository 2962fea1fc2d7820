------------------------------ MODULE CachedOrders ------------------------------
(***************************************************************************)
(* A purchase order of the distributed-caching example: the order service  *)
(* that changes its lines under a version, the stream application that     *)
(* joins the change events of the order and of its lines and aggregates    *)
(* them again, and the consumer that puts the result into the cache.       *)
(*                                                                         *)
(* Orders do not meet, so there is one.  What Debezium and the topics      *)
(* carry is the history of committed states: a step of the join says how   *)
(* far it has got in the events of the line and in those of the order.     *)
(***************************************************************************)
EXTENDS Integers, Sequences, SequencesExt, FiniteSets

CONSTANTS
  LineIds,        \* the ids of the lines of the order, numbers of type long
  Statuses,       \* of a line; a new one is "ENTERED"
  Clients,
  MaxVersion,     \* bounds the updates
  MaxRestarts,    \* bounds the restarts of the consumer
  MaxRecords      \* bounds the records it has not committed

ASSUME CachedOrdersAssumption ==
  /\ LineIds \subseteq Nat /\ LineIds # {} /\ IsFiniteSet(LineIds)
  /\ "ENTERED" \in Statuses
  /\ MaxVersion \in Nat /\ MaxRestarts \in Nat /\ MaxRecords \in Nat

VARIABLES
  history,   \* committed states of the lines: history[n] is that of version n - 1
  call,      \* updateOrderLine() of each client
  joined,    \* by line, the events that its last joined record was made of
  aggregate, \* the OrderWithLines in the state store
  dirty,     \* the aggregate has changed and was not sent on yet
  topic,     \* orders-with-lines, from the offset the consumer has committed
  handled,   \* how many of these records it has handled
  cached,    \* the entry of the Infinispan cache
  restarts

joinVars     == <<joined, aggregate, dirty>>
updaterVars  == <<topic, handled, cached, restarts>>
orderVars    == <<history, call, joinVars, updaterVars>>

\* Nothing is cached, joined or called yet.
None   == [version |-> -1, lines |-> <<>>]
Unseen == [line |-> 0, order |-> 0]
NoCall == [phase |-> "idle"]

Row        == [id: LineIds, status: Statuses]
OrderView  == [version: -1 .. MaxVersion, lines: Seq(Row)]
Call       == {NoCall} \union
  [phase: {"loaded"}, version: 0 .. MaxVersion - 1, line: LineIds, status: Statuses]

Version == Len(history) - 1

OrderInit ==
  /\ history = <<>> /\ call = [c \in Clients |-> NoCall]
  /\ joined = [l \in LineIds |-> Unseen] /\ aggregate = None /\ dirty = FALSE
  /\ topic = <<>> /\ handled = 0 /\ cached = None /\ restarts = 0

-------------------------------------------------------------------------------
\* The order service.
AddOrder ==
  /\ history = <<>>
  /\ history' = <<[l \in LineIds |-> "ENTERED"]>>
  /\ UNCHANGED <<call, joinVars, updaterVars>>

\* updateOrderLine(): the version the client names is compared; a stale one is
\* refused without a trace.
Load(c, version, l, status) ==
  /\ call[c] = NoCall
  /\ history # <<>> /\ version = Version /\ Version < MaxVersion
  /\ call' = [call EXCEPT ![c] =
       [phase |-> "loaded", version |-> version, line |-> l, status |-> status]]
  /\ UNCHANGED <<history, joinVars, updaterVars>>

Updated(c) == [Last(history) EXCEPT ![call[c].line] = call[c].status]

\* Mutant: the version is not compared again on commit.
CommitUnchecked(c) ==
  /\ call[c] # NoCall
  /\ history' = Append(history, Updated(c))
  /\ call' = [call EXCEPT ![c] = NoCall]
  /\ UNCHANGED <<joinVars, updaterVars>>

\* OPTIMISTIC_FORCE_INCREMENT: the commit raises the version it has loaded, or fails.
Commit(c) ==
  /\ call[c] # NoCall
  /\ \/ call[c].version = Version
        /\ history' = Append(history, Updated(c))
     \/ UNCHANGED history
  /\ call' = [call EXCEPT ![c] = NoCall]
  /\ UNCHANGED <<joinVars, updaterVars>>

-------------------------------------------------------------------------------
\* The stream application.

\* Boxes of the same id are the same object only within the cache of java.lang.Long.
LongCache == -128 .. 127
SameReference(a, b) == a = b /\ a \in LongCache

\* Mutant: the line is not found.
removeOrderLineNever(view, l) == view

addOrderLine(view, row, version) ==
  [version |-> version, lines |-> Append(view.lines, row)]

removeOrderLine(view, l) ==
  [view EXCEPT !.lines = RemoveFirstMatch(@, LAMBDA row : SameReference(row.id, l))]

RowAt(l, n)  == [id |-> l, status |-> history[n][l]]
LineEvents(l) == {n \in DOMAIN history : n = 1 \/ RowAt(l, n) # RowAt(l, n - 1)}
Seen(l)      == joined[l] # Unseen

\* A joined record of the line changes: the old one is removed from the aggregate
\* of the order and the new one is added.  Events may be passed over, but never
\* taken back.
Join(l, n, m) ==
  /\ joined[l].line <= n /\ joined[l].order <= m
  /\ joined[l] # [line |-> n, order |-> m]
  /\ joined' = [joined EXCEPT ![l] = [line |-> n, order |-> m]]
  /\ aggregate' =
       addOrderLine(IF Seen(l) THEN removeOrderLine(aggregate, l) ELSE aggregate,
                    RowAt(l, n), m - 1)
  /\ dirty' = TRUE
  /\ UNCHANGED <<history, call, updaterVars>>

\* The cache of the state store sends on the last of several changes.
Emit ==
  /\ dirty /\ dirty' = FALSE
  /\ Len(topic) < MaxRecords
  /\ topic' = Append(topic, aggregate)
  /\ UNCHANGED <<history, call, joined, aggregate, handled, cached, restarts>>

-------------------------------------------------------------------------------
\* The consumer.

\* Mutant: an entry is put only if there is none.
PutIfAbsent ==
  /\ handled < Len(topic)
  /\ cached' = IF cached = None THEN topic[handled + 1] ELSE cached
  /\ handled' = handled + 1
  /\ UNCHANGED <<history, call, joinVars, topic, restarts>>

\* onOrderWithLines()
OnOrderWithLines ==
  /\ handled < Len(topic)
  /\ cached' = topic[handled + 1]
  /\ handled' = handled + 1
  /\ UNCHANGED <<history, call, joinVars, topic, restarts>>

CommitOffset ==
  /\ handled > 0
  /\ topic' = SubSeq(topic, handled + 1, Len(topic))
  /\ handled' = 0
  /\ UNCHANGED <<history, call, joinVars, cached, restarts>>

\* Records handled since the last commit of the offset are handled again.
RestartUpdater ==
  /\ restarts < MaxRestarts /\ restarts' = restarts + 1
  /\ handled' = 0
  /\ UNCHANGED <<history, call, joinVars, topic, cached>>

Stream ==
  \/ \E l \in LineIds : \E n \in LineEvents(l), m \in DOMAIN history : Join(l, n, m)
  \/ Emit

OrderNext ==
  \/ AddOrder
  \/ \E c \in Clients :
       \/ \E version \in 0 .. MaxVersion, l \in LineIds, status \in Statuses :
            Load(c, version, l, status)
       \/ Commit(c)
  \/ Stream
  \/ OnOrderWithLines \/ CommitOffset \/ RestartUpdater

\* Kafka Streams and the consumer go on with what there is, and the consumer
\* commits its offset every few seconds.
OrderSpec ==
  /\ OrderInit /\ [][OrderNext]_orderVars
  /\ WF_orderVars(Stream)
  /\ WF_orderVars(OnOrderWithLines) /\ WF_orderVars(CommitOffset)

(***************************************************************************)
(* Properties.                                                             *)
(***************************************************************************)

\* The order as the stream application, the consumer and the cache have it.
Views == {aggregate, cached} \union ToSet(topic)

CachedTypeOK ==
  /\ history \in Seq([LineIds -> Statuses]) /\ Version \in -1 .. MaxVersion
  /\ call \in [Clients -> Call]
  /\ joined \in [LineIds -> {Unseen} \union [line: DOMAIN history, order: DOMAIN history]]
  /\ dirty \in BOOLEAN
  /\ aggregate \in OrderView /\ cached \in OrderView /\ topic \in Seq(OrderView)
  /\ handled \in 0 .. Len(topic) /\ restarts \in 0 .. MaxRestarts

\* A view of the order has every line once.
EveryLineOnce ==
  \A view \in Views : \A n, k \in DOMAIN view.lines : view.lines[n].id = view.lines[k].id => n = k

\* The aggregate has the lines that were joined, as the join last saw them.
AggregateIsJoin ==
  ToSet(aggregate.lines) = {RowAt(l, joined[l].line) : l \in {k \in LineIds : Seen(k)}}

\* Nobody is ahead of the database.
NeverAhead ==
  \A view \in Views : view.version <= Version

CachedInv == CachedTypeOK /\ EveryLineOnce /\ AggregateIsJoin /\ NeverAhead

\* An update changes the order as the client has seen it: each version is the one
\* before, with the line of the call and nothing else changed, whatever other
\* updates were under way.
NoUpdateIsLost ==
  [][\A c \in Clients : history' # history /\ call[c] # NoCall /\ call'[c] = NoCall =>
       history' = Append(history,
         [history[call[c].version + 1] EXCEPT ![call[c].line] = call[c].status])]_orderVars

\* The cache shows the order as it is in the database.
InSync ==
  /\ cached.version = Version
  /\ ToSet(cached.lines) = {RowAt(l, Len(history)) : l \in LineIds}

\* When no more updates come, the cache gets to show the order as it is, whichever
\* way the events of the order and its lines were joined ("These caches are kept in
\* sync via Debezium").
CacheConverges == <>[](history # <<>> => InSync)

===============================================================================
