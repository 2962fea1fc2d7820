--------------------------- MODULE CachedOrders_proofs ---------------------------
(***************************************************************************)
(* Proofs about CachedOrders, for any lines, clients and updates: no update *)
(* of an order is lost, and as long as the ids of the lines are in the      *)
(* cache of java.lang.Long, the aggregate is the join of what was read.     *)
(***************************************************************************)
EXTENDS CachedOrders, SequenceTheorems, TLAPS

\* What the proofs need of the types.
ServiceTypes ==
  /\ history \in Seq([LineIds -> Statuses])
  /\ call \in [Clients -> Call]

-------------------------------------------------------------------------------
LEMMA ServiceInit == OrderInit => ServiceTypes
<1> SUFFICES ASSUME OrderInit PROVE ServiceTypes
  OBVIOUS
<1>1. history \in Seq([LineIds -> Statuses])
  BY DEF OrderInit
<1>2. call \in [Clients -> Call]
  BY DEF OrderInit, Call
<1> QED
  BY <1>1, <1>2 DEF ServiceTypes

LEMMA ServiceStep == ServiceTypes /\ [OrderNext]_orderVars => ServiceTypes'
<1> SUFFICES ASSUME ServiceTypes, [OrderNext]_orderVars PROVE ServiceTypes'
  OBVIOUS
<1>1. CASE AddOrder
  <2>1. [l \in LineIds |-> "ENTERED"] \in [LineIds -> Statuses]
    BY CachedOrdersAssumption
  <2> QED
    BY <1>1, <2>1 DEF AddOrder, ServiceTypes
<1>2. ASSUME NEW c \in Clients, NEW version \in 0 .. MaxVersion, NEW l \in LineIds,
             NEW status \in Statuses, Load(c, version, l, status)
      PROVE  ServiceTypes'
  <2>1. version \in 0 .. MaxVersion - 1
    BY <1>2, CachedOrdersAssumption DEF Load, ServiceTypes, Version
  <2> QED
    BY <1>2, <2>1 DEF Load, ServiceTypes, Call
<1>3. ASSUME NEW c \in Clients, Commit(c) PROVE ServiceTypes'
  <2>1. call' \in [Clients -> Call]
    BY <1>3 DEF Commit, ServiceTypes, Call
  <2>2. CASE UNCHANGED history
    BY <2>1, <2>2 DEF ServiceTypes
  <2>3. CASE call[c].version = Version /\ history' = Append(history, Updated(c))
    <3>1. /\ call[c].version \in 0 .. MaxVersion - 1 /\ call[c].line \in LineIds
          /\ call[c].status \in Statuses
      BY <1>3 DEF Commit, ServiceTypes, Call
    <3>2. Len(history) \in Nat /\ Len(history) > 0
      BY <2>3, <3>1, CachedOrdersAssumption DEF ServiceTypes, Version
    <3>3. history[Len(history)] \in [LineIds -> Statuses]
      BY <3>2 DEF ServiceTypes
    <3>4. Updated(c) \in [LineIds -> Statuses]
      BY <3>1, <3>3 DEF Updated, Last
    <3> QED
      BY <2>1, <2>3, <3>4 DEF ServiceTypes
  <2> QED
    BY <1>3, <2>2, <2>3 DEF Commit
<1>4. CASE Stream \/ OnOrderWithLines \/ CommitOffset \/ RestartUpdater
  BY <1>4 DEF Stream, Join, Emit, OnOrderWithLines, CommitOffset, RestartUpdater, ServiceTypes
<1>5. CASE UNCHANGED orderVars
  BY <1>5 DEF orderVars, ServiceTypes
<1> QED
  BY <1>1, <1>2, <1>3, <1>4, <1>5 DEF OrderNext

\* The update that raises the version is the one that named it: no other client's
\* update is overwritten (OrderService.updateOrderLine).
THEOREM NoUpdateLost == OrderSpec => NoUpdateIsLost
<1> DEFINE Built(c) ==
      history' = Append(history,
        [history[call[c].version + 1] EXCEPT ![call[c].line] = call[c].status])
<1>1. ASSUME ServiceTypes, OrderNext, NEW c \in Clients, history' # history,
             call[c] # NoCall, call'[c] = NoCall
      PROVE  Built(c)
  <2>1. PICK d \in Clients : Commit(d)
    BY <1>1 DEF OrderNext, AddOrder, Load, Stream, Join, Emit, OnOrderWithLines, CommitOffset,
                RestartUpdater, updaterVars, joinVars
  <2>2. c = d
    BY <1>1, <2>1 DEF Commit, ServiceTypes
  <2>3. call[c].version = Version /\ history' = Append(history, Updated(c))
    BY <1>1, <2>1, <2>2 DEF Commit
  <2>4. Version + 1 = Len(history)
    BY <1>1 DEF ServiceTypes, Version
  <2> QED
    BY <2>3, <2>4 DEF Updated, Last
<1>2. ServiceTypes /\ [OrderNext]_orderVars =>
        [\A c \in Clients : history' # history /\ call[c] # NoCall /\ call'[c] = NoCall
           => Built(c)]_orderVars
  BY <1>1 DEF orderVars
<1>3. OrderInit /\ [][OrderNext]_orderVars => []ServiceTypes
  BY ServiceInit, ServiceStep, PTL
<1> QED
  BY <1>2, <1>3, PTL DEF OrderSpec, NoUpdateIsLost

-------------------------------------------------------------------------------
OnceEach(view) ==
  \A n, k \in DOMAIN view.lines : view.lines[n].id = view.lines[k].id => n = k

\* A line is removed by the id that its box is compared with, and nothing else is.
LEMMA RemovedLine ==
  ASSUME LineIds \subseteq LongCache, NEW view \in OrderView, OnceEach(view), NEW l \in LineIds
  PROVE  LET removed == removeOrderLine(view, l) IN
         /\ removed.lines \in Seq(Row)
         /\ OnceEach(removed)
         /\ ToSet(removed.lines) = {row \in ToSet(view.lines) : row.id # l}
<1> DEFINE lines == view.lines
           removed == removeOrderLine(view, l)
           Is(i) == SameReference(lines[i].id, l)
           I == {i \in 1..Len(lines) : Is(i)}
<1>1. /\ lines \in Seq(Row) /\ Len(lines) \in Nat /\ DOMAIN lines = 1..Len(lines)
      /\ \A i \in 1..Len(lines) : lines[i] \in Row /\ lines[i].id \in LineIds
  <2>1. lines \in Seq(Row)
    BY DEF OrderView
  <2> HIDE DEF lines
  <2>2. Len(lines) \in Nat /\ DOMAIN lines = 1..Len(lines)
    BY <2>1
  <2>3. \A i \in 1..Len(lines) : lines[i] \in Row
    BY <2>1
  <2> QED
    BY <2>1, <2>2, <2>3 DEF Row
<1>2. \A i \in 1..Len(lines) : Is(i) <=> lines[i].id = l
  BY <1>1 DEF SameReference
<1>3. removed.lines = IF \E i \in 1..Len(lines) : Is(i)
                      THEN RemoveAt(lines, IF I # {} THEN Min(I) ELSE 0) ELSE lines
  BY DEF removeOrderLine, RemoveFirstMatch, SelectInSeq, OrderView
<1>4. CASE ~ \E i \in 1..Len(lines) : Is(i)
  <2>1. removed.lines = lines
    BY <1>3, <1>4
  <2> QED
    BY <1>1, <1>2, <1>4, <2>1 DEF OnceEach, ToSet
<1>5. ASSUME NEW i \in 1..Len(lines), Is(i)
      PROVE  /\ removed.lines \in Seq(Row)
             /\ OnceEach(removed)
             /\ ToSet(removed.lines) = {row \in ToSet(view.lines) : row.id # l}
  <2>1. I = {i}
    BY <1>1, <1>2, <1>5 DEF OnceEach
  <2>2. Min(I) = i
    BY <2>1 DEF Min
  <2> DEFINE before == SubSeq(lines, 1, i - 1)
             after  == SubSeq(lines, i + 1, Len(lines))
  <2>3. removed.lines = before \o after
    BY <1>3, <1>5, <2>1, <2>2 DEF RemoveAt
  <2>4. /\ before \in Seq(Row) /\ Len(before) = i - 1
        /\ \A k \in 1..i - 1 : before[k] = lines[k]
    BY <1>1
  <2>5. /\ after \in Seq(Row) /\ Len(after) = Len(lines) - i
        /\ \A k \in 1..Len(lines) - i : after[k] = lines[i + k]
    BY <1>1
  <2> HIDE DEF before, after
  <2>6. /\ removed.lines \in Seq(Row) /\ Len(removed.lines) = Len(lines) - 1
        /\ DOMAIN removed.lines = 1..Len(lines) - 1
        /\ \A k \in 1..Len(lines) - 1 :
             removed.lines[k] = IF k < i THEN lines[k] ELSE lines[k + 1]
    <3>1. /\ before \o after \in Seq(Row) /\ Len(before \o after) = Len(lines) - 1
          /\ DOMAIN (before \o after) = 1..Len(lines) - 1
      <4>1. /\ before \o after \in Seq(Row)
            /\ Len(before \o after) = Len(before) + Len(after)
        BY <2>4, <2>5, ConcatProperties
      <4>2. DOMAIN (before \o after) = 1..Len(before \o after)
        BY <4>1
      <4>3. Len(before) + Len(after) = Len(lines) - 1
        BY <2>4, <2>5, <1>1
      <4> QED
        BY <4>1, <4>2, <4>3
    <3>2. ASSUME NEW k \in 1..Len(lines) - 1
          PROVE  (before \o after)[k] = IF k < i THEN lines[k] ELSE lines[k + 1]
      <4>1. CASE k < i
        BY <4>1, <2>4, <2>5, <1>1
      <4>2. CASE ~ k < i
        <5>1. (before \o after)[k] = after[k - (i - 1)]
          BY <4>2, <2>4, <2>5, <1>1
        <5>2. k - (i - 1) \in 1..Len(lines) - i /\ i + (k - (i - 1)) = k + 1
          BY <4>2, <1>1
        <5> QED
          BY <4>2, <5>1, <5>2, <2>5
      <4> QED
        BY <4>1, <4>2
    <3> QED
      BY <2>3, <3>1, <3>2
  <2> HIDE DEF removed
  <2>7. OnceEach(removed)
    <3> SUFFICES ASSUME NEW n \in 1..Len(lines) - 1, NEW k \in 1..Len(lines) - 1,
                        removed.lines[n].id = removed.lines[k].id
                 PROVE  n = k
      BY <2>6 DEF OnceEach
    <3> DEFINE At(m) == IF m < i THEN m ELSE m + 1
    <3>1. At(n) \in 1..Len(lines) /\ At(k) \in 1..Len(lines)
      BY <1>1
    <3>2. lines[At(n)].id = lines[At(k)].id
      BY <2>6
    <3>3. At(n) = At(k)
      BY <1>1, <3>1, <3>2 DEF OnceEach
    <3> QED
      BY <3>3
  <2>8. ASSUME NEW k \in 1..Len(lines) - 1
        PROVE  /\ removed.lines[k] \in ToSet(lines) /\ removed.lines[k].id # l
    <3> DEFINE m == IF k < i THEN k ELSE k + 1
    <3>1. m \in 1..Len(lines) /\ m # i /\ removed.lines[k] = lines[m]
      BY SMTT(30), <1>1, <2>6
    <3> QED
      BY <1>1, <1>2, <1>5, <3>1 DEF ToSet, OnceEach
  <2>9. ASSUME NEW n \in 1..Len(lines), lines[n].id # l
        PROVE  lines[n] \in ToSet(removed.lines)
    <3> DEFINE k == IF n < i THEN n ELSE n - 1
    <3>1. n # i
      BY <1>2, <1>5, <2>9
    <3>2. k \in 1..Len(lines) - 1 /\ removed.lines[k] = lines[n]
      BY SMTT(30), <1>1, <2>6, <3>1
    <3> QED
      BY <2>6, <3>2 DEF ToSet
  <2> QED
    BY ZenonT(60), <1>1, <2>6, <2>7, <2>8, <2>9 DEF ToSet
<1> QED
  BY <1>4, <1>5

-------------------------------------------------------------------------------
LEMMA ViewsTyped == CachedTypeOK => Views \subseteq OrderView
  BY DEF CachedTypeOK, Views, ToSet

LEMMA CachedInitInv == OrderInit => CachedInv
<1> SUFFICES ASSUME OrderInit PROVE CachedInv
  OBVIOUS
<1>1. /\ history = <<>> /\ Len(history) = 0 /\ DOMAIN history = {}
      /\ topic = <<>> /\ Len(topic) = 0 /\ ToSet(topic) = {}
  BY DEF OrderInit, ToSet
<1>2. Version = -1 /\ Views = {None}
  BY <1>1 DEF OrderInit, Version, Views
<1>3. None \in OrderView /\ DOMAIN None.lines = {} /\ None.version = -1
  BY CachedOrdersAssumption DEF OrderView, None
<1>4. call \in [Clients -> Call]
  BY DEF OrderInit, Call
<1>5. CachedTypeOK
  <2>1. history \in Seq([LineIds -> Statuses]) /\ Version \in -1 .. MaxVersion
    BY <1>1, <1>2, CachedOrdersAssumption
  <2> DEFINE Joined == [line: DOMAIN history, order: DOMAIN history]
  <2> HIDE DEF Joined
  <2>2. joined \in [LineIds -> {Unseen} \union Joined]
    BY DEF OrderInit
  <2>3. dirty \in BOOLEAN
    BY DEF OrderInit
  <2>5. handled \in 0 .. Len(topic) /\ restarts \in 0 .. MaxRestarts
    <3>1. handled = 0 /\ restarts = 0 /\ Len(topic) = 0 /\ MaxRestarts \in Nat
      BY <1>1, CachedOrdersAssumption DEF OrderInit
    <3> QED
      BY <3>1
  <2>4. aggregate \in OrderView /\ cached \in OrderView /\ topic \in Seq(OrderView)
    BY <1>1, <1>3 DEF OrderInit
  <2> QED
    BY <1>4, <2>1, <2>2, <2>3, <2>4, <2>5 DEF CachedTypeOK, Joined
<1>6. EveryLineOnce /\ NeverAhead
  BY <1>2, <1>3 DEF EveryLineOnce, NeverAhead
<1>7. AggregateIsJoin
  <2>1. ToSet(aggregate.lines) = {}
    BY <1>3 DEF OrderInit, ToSet
  <2>2. \A l \in LineIds : ~ Seen(l)
    BY DEF OrderInit, Seen
  <2> QED
    BY <2>1, <2>2 DEF AggregateIsJoin
<1> QED
  BY <1>5, <1>6, <1>7 DEF CachedInv

\* The service commits one more state, or none.
LEMMA CommittedInv ==
  ASSUME CachedInv, UNCHANGED <<joinVars, updaterVars>>,
         call' \in [Clients -> Call], Version' \in -1 .. MaxVersion,
         \/ history' = history
         \/ \E state \in [LineIds -> Statuses] : history' = Append(history, state)
  PROVE  CachedInv'
<1>1. history \in Seq([LineIds -> Statuses]) /\ Len(history) \in Nat
  BY DEF CachedInv, CachedTypeOK
<1>2. /\ history' \in Seq([LineIds -> Statuses])
      /\ DOMAIN history \subseteq DOMAIN history'
      /\ \A n \in DOMAIN history : history'[n] = history[n]
      /\ Len(history) <= Len(history')
  <2>1. CASE history' = history
    BY <1>1, <2>1
  <2>2. ASSUME NEW state \in [LineIds -> Statuses], history' = Append(history, state)
        PROVE  /\ history' \in Seq([LineIds -> Statuses])
               /\ DOMAIN history \subseteq DOMAIN history'
               /\ \A n \in DOMAIN history : history'[n] = history[n]
               /\ Len(history) <= Len(history')
    BY <1>1, <2>2
  <2> QED
    BY <2>1, <2>2
<1>3. /\ Views' = Views /\ topic' = topic /\ handled' = handled /\ restarts' = restarts
      /\ cached' = cached /\ joined' = joined /\ dirty' = dirty /\ aggregate' = aggregate
  BY DEF Views, joinVars, updaterVars
<1>4. CachedTypeOK'
  <2>1. joined' \in [LineIds -> {Unseen} \union [line: DOMAIN history', order: DOMAIN history']]
    BY <1>2, <1>3 DEF CachedInv, CachedTypeOK
  <2>2. aggregate' \in OrderView /\ cached' \in OrderView /\ topic' \in Seq(OrderView)
    BY <1>3 DEF CachedInv, CachedTypeOK
  <2>3. /\ dirty' \in BOOLEAN /\ handled' \in 0 .. Len(topic')
        /\ restarts' \in 0 .. MaxRestarts
    BY <1>3 DEF CachedInv, CachedTypeOK
  <2> QED
    BY <1>2, <2>1, <2>2, <2>3 DEF CachedTypeOK
<1>5. EveryLineOnce'
  BY <1>3 DEF CachedInv, EveryLineOnce
<1>6. AggregateIsJoin'
  <2>1. \A l \in LineIds : Seen(l)' = Seen(l)
    BY <1>3 DEF Seen
  <2>2. \A l \in LineIds : Seen(l) => joined[l].line \in DOMAIN history
    BY DEF CachedInv, CachedTypeOK, Seen
  <2>3. \A l \in LineIds : Seen(l) => RowAt(l, joined[l].line)' = RowAt(l, joined[l].line)
    BY <1>2, <1>3, <2>2 DEF RowAt
  <2> QED
    BY <1>3, <2>1, <2>3 DEF CachedInv, AggregateIsJoin
<1>7. NeverAhead'
  <2>1. \A view \in Views : view.version \in Int /\ view.version <= Len(history) - 1
    BY ViewsTyped, CachedOrdersAssumption DEF CachedInv, OrderView, NeverAhead, Version
  <2>2. Len(history') \in Nat
    BY <1>2
  <2> QED
    BY <1>1, <1>2, <1>3, <2>1, <2>2 DEF NeverAhead, Version
<1> QED
  BY <1>4, <1>5, <1>6, <1>7 DEF CachedInv

LEMMA ServiceInv ==
  ASSUME CachedInv,
         \/ AddOrder
         \/ \E c \in Clients :
              \/ \E version \in 0 .. MaxVersion, l \in LineIds, status \in Statuses :
                   Load(c, version, l, status)
              \/ Commit(c)
  PROVE  CachedInv'
<1>1. ServiceTypes /\ Len(history) \in Nat /\ Version \in -1 .. MaxVersion
  BY DEF CachedInv, CachedTypeOK, ServiceTypes
<1>2. ServiceTypes'
  BY <1>1, ServiceStep DEF OrderNext
<1>3. CASE AddOrder
  <2>1. [l \in LineIds |-> "ENTERED"] \in [LineIds -> Statuses]
    BY CachedOrdersAssumption
  <2>2. history' = Append(history, [l \in LineIds |-> "ENTERED"]) /\ Version' = 0
    BY <1>3 DEF AddOrder, Version
  <2> QED
    BY <1>2, <1>3, <2>1, <2>2, CommittedInv, CachedOrdersAssumption DEF AddOrder, ServiceTypes
<1>4. ASSUME NEW c \in Clients, NEW version \in 0 .. MaxVersion, NEW l \in LineIds,
             NEW status \in Statuses, Load(c, version, l, status)
      PROVE  CachedInv'
  <2>1. history' = history /\ Version' = Version
    BY <1>4 DEF Load, Version
  <2> QED
    BY <1>1, <1>2, <1>4, <2>1, CommittedInv DEF Load, ServiceTypes
<1>5. ASSUME NEW c \in Clients, Commit(c) PROVE CachedInv'
  <2>1. CASE UNCHANGED history
    BY <1>1, <1>2, <1>5, <2>1, CommittedInv DEF Commit, ServiceTypes, Version
  <2>2. CASE call[c].version = Version /\ history' = Append(history, Updated(c))
    <3>1. call[c].version \in 0 .. MaxVersion - 1 /\ call[c].line \in LineIds
          /\ call[c].status \in Statuses
      BY <1>1, <1>5 DEF Commit, ServiceTypes, Call
    <3>2. Len(history) > 0 /\ Len(history) \in 1 .. MaxVersion
      BY <1>1, <2>2, <3>1, CachedOrdersAssumption DEF Version
    <3>3. history[Len(history)] \in [LineIds -> Statuses]
      BY <1>1, <3>2 DEF ServiceTypes
    <3>4. Updated(c) \in [LineIds -> Statuses]
      BY <3>1, <3>3 DEF Updated, Last
    <3>5. Len(history') = Len(history) + 1
      BY <1>1, <2>2, <3>4 DEF ServiceTypes
    <3>6. Version' \in -1 .. MaxVersion
      BY <3>2, <3>5, CachedOrdersAssumption DEF Version
    <3> QED
      BY <1>2, <1>5, <2>2, <3>4, <3>6, CommittedInv DEF Commit, ServiceTypes
  <2> QED
    BY <1>5, <2>1, <2>2 DEF Commit
<1> QED
  BY <1>3, <1>4, <1>5

\* The aggregate after a join: the line is in it once, as the join has seen it.
LEMMA JoinInv ==
  ASSUME LineIds \subseteq LongCache, CachedInv, NEW l \in LineIds,
         NEW n \in LineEvents(l), NEW m \in DOMAIN history, Join(l, n, m)
  PROVE  CachedInv'
<1> DEFINE base == IF Seen(l) THEN removeOrderLine(aggregate, l) ELSE aggregate
           new  == RowAt(l, n)
<1>1. /\ history \in Seq([LineIds -> Statuses]) /\ Len(history) \in Nat
      /\ n \in DOMAIN history /\ DOMAIN history = 1..Len(history)
      /\ aggregate \in OrderView /\ OnceEach(aggregate)
      /\ Version \in -1 .. MaxVersion
  BY DEF CachedInv, CachedTypeOK, Views, EveryLineOnce, OnceEach, LineEvents
<1>2. /\ aggregate' = addOrderLine(base, new, m - 1)
      /\ joined' = [joined EXCEPT ![l] = [line |-> n, order |-> m]]
      /\ dirty' = TRUE
      /\ history' = history /\ call' = call /\ topic' = topic /\ handled' = handled
      /\ cached' = cached /\ restarts' = restarts
  BY DEF Join, updaterVars
<1>3. new \in Row /\ new.id = l
  <2>1. history[n] \in [LineIds -> Statuses]
    BY <1>1
  <2> QED
    BY <2>1 DEF RowAt, Row
<1>4. /\ base.lines \in Seq(Row)
      /\ OnceEach(base)
      /\ ToSet(base.lines) = {row \in ToSet(aggregate.lines) : row.id # l}
  <2>1. CASE Seen(l)
    BY <1>1, <2>1, RemovedLine
  <2>2. CASE ~ Seen(l)
    <3>1. \A row \in ToSet(aggregate.lines) : row.id # l
      BY <2>2 DEF CachedInv, AggregateIsJoin, RowAt
    <3> QED
      BY <1>1, <2>2, <3>1 DEF OrderView
  <2> QED
    BY <2>1, <2>2
<1> HIDE DEF base, new
<1>5. /\ Len(base.lines) \in Nat /\ DOMAIN base.lines = 1..Len(base.lines)
      /\ aggregate'.lines = Append(base.lines, new) /\ aggregate'.version = m - 1
      /\ aggregate'.lines \in Seq(Row)
      /\ DOMAIN aggregate'.lines = 1..Len(base.lines) + 1
      /\ aggregate'.lines[Len(base.lines) + 1] = new
      /\ \A k \in 1..Len(base.lines) : aggregate'.lines[k] = base.lines[k]
  <2>1. aggregate'.lines = Append(base.lines, new) /\ aggregate'.version = m - 1
    BY <1>2 DEF addOrderLine
  <2>2. Len(base.lines) \in Nat /\ DOMAIN base.lines = 1..Len(base.lines)
    BY <1>4
  <2> QED
    BY <1>3, <1>4, <2>1, <2>2
<1>6. m - 1 \in -1 .. MaxVersion /\ m - 1 <= Version
  BY <1>1, CachedOrdersAssumption DEF Version
<1>7. aggregate' \in OrderView
  BY <1>2, <1>5, <1>6 DEF OrderView, addOrderLine
<1>8. Views' \subseteq Views \union {aggregate'}
  BY <1>2 DEF Views
<1>9. CachedTypeOK'
  <2>1. joined' \in [LineIds -> {Unseen} \union [line: DOMAIN history', order: DOMAIN history']]
    BY <1>1, <1>2 DEF CachedInv, CachedTypeOK
  <2>2. aggregate' \in OrderView /\ cached' \in OrderView /\ topic' \in Seq(OrderView)
    BY <1>2, <1>7 DEF CachedInv, CachedTypeOK
  <2>3. dirty' \in BOOLEAN
    BY <1>2
  <2> QED
    BY <1>2, <2>1, <2>2, <2>3 DEF CachedInv, CachedTypeOK, Version
<1>10. \A k \in 1..Len(base.lines) : base.lines[k].id # l
  BY <1>4, <1>5 DEF ToSet
<1>11. OnceEach(aggregate')
  <2> SUFFICES ASSUME NEW i \in 1..Len(base.lines) + 1, NEW k \in 1..Len(base.lines) + 1,
                      aggregate'.lines[i].id = aggregate'.lines[k].id
               PROVE  i = k
    BY <1>5 DEF OnceEach
  <2>1. CASE i \in 1..Len(base.lines) /\ k \in 1..Len(base.lines)
    BY <1>4, <1>5, <2>1 DEF OnceEach
  <2>2. CASE i = Len(base.lines) + 1 /\ k \in 1..Len(base.lines)
    BY <1>3, <1>5, <1>10, <2>2
  <2>3. CASE k = Len(base.lines) + 1 /\ i \in 1..Len(base.lines)
    BY <1>3, <1>5, <1>10, <2>3
  <2> QED
    BY <1>5, <2>1, <2>2, <2>3
<1>12. EveryLineOnce'
  BY <1>8, <1>11 DEF CachedInv, EveryLineOnce, OnceEach
<1>13. NeverAhead'
  BY <1>2, <1>5, <1>6, <1>8 DEF CachedInv, NeverAhead, Version
<1>14. AggregateIsJoin'
  <2>1. ToSet(aggregate'.lines) = ToSet(base.lines) \union {new}
    BY <1>5 DEF ToSet
  <2>2. \A k \in LineIds : Seen(k)' <=> k = l \/ Seen(k)
    <3>1. joined'[l] # Unseen
      <4>1. joined'[l].line = n /\ n # 0 /\ Unseen.line = 0
        BY <1>1, <1>2 DEF CachedInv, CachedTypeOK, Unseen
      <4> QED
        BY <4>1
    <3> QED
      BY <1>2, <3>1 DEF CachedInv, CachedTypeOK, Seen
  <2>3. /\ RowAt(l, joined[l].line)' = new
        /\ \A k \in LineIds \ {l} : RowAt(k, joined[k].line)' = RowAt(k, joined[k].line)
    BY <1>2 DEF CachedInv, CachedTypeOK, RowAt, new
  <2>4. ToSet(base.lines) = {RowAt(k, joined[k].line) : k \in {i \in LineIds \ {l} : Seen(i)}}
    <3>1. \A k \in LineIds : RowAt(k, joined[k].line).id = k
      BY DEF RowAt
    <3> QED
      BY <1>4, <3>1 DEF CachedInv, AggregateIsJoin
  <2> DEFINE Others == {i \in LineIds \ {l} : Seen(i)}
  <2>5. {i \in LineIds : Seen(i)'} = Others \union {l}
    BY <2>2
  <2>6. {RowAt(k, joined[k].line)' : k \in Others \union {l}}
          = {RowAt(k, joined[k].line) : k \in Others} \union {new}
    BY <2>3
  <2> QED
    BY <2>1, <2>4, <2>5, <2>6 DEF AggregateIsJoin
<1> QED
  BY <1>9, <1>12, <1>13, <1>14 DEF CachedInv

\* A record more, a record less: what is in the topic and in the cache are views
\* that there were before.
LEMMA HandedOnInv ==
  ASSUME CachedInv, UNCHANGED <<history, call, joined, aggregate>>,
         topic' \in Seq(OrderView), ToSet(topic') \subseteq Views, cached' \in Views,
         dirty' \in BOOLEAN, handled' \in 0 .. Len(topic'), restarts' \in 0 .. MaxRestarts
  PROVE  CachedInv'
<1>1. Views' \subseteq Views /\ cached' \in OrderView
  BY ViewsTyped DEF Views, CachedInv
<1>2. CachedTypeOK'
  BY <1>1 DEF CachedInv, CachedTypeOK, Version
<1>3. EveryLineOnce'
  BY <1>1 DEF CachedInv, EveryLineOnce
<1>4. NeverAhead'
  BY <1>1 DEF CachedInv, NeverAhead, Version
<1>5. AggregateIsJoin'
  BY DEF CachedInv, AggregateIsJoin, Seen, RowAt
<1> QED
  BY <1>2, <1>3, <1>4, <1>5 DEF CachedInv

\* What is left of a sequence without its first elements.
LEMMA RestOf ==
  ASSUME NEW S, NEW s \in Seq(S), NEW k \in 0 .. Len(s)
  PROVE  LET rest == SubSeq(s, k + 1, Len(s)) IN
         /\ rest \in Seq(S) /\ Len(rest) = Len(s) - k
         /\ \A i \in 1..Len(s) - k : rest[i] = s[k + i]
<1> DEFINE rest == SubSeq(s, k + 1, Len(s))
<1>1. Len(s) \in Nat /\ k + 1 \in Int /\ Len(s) \in Int
  OBVIOUS
<1>2. \A i \in k + 1 .. Len(s) : s[i] \in S
  OBVIOUS
<1>3. rest \in Seq(S) /\ Len(rest) = (IF k + 1 <= Len(s) THEN Len(s) - (k + 1) + 1 ELSE 0)
  BY <1>1, <1>2, SubSeqProperties
<1>4. \A i \in 1..Len(s) - (k + 1) + 1 : rest[i] = s[k + 1 + i - 1]
  BY <1>1, <1>2, SubSeqProperties
<1> HIDE DEF rest
<1>5. Len(rest) = Len(s) - k
  BY <1>1, <1>3
<1>6. \A i \in 1..Len(s) - k : rest[i] = s[k + i]
  <2>1. Len(s) - (k + 1) + 1 = Len(s) - k /\ \A i \in 1..Len(s) - k : k + 1 + i - 1 = k + i
    BY <1>1
  <2> QED
    BY <1>4, <2>1
<1> QED
  BY <1>3, <1>5, <1>6 DEF rest

LEMMA ConsumerInv ==
  ASSUME CachedInv, Emit \/ OnOrderWithLines \/ CommitOffset \/ RestartUpdater
  PROVE  CachedInv'
<1>1. /\ topic \in Seq(OrderView) /\ Len(topic) \in Nat /\ DOMAIN topic = 1..Len(topic)
      /\ handled \in 0 .. Len(topic) /\ restarts \in 0 .. MaxRestarts
      /\ aggregate \in OrderView
  BY DEF CachedInv, CachedTypeOK
<1>2. dirty \in BOOLEAN
  BY DEF CachedInv, CachedTypeOK
<1>3. ToSet(topic) \subseteq Views /\ cached \in Views /\ aggregate \in Views
  BY DEF Views
<1>4. CASE Emit
  <2>1. /\ topic' = Append(topic, aggregate) /\ handled' = handled /\ restarts' = restarts
        /\ cached' = cached /\ UNCHANGED <<history, call, joined, aggregate>>
    BY <1>4 DEF Emit
  <2>2. dirty' \in BOOLEAN
    BY <1>4 DEF Emit
  <2>3. topic' \in Seq(OrderView) /\ handled' \in 0 .. Len(topic')
    BY <1>1, <2>1
  <2>4. ToSet(topic') = ToSet(topic) \union {aggregate}
    BY <1>1, <2>1 DEF ToSet
  <2> QED
    BY <1>1, <1>3, <2>1, <2>2, <2>3, <2>4, HandedOnInv
<1>5. CASE OnOrderWithLines
  <2>1. /\ cached' = topic[handled + 1] /\ handled' = handled + 1 /\ handled < Len(topic)
        /\ topic' = topic /\ restarts' = restarts /\ dirty' = dirty
        /\ UNCHANGED <<history, call, joined, aggregate>>
    BY <1>5 DEF OnOrderWithLines, joinVars
  <2>2. handled' \in 0 .. Len(topic') /\ handled + 1 \in DOMAIN topic
    BY <1>1, <2>1
  <2>3. cached' \in Views
    BY <1>3, <2>1, <2>2 DEF ToSet
  <2> QED
    BY <1>1, <1>2, <1>3, <2>1, <2>2, <2>3, HandedOnInv
<1>6. CASE CommitOffset
  <2>1. /\ topic' = SubSeq(topic, handled + 1, Len(topic)) /\ handled' = 0
        /\ cached' = cached /\ restarts' = restarts /\ dirty' = dirty
        /\ UNCHANGED <<history, call, joined, aggregate>>
    BY <1>6 DEF CommitOffset, joinVars
  <2>2. /\ topic' \in Seq(OrderView) /\ Len(topic') = Len(topic) - handled
        /\ \A k \in 1..Len(topic) - handled : topic'[k] = topic[handled + k]
    BY <1>1, <2>1, RestOf
  <2>3. handled' \in 0 .. Len(topic')
    <3>1. Len(topic') \in Nat
      BY <2>2
    <3>2. handled' = 0
      BY <2>1
    <3> QED
      BY <3>1, <3>2
  <2>4. \A k \in 1..Len(topic) - handled : handled + k \in DOMAIN topic
    BY <1>1
  <2>5. DOMAIN topic' = 1..Len(topic) - handled
    BY <2>2
  <2>6. ToSet(topic') \subseteq ToSet(topic)
    BY <2>2, <2>4, <2>5 DEF ToSet
  <2> QED
    BY <1>1, <1>2, <1>3, <2>1, <2>2, <2>3, <2>6, HandedOnInv
<1>7. CASE RestartUpdater
  <2>1. /\ topic' = topic /\ handled' = 0 /\ cached' = cached /\ dirty' = dirty
        /\ UNCHANGED <<history, call, joined, aggregate>>
        /\ restarts < MaxRestarts /\ restarts' = restarts + 1
    BY <1>7 DEF RestartUpdater, joinVars
  <2>2. handled' \in 0 .. Len(topic') /\ restarts' \in 0 .. MaxRestarts
    BY <1>1, <2>1, CachedOrdersAssumption
  <2> QED
    BY <1>1, <1>2, <1>3, <2>1, <2>2, HandedOnInv
<1> QED
  BY <1>4, <1>5, <1>6, <1>7

LEMMA CachedStepInv ==
  ASSUME LineIds \subseteq LongCache, CachedInv, [OrderNext]_orderVars
  PROVE  CachedInv'
<1>1. CASE UNCHANGED orderVars
  <2>1. /\ topic' = topic /\ cached' = cached /\ dirty' = dirty /\ handled' = handled
        /\ restarts' = restarts /\ UNCHANGED <<history, call, joined, aggregate>>
    BY <1>1 DEF orderVars, joinVars, updaterVars
  <2>2. dirty' \in BOOLEAN
    BY <2>1 DEF CachedInv, CachedTypeOK
  <2> QED
    BY <2>1, <2>2, HandedOnInv DEF CachedInv, CachedTypeOK, Views
<1>2. CASE Stream
  BY <1>2, JoinInv, ConsumerInv DEF Stream
<1> QED
  BY <1>1, <1>2, ServiceInv, ConsumerInv DEF OrderNext

\* As long as the ids of the lines are in the cache of java.lang.Long: the
\* aggregate has every line once and as the join has last seen it, whatever the
\* order in which lines and orders are joined, and what the topic and the cache
\* have is never ahead of the database.  (removeOrderLine compares boxed ids by
\* reference: without the assumption the property is refuted by a run.)
THEOREM CachedInvariant ==
  ASSUME LineIds \subseteq LongCache
  PROVE  OrderSpec => []CachedInv
<1>1. OrderInit => CachedInv
  BY CachedInitInv
<1>2. CachedInv /\ [OrderNext]_orderVars => CachedInv'
  BY CachedStepInv
<1> QED
  BY <1>1, <1>2, PTL DEF OrderSpec

===============================================================================
