-------------------------- MODULE OrderShipping_proofs --------------------------
(***************************************************************************)
(* Proofs about OrderShipping, for any orders, clients, events and          *)
(* restarts: an order is shipped once, what is acknowledged was logged, the *)
(* events tell the lines; and the log makes the delivery of the events      *)
(* exactly once.                                                            *)
(***************************************************************************)
EXTENDS OrderShipping, TLAPS

LEMMA ShippingInitInv == ShippingInit => ShippingInv
<1> SUFFICES ASSUME ShippingInit PROVE ShippingInv
  OBVIOUS
<1> USE DEF ShippingInit
<1>1. ShippingTypeOK
  <2>1. events \in Seq(Event) /\ shipments \in Seq(Orders) /\ topic \in Seq(1 .. Len(events))
    OBVIOUS
  <2>2. /\ captured \in 0 .. Len(events) /\ flushed \in 0 .. captured
        /\ next \in 0 .. Len(topic) /\ offset \in 0 .. next
        /\ channel \in {"open", "failed"} /\ consumed \subseteq 1 .. Len(events) /\ restarts \in Nat
    <3>1. Len(events) = 0 /\ Len(topic) = 0
      OBVIOUS
    <3> QED
      BY <3>1
  <2>3. /\ line \in [Orders -> Statuses \union {NoOrder}]
        /\ update \in [Clients -> {NoUpdate} \union Update]
    OBVIOUS
  <2> QED
    BY <2>1, <2>2, <2>3 DEF ShippingTypeOK
<1>2. CreatedOnce /\ FoundLineExists
  BY DEF CreatedOnce, FoundLineExists
<1>3. ShipmentsAreLogged /\ LoggedAreShipped /\ OneShipmentPerOrder /\ AcknowledgedIsLogged
  BY DEF ShipmentsAreLogged, LoggedAreShipped, OneShipmentPerOrder, AcknowledgedIsLogged
<1>4. LastChangeTellsTheLine
  BY DEF LastChangeTellsTheLine
<1> QED
  BY <1>1, <1>2, <1>3, <1>4 DEF ShippingInv

-------------------------------------------------------------------------------
\* A further event leaves those before it as they are: what was logged, shipped and
\* acknowledged still is.
LEMMA AppendedEvent ==
  ASSUME ShippingTypeOK, NEW e \in Event, Fire(e)
  PROVE  /\ events' \in Seq(Event) /\ Len(events') = Len(events) + 1
         /\ DOMAIN events' = DOMAIN events \union {Len(events) + 1}
         /\ Len(events) + 1 \notin DOMAIN events
         /\ \A n \in DOMAIN events' : n \in Nat /\ n <= Len(events) + 1
         /\ \A n \in DOMAIN events : events'[n] = events[n] /\ events[n] \in Event
         /\ events'[Len(events) + 1] = e
BY DEF ShippingTypeOK, Fire

LEMMA ShippedWhileFiring ==
  ASSUME ShippingInv, NEW e \in Event, Fire(e),
         UNCHANGED <<connectorVars, shipmentVars, restarts>>
  PROVE  /\ ShipmentsAreLogged' /\ LoggedAreShipped'
         /\ OneShipmentPerOrder' /\ AcknowledgedIsLogged'
<1> USE DEF connectorVars, shipmentVars
<1>1. ShippingTypeOK /\ consumed \subseteq DOMAIN events
  BY DEF ShippingInv, ShippingTypeOK
<1>2. \A n \in consumed : events'[n] = events[n]
  BY <1>1, AppendedEvent
<1> QED
  BY <1>2 DEF ShippingInv, ShipmentsAreLogged, LoggedAreShipped, OneShipmentPerOrder,
              AcknowledgedIsLogged

LEMMA AddOrderInv ==
  ASSUME ShippingInv, NEW o \in Orders, AddOrder(o)
  PROVE  ShippingInv'
<1> DEFINE e == [order |-> o, type |-> "OrderCreated"]
<1>1. ShippingTypeOK /\ e \in Event /\ Fire(e)
  BY DEF ShippingInv, AddOrder, Event, Created
<1> HIDE DEF e
<1>2. /\ e.order = o /\ e.type = "OrderCreated"
      /\ line[o] = NoOrder /\ line' = [line EXCEPT ![o] = "ENTERED"]
      /\ UNCHANGED <<update, connectorVars, shipmentVars, restarts>>
  BY DEF AddOrder, e
<1>3. /\ line'[o] = "ENTERED" /\ \A p \in Orders : p # o => line'[p] = line[p]
      /\ \A p \in Orders : line[p] # NoOrder => line'[p] # NoOrder /\ line'[p] = line[p]
      /\ line'[o] # NoOrder
  BY <1>1, <1>2, ShippingAssumption DEF ShippingTypeOK
<1>4. ShippingTypeOK'
  BY <1>1, <1>2, AppendedEvent, ShippingAssumption
     DEF ShippingTypeOK, connectorVars, shipmentVars
<1>5. CreatedOnce'
  <2>1. \A n \in DOMAIN events : events[n].order # o
    BY <1>2 DEF ShippingInv, CreatedOnce
  <2>2. \A n \in DOMAIN events : events[n].order \in Orders
    BY <1>1, AppendedEvent DEF Event, Created, Changed
  <2>3. \A n \in DOMAIN events' : line'[events'[n].order] # NoOrder
    BY <1>1, <1>2, <1>3, <2>2, AppendedEvent DEF ShippingInv, CreatedOnce
  <2>4. ASSUME NEW n \in DOMAIN events', NEW k \in DOMAIN events',
               events'[n].type = "OrderCreated", events'[k].type = "OrderCreated",
               events'[n].order = events'[k].order
        PROVE  n = k
    BY <1>1, <1>2, <2>1, <2>4, AppendedEvent DEF ShippingInv, CreatedOnce
  <2> QED
    BY <2>3, <2>4 DEF CreatedOnce
<1>6. FoundLineExists'
  BY <1>1, <1>2, <1>3 DEF ShippingInv, FoundLineExists, ShippingTypeOK, NoUpdate, Update
<1>7. LastChangeTellsTheLine'
  <2> SUFFICES ASSUME NEW p \in Orders
               PROVE  \/ /\ \A n \in DOMAIN events' : ~ TellsChange(n, p)'
                         /\ line'[p] \in {NoOrder, "ENTERED"}
                      \/ \E n \in DOMAIN events' :
                           /\ TellsChange(n, p)' /\ line'[p] = events'[n].new
                           /\ \A k \in DOMAIN events' : TellsChange(k, p)' => k <= n
    BY DEF LastChangeTellsTheLine
  <2>1. \A n \in DOMAIN events : TellsChange(n, p)' <=> TellsChange(n, p)
    BY <1>1, AppendedEvent DEF TellsChange
  <2>2. \A n \in DOMAIN events' \ DOMAIN events : ~ TellsChange(n, p)'
    BY <1>1, <1>2, AppendedEvent DEF TellsChange
  <2>3. CASE p = o
    <3>1. \A n \in DOMAIN events : ~ TellsChange(n, o)
      BY <1>2 DEF ShippingInv, CreatedOnce, TellsChange
    <3> QED
      BY <1>3, <2>1, <2>2, <2>3, <3>1
  <2>4. CASE p # o
    <3>1. line'[p] = line[p]
      BY <1>3, <2>4
    <3>2. CASE /\ \A n \in DOMAIN events : ~ TellsChange(n, p)
               /\ line[p] \in {NoOrder, "ENTERED"}
      BY <2>1, <2>2, <3>1, <3>2
    <3>3. CASE \E n \in DOMAIN events :
                 /\ TellsChange(n, p) /\ line[p] = events[n].new
                 /\ \A k \in DOMAIN events : TellsChange(k, p) => k <= n
      BY <1>1, <2>1, <2>2, <3>1, <3>3, AppendedEvent
    <3> QED
      BY <3>2, <3>3 DEF ShippingInv, LastChangeTellsTheLine
  <2> QED
    BY <2>3, <2>4
<1> QED
  BY <1>1, <1>2, <1>4, <1>5, <1>6, <1>7, ShippedWhileFiring DEF ShippingInv

LEMMA FindLineInv ==
  ASSUME ShippingInv, NEW c \in Clients, NEW o \in Orders, FindLine(c, o)
  PROVE  ShippingInv'
<1> USE DEF ShippingInv, FindLine, connectorVars, shipmentVars
<1>1. ShippingTypeOK'
  BY DEF ShippingTypeOK, Update
<1>2. CreatedOnce' /\ LastChangeTellsTheLine'
  BY DEF CreatedOnce, LastChangeTellsTheLine, TellsChange
<1>3. FoundLineExists'
  BY DEF FoundLineExists, ShippingTypeOK
<1>4. ShipmentsAreLogged' /\ LoggedAreShipped' /\ OneShipmentPerOrder' /\ AcknowledgedIsLogged'
  BY DEF ShipmentsAreLogged, LoggedAreShipped, OneShipmentPerOrder, AcknowledgedIsLogged
<1> QED
  BY <1>1, <1>2, <1>3, <1>4

LEMMA SaveLineInv ==
  ASSUME ShippingInv, NEW c \in Clients, NEW new \in Statuses, SaveLine(c, new)
  PROVE  ShippingInv'
<1> DEFINE o == update[c].order
           old == update[c].old
           e == [order |-> o, type |-> "OrderLineUpdated", old |-> old, new |-> new]
<1>1. /\ ShippingTypeOK /\ o \in Orders /\ old \in Statuses /\ line[o] # NoOrder
  BY DEF ShippingInv, SaveLine, ShippingTypeOK, Update, FoundLineExists
<1>2. /\ line' = IF new = old THEN line ELSE [line EXCEPT ![o] = new]
      /\ Fire(e) /\ update' = [update EXCEPT ![c] = NoUpdate]
      /\ UNCHANGED <<connectorVars, shipmentVars, restarts>>
  BY DEF SaveLine
<1>3. /\ e \in Event /\ e.order = o /\ e.type = "OrderLineUpdated"
      /\ e.old = old /\ e.new = new
  BY <1>1 DEF Event, Changed
<1> HIDE DEF o, old, e
<1>4. /\ \A p \in Orders : line[p] # NoOrder => line'[p] # NoOrder
      /\ \A p \in Orders : p # o \/ new = old => line'[p] = line[p]
      /\ new # old => line'[o] = new
  BY <1>1, <1>2, ShippingAssumption DEF ShippingTypeOK
<1>5. ShippingTypeOK'
  BY <1>1, <1>2, <1>3, AppendedEvent DEF ShippingTypeOK, connectorVars, shipmentVars
<1>6. CreatedOnce'
  <2>1. \A n \in DOMAIN events : events[n].order \in Orders
    BY <1>1, <1>2, <1>3, AppendedEvent DEF Event, Created, Changed
  <2> QED
    BY <1>1, <1>2, <1>3, <1>4, <2>1, AppendedEvent DEF ShippingInv, CreatedOnce
<1>7. FoundLineExists'
  <2>1. \A d \in Clients : update'[d] # NoUpdate =>
          update'[d] = update[d] /\ update[d].order \in Orders
    BY <1>1, <1>2 DEF ShippingTypeOK, Update
  <2> QED
    BY <1>4, <2>1 DEF ShippingInv, FoundLineExists
<1>8. LastChangeTellsTheLine'
  <2> SUFFICES ASSUME NEW p \in Orders
               PROVE  \/ /\ \A n \in DOMAIN events' : ~ TellsChange(n, p)'
                         /\ line'[p] \in {NoOrder, "ENTERED"}
                      \/ \E n \in DOMAIN events' :
                           /\ TellsChange(n, p)' /\ line'[p] = events'[n].new
                           /\ \A k \in DOMAIN events' : TellsChange(k, p)' => k <= n
    BY DEF LastChangeTellsTheLine
  <2> PICK last \in Nat : last = Len(events) + 1
    BY <1>1 DEF ShippingTypeOK
  <2>1. \A n \in DOMAIN events : TellsChange(n, p)' <=> TellsChange(n, p)
    BY <1>1, <1>2, <1>3, AppendedEvent DEF TellsChange
  <2>2. /\ DOMAIN events' = DOMAIN events \union {last} /\ last \notin DOMAIN events
        /\ events'[last] = e /\ \A k \in DOMAIN events' : k <= last
        /\ \A n \in DOMAIN events : events'[n] = events[n]
    BY <1>1, <1>2, <1>3, AppendedEvent DEF ShippingTypeOK
  <2>3. CASE p = o /\ new # old
    <3>1. TellsChange(last, p)' /\ line'[p] = events'[last].new
      BY <1>3, <1>4, <2>2, <2>3 DEF TellsChange
    <3> QED
      BY <2>2, <3>1
  <2>4. CASE ~ (p = o /\ new # old)
    <3>1. line'[p] = line[p] /\ ~ TellsChange(last, p)'
      BY <1>3, <1>4, <2>2, <2>4 DEF TellsChange
    <3>2. CASE /\ \A n \in DOMAIN events : ~ TellsChange(n, p)
               /\ line[p] \in {NoOrder, "ENTERED"}
      BY <2>1, <2>2, <3>1, <3>2
    <3>3. CASE \E n \in DOMAIN events :
                 /\ TellsChange(n, p) /\ line[p] = events[n].new
                 /\ \A k \in DOMAIN events : TellsChange(k, p) => k <= n
      BY <2>1, <2>2, <3>1, <3>3
    <3> QED
      BY <3>2, <3>3 DEF ShippingInv, LastChangeTellsTheLine
  <2> QED
    BY <2>3, <2>4
<1> QED
  BY <1>2, <1>3, <1>5, <1>6, <1>7, <1>8, ShippedWhileFiring DEF ShippingInv

-------------------------------------------------------------------------------
\* The connector takes events to the topic, and takes them again.
LEMMA ConnectorInv ==
  ASSUME ShippingInv, Capture \/ FlushOffset \/ RestartConnector
  PROVE  ShippingInv'
<1> USE DEF Capture, FlushOffset, RestartConnector, orderVars, shipmentVars
<1>1. ShippingTypeOK
  BY DEF ShippingInv
<1>2. UNCHANGED <<line, update, events, next, offset, channel, consumed, shipments>>
  OBVIOUS
<1>3. /\ topic' \in Seq(1 .. Len(events)) /\ Len(topic) <= Len(topic')
      /\ captured' \in 0 .. Len(events) /\ flushed' \in 0 .. captured'
      /\ \A n \in 1 .. Len(topic) : topic'[n] = topic[n]
      /\ restarts' \in Nat
  <2>1. CASE Capture
    <3>1. captured' \in 1 .. Len(events) /\ topic \in Seq(1 .. Len(events))
      BY <1>1, <2>1 DEF ShippingTypeOK
    <3>2. topic' = Append(topic, captured')
      BY <2>1
    <3>3. UNCHANGED <<flushed, restarts>>
      BY <2>1
    <3>4. /\ topic' \in Seq(1 .. Len(events)) /\ Len(topic) <= Len(topic')
          /\ \A n \in 1 .. Len(topic) : topic'[n] = topic[n]
      BY <3>1, <3>2
    <3> QED
      BY <1>1, <2>1, <3>1, <3>3, <3>4 DEF ShippingTypeOK
  <2>2. CASE FlushOffset \/ RestartConnector
    BY <1>1, <2>2 DEF ShippingTypeOK
  <2> QED
    BY <2>1, <2>2
<1>4. ShippingTypeOK'
  BY SMTT(30), <1>1, <1>2, <1>3 DEF ShippingTypeOK
<1>5. CreatedOnce' /\ FoundLineExists' /\ LastChangeTellsTheLine'
  BY <1>2 DEF ShippingInv, CreatedOnce, FoundLineExists, LastChangeTellsTheLine, TellsChange
<1>6. ShipmentsAreLogged' /\ LoggedAreShipped' /\ OneShipmentPerOrder'
  BY <1>2 DEF ShippingInv, ShipmentsAreLogged, LoggedAreShipped, OneShipmentPerOrder
<1>7. AcknowledgedIsLogged'
  <2>1. \A n \in offset + 1 .. next : n \in 1 .. Len(topic)
    BY <1>1 DEF ShippingTypeOK
  <2> QED
    BY <1>2, <1>3, <2>1 DEF ShippingInv, AcknowledgedIsLogged
<1> QED
  BY <1>4, <1>5, <1>6, <1>7 DEF ShippingInv

-------------------------------------------------------------------------------
\* The consumer.

\* What handling an event does to the log and to the shipments.
LEMMA HandledEvent ==
  ASSUME ShippingInv, NEW id \in DOMAIN events, OnOrderEvent(id)
  PROVE  /\ consumed' = consumed \union {id}
         /\ shipments' \in Seq(Orders)
         /\ \/ shipments' = shipments
               /\ (id \in consumed \/ events[id].type # "OrderCreated")
            \/ /\ id \notin consumed /\ events[id].type = "OrderCreated"
               /\ shipments' = Append(shipments, events[id].order)
<1>1. events[id] \in Event /\ shipments \in Seq(Orders)
  BY DEF ShippingInv, ShippingTypeOK
<1>2. events[id].order \in Orders
  BY <1>1 DEF Event, Created, Changed
<1>3. CASE id \in consumed
  BY <1>1, <1>3 DEF OnOrderEvent
<1>4. CASE id \notin consumed /\ events[id].type = "OrderCreated"
  <2>1. shipments' = shipments \o <<events[id].order>> /\ consumed' = consumed \union {id}
    BY <1>4 DEF OnOrderEvent, ShipmentOf
  <2>2. shipments \o <<events[id].order>> = Append(shipments, events[id].order)
    BY <1>1, <1>2
  <2> QED
    BY <1>1, <1>2, <1>4, <2>1, <2>2
<1>5. CASE id \notin consumed /\ events[id].type # "OrderCreated"
  <2>1. shipments' = shipments \o <<>> /\ consumed' = consumed \union {id}
    BY <1>5 DEF OnOrderEvent, ShipmentOf
  <2>2. shipments \o <<>> = shipments
    BY <1>1
  <2> QED
    BY <1>1, <1>5, <2>1, <2>2
<1> QED
  BY <1>3, <1>4, <1>5

LEMMA OnMessageInv ==
  ASSUME ShippingInv, OnMessage
  PROVE  ShippingInv'
<1> DEFINE id == topic[next + 1]
<1>1. /\ ShippingTypeOK /\ next + 1 \in DOMAIN topic /\ id \in DOMAIN events
      /\ OnOrderEvent(id)
  BY DEF ShippingInv, ShippingTypeOK, OnMessage
<1>2. /\ next' = next + 1
      /\ UNCHANGED <<line, update, events, captured, flushed, topic, offset, channel, restarts>>
  BY DEF OnMessage, orderVars, connectorVars
<1> HIDE DEF id
<1>0. /\ consumed' = consumed \union {id} /\ shipments' \in Seq(Orders)
      /\ \/ shipments' = shipments /\ (id \in consumed \/ events[id].type # "OrderCreated")
         \/ /\ id \notin consumed /\ events[id].type = "OrderCreated"
            /\ shipments' = Append(shipments, events[id].order)
  BY <1>1, HandledEvent
<1>3. ShippingTypeOK'
  <2>1. next' \in 0..Len(topic) /\ offset \in 0..next'
    BY <1>1, <1>2 DEF ShippingTypeOK
  <2>2. consumed' \subseteq 1..Len(events)
    BY <1>0, <1>1 DEF ShippingTypeOK
  <2>3. /\ line' \in [Orders -> Statuses \union {NoOrder}]
        /\ update' \in [Clients -> {NoUpdate} \union Update]
        /\ events' \in Seq(Event)
    BY <1>1, <1>2 DEF ShippingTypeOK
  <2>4. /\ captured' \in 0..Len(events') /\ flushed' \in 0..captured'
        /\ topic' \in Seq(1..Len(events')) /\ offset' \in 0..next'
        /\ channel' \in {"open", "failed"} /\ restarts' \in Nat
    BY <1>1, <1>2, <2>1 DEF ShippingTypeOK
  <2>5. next' \in 0..Len(topic') /\ consumed' \subseteq 1..Len(events')
    BY <1>2, <2>1, <2>2
  <2> QED
    BY <1>0, <2>3, <2>4, <2>5 DEF ShippingTypeOK
<1>4. CreatedOnce' /\ FoundLineExists' /\ LastChangeTellsTheLine'
  BY <1>2 DEF ShippingInv, CreatedOnce, FoundLineExists, LastChangeTellsTheLine, TellsChange
<1>5. AcknowledgedIsLogged'
  <2>1. next \in Nat /\ offset \in Nat
    BY <1>1 DEF ShippingTypeOK
  <2>2. \A n \in offset + 1..next : topic[n] \in consumed'
    BY <1>0 DEF ShippingInv, AcknowledgedIsLogged
  <2>3. topic[next + 1] \in consumed'
    BY <1>0 DEF id
  <2>4. \A n \in offset + 1..next + 1 : n \in offset + 1..next \/ n = next + 1
    BY <2>1
  <2>5. \A n \in offset + 1..next + 1 : topic[n] \in consumed'
    BY <2>2, <2>3, <2>4
  <2> QED
    BY <1>2, <2>5 DEF AcknowledgedIsLogged
<1>6. CASE shipments' = shipments /\ (id \in consumed \/ events[id].type # "OrderCreated")
  BY <1>1, <1>2, <1>3, <1>4, <1>5, <1>6, <1>0
     DEF ShippingInv, ShipmentsAreLogged, LoggedAreShipped, OneShipmentPerOrder
<1>7. CASE /\ id \notin consumed /\ events[id].type = "OrderCreated"
           /\ shipments' = Append(shipments, events[id].order)
  <2>0. events[id].order \in Orders /\ Len(shipments) + 1 \in Nat
    BY <1>1 DEF ShippingTypeOK, Event, Created, Changed
  <2> PICK last \in Nat, o \in Orders : o = events[id].order /\ last = Len(shipments) + 1
    BY <2>0
  <2>1. /\ DOMAIN shipments' = DOMAIN shipments \union {last} /\ last \notin DOMAIN shipments
        /\ shipments'[last] = o
        /\ \A k \in DOMAIN shipments : shipments'[k] = shipments[k]
    BY <1>1, <1>7 DEF ShippingTypeOK
  <2>2. consumed' = consumed \union {id} /\ consumed \subseteq DOMAIN events
    BY <1>0, <1>1 DEF ShippingTypeOK
  <2>3. \A k \in DOMAIN shipments : shipments[k] # o
    BY <1>1, <1>7, <2>2 DEF ShippingInv, ShipmentsAreLogged, CreatedOnce
  <2>4. OneShipmentPerOrder'
    BY <2>1, <2>3 DEF ShippingInv, OneShipmentPerOrder
  <2>5. ShipmentsAreLogged'
    BY <1>2, <1>7, <2>1, <2>2 DEF ShippingInv, ShipmentsAreLogged
  <2>6. LoggedAreShipped'
    BY <1>2, <2>1, <2>2 DEF ShippingInv, LoggedAreShipped
  <2> QED
    BY <1>3, <1>4, <1>5, <2>4, <2>5, <2>6 DEF ShippingInv
<1> QED
  BY <1>1, <1>6, <1>7, <1>0

LEMMA ConsumerInv ==
  ASSUME ShippingInv, FailMessage \/ CommitOffset \/ Redeliver \/ RestartShipmentService
  PROVE  ShippingInv'
<1> DEFINE kept  == UNCHANGED <<consumed, shipments>>
           empty == consumed' = {} /\ shipments' = <<>>
<1>1. ShippingTypeOK
  BY DEF ShippingInv
<1>2. /\ UNCHANGED <<line, update, events, captured, flushed, topic>>
      /\ kept \/ empty
      /\ next' \in 0 .. Len(topic) /\ offset' \in 0 .. next'
      /\ channel' \in {"open", "failed"} /\ restarts' \in Nat
      /\ UNCHANGED <<next, offset, consumed>> \/ next' = offset'
  <2>1. CASE FailMessage
    BY <1>1, <2>1 DEF FailMessage, orderVars, connectorVars, ShippingTypeOK
  <2>2. CASE CommitOffset
    BY <1>1, <2>2 DEF CommitOffset, orderVars, connectorVars, ShippingTypeOK
  <2>3. CASE Redeliver
    BY <1>1, <2>3 DEF Redeliver, orderVars, connectorVars, ShippingTypeOK
  <2>4. CASE RestartShipmentService
    BY <1>1, <2>4 DEF RestartShipmentService, orderVars, connectorVars, ShippingTypeOK
  <2> QED
    BY <2>1, <2>2, <2>3, <2>4
<1>3. ShippingTypeOK'
  <2>1. shipments' \in Seq(Orders)
    <3>1. <<>> \in Seq(Orders)
      OBVIOUS
    <3> QED
      BY <1>1, <1>2, <3>1 DEF ShippingTypeOK
  <2>2. consumed' \subseteq 1 .. Len(events)
    BY <1>1, <1>2 DEF ShippingTypeOK
  <2> QED
    BY <1>1, <1>2, <2>1, <2>2 DEF ShippingTypeOK
<1>4. CreatedOnce' /\ FoundLineExists' /\ LastChangeTellsTheLine'
  BY <1>2 DEF ShippingInv, CreatedOnce, FoundLineExists, LastChangeTellsTheLine, TellsChange
<1>5. ShipmentsAreLogged' /\ LoggedAreShipped' /\ OneShipmentPerOrder'
  BY <1>2 DEF ShippingInv, ShipmentsAreLogged, LoggedAreShipped, OneShipmentPerOrder
<1>6. AcknowledgedIsLogged'
  <2>1. CASE UNCHANGED <<next, offset, consumed>>
    BY <1>2, <2>1 DEF ShippingInv, AcknowledgedIsLogged
  <2>2. CASE next' = offset'
    <3>1. offset' \in Nat /\ next' = offset'
      BY <1>1, <1>2, <2>2 DEF ShippingTypeOK
    <3>2. \A k \in Nat : k + 1 .. k = {}
      OBVIOUS
    <3> QED
      BY <3>1, <3>2 DEF AcknowledgedIsLogged
  <2> QED
    BY <1>2, <2>1, <2>2
<1> QED
  BY <1>3, <1>4, <1>5, <1>6 DEF ShippingInv

-------------------------------------------------------------------------------
LEMMA ShippingStepInv ==
  ShippingInv /\ [ShippingNext]_shippingVars => ShippingInv'
<1> SUFFICES ASSUME ShippingInv, [ShippingNext]_shippingVars PROVE ShippingInv'
  OBVIOUS
<1>1. ASSUME NEW o \in Orders, AddOrder(o) PROVE ShippingInv'
  BY <1>1, AddOrderInv
<1>2. ASSUME NEW c \in Clients, NEW o \in Orders, FindLine(c, o) PROVE ShippingInv'
  BY <1>2, FindLineInv
<1>3. ASSUME NEW c \in Clients, NEW new \in Statuses, SaveLine(c, new) PROVE ShippingInv'
  BY <1>3, SaveLineInv
<1>4. CASE Capture \/ FlushOffset \/ RestartConnector
  BY <1>4, ConnectorInv
<1>5. CASE OnMessage
  BY <1>5, OnMessageInv
<1>6. CASE FailMessage \/ CommitOffset \/ Redeliver \/ RestartShipmentService
  BY <1>6, ConsumerInv
<1>7. CASE UNCHANGED shippingVars
  BY <1>7 DEF ShippingInv, ShippingTypeOK, CreatedOnce, FoundLineExists, ShipmentsAreLogged,
              LoggedAreShipped, OneShipmentPerOrder, AcknowledgedIsLogged,
              LastChangeTellsTheLine, TellsChange, shippingVars, orderVars, connectorVars,
              shipmentVars
<1> QED
  BY <1>1, <1>2, <1>3, <1>4, <1>5, <1>6, <1>7 DEF ShippingNext

\* In every reachable state the types are right, an order has at most one shipment,
\* what is acknowledged is logged, and the last change that was told of a line is its
\* status (OrderService, OrderEventHandler, MessageLog).
THEOREM ShippingInvariant == ShippingSpec => []ShippingInv
<1>1. ShippingSafety => []ShippingInv
  BY ShippingInitInv, ShippingStepInv, PTL DEF ShippingSafety
<1> QED
  BY <1>1, PTL DEF ShippingSpec

-------------------------------------------------------------------------------
\* The log makes of the events that are captured, delivered and redelivered any
\* number of times events that are handled once (MessageLog.alreadyProcessed,
\* processed).
THEOREM LogHandlesOnce == ShippingSpec => ImplementsHandledOnce
<1>1. ShippingInit => Once!OnceInit
  BY DEF ShippingInit, Once!OnceInit
<1>2. ShippingInv /\ [ShippingNext]_shippingVars => [Once!OnceNext]_(Once!onceVars)
  <2> SUFFICES ASSUME ShippingInv, [ShippingNext]_shippingVars
               PROVE  Once!OnceNext \/ UNCHANGED <<events, consumed, shipments>>
    BY DEF Once!onceVars
  <2>1. ASSUME NEW e \in Event, Fire(e), UNCHANGED shipmentVars
        PROVE  Once!OnceNext
    BY <2>1 DEF Fire, shipmentVars, Once!OnceNext, Once!Publish
  <2>2. ASSUME NEW o \in Orders, AddOrder(o) PROVE Once!OnceNext
    <3>1. [order |-> o, type |-> "OrderCreated"] \in Event
      BY DEF Event, Created
    <3> QED
      BY <2>1, <2>2, <3>1 DEF AddOrder
  <2>3. ASSUME NEW c \in Clients, NEW new \in Statuses, SaveLine(c, new) PROVE Once!OnceNext
    <3> DEFINE e == [order |-> update[c].order, type |-> "OrderLineUpdated",
                     old |-> update[c].old, new |-> new]
    <3>1. update[c] \in Update
      BY <2>3 DEF ShippingInv, ShippingTypeOK, SaveLine
    <3>2. e \in Event
      BY <3>1 DEF Update, Event, Changed
    <3>3. Fire(e) /\ UNCHANGED shipmentVars
      BY <2>3 DEF SaveLine
    <3> QED
      BY <2>1, <3>2, <3>3
  <2>4. CASE OnMessage
    <3> DEFINE id == topic[next + 1]
    <3>1. id \in DOMAIN events /\ OnOrderEvent(id) /\ UNCHANGED events
      BY <2>4 DEF ShippingInv, ShippingTypeOK, OnMessage, orderVars
    <3> HIDE DEF id
    <3>2. CASE id \in consumed
      BY <3>1, <3>2 DEF OnOrderEvent
    <3>3. CASE id \notin consumed
      BY <3>1, <3>3 DEF OnOrderEvent, Once!OnceNext, Once!Handle
    <3> QED
      BY <3>2, <3>3
  <2>5. CASE RestartShipmentService
    BY <2>5 DEF RestartShipmentService, orderVars, Once!OnceNext, Once!Recreate
  <2>6. CASE \/ \E c \in Clients, o \in Orders : FindLine(c, o)
             \/ Capture \/ FlushOffset \/ RestartConnector
             \/ FailMessage \/ CommitOffset \/ Redeliver \/ UNCHANGED shippingVars
    BY <2>6 DEF FindLine, Capture, FlushOffset, RestartConnector, FailMessage, CommitOffset,
                Redeliver, shippingVars, orderVars, connectorVars, shipmentVars
  <2> QED
    BY <2>2, <2>3, <2>4, <2>5, <2>6 DEF ShippingNext
<1>3. ShippingSafety => []ShippingInv
  BY ShippingInitInv, ShippingStepInv, PTL DEF ShippingSafety
<1> QED
  BY <1>1, <1>2, <1>3, PTL DEF ShippingSpec, ShippingSafety, ImplementsHandledOnce, Once!OnceSpec

===============================================================================
