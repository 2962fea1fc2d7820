----------------------------- MODULE OrderShipping -----------------------------
(***************************************************************************)
(* The outbox example: the order service, which writes its events with its *)
(* orders; the connector, which takes them to the topic Order.events; and  *)
(* the shipment service, which logs what it has consumed.                  *)
(*                                                                         *)
(* An order has one line.  An event is known by its place in the order of  *)
(* commits, which stands for its UUID.                                     *)
(***************************************************************************)
EXTENDS Naturals, Sequences, SequencesExt

CONSTANTS
  Orders,
  Statuses,      \* of a line; a new one is "ENTERED"
  Clients,       \* request threads of the order service
  NoOrder,
  MaxEvents,     \* bounds the events
  MaxRestarts    \* bounds redeliveries and restarts

ASSUME ShippingAssumption ==
  /\ NoOrder \notin Statuses /\ "ENTERED" \in Statuses
  /\ MaxEvents \in Nat /\ MaxRestarts \in Nat

VARIABLES
  line,       \* the status of the line of each order
  update,     \* what each client has found
  events,     \* rows of the outbox in the order of their commits
  captured,   \* how many of them the connector has read
  flushed,    \* its stored offset
  topic,      \* the events in Order.events, by their ids
  next,       \* how many records the consumer has acknowledged
  offset,     \* its committed offset
  channel,    \* of the consumer: open or failed
  consumed,   \* the ids in the table ConsumedMessage
  shipments,  \* the rows of the table Shipment: orders
  restarts

orderVars    == <<line, update, events>>
connectorVars == <<captured, flushed, topic>>
shipmentVars == <<next, offset, channel, consumed, shipments>>
shippingVars == <<orderVars, connectorVars, shipmentVars, restarts>>

Created == [order: Orders, type: {"OrderCreated"}]
Changed == [order: Orders, type: {"OrderLineUpdated"}, old: Statuses, new: Statuses]
Event   == Created \union Changed

NoUpdate == [order |-> NoOrder]
Update   == [order: Orders, old: Statuses]

ShippingInit ==
  /\ line = [o \in Orders |-> NoOrder] /\ update = [c \in Clients |-> NoUpdate]
  /\ events = <<>>
  /\ captured = 0 /\ flushed = 0 /\ topic = <<>>
  /\ next = 0 /\ offset = 0 /\ channel = "open"
  /\ consumed = {} /\ shipments = <<>>
  /\ restarts = 0

-------------------------------------------------------------------------------
\* The order service.
Fire(e) == Len(events) < MaxEvents /\ events' = Append(events, e)

\* addOrder()
AddOrder(o) ==
  /\ line[o] = NoOrder
  /\ line' = [line EXCEPT ![o] = "ENTERED"]
  /\ Fire([order |-> o, type |-> "OrderCreated"])
  /\ UNCHANGED <<update, connectorVars, shipmentVars, restarts>>

\* updateOrderLine(): the line is read, without a lock and without a version.
FindLine(c, o) ==
  /\ update[c] = NoUpdate
  /\ line[o] # NoOrder
  /\ update' = [update EXCEPT ![c] = [order |-> o, old |-> line[o]]]
  /\ UNCHANGED <<line, events, connectorVars, shipmentVars, restarts>>

\* Mutant: the line is written even when it was found with its new status.
SaveLineAlways(c, new) ==
  /\ update[c] # NoUpdate
  /\ LET o == update[c].order old == update[c].old IN
     /\ line' = [line EXCEPT ![o] = new]
     /\ Fire([order |-> o, type |-> "OrderLineUpdated", old |-> old, new |-> new])
  /\ update' = [update EXCEPT ![c] = NoUpdate]
  /\ UNCHANGED <<connectorVars, shipmentVars, restarts>>

\* The commit.  A line that was found with its new status is not written, but the
\* event is.
SaveLine(c, new) ==
  /\ update[c] # NoUpdate
  /\ LET o == update[c].order old == update[c].old IN
     /\ line' = IF new = old THEN line ELSE [line EXCEPT ![o] = new]
     /\ Fire([order |-> o, type |-> "OrderLineUpdated", old |-> old, new |-> new])
  /\ update' = [update EXCEPT ![c] = NoUpdate]
  /\ UNCHANGED <<connectorVars, shipmentVars, restarts>>

-------------------------------------------------------------------------------
\* The connector.
Capture ==
  /\ captured < Len(events)
  /\ captured' = captured + 1
  /\ topic' = Append(topic, captured')
  /\ UNCHANGED <<orderVars, flushed, shipmentVars, restarts>>

FlushOffset ==
  /\ flushed # captured
  /\ flushed' = captured
  /\ UNCHANGED <<orderVars, captured, topic, shipmentVars, restarts>>

RestartConnector ==
  /\ restarts < MaxRestarts /\ restarts' = restarts + 1
  /\ captured' = flushed
  /\ UNCHANGED <<orderVars, flushed, topic, shipmentVars>>

-------------------------------------------------------------------------------
\* The shipment service.
ShipmentOf(e) == IF e.type = "OrderCreated" THEN <<e.order>> ELSE <<>>

\* Mutant: the log is not asked.
OnOrderEventUnasked(id) ==
  /\ shipments' = shipments \o ShipmentOf(events[id])
  /\ consumed' = consumed \union {id}

\* onOrderEvent(), one transaction.
OnOrderEvent(id) ==
  IF id \in consumed THEN UNCHANGED <<consumed, shipments>>
  ELSE /\ shipments' = shipments \o ShipmentOf(events[id])
       /\ consumed' = consumed \union {id}

\* onMessage(): the record is acknowledged when the transaction is committed.
OnMessage ==
  /\ channel = "open" /\ next < Len(topic)
  /\ OnOrderEvent(topic[next + 1])
  /\ next' = next + 1
  /\ UNCHANGED <<orderVars, connectorVars, offset, channel, restarts>>

\* The transaction throws: nothing is acknowledged any more.
FailMessage ==
  /\ channel = "open" /\ next < Len(topic)
  /\ channel' = "failed"
  /\ UNCHANGED <<orderVars, connectorVars, next, offset, consumed, shipments, restarts>>

\* Mutant: the record that is being handled is committed too.
CommitOffsetEarly ==
  /\ next < Len(topic)
  /\ offset' = next + 1
  /\ UNCHANGED <<orderVars, connectorVars, next, channel, consumed, shipments, restarts>>

CommitOffset ==
  /\ offset # next
  /\ offset' = next
  /\ UNCHANGED <<orderVars, connectorVars, next, channel, consumed, shipments, restarts>>

\* The partition is taken away and given back.
Redeliver ==
  /\ restarts < MaxRestarts /\ restarts' = restarts + 1
  /\ channel = "open"
  /\ next' = offset
  /\ UNCHANGED <<orderVars, connectorVars, offset, channel, consumed, shipments>>

\* The service starts with drop-and-create: its tables are empty.
RestartShipmentService ==
  /\ restarts < MaxRestarts /\ restarts' = restarts + 1
  /\ next' = offset /\ channel' = "open"
  /\ consumed' = {} /\ shipments' = <<>>
  /\ UNCHANGED <<orderVars, connectorVars, offset>>

ShippingNext ==
  \/ \E o \in Orders : AddOrder(o)
  \/ \E c \in Clients : \/ \E o \in Orders : FindLine(c, o)
                        \/ \E new \in Statuses : SaveLine(c, new)
  \/ Capture \/ FlushOffset \/ RestartConnector
  \/ OnMessage \/ FailMessage \/ CommitOffset \/ Redeliver \/ RestartShipmentService

ShippingSafety == ShippingInit /\ [][ShippingNext]_shippingVars

\* The connector and the consumer take what there is.
ShippingSpec ==
  ShippingSafety /\ WF_shippingVars(Capture) /\ WF_shippingVars(OnMessage)

(***************************************************************************)
(* Properties.                                                             *)
(***************************************************************************)
ShippingTypeOK ==
  /\ line \in [Orders -> Statuses \union {NoOrder}]
  /\ update \in [Clients -> {NoUpdate} \union Update]
  /\ events \in Seq(Event)
  /\ captured \in 0 .. Len(events) /\ flushed \in 0 .. captured
  /\ topic \in Seq(1 .. Len(events))
  /\ next \in 0 .. Len(topic) /\ offset \in 0 .. next
  /\ channel \in {"open", "failed"}
  /\ consumed \subseteq 1 .. Len(events)
  /\ shipments \in Seq(Orders)
  /\ restarts \in Nat

\* An order is placed once.
CreatedOnce ==
  /\ \A n \in DOMAIN events : line[events[n].order] # NoOrder
  /\ \A n, k \in DOMAIN events :
       /\ events[n].type = "OrderCreated" /\ events[k].type = "OrderCreated"
       /\ events[n].order = events[k].order
       => n = k

FoundLineExists ==
  \A c \in Clients : update[c] # NoUpdate => line[update[c].order] # NoOrder

\* There is a shipment for the orders whose creation is logged, and for no other.
ShipmentsAreLogged ==
  \A k \in DOMAIN shipments :
    \E n \in consumed :
      events[n].type = "OrderCreated" /\ events[n].order = shipments[k]

LoggedAreShipped ==
  \A n \in consumed :
    events[n].type = "OrderCreated" =>
      \E k \in DOMAIN shipments : shipments[k] = events[n].order

\* An order is shipped once, however often its event is captured, delivered and
\* delivered again (README: "excluding any duplicate messages").
OneShipmentPerOrder ==
  \A k, m \in DOMAIN shipments : shipments[k] = shipments[m] => k = m

\* Only what is logged is acknowledged: what a restart will not deliver again had
\* its effect before.
AcknowledgedIsLogged == \A n \in offset + 1 .. next : topic[n] \in consumed

\* The status of a line is the new one of the last event that tells a change.  An
\* event whose statuses are equal tells nothing: its update may have found a status
\* that another has changed since.
TellsChange(n, o) ==
  events[n].order = o /\ events[n].type = "OrderLineUpdated" /\ events[n].old # events[n].new

LastChangeTellsTheLine ==
  \A o \in Orders :
    \/ /\ \A n \in DOMAIN events : ~ TellsChange(n, o)
       /\ line[o] \in {NoOrder, "ENTERED"}
    \/ \E n \in DOMAIN events :
         /\ TellsChange(n, o) /\ line[o] = events[n].new
         /\ \A k \in DOMAIN events : TellsChange(k, o) => k <= n

ShippingInv ==
  /\ ShippingTypeOK /\ CreatedOnce /\ FoundLineExists /\ ShipmentsAreLogged
  /\ LoggedAreShipped /\ OneShipmentPerOrder /\ AcknowledgedIsLogged /\ LastChangeTellsTheLine

Once == INSTANCE HandledOnce WITH
  Effect <- ShipmentOf, Events <- Event,
  published <- events, handled <- consumed, effects <- shipments

\* The outbox, the connector, the topic and the log together handle every event
\* once in the lifetime of the shipment service's database.
ImplementsHandledOnce == Once!OnceSpec

\* An event that is written, or on its way, is handled in the end, unless the channel
\* fails.
Outstanding(n) ==
  n \in DOMAIN events /\ (captured < n \/ \E k \in next + 1 .. Len(topic) : topic[k] = n)

EveryEventHandled ==
  \A n \in 1 .. MaxEvents : Outstanding(n) ~> (n \in consumed \/ channel = "failed")

===============================================================================
