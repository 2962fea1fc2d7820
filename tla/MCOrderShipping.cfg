\* One order, and two updates of its line at a time.
CONSTANTS
  NoOrder = NoOrder
  Orders = {o1}
  Statuses = {"ENTERED", "SHIPPED"}
  Clients = {c1, c2}
  MaxEvents = 3
  MaxRestarts = 2
SPECIFICATION ShippingSpec
INVARIANTS ShippingInv
PROPERTIES ImplementsHandledOnce EveryEventHandled
\* Everything is placed, captured and shipped.
CHECK_DEADLOCK FALSE
