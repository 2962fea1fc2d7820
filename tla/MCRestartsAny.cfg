\* Any of the services is restarted: the order fits the limit as often as it is granted.
CONSTANTS
  o1 = o1  o2 = o2  o3 = o3  t1 = t1  t2 = t2
  Sagas = {o1}
  paymentDue <- OneDue
  InvalidCard = {}
  UnknownCustomer = {}
  InitialLimit = 7
  Threads = {t1}
  RETRIES = 2
  Restartable = {"customer", "order", "payment"}
  MaxRestarts = 2
  MaxRepeats = 2
SPECIFICATION RestartsSafety
INVARIANTS AcceptedOrdersArePaid
PROPERTIES LostSagasStayLost
CHECK_DEADLOCK FALSE
