\* Two orders that compete for the limit, the second with a bad card.
CONSTANTS
  o1 = o1  o2 = o2  t1 = t1  t2 = t2
  Sagas = {o1, o2}
  paymentDue <- CompetingDue
  InvalidCard = {o2}
  UnknownCustomer = {}
  InitialLimit = 5
  Threads = {t1, t2}
  RETRIES = 2
SPECIFICATION Safety
INVARIANTS PlacementInv CreditIsConserved NothingFiredTwice DecisionMatchesParticipants OnlyRedeliveriesConflict
PROPERTIES ChangesAreSerial DecisionIsFinal EverySagaFollowsProtocol ImplementsAtomicPurchase
CHECK_DEADLOCK FALSE
