\* Two requests at a time, three changes of one item.
CONSTANTS
  NoItem = NoItem
  Items = {i1}
  Prices = {p1, p2}
  Clients = {c1, c2}
  MaxTx = 3
SPECIFICATION CacheSpec
INVARIANTS CacheInv StaleOnlyWhileEventPending
PROPERTIES StaleUntilHandled
CHECK_DEADLOCK FALSE
