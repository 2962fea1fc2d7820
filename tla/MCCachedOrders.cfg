\* Two clients that update an order with two lines, one of them in vain.
CONSTANTS
  LineIds = {1, 2}
  Statuses = {"ENTERED", "CANCELLED"}
  Clients = {c1, c2}
  MaxVersion = 1
  MaxRestarts = 1
  MaxRecords = 2
SPECIFICATION OrderSpec
INVARIANTS CachedInv
PROPERTIES NoUpdateIsLost CacheConverges
\* The last update is made, and everything is handled.
CHECK_DEADLOCK FALSE
