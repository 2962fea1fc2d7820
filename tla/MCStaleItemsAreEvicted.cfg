\* The constants of MCCacheInvalidation: does a stale item always leave the cache?
CONSTANTS
  NoItem = NoItem
  Items = {i1}
  Prices = {p1, p2}
  Clients = {c1, c2}
  MaxTx = 3
SPECIFICATION CacheSpec
PROPERTIES StaleItemsAreEvicted
CHECK_DEADLOCK FALSE
