\* An order whose only line has an id beyond the cache of java.lang.Long.
CONSTANTS
  LineIds = {128}
  Statuses = {"ENTERED", "CANCELLED"}
  Clients = {c1, c2}
  MaxVersion = 1
  MaxRestarts = 1
  MaxRecords = 2
SPECIFICATION OrderSpec
INVARIANTS EveryLineOnce
CHECK_DEADLOCK FALSE
