\* One request of the service and one transaction by hand, with two changes in
\* all: a record for each task and one for the request.
CONSTANTS
  Transactions = {1, 2}
  Requests = {1}
  MaxChanges = 2
  MaxRecords = 3
  MaxCrashes = 1
SPECIFICATION BoundedSpec
INVARIANTS TypeOK EnricherInv AdminTypeOK NoMatchIsOverlooked UnexplainedChangesAreInSight
PROPERTIES ImplementsAuditLog ExplainedChangesArePublished NoTaskForSeenRequest EveryChangeIsPublished
CHECK_DEADLOCK FALSE
