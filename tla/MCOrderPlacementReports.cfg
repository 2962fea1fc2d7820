\* One order, one consumer thread, and two reports of any content.
CONSTANTS
  o1 = o1  t1 = t1
  Sagas = {o1}
  paymentDue <- Due
  InvalidCard = {}
  UnknownCustomer = {}
  InitialLimit = 6
  Threads = {t1}
  RETRIES = 2
  Reportable <- AllReports
  MaxReports = 2
  MaxFirings = 2
SPECIFICATION ReportsSpec
INVARIANTS ColumnsAgree
CHECK_DEADLOCK FALSE
