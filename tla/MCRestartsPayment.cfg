\* The payment service is restarted.  A good card, a bad card and an unknown customer:
\* the last is placed beside one of the others, and fails the channel of credit.
CONSTANTS
  o1 = o1  o2 = o2  o3 = o3  t1 = t1  t2 = t2
  Sagas = {o1, o2, o3}
  paymentDue <- TwoDue
  InvalidCard = {o2}
  UnknownCustomer = {o3}
  InitialLimit = 4
  Threads = {t1, t2}
  RETRIES = 1
  Restartable = {"payment"}
  MaxRestarts = 1
  MaxRepeats = 2
SPECIFICATION OneOrderSpec
INVARIANTS DecisionMatchesAnswers
PROPERTIES DecisionSurvivesRestarts DecidedUnlessKeptOpen
CHECK_DEADLOCK FALSE
