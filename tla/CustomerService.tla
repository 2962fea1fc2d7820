--------------------------- MODULE CustomerService ---------------------------
(***************************************************************************)
(* The customer service: the credit limit of its one customer and the      *)
(* handler of the credit-approval requests.  The handler, its outbox event *)
(* and its message log are one transaction; the record is acknowledged     *)
(* after it.  A transaction that fails makes the channel fail: nothing     *)
(* more is taken from it until the service is restarted.                   *)
(***************************************************************************)
EXTENDS SagaTopics

CONSTANT InitialLimit   \* openlimit of the customer that createTestData inserts

ASSUME LimitAssumption == InitialLimit \in Nat

VARIABLES
  openLimit,      \* the customer's row
  creditLog,      \* the requests in the ConsumedMessage table
  creditSkipped,  \* the requests a restart has left behind: their offset was committed
  creditFailed    \* the credit channel has failed

customerVars == <<openLimit, creditLog, creditSkipped, creditFailed>>

CustomerTypeOK ==
  /\ openLimit \in Int
  /\ creditLog \subseteq requests
  /\ creditSkipped \subseteq requests
  /\ creditFailed \in BOOLEAN

CustomerInit ==
  /\ openLimit = InitialLimit
  /\ creditLog = {} /\ creditSkipped = {}
  /\ creditFailed = FALSE

-------------------------------------------------------------------------------
\* Mutant: an amount that uses up the limit fits.
FitsExactly(due) == openLimit - due >= 0

FitsCreditLimit(due) == openLimit - due > 0

\* The transaction's outbox event and its entry in the message log.
AnswerCredit(e, status) ==
  /\ responses' = responses \union {NewResponse(e.saga, CREDIT_APPROVAL, status)}
  /\ creditLog' = creditLog \union {e}
  /\ UNCHANGED <<requests, creditSkipped, creditFailed>>

\* A request that is polled while the channel is up.
PollsCredit(e) ==
  /\ e \in requests \ creditSkipped
  /\ e.step = CREDIT_APPROVAL
  /\ ~ creditFailed

\* Mutant: the message log is not consulted.
TakesCreditAgain(e) == PollsCredit(e)

\* alreadyProcessed does not find it in the message log.
TakesCredit(e) == PollsCredit(e) /\ e \notin creditLog

ApproveCredit(e) ==
  /\ TakesCredit(e)
  /\ e.saga \notin UnknownCustomer
  /\ e.type = "REQUEST"
  /\ FitsCreditLimit(paymentDue[e.saga])
  /\ openLimit' = openLimit - paymentDue[e.saga]
  /\ AnswerCredit(e, "APPROVED")

RejectCredit(e) ==
  /\ TakesCredit(e)
  /\ e.saga \notin UnknownCustomer
  /\ e.type = "REQUEST"
  /\ ~ FitsCreditLimit(paymentDue[e.saga])
  /\ AnswerCredit(e, "REJECTED")
  /\ UNCHANGED openLimit

CancelCredit(e) ==
  /\ TakesCredit(e)
  /\ e.saga \notin UnknownCustomer
  /\ e.type = "CANCEL"
  /\ openLimit' = openLimit + paymentDue[e.saga]
  /\ AnswerCredit(e, "CANCELLED")

\* The transaction fails, of a new request or of one delivered again, and is rolled
\* back; that of an unknown customer always does (EntityNotFoundException).
\* message.ack() is not reached, and the channel fails.
FailCredit(e) ==
  /\ PollsCredit(e)
  /\ creditFailed' = TRUE
  /\ UNCHANGED <<requests, responses, openLimit, creditLog, creditSkipped>>

OnCreditEvent(e) ==
  ApproveCredit(e) \/ RejectCredit(e) \/ CancelCredit(e) \/ FailCredit(e)

CustomerNext == \E e \in requests : OnCreditEvent(e)

\* A new process: drop-and-create empties the tables and createTestData inserts
\* the customer anew.  The offsets are the broker's: message.ack() follows the
\* handler's transaction and the offset is committed later still, so any of the
\* handled requests may be polled again.
RestartCustomerService ==
  /\ openLimit' = InitialLimit
  /\ \E committed \in SUBSET creditLog : creditSkipped' = creditSkipped \union committed
  /\ creditLog' = {}
  /\ creditFailed' = FALSE
  /\ UNCHANGED <<requests, responses>>

===============================================================================
