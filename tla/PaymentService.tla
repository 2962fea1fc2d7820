---------------------------- MODULE PaymentService ----------------------------
(***************************************************************************)
(* The payment service: the payments it has stored and the handler of the  *)
(* payment requests, one transaction with its outbox event and its message *)
(* log.  A record whose transaction fails is not acknowledged: the channel *)
(* fails, and takes nothing more until the service is restarted.           *)
(***************************************************************************)
EXTENDS SagaTopics

VARIABLES
  payments,       \* the number of rows of the Payment table that name the order
  paymentLog,     \* the requests in the ConsumedMessage table
  paymentSkipped, \* the requests a restart has left behind: their offset was committed
  paymentFailed   \* the payment channel has failed

paymentVars == <<payments, paymentLog, paymentSkipped, paymentFailed>>

PaymentTypeOK ==
  /\ payments \in [Sagas -> Nat]
  /\ paymentLog \subseteq requests
  /\ paymentSkipped \subseteq requests
  /\ paymentFailed \in BOOLEAN

PaymentInit ==
  /\ payments = [s \in Sagas |-> 0]
  /\ paymentLog = {} /\ paymentSkipped = {}
  /\ paymentFailed = FALSE

\* What the handler answers: a card number ending with "9999" is refused.
PaymentAnswer(e) ==
  IF e.type # "REQUEST" THEN "CANCELLED"
  ELSE IF e.saga \in InvalidCard THEN "FAILED" ELSE "REQUESTED"

\* A request that is polled while the channel is up.
PollsPayment(e) ==
  /\ e \in requests \ paymentSkipped
  /\ e.step = PAYMENT
  /\ ~ paymentFailed

\* Mutant: the message log is not consulted.
TakesPaymentAgain(e) == PollsPayment(e)

\* alreadyProcessed does not find it in the message log.
TakesPayment(e) == PollsPayment(e) /\ e \notin paymentLog

OnPaymentEvent(e) ==
  /\ TakesPayment(e)
  /\ payments' = [payments EXCEPT ![e.saga] = @ + 1]
  /\ responses' = responses \union {NewResponse(e.saga, PAYMENT, PaymentAnswer(e))}
  /\ paymentLog' = paymentLog \union {e}
  /\ UNCHANGED <<requests, paymentSkipped, paymentFailed>>

\* Mutant: a request whose transaction fails is acknowledged all the same.
PassOverPayment(e) ==
  /\ PollsPayment(e)
  /\ paymentSkipped' = paymentSkipped \union {e}
  /\ UNCHANGED <<requests, responses, payments, paymentLog, paymentFailed>>

\* The transaction fails, of a new request or of one delivered again: it is rolled
\* back, message.ack() is not reached, and the channel fails.
FailPayment(e) ==
  /\ PollsPayment(e)
  /\ paymentFailed' = TRUE
  /\ UNCHANGED <<requests, responses, payments, paymentLog, paymentSkipped>>

PaymentNext == \E e \in requests : OnPaymentEvent(e) \/ FailPayment(e)

\* A new process: drop-and-create empties the tables.  Any of the handled requests
\* may be polled again, as its offset may not have been committed yet.
RestartPaymentService ==
  /\ payments' = [s \in Sagas |-> 0]
  /\ \E committed \in SUBSET paymentLog : paymentSkipped' = paymentSkipped \union committed
  /\ paymentLog' = {}
  /\ paymentFailed' = FALSE
  /\ UNCHANGED <<requests, responses>>

===============================================================================
