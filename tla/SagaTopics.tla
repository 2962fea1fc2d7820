------------------------------ MODULE SagaTopics ------------------------------
(***************************************************************************)
(* What the three services of the order placement saga share: the orders,  *)
(* the two steps, and the topics that carry their outbox events.           *)
(*                                                                         *)
(* An outbox event is committed with the transaction that fires it, and    *)
(* the Debezium connector relays every committed event at least once: a    *)
(* topic is therefore the set of the events committed so far, and a        *)
(* consumer may be handed any of them, any number of times.  The event's   *)
(* UUID is its content and an ordinal, the how-manieth event of that       *)
(* content it is.                                                          *)
(***************************************************************************)
EXTENDS Integers, FiniteSets

CONSTANTS
  Sagas,          \* the orders that may be placed; each has one saga
  paymentDue,     \* [Sagas -> Nat], from the order request
  InvalidCard,    \* the orders whose card number ends with "9999"
  UnknownCustomer \* the orders that name a customer that does not exist

ASSUME SagasAssumption ==
  /\ paymentDue \in [Sagas -> Nat]
  /\ InvalidCard \subseteq Sagas
  /\ UnknownCustomer \subseteq Sagas

VARIABLES
  requests,       \* credit-approval.request and payment.request
  responses       \* credit-approval.response and payment.response

CREDIT_APPROVAL == 0
PAYMENT         == 1
SagaStep        == {CREDIT_APPROVAL, PAYMENT}

CreditStatus  == {"APPROVED", "REJECTED", "CANCELLED"}
PaymentStatus == {"REQUESTED", "CANCELLED", "FAILED", "COMPLETED"}

Request  == [saga : Sagas, step : SagaStep, type : {"REQUEST", "CANCEL"}, nth : Nat]
Response == [saga : Sagas, step : {CREDIT_APPROVAL}, status : CreditStatus, nth : Nat]
              \union
            [saga : Sagas, step : {PAYMENT}, status : PaymentStatus, nth : Nat]

RequestsOf(s, step, type) ==
  {r \in requests : r.saga = s /\ r.step = step /\ r.type = type}
ResponsesOf(s, step, status) ==
  {r \in responses : r.saga = s /\ r.step = step /\ r.status = status}

\* The events fired with a new UUID.
NewRequest(s, step, type) ==
  [saga |-> s, step |-> step, type |-> type,
   nth |-> 1 + Cardinality(RequestsOf(s, step, type))]
NewResponse(s, step, status) ==
  [saga |-> s, step |-> step, status |-> status,
   nth |-> 1 + Cardinality(ResponsesOf(s, step, status))]

===============================================================================
