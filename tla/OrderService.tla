----------------------------- MODULE OrderService -----------------------------
(***************************************************************************)
(* The order service: it places orders, and it runs their sagas on the     *)
(* answers of the participants.  Its consumer threads take the answers of  *)
(* two channels side by side, and each answer is handled in a transaction  *)
(* that reads the saga's row, computes the next one and commits if the row *)
(* still has the version it read.  A transaction that does not commit is   *)
(* tried again, up to RETRIES times.                                       *)
(***************************************************************************)
EXTENDS SagaTopics

CONSTANTS
  Threads,        \* the threads that KafkaEventConsumer's runAsync runs on
  RETRIES

ASSUME RetriesAssumption == RETRIES \in Nat \ {0}

INSTANCE SagaBase WITH StepCount <- 2

VARIABLES
  sagaState,      \* the SagaState table, NoRow where there is no row
  version,        \* its @Version column
  purchaseOrder,  \* the status column of the PurchaseOrder table
  consumed,       \* the answers in the ConsumedMessage table
  swallowed,      \* the answers acknowledged without having been handled
  attempt         \* what each thread is doing

orderVars == <<sagaState, version, purchaseOrder, consumed, swallowed, attempt>>

OrderStatus == {"CREATED", "PROCESSING", "CANCELLED"}
NoOrder     == "NONE"

(***************************************************************************)
(* A thread is idle, between two attempts at an answer, or inside one: it  *)
(* has read the saga's row and its version.  A thread whose channel has    *)
(* failed polls no more.                                                   *)
(***************************************************************************)
Idle     == [phase |-> "idle"]
Failed   == [phase |-> "failed"]
Retrying == [phase : {"retry"}, event : Response, tries : 0 .. RETRIES - 1]
Reading  == [phase : {"read"}, event : Response, tries : 1 .. RETRIES,
             row : Row, version : Nat]

OrderTypeOK ==
  /\ sagaState \in [Sagas -> Row \union {NoRow}]
  /\ version \in [Sagas -> Nat]
  /\ purchaseOrder \in [Sagas -> OrderStatus \union {NoOrder}]
  /\ consumed \subseteq responses
  /\ swallowed \subseteq responses
  /\ attempt \in [Threads -> {Idle, Failed} \union Retrying \union Reading]

OrderInit ==
  /\ sagaState = [s \in Sagas |-> NoRow]
  /\ version = [s \in Sagas |-> 0]
  /\ purchaseOrder = [s \in Sagas |-> NoOrder]
  /\ consumed = {} /\ swallowed = {}
  /\ attempt = [t \in Threads |-> Idle]

-------------------------------------------------------------------------------
\* The outbox event of a message of the saga: every compensating message goes
\* to the customer service (getCompensatingStepMessage).
SagaEvent(s, m) ==
  NewRequest(s, IF m.type = "CANCEL" THEN CREDIT_APPROVAL ELSE m.step, m.type)

Fire(s, messages) == requests' = requests \union {SagaEvent(s, m) : m \in messages}

\* POST /orders: the order and its saga are inserted in one transaction.
PlaceOrder(s) ==
  /\ sagaState[s] = NoRow
  /\ \A r \in requests : r.saga # s       \* the saga has a fresh UUID
  /\ purchaseOrder' = [purchaseOrder EXCEPT ![s] = "CREATED"]
  /\ sagaState' = [sagaState EXCEPT ![s] = Begin.row]
  /\ Fire(s, Begin.fired)
  /\ UNCHANGED <<responses, version, consumed, swallowed, attempt>>

-------------------------------------------------------------------------------
\* Mutant: a cancellation is taken for a refusal.
CancelledIsFailed(status) ==
  IF status \in {"CANCELLED", "REJECTED", "FAILED"} THEN "FAILED" ELSE "SUCCEEDED"

\* CreditApprovalStatus.toStepStatus and PaymentStatus.toStepStatus.
ToStepStatus(status) ==
  CASE status = "CANCELLED"              -> "COMPENSATED"
    [] status \in {"REJECTED", "FAILED"} -> "FAILED"
    [] OTHER                             -> "SUCCEEDED"

\* A thread polls an answer.
Poll(t, e) ==
  /\ attempt[t] = Idle
  /\ attempt' = [attempt EXCEPT ![t] = [phase |-> "retry", event |-> e, tries |-> 0]]
  /\ UNCHANGED <<requests, responses, sagaState, version, purchaseOrder, consumed,
                 swallowed>>

\* Mutant: a saga that is not found is not sent away.
ReadMissing(t) ==
  /\ attempt[t].phase = "retry"
  /\ LET e == attempt[t].event IN
     attempt' = [attempt EXCEPT ![t] =
       IF e \in consumed
       THEN Idle
       ELSE [phase |-> "read", event |-> e, tries |-> attempt[t].tries + 1,
             row |-> sagaState[e.saga], version |-> version[e.saga]]]
  /\ UNCHANGED <<requests, responses, sagaState, version, purchaseOrder, consumed,
                 swallowed>>

\* An attempt begins: find() and alreadyProcessed() send it away, or it has the row.
Read(t) ==
  /\ attempt[t].phase = "retry"
  /\ LET e == attempt[t].event IN
     attempt' = [attempt EXCEPT ![t] =
       IF sagaState[e.saga] = NoRow \/ e \in consumed
       THEN Idle
       ELSE [phase |-> "read", event |-> e, tries |-> attempt[t].tries + 1,
             row |-> sagaState[e.saga], version |-> version[e.saga]]]
  /\ UNCHANGED <<requests, responses, sagaState, version, purchaseOrder, consumed,
                 swallowed>>

\* Mutants: an order is accepted, or refused, before its saga has ended.
AcceptedWhenStarted(sagaStatus, status) ==
  CASE sagaStatus \in {"STARTED", "COMPLETED"} -> "PROCESSING"
    [] sagaStatus = "ABORTED"                  -> "CANCELLED"
    [] OTHER                                   -> status

RefusedWhenAborting(sagaStatus, status) ==
  CASE sagaStatus = "COMPLETED"               -> "PROCESSING"
    [] sagaStatus \in {"ABORTING", "ABORTED"} -> "CANCELLED"
    [] OTHER                                  -> status

\* updateOrderStatus()
OrderStatusOf(sagaStatus, status) ==
  CASE sagaStatus = "COMPLETED" -> "PROCESSING"
    [] sagaStatus = "ABORTED"   -> "CANCELLED"
    [] OTHER                    -> status

\* Mutant: the answer is not entered in the message log.
OnAnswerUnlogged(e, row) ==
  LET s      == e.saga
      status == ToStepStatus(e.status)
      next   == OnStepEvent(row, e.step, status)
  IN /\ ~ OnStepEventThrows(row, status)
     /\ sagaState' = [sagaState EXCEPT ![s] = next.row]
     /\ version' = [version EXCEPT ![s] = @ + 1]
     /\ Fire(s, next.fired)
     /\ purchaseOrder' = [purchaseOrder EXCEPT ![s] =
                            OrderStatusOf(next.row.sagaStatus, @)]
     /\ UNCHANGED <<responses, consumed, swallowed>>

\* onCreditApprovalEvent / onPaymentEvent of the saga, of an answer that is new, on
\* the row that the transaction has read: all that the transaction writes.
OnAnswer(e, row) ==
  LET s      == e.saga
      status == ToStepStatus(e.status)
      next   == OnStepEvent(row, e.step, status)
  IN /\ ~ OnStepEventThrows(row, status)
     /\ sagaState' = [sagaState EXCEPT ![s] = next.row]
     /\ version' = [version EXCEPT ![s] = @ + 1]
     /\ Fire(s, next.fired)
     /\ purchaseOrder' = [purchaseOrder EXCEPT ![s] =
                            OrderStatusOf(next.row.sagaStatus, @)]
     /\ consumed' = consumed \union {e}
     /\ UNCHANGED <<responses, swallowed>>

\* Mutant: nothing is checked at the commit.
Unconditional(t) == TRUE

\* The row is as it was read and the answer is in no message log: the
\* transaction would commit, unless the handler throws.
Unchallenged(t) ==
  /\ version[attempt[t].event.saga] = attempt[t].version
  /\ attempt[t].event \notin consumed

Commit(t) ==
  /\ attempt[t].phase = "read"
  /\ Unchallenged(t)
  /\ OnAnswer(attempt[t].event, attempt[t].row)
  /\ attempt' = [attempt EXCEPT ![t] = Idle]

\* Mutant: one try too many.
RollBackOnceMore(t, exhausted) ==
  LET a == attempt[t] IN
  /\ attempt' = [attempt EXCEPT ![t] =
       IF a.tries <= RETRIES
       THEN [phase |-> "retry", event |-> a.event, tries |-> a.tries]
       ELSE exhausted]
  /\ swallowed' = IF a.tries <= RETRIES \/ exhausted = Failed THEN swallowed
                  ELSE swallowed \union {a.event}
  /\ UNCHANGED <<requests, responses, sagaState, version, purchaseOrder, consumed>>

\* What an attempt that is rolled back leaves: the thread will try again, or the
\* tries are used up and the loop in retrying() ends.  The last
\* OptimisticLockException is rethrown, which fails the channel; any other
\* exception is only printed, and the record is acknowledged.
RollBack(t, exhausted) ==
  LET a == attempt[t] IN
  /\ attempt' = [attempt EXCEPT ![t] =
       IF a.tries < RETRIES
       THEN [phase |-> "retry", event |-> a.event, tries |-> a.tries]
       ELSE exhausted]
  /\ swallowed' = IF a.tries < RETRIES \/ exhausted = Failed THEN swallowed
                  ELSE swallowed \union {a.event}
  /\ UNCHANGED <<requests, responses, sagaState, version, purchaseOrder, consumed>>

\* Another transaction has committed to the row or logged the answer since it was
\* read.  The container reports the conflict as an OptimisticLockException, or
\* wraps it when it is raised by the commit itself.
Conflict(t) ==
  /\ attempt[t].phase = "read"
  /\ ~ Unchallenged(t)
  /\ \E exhausted \in {Idle, Failed} : RollBack(t, exhausted)

\* The handler throws: the saga has no step to go back from.
Throw(t) ==
  /\ attempt[t].phase = "read"
  /\ Unchallenged(t)
  /\ OnStepEventThrows(attempt[t].row, ToStepStatus(attempt[t].event.status))
  /\ RollBack(t, Idle)

\* The database fails the transaction: a lost connection, a timeout.
DatabaseError(t) ==
  /\ attempt[t].phase = "read"
  /\ RollBack(t, Idle)

\* POST /orders/payment and /orders/credit-approval: the handler, run for an answer
\* that a client reports under a message id of its own: apart from those of the
\* topics, which count from 1.  Nothing is retried: a request that meets a conflict
\* or throws has no effect.
ReportAnswer(s, step, status, id) ==
  LET e == [saga |-> s, step |-> step, status |-> status, nth |-> -id] IN
  /\ sagaState[s] # NoRow
  /\ e \notin consumed
  /\ OnAnswer(e, sagaState[s])
  /\ UNCHANGED attempt

OrderNext ==
  \/ \E s \in Sagas : PlaceOrder(s)
  \/ \E t \in Threads :
       \/ \E e \in responses : Poll(t, e)
       \/ Read(t) \/ Commit(t) \/ Conflict(t) \/ Throw(t) \/ DatabaseError(t)

\* A new process: drop-and-create empties the tables, and no thread is at work.
RestartOrderService ==
  /\ sagaState' = [s \in Sagas |-> NoRow]
  /\ version' = [s \in Sagas |-> 0]
  /\ purchaseOrder' = [s \in Sagas |-> NoOrder]
  /\ consumed' = {}
  /\ attempt' = [t \in Threads |-> Idle]
  /\ UNCHANGED <<requests, responses, swallowed>>

===============================================================================
