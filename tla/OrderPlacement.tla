---------------------------- MODULE OrderPlacement ----------------------------
(***************************************************************************)
(* The three services together: the order placement saga.  They share the  *)
(* topics and nothing else.                                                *)
(***************************************************************************)
EXTENDS OrderService, CustomerService, PaymentService

vars == <<requests, responses, orderVars, customerVars, paymentVars>>

TypeOK ==
  /\ requests \subseteq Request
  /\ responses \subseteq Response
  /\ OrderTypeOK /\ CustomerTypeOK /\ PaymentTypeOK

Init ==
  /\ requests = {} /\ responses = {}
  /\ OrderInit /\ CustomerInit /\ PaymentInit

Next ==
  \/ OrderNext /\ UNCHANGED <<customerVars, paymentVars>>
  \/ CustomerNext /\ UNCHANGED <<orderVars, paymentVars>>
  \/ PaymentNext /\ UNCHANGED <<orderVars, customerVars>>

Safety == Init /\ [][Next]_vars

(***************************************************************************)
(* Fairness.  A participant whose channel is up polls its topic and        *)
(* handles what is new, or fails; a thread carries on with its answer.     *)
(* Records are polled in the order of their offsets, so redeliveries       *)
(* cannot put off an answer for ever: it is polled if a thread is idle     *)
(* again and again.  Nothing makes a client place an order or a database   *)
(* fail.                                                                   *)
(***************************************************************************)
HandleRequest(e) ==
  \/ /\ TakesCredit(e) /\ OnCreditEvent(e)
     /\ UNCHANGED <<orderVars, paymentVars>>
  \/ /\ TakesPayment(e) /\ (OnPaymentEvent(e) \/ FailPayment(e))
     /\ UNCHANGED <<orderVars, customerVars>>

PollNew(e) ==
  /\ e \in responses \ (consumed \union swallowed)
  /\ \E t \in Threads : Poll(t, e)
  /\ UNCHANGED <<customerVars, paymentVars>>

CarryOn(t) ==
  /\ Read(t) \/ Commit(t) \/ Conflict(t) \/ Throw(t)
  /\ UNCHANGED <<customerVars, paymentVars>>

Fairness ==
  /\ WF_vars(\E e \in requests : HandleRequest(e))
  /\ SF_vars(\E e \in responses : PollNew(e))
  /\ \A t \in Threads : WF_vars(CarryOn(t))

Spec == Safety /\ Fairness

Decided(s)  == purchaseOrder[s] \in {"PROCESSING", "CANCELLED"}
Approved(s) == ResponsesOf(s, CREDIT_APPROVAL, "APPROVED") # {}
Released(s) == ResponsesOf(s, CREDIT_APPROVAL, "CANCELLED") # {}
Paid(s)     == ResponsesOf(s, PAYMENT, "REQUESTED") # {}

\* The orders that hold credit: approved and not cancelled.
Holding == {s \in Sagas : Approved(s) /\ ~ Released(s)}

DecisionOf(status) ==
  CASE status = "CREATED"    -> "open"
    [] status = "PROCESSING" -> "accepted"
    [] status = "CANCELLED"  -> "refused"
    [] OTHER                 -> "none"

Purchase == INSTANCE AtomicPurchase WITH
  Orders    <- Sagas,
  due       <- paymentDue,
  decision  <- [s \in Sagas |-> DecisionOf(purchaseOrder[s])],
  reserved  <- Holding,
  available <- openLimit

\* The part of the state that one saga of two steps is made of.
Protocol(s) == INSTANCE SagaProtocol WITH
  StepCount <- 2,
  saga      <- sagaState[s],
  fired     <- {[step |-> r.step, type |-> r.type] : r \in {q \in requests : q.saga = s}},
  answers   <- {[step |-> r.step, status |-> ToStepStatus(r.status)] :
                  r \in {q \in responses : q.saga = s}},
  consumed  <- {[step |-> r.step, status |-> ToStepStatus(r.status)] :
                  r \in {q \in consumed : q.saga = s}}

(***************************************************************************)
(* Properties.                                                             *)
(***************************************************************************)

\* The units of credit that are held: the sum of the amounts due, as a set.
HeldUnits == UNION {{s} \X (1 .. paymentDue[s]) : s \in Holding}

\* The credit that is open and the credit that orders hold add up to the limit, and
\* it is never overdrawn: no request or cancellation is applied twice, none is lost
\* half-way.
CreditIsConserved ==
  /\ openLimit \in Nat
  /\ openLimit + Cardinality(HeldUnits) = InitialLimit

\* No saga asks a participant twice for the same thing, and no participant
\* answers the same request twice, however often records are delivered.
NothingFiredTwice ==
  /\ \A r \in requests : r.nth = 1
  /\ \A r \in responses : r.nth = 1

\* An order is accepted with its credit held and its payment taken once, and
\* refused with its credit given back and no payment taken.
DecisionMatchesParticipants ==
  \A s \in Sagas :
    /\ purchaseOrder[s] = "PROCESSING" => s \in Holding /\ Paid(s) /\ payments[s] = 1
    /\ purchaseOrder[s] = "CANCELLED"  => s \notin Holding /\ ~ Paid(s)

\* Two transactions conflict only when they handle the same answer, delivered
\* twice: giving up after the last conflict loses no answer.
OnlyRedeliveriesConflict ==
  \A t \in Threads :
    attempt[t].phase = "read" /\ ~ Unchallenged(t) => attempt[t].event \in consumed

\* The decision on an order never changes.
DecisionIsFinal ==
  [][\A s \in Sagas : Decided(s) => purchaseOrder'[s] = purchaseOrder[s]]_vars

\* Transactions on a saga are serial: whatever threads have read before, a row
\* only ever changes by one new answer being handled on the row as it is.
ChangesAreSerial ==
  [][\A s \in Sagas :
       sagaState[s] # NoRow /\ sagaState'[s] # sagaState[s] =>
         \E e \in consumed' \ consumed :
           /\ e.saga = s
           /\ sagaState'[s] = OnStepEvent(sagaState[s], e.step, ToStepStatus(e.status)).row
    ]_vars

\* Every saga of the system is a run of the saga protocol.
EverySagaFollowsProtocol ==
  /\ \A s \in Sagas : Protocol(s)!ProtocolInit
  /\ [][\A s \in Sagas : Protocol(s)!ProtocolNext \/ UNCHANGED Protocol(s)!protocolVars]_vars

\* The whole is an atomic purchase, as far as the customer and the shop can see.
ImplementsAtomicPurchase == Purchase!PurchaseSpec


\* What keeps an order from being decided: an answer to it that the retry loop has
\* acknowledged without handling it, a request of its own that the failed channel of
\* a participant leaves unhandled, or a failed channel of the order service.
WaitsForChannel(s) ==
  \E e \in requests :
    /\ e.saga = s
    /\ \/ e.step = CREDIT_APPROVAL /\ creditFailed /\ e \notin creditLog \union creditSkipped
       \/ e.step = PAYMENT /\ paymentFailed /\ e \notin paymentLog \union paymentSkipped

IsKeptOpen(s) ==
  \/ \E e \in swallowed : e.saga = s
  \/ WaitsForChannel(s)
  \/ \E t \in Threads : attempt[t] = Failed

\* Nothing else does: every other order is decided.
DecidedUnlessKeptOpen ==
  \A s \in Sagas : purchaseOrder[s] = "CREATED" ~> Decided(s) \/ IsKeptOpen(s)

-------------------------------------------------------------------------------
(***************************************************************************)
(* The inductive invariant: every order is at one of the points of its     *)
(* saga, and a thread has read the row as it is or is late with an answer  *)
(* that is handled.                                                        *)
(***************************************************************************)
Ask(s, step, type)     == [saga |-> s, step |-> step, type |-> type, nth |-> 1]
Reply(s, step, status) == [saga |-> s, step |-> step, status |-> status, nth |-> 1]

Steps(credit, payment) == [i \in Step |-> IF i = CREDIT_APPROVAL THEN credit ELSE payment]

RowWith(step, credit, payment, status) ==
  [currentStep |-> step, stepStatus |-> Steps(credit, payment), sagaStatus |-> status]

\* The part of the state that is about one order.
Part(s) ==
  [row      |-> sagaState[s],
   status   |-> purchaseOrder[s],
   asked    |-> {r \in requests : r.saga = s},
   logged   |-> {r \in creditLog \union paymentLog : r.saga = s},
   answered |-> {r \in responses : r.saga = s},
   handled  |-> {r \in consumed : r.saga = s}]

\* The last request, asked after those in before, has not been answered, or its
\* answer has not been handled.
Waiting(p, row, before, last, handled, replies) ==
  /\ p.row = row /\ p.status = "CREATED"
  /\ p.asked = before \union {last} /\ p.handled = handled
  /\ \/ p.logged = before /\ p.answered = handled
     \/ /\ p.logged = before \union {last}
        /\ \E a \in replies : p.answered = handled \union {a}

Ended(p, row, status, asked, answered) ==
  /\ p.row = row /\ p.status = status
  /\ p.asked = asked /\ p.logged = asked
  /\ p.answered = answered /\ p.handled = answered

NotPlaced(p) == Ended(p, NoRow, NoOrder, {}, {})

Credit(s)   == Ask(s, CREDIT_APPROVAL, "REQUEST")
Pay(s)      == Ask(s, PAYMENT, "REQUEST")
Release(s)  == Ask(s, CREDIT_APPROVAL, "CANCEL")
Granted(s)  == Reply(s, CREDIT_APPROVAL, "APPROVED")
Rejected(s) == Reply(s, CREDIT_APPROVAL, "REJECTED")
Taken(s)    == Reply(s, PAYMENT, "REQUESTED")
Declined(s) == Reply(s, PAYMENT, "FAILED")
Returned(s) == Reply(s, CREDIT_APPROVAL, "CANCELLED")

AwaitsCredit(s, p) ==
  Waiting(p, RowWith(0, "STARTED", NotRun, "STARTED"),
          {}, Credit(s), {}, {Granted(s), Rejected(s)})

AwaitsPayment(s, p) ==
  Waiting(p, RowWith(1, "SUCCEEDED", "STARTED", "STARTED"),
          {Credit(s)}, Pay(s), {Granted(s)}, {Taken(s), Declined(s)})

AwaitsRelease(s, p) ==
  Waiting(p, RowWith(0, "COMPENSATING", "FAILED", "ABORTING"),
          {Credit(s), Pay(s)}, Release(s), {Granted(s), Declined(s)}, {Returned(s)})

Accepted(s, p) ==
  Ended(p, RowWith(NoStep, "SUCCEEDED", "SUCCEEDED", "COMPLETED"), "PROCESSING",
        {Credit(s), Pay(s)}, {Granted(s), Taken(s)})

RefusedCredit(s, p) ==
  Ended(p, RowWith(NoStep, "FAILED", NotRun, "ABORTED"), "CANCELLED",
        {Credit(s)}, {Rejected(s)})

RefusedPayment(s, p) ==
  Ended(p, RowWith(NoStep, "COMPENSATED", "FAILED", "ABORTED"), "CANCELLED",
        {Credit(s), Pay(s), Release(s)}, {Granted(s), Declined(s), Returned(s)})

AtAPoint(s, p) ==
  \/ NotPlaced(p)
  \/ AwaitsCredit(s, p) \/ AwaitsPayment(s, p) \/ AwaitsRelease(s, p)
  \/ Accepted(s, p) \/ RefusedCredit(s, p) \/ RefusedPayment(s, p)

\* Each log has the requests of its service, and a payment is stored when it is
\* logged.
LogsApart ==
  /\ \A r \in creditLog : r.step = CREDIT_APPROVAL
  /\ \A r \in paymentLog : r.step = PAYMENT
  /\ \A s \in Sagas : payments[s] = IF Pay(s) \in paymentLog THEN 1 ELSE 0

HeldAreDelivered ==
  \A t \in Threads : attempt[t].phase \in {"retry", "read"} => attempt[t].event \in responses

ReadsAreCurrent ==
  \A t \in Threads :
    attempt[t].phase = "read" =>
      \/ attempt[t].event \in consumed
      \/ /\ attempt[t].version = version[attempt[t].event.saga]
         /\ attempt[t].row = sagaState[attempt[t].event.saga]

PlacementInv ==
  /\ TypeOK /\ LogsApart /\ HeldAreDelivered /\ ReadsAreCurrent
  /\ \A s \in Sagas : AtAPoint(s, Part(s))

(***************************************************************************)
(* What holds whatever answers are handled, in whatever order: the version *)
(* of a row tells the transactions apart that have read it.                *)
(***************************************************************************)
TablesTyped ==
  /\ sagaState \in [Sagas -> Row \union {NoRow}] /\ version \in [Sagas -> Nat]
  /\ purchaseOrder \in [Sagas -> OrderStatus \union {NoOrder}]
  /\ DOMAIN attempt = Threads
  /\ \A r \in requests : r.saga \in Sagas
  /\ \A r \in responses : r.saga \in Sagas /\ r.step \in Step

\* A transaction that has read a row that has not been written since has the row as it is.
VersionsTellRowsApart ==
  \A t \in Threads :
    attempt[t].phase = "read" =>
      LET s == attempt[t].event.saga IN
        /\ attempt[t].row \in Row /\ sagaState[s] # NoRow
        /\ attempt[t].version \in 0 .. version[s]
        /\ attempt[t].version = version[s] => attempt[t].row = sagaState[s]

LockInv == TablesTyped /\ HeldAreDelivered /\ VersionsTellRowsApart

===============================================================================
