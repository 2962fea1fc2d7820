------------------------ MODULE OrderPlacementRestarts ------------------------
(***************************************************************************)
(* The order placement saga when its services are restarted: every service *)
(* is configured with database.generation=drop-and-create, so a new        *)
(* process starts with empty tables, its message log among them, while the *)
(* topics and the committed offsets stay.                                  *)
(***************************************************************************)
EXTENDS OrderPlacement

CONSTANTS
  Restartable,    \* the services that are restarted
  MaxRestarts,    \* bounds the number of restarts
  MaxRepeats      \* bounds how often the same request is fired for a saga

ASSUME RestartsAssumption ==
  /\ Restartable \subseteq {"order", "customer", "payment"}
  /\ MaxRestarts \in Nat
  /\ MaxRepeats \in Nat

VARIABLE restarts

restartVars == <<vars, restarts>>

Restart(service) ==
  /\ service \in Restartable
  /\ restarts < MaxRestarts
  /\ restarts' = restarts + 1
  /\ \/ /\ service = "order"
        /\ RestartOrderService
        /\ UNCHANGED <<customerVars, paymentVars>>
     \/ /\ service = "customer"
        /\ RestartCustomerService
        /\ UNCHANGED <<orderVars, paymentVars>>
     \/ /\ service = "payment"
        /\ RestartPaymentService
        /\ UNCHANGED <<orderVars, customerVars>>

RestartsInit == Init /\ restarts = 0

RestartsNext ==
  \/ /\ Next
     /\ \A r \in requests' : r.nth <= MaxRepeats
     /\ UNCHANGED restarts
  \/ \E service \in Restartable : Restart(service)

RestartsSafety == RestartsInit /\ [][RestartsNext]_restartVars

RestartsFairness ==
  /\ WF_restartVars(\E e \in requests : HandleRequest(e) /\ UNCHANGED restarts)
  /\ SF_restartVars(\E e \in responses : PollNew(e) /\ UNCHANGED restarts)
  /\ \A t \in Threads : WF_restartVars(CarryOn(t) /\ UNCHANGED restarts)

RestartsSpec == RestartsSafety /\ RestartsFairness

Refused(s) == ResponsesOf(s, CREDIT_APPROVAL, "REJECTED") # {}

(***************************************************************************)
(* Properties.                                                             *)
(***************************************************************************)

\* However often the payment service loses its tables: an accepted order has been paid
\* for and a refused one has not, nor does it hold credit.  An accepted order loses its
\* credit only if it is refused credit when its saga, run again, asks again.
DecisionMatchesAnswers ==
  \A s \in Sagas :
    /\ purchaseOrder[s] = "PROCESSING" =>
         Approved(s) /\ Paid(s) /\ (Released(s) => Refused(s))
    /\ purchaseOrder[s] = "CANCELLED"  => s \notin Holding /\ ~ Paid(s)

\* Even when the customer service forgets the credit it has granted and grants it
\* anew, no order is accepted without an approval and a payment.
AcceptedOrdersArePaid ==
  \A s \in Sagas : purchaseOrder[s] = "PROCESSING" => Approved(s) /\ Paid(s)

\* A decision survives the answers that a restarted service sends again, although
\* they run the saga again.
DecisionSurvivesRestarts ==
  [][\A s \in Sagas : Decided(s) => purchaseOrder'[s] = purchaseOrder[s]]_restartVars

\* An order service that has lost its sagas ignores the answers to them: they
\* change no row, no version and no order.
LostSagasStayLost ==
  [][\A s \in Sagas :
       (sagaState[s] = NoRow /\ \E r \in requests : r.saga = s) =>
         sagaState'[s] = NoRow /\ purchaseOrder'[s] = NoOrder /\ version'[s] = 0
    ]_restartVars

-------------------------------------------------------------------------------
(***************************************************************************)
(* The inductive invariant: a step is SUCCEEDED in a row, or in a row that *)
(* a transaction has read, only after the participant has said so, and a   *)
(* payment that has not been asked for is not the current step.            *)
(***************************************************************************)
AnswersTyped ==
  \A r \in responses :
    \/ r.step = CREDIT_APPROVAL /\ r.status \in CreditStatus
    \/ r.step = PAYMENT /\ r.status \in {"REQUESTED", "FAILED", "CANCELLED"}

Vouched(s, row) ==
  /\ row.stepStatus[CREDIT_APPROVAL] # NotRun
  /\ row.currentStep = PAYMENT => row.stepStatus[PAYMENT] # NotRun
  /\ row.stepStatus[CREDIT_APPROVAL] = "SUCCEEDED" => Approved(s)
  /\ row.stepStatus[PAYMENT] = "SUCCEEDED" => Paid(s)

RowsAreVouchedFor ==
  \A s \in Sagas : sagaState[s] # NoRow => Vouched(s, sagaState[s])

LostAreEmpty ==
  \A s \in Sagas : sagaState[s] = NoRow => purchaseOrder[s] = NoOrder /\ version[s] = 0

RestartsInv ==
  /\ LockInv /\ AnswersTyped /\ RowsAreVouchedFor /\ LostAreEmpty
  /\ AcceptedOrdersArePaid

-------------------------------------------------------------------------------
(***************************************************************************)
(* The inductive invariant when only the payment service is restarted.  It *)
(* answers the same request again, and says the same each time: the saga   *)
(* of a good card may run again and again, but its payment never fails;    *)
(* the saga of a bad card goes back, and nothing makes it go on.           *)
(***************************************************************************)
Asked(s)    == {r \in requests : r.saga = s}
Answered(s) == {r \in responses : r.saga = s}

At(s, row, status) == sagaState[s] = row /\ purchaseOrder[s] = status

IsUnknown(s) == At(s, NoRow, NoOrder) /\ Asked(s) = {} /\ Answered(s) = {}

AsksForCredit(s) ==
  /\ At(s, RowWith(0, "STARTED", NotRun, "STARTED"), "CREATED")
  /\ \E q \in requests :
       /\ Asked(s) = {q} /\ q.step = CREDIT_APPROVAL /\ q.type = "REQUEST"
       /\ \/ Answered(s) = {}
          \/ /\ q \in creditLog
             /\ \E a \in responses :
                  /\ Answered(s) = {a} /\ a.step = CREDIT_APPROVAL
                  /\ a.status \in {"APPROVED", "REJECTED"}

IsTurnedDown(s) ==
  /\ At(s, RowWith(NoStep, "FAILED", NotRun, "ABORTED"), "CANCELLED")
  /\ \A q \in Asked(s) : q.step = CREDIT_APPROVAL /\ q \in creditLog
  /\ \A a \in Answered(s) : a.step = CREDIT_APPROVAL /\ a.status = "REJECTED"

GoesOn(s) ==
  /\ s \notin InvalidCard /\ Approved(s)
  /\ sagaState[s] # NoRow /\ purchaseOrder[s] \in {"CREATED", "PROCESSING"}
  /\ sagaState[s].stepStatus[PAYMENT] \in {"STARTED", "SUCCEEDED"}
  /\ \A q \in Asked(s) : q.step = PAYMENT => q.type = "REQUEST"
  /\ \A a \in Answered(s) : a.step = PAYMENT => a.status = "REQUESTED"

GoesBackFrom(s) ==
  /\ s \in InvalidCard
  /\ \A q \in Asked(s) :
       IF q.type = "REQUEST" THEN q.step = PAYMENT \/ q \in creditLog
       ELSE q.type = "CANCEL" /\ q.step = CREDIT_APPROVAL
  /\ \A a \in Answered(s) :
       \/ a.step = PAYMENT /\ a.status = "FAILED"
       \/ a.step = CREDIT_APPROVAL /\ \/ a.status = "APPROVED" /\ a \in consumed
                                      \/ a.status = "CANCELLED"
  /\ \/ /\ At(s, RowWith(1, "SUCCEEDED", "STARTED", "STARTED"), "CREATED")
        /\ ~ Released(s) /\ \A q \in Asked(s) : q.type = "REQUEST"
     \/ At(s, RowWith(0, "COMPENSATING", "FAILED", "ABORTING"), "CREATED")
     \/ At(s, RowWith(NoStep, "COMPENSATING", "FAILED", "ABORTING"), "CREATED")
     \/ At(s, RowWith(NoStep, "COMPENSATED", "FAILED", "ABORTED"), "CANCELLED") /\ Released(s)

RerunsInv ==
  \A s \in Sagas :
    IsUnknown(s) \/ AsksForCredit(s) \/ IsTurnedDown(s) \/ GoesOn(s) \/ GoesBackFrom(s)

(***************************************************************************)
(* A saga that runs again asks for credit again.  Only if that is refused  *)
(* may a paid order have its credit taken back.                            *)
(***************************************************************************)
KeepsItsCredit(s) ==
  /\ sagaState[s].stepStatus[CREDIT_APPROVAL] \in {"STARTED", "SUCCEEDED"}
  /\ \A q \in Asked(s) : q.type = "REQUEST"
  /\ \A a \in Answered(s) : a.step = CREDIT_APPROVAL => a.status = "APPROVED"

NothingIsTakenBack == \A s \in Sagas : GoesOn(s) /\ ~ Refused(s) => KeepsItsCredit(s)

===============================================================================
