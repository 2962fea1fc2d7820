------------------------- MODULE OrderPlacementReports -------------------------
(***************************************************************************)
(* The order placement saga when clients also report answers through the   *)
(* order service's REST interface.  A report may say anything, at any      *)
(* time: it races with the answers from the topics, it may come early, or  *)
(* after the saga has ended.  Each has a message id of its own, so that    *)
(* the message log lets the same thing be reported again and again.        *)
(***************************************************************************)
EXTENDS OrderPlacement

CONSTANTS
  Reportable,     \* the answers that are reported: pairs of a step and a status
  MaxReports,     \* bounds the number of reports
  MaxFirings      \* bounds how often the same request is fired for a saga

ASSUME ReportsAssumption ==
  /\ Reportable \subseteq {CREDIT_APPROVAL} \X CreditStatus
                            \union {PAYMENT} \X PaymentStatus
  /\ MaxReports \in Nat
  /\ MaxFirings \in Nat

VARIABLE reports

reportVars == <<vars, reports>>

ReportsInit == Init /\ reports = 0

Report(s, step, status) ==
  /\ reports < MaxReports
  /\ reports' = reports + 1
  /\ ReportAnswer(s, step, status, reports)
  /\ UNCHANGED <<customerVars, paymentVars>>

ReportsNext ==
  /\ \/ Next /\ UNCHANGED reports
     \/ \E s \in Sagas, r \in Reportable : Report(s, r[1], r[2])
  /\ \A r \in requests' : r.nth <= MaxFirings

ReportsSpec == ReportsInit /\ [][ReportsNext]_reportVars

(***************************************************************************)
(* Properties.                                                             *)
(***************************************************************************)

\* A saga is COMPLETED only with every step in SUCCEEDED, ABORTED only with every
\* step that ran in FAILED or COMPENSATED, and its order's status is never behind:
\* the columns of a row are written by different calls of the handler.
ColumnsAgree ==
  \A s \in Sagas :
    sagaState[s] # NoRow =>
      /\ sagaState[s].sagaStatus = GetSagaStatus(AllStatus(sagaState[s]))
      /\ sagaState[s].sagaStatus = "COMPLETED" => purchaseOrder[s] = "PROCESSING"
      /\ sagaState[s].sagaStatus = "ABORTED"   => purchaseOrder[s] = "CANCELLED"

\* The inductive invariant.
ReportsInv == LockInv /\ ColumnsAgree

===============================================================================
