------------------------------- MODULE SagaBase -------------------------------
(***************************************************************************)
(* The saga framework of the order service, SagaBase.java: a row of the    *)
(* SagaState table and the functions that advance it.  They are pure: each *)
(* returns the new row and the messages it fires, and SagaProtocol and     *)
(* OrderService put them in transactions.                                  *)
(*                                                                         *)
(* A step is its position in getStepIds().  currentStep = null is -1: that *)
(* is what indexOf(null) yields, and getPreviousStep relies on it.         *)
(***************************************************************************)
EXTENDS Integers

CONSTANT StepCount      \* the number of step ids in the @Saga annotation

ASSUME StepCountAssumption == StepCount \in Nat \ {0}

Step   == 0 .. StepCount - 1
NoStep == -1

NotRun     == "NONE"    \* the stepStatus document has no field for the step
StepStatus == {"STARTED", "FAILED", "SUCCEEDED", "COMPENSATING", "COMPENSATED"}
SagaStatus == {"STARTED", "ABORTING", "ABORTED", "COMPLETED"}

Row == [currentStep : Step \union {NoStep},
        stepStatus  : [Step -> StepStatus \union {NotRun}],
        sagaStatus  : SagaStatus]

\* A message fired to a participant: run the step, or compensate it.
Message == [step : Step, type : {"REQUEST", "CANCEL"}]

-------------------------------------------------------------------------------
\* Mutant: the end of the list is not looked for.
RunsOffTheEnd(row) ==
  IF row.currentStep = NoStep THEN 0 ELSE row.currentStep + 1

GetNextStep(row) ==
  IF row.currentStep = NoStep THEN 0
  ELSE IF row.currentStep = StepCount - 1 THEN NoStep ELSE row.currentStep + 1

\* Mutant: the step is not marked STARTED.
AdvanceUnmarked(row) ==
  LET next == GetNextStep(row) IN
  IF next = NoStep
  THEN [row |-> [row EXCEPT !.currentStep = NoStep], fired |-> {}]
  ELSE [row   |-> [row EXCEPT !.currentStep = next],
        fired |-> {[step |-> next, type |-> "REQUEST"]}]

\* advance(): the row it leaves, and the request it fires, if any.
Advance(row) ==
  LET next == GetNextStep(row) IN
  IF next = NoStep
  THEN [row |-> [row EXCEPT !.currentStep = NoStep], fired |-> {}]
  ELSE [row   |-> [row EXCEPT !.currentStep = next, !.stepStatus[next] = "STARTED"],
        fired |-> {[step |-> next, type |-> "REQUEST"]}]

\* Mutants: the current step is cleared, the steps in between are passed over,
\* nothing is fired.
GoBackCleared(row) ==
  LET previous == row.currentStep - 1 IN
  IF row.currentStep = 0
  THEN [row |-> [row EXCEPT !.currentStep = NoStep], fired |-> {}]
  ELSE [row   |-> [row EXCEPT !.currentStep = NoStep,
                              !.stepStatus[previous] = "COMPENSATING"],
        fired |-> {[step |-> previous, type |-> "CANCEL"]}]

GoBackToTheFirst(row) ==
  IF row.currentStep = 0
  THEN [row |-> [row EXCEPT !.currentStep = NoStep], fired |-> {}]
  ELSE [row   |-> [row EXCEPT !.currentStep = 0, !.stepStatus[0] = "COMPENSATING"],
        fired |-> {[step |-> 0, type |-> "CANCEL"]}]

GoBackSilently(row) ==
  LET previous == row.currentStep - 1 IN
  IF row.currentStep = 0
  THEN [row |-> [row EXCEPT !.currentStep = NoStep], fired |-> {}]
  ELSE [row   |-> [row EXCEPT !.currentStep = previous,
                              !.stepStatus[previous] = "COMPENSATING"],
        fired |-> {}]

\* goBack() with a current step: the row it leaves, and the compensation it fires.
GoBack(row) ==
  LET previous == row.currentStep - 1 IN
  IF row.currentStep = 0
  THEN [row |-> [row EXCEPT !.currentStep = NoStep], fired |-> {}]
  ELSE [row   |-> [row EXCEPT !.currentStep = previous,
                              !.stepStatus[previous] = "COMPENSATING"],
        fired |-> {[step |-> previous, type |-> "CANCEL"]}]

\* goBack() without one: getPreviousStep asks the list for the element at -2.
GoBackThrows(row) == row.currentStep = NoStep

\* getSagaStatus(), of the statuses of the steps that have one.
GetSagaStatus(stepStates) ==
  IF stepStates \subseteq {"SUCCEEDED"} THEN "COMPLETED"
  ELSE IF stepStates \subseteq {"STARTED", "SUCCEEDED"} THEN "STARTED"
  ELSE IF stepStates \subseteq {"FAILED", "COMPENSATED"} THEN "ABORTED"
  ELSE "ABORTING"

AllStatus(row) == {row.stepStatus[i] : i \in Step} \ {NotRun}

-------------------------------------------------------------------------------
(***************************************************************************)
(* onStepEvent(step, status), for the statuses an answer can carry.        *)
(***************************************************************************)
GoesBack(status) == status \in {"FAILED", "COMPENSATED"}

OnStepEventThrows(row, status) == GoesBack(status) /\ GoBackThrows(row)

\* Mutant: the status of the saga is that of before the move.
OnStepEventStale(row, step, status) ==
  LET put   == [row EXCEPT !.stepStatus[step] = status]
      moved == IF GoesBack(status) THEN GoBack(put) ELSE Advance(put)
  IN  [moved EXCEPT !.row.sagaStatus = GetSagaStatus(AllStatus(put))]

OnStepEvent(row, step, status) ==
  LET put   == [row EXCEPT !.stepStatus[step] = status]
      moved == IF GoesBack(status) THEN GoBack(put) ELSE Advance(put)
  IN  [moved EXCEPT !.row.sagaStatus = GetSagaStatus(AllStatus(moved.row))]

\* No row: what SagaManager.find returns null for.
NoRow == [currentStep |-> NoStep, stepStatus |-> [i \in Step |-> NotRun],
          sagaStatus |-> "NONE"]

\* SagaManager.begin: a STARTED row with an empty stepStatus document, advanced.
Begin == Advance([NoRow EXCEPT !.sagaStatus = "STARTED"])

===============================================================================
