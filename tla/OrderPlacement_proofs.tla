------------------------- MODULE OrderPlacement_proofs -------------------------
(***************************************************************************)
(* Proofs about OrderPlacement, for any orders, amounts, threads and number *)
(* of tries: every order is always at one of the points of its saga, so     *)
(* that decisions are final and agree with the participants, transactions   *)
(* are serial, and the whole is an atomic purchase.                         *)
(***************************************************************************)
EXTENDS OrderPlacement, FiniteSetTheorems, TLAPS

-------------------------------------------------------------------------------
(***************************************************************************)
(* begin and onStepEvent on the rows of a saga of two steps.               *)
(***************************************************************************)
LEMMA RowsAreTyped ==
  ASSUME NEW i \in {NoStep, 0, 1}, NEW a \in StepStatus \union {NotRun},
         NEW b \in StepStatus \union {NotRun}, NEW c \in SagaStatus
  PROVE  RowWith(i, a, b, c) \in Row
<1>1. i \in Step \union {NoStep}
  BY DEF Step
<1>2. Steps(a, b) \in [Step -> StepStatus \union {NotRun}]
  BY DEF Steps
<1> QED
  BY <1>1, <1>2 DEF Row, RowWith

\* The fields of a row.
LEMMA RowFields ==
  ASSUME NEW i, NEW a, NEW b, NEW c
  PROVE  /\ RowWith(i, a, b, c).currentStep = i
         /\ RowWith(i, a, b, c).sagaStatus = c
         /\ AllStatus(RowWith(i, a, b, c)) = {a, b} \ {NotRun}
<1>1. Step = {0, 1}
  BY DEF Step
<1> QED
  BY <1>1 DEF AllStatus, RowWith, Steps, CREDIT_APPROVAL

\* A step is put in a row.
PutIn(row, i, x) == [row EXCEPT !.stepStatus[i] = x]

LEMMA PutStep ==
  ASSUME NEW i, NEW a, NEW b, NEW c, NEW x
  PROVE  /\ PutIn(RowWith(i, a, b, c), 0, x) = RowWith(i, x, b, c)
         /\ PutIn(RowWith(i, a, b, c), 1, x) = RowWith(i, a, x, c)
<1>1. [Steps(a, b) EXCEPT ![0] = x] = Steps(x, b)
  BY DEF Steps, CREDIT_APPROVAL, Step
<1>2. [Steps(a, b) EXCEPT ![1] = x] = Steps(a, x)
  <2>1. \A j \in Step : j = 1 \/ j = CREDIT_APPROVAL
    BY DEF CREDIT_APPROVAL, Step
  <2>2. \A j \in Step : [Steps(a, b) EXCEPT ![1] = x][j] = Steps(a, x)[j]
    BY <2>1 DEF Steps, CREDIT_APPROVAL
  <2> QED
    BY <2>2 DEF Steps
<1>3. PutIn(RowWith(i, a, b, c), 0, x)
        = [currentStep |-> i, stepStatus |-> [Steps(a, b) EXCEPT ![0] = x], sagaStatus |-> c]
  BY DEF RowWith, PutIn
<1>4. PutIn(RowWith(i, a, b, c), 1, x)
        = [currentStep |-> i, stepStatus |-> [Steps(a, b) EXCEPT ![1] = x], sagaStatus |-> c]
  BY DEF RowWith, PutIn
<1> QED
  BY <1>1, <1>2, <1>3, <1>4, Zenon DEF RowWith

-------------------------------------------------------------------------------
\* onStepEvent, taken apart: the answer is put, the saga moves, its status follows.
MovedRow(row, status) == IF GoesBack(status) THEN GoBack(row) ELSE Advance(row)

MovesTo(row, i, status, c, a, b, w, fires) ==
  MovedRow(PutIn(row, i, status), status) = [row |-> RowWith(c, a, b, w), fired |-> fires]

LEMMA OnStepEventOfRow ==
  ASSUME NEW row, NEW i, NEW status, NEW c, NEW a, NEW b, NEW w, NEW fires,
         MovesTo(row, i, status, c, a, b, w, fires)
  PROVE  /\ OnStepEvent(row, i, status).row
              = RowWith(c, a, b, GetSagaStatus({a, b} \ {NotRun}))
         /\ OnStepEvent(row, i, status).fired = fires
<1> DEFINE moved == MovedRow(PutIn(row, i, status), status)
           final == GetSagaStatus(AllStatus(moved.row))
<1>1. OnStepEvent(row, i, status) = [moved EXCEPT !.row.sagaStatus = final]
  BY Zenon DEF OnStepEvent, PutIn, MovedRow
<1>2. moved = [row |-> RowWith(c, a, b, w), fired |-> fires]
  BY DEF MovesTo
<1>3. final = GetSagaStatus({a, b} \ {NotRun})
  <2>1. moved.row = RowWith(c, a, b, w)
    BY <1>2
  <2>2. AllStatus(RowWith(c, a, b, w)) = {a, b} \ {NotRun}
    BY RowFields
  <2> QED
    BY <2>1, <2>2
<1> HIDE DEF moved, final
<1>4. [moved EXCEPT !.row.sagaStatus = final]
        = [row |-> [RowWith(c, a, b, w) EXCEPT !.sagaStatus = final], fired |-> fires]
  BY <1>2
<1>5. [RowWith(c, a, b, w) EXCEPT !.sagaStatus = final] = RowWith(c, a, b, final)
  BY DEF RowWith
<1>6. OnStepEvent(row, i, status) = [row |-> RowWith(c, a, b, final), fired |-> fires]
  BY <1>1, <1>4, <1>5, Zenon
<1> QED
  BY <1>3, <1>6

LEMMA Moves ==
  ASSUME NEW a, NEW b, NEW w
  PROVE  /\ Advance(RowWith(0, a, b, w))
              = [row   |-> RowWith(1, a, "STARTED", w),
                 fired |-> {[step |-> PAYMENT, type |-> "REQUEST"]}]
         /\ Advance(RowWith(1, a, b, w)) = [row |-> RowWith(NoStep, a, b, w), fired |-> {}]
         /\ Advance(RowWith(NoStep, a, b, w))
              = [row   |-> RowWith(0, "STARTED", b, w),
                 fired |-> {[step |-> CREDIT_APPROVAL, type |-> "REQUEST"]}]
         /\ GoBack(RowWith(0, a, b, w)) = [row |-> RowWith(NoStep, a, b, w), fired |-> {}]
         /\ GoBack(RowWith(1, a, b, w))
              = [row   |-> RowWith(0, "COMPENSATING", b, w),
                 fired |-> {[step |-> CREDIT_APPROVAL, type |-> "CANCEL"]}]
<1>1. /\ GetNextStep(RowWith(0, a, b, w)) = 1
      /\ GetNextStep(RowWith(1, a, b, w)) = NoStep
      /\ GetNextStep(RowWith(NoStep, a, b, w)) = 0
  BY RowFields DEF GetNextStep, NoStep
<1>2. NoStep # 0 /\ NoStep # 1
  BY DEF NoStep
<1>3. /\ [RowWith(0, a, b, w) EXCEPT !.currentStep = 1, !.stepStatus[1] = "STARTED"]
           = RowWith(1, a, "STARTED", w)
      /\ [RowWith(NoStep, a, b, w) EXCEPT !.currentStep = 0, !.stepStatus[0] = "STARTED"]
           = RowWith(0, "STARTED", b, w)
      /\ [RowWith(1, a, b, w) EXCEPT !.currentStep = 0, !.stepStatus[0] = "COMPENSATING"]
           = RowWith(0, "COMPENSATING", b, w)
  <2>1. /\ [RowWith(0, a, b, w) EXCEPT !.currentStep = 1] = RowWith(1, a, b, w)
        /\ [RowWith(NoStep, a, b, w) EXCEPT !.currentStep = 0] = RowWith(0, a, b, w)
        /\ [RowWith(1, a, b, w) EXCEPT !.currentStep = 0] = RowWith(0, a, b, w)
    BY DEF RowWith
  <2>2. /\ PutIn(RowWith(1, a, b, w), 1, "STARTED") = RowWith(1, a, "STARTED", w)
        /\ PutIn(RowWith(0, a, b, w), 0, "STARTED") = RowWith(0, "STARTED", b, w)
        /\ PutIn(RowWith(0, a, b, w), 0, "COMPENSATING") = RowWith(0, "COMPENSATING", b, w)
    BY PutStep
  <2> QED
    BY <2>1, <2>2, Zenon DEF PutIn
<1>4. /\ Advance(RowWith(0, a, b, w))
           = [row   |-> [RowWith(0, a, b, w) EXCEPT !.currentStep = 1, !.stepStatus[1] = "STARTED"],
              fired |-> {[step |-> 1, type |-> "REQUEST"]}]
      /\ Advance(RowWith(NoStep, a, b, w))
           = [row   |-> [RowWith(NoStep, a, b, w) EXCEPT !.currentStep = 0,
                                                         !.stepStatus[0] = "STARTED"],
              fired |-> {[step |-> 0, type |-> "REQUEST"]}]
      /\ Advance(RowWith(1, a, b, w))
           = [row |-> [RowWith(1, a, b, w) EXCEPT !.currentStep = NoStep], fired |-> {}]
  BY <1>1, <1>2, Zenon DEF Advance
<1>5. /\ RowWith(0, a, b, w).currentStep = 0
      /\ RowWith(1, a, b, w).currentStep = 1
      /\ 1 - 1 = 0 /\ 1 # 0
  BY RowFields
<1>6. /\ GoBack(RowWith(0, a, b, w))
           = [row |-> [RowWith(0, a, b, w) EXCEPT !.currentStep = NoStep], fired |-> {}]
      /\ GoBack(RowWith(1, a, b, w))
           = [row   |-> [RowWith(1, a, b, w) EXCEPT !.currentStep = 0,
                                                    !.stepStatus[0] = "COMPENSATING"],
              fired |-> {[step |-> 0, type |-> "CANCEL"]}]
  BY <1>5, Zenon DEF GoBack
<1>7. /\ [RowWith(1, a, b, w) EXCEPT !.currentStep = NoStep] = RowWith(NoStep, a, b, w)
      /\ [RowWith(0, a, b, w) EXCEPT !.currentStep = NoStep] = RowWith(NoStep, a, b, w)
  BY DEF RowWith
<1> QED
  BY <1>3, <1>4, <1>6, <1>7, Zenon DEF CREDIT_APPROVAL, PAYMENT

\* What placing an order begins.  After it: what each answer makes of the row that
\* waits for it.
LEMMA BeginResult ==
  /\ Begin.row = RowWith(0, "STARTED", NotRun, "STARTED")
  /\ Begin.fired = {[step |-> CREDIT_APPROVAL, type |-> "REQUEST"]}
<1>1. Steps(NotRun, NotRun) = [i \in Step |-> NotRun]
  BY DEF Steps
<1>2. [NoRow EXCEPT !.sagaStatus = "STARTED"]
        = [currentStep |-> NoStep, stepStatus |-> [i \in Step |-> NotRun],
           sagaStatus |-> "STARTED"]
  <2> DEFINE st == [i \in Step |-> NotRun]
  <2>1. NoRow = [currentStep |-> NoStep, stepStatus |-> st, sagaStatus |-> "NONE"]
    BY DEF NoRow
  <2> HIDE DEF st
  <2>2. [[currentStep |-> NoStep, stepStatus |-> st, sagaStatus |-> "NONE"]
           EXCEPT !.sagaStatus = "STARTED"]
          = [currentStep |-> NoStep, stepStatus |-> st, sagaStatus |-> "STARTED"]
    OBVIOUS
  <2> QED
    BY <2>1, <2>2, Zenon DEF st
<1>3. Begin = Advance(RowWith(NoStep, NotRun, NotRun, "STARTED"))
  BY <1>1, <1>2, Zenon DEF Begin, RowWith
<1>4. Begin = [row   |-> RowWith(0, "STARTED", NotRun, "STARTED"),
               fired |-> {[step |-> CREDIT_APPROVAL, type |-> "REQUEST"]}]
  BY <1>3, Moves
<1> QED
  BY <1>4

\* Credit granted: the payment is next.
LEMMA GrantedResult ==
  LET row  == RowWith(0, "STARTED", NotRun, "STARTED")
      next == OnStepEvent(row, 0, "SUCCEEDED")
  IN  /\ next.row = RowWith(1, "SUCCEEDED", "STARTED", "STARTED")
      /\ next.fired = {[step |-> PAYMENT, type |-> "REQUEST"]}
<1> DEFINE row  == RowWith(0, "STARTED", NotRun, "STARTED")
           put  == PutIn(row, 0, "SUCCEEDED")
<1>1. put = RowWith(0, "SUCCEEDED", NotRun, "STARTED")
  BY PutStep
<1>2. ~ GoesBack("SUCCEEDED")
  BY DEF GoesBack
<1>3. MovesTo(row, 0, "SUCCEEDED", 1, "SUCCEEDED", "STARTED", "STARTED",
              {[step |-> PAYMENT, type |-> "REQUEST"]})
  BY <1>1, <1>2, Moves DEF MovesTo, MovedRow
<1>4. GetSagaStatus({"SUCCEEDED", "STARTED"} \ {NotRun}) = "STARTED"
  BY DEF GetSagaStatus, NotRun
<1> HIDE DEF put, row
<1> QED
  BY SMTT(30), <1>3, <1>4, OnStepEventOfRow DEF row

\* Credit rejected: there is nothing to compensate.
LEMMA RejectedResult ==
  LET row  == RowWith(0, "STARTED", NotRun, "STARTED")
      next == OnStepEvent(row, 0, "FAILED")
  IN  /\ next.row = RowWith(NoStep, "FAILED", NotRun, "ABORTED")
      /\ next.fired = {}
<1> DEFINE row  == RowWith(0, "STARTED", NotRun, "STARTED")
           put  == PutIn(row, 0, "FAILED")
<1>1. put = RowWith(0, "FAILED", NotRun, "STARTED")
  BY PutStep
<1>2. GoesBack("FAILED")
  BY DEF GoesBack
<1>3. MovesTo(row, 0, "FAILED", NoStep, "FAILED", NotRun, "STARTED",
              {})
  BY <1>1, <1>2, Moves DEF MovesTo, MovedRow
<1>4. GetSagaStatus({"FAILED", NotRun} \ {NotRun}) = "ABORTED"
  BY DEF GetSagaStatus, NotRun
<1> HIDE DEF put, row
<1> QED
  BY <1>3, <1>4, OnStepEventOfRow DEF row

\* Payment taken: the saga is complete.
LEMMA TakenResult ==
  LET row  == RowWith(1, "SUCCEEDED", "STARTED", "STARTED")
      next == OnStepEvent(row, 1, "SUCCEEDED")
  IN  /\ next.row = RowWith(NoStep, "SUCCEEDED", "SUCCEEDED", "COMPLETED")
      /\ next.fired = {}
<1> DEFINE row  == RowWith(1, "SUCCEEDED", "STARTED", "STARTED")
           put  == PutIn(row, 1, "SUCCEEDED")
<1>1. put = RowWith(1, "SUCCEEDED", "SUCCEEDED", "STARTED")
  BY PutStep
<1>2. ~ GoesBack("SUCCEEDED")
  BY DEF GoesBack
<1>3. MovesTo(row, 1, "SUCCEEDED", NoStep, "SUCCEEDED", "SUCCEEDED", "STARTED",
              {})
  BY <1>1, <1>2, Moves DEF MovesTo, MovedRow
<1>4. GetSagaStatus({"SUCCEEDED", "SUCCEEDED"} \ {NotRun}) = "COMPLETED"
  BY DEF GetSagaStatus, NotRun
<1> HIDE DEF put, row
<1> QED
  BY <1>3, <1>4, OnStepEventOfRow DEF row

\* Payment declined: the credit is given back.
LEMMA DeclinedResult ==
  LET row  == RowWith(1, "SUCCEEDED", "STARTED", "STARTED")
      next == OnStepEvent(row, 1, "FAILED")
  IN  /\ next.row = RowWith(0, "COMPENSATING", "FAILED", "ABORTING")
      /\ next.fired = {[step |-> CREDIT_APPROVAL, type |-> "CANCEL"]}
<1> DEFINE row  == RowWith(1, "SUCCEEDED", "STARTED", "STARTED")
           put  == PutIn(row, 1, "FAILED")
<1>1. put = RowWith(1, "SUCCEEDED", "FAILED", "STARTED")
  BY PutStep
<1>2. GoesBack("FAILED")
  BY DEF GoesBack
<1>3. MovesTo(row, 1, "FAILED", 0, "COMPENSATING", "FAILED", "STARTED",
              {[step |-> CREDIT_APPROVAL, type |-> "CANCEL"]})
  BY <1>1, <1>2, Moves DEF MovesTo, MovedRow
<1>4. GetSagaStatus({"COMPENSATING", "FAILED"} \ {NotRun}) = "ABORTING"
  BY DEF GetSagaStatus, NotRun
<1> HIDE DEF put, row
<1> QED
  BY SMTT(30), <1>3, <1>4, OnStepEventOfRow DEF row

\* Credit given back: the saga is aborted.
LEMMA ReturnedResult ==
  LET row  == RowWith(0, "COMPENSATING", "FAILED", "ABORTING")
      next == OnStepEvent(row, 0, "COMPENSATED")
  IN  /\ next.row = RowWith(NoStep, "COMPENSATED", "FAILED", "ABORTED")
      /\ next.fired = {}
<1> DEFINE row  == RowWith(0, "COMPENSATING", "FAILED", "ABORTING")
           put  == PutIn(row, 0, "COMPENSATED")
<1>1. put = RowWith(0, "COMPENSATED", "FAILED", "ABORTING")
  BY PutStep
<1>2. GoesBack("COMPENSATED")
  BY DEF GoesBack
<1>3. MovesTo(row, 0, "COMPENSATED", NoStep, "COMPENSATED", "FAILED", "ABORTING",
              {})
  BY <1>1, <1>2, Moves DEF MovesTo, MovedRow
<1>4. GetSagaStatus({"COMPENSATED", "FAILED"} \ {NotRun}) = "ABORTED"
  BY DEF GetSagaStatus, NotRun
<1> HIDE DEF put, row
<1> QED
  BY <1>3, <1>4, OnStepEventOfRow DEF row

-------------------------------------------------------------------------------
(***************************************************************************)
(* From point to point.                                                    *)
(***************************************************************************)
LEMMA EventsDiffer ==
  ASSUME NEW s \in Sagas
  PROVE  /\ Credit(s) # Pay(s) /\ Credit(s) # Release(s) /\ Pay(s) # Release(s)
         /\ Granted(s) # Rejected(s) /\ Granted(s) # Taken(s) /\ Granted(s) # Declined(s)
         /\ Granted(s) # Returned(s) /\ Taken(s) # Declined(s) /\ Declined(s) # Returned(s)
BY DEF Credit, Pay, Release, Granted, Rejected, Taken, Declined, Returned, Ask, Reply,
       CREDIT_APPROVAL, PAYMENT

\* An answer that is not handled is the only one, and the one the saga waits for.
LEMMA OpenAnswer ==
  ASSUME NEW s \in Sagas, NEW p, AtAPoint(s, p), NEW e, e \in p.answered, e \notin p.handled
  PROVE  /\ p.answered = p.handled \union {e} /\ p.logged = p.asked
         /\ \/ AwaitsCredit(s, p) /\ e \in {Granted(s), Rejected(s)}
            \/ AwaitsPayment(s, p) /\ e \in {Taken(s), Declined(s)}
            \/ AwaitsRelease(s, p) /\ e = Returned(s)
<1>1. ~ (NotPlaced(p) \/ Accepted(s, p) \/ RefusedCredit(s, p) \/ RefusedPayment(s, p))
  BY DEF NotPlaced, Accepted, RefusedCredit, RefusedPayment, Ended
<1>2. CASE AwaitsCredit(s, p)
  BY <1>2 DEF AwaitsCredit, Waiting
<1>3. CASE AwaitsPayment(s, p)
  BY <1>3 DEF AwaitsPayment, Waiting
<1>4. CASE AwaitsRelease(s, p)
  BY <1>4 DEF AwaitsRelease, Waiting
<1> QED
  BY <1>1, <1>2, <1>3, <1>4 DEF AtAPoint

\* A request that is not answered is the last one, and all answers are handled.
LEMMA OpenRequest ==
  ASSUME NEW s \in Sagas, NEW p, AtAPoint(s, p), NEW e, e \in p.asked, e \notin p.logged
  PROVE  /\ p.asked = p.logged \union {e} /\ p.answered = p.handled
         /\ \/ AwaitsCredit(s, p) /\ e = Credit(s)
            \/ AwaitsPayment(s, p) /\ e = Pay(s)
            \/ AwaitsRelease(s, p) /\ e = Release(s)
<1>1. ~ (NotPlaced(p) \/ Accepted(s, p) \/ RefusedCredit(s, p) \/ RefusedPayment(s, p))
  BY DEF NotPlaced, Accepted, RefusedCredit, RefusedPayment, Ended
<1>2. CASE AwaitsCredit(s, p)
  BY <1>2 DEF AwaitsCredit, Waiting
<1>3. CASE AwaitsPayment(s, p)
  BY <1>3 DEF AwaitsPayment, Waiting
<1>4. CASE AwaitsRelease(s, p)
  BY <1>4 DEF AwaitsRelease, Waiting
<1> QED
  BY <1>1, <1>2, <1>3, <1>4 DEF AtAPoint

\* The participant's answer to a request.
RepliesTo(s, e) ==
  CASE e = Credit(s)  -> {Granted(s), Rejected(s)}
    [] e = Pay(s)     -> {Taken(s), Declined(s)}
    [] e = Release(s) -> {Returned(s)}
    [] OTHER          -> {}

LEMMA AnsweredRequest ==
  ASSUME NEW s \in Sagas, NEW p, NEW q, AtAPoint(s, p),
         NEW e, e \in p.asked, e \notin p.logged, NEW a \in RepliesTo(s, e),
         q.row = p.row, q.status = p.status, q.asked = p.asked, q.handled = p.handled,
         q.logged = p.logged \union {e}, q.answered = p.answered \union {a}
  PROVE  AtAPoint(s, q)
<1>1. CASE AwaitsCredit(s, p) /\ e = Credit(s)
  <2>1. a \in {Granted(s), Rejected(s)}
    BY <1>1, EventsDiffer DEF RepliesTo
  <2> QED
    BY <1>1, <2>1, OpenRequest DEF AtAPoint, AwaitsCredit, Waiting
<1>2. CASE AwaitsPayment(s, p) /\ e = Pay(s)
  <2>1. a \in {Taken(s), Declined(s)}
    BY <1>2, EventsDiffer DEF RepliesTo
  <2> QED
    BY <1>2, <2>1, OpenRequest DEF AtAPoint, AwaitsPayment, Waiting
<1>3. CASE AwaitsRelease(s, p) /\ e = Release(s)
  <2>1. a \in {Returned(s)}
    BY <1>3, EventsDiffer DEF RepliesTo
  <2> QED
    BY <1>3, <2>1, OpenRequest DEF AtAPoint, AwaitsRelease, Waiting
<1> QED
  BY <1>1, <1>2, <1>3, OpenRequest

LEMMA FiredRequest ==
  ASSUME NEW s, NEW step, NEW type
  PROVE  {Ask(s, m.step, m.type) : m \in {[step |-> step, type |-> type]}} = {Ask(s, step, type)}
OBVIOUS

\* q is p after the order service has handled answer e, with outcome next.
AfterAnswer(s, p, e, next, q) ==
  /\ next = OnStepEvent(p.row, e.step, ToStepStatus(e.status))
  /\ q.row = next.row /\ q.status = OrderStatusOf(next.row.sagaStatus, p.status)
  /\ q.asked = p.asked \union {Ask(s, m.step, m.type) : m \in next.fired}
  /\ q.logged = p.logged /\ q.answered = p.answered /\ q.handled = p.handled \union {e}

\* The ways from a point to the next one.
MovesOn(s, p, q) ==
  \/ AwaitsCredit(s, p)  /\ (AwaitsPayment(s, q) \/ RefusedCredit(s, q))
  \/ AwaitsPayment(s, p) /\ (Accepted(s, q) \/ AwaitsRelease(s, q))
  \/ AwaitsRelease(s, p) /\ RefusedPayment(s, q)

\* The order service's step on an answer: where it leads.
LEMMA HandledAnswer ==
  ASSUME NEW s \in Sagas, NEW p, NEW q, AtAPoint(s, p),
         NEW e, e \in p.answered, e \notin p.handled, NEW next,
         AfterAnswer(s, p, e, next, q)
  PROVE  AtAPoint(s, q) /\ MovesOn(s, p, q)
<1> USE DEF AfterAnswer
<1> USE OpenAnswer
<1>1. CASE AwaitsCredit(s, p) /\ e = Granted(s)
  <2>1. e.step = 0 /\ ToStepStatus(e.status) = "SUCCEEDED"
    BY <1>1 DEF Granted, Reply, ToStepStatus, CREDIT_APPROVAL
  <2>2. /\ p.row = RowWith(0, "STARTED", NotRun, "STARTED") /\ p.status = "CREATED"
        /\ p.asked = {Credit(s)} /\ p.handled = {}
    BY <1>1 DEF AwaitsCredit, Waiting
  <2>3. /\ next.row = RowWith(1, "SUCCEEDED", "STARTED", "STARTED")
        /\ next.fired = {[step |-> PAYMENT, type |-> "REQUEST"]}
    BY <2>1, <2>2, GrantedResult
  <2>4. q.asked = {Credit(s)} \union {Pay(s)} /\ q.status = "CREATED"
    <3>1. {Ask(s, m.step, m.type) : m \in next.fired} = {Pay(s)}
      BY <2>3, FiredRequest DEF Pay
    <3> QED
      BY <2>2, <2>3, <3>1, RowFields DEF OrderStatusOf
  <2> QED
    BY <1>1, <2>2, <2>3, <2>4 DEF AtAPoint, MovesOn, AwaitsPayment, Waiting
<1>2. CASE AwaitsCredit(s, p) /\ e = Rejected(s)
  <2>1. e.step = 0 /\ ToStepStatus(e.status) = "FAILED"
    BY <1>2 DEF Rejected, Reply, ToStepStatus, CREDIT_APPROVAL
  <2>2. /\ p.row = RowWith(0, "STARTED", NotRun, "STARTED")
        /\ p.asked = {Credit(s)} /\ p.handled = {}
    BY <1>2 DEF AwaitsCredit, Waiting
  <2>3. next.row = RowWith(NoStep, "FAILED", NotRun, "ABORTED") /\ next.fired = {}
    BY <2>1, <2>2, RejectedResult
  <2>4. q.asked = {Credit(s)} /\ q.status = "CANCELLED"
    BY <2>2, <2>3, RowFields DEF OrderStatusOf
  <2> QED
    BY <1>2, <2>2, <2>3, <2>4 DEF AtAPoint, MovesOn, RefusedCredit, Ended
<1>3. CASE AwaitsPayment(s, p) /\ e = Taken(s)
  <2>1. e.step = 1 /\ ToStepStatus(e.status) = "SUCCEEDED"
    BY <1>3 DEF Taken, Reply, ToStepStatus, PAYMENT
  <2>2. /\ p.row = RowWith(1, "SUCCEEDED", "STARTED", "STARTED")
        /\ p.asked = {Credit(s), Pay(s)} /\ p.handled = {Granted(s)}
    BY <1>3 DEF AwaitsPayment, Waiting
  <2>3. next.row = RowWith(NoStep, "SUCCEEDED", "SUCCEEDED", "COMPLETED") /\ next.fired = {}
    BY <2>1, <2>2, TakenResult
  <2>4. q.asked = {Credit(s), Pay(s)} /\ q.status = "PROCESSING"
    BY <2>2, <2>3, RowFields DEF OrderStatusOf
  <2> QED
    BY <1>3, <2>2, <2>3, <2>4 DEF AtAPoint, MovesOn, Accepted, Ended
<1>4. CASE AwaitsPayment(s, p) /\ e = Declined(s)
  <2>1. e.step = 1 /\ ToStepStatus(e.status) = "FAILED"
    BY <1>4 DEF Declined, Reply, ToStepStatus, PAYMENT
  <2>2. /\ p.row = RowWith(1, "SUCCEEDED", "STARTED", "STARTED") /\ p.status = "CREATED"
        /\ p.asked = {Credit(s), Pay(s)} /\ p.handled = {Granted(s)}
    BY <1>4 DEF AwaitsPayment, Waiting
  <2>3. /\ next.row = RowWith(0, "COMPENSATING", "FAILED", "ABORTING")
        /\ next.fired = {[step |-> CREDIT_APPROVAL, type |-> "CANCEL"]}
    BY <2>1, <2>2, DeclinedResult
  <2>4. q.asked = {Credit(s), Pay(s)} \union {Release(s)} /\ q.status = "CREATED"
    <3>1. {Ask(s, m.step, m.type) : m \in next.fired} = {Release(s)}
      BY <2>3, FiredRequest DEF Release
    <3> QED
      BY <2>2, <2>3, <3>1, RowFields DEF OrderStatusOf
  <2> QED
    BY <1>4, <2>2, <2>3, <2>4 DEF AtAPoint, MovesOn, AwaitsRelease, Waiting
<1>5. CASE AwaitsRelease(s, p) /\ e = Returned(s)
  <2>1. e.step = 0 /\ ToStepStatus(e.status) = "COMPENSATED"
    BY <1>5 DEF Returned, Reply, ToStepStatus, CREDIT_APPROVAL
  <2>2. /\ p.row = RowWith(0, "COMPENSATING", "FAILED", "ABORTING")
        /\ p.asked = {Credit(s), Pay(s), Release(s)} /\ p.handled = {Granted(s), Declined(s)}
    BY <1>5 DEF AwaitsRelease, Waiting
  <2>3. next.row = RowWith(NoStep, "COMPENSATED", "FAILED", "ABORTED") /\ next.fired = {}
    BY <2>1, <2>2, ReturnedResult
  <2>4. q.asked = {Credit(s), Pay(s), Release(s)} /\ q.status = "CANCELLED"
    BY <2>2, <2>3, RowFields DEF OrderStatusOf
  <2> QED
    BY <1>5, <2>2, <2>3, <2>4 DEF AtAPoint, MovesOn, RefusedPayment, Ended
<1> QED
  BY <1>1, <1>2, <1>3, <1>4, <1>5

-------------------------------------------------------------------------------
(***************************************************************************)
(* The actions keep the invariant.                                         *)
(***************************************************************************)
LEMMA PartStays ==
  ASSUME NEW s \in Sagas, AtAPoint(s, Part(s)), UNCHANGED Part(s)
  PROVE  AtAPoint(s, Part(s))'
OBVIOUS

LEMMA PartFields ==
  ASSUME NEW s
  PROVE  /\ Part(s).row = sagaState[s] /\ Part(s).status = purchaseOrder[s]
         /\ Part(s).asked = {r \in requests : r.saga = s}
         /\ Part(s).logged = {r \in creditLog \union paymentLog : r.saga = s}
         /\ Part(s).answered = {r \in responses : r.saga = s}
         /\ Part(s).handled = {r \in consumed : r.saga = s}
BY DEF Part

LEMMA InitInv == Init => PlacementInv
<1> SUFFICES ASSUME Init PROVE PlacementInv
  OBVIOUS
<1> USE DEF Init, OrderInit, CustomerInit, PaymentInit
<1>1. TypeOK
  <2>1. OrderTypeOK
    BY DEF OrderTypeOK, NoOrder
  <2>2. openLimit \in Int
    BY LimitAssumption DEF LimitAssumption
  <2>3. creditFailed \in BOOLEAN
    BY Zenon
  <2>4. CustomerTypeOK /\ PaymentTypeOK
    BY <2>2, <2>3 DEF CustomerTypeOK, PaymentTypeOK
  <2> QED
    BY <2>1, <2>4 DEF TypeOK
<1>2. LogsApart /\ HeldAreDelivered /\ ReadsAreCurrent
  BY DEF LogsApart, HeldAreDelivered, ReadsAreCurrent, Idle
<1>3. ASSUME NEW s \in Sagas PROVE AtAPoint(s, Part(s))
  BY PartFields DEF AtAPoint, NotPlaced, Ended
<1> QED
  BY <1>1, <1>2, <1>3 DEF PlacementInv

\* The answer that a participant gives to an open request is the first of its content.
LEMMA NewReply ==
  ASSUME NEW s \in Sagas, AtAPoint(s, Part(s)),
         NEW e, e \in Part(s).asked, e \notin Part(s).logged,
         NEW status, Reply(s, e.step, status) \in RepliesTo(s, e)
  PROVE  NewResponse(s, e.step, status) = Reply(s, e.step, status)
<1>1. \A r \in Part(s).answered : ~ (r.step = e.step /\ r.status = status)
  <2>1. CASE AwaitsCredit(s, Part(s)) /\ e = Credit(s)
    BY <2>1, OpenRequest DEF AwaitsCredit, Waiting
  <2>2. CASE AwaitsPayment(s, Part(s)) /\ e = Pay(s)
    <3>1. Part(s).answered = {Granted(s)}
      BY <2>2, OpenRequest DEF AwaitsPayment, Waiting
    <3> QED
      BY <2>2, <3>1 DEF Pay, Granted, Ask, Reply, CREDIT_APPROVAL, PAYMENT
  <2>3. CASE AwaitsRelease(s, Part(s)) /\ e = Release(s)
    <3>1. Part(s).answered = {Granted(s), Declined(s)}
      BY <2>3, OpenRequest DEF AwaitsRelease, Waiting
    <3>2. e.step = CREDIT_APPROVAL /\ status = "CANCELLED"
      BY <2>3, EventsDiffer DEF RepliesTo, Returned, Reply, Release, Ask
    <3> QED
      BY <3>1, <3>2 DEF Declined, Granted, Reply, CREDIT_APPROVAL, PAYMENT
  <2> QED
    BY <2>1, <2>2, <2>3, OpenRequest
<1>2. ResponsesOf(s, e.step, status) = {}
  BY <1>1, PartFields DEF ResponsesOf
<1> QED
  BY <1>2, FS_EmptySet DEF NewResponse, Reply

\* A participant answers: the point of the order moves on, the others stay.
LEMMA AnswerKeepsPoints ==
  ASSUME PlacementInv, NEW e \in requests, NEW status,
         e \notin creditLog \union paymentLog,
         Reply(e.saga, e.step, status) \in RepliesTo(e.saga, e),
         responses' = responses \union {NewResponse(e.saga, e.step, status)},
         creditLog' \union paymentLog' = creditLog \union paymentLog \union {e},
         UNCHANGED <<requests, orderVars>>
  PROVE  /\ responses' = responses \union {Reply(e.saga, e.step, status)}
         /\ \A s \in Sagas : AtAPoint(s, Part(s))'
<1>1. e.saga \in Sagas /\ AtAPoint(e.saga, Part(e.saga))
  BY DEF PlacementInv, TypeOK, Request
<1>2. e \in Part(e.saga).asked /\ e \notin Part(e.saga).logged
  BY PartFields
<1>3. responses' = responses \union {Reply(e.saga, e.step, status)}
  BY <1>1, <1>2, NewReply
<1>4. Reply(e.saga, e.step, status).saga = e.saga
  BY DEF Reply
<1>5. ASSUME NEW s \in Sagas PROVE AtAPoint(s, Part(s))'
  <2>1. CASE s = e.saga
    <3>1. /\ Part(s)'.row = Part(s).row /\ Part(s)'.status = Part(s).status
          /\ Part(s)'.asked = Part(s).asked /\ Part(s)'.handled = Part(s).handled
      BY DEF Part, orderVars
    <3>2. /\ Part(s)'.logged = Part(s).logged \union {e}
          /\ Part(s)'.answered = Part(s).answered \union {Reply(s, e.step, status)}
      BY <2>1, <1>3, <1>4 DEF Part
    <3> QED
      BY <1>1, <1>2, <2>1, <3>1, <3>2, AnsweredRequest
  <2>2. CASE s # e.saga
    <3>1. Part(s)' = Part(s)
      BY <2>2, <1>3, <1>4 DEF Part, orderVars
    <3> QED
      BY <3>1, PartStays DEF PlacementInv
  <2> QED
    BY <2>1, <2>2
<1> QED
  BY <1>3, <1>5

\* What an open request asks of whom.
LEMMA OpenRequestOf ==
  ASSUME PlacementInv, NEW e \in requests, e \notin creditLog \union paymentLog
  PROVE  /\ e.saga \in Sagas
         /\ e.step = CREDIT_APPROVAL /\ e.type = "REQUEST" => e = Credit(e.saga)
         /\ e.step = CREDIT_APPROVAL /\ e.type = "CANCEL"  => e = Release(e.saga)
         /\ e.step = PAYMENT => e = Pay(e.saga) /\ e.type = "REQUEST"
<1>1. e.saga \in Sagas /\ AtAPoint(e.saga, Part(e.saga))
  BY DEF PlacementInv, TypeOK, Request
<1>2. e \in Part(e.saga).asked /\ e \notin Part(e.saga).logged
  BY PartFields
<1>3. e \in {Credit(e.saga), Pay(e.saga), Release(e.saga)}
  BY <1>1, <1>2, OpenRequest
<1> QED
  BY <1>1, <1>3 DEF Credit, Pay, Release, Ask, CREDIT_APPROVAL, PAYMENT

LEMMA RepliesAreTyped ==
  ASSUME NEW s \in Sagas
  PROVE  {Granted(s), Rejected(s), Returned(s), Taken(s), Declined(s)} \subseteq Response
BY DEF Response, Granted, Rejected, Returned, Taken, Declined, Reply, CreditStatus, PaymentStatus

LEMMA CreditAnswerInv ==
  ASSUME PlacementInv, NEW e \in requests, NEW status, TakesCredit(e), AnswerCredit(e, status),
         \/ e.type = "REQUEST" /\ status \in {"APPROVED", "REJECTED"}
         \/ e.type = "CANCEL" /\ status = "CANCELLED",
         openLimit' \in Int, UNCHANGED <<orderVars, paymentVars>>
  PROVE  PlacementInv'
<1>1. e \notin creditLog \union paymentLog /\ e.step = CREDIT_APPROVAL
  BY DEF PlacementInv, LogsApart, TakesCredit, PollsCredit, CREDIT_APPROVAL, PAYMENT
<1>2. e.saga \in Sagas /\ Reply(e.saga, e.step, status) \in RepliesTo(e.saga, e)
  BY <1>1, OpenRequestOf, EventsDiffer DEF RepliesTo, Granted, Rejected, Returned
<1>3. /\ responses' = responses \union {Reply(e.saga, e.step, status)}
      /\ \A s \in Sagas : AtAPoint(s, Part(s))'
  BY <1>1, <1>2, AnswerKeepsPoints DEF AnswerCredit, paymentVars
<1>4. Reply(e.saga, e.step, status) \in Response
  BY <1>2, RepliesAreTyped DEF RepliesTo
<1>5. TypeOK'
  <2>1. OrderTypeOK'
    BY <1>3 DEF PlacementInv, TypeOK, OrderTypeOK, orderVars
  <2>2. CustomerTypeOK' /\ PaymentTypeOK'
    BY DEF PlacementInv, TypeOK, CustomerTypeOK, PaymentTypeOK, paymentVars, AnswerCredit
  <2> QED
    BY <1>3, <1>4, <2>1, <2>2 DEF PlacementInv, TypeOK, AnswerCredit
<1>6. LogsApart' /\ HeldAreDelivered' /\ ReadsAreCurrent'
  BY <1>1, <1>3 DEF PlacementInv, LogsApart, HeldAreDelivered, ReadsAreCurrent, AnswerCredit,
                    orderVars, paymentVars
<1> QED
  BY <1>3, <1>5, <1>6 DEF PlacementInv

LEMMA OnCreditEventInv ==
  ASSUME PlacementInv, NEW e \in requests, OnCreditEvent(e), UNCHANGED <<orderVars, paymentVars>>
  PROVE  PlacementInv'
<1>1. e.saga \in Sagas /\ paymentDue[e.saga] \in Nat /\ openLimit \in Int
  BY SagasAssumption DEF SagasAssumption, PlacementInv, TypeOK, CustomerTypeOK, Request
<1>2. CASE ApproveCredit(e)
  BY <1>1, <1>2, CreditAnswerInv DEF ApproveCredit
<1>3. CASE RejectCredit(e)
  BY <1>1, <1>3, CreditAnswerInv DEF RejectCredit
<1>4. CASE CancelCredit(e)
  BY <1>1, <1>4, CreditAnswerInv DEF CancelCredit
<1>5. CASE FailCredit(e)
  <2>1. \A s \in Sagas : Part(s)' = Part(s)
    BY <1>5 DEF FailCredit, Part, orderVars, paymentVars
  <2>2. \A s \in Sagas : AtAPoint(s, Part(s))'
    BY <2>1, PartStays DEF PlacementInv
  <2>3. OrderTypeOK' /\ CustomerTypeOK' /\ PaymentTypeOK'
    BY <1>5 DEF FailCredit, PlacementInv, TypeOK, OrderTypeOK, CustomerTypeOK, PaymentTypeOK,
                orderVars, paymentVars
  <2>4. TypeOK' /\ LogsApart' /\ HeldAreDelivered' /\ ReadsAreCurrent'
    BY <1>5, <2>3 DEF FailCredit, PlacementInv, TypeOK, LogsApart, HeldAreDelivered,
                      ReadsAreCurrent, orderVars, paymentVars
  <2> QED
    BY <2>2, <2>4 DEF PlacementInv
<1> QED
  BY <1>2, <1>3, <1>4, <1>5 DEF OnCreditEvent

LEMMA OnPaymentEventInv ==
  ASSUME PlacementInv, NEW e \in requests, OnPaymentEvent(e), UNCHANGED <<orderVars, customerVars>>
  PROVE  PlacementInv'
<1> DEFINE status == PaymentAnswer(e)
<1>1. e \notin creditLog \union paymentLog /\ e.step = PAYMENT
  BY DEF PlacementInv, LogsApart, OnPaymentEvent, TakesPayment, PollsPayment,
         CREDIT_APPROVAL, PAYMENT
<1>2. e.saga \in Sagas /\ e = Pay(e.saga) /\ status \in {"REQUESTED", "FAILED"}
  BY <1>1, OpenRequestOf DEF PaymentAnswer
<1>3. Reply(e.saga, e.step, status) \in RepliesTo(e.saga, e)
  BY <1>1, <1>2, EventsDiffer DEF RepliesTo, Taken, Declined
<1> HIDE DEF status
<1>4. /\ responses' = responses \union {Reply(e.saga, e.step, status)}
      /\ \A s \in Sagas : AtAPoint(s, Part(s))'
  <2>1. responses' = responses \union {NewResponse(e.saga, e.step, status)}
    BY <1>1 DEF OnPaymentEvent, status
  <2>2. creditLog' \union paymentLog' = creditLog \union paymentLog \union {e}
    BY DEF OnPaymentEvent, customerVars
  <2>3. UNCHANGED <<requests, orderVars>>
    BY DEF OnPaymentEvent
  <2> QED
    BY <1>1, <1>3, <2>1, <2>2, <2>3, AnswerKeepsPoints
<1>5. Reply(e.saga, e.step, status) \in Response
  BY <1>2, <1>3, RepliesAreTyped, EventsDiffer DEF RepliesTo
<1>6. TypeOK'
  <2>1. OrderTypeOK'
    BY <1>4 DEF PlacementInv, TypeOK, OrderTypeOK, orderVars
  <2>2. CustomerTypeOK' /\ PaymentTypeOK'
    BY <1>2 DEF PlacementInv, TypeOK, CustomerTypeOK, PaymentTypeOK, customerVars, OnPaymentEvent
  <2> QED
    BY <1>4, <1>5, <2>1, <2>2 DEF PlacementInv, TypeOK, OnPaymentEvent
<1>7. LogsApart'
  <2>1. /\ \A r \in creditLog' : r.step = CREDIT_APPROVAL
        /\ \A r \in paymentLog' : r.step = PAYMENT
    BY <1>1 DEF PlacementInv, LogsApart, OnPaymentEvent, customerVars
  <2>2. ASSUME NEW s \in Sagas
        PROVE  payments'[s] = IF Pay(s) \in paymentLog' THEN 1 ELSE 0
    <3>1. Pay(s) = e <=> s = e.saga
      BY <1>2 DEF Pay, Ask
    <3>2. payments' = [payments EXCEPT ![e.saga] = @ + 1] /\ payments \in [Sagas -> Nat]
      BY DEF OnPaymentEvent, PlacementInv, TypeOK, PaymentTypeOK
    <3>3. payments[s] = IF Pay(s) \in paymentLog THEN 1 ELSE 0
      BY DEF PlacementInv, LogsApart
    <3> QED
      BY <1>1, <1>2, <3>1, <3>2, <3>3 DEF OnPaymentEvent
  <2> QED
    BY <2>1, <2>2 DEF LogsApart, Pay, Ask
<1>8. HeldAreDelivered' /\ ReadsAreCurrent'
  BY <1>4 DEF PlacementInv, HeldAreDelivered, ReadsAreCurrent, orderVars
<1> QED
  BY <1>4, <1>6, <1>7, <1>8 DEF PlacementInv

LEMMA FailPaymentInv ==
  ASSUME PlacementInv, NEW e \in requests, FailPayment(e), UNCHANGED <<orderVars, customerVars>>
  PROVE  PlacementInv'
<1>1. \A s \in Sagas : Part(s)' = Part(s)
  BY DEF FailPayment, Part, orderVars, customerVars
<1>2. \A s \in Sagas : AtAPoint(s, Part(s))'
  BY <1>1, PartStays DEF PlacementInv
<1>3. OrderTypeOK' /\ CustomerTypeOK' /\ PaymentTypeOK'
  BY DEF FailPayment, PlacementInv, TypeOK, OrderTypeOK, CustomerTypeOK, PaymentTypeOK,
         orderVars, customerVars
<1>4. TypeOK' /\ LogsApart' /\ HeldAreDelivered' /\ ReadsAreCurrent'
  BY <1>3 DEF FailPayment, PlacementInv, TypeOK, LogsApart, HeldAreDelivered, ReadsAreCurrent,
              orderVars, customerVars
<1> QED
  BY <1>2, <1>4 DEF PlacementInv

\* What the order service fires is the first of its content.
LEMMA SagaEventIs ==
  ASSUME NEW s \in Sagas, NEW m, m.type \in {"REQUEST", "CANCEL"},
         m.type = "CANCEL" => m.step = CREDIT_APPROVAL,
         \A r \in Part(s).asked : ~ (r.step = m.step /\ r.type = m.type)
  PROVE  SagaEvent(s, m) = Ask(s, m.step, m.type)
<1>1. RequestsOf(s, m.step, m.type) = {}
  BY PartFields DEF RequestsOf
<1> QED
  BY <1>1, FS_EmptySet DEF SagaEvent, NewRequest, Ask

LEMMA PlaceOrderInv ==
  ASSUME PlacementInv, NEW s \in Sagas, PlaceOrder(s), UNCHANGED <<customerVars, paymentVars>>
  PROVE  PlacementInv'
<1> DEFINE m == [step |-> CREDIT_APPROVAL, type |-> "REQUEST"]
<1>1. NotPlaced(Part(s))
  <2>1. Part(s).asked = {}
    BY PartFields DEF PlaceOrder
  <2> QED
    BY <2>1 DEF PlacementInv, AtAPoint, AwaitsCredit, AwaitsPayment, AwaitsRelease, Accepted,
                RefusedCredit, RefusedPayment, Waiting, Ended
<1>2. /\ sagaState[s] = NoRow /\ purchaseOrder[s] = NoOrder
      /\ Part(s).asked = {} /\ Part(s).logged = {}
      /\ Part(s).answered = {} /\ Part(s).handled = {}
  BY <1>1, PartFields DEF NotPlaced, Ended
<1>3. requests' = requests \union {Credit(s)}
  <2>1. SagaEvent(s, m) = Credit(s)
    BY <1>2, SagaEventIs DEF Credit
  <2> QED
    BY <2>1, BeginResult DEF PlaceOrder, Fire
<1>4. /\ sagaState' = [sagaState EXCEPT ![s] = RowWith(0, "STARTED", NotRun, "STARTED")]
      /\ purchaseOrder' = [purchaseOrder EXCEPT ![s] = "CREATED"]
      /\ UNCHANGED <<responses, version, consumed, swallowed, attempt>>
  BY BeginResult DEF PlaceOrder
<1>5. TypeOK /\ OrderTypeOK /\ CustomerTypeOK /\ PaymentTypeOK
  BY DEF PlacementInv, TypeOK
<1>6. RowWith(0, "STARTED", NotRun, "STARTED") \in Row
  BY RowsAreTyped DEF StepStatus, SagaStatus
<1>7. TypeOK'
  <2>1. Credit(s) \in Request
    BY DEF Credit, Ask, Request, SagaStep
  <2>2. OrderTypeOK'
    BY <1>4, <1>5, <1>6 DEF OrderTypeOK, OrderStatus
  <2>3. CustomerTypeOK' /\ PaymentTypeOK'
    BY <1>3, <1>5 DEF CustomerTypeOK, PaymentTypeOK, customerVars, paymentVars
  <2> QED
    BY <1>3, <1>4, <1>5, <2>1, <2>2, <2>3 DEF TypeOK
<1>8. ASSUME NEW o \in Sagas PROVE AtAPoint(o, Part(o))'
  <2>1. Credit(s).saga = s
    BY DEF Credit, Ask
  <2>2. CASE o = s
    <3>1. /\ Part(s)'.row = RowWith(0, "STARTED", NotRun, "STARTED")
          /\ Part(s)'.status = "CREATED"
      BY <1>4, <1>5 DEF Part, OrderTypeOK
    <3>2. Part(s)'.asked = Part(s).asked \union {Credit(s)}
      BY <1>3, <2>1 DEF Part
    <3>3. /\ Part(s)'.logged = Part(s).logged
          /\ Part(s)'.answered = Part(s).answered /\ Part(s)'.handled = Part(s).handled
      BY <1>4 DEF Part, customerVars, paymentVars
    <3>4. AwaitsCredit(s, Part(s)')
      BY <1>2, <3>1, <3>2, <3>3 DEF AwaitsCredit, Waiting
    <3> QED
      BY <2>2, <3>4 DEF AtAPoint
  <2>3. CASE o # s
    <3>1. Part(o)' = Part(o)
      BY <1>3, <1>4, <1>5, <2>1, <2>3 DEF Part, OrderTypeOK, customerVars, paymentVars
    <3> QED
      BY <3>1, PartStays DEF PlacementInv
  <2> QED
    BY <2>2, <2>3
<1>9. ReadsAreCurrent'
  <2> SUFFICES ASSUME NEW t \in Threads, attempt'[t].phase = "read"
               PROVE  \/ attempt'[t].event \in consumed'
                      \/ /\ attempt'[t].version = version'[attempt'[t].event.saga]
                         /\ attempt'[t].row = sagaState'[attempt'[t].event.saga]
    BY DEF ReadsAreCurrent
  <2>1. attempt'[t] = attempt[t] /\ attempt[t].event \in responses
    BY <1>4 DEF PlacementInv, HeldAreDelivered
  <2>2. attempt[t].event.saga \in Sagas /\ attempt[t].event.saga # s
    BY <1>2, <1>5, <2>1, PartFields DEF TypeOK, Response
  <2> QED
    BY <1>4, <1>5, <2>1, <2>2 DEF PlacementInv, ReadsAreCurrent, OrderTypeOK
<1>10. LogsApart' /\ HeldAreDelivered'
  BY <1>4 DEF PlacementInv, LogsApart, HeldAreDelivered, customerVars, paymentVars
<1> QED
  BY <1>7, <1>8, <1>9, <1>10 DEF PlacementInv

\* What a thread does besides committing leaves the tables and the topics alone.
TablesStay ==
  UNCHANGED <<requests, responses, sagaState, version, purchaseOrder, consumed,
              customerVars, paymentVars>>

LEMMA ThreadStepInv ==
  ASSUME PlacementInv, NEW t \in Threads, TablesStay, NEW a,
         attempt' = [attempt EXCEPT ![t] = a], swallowed' \subseteq responses,
         a \in {Idle, Failed} \union Retrying \union Reading,
         a.phase \in {"retry", "read"} => a.event \in responses,
         a.phase = "read" => /\ a.version = version[a.event.saga]
                             /\ a.row = sagaState[a.event.saga]
  PROVE  PlacementInv'
<1> USE DEF TablesStay, customerVars, paymentVars
<1>1. TypeOK /\ OrderTypeOK /\ CustomerTypeOK /\ PaymentTypeOK
  BY DEF PlacementInv, TypeOK
<1>2. attempt'[t] = a /\ \A u \in Threads : u # t => attempt'[u] = attempt[u]
  BY <1>1 DEF OrderTypeOK
<1>3. TypeOK'
  <2>1. OrderTypeOK'
    BY <1>1 DEF OrderTypeOK
  <2>2. CustomerTypeOK' /\ PaymentTypeOK'
    BY <1>1 DEF CustomerTypeOK, PaymentTypeOK
  <2> QED
    BY <1>1, <2>1, <2>2 DEF TypeOK
<1>4. LogsApart'
  BY DEF PlacementInv, LogsApart
<1>5. HeldAreDelivered'
  BY <1>2 DEF PlacementInv, HeldAreDelivered
<1>6. ReadsAreCurrent'
  BY <1>2 DEF PlacementInv, ReadsAreCurrent
<1>7. \A s \in Sagas : AtAPoint(s, Part(s))'
  <2>1. \A s \in Sagas : Part(s)' = Part(s)
    BY DEF Part
  <2> QED
    BY <2>1, PartStays DEF PlacementInv
<1> QED
  BY <1>3, <1>4, <1>5, <1>6, <1>7 DEF PlacementInv

LEMMA PollInv ==
  ASSUME PlacementInv, NEW t \in Threads, NEW e \in responses, Poll(t, e),
         UNCHANGED <<customerVars, paymentVars>>
  PROVE  PlacementInv'
<1> DEFINE a == [phase |-> "retry", event |-> e, tries |-> 0]
<1>1. TypeOK /\ e \in Response /\ swallowed \subseteq responses
  BY DEF PlacementInv, TypeOK, OrderTypeOK
<1>2. a \in Retrying
  BY <1>1, RetriesAssumption DEF Retrying, RetriesAssumption
<1>3. TablesStay /\ attempt' = [attempt EXCEPT ![t] = a] /\ swallowed' \subseteq responses
  BY <1>1 DEF Poll, TablesStay
<1>4. a.phase = "retry" /\ a.event \in responses
  OBVIOUS
<1> HIDE DEF a
<1> QED
  BY <1>2, <1>3, <1>4, ThreadStepInv

LEMMA ReadInv ==
  ASSUME PlacementInv, NEW t \in Threads, Read(t), UNCHANGED <<customerVars, paymentVars>>
  PROVE  PlacementInv'
<1> DEFINE e    == attempt[t].event
           read == [phase |-> "read", event |-> e, tries |-> attempt[t].tries + 1,
                    row |-> sagaState[e.saga], version |-> version[e.saga]]
<1>1. TypeOK /\ OrderTypeOK /\ swallowed \subseteq responses
  BY DEF PlacementInv, TypeOK, OrderTypeOK
<1>2. TablesStay /\ swallowed' \subseteq responses
  BY <1>1 DEF Read, TablesStay
<1>3. attempt[t] \in Retrying /\ e \in responses
  BY <1>1 DEF Read, OrderTypeOK, Idle, Failed, Reading, PlacementInv, HeldAreDelivered
<1>4. CASE sagaState[e.saga] = NoRow \/ e \in consumed
  <2>1. attempt' = [attempt EXCEPT ![t] = Idle] /\ Idle.phase = "idle"
    BY <1>4 DEF Read, Idle
  <2> QED
    BY <1>2, <2>1, ThreadStepInv
<1>5. CASE ~ (sagaState[e.saga] = NoRow \/ e \in consumed)
  <2>1. attempt' = [attempt EXCEPT ![t] = read]
    BY <1>5 DEF Read
  <2>2. e.saga \in Sagas /\ e \in Response
    BY <1>1, <1>3 DEF TypeOK, Response
  <2>3. sagaState[e.saga] \in Row /\ version[e.saga] \in Nat
    BY <1>1, <1>5, <2>2 DEF OrderTypeOK
  <2>4. attempt[t].tries + 1 \in 1 .. RETRIES
    BY <1>3, RetriesAssumption DEF Retrying, RetriesAssumption
  <2>5. read \in Reading
    BY <2>2, <2>3, <2>4 DEF Reading
  <2>6. /\ read.phase = "read" /\ read.event \in responses
        /\ read.version = version[read.event.saga] /\ read.row = sagaState[read.event.saga]
    BY <1>3
  <2> HIDE DEF read
  <2> QED
    BY <1>2, <2>1, <2>5, <2>6, ThreadStepInv
<1> QED
  BY <1>4, <1>5

LEMMA RollBackInv ==
  ASSUME PlacementInv, NEW t \in Threads, attempt[t].phase = "read",
         NEW exhausted \in {Idle, Failed}, RollBack(t, exhausted),
         UNCHANGED <<customerVars, paymentVars>>
  PROVE  PlacementInv'
<1> DEFINE retry == [phase |-> "retry", event |-> attempt[t].event, tries |-> attempt[t].tries]
<1>1. TypeOK /\ OrderTypeOK /\ swallowed \subseteq responses
  BY DEF PlacementInv, TypeOK, OrderTypeOK
<1>2. attempt[t] \in Reading /\ attempt[t].event \in responses
  BY <1>1 DEF OrderTypeOK, Idle, Failed, Retrying, PlacementInv, HeldAreDelivered
<1>3. TablesStay /\ swallowed' \subseteq responses
  BY <1>1, <1>2 DEF RollBack, TablesStay
<1>4. CASE attempt[t].tries < RETRIES
  <2>1. attempt' = [attempt EXCEPT ![t] = retry]
    BY <1>4 DEF RollBack
  <2>2. retry \in Retrying
    BY <1>2, <1>4, RetriesAssumption DEF Retrying, Reading, RetriesAssumption
  <2>3. retry.phase = "retry" /\ retry.event \in responses
    BY <1>2
  <2> HIDE DEF retry
  <2> QED
    BY <1>3, <2>1, <2>2, <2>3, ThreadStepInv
<1>5. CASE ~ (attempt[t].tries < RETRIES)
  <2>1. attempt' = [attempt EXCEPT ![t] = exhausted]
    BY <1>5 DEF RollBack
  <2>2. exhausted.phase \notin {"retry", "read"}
    BY DEF Idle, Failed
  <2> QED
    BY <1>3, <2>1, <2>2, ThreadStepInv
<1> QED
  BY <1>4, <1>5

LEMMA PointsAreTyped ==
  ASSUME NEW s \in Sagas, NEW p, AtAPoint(s, p)
  PROVE  /\ p.row \in Row \union {NoRow} /\ p.status \in OrderStatus \union {NoOrder}
         /\ p.asked \subseteq Request
<1>1. {Credit(s), Pay(s), Release(s)} \subseteq Request
  BY DEF Credit, Pay, Release, Ask, Request, SagaStep
<1>2. /\ RowWith(0, "STARTED", NotRun, "STARTED") \in Row
      /\ RowWith(1, "SUCCEEDED", "STARTED", "STARTED") \in Row
      /\ RowWith(0, "COMPENSATING", "FAILED", "ABORTING") \in Row
      /\ RowWith(NoStep, "SUCCEEDED", "SUCCEEDED", "COMPLETED") \in Row
      /\ RowWith(NoStep, "FAILED", NotRun, "ABORTED") \in Row
      /\ RowWith(NoStep, "COMPENSATED", "FAILED", "ABORTED") \in Row
  BY RowsAreTyped DEF StepStatus, SagaStatus
<1>3. p.asked \subseteq {Credit(s), Pay(s), Release(s)}
  BY DEF AtAPoint, NotPlaced, AwaitsCredit, AwaitsPayment, AwaitsRelease, Accepted,
         RefusedCredit, RefusedPayment, Waiting, Ended
<1>4. p.status \in OrderStatus \union {NoOrder}
  BY DEF AtAPoint, NotPlaced, AwaitsCredit, AwaitsPayment, AwaitsRelease, Accepted,
         RefusedCredit, RefusedPayment, Waiting, Ended, OrderStatus
<1>5. p.row \in Row \union {NoRow}
  BY <1>2 DEF AtAPoint, NotPlaced, AwaitsCredit, AwaitsPayment, AwaitsRelease, Accepted,
              RefusedCredit, RefusedPayment, Waiting, Ended
<1> QED
  BY <1>1, <1>3, <1>4, <1>5

\* What is fired for an answer was not fired before.
LEMMA FiredAreNew ==
  ASSUME NEW s \in Sagas, AtAPoint(s, Part(s)),
         NEW e, e \in Part(s).answered, e \notin Part(s).handled,
         NEW m \in OnStepEvent(Part(s).row, e.step, ToStepStatus(e.status)).fired
  PROVE  SagaEvent(s, m) = Ask(s, m.step, m.type)
<1> DEFINE next == OnStepEvent(Part(s).row, e.step, ToStepStatus(e.status))
<1>1. \/ AwaitsCredit(s, Part(s)) /\ e \in {Granted(s), Rejected(s)}
      \/ AwaitsPayment(s, Part(s)) /\ e \in {Taken(s), Declined(s)}
      \/ AwaitsRelease(s, Part(s)) /\ e = Returned(s)
  BY OpenAnswer
<1>2. CASE AwaitsCredit(s, Part(s)) /\ e = Granted(s)
  <2>1. e.step = 0 /\ ToStepStatus(e.status) = "SUCCEEDED"
    BY <1>2 DEF Granted, Reply, ToStepStatus, CREDIT_APPROVAL
  <2>2. /\ Part(s).row = RowWith(0, "STARTED", NotRun, "STARTED")
        /\ Part(s).asked = {Credit(s)}
    BY <1>2 DEF AwaitsCredit, Waiting
  <2>3. m = [step |-> PAYMENT, type |-> "REQUEST"]
    BY <2>1, <2>2, GrantedResult
  <2> QED
    BY <2>2, <2>3, SagaEventIs DEF Credit, Ask, CREDIT_APPROVAL, PAYMENT
<1>3. CASE AwaitsCredit(s, Part(s)) /\ e = Rejected(s)
  <2>1. e.step = 0 /\ ToStepStatus(e.status) = "FAILED"
    BY <1>3 DEF Rejected, Reply, ToStepStatus, CREDIT_APPROVAL
  <2>2. Part(s).row = RowWith(0, "STARTED", NotRun, "STARTED")
    BY <1>3 DEF AwaitsCredit, Waiting
  <2> QED
    BY <2>1, <2>2, RejectedResult
<1>4. CASE AwaitsPayment(s, Part(s)) /\ e = Taken(s)
  <2>1. e.step = 1 /\ ToStepStatus(e.status) = "SUCCEEDED"
    BY <1>4 DEF Taken, Reply, ToStepStatus, PAYMENT
  <2>2. Part(s).row = RowWith(1, "SUCCEEDED", "STARTED", "STARTED")
    BY <1>4 DEF AwaitsPayment, Waiting
  <2> QED
    BY <2>1, <2>2, TakenResult
<1>5. CASE AwaitsPayment(s, Part(s)) /\ e = Declined(s)
  <2>1. e.step = 1 /\ ToStepStatus(e.status) = "FAILED"
    BY <1>5 DEF Declined, Reply, ToStepStatus, PAYMENT
  <2>2. /\ Part(s).row = RowWith(1, "SUCCEEDED", "STARTED", "STARTED")
        /\ Part(s).asked = {Credit(s), Pay(s)}
    BY <1>5 DEF AwaitsPayment, Waiting
  <2>3. m = [step |-> CREDIT_APPROVAL, type |-> "CANCEL"]
    BY <2>1, <2>2, DeclinedResult
  <2> QED
    BY <2>2, <2>3, SagaEventIs DEF Credit, Pay, Ask, CREDIT_APPROVAL, PAYMENT
<1>6. CASE AwaitsRelease(s, Part(s)) /\ e = Returned(s)
  <2>1. e.step = 0 /\ ToStepStatus(e.status) = "COMPENSATED"
    BY <1>6 DEF Returned, Reply, ToStepStatus, CREDIT_APPROVAL
  <2>2. Part(s).row = RowWith(0, "COMPENSATING", "FAILED", "ABORTING")
    BY <1>6 DEF AwaitsRelease, Waiting
  <2> QED
    BY <2>1, <2>2, ReturnedResult
<1> QED
  BY <1>1, <1>2, <1>3, <1>4, <1>5, <1>6

\* A commit handles an open answer, on the row as it is.
LEMMA CommitHandles ==
  ASSUME PlacementInv, NEW t \in Threads, Commit(t)
  PROVE  LET e == attempt[t].event
         IN  /\ e \in responses /\ e \notin consumed /\ e.saga \in Sagas
             /\ attempt[t].row = sagaState[e.saga]
             /\ e \in Part(e.saga).answered /\ e \notin Part(e.saga).handled
<1>1. attempt[t].phase = "read" /\ attempt[t].event \notin consumed
  BY DEF Commit, Unchallenged
<1>2. attempt[t].event \in responses /\ attempt[t].row = sagaState[attempt[t].event.saga]
  BY <1>1 DEF PlacementInv, HeldAreDelivered, ReadsAreCurrent
<1>3. attempt[t].event.saga \in Sagas
  BY <1>2 DEF PlacementInv, TypeOK, Response
<1> QED
  BY <1>1, <1>2, <1>3, PartFields

\* A commit moves the saga of its answer on, and no other.
LEMMA CommitMoves ==
  ASSUME PlacementInv, NEW t \in Threads, Commit(t), UNCHANGED <<customerVars, paymentVars>>,
         NEW e, e = attempt[t].event, NEW s, s = e.saga
  PROVE  /\ s \in Sagas /\ MovesOn(s, Part(s), Part(s)')
         /\ \A o \in Sagas : AtAPoint(o, Part(o)')
         /\ \A o \in Sagas : o # s => Part(o)' = Part(o)
<1> DEFINE next == OnStepEvent(sagaState[s], e.step, ToStepStatus(e.status))
<1>1. TypeOK /\ OrderTypeOK /\ CustomerTypeOK /\ PaymentTypeOK
  BY DEF PlacementInv, TypeOK
<1>2. /\ e \in responses /\ e \notin consumed /\ s \in Sagas
      /\ e \in Part(s).answered /\ e \notin Part(s).handled
      /\ AtAPoint(s, Part(s)) /\ Part(s).row = sagaState[s]
  BY CommitHandles, PartFields DEF PlacementInv
<1>3. /\ sagaState' = [sagaState EXCEPT ![s] = next.row]
      /\ version' = [version EXCEPT ![s] = @ + 1]
      /\ requests' = requests \union {SagaEvent(s, m) : m \in next.fired}
      /\ purchaseOrder' = [purchaseOrder EXCEPT ![s] = OrderStatusOf(next.row.sagaStatus, @)]
      /\ consumed' = consumed \union {e}
      /\ UNCHANGED <<responses, swallowed>>
      /\ attempt' = [attempt EXCEPT ![t] = Idle]
  BY CommitHandles DEF Commit, OnAnswer, Fire
<1>4. requests' = requests \union {Ask(s, m.step, m.type) : m \in next.fired}
  BY SMTT(30), <1>2, <1>3, FiredAreNew
<1> HIDE DEF next
<1>5. AtAPoint(s, Part(s)') /\ MovesOn(s, Part(s), Part(s)')
  <2>1. /\ Part(s)'.row = next.row
        /\ Part(s)'.status = OrderStatusOf(next.row.sagaStatus, Part(s).status)
    BY <1>1, <1>2, <1>3 DEF Part, OrderTypeOK
  <2>2. Part(s)'.asked = Part(s).asked \union {Ask(s, m.step, m.type) : m \in next.fired}
    BY <1>4 DEF Part, Ask
  <2>3. /\ Part(s)'.logged = Part(s).logged /\ Part(s)'.answered = Part(s).answered
        /\ Part(s)'.handled = Part(s).handled \union {e}
    BY <1>3 DEF Part, customerVars, paymentVars
  <2>4. next = OnStepEvent(Part(s).row, e.step, ToStepStatus(e.status))
    BY <1>2 DEF next
  <2>5. ASSUME NEW p, p = Part(s), NEW q, q = Part(s)', NEW n, n = next
        PROVE  AtAPoint(s, q) /\ MovesOn(s, p, q)
    <3>1. AtAPoint(s, p) /\ e \in p.answered /\ e \notin p.handled
      BY <1>2, <2>5
    <3>2. AfterAnswer(s, p, e, n, q)
      BY <2>1, <2>2, <2>3, <2>4, <2>5 DEF AfterAnswer
    <3> QED
      BY <1>2, <3>1, <3>2, HandledAnswer
  <2> QED
    BY <2>5
<1>6. ASSUME NEW o \in Sagas, o # s PROVE Part(o)' = Part(o)
  <2>1. sagaState'[o] = sagaState[o] /\ purchaseOrder'[o] = purchaseOrder[o]
    BY <1>1, <1>3, <1>6 DEF OrderTypeOK
  <2>2. \A m \in next.fired : Ask(s, m.step, m.type).saga # o
    BY <1>6 DEF Ask
  <2>3. {r \in requests' : r.saga = o} = {r \in requests : r.saga = o}
    BY <1>4, <2>2
  <2>4. {r \in consumed' : r.saga = o} = {r \in consumed : r.saga = o}
    BY <1>3, <1>6
  <2> QED
    BY <1>3, <2>1, <2>3, <2>4 DEF Part, customerVars, paymentVars
<1>7. ASSUME NEW o \in Sagas PROVE AtAPoint(o, Part(o)')
  <2>1. CASE o = s
    BY <1>5, <2>1
  <2>2. CASE o # s
    <3>1. AtAPoint(o, Part(o))'
      BY <1>6, <2>2, PartStays DEF PlacementInv
    <3> QED
      BY <3>1
  <2> QED
    BY <2>1, <2>2
<1> QED
  BY <1>2, <1>5, <1>6, <1>7

LEMMA CommitKeeps ==
  ASSUME PlacementInv, NEW t \in Threads, Commit(t), UNCHANGED <<customerVars, paymentVars>>,
         NEW e, e = attempt[t].event, NEW s, s = e.saga
  PROVE  PlacementInv'
<1> DEFINE next == OnStepEvent(sagaState[s], e.step, ToStepStatus(e.status))
<1>1. TypeOK /\ OrderTypeOK /\ CustomerTypeOK /\ PaymentTypeOK
  BY DEF PlacementInv, TypeOK
<1>2. /\ e \in responses /\ e \notin consumed /\ s \in Sagas
      /\ e \in Part(s).answered /\ e \notin Part(s).handled
      /\ AtAPoint(s, Part(s)) /\ Part(s).row = sagaState[s]
  BY CommitHandles, PartFields DEF PlacementInv
<1>3. /\ sagaState' = [sagaState EXCEPT ![s] = next.row]
      /\ version' = [version EXCEPT ![s] = @ + 1]
      /\ requests' = requests \union {SagaEvent(s, m) : m \in next.fired}
      /\ purchaseOrder' = [purchaseOrder EXCEPT ![s] = OrderStatusOf(next.row.sagaStatus, @)]
      /\ consumed' = consumed \union {e}
      /\ UNCHANGED <<responses, swallowed>>
      /\ attempt' = [attempt EXCEPT ![t] = Idle]
  BY CommitHandles DEF Commit, OnAnswer, Fire
<1>4. requests' = requests \union {Ask(s, m.step, m.type) : m \in next.fired}
  BY SMTT(30), <1>2, <1>3, FiredAreNew
<1> HIDE DEF next
<1>5. \A o \in Sagas : AtAPoint(o, Part(o)')
  BY CommitMoves
<1>6. AtAPoint(s, Part(s)')
  BY <1>2, <1>5
<1>7. TypeOK'
  <2>1. /\ Part(s)'.row \in Row \union {NoRow} /\ Part(s)'.status \in OrderStatus \union {NoOrder}
        /\ Part(s)'.asked \subseteq Request
    BY <1>2, <1>6, PointsAreTyped
  <2>2. /\ sagaState'[s] = Part(s)'.row /\ purchaseOrder'[s] = Part(s)'.status
        /\ {Ask(s, m.step, m.type) : m \in next.fired} \subseteq Part(s)'.asked
    BY <1>4 DEF Part, Ask
  <2>3. OrderTypeOK'
    BY <1>1, <1>2, <1>3, <2>1, <2>2 DEF OrderTypeOK
  <2>4. CustomerTypeOK' /\ PaymentTypeOK'
    BY <1>1, <1>3 DEF CustomerTypeOK, PaymentTypeOK, customerVars, paymentVars
  <2> QED
    BY <1>1, <1>3, <1>4, <2>1, <2>2, <2>3, <2>4 DEF TypeOK
<1>8. LogsApart'
  BY DEF PlacementInv, LogsApart, customerVars, paymentVars
<1>9. HeldAreDelivered'
  BY <1>1, <1>3 DEF PlacementInv, HeldAreDelivered, OrderTypeOK, Idle
<1>10. ReadsAreCurrent'
  <2> SUFFICES ASSUME NEW u \in Threads, attempt'[u].phase = "read"
               PROVE  \/ attempt'[u].event \in consumed'
                      \/ /\ attempt'[u].version = version'[attempt'[u].event.saga]
                         /\ attempt'[u].row = sagaState'[attempt'[u].event.saga]
    BY DEF ReadsAreCurrent
  <2> DEFINE f == attempt[u].event
  <2>1. attempt'[u] = attempt[u] /\ f \in responses /\ f.saga \in Sagas
    <3>1. attempt'[u] = attempt[u]
      BY <1>1, <1>3 DEF OrderTypeOK, Idle
    <3> QED
      BY <1>1, <3>1 DEF PlacementInv, HeldAreDelivered, TypeOK, Response
  <2>2. CASE f.saga = s
    <3>1. f \in Part(s).answered
      BY <2>1, <2>2, PartFields
    <3>2. f \in Part(s).handled \/ f = e
      BY <1>2, <3>1, OpenAnswer
    <3> QED
      BY <1>3, <2>1, <3>2, PartFields
  <2>3. CASE f.saga # s
    BY <1>1, <1>3, <2>1, <2>3 DEF PlacementInv, ReadsAreCurrent, OrderTypeOK
  <2> QED
    BY <2>2, <2>3
<1> QED
  BY <1>5, <1>7, <1>8, <1>9, <1>10 DEF PlacementInv

LEMMA CommitInv ==
  ASSUME PlacementInv, NEW t \in Threads, Commit(t), UNCHANGED <<customerVars, paymentVars>>
  PROVE  PlacementInv'
BY CommitKeeps

LEMMA OrderNextInv ==
  ASSUME PlacementInv, OrderNext, UNCHANGED <<customerVars, paymentVars>>
  PROVE  PlacementInv'
<1>1. ASSUME NEW s \in Sagas, PlaceOrder(s) PROVE PlacementInv'
  BY <1>1, PlaceOrderInv
<1>2. ASSUME NEW t \in Threads, NEW e \in responses, Poll(t, e) PROVE PlacementInv'
  BY <1>2, PollInv
<1>3. ASSUME NEW t \in Threads, Read(t) PROVE PlacementInv'
  BY <1>3, ReadInv
<1>4. ASSUME NEW t \in Threads, Commit(t) PROVE PlacementInv'
  BY <1>4, CommitInv
<1>5. ASSUME NEW t \in Threads, Conflict(t) PROVE PlacementInv'
  BY <1>5, RollBackInv DEF Conflict
<1>6. ASSUME NEW t \in Threads, Throw(t) PROVE PlacementInv'
  BY <1>6, RollBackInv DEF Throw
<1>7. ASSUME NEW t \in Threads, DatabaseError(t) PROVE PlacementInv'
  BY <1>7, RollBackInv DEF DatabaseError
<1> QED
  BY <1>1, <1>2, <1>3, <1>4, <1>5, <1>6, <1>7 DEF OrderNext

LEMMA NextInv ==
  ASSUME PlacementInv, [Next]_vars
  PROVE  PlacementInv'
<1>1. ASSUME OrderNext, UNCHANGED <<customerVars, paymentVars>> PROVE PlacementInv'
  BY <1>1, OrderNextInv
<1>2. ASSUME CustomerNext, UNCHANGED <<orderVars, paymentVars>> PROVE PlacementInv'
  BY <1>2, OnCreditEventInv DEF CustomerNext
<1>3. ASSUME PaymentNext, UNCHANGED <<orderVars, customerVars>> PROVE PlacementInv'
  BY <1>3, OnPaymentEventInv, FailPaymentInv DEF PaymentNext
<1>4. ASSUME UNCHANGED vars PROVE PlacementInv'
  <2>1. /\ UNCHANGED <<requests, responses, orderVars, customerVars, paymentVars>>
        /\ UNCHANGED <<sagaState, version, purchaseOrder, consumed, attempt, swallowed>>
        /\ UNCHANGED <<openLimit, creditLog, creditSkipped, creditFailed>>
        /\ UNCHANGED <<payments, paymentLog, paymentSkipped, paymentFailed>>
    BY <1>4 DEF vars, orderVars, customerVars, paymentVars
  <2>2. TypeOK' /\ LogsApart' /\ HeldAreDelivered' /\ ReadsAreCurrent'
    BY <2>1 DEF PlacementInv, TypeOK, OrderTypeOK, CustomerTypeOK, PaymentTypeOK,
                LogsApart, HeldAreDelivered, ReadsAreCurrent
  <2>3. \A s \in Sagas : AtAPoint(s, Part(s))'
    <3> SUFFICES ASSUME NEW s \in Sagas PROVE AtAPoint(s, Part(s))'
      OBVIOUS
    <3>1. Part(s)' = Part(s)
      BY <2>1 DEF Part
    <3> QED
      BY <3>1, PartStays DEF PlacementInv
  <2> QED
    BY <2>2, <2>3 DEF PlacementInv
<1> QED
  BY <1>1, <1>2, <1>3, <1>4 DEF Next

\* Every order is at one of the points of its saga, and every thread has read
\* its row as it is, or is late with an answer that is handled.
THEOREM PlacementInvariant == Safety => []PlacementInv
<1>1. Init => PlacementInv
  BY InitInv
<1>2. PlacementInv /\ [Next]_vars => PlacementInv'
  BY NextInv
<1> QED
  BY <1>1, <1>2, PTL DEF Safety

-------------------------------------------------------------------------------
(***************************************************************************)
(* What the points say of the orders and the participants.                 *)
(***************************************************************************)
LEMMA AnswersAt ==
  ASSUME NEW s \in Sagas, NEW p, AtAPoint(s, p)
  PROVE  p.answered \subseteq {Granted(s), Rejected(s), Taken(s), Declined(s), Returned(s)}
<1> USE DEF Waiting, Ended
<1>1. CASE NotPlaced(p)
  BY <1>1 DEF NotPlaced
<1>2. CASE AwaitsCredit(s, p)
  BY <1>2 DEF AwaitsCredit
<1>3. CASE AwaitsPayment(s, p)
  BY <1>3 DEF AwaitsPayment
<1>4. CASE AwaitsRelease(s, p)
  BY <1>4 DEF AwaitsRelease
<1>5. CASE Accepted(s, p)
  BY <1>5 DEF Accepted
<1>6. CASE RefusedCredit(s, p)
  BY <1>6 DEF RefusedCredit
<1>7. CASE RefusedPayment(s, p)
  BY <1>7 DEF RefusedPayment
<1> QED
  BY <1>1, <1>2, <1>3, <1>4, <1>5, <1>6, <1>7 DEF AtAPoint

LEMMA RequestsAt ==
  ASSUME NEW s \in Sagas, NEW p, AtAPoint(s, p)
  PROVE  p.asked \subseteq {Credit(s), Pay(s), Release(s)}
BY DEF AtAPoint, NotPlaced, AwaitsCredit, AwaitsPayment, AwaitsRelease, Accepted, RefusedCredit,
       RefusedPayment, Waiting, Ended

\* The outcome that the log of answers shows is the one at the order's point.
LEMMA OutcomesAt ==
  ASSUME NEW s \in Sagas, AtAPoint(s, Part(s))
  PROVE  /\ Approved(s) <=> Granted(s) \in Part(s).answered
         /\ Released(s) <=> Returned(s) \in Part(s).answered
         /\ Paid(s)     <=> Taken(s) \in Part(s).answered
<1> USE DEF Granted, Rejected, Taken, Declined, Returned, Reply, CREDIT_APPROVAL, PAYMENT
<1>1. Part(s).answered = {r \in responses : r.saga = s}
  BY PartFields
<1>2. Part(s).answered \subseteq {Granted(s), Rejected(s), Taken(s), Declined(s), Returned(s)}
  BY AnswersAt
<1>3. Approved(s) <=> Granted(s) \in Part(s).answered
  BY <1>1, <1>2 DEF Approved, ResponsesOf
<1>4. Released(s) <=> Returned(s) \in Part(s).answered
  BY <1>1, <1>2 DEF Released, ResponsesOf
<1>5. Paid(s) <=> Taken(s) \in Part(s).answered
  BY <1>1, <1>2 DEF Paid, ResponsesOf
<1> QED
  BY <1>3, <1>4, <1>5

\* Only an order at one of the three ends is decided.
LEMMA DecidedAt ==
  ASSUME NEW s \in Sagas, NEW p, AtAPoint(s, p)
  PROVE  /\ p.status = "PROCESSING" <=> Accepted(s, p)
         /\ p.status = "CANCELLED" <=> RefusedCredit(s, p) \/ RefusedPayment(s, p)
         /\ p.status = "CREATED" <=> \/ AwaitsCredit(s, p) \/ AwaitsPayment(s, p)
                                     \/ AwaitsRelease(s, p)
         /\ p.status = NoOrder <=> NotPlaced(p)
BY DEF AtAPoint, NotPlaced, AwaitsCredit, AwaitsPayment, AwaitsRelease, Accepted, RefusedCredit,
       RefusedPayment, Waiting, Ended, NoOrder

LEMMA PlacedOnce == PlacementInv => NothingFiredTwice
<1> SUFFICES ASSUME PlacementInv PROVE NothingFiredTwice
  OBVIOUS
<1>1. ASSUME NEW r \in requests PROVE r.nth = 1
  <2>1. r.saga \in Sagas /\ AtAPoint(r.saga, Part(r.saga))
    BY DEF PlacementInv, TypeOK, Request
  <2>2. r \in Part(r.saga).asked
    BY PartFields
  <2>3. r \in {Credit(r.saga), Pay(r.saga), Release(r.saga)}
    BY <2>1, <2>2, RequestsAt
  <2> QED
    BY <2>3 DEF Credit, Pay, Release, Ask
<1>2. ASSUME NEW r \in responses PROVE r.nth = 1
  <2>1. r.saga \in Sagas /\ AtAPoint(r.saga, Part(r.saga))
    BY DEF PlacementInv, TypeOK, Response
  <2>2. r \in Part(r.saga).answered
    BY PartFields
  <2>3. r \in {Granted(r.saga), Rejected(r.saga), Taken(r.saga), Declined(r.saga),
               Returned(r.saga)}
    BY <2>1, <2>2, AnswersAt
  <2> QED
    BY <2>3 DEF Granted, Rejected, Taken, Declined, Returned, Reply
<1> QED
  BY <1>1, <1>2 DEF NothingFiredTwice

LEMMA DecisionsMatch == PlacementInv => DecisionMatchesParticipants
<1> SUFFICES ASSUME PlacementInv, NEW s \in Sagas
             PROVE  /\ purchaseOrder[s] = "PROCESSING" => s \in Holding /\ Paid(s) /\ payments[s] = 1
                    /\ purchaseOrder[s] = "CANCELLED"  => s \notin Holding /\ ~ Paid(s)
  BY DEF DecisionMatchesParticipants
<1>1. AtAPoint(s, Part(s)) /\ Part(s).status = purchaseOrder[s]
  BY PartFields DEF PlacementInv
<1>2. s \in Holding <=> /\ Granted(s) \in Part(s).answered
                        /\ Returned(s) \notin Part(s).answered
  BY <1>1, OutcomesAt DEF Holding
<1>3. Paid(s) <=> Taken(s) \in Part(s).answered
  BY <1>1, OutcomesAt
<1>4. Taken(s) # Rejected(s) /\ Taken(s) # Returned(s)
  BY DEF Taken, Rejected, Returned, Reply
<1>5. CASE Accepted(s, Part(s))
  <2>1. Part(s).answered = {Granted(s), Taken(s)} /\ Pay(s) \in Part(s).logged
    BY <1>5 DEF Accepted, Ended
  <2>2. Pay(s) \in paymentLog
    <3>1. Pay(s) \in creditLog \union paymentLog /\ Pay(s).step # CREDIT_APPROVAL
      BY <2>1, PartFields DEF Pay, Ask, CREDIT_APPROVAL, PAYMENT
    <3> QED
      BY <3>1 DEF PlacementInv, LogsApart
  <2>3. payments[s] = 1
    BY <2>2 DEF PlacementInv, LogsApart
  <2>4. purchaseOrder[s] = "PROCESSING"
    BY <1>1, <1>5 DEF Accepted, Ended
  <2> QED
    BY <1>2, <1>3, <1>4, <2>1, <2>3, <2>4, EventsDiffer
<1>6. CASE RefusedCredit(s, Part(s)) \/ RefusedPayment(s, Part(s))
  <2>1. purchaseOrder[s] = "CANCELLED"
    BY <1>1, <1>6 DEF RefusedCredit, RefusedPayment, Ended
  <2>2. CASE RefusedCredit(s, Part(s))
    BY <1>2, <1>3, <1>4, <2>1, <2>2, EventsDiffer DEF RefusedCredit, Ended
  <2>3. CASE RefusedPayment(s, Part(s))
    BY <1>2, <1>3, <1>4, <2>1, <2>3, EventsDiffer DEF RefusedPayment, Ended
  <2> QED
    BY <1>6, <2>2, <2>3
<1> QED
  BY <1>1, <1>5, <1>6, DecidedAt

LEMMA LateOnlyOnRedelivery == PlacementInv => OnlyRedeliveriesConflict
BY DEF PlacementInv, ReadsAreCurrent, OnlyRedeliveriesConflict, Unchallenged

\* An order is placed once: its saga has a fresh id.
LEMMA PlacesNew ==
  ASSUME PlacementInv, NEW s \in Sagas, PlaceOrder(s)
  PROVE  purchaseOrder[s] = NoOrder
<1>1. Part(s).asked = {} /\ AtAPoint(s, Part(s)) /\ Part(s).status = purchaseOrder[s]
  BY PartFields DEF PlaceOrder, PlacementInv
<1>2. NotPlaced(Part(s))
  BY <1>1 DEF AtAPoint, AwaitsCredit, AwaitsPayment, AwaitsRelease, Accepted, RefusedCredit,
              RefusedPayment, Waiting, Ended
<1> QED
  BY <1>1, <1>2 DEF NotPlaced, Ended

\* What a step does to the tables of the order service.
LEMMA TableSteps ==
  ASSUME PlacementInv, [Next]_vars
  PROVE  \/ \E s \in Sagas : PlaceOrder(s) /\ UNCHANGED <<customerVars, paymentVars>>
         \/ \E t \in Threads : Commit(t) /\ UNCHANGED <<customerVars, paymentVars>>
         \/ UNCHANGED <<sagaState, purchaseOrder, consumed, requests, responses, openLimit>>
         \/ \E e \in requests : OnCreditEvent(e) /\ UNCHANGED <<orderVars, paymentVars>>
         \/ \E e \in requests : OnPaymentEvent(e) /\ UNCHANGED <<orderVars, customerVars>>
<1>1. CASE OrderNext /\ UNCHANGED <<customerVars, paymentVars>>
  <2>1. ASSUME NEW t \in Threads,
               \/ \E e \in responses : Poll(t, e)
               \/ Read(t) \/ Conflict(t) \/ Throw(t) \/ DatabaseError(t)
        PROVE  UNCHANGED <<sagaState, purchaseOrder, consumed, requests, responses, openLimit>>
    BY <1>1, <2>1 DEF Poll, Read, Conflict, Throw, DatabaseError, RollBack, customerVars
  <2> QED
    BY <1>1, <2>1 DEF OrderNext
<1>2. CASE CustomerNext /\ UNCHANGED <<orderVars, paymentVars>>
  BY <1>2 DEF CustomerNext
<1>3. CASE PaymentNext /\ UNCHANGED <<orderVars, customerVars>>
  BY <1>3 DEF PaymentNext, FailPayment, orderVars, customerVars
<1>4. CASE UNCHANGED vars
  BY <1>4 DEF vars, orderVars, customerVars
<1> QED
  BY <1>1, <1>2, <1>3, <1>4 DEF Next

LEMMA DecidedStays ==
  ASSUME PlacementInv, [Next]_vars, NEW s \in Sagas, Decided(s)
  PROVE  purchaseOrder'[s] = purchaseOrder[s]
<1> USE DEF Decided, orderVars
<1>1. OrderTypeOK /\ AtAPoint(s, Part(s)) /\ Part(s).status = purchaseOrder[s]
  BY PartFields DEF PlacementInv, TypeOK
<1>2. ASSUME NEW o \in Sagas, PlaceOrder(o) PROVE purchaseOrder'[s] = purchaseOrder[s]
  BY <1>1, <1>2, PlacesNew DEF PlaceOrder, OrderTypeOK, NoOrder
<1>3. ASSUME NEW t \in Threads, Commit(t), UNCHANGED <<customerVars, paymentVars>>
      PROVE  purchaseOrder'[s] = purchaseOrder[s]
  <2>1. SUFFICES ASSUME NEW e, e = attempt[t].event, NEW o, o = e.saga
                 PROVE  purchaseOrder'[s] = purchaseOrder[s]
    OBVIOUS
  <2>2. o \in Sagas /\ MovesOn(o, Part(o), Part(o)') /\ (s # o => Part(s)' = Part(s))
    BY <1>3, <2>1, CommitMoves
  <2>3. o # s
    BY <1>1, <2>2, DecidedAt DEF MovesOn, AwaitsCredit, AwaitsPayment, AwaitsRelease, Waiting
  <2> QED
    BY <2>2, <2>3 DEF Part
<1> QED
  BY <1>2, <1>3, TableSteps

LEMMA ChangesOneByOne ==
  ASSUME PlacementInv, [Next]_vars, NEW s \in Sagas,
         sagaState[s] # NoRow, sagaState'[s] # sagaState[s]
  PROVE  \E e \in consumed' \ consumed :
           /\ e.saga = s
           /\ sagaState'[s] = OnStepEvent(sagaState[s], e.step, ToStepStatus(e.status)).row
<1>1. OrderTypeOK
  BY DEF PlacementInv, TypeOK
<1>2. ~ \E o \in Sagas : PlaceOrder(o)
  BY <1>1 DEF PlaceOrder, OrderTypeOK
<1>3. PICK t \in Threads : Commit(t)
  BY <1>2, TableSteps DEF orderVars
<1>4. PICK e : e = attempt[t].event
  OBVIOUS
<1>5. e \notin consumed /\ e.saga \in Sagas /\ attempt[t].row = sagaState[e.saga]
  BY <1>3, <1>4, CommitHandles
<1>6. /\ consumed' = consumed \union {e}
      /\ sagaState' = [sagaState EXCEPT ![e.saga] =
           OnStepEvent(sagaState[e.saga], e.step, ToStepStatus(e.status)).row]
  BY <1>3, <1>4, <1>5 DEF Commit, OnAnswer
<1>7. e.saga = s
  BY <1>1, <1>6 DEF OrderTypeOK
<1> QED
  BY <1>1, <1>5, <1>6, <1>7 DEF OrderTypeOK

-------------------------------------------------------------------------------
(***************************************************************************)
(* The refinement of the atomic purchase.                                  *)
(***************************************************************************)
LEMMA DecisionsDiffer ==
  /\ DecisionOf(NoOrder) = "none" /\ DecisionOf("CREATED") = "open"
  /\ DecisionOf("PROCESSING") = "accepted" /\ DecisionOf("CANCELLED") = "refused"
BY DEF DecisionOf, NoOrder

LEMMA InitIsPurchase == Init => Purchase!PurchaseInit
<1> SUFFICES ASSUME Init PROVE Purchase!PurchaseInit
  OBVIOUS
<1>1. [s \in Sagas |-> DecisionOf(purchaseOrder[s])] = [s \in Sagas |-> "none"]
  BY DecisionsDiffer DEF Init, OrderInit
<1>2. Holding = {}
  BY DEF Holding, Approved, ResponsesOf, Init
<1>3. openLimit \in Nat
  BY LimitAssumption DEF LimitAssumption, Init, CustomerInit
<1> QED
  BY <1>1, <1>2, <1>3 DEF Purchase!PurchaseInit

\* Who holds credit is seen in the answers, which the order service leaves alone.
LEMMA HoldingStays == responses' = responses => Holding' = Holding
BY DEF Holding, Approved, Released, ResponsesOf

\* The decision on one order changes.
LEMMA DecisionChanges ==
  ASSUME NEW s \in Sagas, NEW status, OrderTypeOK,
         purchaseOrder' = [purchaseOrder EXCEPT ![s] = status]
  PROVE  [o \in Sagas |-> DecisionOf(purchaseOrder[o])]'
           = [[o \in Sagas |-> DecisionOf(purchaseOrder[o])] EXCEPT ![s] = DecisionOf(status)]
BY DEF OrderTypeOK

LEMMA PlacingIsPlace ==
  ASSUME PlacementInv, NEW s \in Sagas, PlaceOrder(s), UNCHANGED <<customerVars, paymentVars>>
  PROVE  Purchase!Place(s)
<1>1. OrderTypeOK /\ purchaseOrder[s] = NoOrder
  BY PlacesNew DEF PlacementInv, TypeOK
<1>2. purchaseOrder' = [purchaseOrder EXCEPT ![s] = "CREATED"]
  BY DEF PlaceOrder
<1>3. Holding' = Holding /\ openLimit' = openLimit
  BY HoldingStays DEF PlaceOrder, customerVars
<1> QED
  BY ZenonT(60), <1>1, <1>2, <1>3, DecisionChanges, DecisionsDiffer DEF Purchase!Place, Purchase!Decide

LEMMA CommitIsDecision ==
  ASSUME PlacementInv, NEW t \in Threads, Commit(t), UNCHANGED <<customerVars, paymentVars>>,
         NEW e, e = attempt[t].event, NEW s, s = e.saga
  PROVE  \/ Purchase!Accept(s) \/ Purchase!Refuse(s)
         \/ UNCHANGED Purchase!purchaseVars
<1>1. /\ s \in Sagas /\ MovesOn(s, Part(s), Part(s)')
      /\ AtAPoint(s, Part(s)) /\ AtAPoint(s, Part(s)')
  BY CommitMoves DEF PlacementInv
<1>2. /\ OrderTypeOK /\ responses' = responses /\ openLimit' = openLimit
      /\ Part(s).status = purchaseOrder[s] /\ Part(s)'.status = purchaseOrder'[s]
      /\ Part(s)'.answered = Part(s).answered
  BY DEF Commit, OnAnswer, PlacementInv, TypeOK, Part, customerVars
<1>3. purchaseOrder' = [purchaseOrder EXCEPT ![s] = purchaseOrder'[s]]
  BY <1>1, <1>2 DEF Commit, OnAnswer, OrderTypeOK
<1>4. Holding' = Holding
  BY <1>2, HoldingStays
<1>5. purchaseOrder[s] = "CREATED"
  BY <1>1, <1>2, DecidedAt DEF MovesOn
<1>6. s \in Holding <=> /\ Granted(s) \in Part(s).answered
                        /\ Returned(s) \notin Part(s).answered
  BY <1>1, OutcomesAt DEF Holding
<1>7. CASE Accepted(s, Part(s)')
  <2>1. purchaseOrder'[s] = "PROCESSING" /\ s \in Holding
    BY SMTT(30), <1>1, <1>2, <1>6, <1>7, EventsDiffer DEF Accepted, Ended, Granted, Taken, Returned, Reply
  <2> QED
    BY <1>1, <1>2, <1>3, <1>4, <1>5, <2>1, DecisionChanges, DecisionsDiffer
    DEF Purchase!Accept, Purchase!Decide
<1>8. CASE RefusedCredit(s, Part(s)') \/ RefusedPayment(s, Part(s)')
  <2>1. purchaseOrder'[s] = "CANCELLED" /\ s \notin Holding
    BY <1>1, <1>2, <1>6, <1>8, EventsDiffer DEF RefusedCredit, RefusedPayment, Ended
  <2> QED
    BY <1>1, <1>2, <1>3, <1>4, <1>5, <2>1, DecisionChanges, DecisionsDiffer
    DEF Purchase!Refuse, Purchase!Decide
<1>9. CASE AwaitsPayment(s, Part(s)') \/ AwaitsRelease(s, Part(s)')
  <2>1. purchaseOrder'[s] = "CREATED"
    BY <1>2, <1>9 DEF AwaitsPayment, AwaitsRelease, Waiting
  <2>2. purchaseOrder' = purchaseOrder
    BY <1>1, <1>2, <1>3, <1>5, <2>1 DEF OrderTypeOK
  <2> QED
    BY <1>2, <1>4, <2>2 DEF Purchase!purchaseVars
<1> QED
  BY <1>1, <1>7, <1>8, <1>9 DEF MovesOn

\* Who holds credit after a participant's answer.
LEMMA HoldingAfter ==
  ASSUME NEW s, NEW step, NEW status, responses' = responses \union {Reply(s, step, status)}
  PROVE  \A o \in Sagas :
           /\ Approved(o)' <=> \/ Approved(o)
                               \/ o = s /\ step = CREDIT_APPROVAL /\ status = "APPROVED"
           /\ Released(o)' <=> \/ Released(o)
                               \/ o = s /\ step = CREDIT_APPROVAL /\ status = "CANCELLED"
<1>1. ASSUME NEW o, NEW outcome
      PROVE  ResponsesOf(o, CREDIT_APPROVAL, outcome)' # {}
               <=> \/ ResponsesOf(o, CREDIT_APPROVAL, outcome) # {}
                   \/ o = s /\ step = CREDIT_APPROVAL /\ status = outcome
  <2>1. LET a == Reply(s, step, status)
        IN  a.saga = s /\ a.step = step /\ a.status = status
    BY DEF Reply
  <2> QED
    BY <2>1 DEF ResponsesOf
<1> QED
  BY <1>1 DEF Approved, Released

\* The customer service answers an open request.
LEMMA CreditReply ==
  ASSUME PlacementInv, NEW e \in requests, NEW status, TakesCredit(e), AnswerCredit(e, status),
         \/ e.type = "REQUEST" /\ status \in {"APPROVED", "REJECTED"}
         \/ e.type = "CANCEL" /\ status = "CANCELLED"
  PROVE  /\ e.saga \in Sagas /\ AtAPoint(e.saga, Part(e.saga))
         /\ responses' = responses \union {Reply(e.saga, CREDIT_APPROVAL, status)}
         /\ e.type = "REQUEST" => AwaitsCredit(e.saga, Part(e.saga))
         /\ e.type = "CANCEL" => AwaitsRelease(e.saga, Part(e.saga))
         /\ Part(e.saga).answered = Part(e.saga).handled
<1>1. e \notin creditLog \union paymentLog /\ e.step = CREDIT_APPROVAL
  BY DEF PlacementInv, LogsApart, TakesCredit, PollsCredit, CREDIT_APPROVAL, PAYMENT
<1>2. e.saga \in Sagas /\ AtAPoint(e.saga, Part(e.saga))
  BY DEF PlacementInv, TypeOK, Request
<1>3. e \in Part(e.saga).asked /\ e \notin Part(e.saga).logged
  BY <1>1, PartFields
<1>4. Reply(e.saga, e.step, status) \in RepliesTo(e.saga, e)
  BY <1>1, <1>2, OpenRequestOf, EventsDiffer DEF RepliesTo, Granted, Rejected, Returned
<1>5. responses' = responses \union {Reply(e.saga, CREDIT_APPROVAL, status)}
  BY <1>1, <1>2, <1>3, <1>4, NewReply DEF AnswerCredit
<1>6. /\ e.type = "REQUEST" => e = Credit(e.saga)
      /\ e.type = "CANCEL" => e = Release(e.saga)
  BY <1>1, OpenRequestOf
<1> QED
  BY <1>2, <1>3, <1>5, <1>6, OpenRequest, EventsDiffer

LEMMA CreditEventIsPurchase ==
  ASSUME PlacementInv, NEW e \in requests, OnCreditEvent(e), UNCHANGED <<orderVars, paymentVars>>
  PROVE  \/ \E s \in Sagas : Purchase!Reserve(s) \/ Purchase!GiveBack(s)
         \/ UNCHANGED Purchase!purchaseVars
<1> DEFINE decision == [s \in Sagas |-> DecisionOf(purchaseOrder[s])]
<1>1. decision' = decision
  BY DEF orderVars
<1>2. CASE ApproveCredit(e)
  <2> DEFINE s == e.saga
  <2>1. /\ s \in Sagas /\ AtAPoint(s, Part(s)) /\ AwaitsCredit(s, Part(s))
        /\ responses' = responses \union {Reply(s, CREDIT_APPROVAL, "APPROVED")}
        /\ Part(s).answered = Part(s).handled
    BY <1>2, CreditReply DEF ApproveCredit
  <2>2. Part(s).answered = {} /\ purchaseOrder[s] = "CREATED"
    BY <2>1, PartFields DEF AwaitsCredit, Waiting
  <2>3. ~ Approved(s) /\ ~ Released(s)
    BY <2>1, <2>2, OutcomesAt
  <2>4. s \notin Holding /\ Holding' = Holding \union {s}
    BY <2>1, <2>3, HoldingAfter DEF Holding
  <2>5. paymentDue[s] < openLimit /\ openLimit' = openLimit - paymentDue[s]
    <3>1. paymentDue[s] \in Nat /\ openLimit \in Int
      BY <2>1, SagasAssumption DEF SagasAssumption, PlacementInv, TypeOK, CustomerTypeOK
    <3> QED
      BY <1>2, <3>1 DEF ApproveCredit, FitsCreditLimit
  <2> QED
    BY <1>1, <2>1, <2>2, <2>4, <2>5, DecisionsDiffer DEF Purchase!Reserve
<1>3. CASE RejectCredit(e)
  <2>1. responses' = responses \union {Reply(e.saga, CREDIT_APPROVAL, "REJECTED")}
    BY <1>3, CreditReply DEF RejectCredit
  <2>2. Holding' = Holding
    BY <2>1, HoldingAfter DEF Holding
  <2> QED
    BY <1>1, <1>3, <2>2 DEF RejectCredit, Purchase!purchaseVars
<1>4. CASE CancelCredit(e)
  <2> DEFINE s == e.saga
  <2>1. /\ s \in Sagas /\ AtAPoint(s, Part(s)) /\ AwaitsRelease(s, Part(s))
        /\ responses' = responses \union {Reply(s, CREDIT_APPROVAL, "CANCELLED")}
        /\ Part(s).answered = Part(s).handled
    BY <1>4, CreditReply DEF CancelCredit
  <2>2. Part(s).answered = {Granted(s), Declined(s)} /\ purchaseOrder[s] = "CREATED"
    BY <2>1, PartFields DEF AwaitsRelease, Waiting
  <2>3. Approved(s) /\ ~ Released(s)
    BY <2>1, <2>2, OutcomesAt, EventsDiffer
  <2>4. s \in Holding /\ Holding' = Holding \ {s}
    BY <2>1, <2>3, HoldingAfter DEF Holding
  <2>5. openLimit' = openLimit + paymentDue[s]
    BY <1>4 DEF CancelCredit
  <2> QED
    BY <1>1, <2>1, <2>2, <2>4, <2>5, DecisionsDiffer DEF Purchase!GiveBack
<1>5. CASE FailCredit(e)
  BY <1>1, <1>5, HoldingStays DEF FailCredit, Purchase!purchaseVars
<1> QED
  BY <1>2, <1>3, <1>4, <1>5 DEF OnCreditEvent

LEMMA PaymentEventIsPurchase ==
  ASSUME PlacementInv, NEW e \in requests, OnPaymentEvent(e), UNCHANGED <<orderVars, customerVars>>
  PROVE  UNCHANGED Purchase!purchaseVars
<1>1. e.saga \in Sagas
  BY DEF PlacementInv, TypeOK, Request
<1>2. responses' = responses \union {NewResponse(e.saga, PAYMENT, PaymentAnswer(e))}
  BY DEF OnPaymentEvent
<1>3. NewResponse(e.saga, PAYMENT, PaymentAnswer(e)).step # CREDIT_APPROVAL
  BY DEF NewResponse, CREDIT_APPROVAL, PAYMENT
<1>4. Holding' = Holding
  BY <1>2, <1>3 DEF Holding, Approved, Released, ResponsesOf
<1> QED
  BY <1>4 DEF orderVars, customerVars, Purchase!purchaseVars

LEMMA StepIsPurchase ==
  ASSUME PlacementInv, [Next]_vars
  PROVE  Purchase!PurchaseNext \/ UNCHANGED Purchase!purchaseVars
<1>1. ASSUME NEW s \in Sagas, PlaceOrder(s), UNCHANGED <<customerVars, paymentVars>>
      PROVE  Purchase!PurchaseNext
  BY <1>1, PlacingIsPlace DEF Purchase!PurchaseNext
<1>2. ASSUME NEW t \in Threads, Commit(t), UNCHANGED <<customerVars, paymentVars>>
      PROVE  Purchase!PurchaseNext \/ UNCHANGED Purchase!purchaseVars
  BY <1>2, CommitIsDecision, CommitHandles DEF Purchase!PurchaseNext
<1>3. CASE UNCHANGED <<sagaState, purchaseOrder, consumed, requests, responses, openLimit>>
  BY <1>3, HoldingStays DEF Purchase!purchaseVars
<1>4. ASSUME NEW e \in requests, OnCreditEvent(e), UNCHANGED <<orderVars, paymentVars>>
      PROVE  Purchase!PurchaseNext \/ UNCHANGED Purchase!purchaseVars
  BY <1>4, CreditEventIsPurchase DEF Purchase!PurchaseNext
<1>5. ASSUME NEW e \in requests, OnPaymentEvent(e), UNCHANGED <<orderVars, customerVars>>
      PROVE  UNCHANGED Purchase!purchaseVars
  BY <1>5, PaymentEventIsPurchase
<1> QED
  BY <1>1, <1>2, <1>3, <1>4, <1>5, TableSteps

-------------------------------------------------------------------------------
(***************************************************************************)
(* The credit, of which the abstract purchase tells all there is to know.  *)
(***************************************************************************)
CreditInv == CreditIsConserved /\ IsFiniteSet(HeldUnits)

\* The units of one order, as many as are due for it.
LEMMA UnitsOf ==
  ASSUME NEW s, NEW n \in Nat
  PROVE  IsFiniteSet({s} \X (1 .. n)) /\ Cardinality({s} \X (1 .. n)) = n
<1>1. IsFiniteSet(1 .. n) /\ Cardinality(1 .. n) = IF 1 > n THEN 0 ELSE n - 1 + 1
  BY FS_Interval
<1>2. Cardinality(1 .. n) = n
  BY <1>1
<1>3. IsFiniteSet({s}) /\ Cardinality({s}) = 1
  BY FS_Singleton
<1>4. /\ IsFiniteSet({s} \X (1 .. n))
      /\ Cardinality({s} \X (1 .. n)) = Cardinality({s}) * Cardinality(1 .. n)
  BY <1>1, <1>3, FS_Product, Zenon
<1>5. Cardinality({s}) * Cardinality(1 .. n) = 1 * n
  BY <1>2, <1>3
<1>6. 1 * n = n
  OBVIOUS
<1> QED
  BY <1>4, <1>5, <1>6, Zenon

\* Units added to units, and taken out of them, are counted by the sum and the difference.
LEMMA UnitsAdded ==
  ASSUME NEW U, NEW V, IsFiniteSet(U), IsFiniteSet(V), U \intersect V = {}
  PROVE  /\ IsFiniteSet(U \union V)
         /\ Cardinality(U \union V) = Cardinality(U) + Cardinality(V)
<1>1. Cardinality(U) \in Nat /\ Cardinality(V) \in Nat
  BY FS_CardinalityType
<1>2. /\ IsFiniteSet(U \union V)
      /\ Cardinality(U \union V) = Cardinality(U) + Cardinality(V) - Cardinality(U \intersect V)
  BY FS_Union, Zenon
<1>3. Cardinality(U \intersect V) = 0
  BY FS_EmptySet, Zenon
<1> QED
  BY <1>1, <1>2, <1>3

LEMMA UnitsRemoved ==
  ASSUME NEW U, NEW V, IsFiniteSet(U), U \intersect V = V
  PROVE  /\ IsFiniteSet(U \ V)
         /\ Cardinality(U \ V) = Cardinality(U) - Cardinality(V)
BY FS_Difference, Zenon

LEMMA CreditInitInv == Init => CreditInv
<1> SUFFICES ASSUME Init PROVE CreditInv
  OBVIOUS
<1>1. HeldUnits = {}
  BY DEF HeldUnits, Holding, Approved, ResponsesOf, Init
<1>2. openLimit = InitialLimit /\ InitialLimit \in Nat
  BY LimitAssumption DEF LimitAssumption, Init, CustomerInit
<1> QED
  BY <1>1, <1>2, FS_EmptySet DEF CreditInv, CreditIsConserved

LEMMA ReserveKeepsCredit ==
  ASSUME CreditInv, NEW s \in Sagas, Purchase!Reserve(s)
  PROVE  CreditInv'
<1> DEFINE units == {s} \X (1 .. paymentDue[s])
<1>1. /\ s \notin Holding /\ Holding' = Holding \union {s}
      /\ paymentDue[s] < openLimit /\ openLimit' = openLimit - paymentDue[s]
  BY DEF Purchase!Reserve
<1>2. HeldUnits' = HeldUnits \union units /\ HeldUnits \intersect units = {}
  BY <1>1 DEF HeldUnits
<1>3. paymentDue[s] \in Nat
  BY SagasAssumption DEF SagasAssumption
<1>4. IsFiniteSet(units) /\ Cardinality(units) = paymentDue[s]
  BY <1>3, UnitsOf
<1> HIDE DEF units
<1>5. /\ IsFiniteSet(HeldUnits) /\ openLimit \in Nat
      /\ openLimit + Cardinality(HeldUnits) = InitialLimit
  BY DEF CreditInv, CreditIsConserved
<1>6. Cardinality(HeldUnits) \in Nat
  BY <1>5, FS_CardinalityType
<1>7. /\ IsFiniteSet(HeldUnits')
      /\ Cardinality(HeldUnits') = Cardinality(HeldUnits) + paymentDue[s]
  BY <1>2, <1>4, <1>5, UnitsAdded, Zenon
<1>8. openLimit' \in Nat
  BY <1>1, <1>3, <1>5
<1>9. openLimit' + Cardinality(HeldUnits') = InitialLimit
  BY <1>1, <1>3, <1>5, <1>6, <1>7
<1> QED
  BY <1>7, <1>8, <1>9 DEF CreditInv, CreditIsConserved

LEMMA GiveBackKeepsCredit ==
  ASSUME CreditInv, NEW s \in Sagas, Purchase!GiveBack(s)
  PROVE  CreditInv'
<1> DEFINE units == {s} \X (1 .. paymentDue[s])
<1>1. /\ s \in Holding /\ Holding' = Holding \ {s}
      /\ openLimit' = openLimit + paymentDue[s]
  BY DEF Purchase!GiveBack
<1>2. HeldUnits' = HeldUnits \ units /\ HeldUnits \intersect units = units
  BY <1>1 DEF HeldUnits
<1>3. paymentDue[s] \in Nat
  BY SagasAssumption DEF SagasAssumption
<1>4. IsFiniteSet(units) /\ Cardinality(units) = paymentDue[s]
  BY <1>3, UnitsOf
<1> HIDE DEF units
<1>5. /\ IsFiniteSet(HeldUnits) /\ openLimit \in Nat
      /\ openLimit + Cardinality(HeldUnits) = InitialLimit
  BY DEF CreditInv, CreditIsConserved
<1>6. Cardinality(HeldUnits) \in Nat
  BY <1>5, FS_CardinalityType
<1>7. /\ IsFiniteSet(HeldUnits')
      /\ Cardinality(HeldUnits') = Cardinality(HeldUnits) - paymentDue[s]
  BY <1>2, <1>4, <1>5, UnitsRemoved, Zenon
<1>8. openLimit' \in Nat
  BY <1>1, <1>3, <1>5
<1>9. openLimit' + Cardinality(HeldUnits') = InitialLimit
  BY <1>1, <1>3, <1>5, <1>6, <1>7
<1> QED
  BY <1>7, <1>8, <1>9 DEF CreditInv, CreditIsConserved

LEMMA StepKeepsCredit ==
  ASSUME PlacementInv, CreditInv, [Next]_vars
  PROVE  CreditInv'
<1>1. CASE UNCHANGED Purchase!purchaseVars
  BY <1>1 DEF Purchase!purchaseVars, CreditInv, CreditIsConserved, HeldUnits
<1>2. CASE \E s \in Sagas : Purchase!Place(s) \/ Purchase!Accept(s) \/ Purchase!Refuse(s)
  <2>1. Holding' = Holding /\ openLimit' = openLimit
    BY <1>2 DEF Purchase!Place, Purchase!Accept, Purchase!Refuse, Purchase!Decide
  <2> QED
    BY <2>1 DEF CreditInv, CreditIsConserved, HeldUnits
<1> QED
  BY <1>1, <1>2, StepIsPurchase, ReserveKeepsCredit, GiveBackKeepsCredit
  DEF Purchase!PurchaseNext

-------------------------------------------------------------------------------
(***************************************************************************)
(* The refinement of the saga protocol, by the part of the state that is   *)
(* about one order.                                                        *)
(***************************************************************************)
MessagesOf(asked)  == {[step |-> r.step, type |-> r.type] : r \in asked}
AnswerOf(r)        == [step |-> r.step, status |-> ToStepStatus(r.status)]
AnswersOf(replies) == {AnswerOf(r) : r \in replies}

\* The part of the order is the state of the protocol.
LEMMA ProtocolPart ==
  ASSUME NEW s
  PROVE  Protocol(s)!protocolVars = <<Part(s).row, MessagesOf(Part(s).asked),
                                      AnswersOf(Part(s).answered), AnswersOf(Part(s).handled)>>
BY PartFields, Zenon DEF Protocol!protocolVars, MessagesOf, AnswersOf, AnswerOf

\* The protocol's saga framework, of two steps, is the order service's.
LEMMA ProtocolBase ==
  ASSUME NEW s
  PROVE  /\ Protocol(s)!Step = Step /\ Protocol(s)!Message = Message
         /\ Protocol(s)!NoRow = NoRow /\ Protocol(s)!Begin = Begin
         /\ \A row, i, status :
              /\ Protocol(s)!OnStepEventThrows(row, status) = OnStepEventThrows(row, status)
              /\ Protocol(s)!OnStepEvent(row, i, status) = OnStepEvent(row, i, status)
<1>1. Protocol(s)!Step = Step /\ Protocol(s)!NoStep = NoStep /\ Protocol(s)!NotRun = NotRun
  BY DEF Protocol!Step, Step, Protocol!NoStep, NoStep, Protocol!NotRun, NotRun
<1>2. Protocol(s)!Message = Message
  BY <1>1, Zenon DEF Protocol!Message, Message
<1>3. Protocol(s)!NoRow = NoRow
  BY <1>1, Zenon DEF Protocol!NoRow, NoRow
<1>4. \A row : Protocol(s)!GetNextStep(row) = GetNextStep(row)
  BY <1>1 DEF Protocol!GetNextStep, GetNextStep
<1>5. \A row : Protocol(s)!Advance(row) = Advance(row) /\ Protocol(s)!GoBack(row) = GoBack(row)
  BY <1>1, <1>4, Zenon DEF Protocol!Advance, Advance, Protocol!GoBack, GoBack
<1>6. Protocol(s)!Begin = Begin
  BY <1>3, <1>5, Zenon DEF Protocol!Begin, Begin
<1>7. \A status : Protocol(s)!GoesBack(status) = GoesBack(status)
  BY Zenon DEF Protocol!GoesBack, GoesBack
<1>8. /\ \A row : Protocol(s)!AllStatus(row) = AllStatus(row)
      /\ \A states : Protocol(s)!GetSagaStatus(states) = GetSagaStatus(states)
  BY <1>1, Zenon DEF Protocol!AllStatus, AllStatus, Protocol!GetSagaStatus, GetSagaStatus
<1>9. \A row, status : Protocol(s)!OnStepEventThrows(row, status) = OnStepEventThrows(row, status)
  BY <1>1, <1>7, Zenon DEF Protocol!OnStepEventThrows, OnStepEventThrows, Protocol!GoBackThrows,
                           GoBackThrows
<1>10. ASSUME NEW row, NEW i, NEW status
       PROVE  Protocol(s)!OnStepEvent(row, i, status) = OnStepEvent(row, i, status)
  <2> DEFINE put   == [row EXCEPT !.stepStatus[i] = status]
             moved == IF GoesBack(status) THEN GoBack(put) ELSE Advance(put)
             same  == IF Protocol(s)!GoesBack(status) THEN Protocol(s)!GoBack(put)
                                                      ELSE Protocol(s)!Advance(put)
  <2>1. same = moved
    BY <1>5, <1>7, Zenon
  <2>2. Protocol(s)!GetSagaStatus(Protocol(s)!AllStatus(same.row))
          = GetSagaStatus(AllStatus(moved.row))
    BY <1>8, <2>1, Zenon
  <2>3. /\ OnStepEvent(row, i, status)
             = [moved EXCEPT !.row.sagaStatus = GetSagaStatus(AllStatus(moved.row))]
        /\ Protocol(s)!OnStepEvent(row, i, status)
             = [same EXCEPT !.row.sagaStatus =
                  Protocol(s)!GetSagaStatus(Protocol(s)!AllStatus(same.row))]
    BY Zenon DEF Protocol!OnStepEvent, OnStepEvent
  <2> HIDE DEF moved, same
  <2> QED
    BY <2>1, <2>2, <2>3, Zenon
<1> QED
  BY <1>1, <1>2, <1>3, <1>6, <1>9, <1>10

\* The messages that a row fires are messages of the protocol.
LEMMA FiredAreMessages ==
  ASSUME NEW row, NEW i, NEW status, NEW m \in OnStepEvent(row, i, status).fired
  PROVE  m = [step |-> m.step, type |-> m.type]
<1> DEFINE put   == [row EXCEPT !.stepStatus[i] = status]
           moved == IF GoesBack(status) THEN GoBack(put) ELSE Advance(put)
           final == GetSagaStatus(AllStatus(moved.row))
<1>1. OnStepEvent(row, i, status) = [moved EXCEPT !.row.sagaStatus = final]
  BY Zenon DEF OnStepEvent
<1>2. \/ \E r : moved = [row |-> r, fired |-> {}]
      \/ \E r, k, type : moved = [row |-> r, fired |-> {[step |-> k, type |-> type]}]
  <2> HIDE DEF put
  <2> QED
    BY DEF GoBack, Advance
<1> HIDE DEF moved, final
<1>3. OnStepEvent(row, i, status).fired = moved.fired
  BY <1>1, <1>2
<1> QED
  BY <1>2, <1>3

\* An answer that is not handled differs from those that are, as the protocol sees them.
LEMMA OpenAnswerIsNew ==
  ASSUME NEW s \in Sagas, NEW p, AtAPoint(s, p), NEW e, e \in p.answered, e \notin p.handled
  PROVE  /\ AnswerOf(e) \notin AnswersOf(p.handled) /\ AnswerOf(e) \in AnswersOf(p.answered)
         /\ AnswerOf(e) \in Protocol(s)!Answer
<1> USE DEF Granted, Rejected, Taken, Declined, Returned, Reply, AnswerOf, AnswersOf,
            ToStepStatus, CREDIT_APPROVAL, PAYMENT
<1>1. AnswerOf(e) \in AnswersOf(p.answered)
  OBVIOUS
<1>2. AnswerOf(e) \notin AnswersOf(p.handled)
  <2>1. CASE AwaitsCredit(s, p)
    BY <2>1 DEF AwaitsCredit, Waiting
  <2>2. CASE AwaitsPayment(s, p) /\ e \in {Taken(s), Declined(s)}
    <3>1. p.handled = {Granted(s)}
      BY <2>2 DEF AwaitsPayment, Waiting
    <3> QED
      BY <2>2, <3>1
  <2>3. CASE AwaitsRelease(s, p) /\ e = Returned(s)
    <3>1. p.handled = {Granted(s), Declined(s)}
      BY <2>3 DEF AwaitsRelease, Waiting
    <3> QED
      BY <2>3, <3>1
  <2> QED
    BY <2>1, <2>2, <2>3, OpenAnswer
<1>3. AnswerOf(e) \in Protocol(s)!Answer
  <2>1. e \in {Granted(s), Rejected(s), Taken(s), Declined(s), Returned(s)}
    BY OpenAnswer
  <2>2. 0 \in Step /\ 1 \in Step
    BY DEF Step
  <2> QED
    BY <2>1, <2>2, ProtocolBase DEF Protocol!Answer
<1> QED
  BY <1>1, <1>2, <1>3

\* What the step leaves as it was of a part, it leaves of the protocol.
LEMMA PartOutside ==
  ASSUME NEW s, Part(s)'.row = Part(s).row, Part(s)'.asked = Part(s).asked,
         Part(s)'.answered = Part(s).answered, Part(s)'.handled = Part(s).handled
  PROVE  UNCHANGED Protocol(s)!protocolVars
<1>1. Protocol(s)!protocolVars' = <<Part(s)'.row, MessagesOf(Part(s)'.asked),
                                    AnswersOf(Part(s)'.answered), AnswersOf(Part(s)'.handled)>>
  BY PartFields, Zenon DEF Protocol!protocolVars, MessagesOf, AnswersOf, AnswerOf, Part
<1> QED
  BY <1>1, ProtocolPart, Zenon

LEMMA PlacingBegins ==
  ASSUME PlacementInv, NEW s \in Sagas, PlaceOrder(s), NEW o \in Sagas,
         UNCHANGED <<customerVars, paymentVars>>
  PROVE  Protocol(o)!BeginSaga \/ UNCHANGED Protocol(o)!protocolVars
<1> DEFINE m == [step |-> CREDIT_APPROVAL, type |-> "REQUEST"]
<1>1. /\ sagaState[s] = NoRow /\ Part(s).asked = {}
      /\ sagaState' = [sagaState EXCEPT ![s] = Begin.row]
      /\ UNCHANGED <<responses, consumed>>
  BY PartFields DEF PlaceOrder
<1>2. requests' = requests \union {Credit(s)}
  <2>1. SagaEvent(s, m) = Credit(s)
    BY <1>1, SagaEventIs DEF Credit
  <2> QED
    BY <2>1, BeginResult DEF PlaceOrder, Fire
<1>3. Credit(s).saga = s /\ MessagesOf({Credit(s)}) = {m}
  BY DEF Credit, Ask, MessagesOf
<1>4. sagaState \in [Sagas -> Row \union {NoRow}]
  BY DEF PlacementInv, TypeOK, OrderTypeOK
<1>5. /\ Part(o)'.answered = Part(o).answered /\ Part(o)'.handled = Part(o).handled
      /\ Part(o).row = sagaState[o] /\ Part(o)'.row = sagaState'[o]
  BY <1>1 DEF Part
<1>6. CASE o = s
  <2>1. Part(s)'.row = Begin.row
    BY <1>1, <1>4, <1>5, <1>6
  <2>2. Part(s)'.asked = {Credit(s)}
    BY <1>1, <1>2, <1>3, PartFields DEF Part
  <2>3. MessagesOf(Part(s).asked) = {} /\ MessagesOf(Part(s)'.asked) = Begin.fired
    BY <1>1, <1>3, <2>2, BeginResult DEF MessagesOf
  <2> QED
    BY <1>1, <1>5, <1>6, <2>1, <2>3, ProtocolBase
    DEF Protocol!BeginSaga, Part, MessagesOf
<1>7. CASE o # s
  <2>1. Part(o)'.asked = Part(o).asked /\ Part(o)'.row = Part(o).row
    BY <1>1, <1>2, <1>3, <1>4, <1>5, <1>7 DEF Part
  <2> QED
    BY <1>5, <2>1, PartOutside
<1> QED
  BY <1>6, <1>7

\* Messages that are asked of the participants are the messages again.
LEMMA AskedMessages ==
  ASSUME NEW o, NEW F, \A m \in F : m = [step |-> m.step, type |-> m.type],
         NEW A, \A r : r \in A <=> \E m \in F : r = Ask(o, m.step, m.type)
  PROVE  MessagesOf(A) = F
<1>1. \A m : Ask(o, m.step, m.type).step = m.step /\ Ask(o, m.step, m.type).type = m.type
  BY DEF Ask
<1>2. ASSUME NEW r \in A PROVE [step |-> r.step, type |-> r.type] \in F
  BY <1>1
<1>3. ASSUME NEW m \in F PROVE \E r \in A : m = [step |-> r.step, type |-> r.type]
  <2>1. Ask(o, m.step, m.type) \in A
    OBVIOUS
  <2> QED
    BY <1>1, <2>1
<1> QED
  BY <1>2, <1>3 DEF MessagesOf

\* A commit is the protocol's handling of the answer.
LEMMA CommitIsHandling ==
  ASSUME PlacementInv, NEW t \in Threads, Commit(t), UNCHANGED <<customerVars, paymentVars>>,
         NEW e, e = attempt[t].event, NEW s, s = e.saga
  PROVE  Protocol(s)!HandleAnswer(AnswerOf(e)) /\ AnswerOf(e) \in Protocol(s)!Answer
<1> DEFINE status == ToStepStatus(e.status)
           next   == OnStepEvent(sagaState[s], e.step, status)
           asked  == {Ask(s, m.step, m.type) : m \in next.fired}
<1>1. /\ e \in responses /\ e \notin consumed /\ s \in Sagas
      /\ e \in Part(s).answered /\ e \notin Part(s).handled
      /\ AtAPoint(s, Part(s)) /\ Part(s).row = sagaState[s]
  BY CommitHandles, PartFields DEF PlacementInv
<1>2. /\ sagaState' = [sagaState EXCEPT ![s] = next.row]
      /\ requests' = requests \union {SagaEvent(s, m) : m \in next.fired}
      /\ consumed' = consumed \union {e} /\ responses' = responses
      /\ ~ OnStepEventThrows(sagaState[s], status)
  BY CommitHandles DEF Commit, OnAnswer, Fire
<1>3. \A m \in next.fired : m = [step |-> m.step, type |-> m.type]
  BY FiredAreMessages
<1>4. requests' = requests \union asked
  BY SMTT(30), <1>1, <1>2, FiredAreNew
<1> HIDE DEF next, status
<1>5. Part(s)'.asked = Part(s).asked \union asked
  BY <1>4 DEF Part, Ask
<1>6. MessagesOf(asked) = next.fired
  <2>1. \A r : r \in asked <=> \E m \in next.fired : r = Ask(s, m.step, m.type)
    OBVIOUS
  <2> HIDE DEF asked
  <2> QED
    BY ONLY <1>3, <2>1, AskedMessages
<1>7. MessagesOf(Part(s)'.asked) = MessagesOf(Part(s).asked) \union next.fired
  BY <1>5, <1>6 DEF MessagesOf
<1>8. /\ Part(s)'.row = next.row /\ Part(s)'.answered = Part(s).answered
      /\ Part(s)'.handled = Part(s).handled \union {e}
  BY <1>1, <1>2 DEF Part, PlacementInv, TypeOK, OrderTypeOK
<1>9. AnswersOf(Part(s)'.handled) = AnswersOf(Part(s).handled) \union {AnswerOf(e)}
  BY <1>8 DEF AnswersOf
<1>10. /\ AnswerOf(e) \in AnswersOf(Part(s).answered) \ AnswersOf(Part(s).handled)
       /\ AnswerOf(e) \in Protocol(s)!Answer
  BY <1>1, OpenAnswerIsNew
<1>11. /\ AnswerOf(e).step = e.step /\ AnswerOf(e).status = status
       /\ next = Protocol(s)!OnStepEvent(sagaState[s], AnswerOf(e).step, AnswerOf(e).status)
       /\ ~ Protocol(s)!OnStepEventThrows(sagaState[s], AnswerOf(e).status)
  BY <1>2, ProtocolBase DEF AnswerOf, status, next
<1>12. Protocol(s)!HandleAnswer(AnswerOf(e))
  BY <1>1, <1>7, <1>8, <1>9, <1>10, <1>11
  DEF Protocol!HandleAnswer, Part, MessagesOf, AnswersOf, AnswerOf
<1> QED
  BY <1>10, <1>12

\* A participant's answer is the protocol's.
LEMMA ReplyIsParticipation ==
  ASSUME PlacementInv, NEW e \in requests, e \notin creditLog \union paymentLog,
         NEW status, Reply(e.saga, e.step, status) \in RepliesTo(e.saga, e),
         responses' = responses \union {Reply(e.saga, e.step, status)},
         UNCHANGED <<requests, orderVars>>
  PROVE  \A s \in Sagas : Protocol(s)!ProtocolNext \/ UNCHANGED Protocol(s)!protocolVars
<1> DEFINE a == Reply(e.saga, e.step, status)
           m == [step |-> e.step, type |-> e.type]
<1> SUFFICES ASSUME NEW s \in Sagas
             PROVE  Protocol(s)!ProtocolNext \/ UNCHANGED Protocol(s)!protocolVars
  OBVIOUS
<1>1. a.saga = e.saga /\ a.step = e.step /\ a.status = status
  BY DEF Reply
<1>2. /\ Part(s)'.asked = Part(s).asked /\ Part(s)'.handled = Part(s).handled
      /\ Part(s)'.row = Part(s).row
      /\ Part(s)'.answered = Part(s).answered \union {r \in {a} : r.saga = s}
  BY DEF Part, orderVars
<1>3. CASE s # e.saga
  BY <1>1, <1>2, <1>3, PartOutside
<1>4. CASE s = e.saga
  <2>1. AtAPoint(s, Part(s)) /\ e \in Part(s).asked /\ e \notin Part(s).logged
    BY <1>4, PartFields DEF PlacementInv
  <2>2. /\ Part(s).answered = Part(s).handled
        /\ \/ AwaitsCredit(s, Part(s)) /\ e = Credit(s)
           \/ AwaitsPayment(s, Part(s)) /\ e = Pay(s)
           \/ AwaitsRelease(s, Part(s)) /\ e = Release(s)
    BY <2>1, OpenRequest
  <2>3. m \in Protocol(s)!Message /\ m \in MessagesOf(Part(s).asked)
    <3>1. 0 \in Step /\ 1 \in Step
      BY DEF Step
    <3>2. m \in Message
      BY <2>2, <3>1 DEF Message, Credit, Pay, Release, Ask, CREDIT_APPROVAL, PAYMENT
    <3> QED
      BY <2>1, <3>2, ProtocolBase DEF MessagesOf
  <2>4. AnswerOf(a) \in Protocol(s)!AnswersTo(m)
    <3>1. a \in RepliesTo(s, e)
      BY <1>4
    <3> QED
      BY <2>2, <3>1, EventsDiffer
      DEF RepliesTo, Protocol!AnswersTo, AnswerOf, ToStepStatus, Credit, Pay, Release, Ask,
          Granted, Rejected, Taken, Declined, Returned, Reply, CREDIT_APPROVAL, PAYMENT
  <2>5. Protocol(s)!AnswersTo(m) \intersect AnswersOf(Part(s).answered) = {}
    <3> USE DEF Protocol!AnswersTo, AnswersOf, AnswerOf, ToStepStatus, Credit, Pay, Release, Ask,
                Granted, Declined, Reply, CREDIT_APPROVAL, PAYMENT
    <3>1. CASE AwaitsCredit(s, Part(s)) /\ e = Credit(s)
      BY <2>2, <3>1 DEF AwaitsCredit, Waiting
    <3>2. CASE AwaitsPayment(s, Part(s)) /\ e = Pay(s)
      <4>1. Part(s).answered = {Granted(s)}
        BY <2>2, <3>2 DEF AwaitsPayment, Waiting
      <4> QED
        BY <3>2, <4>1
    <3>3. CASE AwaitsRelease(s, Part(s)) /\ e = Release(s)
      <4>1. Part(s).answered = {Granted(s), Declined(s)}
        BY <2>2, <3>3 DEF AwaitsRelease, Waiting
      <4> QED
        BY <3>3, <4>1
    <3> QED
      BY <2>2, <3>1, <3>2, <3>3
  <2>6. AnswersOf(Part(s)'.answered) = AnswersOf(Part(s).answered) \union {AnswerOf(a)}
    BY <1>1, <1>2, <1>4 DEF AnswersOf
  <2> HIDE DEF a, m
  <2>7. Protocol(s)!Participate(m)
    BY <1>2, <2>3, <2>4, <2>5, <2>6
    DEF Protocol!Participate, Part, MessagesOf, AnswersOf, AnswerOf
  <2> QED
    BY <2>3, <2>7 DEF Protocol!ProtocolNext
<1> QED
  BY <1>3, <1>4

LEMMA CreditEventIsParticipation ==
  ASSUME PlacementInv, NEW e \in requests, OnCreditEvent(e), UNCHANGED <<orderVars, paymentVars>>
  PROVE  \A s \in Sagas : Protocol(s)!ProtocolNext \/ UNCHANGED Protocol(s)!protocolVars
<1>1. ASSUME NEW status, TakesCredit(e), AnswerCredit(e, status),
             \/ e.type = "REQUEST" /\ status \in {"APPROVED", "REJECTED"}
             \/ e.type = "CANCEL" /\ status = "CANCELLED"
      PROVE  \A s \in Sagas : Protocol(s)!ProtocolNext \/ UNCHANGED Protocol(s)!protocolVars
  <2>1. e \notin creditLog \union paymentLog /\ e.step = CREDIT_APPROVAL
    BY <1>1 DEF PlacementInv, LogsApart, TakesCredit, PollsCredit, CREDIT_APPROVAL, PAYMENT
  <2>2. Reply(e.saga, e.step, status) \in RepliesTo(e.saga, e)
    BY <1>1, <2>1, OpenRequestOf, EventsDiffer DEF RepliesTo, Granted, Rejected, Returned
  <2>3. responses' = responses \union {Reply(e.saga, e.step, status)}
    BY <1>1, <2>1, CreditReply
  <2> QED
    BY <1>1, <2>1, <2>2, <2>3, ReplyIsParticipation DEF AnswerCredit
<1>2. CASE ApproveCredit(e)
  BY <1>1, <1>2 DEF ApproveCredit
<1>3. CASE RejectCredit(e)
  BY <1>1, <1>3 DEF RejectCredit
<1>4. CASE CancelCredit(e)
  BY <1>1, <1>4 DEF CancelCredit
<1>5. CASE FailCredit(e)
  <2>1. UNCHANGED <<requests, responses, sagaState, consumed>>
    BY <1>5 DEF FailCredit, orderVars
  <2> QED
    BY <2>1, PartOutside DEF Part
<1> QED
  BY <1>2, <1>3, <1>4, <1>5 DEF OnCreditEvent

LEMMA PaymentEventIsParticipation ==
  ASSUME PlacementInv, NEW e \in requests, OnPaymentEvent(e), UNCHANGED <<orderVars, customerVars>>
  PROVE  \A s \in Sagas : Protocol(s)!ProtocolNext \/ UNCHANGED Protocol(s)!protocolVars
<1> DEFINE status == PaymentAnswer(e)
<1>1. e \notin creditLog \union paymentLog /\ e.step = PAYMENT
  BY DEF PlacementInv, LogsApart, OnPaymentEvent, TakesPayment, PollsPayment,
         CREDIT_APPROVAL, PAYMENT
<1>2. e.saga \in Sagas /\ e = Pay(e.saga) /\ status \in {"REQUESTED", "FAILED"}
  BY <1>1, OpenRequestOf DEF PaymentAnswer
<1>3. Reply(e.saga, e.step, status) \in RepliesTo(e.saga, e)
  BY <1>1, <1>2, EventsDiffer DEF RepliesTo, Taken, Declined
<1>4. responses' = responses \union {NewResponse(e.saga, e.step, status)}
  BY <1>1 DEF OnPaymentEvent
<1> HIDE DEF status
<1>5. AtAPoint(e.saga, Part(e.saga)) /\ e \in Part(e.saga).asked /\ e \notin Part(e.saga).logged
  BY <1>1, <1>2, PartFields DEF PlacementInv
<1>6. responses' = responses \union {Reply(e.saga, e.step, status)}
  BY <1>2, <1>3, <1>4, <1>5, NewReply
<1> QED
  BY <1>1, <1>3, <1>6, ReplyIsParticipation DEF OnPaymentEvent

LEMMA StepIsProtocol ==
  ASSUME PlacementInv, [Next]_vars
  PROVE  \A s \in Sagas : Protocol(s)!ProtocolNext \/ UNCHANGED Protocol(s)!protocolVars
<1> SUFFICES ASSUME NEW s \in Sagas
             PROVE  Protocol(s)!ProtocolNext \/ UNCHANGED Protocol(s)!protocolVars
  OBVIOUS
<1>1. ASSUME NEW o \in Sagas, PlaceOrder(o), UNCHANGED <<customerVars, paymentVars>>
      PROVE  Protocol(s)!ProtocolNext \/ UNCHANGED Protocol(s)!protocolVars
  BY <1>1, PlacingBegins DEF Protocol!ProtocolNext
<1>2. ASSUME NEW t \in Threads, Commit(t), UNCHANGED <<customerVars, paymentVars>>
      PROVE  Protocol(s)!ProtocolNext \/ UNCHANGED Protocol(s)!protocolVars
  <2>1. SUFFICES ASSUME NEW e, e = attempt[t].event
                 PROVE  Protocol(s)!ProtocolNext \/ UNCHANGED Protocol(s)!protocolVars
    OBVIOUS
  <2>2. CASE s = e.saga
    BY <1>2, <2>1, <2>2, CommitIsHandling DEF Protocol!ProtocolNext
  <2>3. CASE s # e.saga
    <3>1. Part(s)' = Part(s)
      BY <1>2, <2>1, <2>3, CommitMoves
    <3> QED
      BY <3>1, PartOutside
  <2> QED
    BY <2>2, <2>3
<1>3. CASE UNCHANGED <<sagaState, purchaseOrder, consumed, requests, responses, openLimit>>
  BY <1>3, PartOutside DEF Part
<1>4. ASSUME NEW e \in requests, OnCreditEvent(e), UNCHANGED <<orderVars, paymentVars>>
      PROVE  Protocol(s)!ProtocolNext \/ UNCHANGED Protocol(s)!protocolVars
  BY <1>4, CreditEventIsParticipation
<1>5. ASSUME NEW e \in requests, OnPaymentEvent(e), UNCHANGED <<orderVars, customerVars>>
      PROVE  Protocol(s)!ProtocolNext \/ UNCHANGED Protocol(s)!protocolVars
  BY <1>5, PaymentEventIsParticipation
<1> QED
  BY <1>1, <1>2, <1>3, <1>4, <1>5, TableSteps

LEMMA InitIsProtocol == Init => \A s \in Sagas : Protocol(s)!ProtocolInit
BY ProtocolBase DEF Init, OrderInit, Protocol!ProtocolInit

-------------------------------------------------------------------------------
(***************************************************************************)
(* The properties of the system.                                           *)
(***************************************************************************)

\* The tables, the topics and the message logs are of the declared types.
THEOREM PlacementTypes == Safety => []TypeOK
BY PlacementInvariant, PTL DEF PlacementInv

\* No request and no answer is fired twice, however often records are delivered.
THEOREM PlacementFiresOnce == Safety => []NothingFiredTwice
BY PlacementInvariant, PlacedOnce, PTL

\* What is open of the customer's limit and what orders hold of it add up, and the
\* limit is never overdrawn, whatever amounts compete for it.
THEOREM PlacementConservesCredit == Safety => []CreditIsConserved
<1>1. PlacementInv /\ CreditInv /\ [Next]_vars => CreditInv'
  BY StepKeepsCredit
<1>2. CreditInv => CreditIsConserved
  BY DEF CreditInv
<1> QED
  BY <1>1, <1>2, CreditInitInv, PlacementInvariant, PTL DEF Safety

\* An order is accepted with its credit held and its payment taken once, and
\* refused with its credit given back and no payment taken.
THEOREM PlacementDecisionsMatch == Safety => []DecisionMatchesParticipants
BY PlacementInvariant, DecisionsMatch, PTL

\* Transactions conflict only over an answer that is delivered twice.
THEOREM PlacementConflicts == Safety => []OnlyRedeliveriesConflict
BY PlacementInvariant, LateOnlyOnRedelivery, PTL

\* The decision on an order never changes.
THEOREM PlacementDecisionIsFinal == Safety => DecisionIsFinal
<1>1. PlacementInv /\ [Next]_vars
        => [\A s \in Sagas : Decided(s) => purchaseOrder'[s] = purchaseOrder[s]]_vars
  BY DecidedStays
<1> QED
  BY <1>1, PlacementInvariant, PTL DEF Safety, DecisionIsFinal

\* A row changes only by one new answer being handled on the row as it is.
THEOREM PlacementIsSerial == Safety => ChangesAreSerial
<1>1. PlacementInv /\ [Next]_vars
        => [\A s \in Sagas :
              sagaState[s] # NoRow /\ sagaState'[s] # sagaState[s] =>
                \E e \in consumed' \ consumed :
                  /\ e.saga = s
                  /\ sagaState'[s] =
                       OnStepEvent(sagaState[s], e.step, ToStepStatus(e.status)).row]_vars
  BY ChangesOneByOne
<1> QED
  BY <1>1, PlacementInvariant, PTL DEF Safety, ChangesAreSerial

\* Every order's saga is a run of the saga protocol: what is proved of the protocol
\* holds of each saga in the whole system.
THEOREM PlacementFollowsProtocol == Safety => EverySagaFollowsProtocol
<1>1. PlacementInv /\ [Next]_vars
        => [\A s \in Sagas :
              Protocol(s)!ProtocolNext \/ UNCHANGED Protocol(s)!protocolVars]_vars
  BY StepIsProtocol
<1> QED
  BY <1>1, InitIsProtocol, PlacementInvariant, PTL DEF Safety, EverySagaFollowsProtocol

\* As far as the customer and the shop can see, placing orders is an atomic
\* purchase: the three services, their tables and topics implement it.
THEOREM PlacementIsAtomicPurchase == Safety => ImplementsAtomicPurchase
<1>1. PlacementInv /\ [Next]_vars => [Purchase!PurchaseNext]_Purchase!purchaseVars
  BY StepIsPurchase
<1> QED
  BY <1>1, InitIsPurchase, PlacementInvariant, PTL
  DEF Safety, ImplementsAtomicPurchase, Purchase!PurchaseSpec

===============================================================================
