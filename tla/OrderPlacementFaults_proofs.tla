---------------------- MODULE OrderPlacementFaults_proofs ----------------------
(***************************************************************************)
(* Proofs about OrderPlacementReports and OrderPlacementRestarts: what is  *)
(* left of the saga's promises when clients report answers of their own,   *)
(* and when services lose their tables.  There the orders are no longer at *)
(* the points of OrderPlacement_proofs, so the argument is about rows that *)
(* may hold anything: what one answer makes of a row, and which row a      *)
(* transaction that commits has read.                                      *)
(***************************************************************************)
EXTENDS OrderPlacement_proofs, OrderPlacementReports, OrderPlacementRestarts

-------------------------------------------------------------------------------
(***************************************************************************)
(* onStepEvent on any row.                                                 *)
(***************************************************************************)
LEMMA RowIs ==
  ASSUME NEW row \in Row
  PROVE  /\ row = RowWith(row.currentStep, row.stepStatus[0], row.stepStatus[1], row.sagaStatus)
         /\ row.currentStep \in {NoStep, 0, 1} /\ row.sagaStatus \in SagaStatus
         /\ row.stepStatus[0] \in StepStatus \union {NotRun}
         /\ row.stepStatus[1] \in StepStatus \union {NotRun}
<1>1. Step = {0, 1}
  BY DEF Step
<1>2. row.stepStatus \in [Step -> StepStatus \union {NotRun}]
  BY DEF Row
<1>3. row.stepStatus = Steps(row.stepStatus[0], row.stepStatus[1])
  BY <1>1, <1>2 DEF Steps, CREDIT_APPROVAL
<1>4. row = [currentStep |-> row.currentStep, stepStatus |-> row.stepStatus,
             sagaStatus |-> row.sagaStatus]
  BY DEF Row
<1>5. row = RowWith(row.currentStep, row.stepStatus[0], row.stepStatus[1], row.sagaStatus)
  BY <1>3, <1>4, Zenon DEF RowWith
<1> QED
  BY <1>1, <1>2, <1>5 DEF Row

LEMMA StatusIsTyped ==
  ASSUME NEW stepStates
  PROVE  GetSagaStatus(stepStates) \in SagaStatus
BY DEF GetSagaStatus, SagaStatus

\* The answer makes of the row one with the step and the statuses c, a and b, and
\* with the saga status that follows from them.
Becomes(row, i, status, c, a, b) ==
  OnStepEvent(row, i, status).row = RowWith(c, a, b, GetSagaStatus({a, b} \ {NotRun}))

LEMMA MovedBecomes ==
  ASSUME NEW row, NEW i, NEW status, NEW c, NEW a, NEW b, NEW w, NEW fires,
         MovedRow(PutIn(row, i, status), status) = [row |-> RowWith(c, a, b, w), fired |-> fires]
  PROVE  Becomes(row, i, status, c, a, b)
BY OnStepEventOfRow DEF MovesTo, Becomes

\* The five things an answer can make of a row, with the answer entered in it.
LEMMA AnsweredRow ==
  ASSUME NEW c \in {NoStep, 0, 1}, NEW a, NEW b, NEW w, NEW i \in Step, NEW status,
         ~ OnStepEventThrows(RowWith(c, a, b, w), status),
         NEW p, p = (IF i = 0 THEN status ELSE a), NEW q, q = (IF i = 1 THEN status ELSE b)
  PROVE  LET row == RowWith(c, a, b, w)
         IN  \/ ~ GoesBack(status) /\ \/ c = 0 /\ Becomes(row, i, status, 1, p, "STARTED")
                                      \/ c = 1 /\ Becomes(row, i, status, NoStep, p, q)
                                      \/ c = NoStep /\ Becomes(row, i, status, 0, "STARTED", q)
             \/ GoesBack(status) /\ \/ c = 0 /\ Becomes(row, i, status, NoStep, p, q)
                                    \/ c = 1 /\ Becomes(row, i, status, 0, "COMPENSATING", q)
<1> DEFINE row == RowWith(c, a, b, w)
<1>1. PutIn(row, i, status) = RowWith(c, p, q, w)
  <2>1. i = 0 \/ i = 1
    BY DEF Step
  <2>2. CASE i = 0
    <3>1. p = status /\ q = b
      BY <2>2
    <3> QED
      BY <2>2, <3>1, PutStep
  <2>3. CASE i = 1
    <3>1. p = a /\ q = status
      BY <2>3
    <3> QED
      BY <2>3, <3>1, PutStep
  <2> QED
    BY <2>1, <2>2, <2>3
<1>2. row.currentStep = c
  BY RowFields
<1> HIDE DEF row
<1>3. CASE GoesBack(status)
  <2>1. c # NoStep
    BY <1>2, <1>3 DEF OnStepEventThrows, GoBackThrows, row
  <2>2. MovedRow(RowWith(c, p, q, w), status) = GoBack(RowWith(c, p, q, w))
    BY <1>3 DEF MovedRow
  <2>3. CASE c = 0
    <3>1. Becomes(row, i, status, NoStep, p, q)
      BY <1>1, <2>2, <2>3, Moves, MovedBecomes
    <3> QED
      BY <1>3, <2>3, <3>1 DEF row
  <2>4. CASE c = 1
    <3>1. Becomes(row, i, status, 0, "COMPENSATING", q)
      BY <1>1, <2>2, <2>4, Moves, MovedBecomes
    <3> QED
      BY <1>3, <2>4, <3>1 DEF row
  <2> QED
    BY <2>1, <2>3, <2>4
<1>4. CASE ~ GoesBack(status)
  <2>1. MovedRow(RowWith(c, p, q, w), status) = Advance(RowWith(c, p, q, w))
    BY <1>4 DEF MovedRow
  <2>2. CASE c = 0
    <3>1. Becomes(row, i, status, 1, p, "STARTED")
      BY <1>1, <2>1, <2>2, Moves, MovedBecomes
    <3> QED
      BY <1>4, <2>2, <3>1 DEF row
  <2>3. CASE c = 1
    <3>1. Becomes(row, i, status, NoStep, p, q)
      BY <1>1, <2>1, <2>3, Moves, MovedBecomes
    <3> QED
      BY <1>4, <2>3, <3>1 DEF row
  <2>4. CASE c = NoStep
    <3>1. Becomes(row, i, status, 0, "STARTED", q)
      BY <1>1, <2>1, <2>4, Moves, MovedBecomes
    <3> QED
      BY <1>4, <2>4, <3>1 DEF row
  <2> QED
    BY <2>2, <2>3, <2>4
<1> QED
  BY <1>3, <1>4

StatusOfAnswer == {"SUCCEEDED", "FAILED", "COMPENSATED"}

LEMMA AnswersHaveStatus ==
  ASSUME NEW status
  PROVE  ToStepStatus(status) \in StatusOfAnswer
BY DEF ToStepStatus, StatusOfAnswer

LEMMA NoRowIsNone == NoRow \notin Row
BY DEF NoRow, Row, SagaStatus

\* An answer makes of a row a row, with the saga status that its steps call for.
LEMMA AnsweredRowIsRow ==
  ASSUME NEW row \in Row, NEW i \in Step, NEW status \in StatusOfAnswer,
         ~ OnStepEventThrows(row, status), NEW next, next = OnStepEvent(row, i, status).row
  PROVE  next \in Row /\ next.sagaStatus = GetSagaStatus(AllStatus(next))
<1>1. PICK c \in {NoStep, 0, 1}, a \in StepStatus \union {NotRun}, b \in StepStatus \union {NotRun},
           w \in SagaStatus : row = RowWith(c, a, b, w)
  BY RowIs
<1>2. PICK p, q : p = (IF i = 0 THEN status ELSE a) /\ q = (IF i = 1 THEN status ELSE b)
  OBVIOUS
<1>3. status \in StepStatus
  BY DEF StatusOfAnswer, StepStatus
<1>4. p \in StepStatus \union {NotRun} /\ q \in StepStatus \union {NotRun}
  BY <1>2, <1>3
<1>5. PICK d \in {NoStep, 0, 1}, f \in StepStatus \union {NotRun}, g \in StepStatus \union {NotRun} :
        Becomes(row, i, status, d, f, g)
  <2>1. \/ Becomes(row, i, status, 1, p, "STARTED") \/ Becomes(row, i, status, NoStep, p, q)
        \/ Becomes(row, i, status, 0, "STARTED", q)
        \/ Becomes(row, i, status, 0, "COMPENSATING", q)
    BY <1>1, <1>2, AnsweredRow
  <2>2. "STARTED" \in StepStatus /\ "COMPENSATING" \in StepStatus
    BY DEF StepStatus
  <2> QED
    BY <1>4, <2>1, <2>2
<1>6. next = RowWith(d, f, g, GetSagaStatus({f, g} \ {NotRun}))
  BY <1>5 DEF Becomes
<1>7. GetSagaStatus({f, g} \ {NotRun}) \in SagaStatus
  BY StatusIsTyped
<1>8. next \in Row
  BY <1>6, <1>7, RowsAreTyped
<1>9. next.sagaStatus = GetSagaStatus({f, g} \ {NotRun}) /\ AllStatus(next) = {f, g} \ {NotRun}
  BY <1>6, RowFields
<1> QED
  BY <1>8, <1>9

-------------------------------------------------------------------------------
(***************************************************************************)
(* The versions tell the transactions apart, whatever is handled.          *)
(***************************************************************************)
LEMMA LockInitInv == Init => LockInv
<1> SUFFICES ASSUME Init PROVE LockInv
  OBVIOUS
<1> USE DEF Init, OrderInit
<1>1. TablesTyped
  BY DEF TablesTyped, NoOrder
<1>2. HeldAreDelivered /\ VersionsTellRowsApart
  BY DEF HeldAreDelivered, VersionsTellRowsApart, Idle
<1> QED
  BY <1>1, <1>2 DEF LockInv

LEMMA EventsAreOf ==
  ASSUME NEW s, NEW m
  PROVE  SagaEvent(s, m).saga = s
BY DEF SagaEvent, NewRequest

\* An answer is handled on the row as it is, by a thread or for a client.
Handles(e) ==
  /\ e.saga \in Sagas /\ e.step \in Step /\ sagaState[e.saga] # NoRow
  /\ OnAnswer(e, sagaState[e.saga])
  /\ DOMAIN attempt' = Threads
  /\ \A t \in Threads : attempt'[t] \in {attempt[t], Idle}

LEMMA HandledRow ==
  ASSUME TablesTyped, NEW e, Handles(e), NEW s, s = e.saga
  PROVE  /\ sagaState[s] \in Row /\ sagaState'[s] \in Row
         /\ ~ OnStepEventThrows(sagaState[s], ToStepStatus(e.status))
         /\ sagaState'[s] = OnStepEvent(sagaState[s], e.step, ToStepStatus(e.status)).row
         /\ sagaState'[s].sagaStatus = GetSagaStatus(AllStatus(sagaState'[s]))
         /\ purchaseOrder'[s] = OrderStatusOf(sagaState'[s].sagaStatus, purchaseOrder[s])
         /\ version'[s] = version[s] + 1
         /\ \A o \in Sagas : o # s => /\ sagaState'[o] = sagaState[o] /\ version'[o] = version[o]
                                      /\ purchaseOrder'[o] = purchaseOrder[o]
<1> DEFINE next == OnStepEvent(sagaState[s], e.step, ToStepStatus(e.status)).row
<1>1. /\ s \in Sagas /\ e.step \in Step /\ sagaState[s] \in Row
      /\ ~ OnStepEventThrows(sagaState[s], ToStepStatus(e.status))
  BY DEF TablesTyped, Handles, OnAnswer
<1>2. next \in Row /\ next.sagaStatus = GetSagaStatus(AllStatus(next))
  BY <1>1, AnswersHaveStatus, AnsweredRowIsRow
<1>3. /\ sagaState' = [sagaState EXCEPT ![s] = next]
      /\ version' = [version EXCEPT ![s] = @ + 1]
      /\ purchaseOrder' = [purchaseOrder EXCEPT ![s] = OrderStatusOf(next.sagaStatus, @)]
  BY DEF Handles, OnAnswer
<1> HIDE DEF next
<1>4. sagaState'[s] = next /\ \A o \in Sagas : o # s => sagaState'[o] = sagaState[o]
  BY <1>1, <1>3 DEF TablesTyped
<1>5. /\ version'[s] = version[s] + 1
      /\ \A o \in Sagas : o # s => version'[o] = version[o]
  BY <1>1, <1>3 DEF TablesTyped
<1>6. /\ purchaseOrder'[s] = OrderStatusOf(next.sagaStatus, purchaseOrder[s])
      /\ \A o \in Sagas : o # s => purchaseOrder'[o] = purchaseOrder[o]
  BY <1>1, <1>3 DEF TablesTyped
<1> QED
  BY <1>1, <1>2, <1>4, <1>5, <1>6 DEF next

LEMMA HandlingKeepsLock ==
  ASSUME LockInv, NEW e, Handles(e)
  PROVE  LockInv'
<1> DEFINE s == e.saga
<1>1. TablesTyped /\ s \in Sagas
  BY DEF LockInv, Handles
<1>2. /\ sagaState'[s] \in Row /\ version'[s] = version[s] + 1
      /\ purchaseOrder'[s] = OrderStatusOf(sagaState'[s].sagaStatus, purchaseOrder[s])
      /\ \A o \in Sagas : o # s => /\ sagaState'[o] = sagaState[o] /\ version'[o] = version[o]
                                   /\ purchaseOrder'[o] = purchaseOrder[o]
  BY <1>1, HandledRow
<1>3. responses' = responses /\ \A r \in requests' : r \in requests \/ r.saga = s
  BY EventsAreOf DEF Handles, OnAnswer, Fire
<1>4. \A t \in Threads : attempt'[t] \in {attempt[t], Idle}
  BY DEF Handles
<1>5. TablesTyped'
  <2>1. sagaState' \in [Sagas -> Row \union {NoRow}]
    <3>1. sagaState' = [sagaState EXCEPT ![s] = sagaState'[s]]
      BY <1>1 DEF Handles, OnAnswer, TablesTyped
    <3> QED
      BY <1>1, <1>2, <3>1 DEF TablesTyped
  <2>2. version' \in [Sagas -> Nat]
    BY <1>1 DEF Handles, OnAnswer, TablesTyped
  <2>3. purchaseOrder' \in [Sagas -> OrderStatus \union {NoOrder}]
    <3>1. purchaseOrder' = [purchaseOrder EXCEPT ![s] = purchaseOrder'[s]]
      BY <1>1 DEF Handles, OnAnswer, TablesTyped
    <3>2. purchaseOrder'[s] \in OrderStatus \union {NoOrder}
      BY <1>1, <1>2 DEF OrderStatusOf, OrderStatus, TablesTyped
    <3> QED
      BY <1>1, <3>1, <3>2 DEF TablesTyped
  <2> QED
    BY <1>1, <1>3, <2>1, <2>2, <2>3 DEF TablesTyped, Handles
<1>6. HeldAreDelivered'
  BY <1>3, <1>4 DEF LockInv, HeldAreDelivered, Idle
<1>7. VersionsTellRowsApart'
  <2> SUFFICES ASSUME NEW t \in Threads, attempt'[t].phase = "read",
                      NEW o, o = attempt'[t].event.saga
               PROVE  /\ attempt'[t].row \in Row /\ sagaState'[o] # NoRow
                      /\ attempt'[t].version \in 0 .. version'[o]
                      /\ attempt'[t].version = version'[o] => attempt'[t].row = sagaState'[o]
    BY DEF VersionsTellRowsApart
  <2>1. attempt'[t] = attempt[t]
    BY <1>4 DEF Idle
  <2>2. o \in Sagas /\ version[o] \in Nat
    BY <1>1, <2>1 DEF LockInv, HeldAreDelivered, TablesTyped
  <2>3. /\ attempt[t].row \in Row /\ sagaState[o] # NoRow
        /\ attempt[t].version \in 0 .. version[o]
        /\ attempt[t].version = version[o] => attempt[t].row = sagaState[o]
    BY <2>1 DEF LockInv, VersionsTellRowsApart
  <2>4. CASE o = s
    <3>1. sagaState'[o] # NoRow /\ version'[o] = version[o] + 1
      BY <1>2, <2>4, NoRowIsNone
    <3>2. attempt[t].version \in 0 .. version[o] + 1 /\ attempt[t].version # version[o] + 1
      BY <2>2, <2>3
    <3> QED
      BY <2>1, <2>3, <3>1, <3>2
  <2>5. CASE o # s
    BY <1>2, <2>1, <2>2, <2>3, <2>5
  <2> QED
    BY <2>4, <2>5
<1> QED
  BY <1>5, <1>6, <1>7 DEF LockInv

LEMMA BegunRow ==
  /\ Begin.row \in Row /\ Begin.row.sagaStatus = "STARTED"
  /\ Begin.row.stepStatus[CREDIT_APPROVAL] = "STARTED"
  /\ Begin.row.stepStatus[PAYMENT] = NotRun /\ Begin.row.currentStep = CREDIT_APPROVAL
  /\ GetSagaStatus(AllStatus(Begin.row)) = "STARTED"
<1>1. Begin.row \in Row
  BY BeginResult, RowsAreTyped DEF StepStatus, SagaStatus
<1>2. /\ Begin.row.sagaStatus = "STARTED" /\ Begin.row.currentStep = 0
      /\ AllStatus(Begin.row) = {"STARTED", NotRun} \ {NotRun}
  BY BeginResult, RowFields
<1>3. /\ Begin.row.stepStatus[0] = "STARTED" /\ Begin.row.stepStatus[1] = NotRun
  BY BeginResult DEF RowWith, Steps, Step, CREDIT_APPROVAL
<1>4. GetSagaStatus({"STARTED", NotRun} \ {NotRun}) = "STARTED"
  BY DEF GetSagaStatus, NotRun
<1> QED
  BY <1>1, <1>2, <1>3, <1>4 DEF CREDIT_APPROVAL, PAYMENT

LEMMA PlacingKeepsLock ==
  ASSUME LockInv, NEW s \in Sagas, PlaceOrder(s)
  PROVE  LockInv'
<1>1. /\ TablesTyped /\ sagaState[s] = NoRow /\ UNCHANGED <<responses, version, attempt>>
      /\ sagaState' = [sagaState EXCEPT ![s] = Begin.row]
      /\ purchaseOrder' = [purchaseOrder EXCEPT ![s] = "CREATED"]
  BY DEF LockInv, PlaceOrder
<1>2. \A r \in requests' : r \in requests \/ r.saga = s
  BY EventsAreOf DEF PlaceOrder, Fire
<1>3. TablesTyped'
  BY <1>1, <1>2, BegunRow DEF TablesTyped, OrderStatus
<1>4. HeldAreDelivered'
  BY <1>1 DEF LockInv, HeldAreDelivered
<1>5. VersionsTellRowsApart'
  <2> SUFFICES ASSUME NEW t \in Threads, attempt[t].phase = "read",
                      NEW o, o = attempt[t].event.saga
               PROVE  /\ attempt[t].row \in Row /\ sagaState'[o] # NoRow
                      /\ attempt[t].version \in 0 .. version[o]
                      /\ attempt[t].version = version[o] => attempt[t].row = sagaState'[o]
    BY <1>1 DEF VersionsTellRowsApart
  <2>1. /\ attempt[t].row \in Row /\ sagaState[o] # NoRow
        /\ attempt[t].version \in 0 .. version[o]
        /\ attempt[t].version = version[o] => attempt[t].row = sagaState[o]
    BY DEF LockInv, VersionsTellRowsApart
  <2>2. sagaState'[o] = sagaState[o]
    <3>1. o \in Sagas /\ o # s
      BY <1>1, <2>1 DEF LockInv, HeldAreDelivered, TablesTyped
    <3> QED
      BY <1>1, <3>1 DEF TablesTyped
  <2> QED
    BY <2>1, <2>2
<1> QED
  BY <1>3, <1>4, <1>5 DEF LockInv

\* What a thread does short of a commit: it holds what it held, nothing, or an answer
\* that is delivered, perhaps with the row as it is.
Holds(a) ==
  \/ a \in {Idle, Failed}
  \/ a.phase = "retry" /\ a.event \in responses
  \/ /\ a.phase = "read" /\ a.event \in responses
     /\ sagaState[a.event.saga] # NoRow
     /\ a.row = sagaState[a.event.saga] /\ a.version = version[a.event.saga]

ThreadMoves ==
  /\ UNCHANGED <<requests, responses, sagaState, version, purchaseOrder, consumed>>
  /\ DOMAIN attempt' = Threads
  /\ \A t \in Threads : attempt'[t] = attempt[t] \/ Holds(attempt'[t])

LEMMA MovingKeepsLock ==
  ASSUME LockInv, ThreadMoves
  PROVE  LockInv'
<1> USE DEF Idle, Failed
<1>1. TablesTyped'
  BY DEF LockInv, TablesTyped, ThreadMoves
<1>2. HeldAreDelivered'
  BY DEF LockInv, HeldAreDelivered, ThreadMoves, Holds
<1>3. VersionsTellRowsApart'
  <2> SUFFICES ASSUME NEW t \in Threads, attempt'[t].phase = "read",
                      NEW o, o = attempt'[t].event.saga
               PROVE  /\ attempt'[t].row \in Row /\ sagaState'[o] # NoRow
                      /\ attempt'[t].version \in 0 .. version'[o]
                      /\ attempt'[t].version = version'[o] => attempt'[t].row = sagaState'[o]
    BY DEF VersionsTellRowsApart
  <2>1. sagaState'[o] = sagaState[o] /\ version'[o] = version[o]
    BY DEF ThreadMoves
  <2>2. CASE attempt'[t] = attempt[t]
    BY <2>1, <2>2 DEF LockInv, VersionsTellRowsApart
  <2>3. CASE Holds(attempt'[t])
    <3>1. /\ o \in Sagas /\ sagaState[o] # NoRow
          /\ attempt'[t].row = sagaState[o] /\ attempt'[t].version = version[o]
      BY <2>3 DEF Holds, LockInv, TablesTyped
    <3>2. sagaState[o] \in Row /\ version[o] \in Nat
      BY <3>1 DEF LockInv, TablesTyped
    <3> QED
      BY <2>1, <3>1, <3>2
  <2> QED
    BY <2>2, <2>3 DEF ThreadMoves
<1> QED
  BY <1>1, <1>2, <1>3 DEF LockInv

\* A participant answers, and what its answers may be.
AnswerTyped(r) ==
  /\ r.saga \in Sagas
  /\ \/ r.step = CREDIT_APPROVAL /\ r.status \in CreditStatus
     \/ r.step = PAYMENT /\ r.status \in {"REQUESTED", "FAILED", "CANCELLED"}

Replies(r) ==
  /\ AnswerTyped(r)
  /\ responses' = responses \union {r}
  /\ UNCHANGED <<requests, orderVars>>

LEMMA ReplyKeepsLock ==
  ASSUME LockInv, NEW r, Replies(r)
  PROVE  LockInv'
<1>1. r.saga \in Sagas /\ r.step \in Step
  BY DEF Replies, AnswerTyped, Step, CREDIT_APPROVAL, PAYMENT
<1>2. /\ responses' = responses \union {r}
      /\ UNCHANGED <<requests, sagaState, version, purchaseOrder, attempt>>
  BY DEF Replies, orderVars
<1>3. TablesTyped'
  BY <1>1, <1>2 DEF LockInv, TablesTyped
<1>4. HeldAreDelivered'
  BY <1>2 DEF LockInv, HeldAreDelivered
<1>5. VersionsTellRowsApart'
  BY <1>2 DEF LockInv, VersionsTellRowsApart
<1> QED
  BY <1>3, <1>4, <1>5 DEF LockInv

LEMMA QuietKeepsLock ==
  ASSUME LockInv, UNCHANGED <<requests, responses, orderVars>>
  PROVE  LockInv'
BY DEF LockInv, TablesTyped, HeldAreDelivered, VersionsTellRowsApart, orderVars

\* The thread has read the row as it is, if it commits.
LEMMA CommitHandlesRow ==
  ASSUME LockInv, NEW t \in Threads, Commit(t), NEW e, e = attempt[t].event
  PROVE  Handles(e) /\ e \in responses \ consumed
<1>1. /\ attempt[t].phase = "read" /\ e \notin consumed /\ version[e.saga] = attempt[t].version
      /\ OnAnswer(e, attempt[t].row) /\ attempt' = [attempt EXCEPT ![t] = Idle]
  BY DEF Commit, Unchallenged
<1>2. e \in responses /\ e.saga \in Sagas /\ e.step \in Step
  BY <1>1 DEF LockInv, HeldAreDelivered, TablesTyped
<1>3. sagaState[e.saga] # NoRow /\ attempt[t].row = sagaState[e.saga]
  BY <1>1 DEF LockInv, VersionsTellRowsApart
<1>4. DOMAIN attempt' = Threads /\ \A u \in Threads : attempt'[u] \in {attempt[u], Idle}
  BY <1>1 DEF LockInv, TablesTyped
<1> QED
  BY <1>1, <1>2, <1>3, <1>4 DEF Handles

\* One thread comes to hold something new.
LEMMA OneThreadMoves ==
  ASSUME LockInv, NEW t \in Threads, NEW a, Holds(a), attempt' = [attempt EXCEPT ![t] = a],
         UNCHANGED <<requests, responses, sagaState, version, purchaseOrder, consumed>>
  PROVE  ThreadMoves
<1>1. DOMAIN attempt = Threads
  BY DEF LockInv, TablesTyped
<1>2. \A u \in Threads : attempt'[u] = IF u = t THEN a ELSE attempt[u]
  BY <1>1
<1>3. DOMAIN attempt' = Threads
  BY <1>1
<1> QED
  BY <1>2, <1>3 DEF ThreadMoves

LEMMA RollBackMoves ==
  ASSUME LockInv, NEW t \in Threads, attempt[t].phase = "read",
         NEW exhausted \in {Idle, Failed}, RollBack(t, exhausted)
  PROVE  ThreadMoves
<1> DEFINE again == [phase |-> "retry", event |-> attempt[t].event, tries |-> attempt[t].tries]
<1>1. attempt[t].event \in responses
  BY DEF LockInv, HeldAreDelivered
<1>2. Holds(again) /\ Holds(exhausted)
  BY <1>1 DEF Holds
<1>3. \/ attempt' = [attempt EXCEPT ![t] = again]
      \/ attempt' = [attempt EXCEPT ![t] = exhausted]
  BY DEF RollBack
<1>4. UNCHANGED <<requests, responses, sagaState, version, purchaseOrder, consumed>>
  BY DEF RollBack
<1> HIDE DEF again
<1> QED
  BY <1>2, <1>3, <1>4, OneThreadMoves

LEMMA ReadMoves ==
  ASSUME LockInv, NEW t \in Threads, Read(t)
  PROVE  ThreadMoves
<1> DEFINE e    == attempt[t].event
           read == [phase |-> "read", event |-> e, tries |-> attempt[t].tries + 1,
                    row |-> sagaState[e.saga], version |-> version[e.saga]]
<1>1. attempt[t].phase = "retry" /\ e \in responses
  BY DEF Read, LockInv, HeldAreDelivered
<1>2. UNCHANGED <<requests, responses, sagaState, version, purchaseOrder, consumed>>
  BY DEF Read
<1>3. CASE sagaState[e.saga] = NoRow \/ e \in consumed
  <2>1. attempt' = [attempt EXCEPT ![t] = Idle]
    BY <1>3 DEF Read
  <2> QED
    BY <1>2, <2>1, OneThreadMoves DEF Holds
<1>4. CASE ~ (sagaState[e.saga] = NoRow \/ e \in consumed)
  <2>1. attempt' = [attempt EXCEPT ![t] = read]
    BY <1>4 DEF Read
  <2>2. Holds(read)
    BY <1>1, <1>4 DEF Holds
  <2> HIDE DEF read
  <2> QED
    BY <1>2, <2>1, <2>2, OneThreadMoves
<1> QED
  BY <1>3, <1>4

LEMMA PollMoves ==
  ASSUME LockInv, NEW t \in Threads, NEW e \in responses, Poll(t, e)
  PROVE  ThreadMoves
<1> DEFINE held == [phase |-> "retry", event |-> e, tries |-> 0]
<1>1. Holds(held)
  BY DEF Holds
<1>2. /\ attempt' = [attempt EXCEPT ![t] = held]
      /\ UNCHANGED <<requests, responses, sagaState, version, purchaseOrder, consumed>>
  BY DEF Poll
<1> HIDE DEF held
<1> QED
  BY <1>1, <1>2, OneThreadMoves

LEMMA CreditEventReplies ==
  ASSUME LockInv, NEW e \in requests, OnCreditEvent(e), UNCHANGED orderVars
  PROVE  \/ \E r : Replies(r)
         \/ UNCHANGED <<requests, responses, orderVars>>
<1>1. e.saga \in Sagas
  BY DEF LockInv, TablesTyped
<1>2. ASSUME NEW status \in CreditStatus, AnswerCredit(e, status)
      PROVE  \E r : Replies(r)
  <2> DEFINE r == NewResponse(e.saga, CREDIT_APPROVAL, status)
  <2>1. AnswerTyped(r)
    BY <1>1 DEF AnswerTyped, NewResponse
  <2>2. Replies(r)
    BY <1>2, <2>1 DEF Replies, AnswerCredit
  <2> QED
    BY <2>2
<1>3. CASE FailCredit(e)
  BY <1>3 DEF FailCredit
<1> QED
  BY <1>2, <1>3 DEF OnCreditEvent, ApproveCredit, RejectCredit, CancelCredit, CreditStatus

LEMMA PaymentEventReplies ==
  ASSUME LockInv, NEW e \in requests, OnPaymentEvent(e), UNCHANGED orderVars
  PROVE  \E r : Replies(r)
<1> DEFINE r == NewResponse(e.saga, PAYMENT, PaymentAnswer(e))
<1>1. e.saga \in Sagas
  BY DEF LockInv, TablesTyped
<1>2. PaymentAnswer(e) \in {"REQUESTED", "FAILED", "CANCELLED"}
  BY DEF PaymentAnswer
<1>3. AnswerTyped(r)
  BY <1>1, <1>2 DEF AnswerTyped, NewResponse
<1>4. Replies(r)
  BY <1>3 DEF Replies, OnPaymentEvent
<1> QED
  BY <1>4

LEMMA OrderStepKinds ==
  ASSUME LockInv, OrderNext
  PROVE  \/ \E s \in Sagas : PlaceOrder(s)
         \/ \E e \in responses \ consumed : Handles(e)
         \/ ThreadMoves
<1>1. ASSUME NEW t \in Threads,
             \/ \E e \in responses : Poll(t, e)
             \/ Read(t) \/ Conflict(t) \/ Throw(t) \/ DatabaseError(t)
      PROVE  ThreadMoves
  BY <1>1, PollMoves, ReadMoves, RollBackMoves DEF Conflict, Throw, DatabaseError
<1>2. ASSUME NEW t \in Threads, Commit(t)
      PROVE  \E e \in responses \ consumed : Handles(e)
  BY <1>2, CommitHandlesRow
<1> QED
  BY <1>1, <1>2 DEF OrderNext

\* What a step of the system does, to the tables of the order service and the topics.
LEMMA StepKinds ==
  ASSUME LockInv, [Next]_vars
  PROVE  \/ \E s \in Sagas : PlaceOrder(s)
         \/ \E e \in responses \ consumed : Handles(e)
         \/ ThreadMoves
         \/ \E r : Replies(r)
         \/ UNCHANGED <<requests, responses, orderVars>>
<1>1. CASE OrderNext /\ UNCHANGED <<customerVars, paymentVars>>
  BY <1>1, OrderStepKinds
<1>2. CASE CustomerNext /\ UNCHANGED <<orderVars, paymentVars>>
  BY <1>2, CreditEventReplies DEF CustomerNext
<1>3. CASE PaymentNext /\ UNCHANGED <<orderVars, customerVars>>
  BY <1>3, PaymentEventReplies DEF PaymentNext, FailPayment
<1>4. CASE UNCHANGED vars
  BY <1>4 DEF vars
<1> QED
  BY <1>1, <1>2, <1>3, <1>4 DEF Next

LEMMA NextKeepsLock ==
  ASSUME LockInv, [Next]_vars
  PROVE  LockInv'
BY StepKinds, PlacingKeepsLock, HandlingKeepsLock, MovingKeepsLock, ReplyKeepsLock, QuietKeepsLock

-------------------------------------------------------------------------------
(***************************************************************************)
(* Answers that clients report.  A report is one more answer that is       *)
(* handled on the row as it is, at a time of its own.                      *)
(***************************************************************************)
LEMMA ReportHandles ==
  ASSUME LockInv, NEW s \in Sagas, NEW r \in Reportable, Report(s, r[1], r[2])
  PROVE  \E e : e \notin consumed /\ Handles(e)
<1> DEFINE e == [saga |-> s, step |-> r[1], status |-> r[2], nth |-> -reports]
<1>1. /\ sagaState[s] # NoRow /\ e \notin consumed /\ OnAnswer(e, sagaState[s])
      /\ attempt' = attempt
  BY DEF Report, ReportAnswer
<1>2. r[1] \in Step
  BY ReportsAssumption DEF Step, CREDIT_APPROVAL, PAYMENT
<1>3. e.saga = s /\ e.step = r[1]
  OBVIOUS
<1>4. DOMAIN attempt' = Threads /\ \A t \in Threads : attempt'[t] \in {attempt[t], Idle}
  BY <1>1 DEF LockInv, TablesTyped
<1> HIDE DEF e
<1>5. Handles(e)
  BY <1>1, <1>2, <1>3, <1>4 DEF Handles
<1> QED
  BY <1>1, <1>5

LEMMA ReportsStepKinds ==
  ASSUME LockInv, [ReportsNext]_reportVars
  PROVE  \/ \E s \in Sagas : PlaceOrder(s)
         \/ \E e : e \notin consumed /\ Handles(e)
         \/ ThreadMoves
         \/ \E r : Replies(r)
         \/ UNCHANGED <<requests, responses, orderVars>>
<1>1. CASE [Next]_vars
  BY <1>1, StepKinds
<1>2. CASE \E s \in Sagas, r \in Reportable : Report(s, r[1], r[2])
  BY <1>2, ReportHandles
<1> QED
  BY <1>1, <1>2 DEF ReportsNext, reportVars

LEMMA RowKeepsColumns ==
  ASSUME ColumnsAgree, UNCHANGED <<sagaState, purchaseOrder>>
  PROVE  ColumnsAgree'
BY DEF ColumnsAgree

LEMMA PlacingKeepsColumns ==
  ASSUME LockInv, ColumnsAgree, NEW s \in Sagas, PlaceOrder(s)
  PROVE  ColumnsAgree'
<1>1. /\ sagaState'[s] = Begin.row
      /\ \A o \in Sagas : o # s => sagaState'[o] = sagaState[o] /\ purchaseOrder'[o] = purchaseOrder[o]
  BY DEF PlaceOrder, LockInv, TablesTyped
<1>2. /\ sagaState'[s].sagaStatus = "STARTED"
      /\ GetSagaStatus(AllStatus(sagaState'[s])) = "STARTED"
  BY <1>1, BegunRow
<1> QED
  BY <1>1, <1>2 DEF ColumnsAgree

LEMMA HandlingKeepsColumns ==
  ASSUME LockInv, ColumnsAgree, NEW e, Handles(e)
  PROVE  ColumnsAgree'
<1> DEFINE s == e.saga
<1>1. /\ sagaState'[s].sagaStatus = GetSagaStatus(AllStatus(sagaState'[s]))
      /\ purchaseOrder'[s] = OrderStatusOf(sagaState'[s].sagaStatus, purchaseOrder[s])
      /\ \A o \in Sagas : o # s => sagaState'[o] = sagaState[o] /\ purchaseOrder'[o] = purchaseOrder[o]
  BY HandledRow DEF LockInv
<1>2. /\ sagaState'[s].sagaStatus = "COMPLETED" => purchaseOrder'[s] = "PROCESSING"
      /\ sagaState'[s].sagaStatus = "ABORTED"   => purchaseOrder'[s] = "CANCELLED"
  BY <1>1 DEF OrderStatusOf
<1> QED
  BY <1>1, <1>2 DEF ColumnsAgree

LEMMA ReportsStepInv ==
  ASSUME ReportsInv, [ReportsNext]_reportVars
  PROVE  ReportsInv'
<1>1. LockInv /\ ColumnsAgree
  BY DEF ReportsInv
<1>2. ASSUME NEW s \in Sagas, PlaceOrder(s) PROVE ReportsInv'
  BY <1>1, <1>2, PlacingKeepsLock, PlacingKeepsColumns DEF ReportsInv
<1>3. ASSUME NEW e, Handles(e) PROVE ReportsInv'
  BY <1>1, <1>3, HandlingKeepsLock, HandlingKeepsColumns DEF ReportsInv
<1>4. CASE ThreadMoves
  BY <1>1, <1>4, MovingKeepsLock, RowKeepsColumns DEF ReportsInv, ThreadMoves
<1>5. ASSUME NEW r, Replies(r) PROVE ReportsInv'
  BY <1>1, <1>5, ReplyKeepsLock, RowKeepsColumns DEF ReportsInv, Replies, orderVars
<1>6. CASE UNCHANGED <<requests, responses, orderVars>>
  BY <1>1, <1>6, QuietKeepsLock, RowKeepsColumns DEF ReportsInv, orderVars
<1> QED
  BY <1>1, <1>2, <1>3, <1>4, <1>5, <1>6, ReportsStepKinds

\* Whatever clients report, and when: the columns of a row belong together, and a
\* transaction that has read a row that was not written since has the row as it is.
THEOREM ReportsInvariant == ReportsSpec => []ReportsInv
<1>1. ReportsInit => ReportsInv
  <2> SUFFICES ASSUME ReportsInit PROVE ReportsInv
    OBVIOUS
  <2>1. LockInv
    BY LockInitInv DEF ReportsInit
  <2>2. ColumnsAgree
    BY DEF ReportsInit, Init, OrderInit, ColumnsAgree
  <2> QED
    BY <2>1, <2>2 DEF ReportsInv
<1>2. ReportsInv /\ [ReportsNext]_reportVars => ReportsInv'
  BY ReportsStepInv
<1> QED
  BY <1>1, <1>2, PTL DEF ReportsSpec

\* The columns of the SagaState row and the order's status agree after every commit,
\* although different calls of the handler write them.
THEOREM ReportsKeepColumns == ReportsSpec => []ColumnsAgree
BY ReportsInvariant, PTL DEF ReportsInv

\* The optimistic lock and the message log keep the transactions on a saga serial,
\* those of clients and those of consumer threads: a row only changes by one answer
\* that is new, handled on the row as it is.
THEOREM ReportsAreSerial == ReportsSpec => ChangesAreSerial
<1> DEFINE Serial == \A s \in Sagas :
      sagaState[s] # NoRow /\ sagaState'[s] # sagaState[s] =>
        \E e \in consumed' \ consumed :
          /\ e.saga = s
          /\ sagaState'[s] = OnStepEvent(sagaState[s], e.step, ToStepStatus(e.status)).row
<1>1. ReportsInv /\ [ReportsNext]_reportVars => [Serial]_vars
  <2> SUFFICES ASSUME ReportsInv, [ReportsNext]_reportVars PROVE Serial
    OBVIOUS
  <2>1. LockInv
    BY DEF ReportsInv
  <2>2. ASSUME NEW o \in Sagas, PlaceOrder(o) PROVE Serial
    BY <2>1, <2>2 DEF PlaceOrder, LockInv, TablesTyped
  <2>3. ASSUME NEW e, e \notin consumed, Handles(e) PROVE Serial
    <3>1. e \in consumed' \ consumed
      BY <2>3 DEF Handles, OnAnswer
    <3>2. /\ sagaState'[e.saga] = OnStepEvent(sagaState[e.saga], e.step, ToStepStatus(e.status)).row
          /\ \A o \in Sagas : o # e.saga => sagaState'[o] = sagaState[o]
      BY <2>1, <2>3, HandledRow DEF LockInv
    <3> QED
      BY <3>1, <3>2
  <2>4. CASE UNCHANGED sagaState
    BY <2>4
  <2> QED
    BY <2>1, <2>2, <2>3, <2>4, ReportsStepKinds DEF ThreadMoves, Replies, orderVars
<1> QED
  BY <1>1, ReportsInvariant, PTL DEF ReportsSpec, ChangesAreSerial

-------------------------------------------------------------------------------
(***************************************************************************)
(* Restarts.  A restarted participant answers again what it has answered,  *)
(* so that a saga may run a second time, on a row of any contents; but no  *)
(* step gets SUCCEEDED in a row without a participant having said so.      *)
(***************************************************************************)
LEMMA AnsweredRowIsVouchedFor ==
  ASSUME NEW s, NEW row \in Row, Vouched(s, row), NEW i \in Step, NEW status \in StatusOfAnswer,
         ~ OnStepEventThrows(row, status),
         i = CREDIT_APPROVAL /\ status = "SUCCEEDED" => Approved(s),
         i = PAYMENT /\ status = "SUCCEEDED" => Paid(s),
         NEW next, next = OnStepEvent(row, i, status).row
  PROVE  Vouched(s, next) /\ (next.sagaStatus = "COMPLETED" => Approved(s) /\ Paid(s))
<1>1. PICK c \in {NoStep, 0, 1}, a \in StepStatus \union {NotRun}, b \in StepStatus \union {NotRun},
           w \in SagaStatus : row = RowWith(c, a, b, w)
  BY RowIs
<1>2. PICK p, q : p = (IF i = 0 THEN status ELSE a) /\ q = (IF i = 1 THEN status ELSE b)
  OBVIOUS
<1>3. /\ i = 0 \/ i = 1
      /\ status \in {"SUCCEEDED", "FAILED", "COMPENSATED"}
      /\ NotRun = "NONE" /\ NoStep # 1
  BY DEF Step, StatusOfAnswer, NotRun, NoStep
<1>4. /\ p # NotRun /\ (p = "SUCCEEDED" => Approved(s))
      /\ q = "SUCCEEDED" => Paid(s)
      /\ c = 1 => q # NotRun
      /\ GoesBack(status) => {p, q} \cap {"FAILED", "COMPENSATED"} # {}
  <2>1. a = row.stepStatus[0] /\ b = row.stepStatus[1] /\ c = row.currentStep
    BY <1>1 DEF RowWith, Steps, Step, CREDIT_APPROVAL
  <2>2. /\ a # NotRun /\ (a = "SUCCEEDED" => Approved(s))
        /\ b = "SUCCEEDED" => Paid(s)
        /\ c = 1 => b # NotRun
    BY <2>1 DEF Vouched, CREDIT_APPROVAL, PAYMENT
  <2> QED
    BY <1>2, <1>3, <2>2 DEF CREDIT_APPROVAL, PAYMENT, GoesBack
<1>5. ASSUME NEW d \in {NoStep, 0, 1}, NEW f, NEW g, Becomes(row, i, status, d, f, g),
             f # NotRun, f = "SUCCEEDED" => Approved(s), g = "SUCCEEDED" => Paid(s),
             d = 1 => g # NotRun,
             \/ g # NotRun
             \/ {f, g} \cap {"STARTED", "COMPENSATING", "FAILED", "COMPENSATED"} # {}
      PROVE  Vouched(s, next) /\ (next.sagaStatus = "COMPLETED" => Approved(s) /\ Paid(s))
  <2>1. next = RowWith(d, f, g, GetSagaStatus({f, g} \ {NotRun}))
    BY <1>5 DEF Becomes
  <2>2. next.stepStatus[0] = f /\ next.stepStatus[1] = g
    BY <2>1 DEF RowWith, Steps, Step, CREDIT_APPROVAL
  <2>3. next.currentStep = d /\ next.sagaStatus = GetSagaStatus({f, g} \ {NotRun})
    BY <2>1, RowFields
  <2>4. Vouched(s, next)
    BY <1>5, <2>2, <2>3 DEF Vouched, CREDIT_APPROVAL, PAYMENT
  <2>5. next.sagaStatus = "COMPLETED" => f = "SUCCEEDED" /\ g = "SUCCEEDED"
    BY <1>3, <1>5, <2>3 DEF GetSagaStatus
  <2> QED
    BY <1>5, <2>4, <2>5
<1>6. \/ ~ GoesBack(status) /\ \/ Becomes(row, i, status, 1, p, "STARTED")
                               \/ c = 1 /\ Becomes(row, i, status, NoStep, p, q)
                               \/ Becomes(row, i, status, 0, "STARTED", q)
      \/ GoesBack(status) /\ \/ Becomes(row, i, status, NoStep, p, q)
                             \/ Becomes(row, i, status, 0, "COMPENSATING", q)
  <2>1. ~ OnStepEventThrows(RowWith(c, a, b, w), status)
    BY <1>1
  <2>2. \/ ~ GoesBack(status) /\ \/ c = 0 /\ Becomes(row, i, status, 1, p, "STARTED")
                                 \/ c = 1 /\ Becomes(row, i, status, NoStep, p, q)
                                 \/ c = NoStep /\ Becomes(row, i, status, 0, "STARTED", q)
        \/ GoesBack(status) /\ \/ c = 0 /\ Becomes(row, i, status, NoStep, p, q)
                               \/ c = 1 /\ Becomes(row, i, status, 0, "COMPENSATING", q)
    BY <1>1, <1>2, <2>1, AnsweredRow
  <2> QED
    BY <2>2
<1>7. CASE Becomes(row, i, status, 1, p, "STARTED")
  <2>1. "STARTED" # NotRun /\ "STARTED" # "SUCCEEDED"
    BY <1>3
  <2>2. 1 \in {NoStep, 0, 1}
    OBVIOUS
  <2>3. {p, "STARTED"} \cap {"STARTED", "COMPENSATING", "FAILED", "COMPENSATED"} # {}
    OBVIOUS
  <2> QED
    BY <1>4, <1>5, <1>7, <2>1, <2>2, <2>3
<1>8. CASE (c = 1 \/ GoesBack(status)) /\ Becomes(row, i, status, NoStep, p, q)
  <2>1. q # NotRun \/ {p, q} \cap {"STARTED", "COMPENSATING", "FAILED", "COMPENSATED"} # {}
    BY <1>4, <1>8
  <2> QED
    BY <1>3, <1>4, <1>5, <1>8, <2>1
<1>9. CASE Becomes(row, i, status, 0, "STARTED", q)
  <2>1. "STARTED" # NotRun /\ "STARTED" # "SUCCEEDED"
    BY <1>3
  <2>2. 0 \in {NoStep, 0, 1} /\ 0 # 1
    OBVIOUS
  <2>3. {"STARTED", q} \cap {"STARTED", "COMPENSATING", "FAILED", "COMPENSATED"} # {}
    OBVIOUS
  <2> QED
    BY <1>4, <1>5, <1>9, <2>1, <2>2, <2>3
<1>10. CASE Becomes(row, i, status, 0, "COMPENSATING", q)
  <2>1. "COMPENSATING" # NotRun /\ "COMPENSATING" # "SUCCEEDED"
    BY <1>3
  <2>2. 0 \in {NoStep, 0, 1} /\ 0 # 1
    OBVIOUS
  <2>3. {"COMPENSATING", q} \cap {"STARTED", "COMPENSATING", "FAILED", "COMPENSATED"} # {}
    OBVIOUS
  <2> QED
    BY <1>4, <1>5, <1>10, <2>1, <2>2, <2>3
<1> QED
  BY <1>6, <1>7, <1>8, <1>9, <1>10

LEMMA AnswersVouch ==
  ASSUME AnswersTyped, NEW e \in responses, ToStepStatus(e.status) = "SUCCEEDED"
  PROVE  /\ e.step = CREDIT_APPROVAL => Approved(e.saga)
         /\ e.step = PAYMENT => Paid(e.saga)
<1>1. /\ CREDIT_APPROVAL # PAYMENT
      /\ e.status \notin {"CANCELLED", "REJECTED", "FAILED"}
  BY DEF ToStepStatus, CREDIT_APPROVAL, PAYMENT
<1>2. /\ e.step = CREDIT_APPROVAL => e.status = "APPROVED"
      /\ e.step = PAYMENT => e.status = "REQUESTED"
  BY <1>1 DEF AnswersTyped, CreditStatus
<1> QED
  BY <1>2 DEF Approved, Paid, ResponsesOf

\* What has been said stays said.
LEMMA AnswersStay ==
  ASSUME NEW s, responses \subseteq responses'
  PROVE  /\ Approved(s) => Approved(s)'
         /\ Paid(s) => Paid(s)'
         /\ \A row : Vouched(s, row) => Vouched(s, row)'
<1>1. /\ Approved(s) => Approved(s)'
      /\ Paid(s) => Paid(s)'
  BY DEF Approved, Paid, ResponsesOf
<1> QED
  BY <1>1 DEF Vouched

\* The parts of RestartsInv that the rows and the answers make up.
Vouchers == AnswersTyped /\ RowsAreVouchedFor /\ LostAreEmpty /\ AcceptedOrdersArePaid

LEMMA PlacingKeepsVouchers ==
  ASSUME LockInv, Vouchers, NEW s \in Sagas, PlaceOrder(s)
  PROVE  Vouchers'
<1>1. /\ sagaState'[s] = Begin.row /\ purchaseOrder'[s] = "CREATED"
      /\ \A o \in Sagas : o # s => sagaState'[o] = sagaState[o] /\ purchaseOrder'[o] = purchaseOrder[o]
      /\ responses' = responses /\ version' = version
  BY DEF PlaceOrder, LockInv, TablesTyped
<1>2. Begin.row # NoRow
  BY BegunRow, NoRowIsNone
<1>3. Vouched(s, Begin.row)
  BY BegunRow DEF Vouched, NotRun, CREDIT_APPROVAL, PAYMENT
<1>4. \A o \in Sagas : /\ Approved(o) => Approved(o)'
                       /\ Paid(o) => Paid(o)'
                       /\ \A row : Vouched(o, row) => Vouched(o, row)'
  BY <1>1, AnswersStay
<1>5. AnswersTyped' /\ LostAreEmpty'
  BY <1>1, <1>2 DEF Vouchers, AnswersTyped, LostAreEmpty
<1>6. RowsAreVouchedFor'
  <2> SUFFICES ASSUME NEW o \in Sagas, sagaState'[o] # NoRow
               PROVE  Vouched(o, sagaState[o])'
    BY DEF RowsAreVouchedFor
  <2>1. CASE o = s
    <3>1. Vouched(o, Begin.row)'
      BY <1>3, <1>4, <2>1
    <3> QED
      BY <1>1, <2>1, <3>1 DEF Vouched
  <2>2. CASE o # s
    <3>1. Vouched(o, sagaState[o])
      BY <1>1, <2>2 DEF Vouchers, RowsAreVouchedFor
    <3> QED
      BY <1>1, <1>4, <2>2, <3>1 DEF Vouched
  <2> QED
    BY <2>1, <2>2
<1>7. AcceptedOrdersArePaid'
  BY <1>1, <1>4 DEF Vouchers, AcceptedOrdersArePaid
<1> QED
  BY <1>5, <1>6, <1>7 DEF Vouchers

LEMMA HandlingKeepsVouchers ==
  ASSUME LockInv, Vouchers, NEW e \in responses, Handles(e)
  PROVE  Vouchers'
<1> DEFINE s == e.saga
<1>1. /\ s \in Sagas /\ e.step \in Step /\ responses' = responses
      /\ sagaState[s] # NoRow
  BY DEF Handles, OnAnswer
<1>2. /\ sagaState[s] \in Row /\ sagaState'[s] \in Row
      /\ ~ OnStepEventThrows(sagaState[s], ToStepStatus(e.status))
      /\ sagaState'[s] = OnStepEvent(sagaState[s], e.step, ToStepStatus(e.status)).row
      /\ purchaseOrder'[s] = OrderStatusOf(sagaState'[s].sagaStatus, purchaseOrder[s])
      /\ \A o \in Sagas : o # s => /\ sagaState'[o] = sagaState[o] /\ version'[o] = version[o]
                                   /\ purchaseOrder'[o] = purchaseOrder[o]
  BY HandledRow DEF LockInv
<1>3. \A o \in Sagas : /\ Approved(o) => Approved(o)'
                       /\ Paid(o) => Paid(o)'
                       /\ \A row : Vouched(o, row) => Vouched(o, row)'
  BY <1>1, AnswersStay
<1>4. /\ Vouched(s, sagaState'[s])
      /\ sagaState'[s].sagaStatus = "COMPLETED" => Approved(s) /\ Paid(s)
  <2>1. Vouched(s, sagaState[s])
    BY <1>1 DEF Vouchers, RowsAreVouchedFor
  <2>2. /\ e.step = CREDIT_APPROVAL /\ ToStepStatus(e.status) = "SUCCEEDED" => Approved(s)
        /\ e.step = PAYMENT /\ ToStepStatus(e.status) = "SUCCEEDED" => Paid(s)
    BY AnswersVouch DEF Vouchers
  <2>3. ToStepStatus(e.status) \in StatusOfAnswer
    BY AnswersHaveStatus
  <2> HIDE DEF s
  <2> QED
    BY <1>1, <1>2, <2>1, <2>2, <2>3, AnsweredRowIsVouchedFor
<1>5. AnswersTyped'
  BY <1>1 DEF Vouchers, AnswersTyped
<1>6. LostAreEmpty'
  BY <1>2, NoRowIsNone DEF Vouchers, LostAreEmpty
<1>7. RowsAreVouchedFor'
  <2> SUFFICES ASSUME NEW o \in Sagas, sagaState'[o] # NoRow
               PROVE  Vouched(o, sagaState[o])'
    BY DEF RowsAreVouchedFor
  <2>1. Vouched(o, sagaState'[o])
    BY <1>2, <1>4 DEF Vouchers, RowsAreVouchedFor
  <2> QED
    BY <1>3, <2>1 DEF Vouched
<1>8. AcceptedOrdersArePaid'
  <2> SUFFICES ASSUME NEW o \in Sagas, purchaseOrder'[o] = "PROCESSING"
               PROVE  Approved(o) /\ Paid(o)
    BY <1>3 DEF AcceptedOrdersArePaid
  <2>1. CASE purchaseOrder[o] = "PROCESSING"
    BY <2>1 DEF Vouchers, AcceptedOrdersArePaid
  <2>2. CASE purchaseOrder[o] # "PROCESSING"
    <3>1. o = s /\ sagaState'[s].sagaStatus = "COMPLETED"
      BY <1>2, <2>2 DEF OrderStatusOf
    <3> QED
      BY <1>4, <3>1
  <2> QED
    BY <2>1, <2>2
<1> QED
  BY <1>5, <1>6, <1>7, <1>8 DEF Vouchers

LEMMA AnsweringKeepsVouchers ==
  ASSUME Vouchers, responses \subseteq responses', AnswersTyped',
         UNCHANGED <<sagaState, version, purchaseOrder>>
  PROVE  Vouchers'
<1>1. \A o \in Sagas : /\ Approved(o) => Approved(o)'
                       /\ Paid(o) => Paid(o)'
                       /\ \A row : Vouched(o, row) => Vouched(o, row)'
  BY AnswersStay
<1>2. LostAreEmpty'
  BY DEF Vouchers, LostAreEmpty
<1>3. RowsAreVouchedFor'
  <2> SUFFICES ASSUME NEW o \in Sagas, sagaState[o] # NoRow
               PROVE  Vouched(o, sagaState[o])'
    BY DEF RowsAreVouchedFor
  <2>1. Vouched(o, sagaState[o])
    BY DEF Vouchers, RowsAreVouchedFor
  <2> QED
    BY <1>1, <2>1 DEF Vouched
<1>4. AcceptedOrdersArePaid'
  BY <1>1 DEF Vouchers, AcceptedOrdersArePaid
<1> QED
  BY <1>2, <1>3, <1>4 DEF Vouchers

LEMMA RestartsStepKinds ==
  ASSUME LockInv, [RestartsNext]_restartVars
  PROVE  \/ \E s \in Sagas : PlaceOrder(s)
         \/ \E e \in responses \ consumed : Handles(e)
         \/ ThreadMoves
         \/ \E r : Replies(r)
         \/ UNCHANGED <<requests, responses, orderVars>>
         \/ RestartOrderService
<1>1. CASE [Next]_vars
  BY <1>1, StepKinds
<1>2. ASSUME NEW service \in Restartable, Restart(service)
      PROVE  UNCHANGED <<requests, responses, orderVars>> \/ RestartOrderService
  BY <1>2 DEF Restart, RestartCustomerService, RestartPaymentService
<1> QED
  BY <1>1, <1>2 DEF RestartsNext, restartVars

LEMMA RestartKeepsInv ==
  ASSUME LockInv, Vouchers, RestartOrderService
  PROVE  LockInv' /\ Vouchers'
<1>1. /\ sagaState' = [s \in Sagas |-> NoRow] /\ version' = [s \in Sagas |-> 0]
      /\ purchaseOrder' = [s \in Sagas |-> NoOrder] /\ attempt' = [t \in Threads |-> Idle]
      /\ UNCHANGED <<requests, responses>>
  BY DEF RestartOrderService
<1>2. TablesTyped'
  BY <1>1 DEF LockInv, TablesTyped
<1>3. HeldAreDelivered' /\ VersionsTellRowsApart'
  BY <1>1 DEF HeldAreDelivered, VersionsTellRowsApart, Idle
<1>4. AnswersTyped' /\ RowsAreVouchedFor' /\ LostAreEmpty' /\ AcceptedOrdersArePaid'
  BY <1>1 DEF Vouchers, AnswersTyped, RowsAreVouchedFor, LostAreEmpty, AcceptedOrdersArePaid,
              NoOrder
<1> QED
  BY <1>2, <1>3, <1>4 DEF LockInv, Vouchers

LEMMA RestartsStepInv ==
  ASSUME RestartsInv, [RestartsNext]_restartVars
  PROVE  RestartsInv'
<1>1. /\ LockInv /\ Vouchers
      /\ LockInv' /\ Vouchers' => RestartsInv'
  BY DEF RestartsInv, Vouchers
<1>2. ASSUME NEW s \in Sagas, PlaceOrder(s) PROVE RestartsInv'
  BY <1>1, <1>2, PlacingKeepsLock, PlacingKeepsVouchers
<1>3. ASSUME NEW e \in responses, Handles(e) PROVE RestartsInv'
  BY <1>1, <1>3, HandlingKeepsLock, HandlingKeepsVouchers
<1>4. CASE ThreadMoves
  <2>1. UNCHANGED <<responses, sagaState, version, purchaseOrder>>
    BY <1>4 DEF ThreadMoves
  <2>2. AnswersTyped'
    BY <1>1, <2>1 DEF Vouchers, AnswersTyped
  <2> QED
    BY <1>1, <1>4, <2>1, <2>2, MovingKeepsLock, AnsweringKeepsVouchers
<1>5. ASSUME NEW r, Replies(r) PROVE RestartsInv'
  <2>1. UNCHANGED <<sagaState, version, purchaseOrder>> /\ responses \subseteq responses'
    BY <1>5 DEF Replies, orderVars
  <2>2. AnswersTyped'
    BY <1>1, <1>5 DEF Vouchers, AnswersTyped, Replies, AnswerTyped
  <2> QED
    BY <1>1, <1>5, <2>1, <2>2, ReplyKeepsLock, AnsweringKeepsVouchers
<1>6. CASE UNCHANGED <<requests, responses, orderVars>>
  <2>1. UNCHANGED <<responses, sagaState, version, purchaseOrder>>
    BY <1>6 DEF orderVars
  <2>2. AnswersTyped'
    BY <1>1, <2>1 DEF Vouchers, AnswersTyped
  <2> QED
    BY <1>1, <1>6, <2>1, <2>2, QuietKeepsLock, AnsweringKeepsVouchers
<1>7. CASE RestartOrderService
  BY <1>1, <1>7, RestartKeepsInv
<1> QED
  BY <1>1, <1>2, <1>3, <1>4, <1>5, <1>6, <1>7, RestartsStepKinds

\* Whichever services restart, and when: every step that is SUCCEEDED in a row has an
\* answer that says so, and a row that is lost has left no order behind.
THEOREM RestartsInvariant == RestartsSafety => []RestartsInv
<1>1. RestartsInit => RestartsInv
  <2> SUFFICES ASSUME RestartsInit PROVE RestartsInv
    OBVIOUS
  <2>1. LockInv
    BY LockInitInv DEF RestartsInit
  <2>2. AnswersTyped /\ RowsAreVouchedFor /\ LostAreEmpty /\ AcceptedOrdersArePaid
    BY DEF RestartsInit, Init, OrderInit, AnswersTyped, RowsAreVouchedFor, LostAreEmpty,
           AcceptedOrdersArePaid, NoOrder
  <2> QED
    BY <2>1, <2>2 DEF RestartsInv
<1>2. RestartsInv /\ [RestartsNext]_restartVars => RestartsInv'
  BY RestartsStepInv
<1> QED
  BY <1>1, <1>2, PTL DEF RestartsSafety

\* Although restarted services handle requests again and run sagas a second time, no
\* order is accepted without its credit having been approved and its payment requested.
THEOREM AcceptedStayPaid == RestartsSafety => []AcceptedOrdersArePaid
BY RestartsInvariant, PTL DEF RestartsInv

\* The answers to a saga whose row a restart of the order service has dropped are all
\* ignored: nothing of the order comes back.
THEOREM LostStayLost == RestartsSafety => LostSagasStayLost
<1> DEFINE StayLost == \A s \in Sagas :
      (sagaState[s] = NoRow /\ \E r \in requests : r.saga = s) =>
        sagaState'[s] = NoRow /\ purchaseOrder'[s] = NoOrder /\ version'[s] = 0
<1>1. RestartsInv /\ [RestartsNext]_restartVars => [StayLost]_restartVars
  <2> SUFFICES ASSUME RestartsInv, [RestartsNext]_restartVars,
                      NEW s \in Sagas, sagaState[s] = NoRow, \E r \in requests : r.saga = s
               PROVE  sagaState'[s] = NoRow /\ purchaseOrder'[s] = NoOrder /\ version'[s] = 0
    OBVIOUS
  <2>1. LockInv /\ purchaseOrder[s] = NoOrder /\ version[s] = 0
    BY DEF RestartsInv, LostAreEmpty
  <2>2. ASSUME NEW o \in Sagas, PlaceOrder(o)
        PROVE  UNCHANGED <<sagaState[s], purchaseOrder[s], version[s]>>
    <3>1. o # s
      BY <2>2 DEF PlaceOrder
    <3> QED
      BY <2>1, <2>2, <3>1 DEF PlaceOrder, LockInv, TablesTyped
  <2>3. ASSUME NEW e, Handles(e)
        PROVE  UNCHANGED <<sagaState[s], purchaseOrder[s], version[s]>>
    <3>1. e.saga # s
      BY <2>3 DEF Handles
    <3> QED
      BY <2>1, <2>3, <3>1, HandledRow DEF LockInv
  <2>4. CASE UNCHANGED <<sagaState, purchaseOrder, version>>
    BY <2>1, <2>4
  <2>5. CASE RestartOrderService
    BY <2>5 DEF RestartOrderService
  <2> QED
    BY <2>1, <2>2, <2>3, <2>4, <2>5, RestartsStepKinds DEF ThreadMoves, Replies, orderVars
<1> QED
  BY <1>1, RestartsInvariant, PTL DEF RestartsSafety, LostSagasStayLost

-------------------------------------------------------------------------------
(***************************************************************************)
(* Restarts of the payment service alone: every saga stays at one of the   *)
(* points of RerunsInv.                                                    *)
(***************************************************************************)
LEMMA MovesFire ==
  ASSUME NEW row
  PROVE  /\ \E r, f : GoBack(row) = [row |-> r, fired |-> f] /\ \A n \in f : n.type = "CANCEL"
         /\ \E r, f : Advance(row) = [row |-> r, fired |-> f] /\ \A n \in f : n.type = "REQUEST"
<1>1. ASSUME NEW r, NEW f, NEW x PROVE \A n \in {[step |-> f, type |-> x]} : n.type = x
  OBVIOUS
<1>2. \A n \in {} : n.type = "CANCEL" /\ n.type = "REQUEST"
  OBVIOUS
<1>3. \/ \E r : GoBack(row) = [row |-> r, fired |-> {}]
      \/ \E r, i : GoBack(row) = [row |-> r, fired |-> {[step |-> i, type |-> "CANCEL"]}]
  BY Zenon DEF GoBack
<1>4. \/ \E r : Advance(row) = [row |-> r, fired |-> {}]
      \/ \E r, i : Advance(row) = [row |-> r, fired |-> {[step |-> i, type |-> "REQUEST"]}]
  BY Zenon DEF Advance
<1> QED
  BY <1>1, <1>2, <1>3, <1>4

LEMMA AnswerFires ==
  ASSUME NEW row, NEW i, NEW status, NEW m \in OnStepEvent(row, i, status).fired
  PROVE  m.type \in {"REQUEST", "CANCEL"} /\ (~ GoesBack(status) => m.type = "REQUEST")
<1> DEFINE put   == PutIn(row, i, status)
           moved == MovedRow(put, status)
           final == GetSagaStatus(AllStatus(moved.row))
<1>1. OnStepEvent(row, i, status) = [moved EXCEPT !.row.sagaStatus = final]
  BY Zenon DEF OnStepEvent, PutIn, MovedRow
<1> HIDE DEF put, final
<1>2. ASSUME NEW r, NEW f, moved = [row |-> r, fired |-> f]
      PROVE  OnStepEvent(row, i, status).fired = f
  <2> HIDE DEF moved
  <2> QED
    BY <1>1, <1>2
<1>3. CASE GoesBack(status)
  <2>1. moved = GoBack(put)
    BY <1>3 DEF MovedRow
  <2>2. \E r, f : moved = [row |-> r, fired |-> f] /\ \A n \in f : n.type = "CANCEL"
    BY <2>1, MovesFire
  <2> HIDE DEF moved
  <2> QED
    BY <1>2, <1>3, <2>2
<1>4. CASE ~ GoesBack(status)
  <2>1. moved = Advance(put)
    BY <1>4 DEF MovedRow
  <2>2. \E r, f : moved = [row |-> r, fired |-> f] /\ \A n \in f : n.type = "REQUEST"
    BY <2>1, MovesFire
  <2> HIDE DEF moved
  <2> QED
    BY <1>2, <1>4, <2>2
<1> QED
  BY <1>3, <1>4

LEMMA EventOf ==
  ASSUME NEW s, NEW m
  PROVE  /\ SagaEvent(s, m).saga = s /\ SagaEvent(s, m).type = m.type
         /\ SagaEvent(s, m).step = IF m.type = "CANCEL" THEN CREDIT_APPROVAL ELSE m.step
BY DEF SagaEvent, NewRequest

LEMMA FiredAreAsked ==
  ASSUME NEW s, NEW fired, Fire(s, fired)
  PROVE  /\ \A q \in Asked(s)' : q \in Asked(s) \/ \E m \in fired : q = SagaEvent(s, m)
         /\ \A o : o # s => Asked(o)' = Asked(o)
         /\ fired = {} => Asked(s)' = Asked(s)
BY EventOf DEF Fire, Asked

\* The saga of a good card stays one, whatever is said about its credit.
LEMMA GoodRowGoesOn ==
  ASSUME NEW row \in Row, row.stepStatus[1] \in {"STARTED", "SUCCEEDED"}, NEW i \in Step,
         NEW status \in StatusOfAnswer, ~ OnStepEventThrows(row, status),
         i = 1 => status = "SUCCEEDED", NEW next, next = OnStepEvent(row, i, status).row
  PROVE  /\ next.stepStatus[1] \in {"STARTED", "SUCCEEDED"} /\ next.sagaStatus # "ABORTED"
         /\ status = "SUCCEEDED" => next.stepStatus[0] \in {"STARTED", "SUCCEEDED", row.stepStatus[0]}
<1>1. PICK c \in {NoStep, 0, 1}, a \in StepStatus \union {NotRun}, b \in StepStatus \union {NotRun},
           w \in SagaStatus : row = RowWith(c, a, b, w)
  BY RowIs
<1>2. PICK p, q : p = (IF i = 0 THEN status ELSE a) /\ q = (IF i = 1 THEN status ELSE b)
  OBVIOUS
<1>3. a = row.stepStatus[0] /\ b = row.stepStatus[1]
  BY <1>1 DEF RowWith, Steps, Step, CREDIT_APPROVAL
<1>4. q \in {"STARTED", "SUCCEEDED"} /\ (status = "SUCCEEDED" => p \in {"SUCCEEDED", a})
  BY <1>2, <1>3
<1>5. ASSUME NEW d, NEW f, NEW g \in {"STARTED", "SUCCEEDED"}, Becomes(row, i, status, d, f, g),
             status = "SUCCEEDED" => f \in {"STARTED", "SUCCEEDED", a}
      PROVE  /\ next.stepStatus[1] \in {"STARTED", "SUCCEEDED"} /\ next.sagaStatus # "ABORTED"
             /\ status = "SUCCEEDED" => next.stepStatus[0] \in {"STARTED", "SUCCEEDED", a}
  <2>1. next = RowWith(d, f, g, GetSagaStatus({f, g} \ {NotRun}))
    BY <1>5 DEF Becomes
  <2>2. next.stepStatus[0] = f /\ next.stepStatus[1] = g
    BY <2>1 DEF RowWith, Steps, Step, CREDIT_APPROVAL
  <2>3. next.sagaStatus = GetSagaStatus({f, g} \ {NotRun})
    BY <2>1, RowFields
  <2>4. g \in {f, g} \ {NotRun} /\ g \notin {"FAILED", "COMPENSATED"}
    BY DEF NotRun
  <2>5. next.sagaStatus # "ABORTED"
    BY <2>3, <2>4 DEF GetSagaStatus
  <2> QED
    BY <1>5, <2>2, <2>5
<1>6. ~ OnStepEventThrows(RowWith(c, a, b, w), status)
  BY <1>1
<1>7. \/ ~ GoesBack(status) /\ \/ c = 0 /\ Becomes(row, i, status, 1, p, "STARTED")
                               \/ c = 1 /\ Becomes(row, i, status, NoStep, p, q)
                               \/ c = NoStep /\ Becomes(row, i, status, 0, "STARTED", q)
      \/ GoesBack(status) /\ \/ c = 0 /\ Becomes(row, i, status, NoStep, p, q)
                             \/ c = 1 /\ Becomes(row, i, status, 0, "COMPENSATING", q)
  BY <1>1, <1>2, <1>6, AnsweredRow
<1>8. CASE Becomes(row, i, status, 1, p, "STARTED")
  BY <1>3, <1>4, <1>5, <1>8
<1>9. CASE Becomes(row, i, status, NoStep, p, q)
  BY <1>3, <1>4, <1>5, <1>9
<1>10. CASE Becomes(row, i, status, 0, "STARTED", q)
  BY <1>3, <1>4, <1>5, <1>10
<1>11. CASE GoesBack(status) /\ Becomes(row, i, status, 0, "COMPENSATING", q)
  <2>1. status # "SUCCEEDED"
    BY <1>11 DEF GoesBack
  <2> QED
    BY <1>3, <1>4, <1>5, <1>11, <2>1
<1> QED
  BY <1>7, <1>8, <1>9, <1>10, <1>11

\* The payment is declined a second time, before the credit is given back.
LEMMA DeclinedAgainResult ==
  LET row  == RowWith(0, "COMPENSATING", "FAILED", "ABORTING")
      next == OnStepEvent(row, 1, "FAILED")
  IN  /\ next.row = RowWith(NoStep, "COMPENSATING", "FAILED", "ABORTING")
      /\ next.fired = {}
<1> DEFINE row == RowWith(0, "COMPENSATING", "FAILED", "ABORTING")
<1>1. PutIn(row, 1, "FAILED") = RowWith(0, "COMPENSATING", "FAILED", "ABORTING")
  BY PutStep
<1>2. GoesBack("FAILED")
  BY DEF GoesBack
<1>3. MovesTo(row, 1, "FAILED", NoStep, "COMPENSATING", "FAILED", "ABORTING", {})
  BY <1>1, <1>2, Moves DEF MovesTo, MovedRow
<1>4. GetSagaStatus({"COMPENSATING", "FAILED"} \ {NotRun}) = "ABORTING"
  BY DEF GetSagaStatus, NotRun
<1> HIDE DEF row
<1> QED
  BY <1>3, <1>4, OnStepEventOfRow DEF row

SagaPoint(s) ==
  IsUnknown(s) \/ AsksForCredit(s) \/ IsTurnedDown(s) \/ GoesOn(s) \/ GoesBackFrom(s)

\* What is known of a saga depends on its row, its order, and what has been asked and
\* answered; what has been logged stays logged.
LEMMA PointStays ==
  ASSUME NEW s, SagaPoint(s), sagaState'[s] = sagaState[s], purchaseOrder'[s] = purchaseOrder[s],
         Asked(s)' = Asked(s), Answered(s)' = Answered(s),
         consumed \subseteq consumed', creditLog \subseteq creditLog'
  PROVE  SagaPoint(s)'
<1>1. /\ Approved(s)' <=> Approved(s)
      /\ Released(s)' <=> Released(s)
  <2>1. \A r : r \in responses' /\ r.saga = s <=> r \in responses /\ r.saga = s
    BY DEF Answered
  <2> QED
    BY <2>1 DEF Approved, Released, ResponsesOf
<1>2. /\ \A q \in requests : Asked(s) = {q} => q \in requests'
      /\ \A a \in responses : Answered(s) = {a} => a \in responses'
  BY DEF Asked, Answered
<1>3. CASE IsUnknown(s)
  BY <1>3 DEF SagaPoint, IsUnknown, At
<1>4. CASE AsksForCredit(s)
  <2>1. PICK q \in requests :
          /\ Asked(s) = {q} /\ q.step = CREDIT_APPROVAL /\ q.type = "REQUEST"
          /\ \/ Answered(s) = {}
             \/ /\ q \in creditLog
                /\ \E a \in responses :
                     /\ Answered(s) = {a} /\ a.step = CREDIT_APPROVAL
                     /\ a.status \in {"APPROVED", "REJECTED"}
    BY <1>4 DEF AsksForCredit
  <2>2. /\ q \in requests' /\ Asked(s)' = {q}
        /\ \/ Answered(s)' = {}
           \/ /\ q \in creditLog'
              /\ \E a \in responses' :
                   /\ Answered(s)' = {a} /\ a.step = CREDIT_APPROVAL
                   /\ a.status \in {"APPROVED", "REJECTED"}
    BY <1>2, <2>1
  <2>3. AsksForCredit(s)'
    BY <1>4, <2>1, <2>2 DEF AsksForCredit, At
  <2> QED
    BY <2>3 DEF SagaPoint
<1>5. CASE IsTurnedDown(s)
  BY <1>5 DEF SagaPoint, IsTurnedDown, At
<1>6. CASE GoesOn(s)
  BY <1>1, <1>6 DEF SagaPoint, GoesOn
<1>7. CASE GoesBackFrom(s)
  <2>1. GoesBackFrom(s)'
    BY <1>1, <1>7 DEF GoesBackFrom, At
  <2> QED
    BY <2>1 DEF SagaPoint
<1> QED
  BY <1>3, <1>4, <1>5, <1>6, <1>7 DEF SagaPoint

\* The answers of a participant, to one saga.
Says(s, r) ==
  /\ r.saga = s /\ responses' = responses \union {r}
  /\ UNCHANGED <<requests, sagaState, purchaseOrder, consumed>>
  /\ creditLog \subseteq creditLog'

LEMMA SaidIsAnswered ==
  ASSUME NEW s, NEW r, Says(s, r)
  PROVE  /\ \A o : Asked(o)' = Asked(o)
         /\ Answered(s)' = Answered(s) \union {r}
         /\ \A o : o # s => Answered(o)' = Answered(o)
         /\ Approved(s) => Approved(s)'
         /\ Released(s) => Released(s)'
         /\ Released(s)' => Released(s) \/ (r.step = CREDIT_APPROVAL /\ r.status = "CANCELLED")
<1>1. responses' = responses \union {r} /\ requests' = requests /\ r.saga = s
  BY DEF Says
<1>2. \A o : Asked(o)' = Asked(o)
  BY <1>1 DEF Asked
<1>3. /\ Answered(s)' = Answered(s) \union {r}
      /\ \A o : o # s => Answered(o)' = Answered(o)
  BY <1>1 DEF Answered
<1>4. /\ Approved(s) => Approved(s)'
      /\ Released(s) => Released(s)'
      /\ Released(s)' => Released(s) \/ (r.step = CREDIT_APPROVAL /\ r.status = "CANCELLED")
  BY <1>1 DEF Approved, Released, ResponsesOf
<1> QED
  BY <1>2, <1>3, <1>4

\* What the customer service and the payment service say.
AnswersCredit(e, r) ==
  /\ e \in requests \ creditLog /\ e.step = CREDIT_APPROVAL
  /\ Says(e.saga, r) /\ r.step = CREDIT_APPROVAL
  /\ \/ e.type = "REQUEST" /\ r.status \in {"APPROVED", "REJECTED"}
     \/ e.type = "CANCEL" /\ r.status = "CANCELLED"
  /\ creditLog' = creditLog \union {e}

AnswersPayment(e, r) ==
  /\ e \in requests /\ e.step = PAYMENT
  /\ Says(e.saga, r) /\ r.step = PAYMENT /\ r.status = PaymentAnswer(e)
  /\ creditLog' = creditLog

LEMMA CreditAnswerKeepsPoint ==
  ASSUME NEW e, NEW r, AnswersCredit(e, r), NEW s, s = e.saga, SagaPoint(s)
  PROVE  SagaPoint(s)'
<1>1. /\ Asked(s)' = Asked(s) /\ Answered(s)' = Answered(s) \union {r}
      /\ Approved(s) => Approved(s)'
      /\ Released(s) => Released(s)'
  BY SaidIsAnswered DEF AnswersCredit
<1>2. /\ e \in Asked(s) /\ e \notin creditLog /\ e.step = CREDIT_APPROVAL
      /\ r.step = CREDIT_APPROVAL
      /\ \/ e.type = "REQUEST" /\ r.status \in {"APPROVED", "REJECTED"}
         \/ e.type = "CANCEL" /\ r.status = "CANCELLED"
      /\ UNCHANGED <<requests, sagaState, purchaseOrder, consumed>>
      /\ creditLog' = creditLog \union {e}
      /\ r \in responses'
  BY DEF AnswersCredit, Says, Asked
<1>3. CREDIT_APPROVAL # PAYMENT
  BY DEF CREDIT_APPROVAL, PAYMENT
<1>4. ~ IsUnknown(s) /\ ~ IsTurnedDown(s)
  BY <1>2 DEF IsUnknown, IsTurnedDown
<1>5. CASE AsksForCredit(s)
  <2>1. PICK q \in requests :
          /\ Asked(s) = {q} /\ q.step = CREDIT_APPROVAL /\ q.type = "REQUEST"
          /\ Answered(s) = {} \/ q \in creditLog
    BY <1>5 DEF AsksForCredit
  <2>2. e = q /\ Answered(s)' = {r} /\ r.status \in {"APPROVED", "REJECTED"}
    BY <1>1, <1>2, <2>1
  <2>3. AsksForCredit(s)'
    BY <1>1, <1>2, <1>5, <2>1, <2>2 DEF AsksForCredit, At
  <2> QED
    BY <2>3 DEF SagaPoint
<1>6. CASE GoesOn(s)
  <2>1. GoesOn(s)'
    BY <1>1, <1>2, <1>3, <1>6 DEF GoesOn
  <2> QED
    BY <2>1 DEF SagaPoint
<1>7. CASE GoesBackFrom(s)
  <2>1. e.type = "CANCEL" /\ r.status = "CANCELLED"
    BY <1>2, <1>3, <1>7 DEF GoesBackFrom
  <2>2. \/ At(s, RowWith(0, "COMPENSATING", "FAILED", "ABORTING"), "CREATED")
        \/ At(s, RowWith(NoStep, "COMPENSATING", "FAILED", "ABORTING"), "CREATED")
        \/ At(s, RowWith(NoStep, "COMPENSATED", "FAILED", "ABORTED"), "CANCELLED") /\ Released(s)
    BY <1>2, <1>7, <2>1 DEF GoesBackFrom
  <2>3. /\ \/ At(s, RowWith(0, "COMPENSATING", "FAILED", "ABORTING"), "CREATED")'
           \/ At(s, RowWith(NoStep, "COMPENSATING", "FAILED", "ABORTING"), "CREATED")'
           \/ At(s, RowWith(NoStep, "COMPENSATED", "FAILED", "ABORTED"), "CANCELLED")' /\ Released(s)'
    BY <1>1, <1>2, <2>2 DEF At
  <2>4. \A a \in Answered(s)' :
          \/ a.step = PAYMENT /\ a.status = "FAILED"
          \/ a.step = CREDIT_APPROVAL /\ \/ a.status = "APPROVED" /\ a \in consumed'
                                         \/ a.status = "CANCELLED"
    BY <1>1, <1>2, <1>7, <2>1 DEF GoesBackFrom
  <2>5. \A q \in Asked(s)' :
          IF q.type = "REQUEST" THEN q.step = PAYMENT \/ q \in creditLog'
          ELSE q.type = "CANCEL" /\ q.step = CREDIT_APPROVAL
    BY <1>1, <1>2, <1>7 DEF GoesBackFrom
  <2>6. GoesBackFrom(s)'
    BY <1>7, <2>3, <2>4, <2>5 DEF GoesBackFrom
  <2> QED
    BY <2>6 DEF SagaPoint
<1> QED
  BY <1>4, <1>5, <1>6, <1>7 DEF SagaPoint

LEMMA PaymentAnswerKeepsPoint ==
  ASSUME NEW e, NEW r, AnswersPayment(e, r), NEW s, s = e.saga, SagaPoint(s)
  PROVE  SagaPoint(s)'
<1>1. CREDIT_APPROVAL # PAYMENT
  BY DEF CREDIT_APPROVAL, PAYMENT
<1>2. /\ e \in Asked(s) /\ e.step = PAYMENT
      /\ r.step = PAYMENT /\ r.status = PaymentAnswer(e)
      /\ UNCHANGED <<requests, sagaState, purchaseOrder, consumed, creditLog>>
  BY DEF AnswersPayment, Says, Asked
<1>3. /\ Asked(s)' = Asked(s) /\ Answered(s)' = Answered(s) \union {r}
      /\ Approved(s) => Approved(s)'
      /\ Released(s) => Released(s)'
      /\ Released(s)' => Released(s)
  BY <1>1, <1>2, SaidIsAnswered DEF AnswersPayment
<1>4. ~ IsUnknown(s) /\ ~ IsTurnedDown(s) /\ ~ AsksForCredit(s)
  BY <1>1, <1>2 DEF IsUnknown, IsTurnedDown, AsksForCredit
<1>5. CASE GoesOn(s)
  <2>1. r.status = "REQUESTED"
    BY <1>2, <1>5 DEF GoesOn, PaymentAnswer
  <2>2. GoesOn(s)'
    BY <1>2, <1>3, <1>5, <2>1 DEF GoesOn
  <2> QED
    BY <2>2 DEF SagaPoint
<1>6. CASE GoesBackFrom(s)
  <2>1. r.status = "FAILED"
    BY <1>1, <1>2, <1>6 DEF GoesBackFrom, PaymentAnswer
  <2>2. \A a \in Answered(s)' :
          \/ a.step = PAYMENT /\ a.status = "FAILED"
          \/ a.step = CREDIT_APPROVAL /\ \/ a.status = "APPROVED" /\ a \in consumed'
                                         \/ a.status = "CANCELLED"
    BY <1>2, <1>3, <1>6, <2>1 DEF GoesBackFrom
  <2>3. GoesBackFrom(s)'
    BY <1>2, <1>3, <1>6, <2>2 DEF GoesBackFrom, At
  <2> QED
    BY <2>3 DEF SagaPoint
<1> QED
  BY <1>4, <1>5, <1>6 DEF SagaPoint

LEMMA PlacingReachesPoint ==
  ASSUME LockInv, NEW s \in Sagas, SagaPoint(s), PlaceOrder(s)
  PROVE  SagaPoint(s)'
<1>1. /\ sagaState[s] = NoRow /\ Asked(s) = {} /\ responses' = responses
      /\ sagaState'[s] = Begin.row /\ purchaseOrder'[s] = "CREATED"
      /\ Fire(s, Begin.fired)
  BY DEF PlaceOrder, LockInv, TablesTyped, Asked
<1>2. Answered(s) = {}
  <2>1. /\ RowWith(NoStep, "FAILED", NotRun, "ABORTED") # NoRow
        /\ RowWith(0, "STARTED", NotRun, "STARTED") # NoRow
        /\ RowWith(1, "SUCCEEDED", "STARTED", "STARTED") # NoRow
        /\ RowWith(0, "COMPENSATING", "FAILED", "ABORTING") # NoRow
        /\ RowWith(NoStep, "COMPENSATING", "FAILED", "ABORTING") # NoRow
        /\ RowWith(NoStep, "COMPENSATED", "FAILED", "ABORTED") # NoRow
    BY DEF RowWith, NoRow
  <2>2. ~ AsksForCredit(s) /\ ~ IsTurnedDown(s) /\ ~ GoesOn(s) /\ ~ GoesBackFrom(s)
    BY <1>1, <2>1 DEF AsksForCredit, IsTurnedDown, GoesOn, GoesBackFrom, At
  <2> QED
    BY <2>2 DEF SagaPoint, IsUnknown
<1>3. PICK q : q = SagaEvent(s, [step |-> CREDIT_APPROVAL, type |-> "REQUEST"])
  OBVIOUS
<1>4. q.saga = s /\ q.step = CREDIT_APPROVAL /\ q.type = "REQUEST"
  BY <1>3, EventOf
<1>5. requests' = requests \union {q}
  BY <1>1, <1>3, BeginResult DEF Fire
<1>6. Asked(s)' = {q} /\ q \in requests' /\ Answered(s)' = {}
  BY <1>1, <1>2, <1>4, <1>5 DEF Asked, Answered
<1>7. At(s, RowWith(0, "STARTED", NotRun, "STARTED"), "CREATED")'
  BY <1>1, BeginResult DEF At
<1> QED
  BY <1>4, <1>6, <1>7 DEF SagaPoint, AsksForCredit

\* What handling an answer e does to its saga s.
HandledOf(s, e) ==
  /\ e \in Answered(s) /\ e \notin consumed /\ e.step \in Step
  /\ sagaState[s] \in Row /\ sagaState'[s] \in Row
  /\ ~ OnStepEventThrows(sagaState[s], ToStepStatus(e.status))
  /\ sagaState'[s] = OnStepEvent(sagaState[s], e.step, ToStepStatus(e.status)).row
  /\ purchaseOrder'[s] = OrderStatusOf(sagaState'[s].sagaStatus, purchaseOrder[s])
  /\ Fire(s, OnStepEvent(sagaState[s], e.step, ToStepStatus(e.status)).fired)
  /\ consumed' = consumed \union {e} /\ responses' = responses /\ creditLog' = creditLog
  /\ Answered(s)' = Answered(s)
  /\ Approved(s)' = Approved(s) /\ Released(s)' = Released(s)

LEMMA HandlingHandlesOf ==
  ASSUME LockInv, NEW e \in responses \ consumed, Handles(e), creditLog' = creditLog,
         NEW s, s = e.saga
  PROVE  HandledOf(s, e)
<1>1. /\ e.step \in Step /\ consumed' = consumed \union {e} /\ responses' = responses
      /\ Fire(s, OnStepEvent(sagaState[s], e.step, ToStepStatus(e.status)).fired)
  BY DEF Handles, OnAnswer
<1>2. Answered(s)' = Answered(s) /\ Approved(s)' = Approved(s) /\ Released(s)' = Released(s)
  BY <1>1 DEF Answered, Approved, Released, ResponsesOf
<1>3. e \in Answered(s)
  BY DEF Answered
<1> QED
  BY <1>1, <1>2, <1>3, HandledRow DEF LockInv, HandledOf

\* A saga that has ended in a refusal takes no answer: the handler throws.
LEMMA EndedTakesNoFailure ==
  ASSUME NEW a, NEW b, NEW w, NEW status, GoesBack(status)
  PROVE  OnStepEventThrows(RowWith(NoStep, a, b, w), status)
BY RowFields DEF OnStepEventThrows, GoBackThrows

LEMMA TurnedDownTakesNothing ==
  ASSUME NEW s, NEW e, HandledOf(s, e)
  PROVE  ~ IsTurnedDown(s)
<1> SUFFICES ASSUME IsTurnedDown(s) PROVE FALSE
  OBVIOUS
<1>1. e.status = "REJECTED" /\ sagaState[s] = RowWith(NoStep, "FAILED", NotRun, "ABORTED")
  BY DEF IsTurnedDown, HandledOf, At
<1>2. GoesBack(ToStepStatus(e.status))
  BY <1>1 DEF ToStepStatus, GoesBack
<1> QED
  BY <1>1, <1>2, EndedTakesNoFailure DEF HandledOf

LEMMA HandledAsksForCredit ==
  ASSUME NEW s, NEW e, HandledOf(s, e), AsksForCredit(s)
  PROVE  SagaPoint(s)' /\ (GoesOn(s)' => KeepsItsCredit(s)')
<1> DEFINE row == RowWith(0, "STARTED", NotRun, "STARTED")
<1>1. /\ sagaState[s] = row /\ purchaseOrder[s] = "CREATED"
      /\ e.step = CREDIT_APPROVAL /\ e.status \in {"APPROVED", "REJECTED"}
      /\ Answered(s)' = {e}
  BY DEF AsksForCredit, At, HandledOf
<1>2. PICK q \in creditLog : Asked(s) = {q} /\ q.step = CREDIT_APPROVAL /\ q.type = "REQUEST"
  BY DEF AsksForCredit, HandledOf
<1>3. /\ creditLog' = creditLog /\ e \in consumed'
      /\ Approved(s)' = Approved(s) /\ Released(s)' = Released(s)
      /\ e \in responses /\ e.saga = s
  BY DEF HandledOf, Answered
<1>4. CREDIT_APPROVAL = 0 /\ PAYMENT = 1
  BY DEF CREDIT_APPROVAL, PAYMENT
<1> HIDE DEF row
<1>5. CASE e.status = "APPROVED"
  <2>1. ToStepStatus(e.status) = "SUCCEEDED"
    BY <1>5 DEF ToStepStatus
  <2>2. /\ sagaState'[s] = RowWith(1, "SUCCEEDED", "STARTED", "STARTED")
        /\ Fire(s, {[step |-> PAYMENT, type |-> "REQUEST"]})
    BY <1>1, <1>4, <2>1, GrantedResult DEF HandledOf, row
  <2>3. purchaseOrder'[s] = "CREATED"
    BY <1>1, <2>2, RowFields DEF HandledOf, OrderStatusOf
  <2>4. PICK p : p = SagaEvent(s, [step |-> PAYMENT, type |-> "REQUEST"])
    OBVIOUS
  <2>5. p.step = PAYMENT /\ p.type = "REQUEST"
    BY <2>4, EventOf
  <2>6. \A o \in Asked(s)' : o.type = "REQUEST" /\ (o.step = PAYMENT \/ o \in creditLog')
    BY <1>2, <1>3, <2>2, <2>4, <2>5, FiredAreAsked
  <2>7. CASE s \in InvalidCard
    <3>1. ~ Released(s)'
      BY <1>1, <1>5, <1>3 DEF HandledOf, Released, ResponsesOf, Answered
    <3>2. GoesBackFrom(s)'
      BY <1>1, <1>3, <1>5, <2>2, <2>3, <2>6, <2>7, <3>1 DEF GoesBackFrom, At
    <3>3. ~ GoesOn(s)'
      BY <2>7 DEF GoesOn
    <3> QED
      BY <3>2, <3>3 DEF SagaPoint
  <2>8. CASE s \notin InvalidCard
    <3>1. Approved(s)'
      BY <1>1, <1>3, <1>5 DEF Approved, ResponsesOf
    <3>2. sagaState'[s].stepStatus[PAYMENT] = "STARTED"
      BY <2>2 DEF RowWith, Steps, Step, PAYMENT, CREDIT_APPROVAL
    <3>3. sagaState'[s] # NoRow
      BY NoRowIsNone DEF HandledOf
    <3>4. GoesOn(s)'
      BY <1>1, <1>4, <2>3, <2>6, <2>8, <3>1, <3>2, <3>3 DEF GoesOn
    <3>5. sagaState'[s].stepStatus[CREDIT_APPROVAL] = "SUCCEEDED"
      BY <2>2 DEF RowWith, Steps, Step, CREDIT_APPROVAL
    <3>6. KeepsItsCredit(s)'
      BY <1>1, <1>5, <2>6, <3>5 DEF KeepsItsCredit
    <3> QED
      BY <3>4, <3>6 DEF SagaPoint
  <2> QED
    BY <2>7, <2>8
<1>6. CASE e.status = "REJECTED"
  <2>1. ToStepStatus(e.status) = "FAILED"
    BY <1>6 DEF ToStepStatus
  <2>2. /\ sagaState'[s] = RowWith(NoStep, "FAILED", NotRun, "ABORTED")
        /\ Fire(s, {})
    BY <1>1, <1>4, <2>1, RejectedResult DEF HandledOf, row
  <2>3. purchaseOrder'[s] = "CANCELLED"
    BY <1>1, <2>2, RowFields DEF HandledOf, OrderStatusOf
  <2>4. Asked(s)' = {q}
    BY <1>2, <2>2, FiredAreAsked
  <2>5. IsTurnedDown(s)'
    BY <1>1, <1>2, <1>3, <1>6, <2>2, <2>3, <2>4 DEF IsTurnedDown, At
  <2>6. ~ GoesOn(s)'
    BY <2>3 DEF GoesOn
  <2> QED
    BY <2>5, <2>6 DEF SagaPoint
<1> QED
  BY <1>1, <1>5, <1>6

LEMMA HandledGoesOn ==
  ASSUME AnswersTyped, NEW s, NEW e, HandledOf(s, e), GoesOn(s)
  PROVE  GoesOn(s)' /\ (purchaseOrder[s] = "PROCESSING" => purchaseOrder'[s] = "PROCESSING")
<1> DEFINE status == ToStepStatus(e.status)
<1>1. /\ sagaState[s] \in Row /\ e.step \in Step /\ ~ OnStepEventThrows(sagaState[s], status)
      /\ sagaState'[s] = OnStepEvent(sagaState[s], e.step, status).row
      /\ sagaState[s].stepStatus[1] \in {"STARTED", "SUCCEEDED"}
  BY DEF HandledOf, GoesOn, PAYMENT
<1>2. e.step = 1 => status = "SUCCEEDED"
  <2>1. e.step = PAYMENT => e.status = "REQUESTED"
    BY DEF HandledOf, GoesOn
  <2> QED
    BY <2>1 DEF PAYMENT, ToStepStatus
<1>3. status \in StatusOfAnswer
  BY AnswersHaveStatus
<1> HIDE DEF status
<1>4. sagaState'[s].stepStatus[1] \in {"STARTED", "SUCCEEDED"} /\ sagaState'[s].sagaStatus # "ABORTED"
  BY <1>1, <1>2, <1>3, GoodRowGoesOn
<1>5. /\ purchaseOrder'[s] \in {"CREATED", "PROCESSING"}
      /\ purchaseOrder[s] = "PROCESSING" => purchaseOrder'[s] = "PROCESSING"
  BY <1>4 DEF HandledOf, GoesOn, OrderStatusOf
<1>6. sagaState'[s] # NoRow
  BY NoRowIsNone DEF HandledOf
<1>7. \A q \in Asked(s)' : q.step = PAYMENT => q.type = "REQUEST"
  <2> SUFFICES ASSUME NEW q \in Asked(s)', q.step = PAYMENT PROVE q.type = "REQUEST"
    OBVIOUS
  <2>1. CASE q \in Asked(s)
    BY <2>1 DEF GoesOn
  <2>2. ASSUME NEW m \in OnStepEvent(sagaState[s], e.step, status).fired, q = SagaEvent(s, m)
        PROVE  q.type = "REQUEST"
    <3>1. m.type \in {"REQUEST", "CANCEL"} /\ CREDIT_APPROVAL # PAYMENT
      BY <2>2, AnswerFires DEF CREDIT_APPROVAL, PAYMENT
    <3> QED
      BY <2>2, <3>1, EventOf
  <2>3. q \in Asked(s) \/ \E m \in OnStepEvent(sagaState[s], e.step, status).fired : q = SagaEvent(s, m)
    BY FiredAreAsked DEF HandledOf, status
  <2> QED
    BY <2>1, <2>2, <2>3
<1> QED
  BY <1>4, <1>5, <1>6, <1>7 DEF GoesOn, HandledOf, PAYMENT

LEMMA HandledGoesBack ==
  ASSUME NEW s, NEW e, HandledOf(s, e), GoesBackFrom(s)
  PROVE  GoesBackFrom(s)' /\ purchaseOrder[s] # "CANCELLED"
<1>1. CREDIT_APPROVAL = 0 /\ PAYMENT = 1
  BY DEF CREDIT_APPROVAL, PAYMENT
<1>2. \/ e.step = PAYMENT /\ e.status = "FAILED"
      \/ e.step = CREDIT_APPROVAL /\ e.status = "CANCELLED"
  BY DEF GoesBackFrom, HandledOf
<1>3. \/ e.step = 1 /\ ToStepStatus(e.status) = "FAILED"
      \/ e.step = 0 /\ ToStepStatus(e.status) = "COMPENSATED" /\ Released(s)
  BY <1>1, <1>2 DEF ToStepStatus, HandledOf, Released, ResponsesOf, Answered
<1>4. /\ GoesBack(ToStepStatus(e.status))
      /\ ~ OnStepEventThrows(sagaState[s], ToStepStatus(e.status))
  BY <1>3 DEF HandledOf, GoesBack
<1>5. \/ /\ At(s, RowWith(1, "SUCCEEDED", "STARTED", "STARTED"), "CREATED")
         /\ ~ Released(s) /\ \A q \in Asked(s) : q.type = "REQUEST"
      \/ At(s, RowWith(0, "COMPENSATING", "FAILED", "ABORTING"), "CREATED")
  BY <1>4, EndedTakesNoFailure DEF GoesBackFrom, At
<1>6. \A a \in Answered(s)' :
        \/ a.step = PAYMENT /\ a.status = "FAILED"
        \/ a.step = CREDIT_APPROVAL /\ \/ a.status = "APPROVED" /\ a \in consumed'
                                       \/ a.status = "CANCELLED"
  BY DEF GoesBackFrom, HandledOf
<1>7. CASE At(s, RowWith(1, "SUCCEEDED", "STARTED", "STARTED"), "CREATED") /\ ~ Released(s)
  <2>1. e.step = 1 /\ ToStepStatus(e.status) = "FAILED"
    BY <1>3, <1>7
  <2>2. /\ sagaState'[s] = RowWith(0, "COMPENSATING", "FAILED", "ABORTING")
        /\ Fire(s, {[step |-> CREDIT_APPROVAL, type |-> "CANCEL"]})
    BY <1>7, <2>1, DeclinedResult DEF HandledOf, At
  <2>3. purchaseOrder'[s] = "CREATED"
    BY <1>7, <2>2, RowFields DEF HandledOf, OrderStatusOf, At
  <2>4. PICK p : p = SagaEvent(s, [step |-> CREDIT_APPROVAL, type |-> "CANCEL"])
    OBVIOUS
  <2>5. p.step = CREDIT_APPROVAL /\ p.type = "CANCEL"
    BY <2>4, EventOf
  <2>6. \A q \in Asked(s)' : q \in Asked(s) \/ q = p
    BY <2>2, <2>4, FiredAreAsked
  <2>7. \A q \in Asked(s)' :
          IF q.type = "REQUEST" THEN q.step = PAYMENT \/ q \in creditLog'
          ELSE q.type = "CANCEL" /\ q.step = CREDIT_APPROVAL
    BY <2>5, <2>6 DEF GoesBackFrom, HandledOf
  <2> QED
    BY <1>6, <1>7, <2>2, <2>3, <2>7 DEF GoesBackFrom, At
<1>8. CASE At(s, RowWith(0, "COMPENSATING", "FAILED", "ABORTING"), "CREATED")
  <2>1. CASE e.step = 1 /\ ToStepStatus(e.status) = "FAILED"
    <3>1. /\ sagaState'[s] = RowWith(NoStep, "COMPENSATING", "FAILED", "ABORTING")
          /\ Fire(s, {})
      BY <1>8, <2>1, DeclinedAgainResult DEF HandledOf, At
    <3>2. purchaseOrder'[s] = "CREATED"
      BY <1>8, <3>1, RowFields DEF HandledOf, OrderStatusOf, At
    <3>3. Asked(s)' = Asked(s) /\ creditLog' = creditLog
      BY <3>1, FiredAreAsked DEF HandledOf
    <3>4. At(s, RowWith(NoStep, "COMPENSATING", "FAILED", "ABORTING"), "CREATED")'
      BY <3>1, <3>2 DEF At
    <3> QED
      BY <1>6, <1>8, <3>3, <3>4 DEF GoesBackFrom, At
  <2>2. CASE e.step = 0 /\ ToStepStatus(e.status) = "COMPENSATED" /\ Released(s)
    <3>1. /\ sagaState'[s] = RowWith(NoStep, "COMPENSATED", "FAILED", "ABORTED")
          /\ Fire(s, {})
      BY <1>8, <2>2, ReturnedResult DEF HandledOf, At
    <3>2. purchaseOrder'[s] = "CANCELLED" /\ Released(s)'
      BY <1>8, <2>2, <3>1, RowFields DEF HandledOf, OrderStatusOf, At
    <3>3. Asked(s)' = Asked(s) /\ creditLog' = creditLog
      BY <3>1, FiredAreAsked DEF HandledOf
    <3>4. At(s, RowWith(NoStep, "COMPENSATED", "FAILED", "ABORTED"), "CANCELLED")'
      BY <3>1, <3>2 DEF At
    <3> QED
      BY <1>6, <1>8, <3>2, <3>3, <3>4 DEF GoesBackFrom, At
  <2> QED
    BY <1>3, <2>1, <2>2
<1> QED
  BY <1>5, <1>7, <1>8

\* Every point is left for a point, and no decision is taken back.
LEMMA HandlingReachesPoint ==
  ASSUME AnswersTyped, NEW s, NEW e, HandledOf(s, e), SagaPoint(s)
  PROVE  SagaPoint(s)' /\ (Decided(s) => purchaseOrder'[s] = purchaseOrder[s])
<1>1. ~ IsUnknown(s)
  BY DEF IsUnknown, HandledOf
<1>2. ~ IsTurnedDown(s)
  BY TurnedDownTakesNothing
<1>3. CASE AsksForCredit(s)
  BY <1>3, HandledAsksForCredit DEF AsksForCredit, At, Decided
<1>4. CASE GoesOn(s)
  <2>1. GoesOn(s)' /\ (purchaseOrder[s] = "PROCESSING" => purchaseOrder'[s] = "PROCESSING")
    BY <1>4, HandledGoesOn
  <2> QED
    BY <1>4, <2>1 DEF GoesOn, Decided, SagaPoint
<1>5. CASE GoesBackFrom(s)
  <2>1. GoesBackFrom(s)' /\ purchaseOrder[s] # "CANCELLED"
    BY <1>5, HandledGoesBack
  <2>2. ~ Decided(s)
    BY <1>5, <2>1 DEF GoesBackFrom, At, Decided
  <2> QED
    BY <2>1, <2>2 DEF SagaPoint
<1> QED
  BY <1>1, <1>2, <1>3, <1>4, <1>5 DEF SagaPoint

\* A step that none of the sagas notices.
Unnoticed == UNCHANGED <<requests, responses, sagaState, purchaseOrder, consumed, creditLog>>

LEMMA CreditEventSays ==
  ASSUME NEW e \in requests, OnCreditEvent(e), UNCHANGED orderVars
  PROVE  (\E r : AnswersCredit(e, r)) \/ Unnoticed
<1>1. UNCHANGED <<sagaState, purchaseOrder, consumed>>
  BY DEF orderVars
<1>2. ASSUME NEW status, AnswerCredit(e, status), TakesCredit(e),
             \/ e.type = "REQUEST" /\ status \in {"APPROVED", "REJECTED"}
             \/ e.type = "CANCEL" /\ status = "CANCELLED"
      PROVE  \E r : AnswersCredit(e, r)
  <2> DEFINE r == NewResponse(e.saga, CREDIT_APPROVAL, status)
  <2>1. r.saga = e.saga /\ r.step = CREDIT_APPROVAL /\ r.status = status
    BY DEF NewResponse
  <2>2. /\ responses' = responses \union {r} /\ requests' = requests
        /\ creditLog' = creditLog \union {e}
    BY <1>2 DEF AnswerCredit
  <2>3. e \in requests \ creditLog /\ e.step = CREDIT_APPROVAL
    BY <1>2 DEF TakesCredit, PollsCredit
  <2> HIDE DEF r
  <2>4. Says(e.saga, r)
    BY <1>1, <2>1, <2>2 DEF Says
  <2>5. AnswersCredit(e, r)
    BY <1>2, <2>1, <2>2, <2>3, <2>4 DEF AnswersCredit
  <2> QED
    BY <2>5
<1>3. CASE FailCredit(e)
  BY <1>1, <1>3 DEF FailCredit, Unnoticed
<1> QED
  BY <1>2, <1>3 DEF OnCreditEvent, ApproveCredit, RejectCredit, CancelCredit

LEMMA PaymentEventSays ==
  ASSUME NEW e \in requests, OnPaymentEvent(e), UNCHANGED <<orderVars, customerVars>>
  PROVE  \E r : AnswersPayment(e, r)
<1> DEFINE r == NewResponse(e.saga, PAYMENT, PaymentAnswer(e))
<1>1. r.saga = e.saga /\ r.step = PAYMENT /\ r.status = PaymentAnswer(e)
  BY DEF NewResponse
<1>2. /\ responses' = responses \union {r} /\ e.step = PAYMENT
      /\ UNCHANGED <<requests, sagaState, purchaseOrder, consumed, creditLog>>
  BY DEF OnPaymentEvent, TakesPayment, PollsPayment, orderVars, customerVars
<1> HIDE DEF r
<1>3. Says(e.saga, r)
  BY <1>1, <1>2 DEF Says
<1>4. AnswersPayment(e, r)
  BY <1>1, <1>2, <1>3 DEF AnswersPayment
<1> QED
  BY <1>4

LEMMA PaymentStepKinds ==
  ASSUME LockInv, Restartable \subseteq {"payment"}, [RestartsNext]_restartVars
  PROVE  \/ \E s \in Sagas : PlaceOrder(s) /\ creditLog' = creditLog
         \/ \E e \in responses \ consumed : Handles(e) /\ creditLog' = creditLog
         \/ \E e, r : AnswersCredit(e, r)
         \/ \E e, r : AnswersPayment(e, r)
         \/ Unnoticed
<1>1. CASE OrderNext /\ UNCHANGED <<customerVars, paymentVars>>
  <2>1. creditLog' = creditLog
    BY <1>1 DEF customerVars
  <2>2. \/ \E s \in Sagas : PlaceOrder(s)
        \/ \E e \in responses \ consumed : Handles(e)
        \/ ThreadMoves
    BY <1>1, OrderStepKinds
  <2> QED
    BY <2>1, <2>2 DEF ThreadMoves, Unnoticed
<1>2. CASE CustomerNext /\ UNCHANGED <<orderVars, paymentVars>>
  BY <1>2, CreditEventSays DEF CustomerNext
<1>3. CASE PaymentNext /\ UNCHANGED <<orderVars, customerVars>>
  BY <1>3, PaymentEventSays DEF PaymentNext, FailPayment, Unnoticed, orderVars, customerVars
<1>4. ASSUME NEW service \in Restartable, Restart(service) PROVE Unnoticed
  BY <1>4 DEF Restart, RestartPaymentService, Unnoticed, orderVars, customerVars
<1>5. CASE UNCHANGED vars
  BY <1>5 DEF vars, orderVars, customerVars, Unnoticed
<1> QED
  BY <1>1, <1>2, <1>3, <1>4, <1>5 DEF RestartsNext, Next, restartVars

\* Every saga stays at a point, and keeps its decision.
LEMMA RerunsStep ==
  ASSUME LockInv, AnswersTyped, LostAreEmpty, Restartable \subseteq {"payment"},
         [RestartsNext]_restartVars, NEW s \in Sagas, SagaPoint(s)
  PROVE  SagaPoint(s)' /\ (Decided(s) => purchaseOrder'[s] = purchaseOrder[s])
<1>1. ASSUME NEW o \in Sagas, PlaceOrder(o), creditLog' = creditLog
      PROVE  SagaPoint(s)' /\ (Decided(s) => purchaseOrder'[s] = purchaseOrder[s])
  <2>1. CASE o = s
    <3>1. purchaseOrder[s] = NoOrder
      BY <1>1, <2>1 DEF LostAreEmpty, PlaceOrder
    <3>2. SagaPoint(s)'
      BY <1>1, <2>1, PlacingReachesPoint
    <3> QED
      BY <3>1, <3>2 DEF Decided, NoOrder
  <2>2. CASE o # s
    <3>1. /\ sagaState'[s] = sagaState[s] /\ purchaseOrder'[s] = purchaseOrder[s]
          /\ responses' = responses /\ consumed' = consumed /\ Fire(o, Begin.fired)
      BY <1>1, <2>2 DEF PlaceOrder, LockInv, TablesTyped
    <3>2. Asked(s)' = Asked(s) /\ Answered(s)' = Answered(s)
      BY <2>2, <3>1, FiredAreAsked DEF Answered
    <3> QED
      BY <1>1, <3>1, <3>2, PointStays
  <2> QED
    BY <2>1, <2>2
<1>2. ASSUME NEW e \in responses \ consumed, Handles(e), creditLog' = creditLog
      PROVE  SagaPoint(s)' /\ (Decided(s) => purchaseOrder'[s] = purchaseOrder[s])
  <2>1. CASE e.saga = s
    <3>1. HandledOf(s, e)
      BY <1>2, <2>1, HandlingHandlesOf
    <3> QED
      BY <3>1, HandlingReachesPoint
  <2>2. CASE e.saga # s
    <3>1. /\ sagaState'[s] = sagaState[s] /\ purchaseOrder'[s] = purchaseOrder[s]
          /\ responses' = responses /\ consumed \subseteq consumed'
      BY SMTT(30), <1>2, <2>2, HandledRow DEF LockInv, Handles, OnAnswer
    <3>2. Fire(e.saga, OnStepEvent(sagaState[e.saga], e.step, ToStepStatus(e.status)).fired)
      BY <1>2 DEF Handles, OnAnswer
    <3>3. Asked(s)' = Asked(s) /\ Answered(s)' = Answered(s)
      BY <2>2, <3>1, <3>2, FiredAreAsked DEF Answered
    <3> QED
      BY <1>2, <3>1, <3>3, PointStays
  <2> QED
    BY <2>1, <2>2
<1>3. ASSUME NEW e, NEW r, Says(e.saga, r), AnswersCredit(e, r) \/ AnswersPayment(e, r)
      PROVE  SagaPoint(s)' /\ (Decided(s) => purchaseOrder'[s] = purchaseOrder[s])
  <2>1. UNCHANGED <<sagaState, purchaseOrder, consumed>> /\ creditLog \subseteq creditLog'
    BY <1>3 DEF Says
  <2>2. CASE e.saga = s
    <3>1. SagaPoint(s)'
      BY <1>3, <2>2, CreditAnswerKeepsPoint, PaymentAnswerKeepsPoint
    <3> QED
      BY <2>1, <3>1
  <2>3. CASE e.saga # s
    <3>1. Asked(s)' = Asked(s) /\ Answered(s)' = Answered(s)
      BY <1>3, <2>3, SaidIsAnswered
    <3> QED
      BY <2>1, <3>1, PointStays
  <2> QED
    BY <2>2, <2>3
<1>4. CASE Unnoticed
  <2>1. Asked(s)' = Asked(s) /\ Answered(s)' = Answered(s)
    BY <1>4 DEF Unnoticed, Asked, Answered
  <2> QED
    BY <1>4, <2>1, PointStays DEF Unnoticed
<1> QED
  BY <1>1, <1>2, <1>3, <1>4, PaymentStepKinds DEF AnswersCredit, AnswersPayment

\* The inductive invariant of the restarts of the payment service.
THEOREM RerunsInvariant ==
  ASSUME Restartable \subseteq {"payment"}
  PROVE  RestartsSafety => [](RestartsInv /\ RerunsInv)
<1>1. RestartsInit => RestartsInv /\ RerunsInv
  <2> SUFFICES ASSUME RestartsInit PROVE RestartsInv /\ RerunsInv
    OBVIOUS
  <2>1. LockInv
    BY LockInitInv DEF RestartsInit
  <2>2. AnswersTyped /\ RowsAreVouchedFor /\ LostAreEmpty /\ AcceptedOrdersArePaid
    BY DEF RestartsInit, Init, OrderInit, AnswersTyped, RowsAreVouchedFor, LostAreEmpty,
           AcceptedOrdersArePaid, NoOrder
  <2>3. RerunsInv
    BY DEF RestartsInit, Init, OrderInit, RerunsInv, IsUnknown, At, Asked, Answered
  <2> QED
    BY <2>1, <2>2, <2>3 DEF RestartsInv
<1>2. RestartsInv /\ RerunsInv /\ [RestartsNext]_restartVars => RestartsInv' /\ RerunsInv'
  <2> SUFFICES ASSUME RestartsInv, RerunsInv, [RestartsNext]_restartVars
               PROVE  RestartsInv' /\ RerunsInv'
    OBVIOUS
  <2>1. RestartsInv'
    BY RestartsStepInv
  <2>2. \A s \in Sagas : SagaPoint(s)'
    BY RerunsStep DEF RestartsInv, RerunsInv, SagaPoint
  <2> QED
    BY <2>1, <2>2 DEF RerunsInv, SagaPoint
<1> QED
  BY <1>1, <1>2, PTL DEF RestartsSafety

\* A payment service that has lost its message log handles requests a second time and
\* answers them a second time; the sagas run on, or go back again, but no order that has
\* been decided is decided anew, whether or not there is credit for another grant.
THEOREM DecisionsSurviveRestarts ==
  ASSUME Restartable \subseteq {"payment"}
  PROVE  RestartsSafety => DecisionSurvivesRestarts
<1> DEFINE Survive == \A s \in Sagas : Decided(s) => purchaseOrder'[s] = purchaseOrder[s]
<1>1. RestartsInv /\ RerunsInv /\ [RestartsNext]_restartVars => [Survive]_restartVars
  BY RerunsStep DEF RestartsInv, RerunsInv, SagaPoint
<1> QED
  BY <1>1, RerunsInvariant, PTL DEF RestartsSafety, DecisionSurvivesRestarts

-------------------------------------------------------------------------------
(***************************************************************************)
(* The credit of a paid order.  A saga that runs again asks for credit     *)
(* again, and a refusal makes it go back; without one, nothing is ever     *)
(* taken back from the order.                                              *)
(***************************************************************************)
LEMMA GoesOnBefore ==
  ASSUME NEW s, SagaPoint(s), sagaState'[s] = sagaState[s], purchaseOrder'[s] = purchaseOrder[s],
         GoesOn(s)'
  PROVE  GoesOn(s)
<1>1. /\ s \notin InvalidCard /\ sagaState[s] # NoRow /\ purchaseOrder[s] # "CANCELLED"
      /\ sagaState[s].stepStatus[1] \in {"STARTED", "SUCCEEDED"}
  BY DEF GoesOn, PAYMENT
<1>2. RowWith(0, "STARTED", NotRun, "STARTED").stepStatus[1] = NotRun
  BY DEF RowWith, Steps, Step, CREDIT_APPROVAL
<1>3. NotRun \notin {"STARTED", "SUCCEEDED"}
  BY DEF NotRun
<1> QED
  BY <1>1, <1>2, <1>3 DEF SagaPoint, IsUnknown, AsksForCredit, IsTurnedDown, GoesBackFrom, At

KeptIfNotRefused(s) == GoesOn(s) /\ ~ Refused(s) => KeepsItsCredit(s)

LEMMA RefusedBefore ==
  ASSUME NEW s, responses \subseteq responses', ~ Refused(s)'
  PROVE  ~ Refused(s)
BY DEF Refused, ResponsesOf

LEMMA CreditStays ==
  ASSUME NEW s, SagaPoint(s), KeptIfNotRefused(s), GoesOn(s)', ~ Refused(s)',
         responses \subseteq responses', sagaState'[s] = sagaState[s], purchaseOrder'[s] = purchaseOrder[s],
         Asked(s)' = Asked(s),
         \A a \in Answered(s)' : a \in Answered(s) \/ a.step # CREDIT_APPROVAL \/ a.status = "APPROVED"
  PROVE  KeepsItsCredit(s)'
<1>1. KeepsItsCredit(s)
  BY GoesOnBefore, RefusedBefore DEF KeptIfNotRefused
<1> QED
  BY <1>1 DEF KeepsItsCredit

LEMMA HandlingKeepsCredit ==
  ASSUME AnswersTyped, NEW s, NEW e, HandledOf(s, e), SagaPoint(s),
         KeptIfNotRefused(s), GoesOn(s)', ~ Refused(s)'
  PROVE  KeepsItsCredit(s)'
<1>1. ~ IsUnknown(s) /\ ~ IsTurnedDown(s)
  BY TurnedDownTakesNothing DEF IsUnknown, HandledOf
<1>2. ~ GoesBackFrom(s)
  BY DEF GoesBackFrom, GoesOn
<1>3. CASE AsksForCredit(s)
  BY <1>3, HandledAsksForCredit
<1>4. CASE GoesOn(s) /\ KeepsItsCredit(s)
  <2> DEFINE status == ToStepStatus(e.status)
  <2>1. CREDIT_APPROVAL = 0 /\ PAYMENT = 1 /\ Step = {0, 1}
    BY DEF CREDIT_APPROVAL, PAYMENT, Step
  <2>2. /\ sagaState[s] \in Row /\ e.step \in Step /\ ~ OnStepEventThrows(sagaState[s], status)
        /\ sagaState'[s] = OnStepEvent(sagaState[s], e.step, status).row
        /\ sagaState[s].stepStatus[1] \in {"STARTED", "SUCCEEDED"}
        /\ sagaState[s].stepStatus[0] \in {"STARTED", "SUCCEEDED"}
    BY <1>4, <2>1 DEF HandledOf, GoesOn, KeepsItsCredit
  <2>3. e.status \in {"APPROVED", "REQUESTED"}
    <3>1. /\ e.step = PAYMENT => e.status = "REQUESTED"
          /\ e.step = CREDIT_APPROVAL => e.status = "APPROVED"
      BY <1>4 DEF HandledOf, GoesOn, KeepsItsCredit
    <3> QED
      BY <2>1, <2>2, <3>1
  <2>4. status = "SUCCEEDED"
    BY <2>3 DEF ToStepStatus
  <2>5. status \in StatusOfAnswer /\ ~ GoesBack(status)
    BY <2>4 DEF StatusOfAnswer, GoesBack
  <2> HIDE DEF status
  <2>6. sagaState'[s].stepStatus[0] \in {"STARTED", "SUCCEEDED"}
    BY <2>2, <2>4, <2>5, GoodRowGoesOn
  <2>7. \A q \in Asked(s)' : q.type = "REQUEST"
    <3> SUFFICES ASSUME NEW q \in Asked(s)' PROVE q.type = "REQUEST"
      OBVIOUS
    <3>1. q \in Asked(s) \/ \E m \in OnStepEvent(sagaState[s], e.step, status).fired : q = SagaEvent(s, m)
      BY FiredAreAsked DEF HandledOf, status
    <3> QED
      BY <1>4, <2>5, <3>1, AnswerFires, EventOf DEF KeepsItsCredit
  <2>8. Answered(s)' = Answered(s)
    BY DEF HandledOf
  <2> QED
    BY <1>4, <2>1, <2>6, <2>7, <2>8 DEF KeepsItsCredit
<1>5. ~ Refused(s)
  BY RefusedBefore DEF HandledOf
<1> QED
  BY <1>1, <1>2, <1>3, <1>4, <1>5 DEF SagaPoint, KeptIfNotRefused

LEMMA CreditAnswerKeepsCredit ==
  ASSUME NEW e, NEW r, AnswersCredit(e, r), NEW s, s = e.saga, SagaPoint(s),
         KeptIfNotRefused(s), GoesOn(s)', ~ Refused(s)'
  PROVE  KeepsItsCredit(s)'
<1>1. /\ sagaState' = sagaState /\ purchaseOrder' = purchaseOrder
      /\ Asked(s)' = Asked(s) /\ Answered(s)' = Answered(s) \union {r}
      /\ e \in Asked(s) /\ r.saga = s /\ r.step = CREDIT_APPROVAL /\ r \in responses'
      /\ responses \subseteq responses'
  BY SaidIsAnswered DEF AnswersCredit, Says, Asked
<1>2. KeepsItsCredit(s)
  BY <1>1, GoesOnBefore, RefusedBefore DEF KeptIfNotRefused
<1>3. e.type = "REQUEST"
  BY <1>1, <1>2 DEF KeepsItsCredit
<1>4. r.status # "REJECTED"
  BY <1>1 DEF Refused, ResponsesOf
<1>5. r.status = "APPROVED"
  BY <1>3, <1>4 DEF AnswersCredit
<1> QED
  BY <1>1, <1>5, CreditStays

LEMMA CreditKeptStep ==
  ASSUME RestartsInv, RerunsInv, NothingIsTakenBack,
         Restartable \subseteq {"payment"}, [RestartsNext]_restartVars
  PROVE  NothingIsTakenBack'
<1> SUFFICES ASSUME NEW s \in Sagas, GoesOn(s)', ~ Refused(s)' PROVE KeepsItsCredit(s)'
  BY DEF NothingIsTakenBack
<1>1. SagaPoint(s) /\ KeptIfNotRefused(s) /\ LockInv /\ AnswersTyped
  BY DEF RerunsInv, SagaPoint, NothingIsTakenBack, KeptIfNotRefused, RestartsInv
<1>2. ASSUME NEW o \in Sagas, PlaceOrder(o) PROVE KeepsItsCredit(s)'
  <2>1. o # s
    <3> SUFFICES ASSUME o = s PROVE FALSE
      OBVIOUS
    <3>1. sagaState'[s] = Begin.row
      BY <1>1, <1>2 DEF PlaceOrder, LockInv, TablesTyped
    <3>2. sagaState'[s].stepStatus[PAYMENT] = NotRun
      BY <3>1, BegunRow
    <3> QED
      BY <3>2 DEF GoesOn, NotRun
  <2>2. /\ sagaState'[s] = sagaState[s] /\ purchaseOrder'[s] = purchaseOrder[s]
        /\ responses' = responses /\ Fire(o, Begin.fired)
    BY <1>1, <1>2, <2>1 DEF PlaceOrder, LockInv, TablesTyped
  <2>3. Asked(s)' = Asked(s) /\ Answered(s)' = Answered(s)
    BY <2>1, <2>2, FiredAreAsked DEF Answered
  <2> QED
    BY <1>1, <2>2, <2>3, CreditStays
<1>3. ASSUME NEW e \in responses \ consumed, Handles(e), creditLog' = creditLog
      PROVE  KeepsItsCredit(s)'
  <2>1. CASE e.saga = s
    <3>1. HandledOf(s, e)
      BY <1>1, <1>3, <2>1, HandlingHandlesOf
    <3> QED
      BY <1>1, <3>1, HandlingKeepsCredit
  <2>2. CASE e.saga # s
    <3>1. /\ sagaState'[s] = sagaState[s] /\ purchaseOrder'[s] = purchaseOrder[s]
          /\ responses' = responses
      BY SMTT(30), <1>1, <1>3, <2>2, HandledRow DEF LockInv, Handles, OnAnswer
    <3>2. Fire(e.saga, OnStepEvent(sagaState[e.saga], e.step, ToStepStatus(e.status)).fired)
      BY <1>3 DEF Handles, OnAnswer
    <3>3. Asked(s)' = Asked(s) /\ Answered(s)' = Answered(s)
      BY <2>2, <3>1, <3>2, FiredAreAsked DEF Answered
    <3> QED
      BY <1>1, <3>1, <3>3, CreditStays
  <2> QED
    BY <2>1, <2>2
<1>4. ASSUME NEW e, NEW r, AnswersCredit(e, r) PROVE KeepsItsCredit(s)'
  <2>1. CASE e.saga = s
    BY <1>1, <1>4, <2>1, CreditAnswerKeepsCredit
  <2>2. CASE e.saga # s
    <3>1. UNCHANGED <<sagaState, purchaseOrder>> /\ responses \subseteq responses'
      BY <1>4 DEF AnswersCredit, Says
    <3>2. Asked(s)' = Asked(s) /\ Answered(s)' = Answered(s)
      BY <1>4, <2>2, SaidIsAnswered DEF AnswersCredit
    <3> QED
      BY <1>1, <3>1, <3>2, CreditStays
  <2> QED
    BY <2>1, <2>2
<1>5. ASSUME NEW e, NEW r, AnswersPayment(e, r) PROVE KeepsItsCredit(s)'
  <2>1. /\ UNCHANGED <<sagaState, purchaseOrder>> /\ responses \subseteq responses'
        /\ r.step # CREDIT_APPROVAL
    BY <1>5 DEF AnswersPayment, Says, CREDIT_APPROVAL, PAYMENT
  <2>2. Asked(s)' = Asked(s) /\ \A a \in Answered(s)' : a \in Answered(s) \/ a = r
    BY <1>5, SaidIsAnswered DEF AnswersPayment
  <2> QED
    BY <1>1, <2>1, <2>2, CreditStays
<1>6. CASE Unnoticed
  <2>1. Asked(s)' = Asked(s) /\ Answered(s)' = Answered(s)
    BY <1>6 DEF Unnoticed, Asked, Answered
  <2> QED
    BY <1>1, <1>6, <2>1, CreditStays DEF Unnoticed
<1> QED
  BY <1>1, <1>2, <1>3, <1>4, <1>5, <1>6, PaymentStepKinds

LEMMA PointsMatchAnswers ==
  ASSUME AnswersTyped, AcceptedOrdersArePaid, RerunsInv, NothingIsTakenBack
  PROVE  DecisionMatchesAnswers
<1> SUFFICES ASSUME NEW s \in Sagas
             PROVE  /\ purchaseOrder[s] = "PROCESSING" =>
                         Approved(s) /\ Paid(s) /\ (Released(s) => Refused(s))
                    /\ purchaseOrder[s] = "CANCELLED"  => s \notin Holding /\ ~ Paid(s)
  BY DEF DecisionMatchesAnswers
<1>1. CREDIT_APPROVAL # PAYMENT
  BY DEF CREDIT_APPROVAL, PAYMENT
<1>2. ASSUME purchaseOrder[s] = "PROCESSING"
      PROVE  Approved(s) /\ Paid(s) /\ (Released(s) => Refused(s))
  <2>1. Approved(s) /\ Paid(s)
    BY <1>2 DEF AcceptedOrdersArePaid
  <2>2. GoesOn(s)
    BY <1>2 DEF RerunsInv, IsUnknown, AsksForCredit, IsTurnedDown, GoesBackFrom, At, NoOrder
  <2>3. Refused(s) \/ KeepsItsCredit(s)
    BY <2>2 DEF NothingIsTakenBack
  <2>4. KeepsItsCredit(s) => ~ Released(s)
    BY DEF KeepsItsCredit, Released, ResponsesOf, Answered
  <2> QED
    BY <2>1, <2>3, <2>4
<1>3. ASSUME purchaseOrder[s] = "CANCELLED" PROVE s \notin Holding /\ ~ Paid(s)
  <2>1. IsTurnedDown(s) \/ GoesBackFrom(s)
    BY <1>3 DEF RerunsInv, IsUnknown, AsksForCredit, GoesOn, At, NoOrder
  <2>2. CASE IsTurnedDown(s)
    BY <1>1, <2>2 DEF IsTurnedDown, Answered, Holding, Approved, Paid, ResponsesOf
  <2>3. CASE GoesBackFrom(s)
    <3>1. Released(s)
      BY <1>3, <2>3 DEF GoesBackFrom, At
    <3>2. ~ Paid(s)
      BY <1>1, <2>3 DEF GoesBackFrom, Answered, Paid, ResponsesOf
    <3> QED
      BY <3>1, <3>2 DEF Holding
  <2> QED
    BY <2>1, <2>2, <2>3
<1> QED
  BY <1>2, <1>3

\* Restarts of the payment service, any number of them, leave every decision in line with
\* what the participants have said.  The exception is an accepted order that is refused
\* credit when its saga, run again, asks again: that saga goes back, and a later answer may
\* take the credit of the paid order away.
THEOREM RestartsMatchAnswers ==
  ASSUME Restartable \subseteq {"payment"}
  PROVE  RestartsSafety => []DecisionMatchesAnswers
<1>1. RestartsInit => NothingIsTakenBack
  BY DEF RestartsInit, Init, OrderInit, NothingIsTakenBack, GoesOn
<1>2. RestartsInv /\ RerunsInv /\ NothingIsTakenBack /\ [RestartsNext]_restartVars
      => NothingIsTakenBack'
  BY CreditKeptStep
<1>3. RestartsInv /\ RerunsInv /\ NothingIsTakenBack => DecisionMatchesAnswers
  BY PointsMatchAnswers DEF RestartsInv
<1> QED
  BY <1>1, <1>2, <1>3, RerunsInvariant, PTL DEF RestartsSafety

===============================================================================
