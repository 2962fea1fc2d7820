-------------------------- MODULE SagaProtocol_proofs --------------------------
(***************************************************************************)
(* Proofs about SagaProtocol, for sagas of any number of steps.  First,    *)
(* what the functions of SagaBase make of a row of the inductive           *)
(* invariant; then that every action keeps the invariant; then what        *)
(* follows from it.                                                        *)
(***************************************************************************)
EXTENDS SagaProtocol, TLAPS

USE StepCountAssumption DEF StepCountAssumption

RowOf(current, steps, status) ==
  [currentStep |-> current, stepStatus |-> steps, sagaStatus |-> status]

RequestFor(i)       == [step |-> i, type |-> "REQUEST"]
CancelOf(i)         == [step |-> i, type |-> "CANCEL"]
AnswerOf(i, status) == [step |-> i, status |-> status]

-------------------------------------------------------------------------------
(***************************************************************************)
(* advance, goBack and getSagaStatus on a row taken apart.                 *)
(***************************************************************************)

\* advance() moves to the next step and marks it STARTED.
LEMMA AdvanceMoves ==
  ASSUME NEW c, NEW st, NEW ss, NEW next, NEW st2,
         GetNextStep(RowOf(c, st, ss)) = next, next # NoStep,
         st2 = [st EXCEPT ![next] = "STARTED"]
  PROVE  Advance(RowOf(c, st, ss))
           = [row |-> RowOf(next, st2, ss), fired |-> {RequestFor(next)}]
<1> DEFINE row == RowOf(c, st, ss)
<1>1. [row EXCEPT !.currentStep = next, !.stepStatus[next] = "STARTED"]
        = RowOf(next, st2, ss)
  <2>1. [row EXCEPT !.currentStep = next] = RowOf(next, st, ss)
    BY DEF RowOf
  <2>2. [RowOf(next, st, ss) EXCEPT !.stepStatus[next] = "STARTED"]
          = RowOf(next, [st EXCEPT ![next] = "STARTED"], ss)
    BY DEF RowOf
  <2> QED BY <2>1, <2>2, Zenon
<1>2. GetNextStep(row) = next
  OBVIOUS
<1> HIDE DEF row
<1>3. Advance(row) = [row   |-> [row EXCEPT !.currentStep = next,
                                            !.stepStatus[next] = "STARTED"],
                      fired |-> {RequestFor(next)}]
  BY <1>2, Zenon DEF Advance, RequestFor
<1>4. Advance(row) = [row |-> RowOf(next, st2, ss), fired |-> {RequestFor(next)}]
  BY <1>1, <1>3, Zenon
<1> QED BY <1>4 DEF row

\* advance() after the last step leaves the saga without a current step.
LEMMA AdvanceEnds ==
  ASSUME NEW c, NEW st, NEW ss, GetNextStep(RowOf(c, st, ss)) = NoStep
  PROVE  Advance(RowOf(c, st, ss)) = [row |-> RowOf(NoStep, st, ss), fired |-> {}]
<1> DEFINE row == RowOf(c, st, ss)
<1>1. [row EXCEPT !.currentStep = NoStep] = RowOf(NoStep, st, ss)
  BY DEF RowOf
<1>2. GetNextStep(row) = NoStep
  OBVIOUS
<1> HIDE DEF row
<1>3. Advance(row) = [row |-> [row EXCEPT !.currentStep = NoStep], fired |-> {}]
  BY <1>2, Zenon DEF Advance
<1>4. Advance(row) = [row |-> RowOf(NoStep, st, ss), fired |-> {}]
  BY <1>1, <1>3, Zenon
<1> QED BY <1>4 DEF row

\* goBack() moves to the previous step and marks it COMPENSATING.
LEMMA GoBackMoves ==
  ASSUME NEW c, NEW st, NEW ss, NEW previous, NEW st2,
         c # 0, previous = c - 1, st2 = [st EXCEPT ![previous] = "COMPENSATING"]
  PROVE  GoBack(RowOf(c, st, ss))
           = [row |-> RowOf(previous, st2, ss), fired |-> {CancelOf(previous)}]
<1> DEFINE row == RowOf(c, st, ss)
<1>1. row.currentStep = c
  BY DEF RowOf
<1>2. [row EXCEPT !.currentStep = previous, !.stepStatus[previous] = "COMPENSATING"]
        = RowOf(previous, st2, ss)
  <2>1. [row EXCEPT !.currentStep = previous] = RowOf(previous, st, ss)
    BY DEF RowOf
  <2>2. [RowOf(previous, st, ss) EXCEPT !.stepStatus[previous] = "COMPENSATING"]
          = RowOf(previous, [st EXCEPT ![previous] = "COMPENSATING"], ss)
    BY DEF RowOf
  <2> QED BY <2>1, <2>2, Zenon
<1> HIDE DEF row
<1>3. GoBack(row) = [row   |-> [row EXCEPT !.currentStep = previous,
                                           !.stepStatus[previous] = "COMPENSATING"],
                     fired |-> {CancelOf(previous)}]
  BY <1>1, Zenon DEF GoBack, CancelOf
<1>4. GoBack(row) = [row |-> RowOf(previous, st2, ss), fired |-> {CancelOf(previous)}]
  BY <1>2, <1>3, Zenon
<1> QED BY <1>4 DEF row

\* goBack() from the first step leaves the saga without a current step.
LEMMA GoBackEnds ==
  ASSUME NEW st, NEW ss
  PROVE  GoBack(RowOf(0, st, ss)) = [row |-> RowOf(NoStep, st, ss), fired |-> {}]
<1> DEFINE row == RowOf(0, st, ss)
<1>1. row.currentStep = 0
  BY DEF RowOf
<1>2. [row EXCEPT !.currentStep = NoStep] = RowOf(NoStep, st, ss)
  BY DEF RowOf
<1> HIDE DEF row
<1>3. GoBack(row) = [row |-> [row EXCEPT !.currentStep = NoStep], fired |-> {}]
  BY <1>1, Zenon DEF GoBack
<1>4. GoBack(row) = [row |-> RowOf(NoStep, st, ss), fired |-> {}]
  BY <1>2, <1>3, Zenon
<1> QED BY <1>4 DEF row

\* onStepEvent() records the answer, moves, and recomputes the status of the saga.
LEMMA OnStepEventOfRow ==
  ASSUME NEW c, NEW st, NEW ss, NEW i, NEW status, NEW put, NEW moved,
         NEW c2, NEW st2, NEW fires,
         put = RowOf(c, [st EXCEPT ![i] = status], ss),
         moved = IF GoesBack(status) THEN GoBack(put) ELSE Advance(put),
         moved = [row |-> RowOf(c2, st2, ss), fired |-> fires]
  PROVE  OnStepEvent(RowOf(c, st, ss), i, status) =
           [row   |-> RowOf(c2, st2, GetSagaStatus({st2[j] : j \in Step} \ {NotRun})),
            fired |-> fires]
<1> DEFINE final == GetSagaStatus(AllStatus(moved.row))
<1>1. [RowOf(c, st, ss) EXCEPT !.stepStatus[i] = status] = put
  BY DEF RowOf
<1>2. OnStepEvent(RowOf(c, st, ss), i, status) = [moved EXCEPT !.row.sagaStatus = final]
  BY <1>1, Zenon DEF OnStepEvent
<1>3. final = GetSagaStatus({st2[j] : j \in Step} \ {NotRun})
  BY DEF AllStatus, RowOf
<1>4. [moved EXCEPT !.row.sagaStatus = final]
        = [row |-> RowOf(c2, st2, final), fired |-> fires]
  <2> HIDE DEF final
  <2> QED BY DEF RowOf
<1> HIDE DEF final
<1> QED BY <1>2, <1>3, <1>4, Zenon

-------------------------------------------------------------------------------
(***************************************************************************)
(* The rows of the way forward and of the way back.                        *)
(***************************************************************************)
LEMMA ForwardIsRow ==
  ASSUME NEW k \in 0 .. StepCount
  PROVE  ForwardRow(k) = RowOf(IF k = StepCount THEN NoStep ELSE k, ForwardSteps(k),
                               IF k = StepCount THEN "COMPLETED" ELSE "STARTED")
BY DEF ForwardRow, RowOf

LEMMA BackwardIsRow ==
  ASSUME NEW f \in Step, NEW k \in NoStep .. f - 1
  PROVE  BackwardRow(f, k) = RowOf(k, BackwardSteps(f, k),
                                   IF k = NoStep THEN "ABORTED" ELSE "ABORTING")
BY DEF BackwardRow, RowOf

\* getSagaStatus() of a saga that is on its way forward, or completed.
LEMMA ForwardStatus ==
  ASSUME NEW k \in 0 .. StepCount
  PROVE  GetSagaStatus({ForwardSteps(k)[i] : i \in Step} \ {NotRun})
           = IF k = StepCount THEN "COMPLETED" ELSE "STARTED"
<1> DEFINE states == {ForwardSteps(k)[i] : i \in Step} \ {NotRun}
<1>1. states \subseteq {"STARTED", "SUCCEEDED"}
  BY DEF ForwardSteps, NotRun
<1>2. CASE k = StepCount
  <2>1. \A i \in Step : ForwardSteps(k)[i] = "SUCCEEDED"
    BY <1>2 DEF ForwardSteps, Step
  <2>2. states \subseteq {"SUCCEEDED"}
    BY <2>1
  <2> QED BY <2>2, <1>2 DEF GetSagaStatus
<1>3. CASE k # StepCount
  <2>1. k \in Step
    BY <1>3 DEF Step
  <2>2. ForwardSteps(k)[k] = "STARTED"
    BY <2>1 DEF ForwardSteps
  <2>3. "STARTED" \in states
    BY <2>1, <2>2 DEF NotRun
  <2> QED BY <2>3, <1>1, <1>3 DEF GetSagaStatus
<1> QED BY <1>2, <1>3

\* getSagaStatus() of a saga that is on its way back, or aborted.
LEMMA BackwardStatus ==
  ASSUME NEW f \in Step, NEW k \in NoStep .. f - 1
  PROVE  GetSagaStatus({BackwardSteps(f, k)[i] : i \in Step} \ {NotRun})
           = IF k = NoStep THEN "ABORTED" ELSE "ABORTING"
<1> DEFINE states == {BackwardSteps(f, k)[i] : i \in Step} \ {NotRun}
<1>1. "FAILED" \in states
  <2>1. BackwardSteps(f, k)[f] = "FAILED"
    BY DEF BackwardSteps, Step, NoStep
  <2> QED BY <2>1 DEF NotRun
<1>2. CASE k = NoStep
  <2>1. \A i \in Step : BackwardSteps(f, k)[i] \in {"FAILED", "COMPENSATED", NotRun}
    BY <1>2 DEF BackwardSteps, Step, NoStep
  <2>2. states \subseteq {"FAILED", "COMPENSATED"}
    BY <2>1
  <2> QED BY <2>2, <1>1, <1>2 DEF GetSagaStatus
<1>3. CASE k # NoStep
  <2>1. k \in Step
    BY <1>3 DEF Step, NoStep
  <2>2. BackwardSteps(f, k)[k] = "COMPENSATING"
    BY <2>1 DEF BackwardSteps
  <2>3. "COMPENSATING" \in states
    BY <2>1, <2>2 DEF NotRun
  <2> QED BY <2>3, <1>1, <1>3 DEF GetSagaStatus
<1> QED BY <1>2, <1>3

\* SagaManager.begin leaves the first step running.
LEMMA BeginIsForward ==
  Begin.row = ForwardRow(0) /\ Begin.fired = {RequestFor(0)}
<1> DEFINE none == [i \in Step |-> NotRun]
           row  == RowOf(NoStep, none, "STARTED")
<1>1. [NoRow EXCEPT !.sagaStatus = "STARTED"] = row
  BY DEF NoRow, RowOf
<1>2. GetNextStep(row) = 0
  BY DEF GetNextStep, RowOf
<1>3. [none EXCEPT ![0] = "STARTED"] = ForwardSteps(0)
  BY DEF ForwardSteps, Step
<1>4. Advance(row) = [row   |-> RowOf(0, [none EXCEPT ![0] = "STARTED"], "STARTED"),
                      fired |-> {RequestFor(0)}]
  <2>1. 0 # NoStep
    BY DEF NoStep
  <2> HIDE DEF none, row
  <2> QED BY <1>2, <2>1, AdvanceMoves DEF row
<1>5. ForwardRow(0) = RowOf(0, ForwardSteps(0), "STARTED")
  BY ForwardIsRow
<1>6. Begin = Advance(row)
  BY <1>1 DEF Begin
<1>7. Begin = [row |-> ForwardRow(0), fired |-> {RequestFor(0)}]
  <2> HIDE DEF none, row
  <2> QED BY <1>3, <1>4, <1>5, <1>6, Zenon
<1> QED BY <1>7

\* The running step has SUCCEEDED: the next one runs, or the saga is completed.
LEMMA SucceededAdvances ==
  ASSUME NEW k \in Step
  PROVE  /\ OnStepEvent(ForwardRow(k), k, "SUCCEEDED").row = ForwardRow(k + 1)
         /\ OnStepEvent(ForwardRow(k), k, "SUCCEEDED").fired
              = IF k + 1 = StepCount THEN {} ELSE {RequestFor(k + 1)}
<1> DEFINE st    == [ForwardSteps(k) EXCEPT ![k] = "SUCCEEDED"]
           put   == RowOf(k, st, "STARTED")
           n     == k + 1
           next  == IF n = StepCount THEN NoStep ELSE n
           steps == ForwardSteps(n)
           fires == IF n = StepCount THEN {} ELSE {RequestFor(n)}
           moved == [row |-> RowOf(next, steps, "STARTED"), fired |-> fires]
<1>1. /\ k \in 0 .. StepCount /\ k # StepCount /\ k # NoStep
      /\ n \in 0 .. StepCount /\ n # NoStep
  BY DEF Step, NoStep
<1>2. GetNextStep(put) = next
  <2>1. put.currentStep = k
    BY DEF RowOf
  <2> HIDE DEF put
  <2> QED BY <1>1, <2>1 DEF GetNextStep
<1>3. n = StepCount => st = steps
  <2>1. ASSUME NEW i \in Step, n = StepCount
        PROVE  st[i] = steps[i]
    BY <2>1 DEF ForwardSteps, Step
  <2> QED BY <2>1 DEF ForwardSteps
<1>4. n # StepCount => [st EXCEPT ![n] = "STARTED"] = steps
  <2>1. st = [i \in Step |-> IF i <= k THEN "SUCCEEDED" ELSE NotRun]
    <3>1. \A i \in Step : st[i] = IF i <= k THEN "SUCCEEDED" ELSE NotRun
      BY DEF ForwardSteps, Step
    <3> QED BY <3>1 DEF ForwardSteps
  <2> HIDE DEF st
  <2>2. \A i \in Step : [st EXCEPT ![n] = "STARTED"][i] = steps[i]
    BY <2>1 DEF ForwardSteps, Step
  <2> QED BY <2>1, <2>2 DEF ForwardSteps
<1>5. Advance(put) = moved
  <2> HIDE DEF st
  <2>1. CASE n = StepCount
    <3>1. Advance(put) = [row |-> RowOf(NoStep, st, "STARTED"), fired |-> {}]
      BY <1>2, <2>1, AdvanceEnds
    <3> QED BY <3>1, <2>1, <1>3
  <2>2. CASE n # StepCount
    <3>1. Advance(put) = [row |-> RowOf(n, steps, "STARTED"), fired |-> {RequestFor(n)}]
      <4> HIDE DEF steps, n
      <4> QED BY <1>1, <1>2, <1>4, <2>2, AdvanceMoves
    <3> QED BY <3>1, <2>2
  <2> QED BY <2>1, <2>2
<1>6. moved = IF GoesBack("SUCCEEDED") THEN GoBack(put) ELSE Advance(put)
  BY <1>5 DEF GoesBack
<1>7. OnStepEvent(RowOf(k, ForwardSteps(k), "STARTED"), k, "SUCCEEDED")
        = [row   |-> RowOf(next, steps, GetSagaStatus({steps[j] : j \in Step} \ {NotRun})),
           fired |-> fires]
  <2>1. put = RowOf(k, [ForwardSteps(k) EXCEPT ![k] = "SUCCEEDED"], "STARTED")
    OBVIOUS
  <2>2. moved = [row |-> RowOf(next, steps, "STARTED"), fired |-> fires]
    OBVIOUS
  <2> HIDE DEF next, steps, fires, put, moved
  <2> QED BY <1>6, <2>1, <2>2, OnStepEventOfRow
<1>8. ForwardRow(k) = RowOf(k, ForwardSteps(k), "STARTED")
  BY <1>1, ForwardIsRow
<1>9. ForwardRow(n) = RowOf(next, steps, GetSagaStatus({steps[j] : j \in Step} \ {NotRun}))
  BY <1>1, ForwardIsRow, ForwardStatus
<1>10. OnStepEvent(ForwardRow(k), k, "SUCCEEDED") = [row |-> ForwardRow(n), fired |-> fires]
  <2> HIDE DEF n, next, steps, fires
  <2> QED BY <1>7, <1>8, <1>9, Zenon
<1> QED BY <1>10

\* On the way back from step f, when the answer of step c has just been recorded.
AnsweredSteps(f, c) ==
  [i \in Step |-> IF i < c THEN "SUCCEEDED" ELSE IF i < f THEN "COMPENSATED"
                 ELSE IF i = f THEN "FAILED" ELSE NotRun]

\* goBack() then turns to the step before c, or ends the saga.
LEMMA GoesBackFrom ==
  ASSUME NEW f \in Step, NEW c \in 0 .. f, NEW ss, NEW st, st = AnsweredSteps(f, c)
  PROVE  GoBack(RowOf(c, st, ss))
           = [row   |-> RowOf(c - 1, BackwardSteps(f, c - 1), ss),
              fired |-> IF c = 0 THEN {} ELSE {CancelOf(c - 1)}]
<1> DEFINE steps == BackwardSteps(f, c - 1)
<1>1. CASE c = 0
  <2>1. GoBack(RowOf(0, st, ss)) = [row |-> RowOf(NoStep, st, ss), fired |-> {}]
    BY GoBackEnds
  <2>2. st = steps
    <3>1. \A i \in Step : st[i] = steps[i]
      BY <1>1 DEF AnsweredSteps, BackwardSteps, Step
    <3> QED BY <3>1 DEF AnsweredSteps, BackwardSteps
  <2>3. NoStep = c - 1
    BY <1>1 DEF NoStep
  <2> HIDE DEF steps
  <2>4. RowOf(0, st, ss) = RowOf(c, st, ss)
    BY <1>1
  <2>5. [row |-> RowOf(NoStep, st, ss), fired |-> {}]
          = [row |-> RowOf(c - 1, steps, ss), fired |-> IF c = 0 THEN {} ELSE {CancelOf(c - 1)}]
    BY <1>1, <2>2, <2>3
  <2>6. GoBack(RowOf(c, st, ss))
          = [row |-> RowOf(c - 1, steps, ss), fired |-> IF c = 0 THEN {} ELSE {CancelOf(c - 1)}]
    BY <2>1, <2>4, <2>5, Zenon
  <2> QED BY <2>6 DEF steps
<1>2. CASE c # 0
  <2> DEFINE p == c - 1
  <2>1. [st EXCEPT ![p] = "COMPENSATING"] = steps
    <3>1. \A i \in Step : [st EXCEPT ![p] = "COMPENSATING"][i] = steps[i]
      BY <1>2 DEF AnsweredSteps, BackwardSteps, Step
    <3> QED BY <3>1 DEF AnsweredSteps, BackwardSteps
  <2>2. p = c - 1
    OBVIOUS
  <2>3. GoBack(RowOf(c, st, ss)) = [row |-> RowOf(p, steps, ss), fired |-> {CancelOf(p)}]
    <3> HIDE DEF p, steps
    <3> QED BY ZenonT(60), <1>2, <2>1, <2>2, GoBackMoves
  <2> QED BY <1>2, <2>3
<1> QED BY <1>1, <1>2

\* The running step has FAILED: the way back begins.
LEMMA FailedGoesBack ==
  ASSUME NEW f \in Step
  PROVE  /\ OnStepEvent(ForwardRow(f), f, "FAILED").row = BackwardRow(f, f - 1)
         /\ OnStepEvent(ForwardRow(f), f, "FAILED").fired
              = IF f = 0 THEN {} ELSE {CancelOf(f - 1)}
<1> DEFINE st    == [ForwardSteps(f) EXCEPT ![f] = "FAILED"]
           put   == RowOf(f, st, "STARTED")
           n     == f - 1
           steps == BackwardSteps(f, n)
           fires == IF f = 0 THEN {} ELSE {CancelOf(n)}
           moved == [row |-> RowOf(n, steps, "STARTED"), fired |-> fires]
<1>1. f \in 0 .. f /\ f \in 0 .. StepCount /\ f # StepCount /\ n \in NoStep .. f - 1
  BY DEF Step, NoStep
<1>2. st = AnsweredSteps(f, f)
  <2>1. \A i \in Step : st[i] = AnsweredSteps(f, f)[i]
    BY DEF ForwardSteps, AnsweredSteps, Step
  <2> QED BY <2>1 DEF ForwardSteps, AnsweredSteps
<1>3. GoBack(put) = moved
  <2> HIDE DEF st
  <2> QED BY <1>1, <1>2, GoesBackFrom
<1>4. moved = IF GoesBack("FAILED") THEN GoBack(put) ELSE Advance(put)
  BY <1>3 DEF GoesBack
<1>5. OnStepEvent(RowOf(f, ForwardSteps(f), "STARTED"), f, "FAILED")
        = [row   |-> RowOf(n, steps, GetSagaStatus({steps[j] : j \in Step} \ {NotRun})),
           fired |-> fires]
  <2>1. put = RowOf(f, [ForwardSteps(f) EXCEPT ![f] = "FAILED"], "STARTED")
    OBVIOUS
  <2>2. moved = [row |-> RowOf(n, steps, "STARTED"), fired |-> fires]
    OBVIOUS
  <2> HIDE DEF n, steps, fires, put, moved
  <2> QED BY <1>4, <2>1, <2>2, OnStepEventOfRow
<1>6. ForwardRow(f) = RowOf(f, ForwardSteps(f), "STARTED")
  BY <1>1, ForwardIsRow
<1>7. BackwardRow(f, n) = RowOf(n, steps, GetSagaStatus({steps[j] : j \in Step} \ {NotRun}))
  BY <1>1, BackwardIsRow, BackwardStatus
<1>8. OnStepEvent(ForwardRow(f), f, "FAILED") = [row |-> BackwardRow(f, n), fired |-> fires]
  <2> HIDE DEF n, steps, fires
  <2> QED BY <1>5, <1>6, <1>7, Zenon
<1> QED BY <1>8

\* The step that was being undone is COMPENSATED: the one before it is next, or
\* the saga is aborted.
LEMMA CompensatedGoesBack ==
  ASSUME NEW f \in Step, NEW k \in 0 .. f - 1
  PROVE  /\ OnStepEvent(BackwardRow(f, k), k, "COMPENSATED").row = BackwardRow(f, k - 1)
         /\ OnStepEvent(BackwardRow(f, k), k, "COMPENSATED").fired
              = IF k = 0 THEN {} ELSE {CancelOf(k - 1)}
<1> DEFINE st    == [BackwardSteps(f, k) EXCEPT ![k] = "COMPENSATED"]
           put   == RowOf(k, st, "ABORTING")
           n     == k - 1
           steps == BackwardSteps(f, n)
           fires == IF k = 0 THEN {} ELSE {CancelOf(n)}
           moved == [row |-> RowOf(n, steps, "ABORTING"), fired |-> fires]
<1>1. k \in 0 .. f /\ k \in NoStep .. f - 1 /\ k # NoStep /\ n \in NoStep .. f - 1
  BY DEF Step, NoStep
<1>2. st = AnsweredSteps(f, k)
  <2>1. \A i \in Step : st[i] = AnsweredSteps(f, k)[i]
    BY DEF BackwardSteps, AnsweredSteps, Step
  <2> QED BY <2>1 DEF BackwardSteps, AnsweredSteps
<1>3. GoBack(put) = moved
  <2> HIDE DEF st
  <2> QED BY <1>1, <1>2, GoesBackFrom
<1>4. moved = IF GoesBack("COMPENSATED") THEN GoBack(put) ELSE Advance(put)
  BY <1>3 DEF GoesBack
<1>5. OnStepEvent(RowOf(k, BackwardSteps(f, k), "ABORTING"), k, "COMPENSATED")
        = [row   |-> RowOf(n, steps, GetSagaStatus({steps[j] : j \in Step} \ {NotRun})),
           fired |-> fires]
  <2>1. put = RowOf(k, [BackwardSteps(f, k) EXCEPT ![k] = "COMPENSATED"], "ABORTING")
    OBVIOUS
  <2>2. moved = [row |-> RowOf(n, steps, "ABORTING"), fired |-> fires]
    OBVIOUS
  <2> HIDE DEF n, steps, fires, put, moved
  <2> QED BY <1>4, <2>1, <2>2, OnStepEventOfRow
<1>6. BackwardRow(f, k) = RowOf(k, BackwardSteps(f, k), "ABORTING")
  BY <1>1, BackwardIsRow
<1>7. BackwardRow(f, n) = RowOf(n, steps, GetSagaStatus({steps[j] : j \in Step} \ {NotRun}))
  BY <1>1, BackwardIsRow, BackwardStatus
<1>8. OnStepEvent(BackwardRow(f, k), k, "COMPENSATED")
        = [row |-> BackwardRow(f, n), fired |-> fires]
  <2> HIDE DEF n, steps, fires
  <2> QED BY <1>5, <1>6, <1>7, Zenon
<1> QED BY <1>8

-------------------------------------------------------------------------------
(***************************************************************************)
(* Every action keeps the invariant.                                       *)
(***************************************************************************)
LEMMA MessageFacts ==
  ASSUME NEW i \in Step
  PROVE  RequestFor(i) \in Message /\ CancelOf(i) \in Message
BY DEF RequestFor, CancelOf, Message

\* The answers to a request, and to a compensation.
LEMMA AnswersFacts ==
  ASSUME NEW m \in Message
  PROVE  AnswersTo(m) = IF m.type = "REQUEST"
                        THEN {AnswerOf(m.step, "SUCCEEDED"), AnswerOf(m.step, "FAILED")}
                        ELSE {AnswerOf(m.step, "COMPENSATED")}
<1>1. CASE m.type = "REQUEST"
  <2>1. AnswersTo(m) = [step : {m.step}, status : {"SUCCEEDED", "FAILED"}]
    BY <1>1 DEF AnswersTo
  <2>2. ASSUME NEW x
        PROVE  x \in [step : {m.step}, status : {"SUCCEEDED", "FAILED"}]
                 <=> x \in {AnswerOf(m.step, "SUCCEEDED"), AnswerOf(m.step, "FAILED")}
    BY DEF AnswerOf
  <2> QED BY <1>1, <2>1, <2>2
<1>2. CASE m.type # "REQUEST"
  <2>1. AnswersTo(m) = [step : {m.step}, status : {"COMPENSATED"}]
    BY <1>2 DEF AnswersTo
  <2>2. ASSUME NEW x
        PROVE  x \in [step : {m.step}, status : {"COMPENSATED"}]
                 <=> x \in {AnswerOf(m.step, "COMPENSATED")}
    BY DEF AnswerOf
  <2> QED BY <1>2, <2>1, <2>2
<1> QED BY <1>1, <1>2

LEMMA AnswerFacts ==
  ASSUME NEW i \in Step, NEW status \in {"SUCCEEDED", "FAILED", "COMPENSATED"}
  PROVE  /\ AnswerOf(i, status) \in Answer
         /\ AnswerOf(i, status).step = i /\ AnswerOf(i, status).status = status
BY DEF AnswerOf, Answer

LEMMA BeginKeepsInv ==
  ASSUME ProtocolInv, BeginSaga
  PROVE  ProtocolInv'
<1>1. NoRow # ForwardRow(0) /\ 0 \in 0 .. StepCount
  BY DEF NoRow, ForwardRow
<1>2. NotBegun
  <2>1. ASSUME NEW k \in 0 .. StepCount
        PROVE  ForwardRow(k) # NoRow
    BY DEF NoRow, ForwardRow
  <2>2. ASSUME NEW f \in Step, NEW k \in NoStep .. f - 1
        PROVE  BackwardRow(f, k) # NoRow
    BY DEF NoRow, BackwardRow
  <2> QED BY <2>1, <2>2 DEF ProtocolInv, BeginSaga, Forward, Backward
<1>3. saga' = ForwardRow(0) /\ fired' = {RequestFor(0)}
  BY BeginIsForward DEF BeginSaga
<1>4. {RequestFor(0)} = {m \in Message : m.type = "REQUEST" /\ m.step <= 0}
  BY DEF RequestFor, Message, Step
<1>5. {} = {a \in Answer : a.status = "SUCCEEDED" /\ a.step < 0}
  BY DEF Answer, Step
<1>6. answers' = {} /\ consumed' = {}
  BY <1>2 DEF NotBegun, BeginSaga
<1>7. Forward(0)'
  BY <1>3, <1>4, <1>5, <1>6 DEF Forward
<1> QED BY <1>1, <1>7 DEF ProtocolInv

\* On the way forward, the only message without an answer is the request of the
\* current step.
LEMMA ForwardParticipate ==
  ASSUME NEW k \in 0 .. StepCount, Forward(k), NEW m \in Message, Participate(m)
  PROVE  /\ k \in Step /\ answers = consumed
         /\ \/ answers' = answers \union {AnswerOf(k, "SUCCEEDED")}
            \/ answers' = answers \union {AnswerOf(k, "FAILED")}
         /\ Forward(k)' /\ UNCHANGED saga
<1>1. PICK a \in AnswersTo(m) : answers' = answers \union {a}
  BY DEF Participate
<1>2. UNCHANGED <<saga, fired, consumed>> /\ m \in fired /\ AnswersTo(m) \intersect answers = {}
  BY DEF Participate
<1>3. m.step \in Step /\ m.type = "REQUEST" /\ m.step <= k
  BY <1>2 DEF Forward, Message
<1>4. AnswersTo(m) = {AnswerOf(m.step, "SUCCEEDED"), AnswerOf(m.step, "FAILED")}
  BY <1>3, AnswersFacts
<1>5. consumed \subseteq answers
  BY DEF Forward
<1>6. ~ m.step < k
  <2>1. SUFFICES ASSUME m.step < k PROVE FALSE
    OBVIOUS
  <2>2. AnswerOf(m.step, "SUCCEEDED") \in consumed
    BY <1>3, <2>1, AnswerFacts DEF Forward
  <2> QED BY <1>2, <1>4, <1>5, <2>2
<1>7. m.step = k /\ k \in Step
  BY <1>3, <1>6 DEF Step
<1>8. a = AnswerOf(k, "SUCCEEDED") \/ a = AnswerOf(k, "FAILED")
  BY <1>4, <1>7
<1>9. answers = consumed
  BY <1>2, <1>4, <1>7 DEF Forward, AnswerOf
<1>10. \E status \in {"SUCCEEDED", "FAILED"} :
         answers' = consumed' \union {[step |-> k, status |-> status]}
  BY <1>1, <1>2, <1>8, <1>9 DEF AnswerOf
<1>11. Forward(k)'
  BY <1>2, <1>7, <1>10 DEF Forward
<1> QED BY <1>1, <1>2, <1>7, <1>8, <1>9, <1>11

\* On the way back it is the compensation of the current step.
LEMMA BackwardParticipate ==
  ASSUME NEW f \in Step, NEW k \in NoStep .. f - 1, Backward(f, k),
         NEW m \in Message, Participate(m)
  PROVE  /\ k \in Step /\ answers = consumed
         /\ answers' = answers \union {AnswerOf(k, "COMPENSATED")}
         /\ Backward(f, k)' /\ UNCHANGED saga
<1>1. PICK a \in AnswersTo(m) : answers' = answers \union {a}
  BY DEF Participate
<1>2. UNCHANGED <<saga, fired, consumed>> /\ m \in fired /\ AnswersTo(m) \intersect answers = {}
  BY DEF Participate
<1>3. m.step \in Step /\ m.type \in {"REQUEST", "CANCEL"}
  BY DEF Message
<1>4. consumed \subseteq answers
  BY DEF Backward
<1>5. m.type = "CANCEL"
  <2>1. SUFFICES ASSUME m.type = "REQUEST" PROVE FALSE
    BY <1>3
  <2>2. m.step <= f
    BY <1>2, <2>1 DEF Backward
  <2>3. CASE m.step = f
    <3>1. AnswerOf(f, "FAILED") \in consumed
      BY AnswerFacts DEF Backward
    <3> QED BY <1>2, <1>4, <2>1, <2>3, <3>1, AnswersFacts
  <2>4. CASE m.step < f
    <3>1. AnswerOf(m.step, "SUCCEEDED") \in consumed
      BY <1>3, <2>4, AnswerFacts DEF Backward
    <3> QED BY <1>2, <1>4, <2>1, <3>1, AnswersFacts
  <2> QED BY <1>3, <2>2, <2>3, <2>4 DEF Step
<1>6. k <= m.step /\ m.step < f
  BY <1>2, <1>5 DEF Backward
<1>7. AnswersTo(m) = {AnswerOf(m.step, "COMPENSATED")}
  BY <1>5, AnswersFacts
<1>8. ~ k < m.step
  <2>1. SUFFICES ASSUME k < m.step PROVE FALSE
    OBVIOUS
  <2>2. AnswerOf(m.step, "COMPENSATED") \in consumed
    BY <1>3, <1>6, <2>1, AnswerFacts DEF Backward
  <2> QED BY <1>2, <1>4, <1>7, <2>2
<1>9. m.step = k /\ k \in Step
  BY <1>3, <1>6, <1>8 DEF Step, NoStep
<1>10. a = AnswerOf(k, "COMPENSATED")
  BY <1>7, <1>9
<1>11. answers = consumed
  BY <1>2, <1>7, <1>9 DEF Backward, AnswerOf
<1>12. answers' = consumed' \union {[step |-> k, status |-> "COMPENSATED"]}
  BY <1>1, <1>2, <1>10, <1>11 DEF AnswerOf
<1>13. Backward(f, k)'
  BY <1>2, <1>9, <1>12 DEF Backward
<1> QED BY <1>1, <1>2, <1>9, <1>10, <1>11, <1>13

\* On the way forward, an answer that is new is the answer of the current step: it
\* leads on, or to the way back.
LEMMA ForwardAnswer ==
  ASSUME NEW k \in 0 .. StepCount, Forward(k), NEW a \in Answer, HandleAnswer(a)
  PROVE  /\ k \in Step /\ answers = consumed \union {a} /\ UNCHANGED answers
         /\ consumed' = answers'
         /\ \/ a = AnswerOf(k, "SUCCEEDED") /\ Forward(k + 1)'
            \/ a = AnswerOf(k, "FAILED") /\ Backward(k, k - 1)'
<1>1. /\ a \in answers \ consumed
      /\ saga' = OnStepEvent(saga, a.step, a.status).row
      /\ fired' = fired \union OnStepEvent(saga, a.step, a.status).fired
      /\ consumed' = consumed \union {a}
      /\ answers' = answers
  BY Zenon DEF HandleAnswer
<1>2. /\ k \in Step /\ saga = ForwardRow(k)
      /\ a = AnswerOf(k, "SUCCEEDED") \/ a = AnswerOf(k, "FAILED")
      /\ answers = consumed \union {a}
  BY <1>1 DEF Forward, AnswerOf
<1>3. consumed' = answers'
  BY <1>1, <1>2
<1>4. fired = {m \in Message : m.type = "REQUEST" /\ m.step <= k}
  BY DEF Forward
<1>5. CASE a = AnswerOf(k, "SUCCEEDED")
  <2>1. a.step = k /\ a.status = "SUCCEEDED"
    BY <1>5 DEF AnswerOf
  <2>2. saga' = ForwardRow(k + 1)
    BY <1>1, <1>2, <2>1, SucceededAdvances
  <2>3. fired' = fired \union IF k + 1 = StepCount THEN {} ELSE {RequestFor(k + 1)}
    BY <1>1, <1>2, <2>1, SucceededAdvances
  <2>4. k + 1 # StepCount => k + 1 \in Step
    BY <1>2 DEF Step
  <2>5. fired' = {m \in Message : m.type = "REQUEST" /\ m.step <= k + 1}
    BY <1>4, <2>3, <2>4 DEF RequestFor, Message, Step
  <2>6. consumed' = {b \in Answer : b.status = "SUCCEEDED" /\ b.step < k + 1}
    BY <1>1, <1>2, <1>5 DEF Forward, AnswerOf, Answer, Step
  <2>7. Forward(k + 1)'
    BY <1>3, <2>2, <2>5, <2>6 DEF Forward
  <2> QED BY <1>1, <1>2, <1>3, <1>5, <2>7
<1>6. CASE a = AnswerOf(k, "FAILED")
  <2>1. a.step = k /\ a.status = "FAILED"
    BY <1>6 DEF AnswerOf
  <2>2. saga' = BackwardRow(k, k - 1)
    BY <1>1, <1>2, <2>1, FailedGoesBack
  <2>3. fired' = fired \union IF k = 0 THEN {} ELSE {CancelOf(k - 1)}
    BY <1>1, <1>2, <2>1, FailedGoesBack
  <2>4. k # 0 => k - 1 \in Step
    BY <1>2 DEF Step
  <2>5. fired' = {m \in Message : IF m.type = "REQUEST" THEN m.step <= k
                                                       ELSE k - 1 <= m.step /\ m.step < k}
    BY <1>2, <1>4, <2>3, <2>4 DEF CancelOf, Message, Step
  <2>6. consumed' = {b \in Answer : \/ b.status = "SUCCEEDED" /\ b.step < k
                                    \/ b.status = "FAILED" /\ b.step = k
                                    \/ b.status = "COMPENSATED" /\ k - 1 < b.step
                                         /\ b.step < k}
    BY <1>1, <1>2, <1>6 DEF Forward, AnswerOf, Answer, Step
  <2>7. Backward(k, k - 1)'
    BY <1>3, <2>2, <2>5, <2>6 DEF Backward
  <2> QED BY <1>1, <1>2, <1>3, <1>6, <2>7
<1> QED BY <1>2, <1>5, <1>6

\* On the way back, it leads to the step before.
LEMMA BackwardAnswer ==
  ASSUME NEW f \in Step, NEW k \in NoStep .. f - 1, Backward(f, k),
         NEW a \in Answer, HandleAnswer(a)
  PROVE  /\ k \in 0 .. f - 1 /\ answers = consumed \union {a} /\ UNCHANGED answers
         /\ consumed' = answers'
         /\ a = AnswerOf(k, "COMPENSATED") /\ Backward(f, k - 1)'
<1>1. /\ a \in answers \ consumed
      /\ saga' = OnStepEvent(saga, a.step, a.status).row
      /\ fired' = fired \union OnStepEvent(saga, a.step, a.status).fired
      /\ consumed' = consumed \union {a}
      /\ answers' = answers
  BY Zenon DEF HandleAnswer
<1>2. /\ k \in 0 .. f - 1 /\ k \in Step /\ saga = BackwardRow(f, k)
      /\ a = AnswerOf(k, "COMPENSATED")
      /\ answers = consumed \union {a}
  BY <1>1 DEF Backward, AnswerOf, Step, NoStep
<1>3. consumed' = answers'
  BY <1>1, <1>2
<1>4. a.step = k /\ a.status = "COMPENSATED"
  BY <1>2 DEF AnswerOf
<1>5. saga' = BackwardRow(f, k - 1)
  BY <1>1, <1>2, <1>4, CompensatedGoesBack
<1>6. fired' = fired \union IF k = 0 THEN {} ELSE {CancelOf(k - 1)}
  BY <1>1, <1>2, <1>4, CompensatedGoesBack
<1>7. fired' = {m \in Message : IF m.type = "REQUEST" THEN m.step <= f
                                                     ELSE k - 1 <= m.step /\ m.step < f}
  <2>1. fired = {m \in Message : IF m.type = "REQUEST" THEN m.step <= f
                                                      ELSE k <= m.step /\ m.step < f}
    BY DEF Backward
  <2>2. k # 0 => k - 1 \in Step
    BY <1>2 DEF Step
  <2> QED BY <1>2, <1>6, <2>1, <2>2 DEF CancelOf, Message, Step
<1>8. consumed' = {b \in Answer : \/ b.status = "SUCCEEDED" /\ b.step < f
                                  \/ b.status = "FAILED" /\ b.step = f
                                  \/ b.status = "COMPENSATED" /\ k - 1 < b.step
                                       /\ b.step < f}
  BY <1>1, <1>2 DEF Backward, AnswerOf, Answer, Step
<1>9. Backward(f, k - 1)'
  BY <1>3, <1>5, <1>7, <1>8 DEF Backward
<1> QED BY <1>1, <1>2, <1>3, <1>9

LEMMA StepKeepsInv ==
  ASSUME ProtocolInv, ProtocolNext
  PROVE  ProtocolInv'
<1>1. CASE BeginSaga
  BY <1>1, BeginKeepsInv
<1>2. ASSUME NEW m \in Message, Participate(m)
      PROVE  ProtocolInv'
  BY <1>2, ForwardParticipate, BackwardParticipate DEF ProtocolInv, NotBegun, Participate
<1>3. ASSUME NEW a \in Answer, HandleAnswer(a)
      PROVE  ProtocolInv'
  <2>1. ~ NotBegun
    BY <1>3 DEF NotBegun, HandleAnswer
  <2>2. ASSUME NEW k \in 0 .. StepCount, Forward(k)
        PROVE  ProtocolInv'
    <3>1. k \in Step /\ (Forward(k + 1)' \/ Backward(k, k - 1)')
      BY <1>3, <2>2, ForwardAnswer
    <3>2. k + 1 \in 0 .. StepCount /\ k - 1 \in NoStep .. k - 1
      BY <3>1 DEF Step, NoStep
    <3> QED BY <3>1, <3>2 DEF ProtocolInv
  <2>3. ASSUME NEW f \in Step, NEW k \in NoStep .. f - 1, Backward(f, k)
        PROVE  ProtocolInv'
    <3>1. k \in 0 .. f - 1 /\ Backward(f, k - 1)'
      BY <1>3, <2>3, BackwardAnswer
    <3>2. k - 1 \in NoStep .. f - 1
      BY <3>1 DEF Step, NoStep
    <3> QED BY <3>1, <3>2 DEF ProtocolInv
  <2> QED BY <2>1, <2>2, <2>3 DEF ProtocolInv
<1> QED BY <1>1, <1>2, <1>3 DEF ProtocolNext

LEMMA InitHasInv == ProtocolInit => ProtocolInv
BY DEF ProtocolInit, ProtocolInv, NotBegun

LEMMA StutterKeepsInv ==
  ASSUME ProtocolInv, UNCHANGED protocolVars
  PROVE  ProtocolInv'
BY DEF protocolVars, ProtocolInv, NotBegun, Forward, Backward

\* The row and the topics of a saga are always those of one of the points of the
\* way forward, or of the way back from a refused step.
THEOREM SagaInvariant == ProtocolSafety => []ProtocolInv
<1>1. ProtocolInv /\ [ProtocolNext]_protocolVars => ProtocolInv'
  BY StepKeepsInv, StutterKeepsInv
<1> QED BY <1>1, InitHasInv, PTL DEF ProtocolSafety

-------------------------------------------------------------------------------
(***************************************************************************)
(* What follows from the invariant.                                        *)
(***************************************************************************)
LEMMA InvImpliesTypeOK == ProtocolInv => ProtocolTypeOK
<1>1. ASSUME NotBegun PROVE ProtocolTypeOK
  BY <1>1 DEF NotBegun, ProtocolTypeOK
<1>2. ASSUME NEW k \in 0 .. StepCount, Forward(k) PROVE ProtocolTypeOK
  <2>1. ForwardRow(k) \in Row
    <3>1. ForwardSteps(k) \in [Step -> StepStatus \union {NotRun}]
      BY DEF ForwardSteps, StepStatus
    <3>2. (IF k = StepCount THEN NoStep ELSE k) \in Step \union {NoStep}
      BY DEF Step
    <3> QED BY <3>1, <3>2 DEF ForwardRow, Row, SagaStatus
  <2>2. answers \subseteq Answer /\ consumed \subseteq answers
    BY <1>2 DEF Forward, Answer
  <2>3. fired \subseteq Message
    BY <1>2 DEF Forward
  <2> QED BY <1>2, <2>1, <2>2, <2>3 DEF Forward, ProtocolTypeOK
<1>3. ASSUME NEW f \in Step, NEW k \in NoStep .. f - 1, Backward(f, k) PROVE ProtocolTypeOK
  <2>1. BackwardRow(f, k) \in Row
    <3>1. BackwardSteps(f, k) \in [Step -> StepStatus \union {NotRun}]
      BY DEF BackwardSteps, StepStatus
    <3>2. k \in Step \union {NoStep}
      BY DEF Step, NoStep
    <3> QED BY <3>1, <3>2 DEF BackwardRow, Row, SagaStatus
  <2>2. answers \subseteq Answer /\ consumed \subseteq answers
    BY <1>3, AnswerFacts DEF Backward, AnswerOf
  <2>3. fired \subseteq Message
    BY <1>3 DEF Backward
  <2> QED BY <1>3, <2>1, <2>2, <2>3 DEF Backward, ProtocolTypeOK
<1> QED BY <1>1, <1>2, <1>3 DEF ProtocolInv

LEMMA InvImpliesOnlyCurrent == ProtocolInv => OnlyCurrentStepOutstanding
<1>1. ASSUME NotBegun PROVE OnlyCurrentStepOutstanding
  BY <1>1 DEF NotBegun, OnlyCurrentStepOutstanding
<1>2. ASSUME NEW k \in 0 .. StepCount, Forward(k) PROVE OnlyCurrentStepOutstanding
  <2>1. SUFFICES ASSUME NEW m \in fired
                 PROVE  Unfinished(m) <=> /\ saga.currentStep = m.step
                                          /\ m.type = "REQUEST" <=> saga.sagaStatus = "STARTED"
    BY DEF OnlyCurrentStepOutstanding
  <2>2. m \in Message /\ m.type = "REQUEST" /\ m.step <= k /\ m.step \in Step
    BY <1>2 DEF Forward, Message
  <2>3. AnswersTo(m) = {AnswerOf(m.step, "SUCCEEDED"), AnswerOf(m.step, "FAILED")}
    BY <2>2, AnswersFacts
  <2>4. Unfinished(m) <=> m.step = k
    <3>1. AnswerOf(m.step, "FAILED") \notin consumed
      BY <1>2 DEF Forward, AnswerOf
    <3>2. AnswerOf(m.step, "SUCCEEDED") \in consumed <=> m.step < k
      BY <1>2, <2>2, AnswerFacts DEF Forward
    <3> QED BY <2>2, <2>3, <3>1, <3>2 DEF Unfinished, Step
  <2>5. saga.currentStep = m.step <=> m.step = k
    BY <1>2, <2>2 DEF Forward, ForwardRow, Step, NoStep
  <2>6. m.step = k => saga.sagaStatus = "STARTED"
    BY <1>2, <2>2 DEF Forward, ForwardRow, Step
  <2> QED BY <2>2, <2>4, <2>5, <2>6
<1>3. ASSUME NEW f \in Step, NEW k \in NoStep .. f - 1, Backward(f, k)
      PROVE  OnlyCurrentStepOutstanding
  <2>1. SUFFICES ASSUME NEW m \in fired
                 PROVE  Unfinished(m) <=> /\ saga.currentStep = m.step
                                          /\ m.type = "REQUEST" <=> saga.sagaStatus = "STARTED"
    BY DEF OnlyCurrentStepOutstanding
  <2>2. m \in Message /\ m.step \in Step /\ m.type \in {"REQUEST", "CANCEL"}
    BY <1>3 DEF Backward, Message
  <2>3. saga.currentStep = k /\ saga.sagaStatus # "STARTED"
    BY <1>3 DEF Backward, BackwardRow
  <2>4. CASE m.type = "REQUEST"
    <3>1. m.step <= f
      BY <1>3, <2>4 DEF Backward
    <3>2. m.step < f => AnswerOf(m.step, "SUCCEEDED") \in consumed
      BY <1>3, <2>2, AnswerFacts DEF Backward
    <3>3. m.step = f => AnswerOf(m.step, "FAILED") \in consumed
      BY <1>3, <2>2, AnswerFacts DEF Backward
    <3>4. ~ Unfinished(m)
      BY <2>2, <2>4, <3>1, <3>2, <3>3, AnswersFacts DEF Unfinished, Step
    <3> QED BY <2>3, <2>4, <3>4
  <2>5. CASE m.type = "CANCEL"
    <3>1. k <= m.step /\ m.step < f
      BY <1>3, <2>5 DEF Backward
    <3>2. AnswerOf(m.step, "COMPENSATED") \in consumed <=> k < m.step
      BY <1>3, <2>2, <3>1, AnswerFacts DEF Backward
    <3>3. Unfinished(m) <=> m.step = k
      BY <2>2, <2>5, <3>1, <3>2, AnswersFacts DEF Unfinished, Step, NoStep
    <3> QED BY <2>3, <2>5, <3>3
  <2> QED BY <2>2, <2>4, <2>5
<1> QED BY <1>1, <1>2, <1>3 DEF ProtocolInv

LEMMA InvImpliesNoThrow == ProtocolInv => HandlerNeverThrows
<1>1. ASSUME NEW k \in 0 .. StepCount, Forward(k), NEW a \in answers \ consumed
      PROVE  saga.currentStep # NoStep
  BY <1>1 DEF Forward, ForwardRow, Step, NoStep
<1>2. ASSUME NEW f \in Step, NEW k \in NoStep .. f - 1, Backward(f, k), NEW a \in answers \ consumed
      PROVE  saga.currentStep # NoStep
  BY <1>2 DEF Backward, BackwardRow, Step, NoStep
<1> QED BY <1>1, <1>2 DEF ProtocolInv, NotBegun, HandlerNeverThrows, OnStepEventThrows, GoBackThrows

LEMMA AnswersAreTold ==
  /\ \A i, j, s, t : AnswerOf(i, s) = AnswerOf(j, t) <=> i = j /\ s = t
  /\ \A i, s : /\ Answered(i, s) <=> AnswerOf(i, s) \in answers
               /\ Consumed(i, s) <=> AnswerOf(i, s) \in consumed
BY DEF AnswerOf, Answered, Consumed

LEMMA InitialSegment ==
  ASSUME NEW k \in NoStep .. StepCount - 1, \A i \in Step : i \in InEffect <=> i <= k
  PROVE  InEffect = 0 .. k
<1>1. ASSUME NEW i
      PROVE  i \in InEffect <=> i \in 0 .. k
  BY DEF InEffect, Step, NoStep
<1> QED BY <1>1

Refused == \E i \in Step : Answered(i, "FAILED")

\* What the participants have done, at each point of the way forward.
ForwardSeen(k) ==
  /\ answers = consumed => InEffect = 0 .. k - 1
  /\ k \in Step /\ answers = consumed \union {AnswerOf(k, "SUCCEEDED")} => InEffect = 0 .. k
  /\ k \in Step /\ answers = consumed \union {AnswerOf(k, "FAILED")} => InEffect = 0 .. k - 1
  /\ Refused <=> k \in Step /\ answers = consumed \union {AnswerOf(k, "FAILED")}
  /\ Outcome = IF k = StepCount THEN "committed" ELSE "pending"

\* And at each point of the way back.
BackwardSeen(f, k) ==
  /\ answers = consumed => InEffect = 0 .. k
  /\ k \in Step /\ answers = consumed \union {AnswerOf(k, "COMPENSATED")} => InEffect = 0 .. k - 1
  /\ Consumed(f, "FAILED") /\ Refused
  /\ Outcome = IF k = NoStep THEN "rolled back" ELSE "pending"

LEMMA ForwardView ==
  ASSUME NEW k \in 0 .. StepCount, Forward(k)
  PROVE  ForwardSeen(k)
<1>1. \A i \in Step : /\ AnswerOf(i, "SUCCEEDED") \in consumed <=> i < k
                      /\ AnswerOf(i, "FAILED") \notin consumed
                      /\ AnswerOf(i, "COMPENSATED") \notin consumed
  BY AnswerFacts DEF Forward
<1>2. \/ answers = consumed
      \/ /\ k \in Step
         /\ \/ answers = consumed \union {AnswerOf(k, "SUCCEEDED")}
            \/ answers = consumed \union {AnswerOf(k, "FAILED")}
  BY DEF Forward, AnswerOf
<1>3. answers = consumed => InEffect = 0 .. k - 1
  <2>1. SUFFICES ASSUME answers = consumed PROVE InEffect = 0 .. k - 1
    OBVIOUS
  <2>2. \A i \in Step : i \in InEffect <=> i <= k - 1
    BY <1>1, <2>1, AnswersAreTold DEF InEffect, Step
  <2> QED BY <2>2, InitialSegment DEF NoStep
<1>4. k \in Step /\ answers = consumed \union {AnswerOf(k, "SUCCEEDED")} => InEffect = 0 .. k
  <2>1. SUFFICES ASSUME k \in Step, answers = consumed \union {AnswerOf(k, "SUCCEEDED")}
                 PROVE  InEffect = 0 .. k
    OBVIOUS
  <2>2. \A i \in Step : i \in InEffect <=> i <= k
    BY <1>1, <2>1, AnswersAreTold DEF InEffect, Step
  <2> QED BY <2>1, <2>2, InitialSegment DEF Step, NoStep
<1>5. k \in Step /\ answers = consumed \union {AnswerOf(k, "FAILED")} => InEffect = 0 .. k - 1
  <2>1. SUFFICES ASSUME k \in Step, answers = consumed \union {AnswerOf(k, "FAILED")}
                 PROVE  InEffect = 0 .. k - 1
    OBVIOUS
  <2>2. \A i \in Step : i \in InEffect <=> i <= k - 1
    BY <1>1, <2>1, AnswersAreTold DEF InEffect, Step
  <2> QED BY <2>2, InitialSegment DEF NoStep
<1>6. Refused <=> k \in Step /\ answers = consumed \union {AnswerOf(k, "FAILED")}
  BY <1>1, <1>2, AnswersAreTold DEF Refused
<1>7. Outcome = IF k = StepCount THEN "committed" ELSE "pending"
  BY DEF Outcome, Forward, ForwardRow
<1> QED BY <1>3, <1>4, <1>5, <1>6, <1>7 DEF ForwardSeen

LEMMA BackwardView ==
  ASSUME NEW f \in Step, NEW k \in NoStep .. f - 1, Backward(f, k)
  PROVE  BackwardSeen(f, k)
<1>1. \A i \in Step : /\ AnswerOf(i, "SUCCEEDED") \in consumed <=> i < f
                      /\ AnswerOf(i, "FAILED") \in consumed <=> i = f
                      /\ AnswerOf(i, "COMPENSATED") \in consumed <=> k < i /\ i < f
  BY AnswerFacts DEF Backward
<1>2. \/ answers = consumed
      \/ k \in Step /\ answers = consumed \union {AnswerOf(k, "COMPENSATED")}
  BY DEF Backward, AnswerOf
<1>3. answers = consumed => InEffect = 0 .. k
  <2>1. SUFFICES ASSUME answers = consumed PROVE InEffect = 0 .. k
    OBVIOUS
  <2>2. \A i \in Step : i \in InEffect <=> i <= k
    BY <1>1, <2>1, AnswersAreTold DEF InEffect, Step, NoStep
  <2>3. k \in NoStep .. StepCount - 1
    BY DEF Step, NoStep
  <2> QED BY <2>2, <2>3, InitialSegment
<1>4. k \in Step /\ answers = consumed \union {AnswerOf(k, "COMPENSATED")}
        => InEffect = 0 .. k - 1
  <2>1. SUFFICES ASSUME k \in Step, answers = consumed \union {AnswerOf(k, "COMPENSATED")}
                 PROVE  InEffect = 0 .. k - 1
    OBVIOUS
  <2>2. \A i \in Step : i \in InEffect <=> i <= k - 1
    BY <1>1, <2>1, AnswersAreTold DEF InEffect, Step, NoStep
  <2>3. k - 1 \in NoStep .. StepCount - 1
    BY <2>1 DEF Step, NoStep
  <2> QED BY <2>2, <2>3, InitialSegment
<1>5. Consumed(f, "FAILED") /\ Refused
  BY <1>1, <1>2, AnswersAreTold DEF Refused
<1>6. Outcome = IF k = NoStep THEN "rolled back" ELSE "pending"
  BY DEF Outcome, Backward, BackwardRow
<1> QED BY <1>3, <1>4, <1>5, <1>6 DEF BackwardSeen

LEMMA NotBegunView ==
  ASSUME NotBegun
  PROVE  InEffect = {} /\ ~ Refused /\ Outcome = "pending"
BY DEF NotBegun, InEffect, Refused, Answered, Outcome, NoRow

\* The views, stated so that they can be used of the next state as well.
Seen ==
  /\ \A k \in 0 .. StepCount : Forward(k) => ForwardSeen(k)
  /\ \A f \in Step : \A k \in NoStep .. f - 1 : Backward(f, k) => BackwardSeen(f, k)

LEMMA AlwaysSeen == Seen
BY ForwardView, BackwardView DEF Seen

LEMMA SeenNext == Seen'
BY AlwaysSeen, PTL

LEMMA InvImpliesOutcome == ProtocolInv => StatusTellsTheOutcome
<1>1. ASSUME NotBegun PROVE StatusTellsTheOutcome
  BY <1>1 DEF NotBegun, NoRow, StatusTellsTheOutcome
<1>2. ASSUME NEW k \in 0 .. StepCount, Forward(k) PROVE StatusTellsTheOutcome
  <2>1. saga.sagaStatus = "COMPLETED" => answers = consumed /\ k = StepCount
    BY <1>2 DEF Forward, ForwardRow, Step
  <2>2. saga.sagaStatus # "ABORTED"
    BY <1>2 DEF Forward, ForwardRow
  <2> QED BY <1>2, <2>1, <2>2, ForwardView DEF ForwardSeen, StatusTellsTheOutcome, Step
<1>3. ASSUME NEW f \in Step, NEW k \in NoStep .. f - 1, Backward(f, k) PROVE StatusTellsTheOutcome
  <2>1. saga.sagaStatus = "ABORTED" => answers = consumed /\ k = NoStep
    BY <1>3 DEF Backward, BackwardRow, Step, NoStep
  <2>2. saga.sagaStatus # "COMPLETED"
    BY <1>3 DEF Backward, BackwardRow
  <2>3. 0 .. NoStep = {}
    BY DEF NoStep
  <2>4. (answers = consumed => InEffect = 0 .. k) /\ Consumed(f, "FAILED")
    BY <1>3, BackwardView DEF BackwardSeen
  <2>5. saga.sagaStatus = "ABORTED" => InEffect = {}
    BY <2>1, <2>3, <2>4
  <2> QED BY <2>2, <2>4, <2>5 DEF StatusTellsTheOutcome
<1> QED BY <1>1, <1>2, <1>3 DEF ProtocolInv

\* The row, the messages and the answers are of the declared types.
THEOREM SagaTypes == ProtocolSafety => []ProtocolTypeOK
BY SagaInvariant, InvImpliesTypeOK, PTL

\* Only the message of the current step is ever outstanding.
THEOREM SagaOneParticipantAtATime == ProtocolSafety => []OnlyCurrentStepOutstanding
BY SagaInvariant, InvImpliesOnlyCurrent, PTL

\* No delivery of an answer makes goBack reach outside the list of the step ids.
THEOREM SagaNeverThrows == ProtocolSafety => []HandlerNeverThrows
BY SagaInvariant, InvImpliesNoThrow, PTL

\* COMPLETED means every local transaction is in effect, ABORTED that none is.
THEOREM SagaStatusTellsTheOutcome == ProtocolSafety => []StatusTellsTheOutcome
BY SagaInvariant, InvImpliesOutcome, PTL

-------------------------------------------------------------------------------
(***************************************************************************)
(* What a step may never do.                                               *)
(***************************************************************************)
LEMMA EndedTakesNoStep ==
  ASSUME ProtocolInv, saga.sagaStatus \in {"COMPLETED", "ABORTED"}, ProtocolNext
  PROVE  UNCHANGED <<saga, fired>>
<1>1. answers = consumed
  <2>1. ASSUME NEW k \in 0 .. StepCount, Forward(k) PROVE answers = consumed
    BY <2>1 DEF Forward, ForwardRow, Step
  <2>2. ASSUME NEW f \in Step, NEW k \in NoStep .. f - 1, Backward(f, k)
        PROVE  answers = consumed
    BY <2>2 DEF Backward, BackwardRow, Step, NoStep
  <2> QED BY <2>1, <2>2 DEF ProtocolInv, NotBegun
<1>2. ~ BeginSaga
  BY DEF BeginSaga, NoRow
<1>3. \A a \in Answer : ~ HandleAnswer(a)
  BY <1>1 DEF HandleAnswer
<1>4. \A m \in Message : Participate(m) => UNCHANGED <<saga, fired>>
  BY DEF Participate
<1> QED BY <1>2, <1>3, <1>4 DEF ProtocolNext

\* A saga that has ended stays as it ended.
THEOREM SagaEndIsFinal == ProtocolSafety => EndIsFinal
<1>1. ProtocolInv /\ [ProtocolNext]_protocolVars
        => [saga.sagaStatus \in {"COMPLETED", "ABORTED"} => UNCHANGED <<saga, fired>>]_protocolVars
  BY EndedTakesNoStep
<1> QED BY <1>1, SagaInvariant, PTL DEF ProtocolSafety, EndIsFinal

-------------------------------------------------------------------------------
(***************************************************************************)
(* The saga implements the all-or-nothing transaction.                     *)
(***************************************************************************)
LEMMA InitIsAbstract == ProtocolInit => Promise!AbstractInit
<1> SUFFICES ASSUME ProtocolInit PROVE Promise!AbstractInit
  OBVIOUS
<1>1. NotBegun
  BY DEF ProtocolInit, NotBegun
<1> QED BY <1>1, NotBegunView DEF Refused, Promise!AbstractInit

\* begin() says nothing to the originator.
LEMMA BeginIsStutter ==
  ASSUME ProtocolInv, BeginSaga
  PROVE  UNCHANGED Promise!abstractVars
<1>1. UNCHANGED answers
  BY DEF BeginSaga
<1>2. Outcome = "pending" /\ Outcome' = "pending"
  <2>1. saga' = ForwardRow(0) /\ saga = NoRow
    BY BeginIsForward DEF BeginSaga
  <2> QED BY <2>1 DEF Outcome, ForwardRow, NoRow
<1> QED BY <1>1, <1>2 DEF InEffect, Answered, Promise!abstractVars

\* A participant performs its step, refuses it, or undoes it.
LEMMA ParticipateIsAbstract ==
  ASSUME ProtocolInv, NEW m \in Message, Participate(m)
  PROVE  Promise!AbstractNext
<1>1. ~ NotBegun /\ UNCHANGED consumed
  BY DEF NotBegun, Participate
<1>2. ASSUME NEW k \in 0 .. StepCount, Forward(k)
      PROVE  Promise!AbstractNext
  <2>1. /\ k \in Step /\ answers = consumed /\ UNCHANGED saga /\ Forward(k)'
        /\ \/ answers' = answers \union {AnswerOf(k, "SUCCEEDED")}
           \/ answers' = answers \union {AnswerOf(k, "FAILED")}
    BY <1>2, ForwardParticipate
  <2>2. AnswerOf(k, "FAILED") \notin consumed /\ k # StepCount
    BY <1>2, <2>1 DEF Forward, AnswerOf, Step
  <2>3. InEffect = 0 .. k - 1 /\ Outcome = "pending" /\ Outcome' = "pending" /\ ~ Refused
    BY <1>2, <2>1, <2>2, ForwardView DEF ForwardSeen, Outcome
  <2>4. CASE answers' = answers \union {AnswerOf(k, "SUCCEEDED")}
    <3>1. InEffect' = 0 .. k
      BY <1>1, <2>1, <2>4, SeenNext DEF Seen, ForwardSeen
    <3>2. ~ Refused'
      <4>1. answers' # consumed' \union {AnswerOf(k, "FAILED")}
        BY <1>1, <2>1, <2>2, <2>4, AnswersAreTold
      <4> QED BY <2>1, <4>1, SeenNext DEF Seen, ForwardSeen
    <3>3. Promise!Perform(k)
      BY <2>3, <3>1, <3>2 DEF Refused, Promise!Perform
    <3> QED BY <2>1, <3>3 DEF Step, Promise!AbstractNext
  <2>5. CASE answers' = answers \union {AnswerOf(k, "FAILED")}
    <3>1. InEffect' = 0 .. k - 1 /\ Refused'
      BY <1>1, <2>1, <2>5, SeenNext DEF Seen, ForwardSeen
    <3>2. InEffect # 0 .. StepCount - 1
      BY <2>1, <2>3 DEF Step
    <3>3. Promise!Refuse
      BY <2>3, <3>1, <3>2 DEF Refused, Promise!Refuse
    <3> QED BY <3>3 DEF Promise!AbstractNext
  <2> QED BY <2>1, <2>4, <2>5
<1>3. ASSUME NEW f \in Step, NEW k \in NoStep .. f - 1, Backward(f, k)
      PROVE  Promise!AbstractNext
  <2>1. /\ k \in Step /\ answers = consumed /\ UNCHANGED saga /\ Backward(f, k)'
        /\ answers' = answers \union {AnswerOf(k, "COMPENSATED")}
    BY <1>3, BackwardParticipate
  <2>2. InEffect = 0 .. k /\ Refused /\ Outcome = "pending" /\ Outcome' = "pending"
    <3>1. k # NoStep
      BY <2>1 DEF Step, NoStep
    <3> QED BY <1>3, <2>1, <3>1, BackwardView DEF BackwardSeen, Outcome
  <2>3. InEffect' = 0 .. k - 1 /\ Refused'
    BY <1>1, <2>1, SeenNext DEF Seen, BackwardSeen
  <2>4. Promise!Undo(k)
    BY <2>2, <2>3 DEF Refused, Promise!Undo
  <2> QED BY <2>1, <2>4 DEF Step, Promise!AbstractNext
<1> QED BY <1>1, <1>2, <1>3 DEF ProtocolInv

\* The saga reports the outcome when it handles the last answer, and nothing before.
LEMMA HandleAnswerIsAbstract ==
  ASSUME ProtocolInv, NEW a \in Answer, HandleAnswer(a)
  PROVE  Promise!AbstractNext \/ UNCHANGED Promise!abstractVars
<1>1. ~ NotBegun /\ UNCHANGED answers
  BY DEF NotBegun, HandleAnswer
<1>2. UNCHANGED <<InEffect, Refused>>
  BY <1>1 DEF InEffect, Refused, Answered
<1>3. ASSUME NEW k \in 0 .. StepCount, Forward(k)
      PROVE  Promise!AbstractNext \/ UNCHANGED Promise!abstractVars
  <2>1. /\ k \in Step /\ answers = consumed \union {a}
        /\ \/ a = AnswerOf(k, "SUCCEEDED") /\ Forward(k + 1)'
           \/ a = AnswerOf(k, "FAILED") /\ Backward(k, k - 1)'
    BY <1>3, ForwardAnswer
  <2>2. Outcome = "pending"
    <3>1. k # StepCount
      BY <2>1 DEF Step
    <3> QED BY <1>3, <3>1, ForwardView DEF ForwardSeen
  <2>3. CASE a = AnswerOf(k, "SUCCEEDED") /\ Forward(k + 1)'
    <3>1. k + 1 \in 0 .. StepCount
      BY <2>1 DEF Step
    <3>2. Outcome' = IF k + 1 = StepCount THEN "committed" ELSE "pending"
      BY <2>3, <3>1, SeenNext DEF Seen, ForwardSeen
    <3>3. InEffect = 0 .. k /\ ~ Refused
      <4>1. answers # consumed \union {AnswerOf(k, "FAILED")}
        BY <1>3, <2>1, <2>3 DEF Forward, AnswerOf
      <4> QED BY <1>3, <2>1, <2>3, <4>1, ForwardView DEF ForwardSeen
    <3>4. CASE k + 1 = StepCount
      <4>1. InEffect = 0 .. StepCount - 1
        BY <2>1, <3>3, <3>4 DEF Step
      <4>2. Promise!Commit
        BY <1>2, <2>2, <3>2, <3>3, <3>4, <4>1 DEF Refused, Promise!Commit
      <4> QED BY <4>2 DEF Promise!AbstractNext
    <3>5. CASE k + 1 # StepCount
      BY <1>2, <2>2, <3>2, <3>5 DEF Refused, Promise!abstractVars
    <3> QED BY <3>4, <3>5
  <2>4. CASE a = AnswerOf(k, "FAILED") /\ Backward(k, k - 1)'
    <3>1. k - 1 \in NoStep .. k - 1
      BY <2>1 DEF Step, NoStep
    <3>2. Outcome' = IF k - 1 = NoStep THEN "rolled back" ELSE "pending"
      BY <2>1, <2>4, <3>1, SeenNext DEF Seen, BackwardSeen
    <3>3. InEffect = 0 .. k - 1 /\ Refused
      BY <1>3, <2>1, <2>4, ForwardView DEF ForwardSeen
    <3>4. CASE k - 1 = NoStep
      <4>1. InEffect = {}
        BY <2>1, <3>3, <3>4 DEF Step, NoStep
      <4>2. Promise!RollBack
        BY <1>2, <2>2, <3>2, <3>3, <3>4, <4>1 DEF Refused, Promise!RollBack
      <4> QED BY <4>2 DEF Promise!AbstractNext
    <3>5. CASE k - 1 # NoStep
      BY <1>2, <2>2, <3>2, <3>5 DEF Refused, Promise!abstractVars
    <3> QED BY <3>4, <3>5
  <2> QED BY <2>1, <2>3, <2>4
<1>4. ASSUME NEW f \in Step, NEW k \in NoStep .. f - 1, Backward(f, k)
      PROVE  Promise!AbstractNext \/ UNCHANGED Promise!abstractVars
  <2>1. /\ k \in 0 .. f - 1 /\ answers = consumed \union {a}
        /\ a = AnswerOf(k, "COMPENSATED") /\ Backward(f, k - 1)'
    BY <1>4, BackwardAnswer
  <2>2. k \in Step /\ k # NoStep /\ k - 1 \in NoStep .. f - 1
    BY <2>1 DEF Step, NoStep
  <2>3. Outcome = "pending" /\ Refused /\ InEffect = 0 .. k - 1
    BY <1>4, <2>1, <2>2, BackwardView DEF BackwardSeen
  <2>4. Outcome' = IF k - 1 = NoStep THEN "rolled back" ELSE "pending"
    BY <2>1, <2>2, SeenNext DEF Seen, BackwardSeen
  <2>5. CASE k - 1 = NoStep
    <3>1. InEffect = {}
      BY <2>3, <2>5 DEF NoStep
    <3>2. Promise!RollBack
      BY <1>2, <2>3, <2>4, <2>5, <3>1 DEF Refused, Promise!RollBack
    <3> QED BY <3>2 DEF Promise!AbstractNext
  <2>6. CASE k - 1 # NoStep
    BY <1>2, <2>3, <2>4, <2>6 DEF Refused, Promise!abstractVars
  <2> QED BY <2>5, <2>6
<1> QED BY <1>1, <1>3, <1>4 DEF ProtocolInv

\* Every saga, of any number of steps, is an all-or-nothing transaction.
THEOREM SagaKeepsPromise == ProtocolSafety => KeepsPromise
<1>1. ProtocolInv /\ [ProtocolNext]_protocolVars
        => [Promise!AbstractNext]_(Promise!abstractVars)
  <2> SUFFICES ASSUME ProtocolInv, [ProtocolNext]_protocolVars
               PROVE  Promise!AbstractNext \/ UNCHANGED Promise!abstractVars
    OBVIOUS
  <2>1. CASE BeginSaga
    BY <2>1, BeginIsStutter
  <2>2. ASSUME NEW m \in Message, Participate(m)
        PROVE  Promise!AbstractNext
    BY <2>2, ParticipateIsAbstract
  <2>3. ASSUME NEW a \in Answer, HandleAnswer(a)
        PROVE  Promise!AbstractNext \/ UNCHANGED Promise!abstractVars
    BY <2>3, HandleAnswerIsAbstract
  <2>4. CASE UNCHANGED protocolVars
    BY <2>4 DEF protocolVars, InEffect, Answered, Outcome, Promise!abstractVars
  <2> QED BY <2>1, <2>2, <2>3, <2>4 DEF ProtocolNext
<1> QED BY <1>1, InitIsAbstract, SagaInvariant, PTL
        DEF ProtocolSafety, KeepsPromise, Promise!AbstractSpec

===============================================================================
