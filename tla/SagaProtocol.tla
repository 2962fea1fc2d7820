----------------------------- MODULE SagaProtocol -----------------------------
(***************************************************************************)
(* One saga of any number of steps, run by SagaBase over participants that *)
(* answer each message once.  Messages and answers stay in the topics, so  *)
(* an answer may be delivered again at any time: the message log of the    *)
(* order service (alreadyProcessed / processed) is what ignores it.        *)
(***************************************************************************)
EXTENDS SagaBase

VARIABLES
  saga,         \* the row of the SagaState table, NoRow before begin
  fired,        \* the messages written to the outbox
  answers,      \* what the participants have answered
  consumed      \* the answers in the order service's message log

protocolVars == <<saga, fired, answers, consumed>>

Answer == [step : Step, status : {"SUCCEEDED", "FAILED", "COMPENSATED"}]

\* The answers a participant may give to a message.
AnswersTo(m) ==
  [step : {m.step},
   status : IF m.type = "REQUEST" THEN {"SUCCEEDED", "FAILED"} ELSE {"COMPENSATED"}]

ProtocolTypeOK ==
  /\ saga \in Row \union {NoRow}
  /\ fired \subseteq Message
  /\ answers \subseteq Answer
  /\ consumed \subseteq answers

ProtocolInit ==
  /\ saga = NoRow
  /\ fired = {} /\ answers = {} /\ consumed = {}

BeginSaga ==
  /\ saga = NoRow
  /\ saga' = Begin.row
  /\ fired' = Begin.fired
  /\ UNCHANGED <<answers, consumed>>

\* A participant runs its local transaction and answers; its own message log
\* makes it do so once.
Participate(m) ==
  /\ m \in fired
  /\ AnswersTo(m) \intersect answers = {}
  /\ \E a \in AnswersTo(m) : answers' = answers \union {a}
  /\ UNCHANGED <<saga, fired, consumed>>

\* Mutant: the message log is not consulted.
HandleAgain(a) ==
  /\ a \in answers
  /\ ~ OnStepEventThrows(saga, a.status)
  /\ LET next == OnStepEvent(saga, a.step, a.status) IN
       /\ saga' = next.row
       /\ fired' = fired \union next.fired
  /\ consumed' = consumed \union {a}
  /\ UNCHANGED answers

\* The order service's handler, in one transaction.
HandleAnswer(a) ==
  /\ a \in answers \ consumed
  /\ ~ OnStepEventThrows(saga, a.status)
  /\ LET next == OnStepEvent(saga, a.step, a.status) IN
       /\ saga' = next.row
       /\ fired' = fired \union next.fired
  /\ consumed' = consumed \union {a}
  /\ UNCHANGED answers

ProtocolNext ==
  \/ BeginSaga
  \/ \E m \in Message : Participate(m)
  \/ \E a \in Answer : HandleAnswer(a)

\* A participant that is up polls its topic; the order service polls the answers.
ProtocolFairness ==
  /\ \A m \in Message : WF_protocolVars(Participate(m))
  /\ \A a \in Answer : WF_protocolVars(HandleAnswer(a))

ProtocolSafety == ProtocolInit /\ [][ProtocolNext]_protocolVars
ProtocolSpec   == ProtocolSafety /\ ProtocolFairness

-------------------------------------------------------------------------------
Answered(i, status) == [step |-> i, status |-> status] \in answers
Consumed(i, status) == [step |-> i, status |-> status] \in consumed

\* The steps whose local transaction is committed and not compensated.
InEffect == {i \in Step : Answered(i, "SUCCEEDED") /\ ~ Answered(i, "COMPENSATED")}

Outcome ==
  CASE saga.sagaStatus = "COMPLETED" -> "committed"
    [] saga.sagaStatus = "ABORTED"   -> "rolled back"
    [] OTHER                         -> "pending"

Promise == INSTANCE AllOrNothing WITH
  inEffect <- InEffect,
  refused  <- \E i \in Step : Answered(i, "FAILED"),
  outcome  <- Outcome

(***************************************************************************)
(* Properties.                                                             *)
(***************************************************************************)
Unfinished(m) == AnswersTo(m) \intersect consumed = {}

\* Exactly the message of the current step is outstanding: a saga never has two
\* participants at work, and one that has none has ended.  onStepEvent relies on
\* it, as it takes any answer for the answer to the current step.
OnlyCurrentStepOutstanding ==
  \A m \in fired :
    Unfinished(m) <=> /\ saga.currentStep = m.step
                      /\ m.type = "REQUEST" <=> saga.sagaStatus = "STARTED"

\* No answer ever finds the saga without a current step to go back from: the
\* out-of-bounds access in getPreviousStep is never reached.
HandlerNeverThrows ==
  \A a \in answers \ consumed : ~ OnStepEventThrows(saga, a.status)

\* The status column agrees with what the participants did: COMPLETED when every
\* local transaction is in effect, ABORTED when one was refused and none is.
StatusTellsTheOutcome ==
  /\ saga.sagaStatus = "COMPLETED" => InEffect = Step
  /\ saga.sagaStatus = "ABORTED" =>
       InEffect = {} /\ \E i \in Step : Consumed(i, "FAILED")

\* A saga that has ended stays as it ended, whatever is delivered to it again.
EndIsFinal ==
  [][saga.sagaStatus \in {"COMPLETED", "ABORTED"} => UNCHANGED <<saga, fired>>]_protocolVars

\* The saga implements the all-or-nothing transaction.
KeepsPromise == Promise!AbstractSpec

\* Every saga that is begun ends.
EverySagaEnds ==
  saga.sagaStatus = "STARTED" ~> saga.sagaStatus \in {"COMPLETED", "ABORTED"}

-------------------------------------------------------------------------------
(***************************************************************************)
(* The inductive invariant: the row and the topics are those of one of the *)
(* points of the way forward, or of the way back from a refused step.      *)
(***************************************************************************)
NotBegun ==
  /\ saga = NoRow
  /\ fired = {} /\ answers = {} /\ consumed = {}

\* The first k steps have succeeded; step k, if there is one, is running.
ForwardSteps(k) ==
  [i \in Step |-> IF i < k THEN "SUCCEEDED" ELSE IF i = k THEN "STARTED" ELSE NotRun]

ForwardRow(k) ==
  [currentStep |-> IF k = StepCount THEN NoStep ELSE k,
   stepStatus  |-> ForwardSteps(k),
   sagaStatus  |-> IF k = StepCount THEN "COMPLETED" ELSE "STARTED"]

Forward(k) ==
  /\ saga = ForwardRow(k)
  /\ fired = {m \in Message : m.type = "REQUEST" /\ m.step <= k}
  /\ consumed = {a \in Answer : a.status = "SUCCEEDED" /\ a.step < k}
  /\ \/ answers = consumed
     \/ /\ k \in Step
        /\ \E status \in {"SUCCEEDED", "FAILED"} :
             answers = consumed \union {[step |-> k, status |-> status]}

\* Step f has failed and the steps between k and f are compensated; step k, if
\* there is one, is being compensated.
BackwardSteps(f, k) ==
  [i \in Step |-> IF i < k THEN "SUCCEEDED" ELSE IF i = k THEN "COMPENSATING"
                 ELSE IF i < f THEN "COMPENSATED" ELSE IF i = f THEN "FAILED" ELSE NotRun]

BackwardRow(f, k) ==
  [currentStep |-> k,
   stepStatus  |-> BackwardSteps(f, k),
   sagaStatus  |-> IF k = NoStep THEN "ABORTED" ELSE "ABORTING"]

Backward(f, k) ==
  /\ saga = BackwardRow(f, k)
  /\ fired = {m \in Message : IF m.type = "REQUEST" THEN m.step <= f
                                                  ELSE k <= m.step /\ m.step < f}
  /\ consumed = {a \in Answer : \/ a.status = "SUCCEEDED" /\ a.step < f
                                \/ a.status = "FAILED" /\ a.step = f
                                \/ a.status = "COMPENSATED" /\ k < a.step /\ a.step < f}
  /\ \/ answers = consumed
     \/ /\ k \in Step
        /\ answers = consumed \union {[step |-> k, status |-> "COMPENSATED"]}

ProtocolInv ==
  \/ NotBegun
  \/ \E k \in 0 .. StepCount : Forward(k)
  \/ \E f \in Step : \E k \in NoStep .. f - 1 : Backward(f, k)

===============================================================================
