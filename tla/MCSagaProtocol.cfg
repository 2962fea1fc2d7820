\* A saga of ten steps, with every choice of the step that is refused.
CONSTANT StepCount = 10
SPECIFICATION ProtocolSpec
INVARIANTS ProtocolTypeOK OnlyCurrentStepOutstanding HandlerNeverThrows ProtocolInv
PROPERTIES EndIsFinal KeepsPromise EverySagaEnds
\* A saga that has ended takes no further step.
CHECK_DEADLOCK FALSE
