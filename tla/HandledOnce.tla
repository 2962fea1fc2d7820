------------------------------ MODULE HandledOnce ------------------------------
(***************************************************************************)
(* What the consumer of an outbox promises: every published event has its  *)
(* effect once in the lifetime of the consumer's database, however often   *)
(* it is delivered, and the log of the events and their effects are never  *)
(* apart.  A database that is created anew knows neither.                  *)
(***************************************************************************)
EXTENDS Naturals, Sequences

CONSTANTS
  Effect(_),   \* the rows that handling an event adds
  Events

VARIABLES
  published,   \* sequence of events: an event is known by its place in it
  handled,     \* the places of the events that had their effect
  effects

onceVars == <<published, handled, effects>>

OnceInit == published = <<>> /\ handled = {} /\ effects = <<>>

Publish(e) ==
  /\ published' = Append(published, e)
  /\ UNCHANGED <<handled, effects>>

Handle(n) ==
  /\ n \in DOMAIN published \ handled
  /\ handled' = handled \union {n}
  /\ effects' = effects \o Effect(published[n])
  /\ UNCHANGED published

Recreate == handled' = {} /\ effects' = <<>> /\ UNCHANGED published

OnceNext ==
  \/ \E e \in Events : Publish(e)
  \/ \E n \in DOMAIN published : Handle(n)
  \/ Recreate

OnceSpec == OnceInit /\ [][OnceNext]_onceVars

===============================================================================
