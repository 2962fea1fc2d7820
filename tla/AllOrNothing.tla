----------------------------- MODULE AllOrNothing -----------------------------
(***************************************************************************)
(* What a saga promises its originator: a transaction of StepCount local   *)
(* transactions that ends with all of them in effect or with none, that    *)
(* runs them in order and undoes them in the opposite order.               *)
(***************************************************************************)
EXTENDS Integers

CONSTANT StepCount

VARIABLES
  inEffect,     \* the steps whose local transaction is committed and not undone
  refused,      \* some participant has refused its step
  outcome       \* what the originator has been told

abstractVars == <<inEffect, refused, outcome>>

AbstractInit ==
  /\ inEffect = {}
  /\ refused = FALSE
  /\ outcome = "pending"

\* The next step commits its local transaction.
Perform(i) ==
  /\ outcome = "pending" /\ ~ refused
  /\ inEffect = 0 .. i - 1
  /\ inEffect' = 0 .. i
  /\ UNCHANGED <<refused, outcome>>

\* The next step cannot commit: from here on there is only the way back.
Refuse ==
  /\ outcome = "pending" /\ ~ refused
  /\ inEffect # 0 .. StepCount - 1
  /\ refused' = TRUE
  /\ UNCHANGED <<inEffect, outcome>>

\* The last step in effect is compensated.
Undo(i) ==
  /\ outcome = "pending" /\ refused
  /\ inEffect = 0 .. i
  /\ inEffect' = 0 .. i - 1
  /\ UNCHANGED <<refused, outcome>>

Commit ==
  /\ outcome = "pending" /\ ~ refused
  /\ inEffect = 0 .. StepCount - 1
  /\ outcome' = "committed"
  /\ UNCHANGED <<inEffect, refused>>

RollBack ==
  /\ outcome = "pending" /\ refused
  /\ inEffect = {}
  /\ outcome' = "rolled back"
  /\ UNCHANGED <<inEffect, refused>>

AbstractNext ==
  \/ \E i \in 0 .. StepCount - 1 : Perform(i) \/ Undo(i)
  \/ Refuse \/ Commit \/ RollBack

AbstractSpec == AbstractInit /\ [][AbstractNext]_abstractVars
===============================================================================
