------------------------- MODULE MCAuditAdministration -------------------------
(***************************************************************************)
(* AuditAdministration for TLC.  The enricher and the threads of the admin *)
(* service meet in the topics only, so that of the orders of their steps   *)
(* it is enough to look at those in which each finishes what it has begun. *)
(***************************************************************************)
EXTENDS AuditAdministration, TLC

AtWork(stages) == unfired # {} \/ \E i \in DOMAIN process : process[i] \in stages

\* While the threads of the admin service are at work, the topics grow by the record
\* they send; the enricher goes on when no timer runs either, and stays in its loop
\* until it is idle.
OneAtATime ==
  /\ AtWork({"inserted", "fired", "sending"}) =>
       /\ UNCHANGED <<changes, rows>>
       /\ DOMAIN process' = DOMAIN process
  /\ AtWork({"waiting", "inserted", "fired", "sending"}) =>
       UNCHANGED <<loaded, taskVars, threadVars, committed, crashes>>
  /\ pc # "idle" => UNCHANGED <<topicVars, adminVars>>

\* Nobody reads the transaction of a snapshot event.
OneSnapshot == \A i \in DOMAIN changes : Auditable(i) \/ changes[i].tx = 1

\* The enricher is restarted, or a record is lost, but not both.
OneFault == crashes = 0 \/ Processes("lost") = {}

BoundedSpec ==
  AdminInit /\ [][AdminNext /\ OneAtATime /\ (OneSnapshot /\ OneFault)']_allVars
            /\ AdminFairness

===============================================================================
