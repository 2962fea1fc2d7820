-------------------------- MODULE AuditAdministration --------------------------
(***************************************************************************)
(* The audit log demo as a whole: the vegetables service, which commits    *)
(* each change together with a row about its transaction; changes made by  *)
(* hand, which have no such row; the log enricher; and the admin service,  *)
(* which looks for changes without metadata and has an administrator fill  *)
(* it in.                                                                  *)
(*                                                                         *)
(* The admin service holds everything in memory: its process instances and *)
(* the facts of its one rule session.  The threads of the timers and those *)
(* of the consumer share the session: each inserts its fact and fires all  *)
(* rules after it, with the steps of others in between.                    *)
(***************************************************************************)
EXTENDS LogEnricher

CONSTANT Requests    \* the transactions of the vegetables service; the others
                     \* are made by hand

ASSUME RequestsAssumption == Requests \subseteq Transactions

VARIABLES
  rows,              \* rows of transaction_context_data not yet in the topic
  process,           \* the process "vegetables" of each change received
  recordsSeen,       \* how much of the topic transaction_context_data was received
  unfired,           \* the records inserted whose thread has yet to fire the rules
  vegetableFacts,    \* the changes in the rule session, those not matched
  transactionFacts   \* the metadata records in it, those not matched

sessionVars == <<vegetableFacts, transactionFacts>>
adminVars   == <<rows, process, recordsSeen, unfired, sessionVars>>
allVars     == <<enricherVars, adminVars>>

\* Where a process is: its timer of two seconds runs; its thread has inserted the
\* change, or fired the rules as well; its task "Fill in audit data" is open; its
\* record is being sent, or was lost on the way; it has ended.
Stage == {"waiting", "inserted", "fired", "task", "sending", "lost", "ended"}

Processes(stage) == {i \in DOMAIN process : process[i] = stage}

AdminTypeOK ==
  /\ rows \in Seq(Requests)
  /\ process \in Seq(Stage) /\ Len(process) <= Len(changes)
  /\ recordsSeen \in 0..Len(context)
  /\ unfired \subseteq 1..recordsSeen
  /\ transactionFacts \subseteq 1..recordsSeen
  /\ vegetableFacts \subseteq DOMAIN process \ Processes("waiting")

AdminInit ==
  /\ EnricherInit
  /\ rows = <<>>
  /\ process = <<>> /\ recordsSeen = 0
  /\ unfired = {} /\ vegetableFacts = {} /\ transactionFacts = {}

-------------------------------------------------------------------------------
\* The database and its connector.

\* The connector's first snapshot: events of rows that were there before.
Snapshot(tx) ==
  /\ \A i \in DOMAIN changes : ~ Auditable(i)
  /\ Produce([tx |-> tx, op |-> "snapshot"])
  /\ UNCHANGED adminVars

Used(tx) ==
  \/ \E i \in DOMAIN changes : Auditable(i) /\ changes[i].tx = tx
  \/ \E n \in DOMAIN context : context[n] = tx
  \/ \E n \in DOMAIN rows : rows[n] = tx

\* A request: manageTransaction() stores the row, and the method changes a
\* vegetable, or nothing (the id is given, or the update changes no field).
CommitRequest(tx) ==
  /\ ~ Used(tx)
  /\ rows' = Append(rows, tx)
  /\ \/ Produce([tx |-> tx, op |-> "change"])
     \/ UNCHANGED enricherVars
  /\ UNCHANGED <<process, recordsSeen, unfired, sessionVars>>

\* A row reaches its topic, in the order of the commits.
RelayRow ==
  /\ rows # <<>>
  /\ Record(Head(rows)) /\ rows' = Tail(rows)
  /\ UNCHANGED <<process, recordsSeen, unfired, sessionVars>>

\* A change by hand; the changes of a transaction are next to each other.
UpdateByHand(tx) ==
  /\ Used(tx) => changes[Len(changes)].tx = tx
  /\ Produce([tx |-> tx, op |-> "change"])
  /\ UNCHANGED adminVars

-------------------------------------------------------------------------------
\* The admin service.

\* Mutant: the rule does not compare the transaction ids.
MatchesAnything(i, n) == i \in DOMAIN changes /\ n \in DOMAIN context

\* The rule "Match events".
Matches(i, n) == changes[i].tx = context[n]

\* fireAllRules(): a match deletes both facts, until no two facts match.  Which of
\* several facts about a transaction is taken is the session's choice.
FireAllRules ==
  \E matched \in SUBSET vegetableFacts, used \in SUBSET transactionFacts :
    /\ \E match \in [matched -> used] :
         /\ \A i \in matched : Matches(i, match[i])
         /\ \A n \in used : \E i \in matched : match[i] = n
         /\ \A i, j \in matched : match[i] = match[j] => i = j
    /\ vegetableFacts' = vegetableFacts \ matched
    /\ transactionFacts' = transactionFacts \ used
    /\ \A i \in vegetableFacts', n \in transactionFacts' : ~ Matches(i, n)

\* The process "vegetables" starts; "Is snapshot?" ends it for snapshot events.
ReceiveChange ==
  /\ Len(process) < Len(changes)
  /\ process' = Append(process,
                 IF Auditable(Len(process) + 1) THEN "waiting" ELSE "ended")
  /\ UNCHANGED <<enricherVars, rows, recordsSeen, unfired, sessionVars>>

GoOn(i, from, to) ==
  /\ i \in DOMAIN process /\ process[i] = from
  /\ process' = [process EXCEPT ![i] = to]

\* Mutant: the timer starts again (timeCycle).
InsertVegetableAgain(i) ==
  /\ i \in DOMAIN process /\ process[i] = "waiting"
  /\ vegetableFacts' = vegetableFacts \union {i}
  /\ UNCHANGED <<enricherVars, rows, process, recordsSeen, unfired, transactionFacts>>

\* Two seconds later: processVegetable() inserts the event.
InsertVegetable(i) ==
  /\ GoOn(i, "waiting", "inserted")
  /\ vegetableFacts' = vegetableFacts \union {i}
  /\ UNCHANGED <<enricherVars, rows, recordsSeen, unfired, transactionFacts>>

\* It fires the rules.
FireForVegetable(i) ==
  /\ GoOn(i, "inserted", "fired")
  /\ FireAllRules
  /\ UNCHANGED <<enricherVars, rows, recordsSeen, unfired>>

\* The gateway "Transaction data missing?": a change that the rule, fired by
\* whichever thread, has set to matched is no longer in the session.
DecideIfMissing(i) ==
  /\ GoOn(i, "fired", IF i \in vegetableFacts THEN "task" ELSE "ended")
  /\ UNCHANGED <<enricherVars, rows, recordsSeen, unfired, sessionVars>>

\* Mutant: a record is forgotten when no change waits for it.
InsertRecordForgetful ==
  /\ recordsSeen < Len(context)
  /\ recordsSeen' = recordsSeen + 1
  /\ unfired' = unfired \union {recordsSeen + 1}
  /\ transactionFacts' = transactionFacts \union
       {n \in {recordsSeen + 1} : \E i \in vegetableFacts : Matches(i, n)}
  /\ UNCHANGED <<enricherVars, rows, process, vegetableFacts>>

\* The process "transactions": processTransaction() inserts the event.
InsertRecord ==
  /\ recordsSeen < Len(context)
  /\ recordsSeen' = recordsSeen + 1
  /\ unfired' = unfired \union {recordsSeen + 1}
  /\ transactionFacts' = transactionFacts \union {recordsSeen + 1}
  /\ UNCHANGED <<enricherVars, rows, process, vegetableFacts>>

\* Mutant: processTransaction() does not fire the rules.
ReturnUnfired(n) ==
  /\ n \in unfired /\ unfired' = unfired \ {n}
  /\ UNCHANGED <<enricherVars, rows, process, recordsSeen, sessionVars>>

\* It fires the rules.
FireForRecord(n) ==
  /\ n \in unfired /\ unfired' = unfired \ {n}
  /\ FireAllRules
  /\ UNCHANGED <<enricherVars, rows, process, recordsSeen>>

\* Mutant: the send task sends nothing.
CompleteTaskUnsent(i) ==
  /\ GoOn(i, "task", "ended")
  /\ UNCHANGED <<enricherVars, rows, recordsSeen, unfired, sessionVars>>

\* The administrator fills in the task, and the send task hands a record about the
\* change's transaction to the emitter.  Nothing waits for what becomes of it.
CompleteTask(i) ==
  /\ GoOn(i, "task", "sending")
  /\ UNCHANGED <<enricherVars, rows, recordsSeen, unfired, sessionVars>>

\* The record is in the topic; or the producer gives up, and nobody is told.
Send(i) ==
  /\ UNCHANGED <<rows, recordsSeen, unfired, sessionVars>>
  /\ \/ GoOn(i, "sending", "ended") /\ Record(changes[i].tx)
     \/ GoOn(i, "sending", "lost") /\ UNCHANGED enricherVars

-------------------------------------------------------------------------------
Database ==
  \/ \E tx \in Transactions : Snapshot(tx)
  \/ \E tx \in Requests : CommitRequest(tx)
  \/ \E tx \in Transactions \ Requests : UpdateByHand(tx)
  \/ RelayRow

\* A process goes on by itself, up to its task and from there.
Proceed(i) ==
  InsertVegetable(i) \/ FireForVegetable(i) \/ DecideIfMissing(i) \/ Send(i)

Administration ==
  \/ ReceiveChange \/ InsertRecord
  \/ \E n \in 1..MaxRecords : FireForRecord(n)
  \/ \E i \in 1..MaxChanges : Proceed(i) \/ CompleteTask(i)

AdminNext ==
  \/ Database \/ Administration
  \/ EnricherNext /\ UNCHANGED adminVars

AdminSafety == AdminInit /\ [][AdminNext]_allVars

\* The connector, the consumers, the timers and the producer run; nothing is
\* assumed of the administrator.
AdminFairness ==
  /\ EnricherFairness
  /\ WF_allVars(RelayRow) /\ WF_allVars(ReceiveChange)
  /\ WF_allVars(InsertRecord \/ \E n \in 1..MaxRecords : FireForRecord(n))
  /\ \A i \in 1..MaxChanges : WF_allVars(Proceed(i))

AdminSpec == AdminSafety /\ AdminFairness

-------------------------------------------------------------------------------
HasRecord(tx, seen) == \E n \in 1..seen : context[n] = tx
HasRow(tx)          == \E n \in DOMAIN rows : rows[n] = tx

\* A change and a record that match are in the rule session together only until the
\* thread that has inserted one of them fires the rules: which of the two comes first,
\* and what other threads do in between, makes no difference (AdminService).
NoMatchIsOverlooked ==
  \A i \in vegetableFacts, n \in transactionFacts :
    changes[i].tx = context[n] => process[i] = "inserted" \/ n \in unfired

\* A change the admin service has received and that nobody has explained is
\* never out of its sight: its process ends only when it is explained
\* (vegetables.bpmn2, the rule "Match events"), unless the administrator's record
\* is lost.
UnexplainedChangesAreInSight ==
  \A i \in DOMAIN process :
     Auditable(i) =>
       \/ HasRecord(changes[i].tx, Len(context)) \/ HasRow(changes[i].tx)
       \/ process[i] # "ended"

\* No task for a change of the vegetables service if its metadata was received and
\* the rules fired for it before the process decides, in whatever order the two
\* topics are read and whatever the threads do in between
\* (README.md of auditlog, lines 98-100: "in case there is no data to match").
NoTaskForSeenRequest ==
  [][\A i \in Processes("task")' \ Processes("task") :
        changes[i].tx \in Requests =>
          \A n \in 1..recordsSeen : context[n] = changes[i].tx => n \in unfired]_allVars

\* The administrator unblocks the log (README.md of auditlog, lines 80 and 144):
\* if no task stays open for ever and no record is lost, every change is published,
\* whoever made it and whatever waits before it.
EveryChangeIsPublished ==
  []<>(Processes("task") \union Processes("lost") = {}) =>
  (\A i \in 1..MaxChanges :
     (i \in DOMAIN changes /\ Auditable(i)) ~> Emitted(i, committed.enriched))

-------------------------------------------------------------------------------
(***************************************************************************)
(* Why the order of the two topics does not matter: the one change of a    *)
(* request has the facts about its transaction to itself, so that a record *)
(* that comes first stays in the rule session until its change is there.   *)
(***************************************************************************)
\* Of a process that is deciding, the change is in the session or was matched.
MatchedHaveRecords ==
  \A i \in DOMAIN process :
    process[i] \in {"inserted", "fired"} /\ i \notin vegetableFacts =>
      HasRecord(changes[i].tx, recordsSeen)

OnlyChangesAreMatched ==
  \A i \in DOMAIN process : i \in vegetableFacts \/ process[i] # "ended" => Auditable(i)

RequestsChangeOnce ==
  \A i, j \in DOMAIN changes :
    /\ Auditable(i) /\ Auditable(j)
    /\ changes[i].tx = changes[j].tx /\ changes[i].tx \in Requests
    => i = j

Unmatched(i) ==
  i \in DOMAIN process => process[i] = "waiting" \/ i \in vegetableFacts

SeenRecordsAwaitTheirChange ==
  \A i \in DOMAIN changes, n \in 1..recordsSeen :
    /\ Unmatched(i) /\ Auditable(i) /\ changes[i].tx \in Requests
    /\ context[n] = changes[i].tx
    => n \in transactionFacts

MatchingInv ==
  OnlyChangesAreMatched /\ RequestsChangeOnce /\ SeenRecordsAwaitTheirChange

===============================================================================
