----------------------- MODULE AuditAdministration_proofs -----------------------
(***************************************************************************)
(* Proofs about the audit log demo as a whole: what was proved of the      *)
(* enricher holds of it, and the admin service overlooks nothing.          *)
(***************************************************************************)
EXTENDS AuditAdministration, LogEnricher_proofs

AdminInv ==
  /\ AdminTypeOK /\ NoMatchIsOverlooked /\ MatchedHaveRecords
  /\ UnexplainedChangesAreInSight

\* The database, its connector and the admin service are the environment that
\* LogEnricher allows for.
LEMMA StepIsEnricherStep ==
  TypeOK /\ AdminTypeOK /\ [AdminNext]_allVars => [Next]_enricherVars
<1> SUFFICES ASSUME TypeOK, AdminTypeOK, [AdminNext]_allVars PROVE [Next]_enricherVars
  OBVIOUS
<1>1. CASE Database
  <2>1. CASE \E tx \in Transactions : Snapshot(tx)
    BY <2>1 DEF Snapshot, Next, Change
  <2>2. CASE \E tx \in Requests : CommitRequest(tx)
    BY <2>2, RequestsAssumption DEF CommitRequest, Next, Change
  <2>3. CASE \E tx \in Transactions \ Requests : UpdateByHand(tx)
    BY <2>3 DEF UpdateByHand, Next, Change
  <2>4. CASE RelayRow
    <3>1. Head(rows) \in Transactions
      BY <2>4, RequestsAssumption DEF RelayRow, AdminTypeOK
    <3> QED
      BY <2>4, <3>1 DEF RelayRow, Next
  <2> QED
    BY <1>1, <2>1, <2>2, <2>3, <2>4 DEF Database
<1>2. CASE ReceiveChange \/ InsertRecord
  BY <1>2 DEF ReceiveChange, InsertRecord
<1>3. ASSUME NEW n \in 1..MaxRecords, FireForRecord(n) PROVE [Next]_enricherVars
  BY <1>3 DEF FireForRecord
<1>4. ASSUME NEW i \in 1..MaxChanges,
             \/ InsertVegetable(i) \/ FireForVegetable(i) \/ DecideIfMissing(i)
             \/ CompleteTask(i)
      PROVE  [Next]_enricherVars
  BY <1>4 DEF InsertVegetable, FireForVegetable, DecideIfMissing, CompleteTask
<1>5. CASE EnricherNext
  BY <1>5 DEF Next
<1>6. CASE UNCHANGED allVars
  BY <1>6 DEF allVars
<1>7. ASSUME NEW i \in 1..MaxChanges, Send(i) PROVE [Next]_enricherVars
  <2>1. /\ changes \in Seq(Change)
        /\ i \in DOMAIN process /\ process \in Seq(Stage) /\ Len(process) <= Len(changes)
    BY <1>7 DEF Send, GoOn, AdminTypeOK, TypeOK
  <2>2. changes[i] \in Change
    BY <2>1
  <2>3. changes[i].tx \in Transactions
    BY <2>2 DEF Change
  <2>4. Record(changes[i].tx) \/ UNCHANGED enricherVars
    BY <1>7 DEF Send
  <2> QED
    BY <2>3, <2>4 DEF Next
<1> QED
  BY <1>1, <1>2, <1>3, <1>4, <1>5, <1>6, <1>7 DEF AdminNext, Administration, Proceed

-------------------------------------------------------------------------------
\* The admin service keeps its invariant.

\* The topics only grow.
LEMMA EnvironmentGrows ==
  ASSUME TypeOK, [Next]_enricherVars
  PROVE  /\ TopicsGrow
         /\ changes' \in Seq(Change) /\ context' \in Seq(Transactions)
<1> USE DEF TopicsGrow
<1>1. /\ changes \in Seq(Change) /\ context \in Seq(Transactions)
      /\ loaded \in 0..Len(context)
  BY DEF TypeOK
<1>2. ASSUME NEW c \in Change, Produce(c)
      PROVE  TopicsGrow /\ changes' \in Seq(Change) /\ context' \in Seq(Transactions)
  BY <1>1, <1>2 DEF Produce
<1>3. ASSUME NEW tx \in Transactions, Record(tx)
      PROVE  TopicsGrow /\ changes' \in Seq(Change) /\ context' \in Seq(Transactions)
  BY <1>1, <1>3 DEF Record
<1>4. CASE EnricherNext \/ UNCHANGED enricherVars
  <2>1. UNCHANGED <<changes, context>>
    BY <1>4 DEF EnricherNext, Filter, Process, Punctuate, StreamThread, EmitBuffered,
                FlushBlocked, FlushDone, EnrichRecord, BufferRecord, Load, Commit,
                Crash, topicVars, enricherVars
  <2>2. loaded' \in Nat /\ loaded <= loaded'
    BY <1>1, <1>4 DEF EnricherNext, Filter, Process, Punctuate, StreamThread,
                EmitBuffered, FlushBlocked, FlushDone, EnrichRecord, BufferRecord,
                Load, Commit, Crash, enricherVars
  <2> QED
    BY <1>1, <2>1, <2>2
<1> QED
  BY <1>2, <1>3, <1>4 DEF Next

LEMMA AdminInit1 == AdminInit => AdminInv
BY DEF AdminInit, EnricherInit, AdminInv, AdminTypeOK, NoMatchIsOverlooked,
       UnexplainedChangesAreInSight, MatchedHaveRecords, Processes

\* A step of the enricher, the connector or a database client: the admin
\* service has yet to see it.
LEMMA TopicStepKeepsAdminInv ==
  ASSUME TypeOK, TopicsGrow, AdminInv,
         changes' \in Seq(Change), context' \in Seq(Transactions),
         rows' \in Seq(Requests),
         \A tx : HasRow(tx) => HasRow(tx)' \/ HasRecord(tx, Len(context))',
         UNCHANGED <<process, recordsSeen, unfired, sessionVars>>
  PROVE  AdminInv'
<1> USE DEF sessionVars
<1>1. /\ Len(changes) \in Nat /\ Len(changes') \in Nat /\ Len(changes) <= Len(changes')
      /\ Len(context) \in Nat /\ Len(context') \in Nat /\ Len(context) <= Len(context')
  BY DEF TypeOK, TopicsGrow
<1>2. /\ process \in Seq(Stage) /\ Len(process) <= Len(changes)
      /\ recordsSeen \in 0..Len(context)
      /\ unfired \subseteq 1..recordsSeen /\ transactionFacts \subseteq 1..recordsSeen
      /\ vegetableFacts \subseteq DOMAIN process \ Processes("waiting")
  BY DEF AdminInv, AdminTypeOK
<1>3. AdminTypeOK'
  BY <1>1, <1>2 DEF AdminTypeOK, Processes
<1>4. /\ \A i \in DOMAIN process : changes'[i] = changes[i]
      /\ \A n \in 1..recordsSeen : context'[n] = context[n]
  <2>1. DOMAIN process \subseteq 1..Len(changes) /\ 1..recordsSeen \subseteq 1..Len(context)
    BY <1>1, <1>2
  <2> QED
    BY <2>1 DEF TopicsGrow
<1>5. NoMatchIsOverlooked'
  BY <1>2, <1>4 DEF AdminInv, NoMatchIsOverlooked
<1>6. MatchedHaveRecords'
  BY <1>4 DEF AdminInv, MatchedHaveRecords, HasRecord
<1>7. UnexplainedChangesAreInSight'
  <2> SUFFICES ASSUME NEW i \in DOMAIN process, Auditable(i)', process[i] = "ended"
               PROVE  HasRecord(changes[i].tx, Len(context))' \/ HasRow(changes[i].tx)'
    BY DEF UnexplainedChangesAreInSight
  <2>1. changes'[i] = changes[i] /\ Auditable(i)
    BY <1>4 DEF Auditable
  <2>2. CASE HasRow(changes[i].tx)
    BY <2>1, <2>2
  <2>3. CASE HasRecord(changes[i].tx, Len(context))
    <3>1. PICK n \in 1..Len(context) : context[n] = changes[i].tx
      BY <2>3 DEF HasRecord
    <3>2. n \in 1..Len(context') /\ context'[n] = changes'[i].tx
      BY <1>1, <2>1, <3>1 DEF TopicsGrow
    <3> QED
      BY <3>2 DEF HasRecord
  <2> QED
    BY <2>1, <2>2, <2>3 DEF AdminInv, UnexplainedChangesAreInSight
<1> QED
  BY <1>3, <1>5, <1>6, <1>7 DEF AdminInv

LEMMA DatabaseKeepsAdminInv ==
  ASSUME TypeOK, AdminInv, Database
  PROVE  AdminInv'
<1>1. /\ TopicsGrow /\ changes' \in Seq(Change) /\ context' \in Seq(Transactions)
  <2>1. [AdminNext]_allVars
    BY DEF AdminNext
  <2> QED
    BY <2>1, StepIsEnricherStep, EnvironmentGrows DEF AdminInv
<1>2. rows \in Seq(Requests)
  BY DEF AdminInv, AdminTypeOK
<1>3. UNCHANGED <<process, recordsSeen, unfired, sessionVars>>
  BY DEF Database, Snapshot, CommitRequest, UpdateByHand, RelayRow, adminVars
<1>4. CASE \/ \E tx \in Transactions : Snapshot(tx)
           \/ \E tx \in Transactions \ Requests : UpdateByHand(tx)
  <2>1. rows' = rows
    BY <1>4 DEF Snapshot, UpdateByHand, adminVars
  <2>2. \A tx : HasRow(tx) => HasRow(tx)'
    BY <2>1 DEF HasRow
  <2> QED
    BY <1>1, <1>2, <1>3, <2>1, <2>2, TopicStepKeepsAdminInv
<1>5. CASE \E tx \in Requests : CommitRequest(tx)
  <2>1. PICK new \in Requests : rows' = Append(rows, new)
    BY <1>5 DEF CommitRequest
  <2>2. /\ rows' \in Seq(Requests)
        /\ \A n \in DOMAIN rows : n \in DOMAIN rows' /\ rows'[n] = rows[n]
    BY <1>2, <2>1
  <2>3. \A tx : HasRow(tx) => HasRow(tx)'
    BY <2>2 DEF HasRow
  <2> QED
    BY <1>1, <1>3, <2>2, <2>3, TopicStepKeepsAdminInv
<1>6. CASE RelayRow
  <2>1. /\ rows # <<>> /\ rows' = Tail(rows)
        /\ context' = Append(context, Head(rows))
    BY <1>6 DEF RelayRow, Record
  <2>2. context \in Seq(Transactions)
    BY DEF TypeOK
  <2>3. rows' \in Seq(Requests)
    BY <1>2, <2>1
  <2>4. Len(context') \in 1..Len(context') /\ context'[Len(context')] = rows[1]
    <3>1. Head(rows) \in Transactions /\ Head(rows) = rows[1]
      BY <1>2, <2>1, RequestsAssumption
    <3> QED
      BY <2>1, <2>2, <3>1
  <2>5. \A n \in DOMAIN rows : n # 1 => n - 1 \in DOMAIN rows' /\ rows'[n - 1] = rows[n]
    BY <1>2, <2>1
  <2>6. ASSUME NEW tx, HasRow(tx)
        PROVE  HasRow(tx)' \/ HasRecord(tx, Len(context))'
    <3>1. PICK n \in DOMAIN rows : rows[n] = tx
      BY <2>6 DEF HasRow
    <3>2. CASE n = 1
      BY <2>4, <3>1, <3>2 DEF HasRecord
    <3>3. CASE n # 1
      BY <2>5, <3>1, <3>3 DEF HasRow
    <3> QED
      BY <3>2, <3>3
  <2> QED
    BY <1>1, <1>3, <2>3, <2>6, TopicStepKeepsAdminInv
<1> QED
  BY <1>4, <1>5, <1>6 DEF Database

LEMMA ReceiveChangeKeepsAdminInv ==
  ASSUME TypeOK, AdminInv, ReceiveChange
  PROVE  AdminInv'
<1> DEFINE next  == Len(process) + 1
           stage == IF Auditable(next) THEN "waiting" ELSE "ended"
<1>1. /\ Len(process) < Len(changes) /\ process' = Append(process, stage)
      /\ UNCHANGED <<changes, context, rows, recordsSeen, unfired, vegetableFacts,
                     transactionFacts>>
  BY DEF ReceiveChange, enricherVars, sessionVars
<1>2. /\ AdminTypeOK /\ process \in Seq(Stage) /\ Len(process) \in Nat
      /\ Len(changes) \in Nat /\ stage \in Stage
  BY DEF AdminInv, AdminTypeOK, TypeOK, Stage
<1>3. /\ process' \in Seq(Stage) /\ Len(process') = next
      /\ DOMAIN process' = DOMAIN process \union {next} /\ next \notin DOMAIN process
      /\ process'[next] = stage
      /\ \A i \in DOMAIN process : process'[i] = process[i]
  BY <1>1, <1>2
<1>4. AdminTypeOK'
  BY <1>1, <1>2, <1>3 DEF AdminTypeOK, Processes
<1>5. NoMatchIsOverlooked' /\ MatchedHaveRecords'
  <2>1. vegetableFacts \subseteq DOMAIN process
    BY <1>2 DEF AdminTypeOK
  <2> QED
    BY <1>1, <1>3, <2>1 DEF AdminInv, NoMatchIsOverlooked, MatchedHaveRecords, HasRecord
<1>6. UnexplainedChangesAreInSight'
  <2> SUFFICES ASSUME NEW i \in DOMAIN process', Auditable(i), process'[i] = "ended"
               PROVE  HasRecord(changes[i].tx, Len(context)) \/ HasRow(changes[i].tx)
    BY <1>1 DEF UnexplainedChangesAreInSight, Auditable, HasRecord, HasRow
  <2>1. i \in DOMAIN process
    BY <1>3
  <2> QED
    BY <1>3, <2>1 DEF AdminInv, UnexplainedChangesAreInSight
<1> QED
  BY <1>4, <1>5, <1>6 DEF AdminInv

\* What a process leaves alone when it goes on.
LEMMA GoingOn ==
  ASSUME process \in Seq(Stage), NEW c, NEW from, NEW to \in Stage, GoOn(c, from, to)
  PROVE  /\ process' \in Seq(Stage) /\ Len(process') = Len(process)
         /\ DOMAIN process' = DOMAIN process
         /\ c \in DOMAIN process /\ process[c] = from /\ process'[c] = to
         /\ \A i \in DOMAIN process : i # c => process'[i] = process[i]
BY DEF GoOn

\* What the rules delete.
LEMMA Firing ==
  ASSUME FireAllRules
  PROVE  /\ vegetableFacts' \subseteq vegetableFacts
         /\ transactionFacts' \subseteq transactionFacts
         /\ \A i \in vegetableFacts \ vegetableFacts' :
              \E n \in transactionFacts : context[n] = changes[i].tx
         /\ \A n \in transactionFacts \ transactionFacts' :
              \E i \in vegetableFacts \ vegetableFacts' : changes[i].tx = context[n]
         /\ \A i \in vegetableFacts', n \in transactionFacts' : changes[i].tx # context[n]
<1>1. PICK matched \in SUBSET vegetableFacts, used \in SUBSET transactionFacts :
        /\ \E match \in [matched -> used] :
             /\ \A i \in matched : Matches(i, match[i])
             /\ \A n \in used : \E i \in matched : match[i] = n
             /\ \A i, j \in matched : match[i] = match[j] => i = j
        /\ vegetableFacts' = vegetableFacts \ matched
        /\ transactionFacts' = transactionFacts \ used
        /\ \A i \in vegetableFacts', n \in transactionFacts' : ~ Matches(i, n)
  BY DEF FireAllRules
<1>2. PICK match \in [matched -> used] :
        /\ \A i \in matched : Matches(i, match[i])
        /\ \A n \in used : \E i \in matched : match[i] = n
  BY <1>1
<1>3. /\ \A i \in matched : match[i] \in transactionFacts /\ context[match[i]] = changes[i].tx
      /\ \A n \in used : \E i \in matched : changes[i].tx = context[n]
  BY <1>2 DEF Matches
<1> QED
  BY <1>1, <1>3 DEF Matches

\* A step of a thread of the admin service, which leaves the topics alone: a process
\* that ends has a record.
LEMMA ThreadStepKeepsSight ==
  ASSUME AdminInv, UNCHANGED <<changes, context, rows>>, DOMAIN process' = DOMAIN process,
         \A i \in DOMAIN process :
           process'[i] = "ended" =>
             process[i] = "ended" \/ HasRecord(changes[i].tx, Len(context))
  PROVE  UnexplainedChangesAreInSight'
BY DEF AdminInv, UnexplainedChangesAreInSight, Auditable, HasRecord, HasRow

LEMMA InsertVegetableKeepsAdminInv ==
  ASSUME TypeOK, AdminInv, NEW c, InsertVegetable(c)
  PROVE  AdminInv'
<1>1. /\ GoOn(c, "waiting", "inserted") /\ vegetableFacts' = vegetableFacts \union {c}
      /\ UNCHANGED <<changes, context, rows, recordsSeen, unfired, transactionFacts>>
  BY DEF InsertVegetable, enricherVars
<1>2. AdminTypeOK /\ process \in Seq(Stage) /\ "inserted" \in Stage
  BY DEF AdminInv, AdminTypeOK, Stage
<1>3. /\ process' \in Seq(Stage) /\ Len(process') = Len(process)
      /\ DOMAIN process' = DOMAIN process
      /\ c \in DOMAIN process /\ process[c] = "waiting" /\ process'[c] = "inserted"
      /\ \A i \in DOMAIN process : i # c => process'[i] = process[i]
  BY <1>1, <1>2, GoingOn
<1>4. AdminTypeOK'
  BY <1>1, <1>2, <1>3 DEF AdminTypeOK, Processes
<1>5. NoMatchIsOverlooked'
  <2>1. vegetableFacts \subseteq DOMAIN process
    BY <1>2 DEF AdminTypeOK
  <2> QED
    BY <1>1, <1>3, <2>1 DEF AdminInv, NoMatchIsOverlooked
<1>6. MatchedHaveRecords'
  BY <1>1, <1>3 DEF AdminInv, MatchedHaveRecords, HasRecord
<1>7. UnexplainedChangesAreInSight'
  BY <1>1, <1>3, ThreadStepKeepsSight
<1> QED
  BY <1>4, <1>5, <1>6, <1>7 DEF AdminInv

\* The rules are fired: every change that is deleted has a record.
LEMMA FiringKeepsAdminInv ==
  ASSUME TypeOK, AdminInv, FireAllRules,
         UNCHANGED <<changes, context, rows, recordsSeen>>,
         unfired' \subseteq unfired,
         process' \in Seq(Stage), DOMAIN process' = DOMAIN process,
         Len(process') = Len(process),
         \A i \in DOMAIN process :
           process'[i] = process[i] \/ (process[i] = "inserted" /\ process'[i] = "fired")
  PROVE  AdminInv'
<1>1. /\ vegetableFacts' \subseteq vegetableFacts
      /\ transactionFacts' \subseteq transactionFacts
      /\ \A i \in vegetableFacts \ vegetableFacts' :
           \E n \in transactionFacts : context[n] = changes[i].tx
      /\ \A i \in vegetableFacts', n \in transactionFacts' : changes[i].tx # context[n]
  BY Firing
<1>2. AdminTypeOK
  BY DEF AdminInv
<1>3. AdminTypeOK'
  BY <1>1, <1>2 DEF AdminTypeOK, Processes
<1>4. NoMatchIsOverlooked'
  BY <1>1 DEF NoMatchIsOverlooked
<1>5. MatchedHaveRecords'
  <2> SUFFICES ASSUME NEW i \in DOMAIN process, process'[i] \in {"inserted", "fired"},
                      i \notin vegetableFacts'
               PROVE  HasRecord(changes[i].tx, recordsSeen)
    BY DEF MatchedHaveRecords, HasRecord
  <2>1. CASE i \in vegetableFacts
    <3>1. PICK n \in transactionFacts : context[n] = changes[i].tx
      BY <1>1, <2>1
    <3>2. n \in 1..recordsSeen
      BY <1>2 DEF AdminTypeOK
    <3> QED
      BY <3>1, <3>2 DEF HasRecord
  <2>2. CASE i \notin vegetableFacts
    BY <2>2 DEF AdminInv, MatchedHaveRecords
  <2> QED
    BY <2>1, <2>2
<1>6. UnexplainedChangesAreInSight'
  BY ThreadStepKeepsSight
<1> QED
  BY <1>3, <1>4, <1>5, <1>6 DEF AdminInv

LEMMA DecideKeepsAdminInv ==
  ASSUME TypeOK, AdminInv, NEW c, DecideIfMissing(c)
  PROVE  AdminInv'
<1> DEFINE stage == IF c \in vegetableFacts THEN "task" ELSE "ended"
<1>1. /\ GoOn(c, "fired", stage)
      /\ UNCHANGED <<changes, context, rows, recordsSeen, unfired, vegetableFacts,
                     transactionFacts>>
  BY DEF DecideIfMissing, enricherVars, sessionVars
<1>2. /\ AdminTypeOK /\ process \in Seq(Stage) /\ stage \in Stage
      /\ recordsSeen \in 0..Len(context) /\ Len(context) \in Nat
  BY DEF AdminInv, AdminTypeOK, TypeOK, Stage
<1>3. stage \in {"task", "ended"} /\ (stage = "ended" => c \notin vegetableFacts)
  OBVIOUS
<1> HIDE DEF stage
<1>4. /\ process' \in Seq(Stage) /\ Len(process') = Len(process)
      /\ DOMAIN process' = DOMAIN process
      /\ c \in DOMAIN process /\ process[c] = "fired" /\ process'[c] = stage
      /\ \A i \in DOMAIN process : i # c => process'[i] = process[i]
  BY <1>1, <1>2, GoingOn
<1>5. AdminTypeOK'
  BY <1>1, <1>2, <1>3, <1>4 DEF AdminTypeOK, Processes
<1>6. NoMatchIsOverlooked'
  <2>1. vegetableFacts \subseteq DOMAIN process
    BY <1>2 DEF AdminTypeOK
  <2> QED
    BY <1>1, <1>4, <2>1 DEF AdminInv, NoMatchIsOverlooked
<1>7. MatchedHaveRecords'
  BY <1>1, <1>3, <1>4 DEF AdminInv, MatchedHaveRecords, HasRecord
<1>8. ASSUME stage = "ended" PROVE HasRecord(changes[c].tx, Len(context))
  <2>1. HasRecord(changes[c].tx, recordsSeen)
    BY <1>3, <1>4, <1>8 DEF AdminInv, MatchedHaveRecords
  <2> QED
    BY <1>2, <2>1 DEF HasRecord
<1>9. UnexplainedChangesAreInSight'
  BY <1>1, <1>4, <1>8, ThreadStepKeepsSight
<1> QED
  BY <1>5, <1>6, <1>7, <1>9 DEF AdminInv

LEMMA InsertRecordKeepsAdminInv ==
  ASSUME TypeOK, AdminInv, InsertRecord
  PROVE  AdminInv'
<1> DEFINE next == recordsSeen + 1
<1>1. /\ recordsSeen < Len(context) /\ recordsSeen' = next
      /\ unfired' = unfired \union {next}
      /\ transactionFacts' = transactionFacts \union {next}
      /\ UNCHANGED <<changes, context, rows, process, vegetableFacts>>
  BY DEF InsertRecord, enricherVars
<1>2. AdminTypeOK /\ Len(context) \in Nat /\ recordsSeen \in Nat
  BY DEF AdminInv, AdminTypeOK, TypeOK
<1>3. AdminTypeOK'
  BY <1>1, <1>2 DEF AdminTypeOK, Processes
<1>4. NoMatchIsOverlooked'
  BY <1>1 DEF AdminInv, NoMatchIsOverlooked
<1>5. MatchedHaveRecords'
  <2>1. \A tx : HasRecord(tx, recordsSeen) => HasRecord(tx, next)
    BY <1>2 DEF HasRecord
  <2> QED
    BY <1>1, <2>1 DEF AdminInv, MatchedHaveRecords, HasRecord
<1>6. UnexplainedChangesAreInSight'
  BY <1>1, ThreadStepKeepsSight
<1> QED
  BY <1>3, <1>4, <1>5, <1>6 DEF AdminInv

\* The administrator's part: the record is in the topic before the process ends.
LEMMA TaskStepKeepsAdminInv ==
  ASSUME TypeOK, AdminInv, NEW c, CompleteTask(c) \/ Send(c), TopicsGrow,
         context' \in Seq(Transactions)
  PROVE  AdminInv'
<1>1. /\ \E from \in {"task", "sending"}, to \in {"sending", "ended", "lost"} :
           GoOn(c, from, to) /\ (to = "ended" => Record(changes[c].tx))
      /\ UNCHANGED <<changes, rows, recordsSeen, unfired, vegetableFacts, transactionFacts>>
  BY DEF CompleteTask, Send, Record, enricherVars, sessionVars
<1>2. PICK from \in {"task", "sending"}, to \in {"sending", "ended", "lost"} :
        GoOn(c, from, to) /\ (to = "ended" => Record(changes[c].tx))
  BY <1>1
<1>3. /\ AdminTypeOK /\ process \in Seq(Stage) /\ to \in Stage
      /\ context \in Seq(Transactions) /\ recordsSeen \in 0..Len(context)
  BY DEF AdminInv, AdminTypeOK, TypeOK, Stage
<1>4. /\ process' \in Seq(Stage) /\ Len(process') = Len(process)
      /\ DOMAIN process' = DOMAIN process
      /\ c \in DOMAIN process /\ process[c] = from /\ process'[c] = to
      /\ \A i \in DOMAIN process : i # c => process'[i] = process[i]
  BY <1>2, <1>3, GoingOn
<1>5. /\ Len(context) \in Nat /\ Len(context') \in Nat /\ Len(context) <= Len(context')
      /\ \A n \in 1..Len(context) : context'[n] = context[n]
  BY <1>3 DEF TopicsGrow
<1>6. \A n \in 1..recordsSeen : context'[n] = context[n]
  BY <1>3, <1>5
<1>7. AdminTypeOK'
  BY <1>1, <1>3, <1>4, <1>5 DEF AdminTypeOK, Processes
<1>8. NoMatchIsOverlooked'
  <2>1. vegetableFacts \subseteq DOMAIN process /\ transactionFacts \subseteq 1..recordsSeen
    BY <1>3 DEF AdminTypeOK
  <2> QED
    BY <1>1, <1>4, <1>6, <2>1 DEF AdminInv, NoMatchIsOverlooked
<1>9. MatchedHaveRecords'
  BY <1>1, <1>4, <1>6 DEF AdminInv, MatchedHaveRecords, HasRecord
<1>10. UnexplainedChangesAreInSight'
  <2> SUFFICES ASSUME NEW i \in DOMAIN process, Auditable(i), ~ HasRow(changes[i].tx),
                      process'[i] = "ended"
               PROVE  \E n \in 1..Len(context') : context'[n] = changes[i].tx
    BY <1>1, <1>4 DEF UnexplainedChangesAreInSight, Auditable, HasRecord, HasRow
  <2>1. CASE i = c
    <3>1. context' = Append(context, changes[c].tx)
      BY <1>2, <1>4, <2>1 DEF Record
    <3>2. Len(context') = Len(context) + 1 /\ context'[Len(context) + 1] = changes[c].tx
      BY <1>3, <3>1
    <3> QED
      BY <1>5, <2>1, <3>2
  <2>2. CASE i # c
    <3>1. HasRecord(changes[i].tx, Len(context))
      BY <1>4, <2>2 DEF AdminInv, UnexplainedChangesAreInSight
    <3> QED
      BY <1>5, <3>1 DEF HasRecord
  <2> QED
    BY <2>1, <2>2
<1> QED
  BY <1>7, <1>8, <1>9, <1>10 DEF AdminInv

LEMMA AdminStep == Inv /\ AdminInv /\ [AdminNext]_allVars => Inv' /\ AdminInv'
<1> SUFFICES ASSUME Inv, AdminInv, [AdminNext]_allVars PROVE Inv' /\ AdminInv'
  OBVIOUS
<1>1. TypeOK /\ AdminTypeOK
  BY DEF Inv, AdminInv
<1>2. [Next]_enricherVars
  BY <1>1, StepIsEnricherStep
<1>3. Inv'
  BY <1>2, NextKeepsInv
<1>4. TopicsGrow /\ changes' \in Seq(Change) /\ context' \in Seq(Transactions)
  BY <1>1, <1>2, EnvironmentGrows
<1>5. CASE Database
  BY <1>1, <1>3, <1>5, DatabaseKeepsAdminInv
<1>6. CASE ReceiveChange
  BY <1>1, <1>3, <1>6, ReceiveChangeKeepsAdminInv
<1>7. CASE InsertRecord
  BY <1>1, <1>3, <1>7, InsertRecordKeepsAdminInv
<1>8. ASSUME NEW n, FireForRecord(n) PROVE AdminInv'
  <2>1. /\ FireAllRules /\ unfired' \subseteq unfired
        /\ UNCHANGED <<changes, context, rows, process, recordsSeen>>
    BY <1>8 DEF FireForRecord, enricherVars
  <2>2. process' \in Seq(Stage)
    BY <1>1, <2>1 DEF AdminTypeOK
  <2> QED
    BY <1>1, <2>1, <2>2, FiringKeepsAdminInv
<1>9. ASSUME NEW i, FireForVegetable(i) PROVE AdminInv'
  <2>1. /\ FireAllRules /\ GoOn(i, "inserted", "fired")
        /\ UNCHANGED <<changes, context, rows, unfired, recordsSeen>>
    BY <1>9 DEF FireForVegetable, enricherVars
  <2>2. process \in Seq(Stage) /\ "fired" \in Stage
    BY <1>1 DEF AdminTypeOK, Stage
  <2>3. /\ process' \in Seq(Stage) /\ Len(process') = Len(process)
        /\ DOMAIN process' = DOMAIN process
        /\ process[i] = "inserted" /\ process'[i] = "fired"
        /\ \A j \in DOMAIN process : j # i => process'[j] = process[j]
    BY <2>1, <2>2, GoingOn
  <2>4. \A j \in DOMAIN process :
          process'[j] = process[j] \/ (process[j] = "inserted" /\ process'[j] = "fired")
    BY <2>3
  <2> QED
    BY <1>1, <2>1, <2>3, <2>4, FiringKeepsAdminInv
<1>10. ASSUME NEW i, InsertVegetable(i) \/ DecideIfMissing(i) PROVE AdminInv'
  BY <1>1, <1>10, InsertVegetableKeepsAdminInv, DecideKeepsAdminInv
<1>11. ASSUME NEW i, CompleteTask(i) \/ Send(i) PROVE AdminInv'
  BY <1>1, <1>4, <1>11, TaskStepKeepsAdminInv
<1>12. CASE UNCHANGED adminVars
  <2>1. UNCHANGED <<rows, process, recordsSeen, unfired, sessionVars>>
    BY <1>12 DEF adminVars
  <2>2. rows' \in Seq(Requests) /\ \A tx : HasRow(tx) => HasRow(tx)'
    BY <1>1, <2>1 DEF AdminTypeOK, HasRow
  <2> QED
    BY <1>1, <1>3, <1>4, <2>1, <2>2, TopicStepKeepsAdminInv
<1> QED
  BY <1>3, <1>5, <1>6, <1>7, <1>8, <1>9, <1>10, <1>11, <1>12
  DEF AdminNext, Administration, Proceed, allVars

LEMMA AdminInvHolds == AdminSafety => [](Inv /\ AdminInv)
<1>1. AdminInit => Inv /\ AdminInv
  BY InitInv, AdminInit1 DEF AdminInit
<1>2. Inv /\ AdminInv /\ [AdminNext]_allVars => (Inv /\ AdminInv)'
  BY AdminStep
<1> QED
  BY <1>1, <1>2, PTL DEF AdminSafety

\* The demo as a whole keeps what was proved of the enricher with any input:
\* its behaviours are behaviours of LogEnricher.
THEOREM DemoRunsTheEnricher == AdminSafety => Spec
<1>1. Inv /\ AdminInv /\ [AdminNext]_allVars => [Next]_enricherVars
  BY StepIsEnricherStep DEF Inv, AdminInv
<1>2. AdminInit => EnricherInit
  BY DEF AdminInit
<1> QED
  BY <1>1, <1>2, AdminInvHolds, PTL DEF AdminSafety, Spec

\* The audit log of the demo is right, whoever makes the changes and however
\* the admin service takes part.
THEOREM DemoImplementsAuditLog == AdminSafety => ImplementsAuditLog
BY DemoRunsTheEnricher, EnricherImplementsAuditLog, PTL

\* The admin service keeps its types.
THEOREM AdminTypes == AdminSafety => []AdminTypeOK
<1>1. Inv /\ AdminInv => AdminTypeOK
  BY DEF AdminInv
<1> QED
  BY <1>1, AdminInvHolds, PTL

\* A change and its record always find each other in the rule session.
THEOREM AdminOverlooksNoMatch == AdminSafety => []NoMatchIsOverlooked
<1>1. Inv /\ AdminInv => NoMatchIsOverlooked
  BY DEF AdminInv
<1> QED
  BY <1>1, AdminInvHolds, PTL

\* A change without metadata has a timer or a task, always.
THEOREM AdminKeepsUnexplainedInSight == AdminSafety => []UnexplainedChangesAreInSight
<1>1. Inv /\ AdminInv => UnexplainedChangesAreInSight
  BY DEF AdminInv
<1> QED
  BY <1>1, AdminInvHolds, PTL

-------------------------------------------------------------------------------
(***************************************************************************)
(* A task is opened for a request only if its record comes too late.       *)
(***************************************************************************)
\* A process goes on, and a change is in the session when its timer runs out.
LEMMA ProcessStepKeepsMatching ==
  ASSUME TypeOK, AdminTypeOK, MatchingInv, TopicsGrow,
         UNCHANGED <<changes, recordsSeen, transactionFacts>>,
         DOMAIN process' = DOMAIN process,
         \A i \in DOMAIN process :
           /\ process[i] = "ended" => process'[i] = "ended"
           /\ process'[i] = "waiting" => process[i] = "waiting",
         \A i \in vegetableFacts' :
           i \in vegetableFacts \/ (i \in DOMAIN process /\ process[i] = "waiting")
  PROVE  MatchingInv'
<1>1. \A n \in 1..recordsSeen : context'[n] = context[n]
  BY DEF TypeOK, AdminTypeOK, TopicsGrow
<1>2. OnlyChangesAreMatched'
  BY DEF MatchingInv, OnlyChangesAreMatched, Auditable
<1>3. RequestsChangeOnce'
  BY DEF MatchingInv, RequestsChangeOnce, Auditable
<1>4. ASSUME NEW i, Unmatched(i)' PROVE Unmatched(i)
  BY <1>4 DEF Unmatched
<1>5. SeenRecordsAwaitTheirChange'
  BY <1>1, <1>4 DEF MatchingInv, SeenRecordsAwaitTheirChange, Auditable
<1> QED
  BY <1>2, <1>3, <1>5 DEF MatchingInv

\* A change of a request comes before anything else of its transaction.
LEMMA NewChangeKeepsMatching ==
  ASSUME TypeOK, AdminTypeOK, MatchingInv, NEW c \in Change, changes' = Append(changes, c),
         c.op = "change" /\ c.tx \in Requests => ~ Used(c.tx),
         UNCHANGED <<context, process, recordsSeen, vegetableFacts, transactionFacts>>
  PROVE  MatchingInv'
<1> PICK last : last = Len(changes) + 1
  OBVIOUS
<1>1. /\ changes \in Seq(Change) /\ Len(changes) \in Nat /\ Len(context) \in Nat
      /\ process \in Seq(Stage) /\ Len(process) <= Len(changes)
      /\ recordsSeen \in 0..Len(context)
  BY DEF TypeOK, AdminTypeOK
<1>2. /\ DOMAIN changes = 1..Len(changes) /\ DOMAIN context = 1..Len(context)
      /\ DOMAIN changes' = 1..last
      /\ changes'[last] = c /\ \A i \in DOMAIN changes : changes'[i] = changes[i]
  BY <1>1 DEF TypeOK
<1>3. \A i \in DOMAIN changes' : i \in DOMAIN changes \/ i = last
  BY <1>1, <1>2
<1>4. /\ \A i \in DOMAIN changes : Auditable(i)' <=> Auditable(i)
      /\ Auditable(last)' <=> c.op = "change"
  BY <1>2 DEF Auditable
<1>5. ASSUME Auditable(last)', c.tx \in Requests
      PROVE  /\ \A i \in DOMAIN changes : Auditable(i) => changes[i].tx # c.tx
             /\ \A n \in 1..recordsSeen : context[n] # c.tx
  <2>1. ~ Used(c.tx)
    BY <1>4, <1>5
  <2>2. 1..recordsSeen \subseteq DOMAIN context
    BY <1>1, <1>2
  <2> QED
    BY <2>1, <2>2 DEF Used
<1>6. OnlyChangesAreMatched'
  <2>1. DOMAIN process \subseteq DOMAIN changes
    BY <1>1, <1>2
  <2> QED
    BY <1>4, <2>1 DEF MatchingInv, OnlyChangesAreMatched
<1>7. RequestsChangeOnce'
  <2> SUFFICES ASSUME NEW i \in DOMAIN changes', NEW j \in DOMAIN changes',
                      Auditable(i)', Auditable(j)', changes'[i].tx = changes'[j].tx,
                      changes'[i].tx \in Requests
               PROVE  i = j
    BY DEF RequestsChangeOnce
  <2>1. CASE i \in DOMAIN changes /\ j \in DOMAIN changes
    BY <1>2, <1>4, <2>1 DEF MatchingInv, RequestsChangeOnce
  <2>2. CASE i = last /\ j \in DOMAIN changes
    BY <1>2, <1>4, <1>5, <2>2
  <2>3. CASE i \in DOMAIN changes /\ j = last
    BY <1>2, <1>4, <1>5, <2>3
  <2> QED
    BY <1>3, <2>1, <2>2, <2>3
<1>8. SeenRecordsAwaitTheirChange'
  <2> SUFFICES ASSUME NEW i \in DOMAIN changes', NEW n \in 1..recordsSeen,
                      Unmatched(i), Auditable(i)',
                      changes'[i].tx \in Requests, context[n] = changes'[i].tx
               PROVE  n \in transactionFacts
    BY DEF SeenRecordsAwaitTheirChange, Unmatched
  <2>1. CASE i = last
    BY <1>2, <1>5, <2>1
  <2>2. CASE i \in DOMAIN changes
    BY <1>2, <1>4, <2>2 DEF MatchingInv, SeenRecordsAwaitTheirChange
  <2> QED
    BY <1>3, <2>1, <2>2
<1> QED
  BY <1>6, <1>7, <1>8 DEF MatchingInv

LEMMA ReceiveChangeKeepsMatching ==
  ASSUME TypeOK, AdminTypeOK, MatchingInv, ReceiveChange
  PROVE  MatchingInv'
<1> DEFINE next  == Len(process) + 1
           stage == IF Auditable(next) THEN "waiting" ELSE "ended"
<1>1. /\ process' = Append(process, stage)
      /\ UNCHANGED <<changes, context, recordsSeen, vegetableFacts, transactionFacts>>
  BY DEF ReceiveChange, enricherVars, sessionVars
<1>2. process \in Seq(Stage) /\ vegetableFacts \subseteq DOMAIN process
  BY DEF AdminTypeOK
<1>3. /\ DOMAIN process' = DOMAIN process \union {next} /\ next \notin DOMAIN process
      /\ process'[next] = stage
      /\ \A i \in DOMAIN process : process'[i] = process[i]
  BY <1>1, <1>2
<1>4. OnlyChangesAreMatched'
  BY <1>1, <1>2, <1>3 DEF MatchingInv, OnlyChangesAreMatched, Auditable
<1>5. RequestsChangeOnce'
  BY <1>1 DEF MatchingInv, RequestsChangeOnce, Auditable
<1>6. ASSUME NEW i, Unmatched(i)' PROVE Unmatched(i)
  BY <1>1, <1>3, <1>6 DEF Unmatched
<1>7. SeenRecordsAwaitTheirChange'
  BY <1>1, <1>6 DEF MatchingInv, SeenRecordsAwaitTheirChange, Auditable
<1> QED
  BY <1>4, <1>5, <1>7 DEF MatchingInv

LEMMA InsertRecordKeepsMatching ==
  ASSUME TypeOK, AdminTypeOK, MatchingInv, InsertRecord
  PROVE  MatchingInv'
<1> DEFINE next == recordsSeen + 1
<1>1. /\ recordsSeen' = next /\ transactionFacts' = transactionFacts \union {next}
      /\ UNCHANGED <<changes, context, process, vegetableFacts>>
  BY DEF InsertRecord, enricherVars
<1>2. OnlyChangesAreMatched' /\ RequestsChangeOnce'
  BY <1>1 DEF MatchingInv, OnlyChangesAreMatched, RequestsChangeOnce, Auditable
<1>3. \A n \in 1..next : n \in 1..recordsSeen \/ n = next
  BY DEF TypeOK, AdminTypeOK
<1>4. SeenRecordsAwaitTheirChange'
  BY <1>1, <1>3 DEF MatchingInv, SeenRecordsAwaitTheirChange, Unmatched, Auditable
<1> QED
  BY <1>2, <1>4 DEF MatchingInv

\* The record of a request is deleted with its one change.
LEMMA FiringKeepsMatching ==
  ASSUME TypeOK, AdminTypeOK, MatchingInv, FireAllRules,
         UNCHANGED <<changes, context, recordsSeen>>, DOMAIN process' = DOMAIN process,
         \A i \in DOMAIN process :
           process'[i] = process[i] \/ (process[i] = "inserted" /\ process'[i] = "fired")
  PROVE  MatchingInv'
<1>1. /\ vegetableFacts' \subseteq vegetableFacts
      /\ \A n \in transactionFacts \ transactionFacts' :
           \E i \in vegetableFacts \ vegetableFacts' : changes[i].tx = context[n]
  BY Firing
<1>2. /\ vegetableFacts \subseteq DOMAIN process \ Processes("waiting")
      /\ DOMAIN process \subseteq DOMAIN changes
  BY DEF TypeOK, AdminTypeOK
<1>3. OnlyChangesAreMatched' /\ RequestsChangeOnce'
  BY <1>1 DEF MatchingInv, OnlyChangesAreMatched, RequestsChangeOnce, Auditable
<1>4. SeenRecordsAwaitTheirChange'
  <2> SUFFICES ASSUME NEW i \in DOMAIN changes, NEW n \in 1..recordsSeen,
                      Unmatched(i)', Auditable(i), changes[i].tx \in Requests,
                      context[n] = changes[i].tx, n \notin transactionFacts'
               PROVE  FALSE
    BY DEF SeenRecordsAwaitTheirChange, Auditable
  <2>1. Unmatched(i)
    BY <1>1 DEF Unmatched
  <2>2. n \in transactionFacts
    BY <2>1 DEF MatchingInv, SeenRecordsAwaitTheirChange
  <2>3. PICK j \in vegetableFacts \ vegetableFacts' : changes[j].tx = context[n]
    BY <1>1, <2>2
  <2>4. j \in DOMAIN process /\ j \in DOMAIN changes /\ Auditable(j)
    BY <1>2, <2>3 DEF MatchingInv, OnlyChangesAreMatched
  <2>5. i = j
    BY <2>3, <2>4 DEF MatchingInv, RequestsChangeOnce
  <2> QED
    BY <1>2, <2>3, <2>4, <2>5 DEF Unmatched, Processes
<1> QED
  BY <1>3, <1>4 DEF MatchingInv

LEMMA StepKeepsMatching ==
  ASSUME TypeOK, AdminTypeOK, MatchingInv, [AdminNext]_allVars
  PROVE  MatchingInv'
<1>1. TopicsGrow
  BY StepIsEnricherStep, EnvironmentGrows
<1>2. ASSUME NEW tx \in Transactions, Snapshot(tx) PROVE MatchingInv'
  <2> DEFINE c == [tx |-> tx, op |-> "snapshot"]
  <2>1. c \in Change /\ c.op # "change"
    BY DEF Change
  <2>2. /\ changes' = Append(changes, c)
        /\ UNCHANGED <<context, process, recordsSeen, vegetableFacts, transactionFacts>>
    BY <1>2 DEF Snapshot, Produce, adminVars, sessionVars
  <2> HIDE DEF c
  <2> QED
    BY <2>1, <2>2, NewChangeKeepsMatching
<1>3. ASSUME NEW tx \in Transactions, tx \in Requests => ~ Used(tx),
             Produce([tx |-> tx, op |-> "change"]),
             UNCHANGED <<process, recordsSeen, vegetableFacts, transactionFacts>>
      PROVE  MatchingInv'
  <2> DEFINE c == [tx |-> tx, op |-> "change"]
  <2>1. c \in Change /\ c.tx = tx
    BY DEF Change
  <2>2. changes' = Append(changes, c) /\ UNCHANGED context
    BY <1>3 DEF Produce
  <2> HIDE DEF c
  <2> QED
    BY <1>3, <2>1, <2>2, NewChangeKeepsMatching
<1>4. ASSUME UNCHANGED <<changes, process, recordsSeen, vegetableFacts, transactionFacts>>
      PROVE  MatchingInv'
  BY <1>1, <1>4, ProcessStepKeepsMatching
<1>5. CASE Database
  <2>1. ASSUME NEW tx \in Requests, CommitRequest(tx) PROVE MatchingInv'
    <3>1. tx \in Transactions
      BY RequestsAssumption
    <3>2. /\ ~ Used(tx)
          /\ Produce([tx |-> tx, op |-> "change"]) \/ UNCHANGED changes
          /\ UNCHANGED <<process, recordsSeen, vegetableFacts, transactionFacts>>
      BY <2>1 DEF CommitRequest, enricherVars, sessionVars
    <3> QED
      BY <1>3, <1>4, <3>1, <3>2
  <2>2. ASSUME NEW tx \in Transactions \ Requests, UpdateByHand(tx) PROVE MatchingInv'
    BY <1>3, <2>2 DEF UpdateByHand, adminVars, sessionVars
  <2>3. CASE RelayRow
    BY <1>4, <2>3 DEF RelayRow, Record, sessionVars
  <2> QED
    BY <1>2, <1>5, <2>1, <2>2, <2>3 DEF Database
<1>6. CASE ReceiveChange \/ InsertRecord
  BY <1>6, ReceiveChangeKeepsMatching, InsertRecordKeepsMatching
<1>7. ASSUME NEW n, FireForRecord(n) PROVE MatchingInv'
  BY <1>7, FiringKeepsMatching DEF FireForRecord, enricherVars
<1>8. ASSUME NEW i, FireForVegetable(i) PROVE MatchingInv'
  <2>1. /\ FireAllRules /\ GoOn(i, "inserted", "fired")
        /\ UNCHANGED <<changes, context, recordsSeen>>
    BY <1>8 DEF FireForVegetable, enricherVars
  <2>2. process \in Seq(Stage) /\ "fired" \in Stage
    BY DEF AdminTypeOK, Stage
  <2>3. /\ DOMAIN process' = DOMAIN process
        /\ \A j \in DOMAIN process :
             process'[j] = process[j] \/ (process[j] = "inserted" /\ process'[j] = "fired")
    BY <2>1, <2>2, GoingOn
  <2> QED
    BY <2>1, <2>3, FiringKeepsMatching
<1>9. ASSUME NEW i, InsertVegetable(i) \/ DecideIfMissing(i) \/ CompleteTask(i) \/ Send(i)
      PROVE  MatchingInv'
  <2>1. /\ \E from \in {"waiting", "fired", "task", "sending"}, to \in Stage \ {"waiting"} :
             GoOn(i, from, to) /\ (from = "waiting" \/ vegetableFacts' = vegetableFacts)
        /\ vegetableFacts' \subseteq vegetableFacts \union {i}
        /\ UNCHANGED <<changes, recordsSeen, transactionFacts>>
    BY <1>9 DEF InsertVegetable, DecideIfMissing, CompleteTask, Send, Record, Stage,
                enricherVars, sessionVars
  <2>2. PICK from \in {"waiting", "fired", "task", "sending"}, to \in Stage \ {"waiting"} :
          GoOn(i, from, to) /\ (from = "waiting" \/ vegetableFacts' = vegetableFacts)
    BY <2>1
  <2>3. process \in Seq(Stage)
    BY DEF AdminTypeOK
  <2>4. /\ DOMAIN process' = DOMAIN process
        /\ i \in DOMAIN process /\ process[i] = from /\ process'[i] = to
        /\ \A j \in DOMAIN process : j # i => process'[j] = process[j]
    BY <2>2, <2>3, GoingOn
  <2> QED
    BY <1>1, <2>1, <2>2, <2>4, ProcessStepKeepsMatching
<1>10. CASE EnricherNext /\ UNCHANGED adminVars
  <2>1. UNCHANGED changes
    BY <1>10 DEF EnricherNext, Filter, Process, Punctuate, StreamThread, EmitBuffered,
                 FlushBlocked, FlushDone, EnrichRecord, BufferRecord, Load, Commit,
                 Crash, topicVars
  <2> QED
    BY <1>4, <1>10, <2>1 DEF adminVars, sessionVars
<1>11. CASE UNCHANGED allVars
  BY <1>4, <1>11 DEF allVars, enricherVars, adminVars, sessionVars
<1> QED
  BY <1>5, <1>6, <1>7, <1>8, <1>9, <1>10, <1>11 DEF AdminNext, Administration, Proceed

LEMMA MatchingInvHolds == AdminSafety => [](TypeOK /\ AdminInv /\ MatchingInv)
<1>1. Inv /\ AdminInv => TypeOK /\ AdminTypeOK
  BY DEF Inv, AdminInv
<1>2. AdminInit => MatchingInv
  BY DEF AdminInit, EnricherInit, MatchingInv, OnlyChangesAreMatched, RequestsChangeOnce,
         SeenRecordsAwaitTheirChange
<1>3. Inv /\ AdminInv /\ MatchingInv /\ [AdminNext]_allVars => MatchingInv'
  BY <1>1, StepKeepsMatching
<1> QED
  BY <1>1, <1>2, <1>3, AdminInvHolds, PTL DEF AdminSafety

\* The gateway is the only way to a task.
LEMMA OnlyTheGatewayOpensTasks ==
  ASSUME AdminTypeOK, AdminNext, NEW c \in Processes("task")' \ Processes("task")
  PROVE  DecideIfMissing(c)
<1>1. process \in Seq(Stage) /\ c \in DOMAIN process' /\ process'[c] = "task"
  BY DEF AdminTypeOK, Processes
<1>2. ASSUME NEW i, NEW from, NEW to \in Stage, GoOn(i, from, to) PROVE i = c /\ to = "task"
  <2>1. /\ DOMAIN process' = DOMAIN process /\ process'[i] = to
        /\ \A j \in DOMAIN process : j # i => process'[j] = process[j]
    BY <1>1, <1>2, GoingOn
  <2> QED
    BY <1>1, <2>1 DEF Processes
<1>3. ASSUME ReceiveChange PROVE FALSE
  <2>1. PICK stage \in {"waiting", "ended"} : process' = Append(process, stage)
    BY <1>3 DEF ReceiveChange
  <2>2. /\ c \in DOMAIN process => process'[c] = process[c]
        /\ c \notin DOMAIN process => process'[c] = stage
    BY <1>1, <2>1
  <2> QED
    BY <1>1, <2>1, <2>2 DEF Processes
<1>4. ASSUME NEW i, DecideIfMissing(i) PROVE i = c
  <2>1. \E to \in Stage : GoOn(i, "fired", to)
    BY <1>4 DEF DecideIfMissing, Stage
  <2> QED
    BY <1>2, <2>1
<1>5. ASSUME NEW i, InsertVegetable(i) \/ FireForVegetable(i) \/ CompleteTask(i) \/ Send(i)
      PROVE  FALSE
  <2>1. \E from, to \in Stage : to # "task" /\ GoOn(i, from, to)
    BY <1>5 DEF InsertVegetable, FireForVegetable, CompleteTask, Send, Stage
  <2> QED
    BY <1>2, <2>1
<1>6. ASSUME process' = process PROVE FALSE
  BY <1>1, <1>6 DEF Processes
<1> QED
  BY <1>3, <1>4, <1>5, <1>6
  DEF AdminNext, Administration, Proceed, Database, Snapshot, CommitRequest, UpdateByHand,
      RelayRow, InsertRecord, FireForRecord, adminVars

\* The administrator is not asked for what is known: no task is opened for a change
\* of the vegetables service if the rules have been fired for its record, in whatever
\* order the two topics are read and the threads take their steps.
THEOREM AdminAsksOnlyForUnknown == AdminSafety => NoTaskForSeenRequest
<1> DEFINE AsksForUnknown == \A i \in Processes("task")' \ Processes("task") :
      changes[i].tx \in Requests =>
        \A n \in 1..recordsSeen : context[n] = changes[i].tx => n \in unfired
<1>1. (TypeOK /\ AdminInv /\ MatchingInv) /\ [AdminNext]_allVars => [AsksForUnknown]_allVars
  <2> SUFFICES ASSUME TypeOK, AdminInv, MatchingInv, AdminNext,
                      NEW c \in Processes("task")' \ Processes("task"),
                      changes[c].tx \in Requests,
                      NEW n \in 1..recordsSeen, context[n] = changes[c].tx, n \notin unfired
               PROVE  FALSE
    OBVIOUS
  <2>1. DecideIfMissing(c)
    BY OnlyTheGatewayOpensTasks DEF AdminInv
  <2>2. c \in vegetableFacts /\ c \in DOMAIN process /\ process[c] = "fired"
    <3>1. /\ GoOn(c, "fired", IF c \in vegetableFacts THEN "task" ELSE "ended")
          /\ process \in Seq(Stage)
      BY <2>1 DEF DecideIfMissing, AdminInv, AdminTypeOK
    <3>2. process'[c] = "task"
      BY DEF Processes
    <3> QED
      BY <3>1, <3>2 DEF GoOn
  <2>3. c \in DOMAIN changes /\ Auditable(c) /\ Unmatched(c)
    BY <2>2 DEF MatchingInv, OnlyChangesAreMatched, Unmatched, TypeOK, AdminInv, AdminTypeOK
  <2>4. n \in transactionFacts
    BY <2>3 DEF MatchingInv, SeenRecordsAwaitTheirChange
  <2> QED
    BY <2>2, <2>4 DEF AdminInv, NoMatchIsOverlooked
<1> QED
  BY <1>1, MatchingInvHolds, PTL DEF AdminSafety, NoTaskForSeenRequest

===============================================================================
