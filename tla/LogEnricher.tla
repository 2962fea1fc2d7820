------------------------------ MODULE LogEnricher ------------------------------
(***************************************************************************)
(* auditlog/log-enricher: the Kafka Streams application that adds to each  *)
(* change event of the vegetable table the metadata of its transaction.    *)
(*                                                                         *)
(* The stream thread handles one record, or one punctuation, at a time;    *)
(* within it each look-up of the metadata is a step of its own, for the    *)
(* global thread loads the metadata topic meanwhile.  A metadata record    *)
(* stands for its offset in that topic, so that an audit tells which       *)
(* record of its transaction it was taken from.                            *)
(***************************************************************************)
EXTENDS Integers, Sequences

CONSTANTS
  Transactions,  \* the transactions of the vegetables database
  MaxChanges,    \* bound on the length of the topic vegetable
  MaxRecords,    \* bound on the length of the topic transaction_context_data
  MaxCrashes     \* bound on the restarts of the enricher

ASSUME BoundsAssumption ==
  MaxChanges \in Nat /\ MaxRecords \in Nat /\ MaxCrashes \in Nat

VARIABLES
  changes,      \* the topic vegetable: [tx, op]
  context,      \* the topic transaction_context_data: the transactions' ids
  loaded,       \* how much of context the global table has loaded
  position,     \* how much of changes the stream task has consumed
  buffer,       \* the store stream-buffer: key -> offset of a change
  offsets,      \* its entry BUFFER_OFFSETS_KEY; absent, it reads as initial()
  enriched,     \* the topic vegetable.enriched: [change, audit]
  pc,           \* what the stream thread is doing
  current,      \* the change that process() holds, 0 during a punctuation
  sequence,     \* the BufferOffsets object of enrichAndEmitBufferedEvents()
  committed,    \* position, stores and output as of the last Kafka transaction
  crashes

topicVars  == <<changes, context>>
taskVars   == <<position, buffer, offsets, enriched>>
threadVars == <<pc, current, sequence>>
enricherVars ==
  <<changes, context, loaded, position, buffer, offsets, enriched,
    pc, current, sequence, committed, crashes>>

Change  == [tx : Transactions, op : {"change", "snapshot", "tombstone"}]
Offsets == [first : Nat, next : Nat]
Entry   == [change : Nat, audit : Nat]

initial == [first |-> 1, next |-> 1]

Auditable(i) == changes[i].op = "change"

\* What the global table holds for a transaction: the last record loaded.
MetaData(n, tx) ==
  /\ n \in 1..loaded /\ context[n] = tx
  /\ \A m \in n+1..loaded : context[m] # tx

NoMetaData(tx) == \A n \in 1..loaded : context[n] # tx

TaskTypeOK(p, buf, keys, out) ==
  /\ p \in 0..Len(changes)
  /\ DOMAIN buf \subseteq Nat
  /\ \A k \in DOMAIN buf : buf[k] \in 1..Len(changes)
  /\ keys \in Offsets
  /\ out \in Seq(Entry)

TypeOK ==
  /\ changes \in Seq(Change) /\ context \in Seq(Transactions)
  /\ loaded \in 0..Len(context)
  /\ TaskTypeOK(position, buffer, offsets, enriched)
  /\ TaskTypeOK(committed.position, committed.buffer, committed.offsets,
                committed.enriched)
  /\ sequence \in Offsets
  /\ pc \in {"idle", "flushing", "enriching"}
  /\ current \in 0..Len(changes)
  /\ crashes \in 0..MaxCrashes

EnricherInit ==
  /\ changes = <<>> /\ context = <<>> /\ loaded = 0
  /\ position = 0 /\ buffer = <<>> /\ offsets = initial /\ enriched = <<>>
  /\ pc = "idle" /\ current = 0 /\ sequence = initial
  /\ committed = [position |-> 0, buffer |-> <<>>, offsets |-> initial,
                  enriched |-> <<>>]
  /\ crashes = 0

-------------------------------------------------------------------------------
\* The two topics, fed by the Debezium connector (and the administrator).

Produce(c) ==
  /\ Len(changes) < MaxChanges
  /\ changes' = Append(changes, c)
  /\ UNCHANGED <<context, loaded, taskVars, threadVars, committed, crashes>>

Record(tx) ==
  /\ Len(context) < MaxRecords
  /\ context' = Append(context, tx)
  /\ UNCHANGED <<changes, loaded, taskVars, threadVars, committed, crashes>>

\* Mutant: the table runs ahead of its topic.
LoadAhead ==
  /\ loaded <= Len(context) /\ loaded' = loaded + 1
  /\ UNCHANGED <<topicVars, taskVars, threadVars, committed, crashes>>

\* The global thread, in the middle of whatever the stream thread does.
Load ==
  /\ loaded < Len(context)
  /\ loaded' = loaded + 1
  /\ UNCHANGED <<topicVars, taskVars, threadVars, committed, crashes>>

-------------------------------------------------------------------------------
\* The stream thread.

NextIs(i) == pc = "idle" /\ position < Len(changes) /\ i = position + 1

\* The topology drops tombstones and snapshot events.
Filter ==
  /\ \E i \in DOMAIN changes : NextIs(i) /\ ~ Auditable(i)
  /\ position' = position + 1
  /\ UNCHANGED <<topicVars, loaded, buffer, offsets, enriched, threadVars,
                 committed, crashes>>

\* enrichAndEmitBufferedEvents() begins.
Flush(i) ==
  /\ pc' = "flushing" /\ current' = i /\ sequence' = offsets

\* Mutant: the buffer is not looked at first.
ProcessAtOnce ==
  /\ \E i \in DOMAIN changes :
       NextIs(i) /\ Auditable(i) /\ current' = i
  /\ pc' = "enriching" /\ sequence' = offsets
  /\ position' = position + 1
  /\ UNCHANGED <<topicVars, loaded, buffer, offsets, enriched, committed, crashes>>

\* process(record)
Process ==
  /\ \E i \in DOMAIN changes : NextIs(i) /\ Auditable(i) /\ Flush(i)
  /\ position' = position + 1
  /\ UNCHANGED <<topicVars, loaded, buffer, offsets, enriched, committed, crashes>>

\* Mutant: STREAM_TIME, which stands still when no record arrives.
PunctuateInStreamTime ==
  /\ pc = "idle" /\ offsets.first < offsets.next
  /\ position < Len(changes)
  /\ Flush(0)
  /\ UNCHANGED <<topicVars, loaded, taskVars, committed, crashes>>

\* The punctuation of every second; with an empty buffer it changes nothing.
Punctuate ==
  /\ pc = "idle" /\ offsets.first < offsets.next
  /\ Flush(0)
  /\ UNCHANGED <<topicVars, loaded, taskVars, committed, crashes>>

FirstBuffered == buffer[sequence.first]

Forward(i, n) == enriched' = Append(enriched, [change |-> i, audit |-> n])

\* One round of the loop: the first buffered event is emitted and deleted.
EmitBuffered ==
  /\ pc = "flushing" /\ sequence.first < sequence.next
  /\ \E n \in 1..loaded :
       MetaData(n, changes[FirstBuffered].tx) /\ Forward(FirstBuffered, n)
  /\ buffer' = [k \in DOMAIN buffer \ {sequence.first} |-> buffer[k]]
  /\ sequence' = [sequence EXCEPT !.first = @ + 1]
  /\ UNCHANGED <<topicVars, loaded, position, offsets, pc, current, committed, crashes>>

EndRecord == pc' = "idle" /\ current' = 0

\* bufferChangeEvent(), with the offsets the store holds.
BufferChangeEvent(i, seq) ==
  /\ buffer' = [k \in DOMAIN buffer \union {seq.next} |->
                  IF k = seq.next THEN i ELSE buffer[k]]
  /\ offsets' = [seq EXCEPT !.next = @ + 1]

\* The loop ends early: the first buffered event has no metadata yet, and the
\* record that process() holds is buffered behind it.
FlushBlocked ==
  /\ pc = "flushing" /\ sequence.first < sequence.next
  /\ NoMetaData(changes[FirstBuffered].tx)
  /\ IF current = 0
       THEN offsets' = sequence /\ UNCHANGED buffer
       ELSE BufferChangeEvent(current, sequence)
  /\ EndRecord
  /\ UNCHANGED <<topicVars, loaded, position, enriched, sequence, committed, crashes>>

\* The loop has emptied the buffer.
FlushDone ==
  /\ pc = "flushing" /\ sequence.first = sequence.next
  /\ offsets' = sequence
  /\ pc' = IF current = 0 THEN "idle" ELSE "enriching"
  /\ UNCHANGED <<topicVars, loaded, position, buffer, enriched, current,
                 sequence, committed, crashes>>

EnrichRecord ==
  /\ pc = "enriching"
  /\ \E n \in 1..loaded :
       MetaData(n, changes[current].tx) /\ Forward(current, n)
  /\ EndRecord
  /\ UNCHANGED <<topicVars, loaded, position, buffer, offsets, sequence,
                 committed, crashes>>

BufferRecord ==
  /\ pc = "enriching"
  /\ NoMetaData(changes[current].tx)
  /\ BufferChangeEvent(current, offsets)
  /\ EndRecord
  /\ UNCHANGED <<topicVars, loaded, position, enriched, sequence, committed, crashes>>

-------------------------------------------------------------------------------
\* exactly_once_v2: consumed offsets, stores and output are committed in one
\* Kafka transaction, between two records.
Commit ==
  /\ pc = "idle"
  /\ committed' = [position |-> position, buffer |-> buffer,
                   offsets |-> offsets, enriched |-> enriched]
  /\ UNCHANGED <<topicVars, loaded, taskVars, threadVars, crashes>>

\* Mutant: what was forwarded is not taken back (at_least_once).
RollBackStores ==
  /\ position' = committed.position /\ buffer' = committed.buffer
  /\ offsets' = committed.offsets   /\ UNCHANGED enriched

\* The open transaction is aborted: stores are restored from their changelog.
RollBackTask ==
  /\ position' = committed.position /\ buffer' = committed.buffer
  /\ offsets' = committed.offsets   /\ enriched' = committed.enriched

\* The enricher stops at any point and is started again; the global table is
\* loaded to the end of its topic before the task runs.
Crash ==
  /\ crashes < MaxCrashes /\ crashes' = crashes + 1
  /\ RollBackTask
  /\ loaded' = Len(context)
  /\ EndRecord /\ sequence' = initial
  /\ UNCHANGED <<topicVars, committed>>

-------------------------------------------------------------------------------
StreamThread == EmitBuffered \/ FlushBlocked \/ FlushDone \/ EnrichRecord \/ BufferRecord

EnricherNext ==
  Filter \/ Process \/ Punctuate \/ StreamThread \/ Load \/ Commit \/ Crash

Next ==
  \/ \E c \in Change : Produce(c)
  \/ \E tx \in Transactions : Record(tx)
  \/ EnricherNext

Spec == EnricherInit /\ [][Next]_enricherVars

\* The stream thread takes records, punctuates and commits in turn whenever it
\* is idle, so none of the three is put off for ever by the other two.
EnricherFairness ==
  /\ WF_enricherVars(StreamThread) /\ WF_enricherVars(Load)
  /\ SF_enricherVars(Filter \/ Process)
  /\ SF_enricherVars(Punctuate) /\ SF_enricherVars(Commit)

-------------------------------------------------------------------------------
\* What the enricher keeps true of a task: its position p, its buffer and the
\* keys in use, its output, and the change i that process() holds (0: none).

Emitted(i, out)  == \E a \in DOMAIN out : out[a].change = i
Buffered(i, buf) == \E k \in DOMAIN buf : buf[k] = i

\* The output and then the buffer are in the order of the topic.
LogIsInOrder(buf, out) ==
  /\ \A a, b \in DOMAIN out : a < b => out[a].change < out[b].change
  /\ \A j, k \in DOMAIN buf : j < k => buf[j] < buf[k]
  /\ \A a \in DOMAIN out : \A k \in DOMAIN buf : out[a].change < buf[k]

\* Every change consumed is in the output, in the buffer or in hand.
NothingIsLost(p, buf, out, i) ==
  \A c \in 1..p : Auditable(c) => Emitted(c, out) \/ Buffered(c, buf) \/ c = i

\* Nothing else is: only changes that were consumed before the one in hand.
NothingIsMadeUp(p, buf, out, i) ==
  /\ i # 0 => i = p /\ Auditable(i)
  /\ \A a \in DOMAIN out :
       /\ out[a].change \in 1..p /\ Auditable(out[a].change) /\ out[a].change # i
       /\ out[a].audit \in 1..loaded
       /\ context[out[a].audit] = changes[out[a].change].tx
  /\ \A k \in DOMAIN buf : buf[k] \in 1..p /\ Auditable(buf[k]) /\ buf[k] # i

\* Changes of one transaction: a later one never has an earlier audit.
AuditsNeverGoBack(out) ==
  \A a, b \in DOMAIN out :
     a < b /\ changes[out[a].change].tx = changes[out[b].change].tx
       => out[a].audit <= out[b].audit

TaskIsSound(p, buf, keys, out, i) ==
  /\ keys.first \in Nat \ {0} /\ keys.next \in Nat /\ keys.first <= keys.next
  /\ DOMAIN buf = keys.first..(keys.next - 1)
  /\ LogIsInOrder(buf, out)
  /\ NothingIsLost(p, buf, out, i)
  /\ NothingIsMadeUp(p, buf, out, i)
  /\ AuditsNeverGoBack(out)

\* While the loop runs, the store's offsets lag behind the loop's own.
KeysInUse == IF pc = "flushing" THEN sequence ELSE offsets

\* No change is lost, doubled or put before an earlier one, and its audit is
\* its transaction's, at every step of the loop, for the running task and for
\* the one a restart falls back to (the whole of ChangeEventEnricher).
EnricherInv ==
  /\ TaskIsSound(position, buffer, KeysInUse, enriched, current)
  /\ TaskIsSound(committed.position, committed.buffer, committed.offsets,
                 committed.enriched, 0)
  /\ (pc = "idle" => current = 0)
  /\ (pc = "enriching" => current # 0 /\ buffer = <<>>)
  /\ Len(committed.enriched) <= Len(enriched)
  /\ \A a \in DOMAIN committed.enriched : enriched[a] = committed.enriched[a]

\* The readers of the output (read_committed) see an AuditLog.
Published == INSTANCE AuditLog WITH log <- committed.enriched

ImplementsAuditLog == Published!Spec

\* A change is explained when it and all changes before it have metadata.
Explained(i) ==
  /\ i \in DOMAIN changes /\ Auditable(i)
  /\ \A j \in 1..i :
       Auditable(j) => \E n \in DOMAIN context : context[n] = changes[j].tx

\* An explained change is published in the end, although metadata is loaded by
\* another thread and nothing but the clock may happen after that (the
\* punctuation in init(), the retry in enrichAndEmitBufferedEvents()).
ExplainedChangesArePublished ==
  \A i \in 1..MaxChanges : Explained(i) ~> Emitted(i, committed.enriched)

===============================================================================
