------------------------------- MODULE AuditLog -------------------------------
(***************************************************************************)
(* What the audit log demo promises to the readers of the topic            *)
(* vegetable.enriched: the changes of the topic vegetable in their order,  *)
(* each once and none left out, each with the metadata of its own          *)
(* transaction; and nothing they have read is ever changed or withdrawn.   *)
(***************************************************************************)
EXTENDS Integers, Sequences

VARIABLES
  changes,      \* the topic vegetable
  context,      \* the topic transaction_context_data: record n is about
                \* the transaction context[n]
  log           \* the entries [change, audit]: two offsets, the change's in
                \* changes and its metadata's in context

logVars == <<changes, context, log>>

\* Snapshot events and tombstones are not part of the log.
Belongs(i) == changes[i].op = "change"

InOrder(l) ==
  \A a, b \in DOMAIN l : a < b => l[a].change < l[b].change

Complete(l) ==
  \A a \in DOMAIN l : \A i \in 1..l[a].change :
     Belongs(i) => \E b \in DOMAIN l : l[b].change = i

Explains(l) ==
  \A a \in DOMAIN l :
     /\ l[a].change \in DOMAIN changes /\ Belongs(l[a].change)
     /\ l[a].audit \in DOMAIN context
     /\ context[l[a].audit] = changes[l[a].change].tx

Right(l) == InOrder(l) /\ Complete(l) /\ Explains(l)

Extends(new, old) ==
  /\ Len(old) <= Len(new)
  /\ \A n \in DOMAIN old : new[n] = old[n]

Init == changes = <<>> /\ context = <<>> /\ log = <<>>

\* The topics grow.
Arrive ==
  /\ Extends(changes', changes) /\ Extends(context', context)
  /\ UNCHANGED log

\* Entries are added, one or several at a time.
Publish ==
  /\ Extends(log', log) /\ Right(log')
  /\ UNCHANGED <<changes, context>>

Next == Arrive \/ Publish

Spec == Init /\ [][Next]_logVars

===============================================================================
