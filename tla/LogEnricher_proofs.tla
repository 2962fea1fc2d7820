--------------------------- MODULE LogEnricher_proofs ---------------------------
(***************************************************************************)
(* Proofs about LogEnricher, for any transactions and any bounds: its      *)
(* types, its invariant and that the topic vegetable.enriched, as its      *)
(* readers see it, is an AuditLog.                                         *)
(***************************************************************************)
EXTENDS LogEnricher, TLAPS

-------------------------------------------------------------------------------
\* The topics only grow, and the table follows: what is sound stays sound.

TopicsGrow ==
  /\ Len(changes) <= Len(changes')
  /\ \A c \in 1..Len(changes) : changes'[c] = changes[c]
  /\ Len(context) <= Len(context')
  /\ \A n \in 1..Len(context) : context'[n] = context[n]
  /\ loaded <= loaded'

\* A step that leaves the topics alone or appends to them (Produce, Record,
\* Load, Crash) keeps a sound task sound.
LEMMA SoundAsTopicsGrow ==
  ASSUME TypeOK, TypeOK', TopicsGrow,
         NEW p, NEW buf, NEW keys, NEW out, NEW i,
         TaskTypeOK(p, buf, keys, out),
         TaskIsSound(p, buf, keys, out, i)
  PROVE  TaskIsSound(p, buf, keys, out, i)'
<1>1. /\ p \in 0..Len(changes) /\ out \in Seq(Entry)
      /\ Len(changes) \in Nat /\ Len(context) \in Nat
      /\ loaded \in 0..Len(context) /\ loaded' \in Nat
  <2>1. p \in 0..Len(changes) /\ out \in Seq(Entry)
    BY DEF TaskTypeOK
  <2>2. changes \in Seq(Change) /\ context \in Seq(Transactions)
    BY DEF TypeOK
  <2>3. loaded \in 0..Len(context)
    BY DEF TypeOK
  <2>4. loaded' \in 0..Len(context') /\ context' \in Seq(Transactions)
    BY DEF TypeOK
  <2> QED
    BY <2>1, <2>2, <2>3, <2>4
<1>2. \A c \in 1..p : changes'[c] = changes[c]
  BY <1>1 DEF TopicsGrow
<1>3. \A n \in 1..loaded : n \in 1..loaded' /\ context'[n] = context[n]
  BY <1>1 DEF TopicsGrow
<1>4. \A a \in DOMAIN out : out[a].change \in 1..p /\ out[a].audit \in 1..loaded
  BY DEF TaskIsSound, NothingIsMadeUp
<1>5. LogIsInOrder(buf, out)'
  BY DEF TaskIsSound, LogIsInOrder
<1>6. NothingIsLost(p, buf, out, i)'
  BY <1>2 DEF TaskIsSound, NothingIsLost, Auditable, Emitted, Buffered
<1>7. NothingIsMadeUp(p, buf, out, i)'
  <2>1. i # 0 => i = p /\ Auditable(i)'
    <3>1. i # 0 => i = p /\ Auditable(i)
      BY DEF TaskIsSound, NothingIsMadeUp
    <3>2. p # 0 => p \in 1..p
      BY <1>1
    <3> QED
      BY <3>1, <3>2, <1>2 DEF Auditable
  <2>2. ASSUME NEW a \in DOMAIN out
        PROVE  /\ out[a].change \in 1..p /\ Auditable(out[a].change)'
               /\ out[a].change # i
               /\ out[a].audit \in 1..loaded'
               /\ context'[out[a].audit] = changes'[out[a].change].tx
    BY <1>2, <1>3, <1>4 DEF TaskIsSound, NothingIsMadeUp, Auditable
  <2>3. \A k \in DOMAIN buf : buf[k] \in 1..p /\ Auditable(buf[k])' /\ buf[k] # i
    BY <1>2 DEF TaskIsSound, NothingIsMadeUp, Auditable
  <2> QED
    BY <2>1, <2>2, <2>3 DEF NothingIsMadeUp
<1>8. AuditsNeverGoBack(out)'
  BY <1>2, <1>4 DEF TaskIsSound, AuditsNeverGoBack
<1> QED
  BY <1>5, <1>6, <1>7, <1>8 DEF TaskIsSound


LEMMA TypesAsTopicsGrow ==
  ASSUME Len(changes) \in Nat, Len(changes)' \in Nat, TopicsGrow,
         NEW p, NEW buf, NEW keys, NEW out,
         TaskTypeOK(p, buf, keys, out)
  PROVE  TaskTypeOK(p, buf, keys, out)'
<1>1. Len(changes) <= Len(changes')
  BY DEF TopicsGrow
<1> QED
  BY <1>1 DEF TaskTypeOK

-------------------------------------------------------------------------------
\* What the enricher does to a task, with the topics as they are.

\* The next record is consumed: process() takes it in hand, or it is dropped.
LEMMA TakeKeepsSound ==
  ASSUME NEW p, NEW buf, NEW keys, NEW out, p \in Nat,
         TaskIsSound(p, buf, keys, out, 0)
  PROVE  /\ Auditable(p + 1) => TaskIsSound(p + 1, buf, keys, out, p + 1)
         /\ ~ Auditable(p + 1) => TaskIsSound(p + 1, buf, keys, out, 0)
<1>1. \A c \in 1..(p + 1) : c \in 1..p \/ c = p + 1
  OBVIOUS
<1>2. \A c \in 1..p : c \in 1..(p + 1) /\ c # p + 1
  OBVIOUS
<1>3. LogIsInOrder(buf, out) /\ AuditsNeverGoBack(out)
  BY DEF TaskIsSound
<1>4. /\ keys.first \in Nat \ {0} /\ keys.next \in Nat /\ keys.first <= keys.next
      /\ DOMAIN buf = keys.first..(keys.next - 1)
  BY DEF TaskIsSound
<1>5. ASSUME Auditable(p + 1)
      PROVE  TaskIsSound(p + 1, buf, keys, out, p + 1)
  <2>1. NothingIsLost(p + 1, buf, out, p + 1)
    BY <1>1 DEF TaskIsSound, NothingIsLost
  <2>2. NothingIsMadeUp(p + 1, buf, out, p + 1)
    BY <1>2, <1>5 DEF TaskIsSound, NothingIsMadeUp
  <2> QED
    BY <1>3, <1>4, <2>1, <2>2 DEF TaskIsSound
<1>6. ASSUME ~ Auditable(p + 1)
      PROVE  TaskIsSound(p + 1, buf, keys, out, 0)
  <2>1. NothingIsLost(p + 1, buf, out, 0)
    BY <1>1, <1>6 DEF TaskIsSound, NothingIsLost
  <2>2. NothingIsMadeUp(p + 1, buf, out, 0)
    BY <1>2 DEF TaskIsSound, NothingIsMadeUp
  <2> QED
    BY <1>3, <1>4, <2>1, <2>2 DEF TaskIsSound
<1> QED
  BY <1>5, <1>6

\* A metadata record that the table holds is no older than any audit of the
\* same transaction.
LEMMA AuditIsLatest ==
  ASSUME NEW p, NEW buf, NEW keys, NEW out, NEW i, NEW tx, NEW n,
         loaded \in Nat,
         TaskIsSound(p, buf, keys, out, i), MetaData(n, tx)
  PROVE  \A a \in DOMAIN out :
            changes[out[a].change].tx = tx => out[a].audit <= n
<1> SUFFICES ASSUME NEW a \in DOMAIN out, changes[out[a].change].tx = tx
             PROVE  out[a].audit <= n
  OBVIOUS
<1>1. out[a].audit \in 1..loaded /\ context[out[a].audit] = tx
  BY DEF TaskIsSound, NothingIsMadeUp
<1>2. n \in 1..loaded /\ \A m \in n+1..loaded : context[m] # tx
  BY DEF MetaData
<1> QED
  BY <1>1, <1>2

\* An entry c is appended to the output: c was the first of the buffer (and
\* rest is what is left of it), or the change in hand with nothing buffered.
LEMMA AppendKeepsOrder ==
  ASSUME NEW buf, NEW out \in Seq(Entry), NEW rest, NEW c \in Nat, NEW n \in Nat,
         LogIsInOrder(buf, out),
         DOMAIN rest \subseteq DOMAIN buf,
         \A k \in DOMAIN rest : rest[k] = buf[k] /\ c < rest[k],
         \A a \in DOMAIN out : out[a].change < c
  PROVE  LogIsInOrder(rest, Append(out, [change |-> c, audit |-> n]))
<1> DEFINE new == Append(out, [change |-> c, audit |-> n])
<1>1. /\ DOMAIN new = 1..(Len(out) + 1) /\ Len(out) \in Nat
      /\ DOMAIN out = 1..Len(out)
      /\ \A a \in DOMAIN out : new[a] = out[a]
      /\ new[Len(out) + 1] = [change |-> c, audit |-> n]
  BY DEF Entry
<1>2. \A a \in DOMAIN new : a \in DOMAIN out \/ a = Len(out) + 1
  BY <1>1
<1>3. new[Len(out) + 1].change = c
  BY <1>1
<1> HIDE DEF new
<1>4. \A a, b \in DOMAIN new : a < b => new[a].change < new[b].change
  <2> SUFFICES ASSUME NEW a \in DOMAIN new, NEW b \in DOMAIN new, a < b
               PROVE  new[a].change < new[b].change
    OBVIOUS
  <2>1. a \in DOMAIN out
    BY <1>1, <1>2
  <2>2. CASE b \in DOMAIN out
    BY <1>1, <2>1, <2>2 DEF LogIsInOrder
  <2>3. CASE b = Len(out) + 1
    BY <1>1, <1>3, <2>1, <2>3
  <2> QED
    BY <1>2, <2>2, <2>3
<1>5. \A j, k \in DOMAIN rest : j < k => rest[j] < rest[k]
  BY DEF LogIsInOrder
<1>6. \A a \in DOMAIN new : \A k \in DOMAIN rest : new[a].change < rest[k]
  <2> SUFFICES ASSUME NEW a \in DOMAIN new, NEW k \in DOMAIN rest
               PROVE  new[a].change < rest[k]
    OBVIOUS
  <2>1. CASE a \in DOMAIN out
    BY <1>1, <2>1 DEF LogIsInOrder
  <2>2. CASE a = Len(out) + 1
    BY <1>3, <2>2
  <2> QED
    BY <1>2, <2>1, <2>2
<1> QED
  BY <1>4, <1>5, <1>6 DEF LogIsInOrder, new

LEMMA Appended ==
  ASSUME NEW out \in Seq(Entry), NEW e \in Entry
  PROVE  LET new == Append(out, e) IN
           /\ new \in Seq(Entry) /\ DOMAIN new = 1..(Len(out) + 1)
           /\ Len(new) = Len(out) + 1
           /\ \A a \in DOMAIN new : a \in DOMAIN out \/ a = Len(out) + 1
           /\ \A a \in DOMAIN out : a \in DOMAIN new /\ new[a] = out[a]
                                    /\ a < Len(out) + 1
           /\ Len(out) + 1 \in DOMAIN new /\ new[Len(out) + 1] = e
           /\ Emitted(e.change, new)
           /\ \A c : Emitted(c, out) => Emitted(c, new)
<1> DEFINE new == Append(out, e)
<1>1. /\ new \in Seq(Entry) /\ DOMAIN new = 1..(Len(out) + 1)
      /\ Len(new) = Len(out) + 1
      /\ DOMAIN out = 1..Len(out) /\ Len(out) \in Nat
      /\ \A a \in DOMAIN out : new[a] = out[a]
      /\ new[Len(out) + 1] = e
  OBVIOUS
<1> HIDE DEF new
<1>2. /\ \A a \in DOMAIN new : a \in DOMAIN out \/ a = Len(out) + 1
      /\ \A a \in DOMAIN out : a \in DOMAIN new /\ a < Len(out) + 1
      /\ Len(out) + 1 \in DOMAIN new
  BY <1>1
<1>3. Emitted(e.change, new) /\ \A c : Emitted(c, out) => Emitted(c, new)
  BY <1>1, <1>2 DEF Emitted
<1> QED
  BY <1>1, <1>2, <1>3 DEF new

\* The audit of the entry appended is the last loaded for its transaction.
LEMMA AppendKeepsAudits ==
  ASSUME NEW p \in Nat, NEW buf, NEW keys, NEW out \in Seq(Entry), NEW i,
         NEW c \in Nat, NEW n \in Nat, loaded \in Nat,
         TaskIsSound(p, buf, keys, out, i), MetaData(n, changes[c].tx)
  PROVE  AuditsNeverGoBack(Append(out, [change |-> c, audit |-> n]))
<1> DEFINE e == [change |-> c, audit |-> n]
           new == Append(out, e)
<1>1. e \in Entry /\ e.change = c /\ e.audit = n
  BY DEF Entry
<1>2. \A a \in DOMAIN out : changes[out[a].change].tx = changes[c].tx => out[a].audit <= n
  BY AuditIsLatest
<1>3. AuditsNeverGoBack(out)
  BY DEF TaskIsSound
<1> HIDE DEF e
<1>4. /\ \A a \in DOMAIN new : a \in DOMAIN out \/ a = Len(out) + 1
      /\ \A a \in DOMAIN out : new[a] = out[a] /\ a < Len(out) + 1
      /\ new[Len(out) + 1] = e
  BY <1>1, Appended
<1> HIDE DEF new
<1> SUFFICES ASSUME NEW a \in DOMAIN new, NEW b \in DOMAIN new, a < b,
                    changes[new[a].change].tx = changes[new[b].change].tx
             PROVE  new[a].audit <= new[b].audit
  BY DEF AuditsNeverGoBack, new, e
<1>5. DOMAIN out \subseteq Nat /\ Len(out) \in Nat
  OBVIOUS
<1>6. a \in DOMAIN out
  <2>1. CASE a = Len(out) + 1
    BY <1>4, <1>5, <2>1
  <2> QED
    BY <1>4, <2>1
<1>7. CASE b \in DOMAIN out
  BY <1>3, <1>4, <1>6, <1>7 DEF AuditsNeverGoBack
<1>8. CASE b = Len(out) + 1
  BY <1>1, <1>2, <1>4, <1>6, <1>8
<1> QED
  BY <1>4, <1>7, <1>8

\* EmitBuffered
LEMMA EmitKeepsSound ==
  ASSUME NEW p \in Nat, NEW buf, NEW keys, NEW out \in Seq(Entry), NEW i,
         NEW n \in Nat, loaded \in Nat,
         TaskIsSound(p, buf, keys, out, i), keys \in Offsets,
         keys.first < keys.next,
         n \in 1..loaded, MetaData(n, changes[buf[keys.first]].tx),
         NEW rest, rest = [k \in DOMAIN buf \ {keys.first} |-> buf[k]],
         NEW left, left.first = keys.first + 1, left.next = keys.next
  PROVE  TaskIsSound(p, rest, left,
                     Append(out, [change |-> buf[keys.first], audit |-> n]), i)
<1> DEFINE first == keys.first
           c     == buf[first]
           e     == [change |-> c, audit |-> n]
           new   == Append(out, e)
<1>1. /\ first \in Nat \ {0} /\ keys.next \in Nat
      /\ DOMAIN buf = first..(keys.next - 1) /\ first \in DOMAIN buf
  BY DEF TaskIsSound, Offsets
<1>2. /\ left.first = first + 1 /\ left.next = keys.next
      /\ DOMAIN rest = (first + 1)..(keys.next - 1)
      /\ left.first <= left.next
  BY <1>1 DEF Offsets
<1>3. \A k \in DOMAIN rest : k \in DOMAIN buf /\ rest[k] = buf[k] /\ first < k
  BY <1>1, <1>2
<1>4. /\ c \in 1..p /\ Auditable(c) /\ c # i
      /\ \A a \in DOMAIN out : out[a].change < c
      /\ \A k \in DOMAIN rest : c < buf[k]
  BY <1>1, <1>3 DEF TaskIsSound, NothingIsMadeUp, LogIsInOrder
<1>5. e \in Entry /\ e.change = c /\ e.audit = n
  BY <1>4 DEF Entry
<1>6. context[n] = changes[c].tx
  BY DEF MetaData
<1>7. LogIsInOrder(rest, new)
  <2>1. LogIsInOrder(buf, out) /\ c \in Nat
    BY <1>4 DEF TaskIsSound
  <2> HIDE DEF c, first
  <2> QED
    BY <1>3, <1>4, <2>1, AppendKeepsOrder DEF new, e
<1>8. AuditsNeverGoBack(new)
  BY <1>4, AppendKeepsAudits
<1>9. /\ \A a \in DOMAIN new : a \in DOMAIN out \/ a = Len(out) + 1
      /\ \A a \in DOMAIN out : new[a] = out[a]
      /\ new[Len(out) + 1] = e
      /\ Emitted(e.change, new)
      /\ \A d : Emitted(d, out) => Emitted(d, new)
  BY <1>5, Appended
<1>10. NothingIsLost(p, rest, new, i)
  <2> SUFFICES ASSUME NEW d \in 1..p, Auditable(d)
               PROVE  Emitted(d, new) \/ Buffered(d, rest) \/ d = i
    BY DEF NothingIsLost
  <2>1. CASE Emitted(d, out)
    BY <1>9, <2>1
  <2>2. CASE Buffered(d, buf)
    <3>1. PICK k \in DOMAIN buf : buf[k] = d
      BY <2>2 DEF Buffered
    <3>2. CASE k = first
      BY <1>5, <1>9, <3>1, <3>2
    <3>3. CASE k # first
      <4>1. k \in DOMAIN rest /\ rest[k] = d
        BY <3>1, <3>3
      <4> QED
        BY <4>1 DEF Buffered
    <3> QED
      BY <3>2, <3>3
  <2> QED
    BY <2>1, <2>2 DEF TaskIsSound, NothingIsLost
<1> HIDE DEF c, new, e
<1>11. NothingIsMadeUp(p, rest, new, i)
  <2>1. i # 0 => i = p /\ Auditable(i)
    BY DEF TaskIsSound, NothingIsMadeUp
  <2>2. ASSUME NEW a \in DOMAIN new
        PROVE  /\ new[a].change \in 1..p /\ Auditable(new[a].change)
               /\ new[a].change # i
               /\ new[a].audit \in 1..loaded
               /\ context[new[a].audit] = changes[new[a].change].tx
    <3>1. CASE a \in DOMAIN out
      BY <1>9, <3>1 DEF TaskIsSound, NothingIsMadeUp
    <3>2. CASE a = Len(out) + 1
      BY <1>4, <1>5, <1>6, <1>9, <3>2
    <3> QED
      BY <1>9, <3>1, <3>2
  <2>3. \A k \in DOMAIN rest : rest[k] \in 1..p /\ Auditable(rest[k]) /\ rest[k] # i
    BY <1>3 DEF TaskIsSound, NothingIsMadeUp
  <2> QED
    BY <2>1, <2>2, <2>3 DEF NothingIsMadeUp
<1>12. TaskIsSound(p, rest, left, new, i)
  BY <1>1, <1>2, <1>7, <1>8, <1>10, <1>11 DEF TaskIsSound
<1> QED
  BY <1>12 DEF c, new, e

\* EnrichRecord
LEMMA ForwardKeepsSound ==
  ASSUME NEW p \in Nat, NEW buf, NEW keys, NEW out \in Seq(Entry), NEW i,
         NEW n \in Nat, loaded \in Nat,
         TaskIsSound(p, buf, keys, out, i), i # 0, DOMAIN buf = {},
         n \in 1..loaded, MetaData(n, changes[i].tx)
  PROVE  TaskIsSound(p, buf, keys, Append(out, [change |-> i, audit |-> n]), 0)
<1> DEFINE e   == [change |-> i, audit |-> n]
           new == Append(out, e)
<1>1. /\ i = p /\ Auditable(i) /\ i \in 1..p
      /\ \A a \in DOMAIN out : out[a].change < i
  BY DEF TaskIsSound, NothingIsMadeUp
<1>2. e \in Entry /\ e.change = i /\ e.audit = n
  BY <1>1 DEF Entry
<1>3. context[n] = changes[i].tx
  BY DEF MetaData
<1>4. LogIsInOrder(buf, new)
  <2>1. LogIsInOrder(buf, out)
    BY DEF TaskIsSound
  <2> QED
    BY <1>1, <2>1, AppendKeepsOrder
<1>5. AuditsNeverGoBack(new)
  BY <1>1, AppendKeepsAudits
<1>6. /\ \A a \in DOMAIN new : a \in DOMAIN out \/ a = Len(out) + 1
      /\ \A a \in DOMAIN out : new[a] = out[a]
      /\ new[Len(out) + 1] = e
      /\ Emitted(e.change, new)
      /\ \A d : Emitted(d, out) => Emitted(d, new)
  BY <1>2, Appended
<1> HIDE DEF new, e
<1>7. NothingIsLost(p, buf, new, 0)
  BY <1>2, <1>6 DEF TaskIsSound, NothingIsLost
<1>8. NothingIsMadeUp(p, buf, new, 0)
  <2>1. ASSUME NEW a \in DOMAIN new
        PROVE  /\ new[a].change \in 1..p /\ Auditable(new[a].change)
               /\ new[a].change # 0
               /\ new[a].audit \in 1..loaded
               /\ context[new[a].audit] = changes[new[a].change].tx
    <3>1. CASE a \in DOMAIN out
      BY SMTT(30), <1>6, <3>1 DEF TaskIsSound, NothingIsMadeUp
    <3>2. CASE a = Len(out) + 1
      BY <1>1, <1>2, <1>3, <1>6, <3>2
    <3> QED
      BY <1>6, <3>1, <3>2
  <2> QED
    BY <2>1 DEF NothingIsMadeUp
<1> QED
  BY <1>4, <1>5, <1>7, <1>8 DEF TaskIsSound, new, e

\* BufferChangeEvent
LEMMA BufferKeepsSound ==
  ASSUME NEW p \in Nat, NEW buf, NEW keys, NEW out \in Seq(Entry), NEW i,
         TaskIsSound(p, buf, keys, out, i), i # 0,
         NEW more, more = [k \in DOMAIN buf \union {keys.next} |->
                             IF k = keys.next THEN i ELSE buf[k]],
         NEW used, used.first = keys.first, used.next = keys.next + 1
  PROVE  TaskIsSound(p, more, used, out, 0)
<1> DEFINE last == keys.next
<1>1. /\ keys.first \in Nat \ {0} /\ last \in Nat /\ keys.first <= last
      /\ DOMAIN buf = keys.first..(last - 1)
  BY DEF TaskIsSound
<1>2. /\ used.first = keys.first /\ used.next = last + 1
      /\ DOMAIN more = keys.first..last
  BY <1>1 DEF Offsets
<1>3. /\ more[last] = i /\ last \in DOMAIN more
      /\ \A k \in DOMAIN buf : k \in DOMAIN more /\ more[k] = buf[k] /\ k < last
      /\ \A k \in DOMAIN more : k \in DOMAIN buf \/ k = last
  BY <1>1
<1>4. /\ i = p /\ i \in 1..p /\ Auditable(i)
      /\ \A a \in DOMAIN out : out[a].change < i
      /\ \A k \in DOMAIN buf : buf[k] < i
  BY DEF TaskIsSound, NothingIsMadeUp
<1> HIDE DEF last
<1>5. LogIsInOrder(more, out)
  <2>1. LogIsInOrder(buf, out)
    BY DEF TaskIsSound
  <2>2. ASSUME NEW j \in DOMAIN more, NEW k \in DOMAIN more, j < k
        PROVE  more[j] < more[k]
    <3>1. j \in DOMAIN buf
      <4>1. CASE j = last
        BY <1>1, <1>3, <2>2, <4>1
      <4> QED
        BY <1>3, <4>1
    <3>2. CASE k \in DOMAIN buf
      BY <1>3, <2>1, <2>2, <3>1, <3>2 DEF LogIsInOrder
    <3>3. CASE k = last
      BY <1>3, <1>4, <3>1, <3>3
    <3> QED
      BY <1>3, <3>2, <3>3
  <2>3. \A a \in DOMAIN out : \A k \in DOMAIN more : out[a].change < more[k]
    BY <1>3, <1>4, <2>1 DEF LogIsInOrder
  <2> QED
    BY <2>1, <2>2, <2>3 DEF LogIsInOrder
<1>6. NothingIsLost(p, more, out, 0)
  <2>1. \A d : Buffered(d, buf) \/ d = i => Buffered(d, more)
    BY <1>3 DEF Buffered
  <2> QED
    BY <2>1 DEF TaskIsSound, NothingIsLost
<1>7. NothingIsMadeUp(p, more, out, 0)
  <2>1. \A k \in DOMAIN more : more[k] \in 1..p /\ Auditable(more[k]) /\ more[k] # 0
    BY <1>3, <1>4 DEF TaskIsSound, NothingIsMadeUp
  <2>2. \A a \in DOMAIN out :
          /\ out[a].change \in 1..p /\ Auditable(out[a].change) /\ out[a].change # 0
          /\ out[a].audit \in 1..loaded
          /\ context[out[a].audit] = changes[out[a].change].tx
    BY DEF TaskIsSound, NothingIsMadeUp
  <2> QED
    BY <2>1, <2>2 DEF NothingIsMadeUp
<1>8. AuditsNeverGoBack(out)
  BY DEF TaskIsSound
<1> QED
  BY <1>1, <1>2, <1>5, <1>6, <1>7, <1>8 DEF TaskIsSound, last

-------------------------------------------------------------------------------
\* The invariant is inductive.

Inv == TypeOK /\ EnricherInv

\* What is left to show of a step that does not commit.
LEMMA StepKeepsInv ==
  ASSUME Inv, TopicsGrow,
         changes' \in Seq(Change), context' \in Seq(Transactions),
         loaded' \in 0..Len(context'),
         TaskTypeOK(position', buffer', offsets', enriched'),
         TaskIsSound(position', buffer', KeysInUse', enriched', current'),
         sequence' \in Offsets, pc' \in {"idle", "flushing", "enriching"},
         current' \in 0..Len(changes), crashes' \in 0..MaxCrashes,
         UNCHANGED committed,
         Len(committed.enriched) <= Len(enriched'),
         \A a \in DOMAIN committed.enriched : enriched'[a] = committed.enriched[a],
         pc' = "idle" => current' = 0,
         pc' = "enriching" => current' # 0 /\ buffer' = <<>>
  PROVE  Inv'
<1>1. Len(changes) \in Nat /\ Len(changes)' \in Nat /\ Len(changes) <= Len(changes')
  BY DEF Inv, TypeOK, TopicsGrow
<1>2. /\ TaskTypeOK(position, buffer, offsets, enriched)'
      /\ TaskTypeOK(committed.position, committed.buffer, committed.offsets,
                    committed.enriched)'
  BY <1>1, TypesAsTopicsGrow DEF Inv, TypeOK
<1>3. TypeOK'
  BY <1>1, <1>2 DEF TypeOK
<1>4. TaskTypeOK(position', buffer', KeysInUse', enriched')
  BY DEF KeysInUse, TaskTypeOK
<1>5. TaskIsSound(position, buffer, KeysInUse, enriched, current)'
  BY <1>3, <1>4, SoundAsTopicsGrow DEF Inv
<1>6. TaskIsSound(committed.position, committed.buffer, committed.offsets,
                  committed.enriched, 0)'
  BY <1>3, SoundAsTopicsGrow DEF Inv, TypeOK, EnricherInv
<1> QED
  BY <1>3, <1>5, <1>6 DEF Inv, EnricherInv

\* A step of the environment or of the global thread.
LEMMA TopicStepKeepsInv ==
  ASSUME Inv, TopicsGrow,
         changes' \in Seq(Change), context' \in Seq(Transactions),
         loaded' \in 0..Len(context'),
         UNCHANGED <<taskVars, threadVars, committed, crashes>>
  PROVE  Inv'
<1>1. UNCHANGED <<position, buffer, offsets, enriched, pc, current, sequence,
                  committed, crashes, KeysInUse>>
  BY DEF taskVars, threadVars, KeysInUse
<1>2. TaskTypeOK(position', buffer', offsets', enriched')
  BY <1>1 DEF Inv, TypeOK
<1>3. TaskIsSound(position', buffer', KeysInUse', enriched', current')
  BY <1>1 DEF Inv, EnricherInv
<1>4. /\ Len(committed.enriched) <= Len(enriched')
      /\ \A a \in DOMAIN committed.enriched : enriched'[a] = committed.enriched[a]
      /\ (pc' = "idle" => current' = 0)
      /\ (pc' = "enriching" => current' # 0 /\ buffer' = <<>>)
  BY <1>1 DEF Inv, EnricherInv
<1>5. /\ sequence' \in Offsets /\ pc' \in {"idle", "flushing", "enriching"}
      /\ current' \in 0..Len(changes) /\ crashes' \in 0..MaxCrashes
  BY <1>1 DEF Inv, TypeOK
<1> QED
  BY <1>1, <1>2, <1>3, <1>4, <1>5, StepKeepsInv

\* A step of the stream thread: the topics and the table are as they were.
LEMMA ThreadStepKeepsInv ==
  ASSUME Inv, UNCHANGED <<topicVars, loaded, committed, crashes>>,
         TaskTypeOK(position', buffer', offsets', enriched'),
         TaskIsSound(position', buffer', KeysInUse', enriched', current'),
         sequence' \in Offsets, pc' \in {"idle", "flushing", "enriching"},
         current' \in 0..Len(changes),
         Len(enriched) <= Len(enriched'),
         \A a \in DOMAIN enriched : enriched'[a] = enriched[a],
         pc' = "idle" => current' = 0,
         pc' = "enriching" => current' # 0 /\ buffer' = <<>>
  PROVE  Inv'
<1>1. TopicsGrow
  BY DEF TopicsGrow, topicVars, Inv, TypeOK
<1>2. /\ changes' \in Seq(Change) /\ context' \in Seq(Transactions)
      /\ loaded' \in 0..Len(context') /\ crashes' \in 0..MaxCrashes
  BY DEF Inv, TypeOK, topicVars
<1>3. /\ Len(committed.enriched) <= Len(enriched')
      /\ \A a \in DOMAIN committed.enriched : enriched'[a] = committed.enriched[a]
  <2>1. /\ enriched \in Seq(Entry) /\ enriched' \in Seq(Entry)
        /\ committed.enriched \in Seq(Entry)
    BY DEF Inv, TypeOK, TaskTypeOK
  <2>2. /\ Len(committed.enriched) <= Len(enriched)
        /\ \A a \in DOMAIN committed.enriched : enriched[a] = committed.enriched[a]
    BY DEF Inv, EnricherInv
  <2> QED
    BY <2>1, <2>2
<1> QED
  BY <1>1, <1>2, <1>3, StepKeepsInv

LEMMA InitInv == EnricherInit => Inv
<1> SUFFICES ASSUME EnricherInit PROVE Inv
  OBVIOUS
<1> USE BoundsAssumption DEF EnricherInit
<1>1. TaskTypeOK(0, <<>>, initial, <<>>)
  BY DEF TaskTypeOK, initial, Offsets
<1>2. TypeOK
  BY <1>1 DEF TypeOK, initial, Offsets
<1>3. TaskIsSound(0, <<>>, initial, <<>>, 0)
  BY DEF TaskIsSound, LogIsInOrder, NothingIsLost, NothingIsMadeUp,
         AuditsNeverGoBack, initial
<1> QED
  BY <1>2, <1>3 DEF Inv, EnricherInv, KeysInUse

LEMMA ProduceKeepsInv ==
  ASSUME Inv, NEW c \in Change, Produce(c)
  PROVE  Inv'
<1>1. changes \in Seq(Change) /\ context \in Seq(Transactions) /\ loaded \in 0..Len(context)
  BY DEF Inv, TypeOK
<1>2. TopicsGrow /\ changes' \in Seq(Change)
  BY <1>1 DEF Produce, TopicsGrow
<1> QED
  BY <1>1, <1>2, TopicStepKeepsInv DEF Produce

LEMMA RecordKeepsInv ==
  ASSUME Inv, NEW tx \in Transactions, Record(tx)
  PROVE  Inv'
<1>1. changes \in Seq(Change) /\ context \in Seq(Transactions) /\ loaded \in 0..Len(context)
  BY DEF Inv, TypeOK
<1>2. TopicsGrow /\ context' \in Seq(Transactions) /\ loaded' \in 0..Len(context')
  BY <1>1 DEF Record, TopicsGrow
<1> QED
  BY <1>1, <1>2, TopicStepKeepsInv DEF Record

LEMMA LoadKeepsInv == ASSUME Inv, Load PROVE Inv'
<1>1. changes \in Seq(Change) /\ context \in Seq(Transactions) /\ loaded \in 0..Len(context)
  BY DEF Inv, TypeOK
<1>2. TopicsGrow /\ loaded' \in 0..Len(context') /\ UNCHANGED <<changes, context>>
  BY <1>1 DEF Load, TopicsGrow, topicVars
<1> QED
  BY <1>1, <1>2, TopicStepKeepsInv DEF Load

\* Filter and Process
LEMMA TakeKeepsInv == ASSUME Inv, Filter \/ Process PROVE Inv'
<1>1. /\ position \in Nat /\ position' = position + 1 /\ position < Len(changes)
      /\ Len(changes) \in Nat
      /\ pc = "idle" /\ current = 0 /\ KeysInUse = offsets
      /\ UNCHANGED <<topicVars, loaded, buffer, offsets, enriched, committed, crashes>>
  BY DEF Inv, TypeOK, TaskTypeOK, EnricherInv, KeysInUse, Filter, Process, NextIs
<1>2. TaskTypeOK(position', buffer', offsets', enriched')
  BY <1>1 DEF Inv, TypeOK, TaskTypeOK
<1>3. TaskIsSound(position, buffer, offsets, enriched, 0)
  BY <1>1 DEF Inv, EnricherInv
<1>4. CASE Filter
  <2>1. ~ Auditable(position + 1)
    BY <1>4 DEF Filter, NextIs
  <2>2. TaskIsSound(position + 1, buffer, offsets, enriched, 0)
    BY <1>1, <1>3, <2>1, TakeKeepsSound
  <2>3. UNCHANGED <<pc, current, sequence>>
    BY <1>4 DEF Filter, threadVars
  <2>4. TaskIsSound(position', buffer', KeysInUse', enriched', current')
    BY <1>1, <2>2, <2>3 DEF KeysInUse
  <2>5. sequence \in Offsets /\ current \in 0..Len(changes)
    BY DEF Inv, TypeOK
  <2> QED
    BY <1>1, <1>2, <2>3, <2>4, <2>5, ThreadStepKeepsInv
<1>5. CASE Process
  <2>1. /\ Auditable(position + 1) /\ current' = position + 1
        /\ pc' = "flushing" /\ sequence' = offsets
    BY <1>5 DEF Process, NextIs, Flush
  <2>2. TaskIsSound(position + 1, buffer, offsets, enriched, position + 1)
    BY <1>1, <1>3, <2>1, TakeKeepsSound
  <2>3. TaskIsSound(position', buffer', KeysInUse', enriched', current')
    BY <1>1, <2>1, <2>2 DEF KeysInUse
  <2>4. sequence' \in Offsets /\ current' \in 0..Len(changes)
    BY <1>1, <2>1 DEF Inv, TypeOK, TaskTypeOK
  <2> QED
    BY <1>1, <1>2, <2>1, <2>3, <2>4, ThreadStepKeepsInv
<1> QED
  BY <1>4, <1>5

LEMMA PunctuateKeepsInv == ASSUME Inv, Punctuate PROVE Inv'
<1>1. /\ pc = "idle" /\ pc' = "flushing" /\ current = 0 /\ current' = 0
      /\ sequence' = offsets /\ KeysInUse = offsets /\ KeysInUse' = offsets
      /\ UNCHANGED <<topicVars, loaded, position, buffer, offsets, enriched,
                     committed, crashes>>
  BY DEF Punctuate, Flush, Inv, EnricherInv, KeysInUse, taskVars
<1>2. TaskTypeOK(position', buffer', offsets', enriched')
  BY <1>1 DEF Inv, TypeOK
<1>3. TaskIsSound(position', buffer', KeysInUse', enriched', current')
  BY <1>1 DEF Inv, EnricherInv
<1>4. sequence' \in Offsets /\ current' \in 0..Len(changes)
  BY <1>1 DEF Inv, TypeOK, TaskTypeOK
<1> QED
  BY <1>1, <1>2, <1>3, <1>4, ThreadStepKeepsInv

LEMMA EmitBufferedKeepsInv == ASSUME Inv, EmitBuffered PROVE Inv'
<1>1. /\ position \in Nat /\ loaded \in Nat /\ enriched \in Seq(Entry)
      /\ sequence \in Offsets /\ current \in 0..Len(changes)
      /\ pc = "flushing" /\ sequence.first < sequence.next
      /\ UNCHANGED <<topicVars, loaded, position, offsets, pc, current,
                     committed, crashes>>
  BY DEF EmitBuffered, Inv, TypeOK, TaskTypeOK
<1>2. PICK n \in 1..loaded : MetaData(n, changes[FirstBuffered].tx)
                             /\ Forward(FirstBuffered, n)
  BY DEF EmitBuffered
<1>3. TaskIsSound(position, buffer, sequence, enriched, current)
  BY <1>1 DEF Inv, EnricherInv, KeysInUse
<1>4. /\ buffer' = [k \in DOMAIN buffer \ {sequence.first} |-> buffer[k]]
      /\ sequence' = [sequence EXCEPT !.first = @ + 1]
      /\ enriched' = Append(enriched, [change |-> buffer[sequence.first], audit |-> n])
      /\ MetaData(n, changes[buffer[sequence.first]].tx)
  BY <1>2 DEF EmitBuffered, Forward, FirstBuffered
<1>5. /\ sequence' \in Offsets
      /\ sequence'.first = sequence.first + 1 /\ sequence'.next = sequence.next
  <2>1. sequence \in Offsets
    BY <1>1
  <2>2. sequence' = [sequence EXCEPT !.first = @ + 1]
    BY <1>4
  <2> QED
    BY <2>1, <2>2 DEF Offsets
<1>6. TaskIsSound(position', buffer', KeysInUse', enriched', current')
  <2>1. n \in Nat /\ n \in 1..loaded
    BY <1>1
  <2>2. TaskIsSound(position, buffer', sequence',
                    Append(enriched, [change |-> buffer[sequence.first], audit |-> n]),
                    current)
    BY <1>1, <1>3, <1>4, <1>5, <2>1, EmitKeepsSound
  <2> QED
    BY <1>1, <1>4, <2>2 DEF KeysInUse
<1>7. [change |-> buffer[sequence.first], audit |-> n] \in Entry
  <2>1. sequence.first \in DOMAIN buffer
    BY <1>1, <1>3 DEF TaskIsSound, Offsets
  <2>2. buffer[sequence.first] \in 1..position
    BY <1>3, <2>1 DEF TaskIsSound, NothingIsMadeUp
  <2> QED
    BY <1>1, <2>2 DEF Entry
<1>8. /\ enriched' \in Seq(Entry) /\ Len(enriched) <= Len(enriched')
      /\ \A a \in DOMAIN enriched : enriched'[a] = enriched[a]
  BY <1>1, <1>4, <1>7
<1>9. TaskTypeOK(position', buffer', offsets', enriched')
  BY <1>1, <1>4, <1>8 DEF Inv, TypeOK, TaskTypeOK
<1> QED
  BY <1>1, <1>6, <1>5, <1>8, <1>9, ThreadStepKeepsInv

\* What BufferChangeEvent does to the store's offsets and to the types.
LEMMA BufferMovesNext ==
  ASSUME NEW i, NEW seq \in Offsets, BufferChangeEvent(i, seq)
  PROVE  /\ offsets' \in Offsets
         /\ offsets'.first = seq.first /\ offsets'.next = seq.next + 1
         /\ buffer' = [k \in DOMAIN buffer \union {seq.next} |->
                         IF k = seq.next THEN i ELSE buffer[k]]
BY DEF BufferChangeEvent, Offsets

LEMMA BufferKeepsTypes ==
  ASSUME TypeOK, NEW seq \in Offsets, current # 0,
         BufferChangeEvent(current, seq), UNCHANGED <<position, enriched>>
  PROVE  TaskTypeOK(position', buffer', offsets', enriched')
<1>1. TaskTypeOK(position, buffer, offsets, enriched) /\ current \in 1..Len(changes)
  BY DEF TypeOK
<1>2. offsets' \in Offsets
  BY DEF BufferChangeEvent, Offsets
<1>3. /\ DOMAIN buffer' \subseteq Nat
      /\ \A k \in DOMAIN buffer' : buffer'[k] \in 1..Len(changes)
  BY <1>1 DEF BufferChangeEvent, TaskTypeOK, Offsets
<1> QED
  BY <1>1, <1>2, <1>3 DEF TaskTypeOK

LEMMA FlushBlockedKeepsInv == ASSUME Inv, FlushBlocked PROVE Inv'
<1>1. /\ sequence \in Offsets /\ pc = "flushing"
      /\ pc' = "idle" /\ current' = 0 /\ KeysInUse = sequence /\ KeysInUse' = offsets'
      /\ UNCHANGED <<topicVars, loaded, position, enriched, sequence, committed, crashes>>
      /\ position \in Nat /\ enriched \in Seq(Entry)
      /\ Len(changes) \in Nat /\ current \in 0..Len(changes)
  BY DEF FlushBlocked, EndRecord, KeysInUse, Inv, TypeOK, TaskTypeOK
<1>2. TaskIsSound(position, buffer, sequence, enriched, current)
  BY <1>1 DEF Inv, EnricherInv
<1>3. /\ TaskIsSound(position', buffer', offsets', enriched', 0)
      /\ TaskTypeOK(position', buffer', offsets', enriched')
  <2>1. CASE current = 0
    <3>1. offsets' = sequence /\ UNCHANGED buffer
      BY <2>1 DEF FlushBlocked
    <3>2. TaskTypeOK(position', buffer', offsets', enriched')
      BY <1>1, <3>1 DEF Inv, TypeOK, TaskTypeOK
    <3> QED
      BY <1>1, <1>2, <2>1, <3>1, <3>2
  <2>2. CASE current # 0
    <3>1. BufferChangeEvent(current, sequence)
      BY <2>2 DEF FlushBlocked
    <3>2. TaskIsSound(position', buffer', offsets', enriched', 0)
      <4>1. /\ offsets'.first = sequence.first /\ offsets'.next = sequence.next + 1
            /\ buffer' = [k \in DOMAIN buffer \union {sequence.next} |->
                            IF k = sequence.next THEN current ELSE buffer[k]]
        BY <1>1, <3>1, BufferMovesNext
      <4>2. TaskIsSound(position, buffer', offsets', enriched, 0)
        BY <1>1, <1>2, <2>2, <4>1, BufferKeepsSound
      <4> QED
        BY <1>1, <4>2
    <3> QED
      BY <1>1, <2>2, <3>1, <3>2, BufferKeepsTypes DEF Inv
  <2> QED
    BY <2>1, <2>2
<1> QED
  BY <1>1, <1>3, ThreadStepKeepsInv

LEMMA FlushDoneKeepsInv == ASSUME Inv, FlushDone PROVE Inv'
<1>1. /\ sequence \in Offsets /\ pc = "flushing" /\ sequence.first = sequence.next
      /\ offsets' = sequence /\ KeysInUse = sequence /\ KeysInUse' = sequence
      /\ pc' = IF current = 0 THEN "idle" ELSE "enriching"
      /\ UNCHANGED <<topicVars, loaded, position, buffer, enriched, current,
                     sequence, committed, crashes>>
      /\ Len(enriched) \in Nat /\ current \in 0..Len(changes)
  BY DEF FlushDone, KeysInUse, Inv, TypeOK, TaskTypeOK
<1>2. TaskIsSound(position, buffer, sequence, enriched, current)
  BY <1>1 DEF Inv, EnricherInv
<1>3. DOMAIN buffer = {}
  BY <1>1, <1>2 DEF TaskIsSound
<1>4. buffer = <<>>
  BY <1>3
<1>5. TaskTypeOK(position', buffer', offsets', enriched')
  BY <1>1 DEF Inv, TypeOK, TaskTypeOK
<1> QED
  BY <1>1, <1>2, <1>4, <1>5, ThreadStepKeepsInv

LEMMA EnrichRecordKeepsInv == ASSUME Inv, EnrichRecord PROVE Inv'
<1>1. /\ position \in Nat /\ loaded \in Nat /\ enriched \in Seq(Entry)
      /\ pc = "enriching" /\ pc' = "idle" /\ current' = 0
      /\ current # 0 /\ current \in 0..Len(changes) /\ Len(changes) \in Nat
      /\ buffer = <<>> /\ KeysInUse = offsets /\ KeysInUse' = offsets
      /\ sequence \in Offsets
      /\ UNCHANGED <<topicVars, loaded, position, buffer, offsets, sequence,
                     committed, crashes>>
  BY DEF EnrichRecord, EndRecord, KeysInUse, Inv, TypeOK, TaskTypeOK, EnricherInv
<1>2. PICK n \in 1..loaded : MetaData(n, changes[current].tx) /\ Forward(current, n)
  BY DEF EnrichRecord
<1>3. TaskIsSound(position, buffer, offsets, enriched, current)
  BY <1>1 DEF Inv, EnricherInv
<1>4. enriched' = Append(enriched, [change |-> current, audit |-> n])
  BY <1>2 DEF Forward
<1>5. TaskIsSound(position, buffer, offsets, enriched', 0)
  BY <1>1, <1>2, <1>3, <1>4, ForwardKeepsSound
<1>6. TaskIsSound(position', buffer', KeysInUse', enriched', current')
  BY <1>1, <1>5
<1>7. [change |-> current, audit |-> n] \in Entry
  BY <1>1 DEF Entry
<1>8. /\ enriched' \in Seq(Entry) /\ Len(enriched) <= Len(enriched')
      /\ \A a \in DOMAIN enriched : enriched'[a] = enriched[a]
  BY <1>1, <1>4, <1>7
<1>9. TaskTypeOK(position', buffer', offsets', enriched')
  BY <1>1, <1>8 DEF Inv, TypeOK, TaskTypeOK
<1> QED
  BY <1>1, <1>6, <1>8, <1>9, ThreadStepKeepsInv

LEMMA BufferRecordKeepsInv == ASSUME Inv, BufferRecord PROVE Inv'
<1>1. /\ pc = "enriching" /\ pc' = "idle" /\ current' = 0
      /\ current # 0 /\ Len(changes) \in Nat
      /\ position \in Nat /\ enriched \in Seq(Entry)
      /\ offsets \in Offsets /\ sequence \in Offsets
      /\ KeysInUse = offsets /\ KeysInUse' = offsets'
      /\ BufferChangeEvent(current, offsets)
      /\ UNCHANGED <<topicVars, loaded, position, enriched, sequence,
                     committed, crashes>>
  BY DEF BufferRecord, EndRecord, KeysInUse, Inv, TypeOK, TaskTypeOK, EnricherInv
<1>2. TaskIsSound(position, buffer, offsets, enriched, current)
  BY <1>1 DEF Inv, EnricherInv
<1>3. TaskIsSound(position', buffer', KeysInUse', enriched', current')
  <2>1. /\ offsets'.first = offsets.first /\ offsets'.next = offsets.next + 1
        /\ buffer' = [k \in DOMAIN buffer \union {offsets.next} |->
                        IF k = offsets.next THEN current ELSE buffer[k]]
    BY <1>1, BufferMovesNext
  <2>2. TaskIsSound(position, buffer', offsets', enriched, 0)
    BY <1>1, <1>2, <2>1, BufferKeepsSound
  <2> QED
    BY <1>1, <2>2
<1>4. TaskTypeOK(position', buffer', offsets', enriched')
  BY <1>1, BufferKeepsTypes DEF Inv
<1> QED
  BY <1>1, <1>3, <1>4, ThreadStepKeepsInv

LEMMA CommitKeepsInv == ASSUME Inv, Commit PROVE Inv'
<1>1. /\ committed' = [position |-> position, buffer |-> buffer,
                       offsets |-> offsets, enriched |-> enriched]
      /\ pc = "idle" /\ current = 0 /\ KeysInUse = offsets
      /\ UNCHANGED <<changes, context, loaded, position, buffer, offsets,
                     enriched, pc, current, sequence, crashes, KeysInUse>>
  BY DEF Commit, Inv, EnricherInv, KeysInUse, topicVars, taskVars, threadVars
<1>2. TopicsGrow
  BY <1>1 DEF TopicsGrow, Inv, TypeOK
<1>3. Len(changes) \in Nat /\ Len(changes)' \in Nat
  BY <1>1 DEF Inv, TypeOK
<1>4. TaskTypeOK(position, buffer, offsets, enriched)'
  BY <1>1, <1>2, <1>3, TypesAsTopicsGrow DEF Inv, TypeOK
<1>5. TypeOK'
  BY <1>1, <1>4 DEF Inv, TypeOK, TaskTypeOK
<1>6. TaskIsSound(position, buffer, offsets, enriched, current)'
  BY <1>1, <1>2, <1>5, SoundAsTopicsGrow DEF Inv, EnricherInv, TypeOK
<1>7. enriched \in Seq(Entry)
  BY DEF Inv, TypeOK, TaskTypeOK
<1>8. committed'.position = position' /\ committed'.buffer = buffer'
      /\ committed'.offsets = offsets' /\ committed'.enriched = enriched'
      /\ current' = 0 /\ KeysInUse' = offsets'
  BY <1>1
<1>9. EnricherInv'
  BY <1>1, <1>6, <1>7, <1>8 DEF Inv, EnricherInv
<1> QED
  BY <1>5, <1>9 DEF Inv

LEMMA CrashKeepsInv == ASSUME Inv, Crash PROVE Inv'
<1>1. /\ position' = committed.position /\ buffer' = committed.buffer
      /\ offsets' = committed.offsets /\ enriched' = committed.enriched
      /\ loaded' = Len(context) /\ crashes < MaxCrashes /\ crashes' = crashes + 1
      /\ pc' = "idle" /\ current' = 0 /\ sequence' = initial
      /\ KeysInUse' = committed.offsets
      /\ UNCHANGED <<changes, context, committed>>
  BY DEF Crash, RollBackTask, EndRecord, KeysInUse, topicVars
<1>2. /\ changes \in Seq(Change) /\ context \in Seq(Transactions)
      /\ loaded \in 0..Len(context) /\ crashes \in 0..MaxCrashes
  BY DEF Inv, TypeOK
<1>3. TopicsGrow /\ loaded' \in 0..Len(context') /\ crashes' \in 0..MaxCrashes
  BY <1>1, <1>2, BoundsAssumption DEF TopicsGrow
<1>4. TaskTypeOK(position', buffer', offsets', enriched')
  BY <1>1 DEF Inv, TypeOK
<1>5. TaskIsSound(position', buffer', KeysInUse', enriched', current')
  BY <1>1 DEF Inv, EnricherInv
<1>6. Len(committed.enriched) \in Nat
  BY DEF Inv, TypeOK, TaskTypeOK
<1>7. sequence' \in Offsets /\ current' \in 0..Len(changes)
  BY <1>1, <1>2 DEF initial, Offsets
<1> QED
  BY <1>1, <1>2, <1>3, <1>4, <1>5, <1>6, <1>7, StepKeepsInv

LEMMA NextKeepsInv == Inv /\ [Next]_enricherVars => Inv'
<1> SUFFICES ASSUME Inv, [Next]_enricherVars PROVE Inv'
  OBVIOUS
<1>1. CASE UNCHANGED enricherVars
  <2>1. UNCHANGED <<changes, context, loaded, taskVars, threadVars, committed, crashes>>
    BY <1>1 DEF enricherVars, taskVars, threadVars
  <2>2. TopicsGrow
    BY <2>1 DEF TopicsGrow, Inv, TypeOK
  <2> QED
    BY <2>1, <2>2, TopicStepKeepsInv DEF Inv, TypeOK
<1>2. ASSUME NEW c \in Change, Produce(c) PROVE Inv'
  BY <1>2, ProduceKeepsInv
<1>3. ASSUME NEW tx \in Transactions, Record(tx) PROVE Inv'
  BY <1>3, RecordKeepsInv
<1>4. CASE Filter \/ Process
  BY <1>4, TakeKeepsInv
<1>5. CASE Punctuate
  BY <1>5, PunctuateKeepsInv
<1>6. CASE EmitBuffered
  BY <1>6, EmitBufferedKeepsInv
<1>7. CASE FlushBlocked
  BY <1>7, FlushBlockedKeepsInv
<1>8. CASE FlushDone
  BY <1>8, FlushDoneKeepsInv
<1>9. CASE EnrichRecord
  BY <1>9, EnrichRecordKeepsInv
<1>10. CASE BufferRecord
  BY <1>10, BufferRecordKeepsInv
<1>11. CASE Load
  BY <1>11, LoadKeepsInv
<1>12. CASE Commit
  BY <1>12, CommitKeepsInv
<1>13. CASE Crash
  BY <1>13, CrashKeepsInv
<1> QED
  BY <1>1, <1>2, <1>3, <1>4, <1>5, <1>6, <1>7, <1>8, <1>9, <1>10, <1>11,
     <1>12, <1>13 DEF Next, EnricherNext, StreamThread

LEMMA InvHolds == Spec => []Inv
<1>1. Inv /\ [Next]_enricherVars => Inv'
  BY NextKeepsInv
<1> QED
  BY InitInv, <1>1, PTL DEF Spec

\* Positions, stores, output and committed state keep their types.
THEOREM EnricherTypes == Spec => []TypeOK
<1>1. Inv => TypeOK
  BY DEF Inv
<1> QED
  BY InvHolds, <1>1, PTL

\* No change is lost, doubled or overtaken, and every audit is of the change's
\* own transaction and no older than one given before, at every step and after
\* any restart.
THEOREM EnricherKeepsTheLog == Spec => []EnricherInv
<1>1. Inv => EnricherInv
  BY DEF Inv
<1> QED
  BY InvHolds, <1>1, PTL

-------------------------------------------------------------------------------
\* The refinement.

LEMMA SoundIsRight ==
  ASSUME TypeOK, NEW p \in 0..Len(changes), NEW buf, NEW keys, NEW out,
         TaskIsSound(p, buf, keys, out, 0)
  PROVE  Published!Right(out)
<1>1. /\ loaded \in 0..Len(context)
      /\ changes \in Seq(Change) /\ context \in Seq(Transactions)
  BY DEF TypeOK
<1>2. Published!InOrder(out)
  BY <1>1 DEF Published!InOrder, TaskIsSound, LogIsInOrder
<1>3. Published!Complete(out)
  <2> SUFFICES ASSUME NEW a \in DOMAIN out, NEW i \in 1..out[a].change,
                      Published!Belongs(i)
               PROVE  \E b \in DOMAIN out : out[b].change = i
    BY DEF Published!Complete
  <2>1. out[a].change \in 1..p /\ i \in 1..p /\ i # 0 /\ Auditable(i)
    BY <1>1 DEF TaskIsSound, NothingIsMadeUp, Published!Belongs, Auditable
  <2>2. Emitted(i, out) \/ Buffered(i, buf)
    BY <1>1, <2>1 DEF TaskIsSound, NothingIsLost
  <2>3. ~ Buffered(i, buf)
    BY <1>1, <2>1 DEF TaskIsSound, LogIsInOrder, NothingIsMadeUp, Buffered
  <2> QED
    BY <2>2, <2>3 DEF Emitted
<1>4. Published!Explains(out)
  BY <1>1 DEF Published!Explains, Published!Belongs, Auditable, TaskIsSound, NothingIsMadeUp
<1> QED
  BY <1>2, <1>3, <1>4 DEF Published!Right

\* A Kafka transaction publishes; every other step leaves the log alone.
LEMMA StepIsPublished ==
  Inv /\ [Next]_enricherVars => [Published!Next]_(Published!logVars)
<1> SUFFICES ASSUME Inv, [Next]_enricherVars
             PROVE  [Published!Next]_(Published!logVars)
  OBVIOUS
<1>1. changes \in Seq(Change) /\ context \in Seq(Transactions)
  BY DEF Inv, TypeOK
<1>2. CASE Commit
  <2>1. UNCHANGED <<changes, context>> /\ committed'.enriched = enriched
    BY <1>2 DEF Commit, topicVars
  <2>2. Published!Right(enriched)
    <3>1. TaskIsSound(position, buffer, offsets, enriched, 0)
      BY <1>2 DEF Commit, Inv, EnricherInv, KeysInUse
    <3> QED
      BY <3>1, SoundIsRight DEF Inv, TypeOK, TaskTypeOK
  <2>3. Published!Extends(committed'.enriched, committed.enriched)
    BY <2>1 DEF Inv, EnricherInv, Published!Extends
  <2> QED
    BY <2>1, <2>2, <2>3 DEF Published!Next, Published!Publish, Published!Right,
       Published!InOrder, Published!Complete, Published!Explains, Published!Belongs
<1>3. CASE \E c \in Change : Produce(c)
  <2>1. PICK c \in Change : Produce(c)
    BY <1>3
  <2>2. Published!Extends(changes', changes) /\ Published!Extends(context', context)
    BY <1>1, <2>1 DEF Produce, Published!Extends
  <2>3. UNCHANGED committed
    BY <2>1 DEF Produce
  <2> QED
    BY <2>2, <2>3 DEF Published!Next, Published!Arrive
<1>4. CASE \E tx \in Transactions : Record(tx)
  <2>1. PICK tx \in Transactions : Record(tx)
    BY <1>4
  <2>2. Published!Extends(changes', changes) /\ Published!Extends(context', context)
    BY <1>1, <2>1 DEF Record, Published!Extends
  <2>3. UNCHANGED committed
    BY <2>1 DEF Record
  <2> QED
    BY <2>2, <2>3 DEF Published!Next, Published!Arrive
<1>5. CASE \/ Filter \/ Process \/ Punctuate \/ StreamThread \/ Load \/ Crash
           \/ UNCHANGED enricherVars
  <2>1. UNCHANGED <<changes, context, committed>>
    BY <1>5 DEF Filter, Process, Punctuate, StreamThread, EmitBuffered, FlushBlocked,
                FlushDone, EnrichRecord, BufferRecord, Load, Crash, topicVars,
                enricherVars
  <2> QED
    BY <2>1 DEF Published!logVars
<1> QED
  BY <1>2, <1>3, <1>4, <1>5 DEF Next, EnricherNext

\* What the readers of vegetable.enriched see is an AuditLog.
THEOREM EnricherImplementsAuditLog == Spec => ImplementsAuditLog
<1>1. EnricherInit => Published!Init
  BY DEF EnricherInit, Published!Init
<1>2. Inv /\ [Next]_enricherVars => [Published!Next]_(Published!logVars)
  BY StepIsPublished
<1> QED
  BY <1>1, <1>2, InvHolds, PTL DEF Spec, ImplementsAuditLog, Published!Spec

===============================================================================
