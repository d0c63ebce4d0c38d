------------------------- MODULE RuntimeBufferProofs -------------------------
(***************************************************************************)
(* Lemmas about the event buffer and the audit log of a snapshot, apart    *)
(* from what keeps a snapshot well-typed: what emitting a batch and        *)
(* appending a record leave in the logs, that a logged step keeps them in  *)
(* order and only lets them grow, that records which lead from one         *)
(* configuration to another keep the audit chain, that every step of a     *)
(* session is an upload, a run of the driver or an operation's own work,   *)
(* and that a batch whose events tell what changed keeps the value events  *)
(* of the buffer chained.                                                  *)
(***************************************************************************)
EXTENDS RuntimeSession, TLAPS

\* Appending an element is appending the sequence of it.
LEMMA AppendIsConcat ==
    ASSUME NEW S, NEW seq \in Seq(S), NEW elt \in S
    PROVE  Append(seq, elt) = seq \o <<elt>>
OBVIOUS

(***************************************************************************)
(* What a step appends to the logs.                                        *)
(***************************************************************************)
\* The event buffer after a batch: the old events and the batch, without as many
\* of the oldest as the capacity asks for.
Emitted(s, batch, u) ==
    LET old == s.event_bus
        new == u.event_bus
        n == Len(old.events)
        k == Overflow(n + Len(batch))
    IN  /\ new.next_sequence = old.next_sequence + Len(batch)
        /\ new.dropped_events = old.dropped_events + k
        /\ Len(new.events) = n + Len(batch) - k
        /\ \A i \in 1 .. n + Len(batch) - k :
              /\ i + k <= n => new.events[i] = old.events[i + k]
              /\ i + k > n => /\ new.events[i].sequence = old.next_sequence + (i + k - n) - 1
                              /\ new.events[i].payload = batch[i + k - n]

\* The audit log after some records.
Appended(s, records, u) ==
    /\ u.audit_events = s.audit_events \o records
    /\ u.audit_next_sequence = s.audit_next_sequence + Len(records)
    /\ \A i \in 1 .. Len(records) : records[i].sequence = s.audit_next_sequence + i - 1

Logged(s, batch, records, u) ==
    /\ Emitted(s, batch, u)
    /\ Appended(s, records, u)
    /\ u.audit_uploaded_sequence = s.audit_uploaded_sequence

SameLogs(s, u) ==
    /\ u.event_bus = s.event_bus
    /\ u.audit_events = s.audit_events
    /\ u.audit_next_sequence = s.audit_next_sequence
    /\ u.audit_uploaded_sequence = s.audit_uploaded_sequence

SameAudit(s, u) ==
    /\ u.audit_events = s.audit_events
    /\ u.audit_next_sequence = s.audit_next_sequence
    /\ u.audit_uploaded_sequence = s.audit_uploaded_sequence

\* The types of the logs of a snapshot.
LEMMA LogTypes ==
    ASSUME NEW s, s \in Snapshot
    PROVE  /\ s.event_bus.next_sequence \in Nat /\ s.event_bus.dropped_events \in Nat
           /\ s.event_bus.events \in Seq(RuntimeEvent) /\ Len(s.event_bus.events) \in Nat
           /\ s.audit_events \in Seq(RuntimeAuditEvent) /\ Len(s.audit_events) \in Nat
           /\ s.audit_next_sequence \in Nat /\ s.audit_uploaded_sequence \in Nat
<1>1. s.event_bus \in RuntimeEventBusState /\ s.audit_events \in Seq(RuntimeAuditEvent)
  BY DEF Snapshot
<1>2. s.audit_next_sequence \in Nat /\ s.audit_uploaded_sequence \in Nat
  BY DEF Snapshot
<1>3. /\ s.event_bus.next_sequence \in Nat /\ s.event_bus.dropped_events \in Nat
      /\ s.event_bus.events \in Seq(RuntimeEvent)
  BY <1>1 DEF RuntimeEventBusState
<1> QED
  BY <1>1, <1>2, <1>3

\* A buffer that exceeds its capacity by k loses k events.
LEMMA OverflowType ==
    ASSUME NEW n \in Nat
    PROVE  /\ Overflow(n) \in Nat /\ Overflow(n) <= n /\ n - Overflow(n) <= EventCapacity
           /\ n <= EventCapacity => Overflow(n) = 0
BY CapacityAssumption DEF Overflow

\* The elements of the concatenation of a and b without its first k.
Trims(a, b, k) ==
    /\ Len(a \o b) = Len(a) + Len(b)
    /\ Len(SubSeq(a \o b, k + 1, Len(a \o b))) = Len(a) + Len(b) - k
    /\ \A i \in 1 .. Len(a) + Len(b) - k :
          /\ i + k <= Len(a) => SubSeq(a \o b, k + 1, Len(a \o b))[i] = a[i + k]
          /\ i + k > Len(a) => SubSeq(a \o b, k + 1, Len(a \o b))[i] = b[i + k - Len(a)]

\* Trimming the front of a concatenation.
LEMMA Trimmed ==
    ASSUME NEW S, NEW a \in Seq(S), NEW b \in Seq(S), NEW k \in Nat, k <= Len(a) + Len(b)
    PROVE  Trims(a, b, k)
<1> DEFINE c == a \o b
<1>1. /\ Len(a) \in Nat /\ Len(b) \in Nat
      /\ c \in Seq(S) /\ Len(c) = Len(a) + Len(b)
      /\ \A i \in 1 .. Len(a) + Len(b) : c[i] = IF i <= Len(a) THEN a[i] ELSE b[i - Len(a)]
  OBVIOUS
<1> HIDE DEF c
<1>2. /\ Len(SubSeq(c, k + 1, Len(c))) = Len(c) - k
      /\ \A i \in 1 .. Len(c) - k : SubSeq(c, k + 1, Len(c))[i] = c[i + k]
  BY <1>1
<1>3. \A i \in 1 .. Len(c) - k : i + k \in 1 .. Len(a) + Len(b)
  BY <1>1
<1> QED
  BY <1>1, <1>2, <1>3 DEF c, Trims

\* emit_runtime_event appends a batch and leaves the audit log alone.
LEMMA EmitLogs ==
    ASSUME NEW s, s \in Snapshot, NEW batch \in Seq(EventPayload)
    PROVE  Emitted(s, batch, Emit(s, batch)) /\ SameAudit(s, Emit(s, batch))
<1> DEFINE bus == s.event_bus
           n == Len(bus.events)
           m == Len(batch)
           new == [i \in 1 .. m |-> [sequence |-> bus.next_sequence + i - 1, payload |-> batch[i]]]
           all == bus.events \o new
           k == Overflow(n + m)
           u == Emit(s, batch)
<1>1. s \in Snapshot
  OBVIOUS
<1>2. /\ bus.next_sequence \in Nat /\ bus.dropped_events \in Nat /\ bus.events \in Seq(RuntimeEvent)
      /\ n \in Nat /\ m \in Nat
  BY LogTypes
<1>3. new \in Seq(RuntimeEvent) /\ Len(new) = m
  BY <1>2 DEF RuntimeEvent
<1>4. \A i \in 1 .. m : new[i].sequence = bus.next_sequence + i - 1 /\ new[i].payload = batch[i]
  BY <1>2
<1>5. n + m \in Nat
  BY <1>2
<1>6. k \in Nat /\ k <= n + m
  BY <1>5, OverflowType, Zenon
<1>7. /\ u.event_bus = [next_sequence |-> bus.next_sequence + m,
                        events |-> SubSeq(all, Overflow(Len(all)) + 1, Len(all)),
                        dropped_events |-> bus.dropped_events + Overflow(Len(all))]
      /\ SameAudit(s, u)
  BY <1>1, Zenon DEF Emit, Snapshot, all, new, SameAudit
<1> HIDE DEF bus, n, m, new, all, u, k
<1>8. /\ Len(all) = n + m
      /\ Len(SubSeq(all, k + 1, Len(all))) = n + m - k
      /\ \A i \in 1 .. n + m - k :
            /\ i + k <= n => SubSeq(all, k + 1, Len(all))[i] = bus.events[i + k]
            /\ i + k > n => SubSeq(all, k + 1, Len(all))[i] = new[i + k - n]
  <2>1. bus.events \in Seq(RuntimeEvent) /\ new \in Seq(RuntimeEvent) /\ k \in Nat
        /\ k <= Len(bus.events) + Len(new) /\ Len(new) = m
    BY <1>2, <1>3, <1>6 DEF n
  <2>2. Trims(bus.events, new, k)
    BY <2>1, Trimmed, Zenon
  <2> QED
    BY <2>1, <2>2, Zenon DEF all, n, Trims
<1>9. /\ u.event_bus.next_sequence = bus.next_sequence + m
      /\ u.event_bus.dropped_events = bus.dropped_events + k
      /\ u.event_bus.events = SubSeq(all, k + 1, Len(all))
  <2>1. Overflow(Len(all)) = k
    BY <1>8, Zenon DEF k
  <2> DEFINE after == SubSeq(all, k + 1, Len(all))
  <2>2. u.event_bus = [next_sequence |-> bus.next_sequence + m, events |-> after,
                       dropped_events |-> bus.dropped_events + k]
    BY <1>7, <2>1, Zenon
  <2> HIDE DEF after
  <2>3. /\ u.event_bus.next_sequence = bus.next_sequence + m
        /\ u.event_bus.dropped_events = bus.dropped_events + k
        /\ u.event_bus.events = after
    BY <2>2
  <2> QED
    BY <2>3 DEF after
<1>10. ASSUME NEW i \in 1 .. n + m - k
       PROVE  /\ i + k <= n => u.event_bus.events[i] = bus.events[i + k]
              /\ i + k > n => /\ u.event_bus.events[i].sequence = bus.next_sequence + (i + k - n) - 1
                              /\ u.event_bus.events[i].payload = batch[i + k - n]
  <2>1. CASE i + k <= n
    <3>1. u.event_bus.events[i] = bus.events[i + k]
      BY <1>8, <1>9, <2>1, Zenon
    <3>2. ~ i + k > n
      BY <1>2, <1>6, <2>1
    <3> QED
      BY <3>1, <3>2, Zenon
  <2>2. CASE i + k > n
    <3>1. i + k - n \in 1 .. m /\ ~ i + k <= n
      BY <1>2, <1>6, <2>2
    <3>2. u.event_bus.events[i] = new[i + k - n]
      BY <1>8, <1>9, <2>2, <3>1, Zenon
    <3> QED
      BY <1>4, <3>1, <3>2
  <2> QED
    BY <1>2, <1>6, <2>1, <2>2
<1> QED
  BY <1>7, <1>8, <1>9, <1>10, Zenon DEF Emitted, u, k, n, m, bus

\* append_audit_event appends one record and leaves the event buffer alone.
LEMMA AuditLogs ==
    ASSUME NEW s, s \in Snapshot, NEW k, NEW ps, NEW base, NEW target
    PROVE  /\ AppendAudit(s, k, ps, base, target).event_bus = s.event_bus
           /\ AppendAudit(s, k, ps, base, target).audit_uploaded_sequence = s.audit_uploaded_sequence
           /\ Appended(s, <<AuditRecord(s, s.audit_next_sequence, k, ps, base, target)>>,
                       AppendAudit(s, k, ps, base, target))
<1> DEFINE u == AppendAudit(s, k, ps, base, target)
           r == AuditRecord(s, s.audit_next_sequence, k, ps, base, target)
<1>1. s \in Snapshot /\ s.audit_next_sequence \in Nat /\ s.audit_events \in Seq(RuntimeAuditEvent)
  BY LogTypes
<1>2. /\ u.event_bus = s.event_bus /\ u.audit_uploaded_sequence = s.audit_uploaded_sequence
      /\ u.audit_events = Append(s.audit_events, r)
      /\ u.audit_next_sequence = s.audit_next_sequence + 1
  BY <1>1, Zenon DEF AppendAudit, Snapshot
<1>3. r.sequence = s.audit_next_sequence
  BY DEF AuditRecord
<1> HIDE DEF r, u
<1>4. Append(s.audit_events, r) = s.audit_events \o <<r>> /\ Len(<<r>>) = 1 /\ <<r>>[1] = r
  BY <1>1, AppendIsConcat
<1>5. Appended(s, <<r>>, u)
  BY <1>1, <1>2, <1>3, <1>4 DEF Appended
<1> QED
  BY <1>2, <1>5 DEF u, r

(***************************************************************************)
(* Order and growth.                                                       *)
(***************************************************************************)
\* LogsInOrder of a snapshot.
LogsOrdered(s) ==
    LET bus == s.event_bus
        log == s.audit_events
    IN  /\ Len(bus.events) <= EventCapacity
        /\ bus.next_sequence = bus.dropped_events + Len(bus.events) + 1
        /\ \A i \in 1 .. Len(bus.events) : bus.events[i].sequence = bus.dropped_events + i
        /\ \A i \in 1 .. Len(log) : log[i].sequence = i
        /\ s.audit_next_sequence = Len(log) + 1
        /\ s.audit_uploaded_sequence <= Len(log)

\* The events of u whose number s has given are the events of s, and the audit
\* log of u continues that of s.
EventsGrow(s, u) ==
    LET old == s.event_bus
        new == u.event_bus
    IN  /\ \A i \in 1 .. Len(old.events), j \in 1 .. Len(new.events) :
              old.events[i].sequence = new.events[j].sequence => old.events[i] = new.events[j]
        /\ new.next_sequence >= old.next_sequence
        /\ new.dropped_events >= old.dropped_events

AuditGrows(s, u) ==
    /\ Len(s.audit_events) <= Len(u.audit_events)
    /\ \A i \in 1 .. Len(s.audit_events) : u.audit_events[i] = s.audit_events[i]
    /\ u.audit_uploaded_sequence >= s.audit_uploaded_sequence

\* A batch keeps the buffer within its capacity, gap-free and in order.
LEMMA EmittedOrdered ==
    ASSUME NEW s, NEW u, NEW batch \in Seq(EventPayload), s \in Snapshot, u \in Snapshot,
           LogsOrdered(s), Emitted(s, batch, u)
    PROVE  /\ Len(u.event_bus.events) <= EventCapacity
           /\ u.event_bus.next_sequence = u.event_bus.dropped_events + Len(u.event_bus.events) + 1
           /\ \A i \in 1 .. Len(u.event_bus.events) :
                 u.event_bus.events[i].sequence = u.event_bus.dropped_events + i
           /\ EventsGrow(s, u)
<1> DEFINE old == s.event_bus
           new == u.event_bus
           n == Len(old.events)
           m == Len(batch)
           k == Overflow(n + m)
<1>1. /\ old.next_sequence \in Nat /\ old.dropped_events \in Nat /\ n \in Nat /\ m \in Nat
      /\ new.next_sequence \in Nat /\ new.dropped_events \in Nat /\ Len(new.events) \in Nat
  BY LogTypes
<1>2. /\ old.next_sequence = old.dropped_events + n + 1
      /\ \A i \in 1 .. n : old.events[i].sequence = old.dropped_events + i
  BY DEF LogsOrdered
<1>3. /\ new.next_sequence = old.next_sequence + m
      /\ new.dropped_events = old.dropped_events + k
      /\ Len(new.events) = n + m - k
      /\ \A i \in 1 .. n + m - k :
            /\ i + k <= n => new.events[i] = old.events[i + k]
            /\ i + k > n => new.events[i].sequence = old.next_sequence + (i + k - n) - 1
  BY DEF Emitted
<1> HIDE DEF old, new, n, m
<1>4. k \in Nat /\ k <= n + m /\ n + m - k <= EventCapacity /\ EventCapacity \in Nat
  BY <1>1, CapacityAssumption DEF Overflow
<1> HIDE DEF k
<1>5. ASSUME NEW i \in 1 .. n + m - k
      PROVE  new.events[i].sequence = new.dropped_events + i
  <2>1. CASE i + k <= n
    <3>1. i + k \in 1 .. n
      BY <1>1, <1>4, <2>1
    <3>2. new.events[i].sequence = old.dropped_events + (i + k)
      BY <1>2, <1>3, <2>1, <3>1, Zenon
    <3> QED
      BY <1>1, <1>4, <1>3, <3>2
  <2>2. CASE i + k > n
    <3>1. new.events[i].sequence = old.next_sequence + (i + k - n) - 1
      BY <1>3, <2>2, Zenon
    <3>2. /\ old.next_sequence = old.dropped_events + n + 1
          /\ new.dropped_events = old.dropped_events + k
      BY <1>2, <1>3
    <3>3. /\ old.dropped_events \in Nat /\ old.next_sequence \in Nat /\ n \in Nat /\ k \in Nat
          /\ i \in Int /\ new.dropped_events \in Nat
      BY <1>1, <1>4
    <3>4. old.next_sequence + (i + k - n) - 1 = old.dropped_events + k + i
      BY <3>2, <3>3
    <3> QED
      BY <3>1, <3>2, <3>4
  <2> QED
    BY <1>1, <1>4, <2>1, <2>2
<1>6. ASSUME NEW i \in 1 .. n, NEW j \in 1 .. n + m - k, old.events[i].sequence = new.events[j].sequence
      PROVE  old.events[i] = new.events[j]
  <2>1. old.dropped_events + i = old.dropped_events + k + j
    BY <1>2, <1>3, <1>5, <1>6
  <2>2. j + k = i /\ j + k <= n
    BY <1>1, <1>4, <2>1
  <2> QED
    BY <1>3, <2>2
<1>7. /\ Len(new.events) <= EventCapacity
      /\ new.next_sequence = new.dropped_events + Len(new.events) + 1
      /\ new.next_sequence >= old.next_sequence /\ new.dropped_events >= old.dropped_events
  <2>1. /\ old.next_sequence = old.dropped_events + n + 1
        /\ new.next_sequence = old.next_sequence + m
        /\ new.dropped_events = old.dropped_events + k
        /\ Len(new.events) = n + m - k
    BY <1>2, <1>3
  <2>2. Len(new.events) <= EventCapacity
    BY <1>4, <2>1
  <2>3. new.next_sequence = new.dropped_events + (n + m - k) + 1
    BY <1>1, <1>4, <2>1, SMTT(30)
  <2>4. new.next_sequence >= old.next_sequence /\ new.dropped_events >= old.dropped_events
    BY <1>1, <1>4, <2>1, SMTT(30)
  <2> QED
    BY <2>1, <2>2, <2>3, <2>4
<1> QED
  BY <1>3, <1>5, <1>6, <1>7, Zenon DEF EventsGrow, n, old, new

\* Records with consecutive numbers keep the audit log gap-free and in order.
LEMMA AppendedOrdered ==
    ASSUME NEW s, NEW u, NEW records \in Seq(RuntimeAuditEvent), s \in Snapshot, u \in Snapshot,
           LogsOrdered(s), Appended(s, records, u),
           u.audit_uploaded_sequence = s.audit_uploaded_sequence
    PROVE  /\ \A i \in 1 .. Len(u.audit_events) : u.audit_events[i].sequence = i
           /\ u.audit_next_sequence = Len(u.audit_events) + 1
           /\ u.audit_uploaded_sequence <= Len(u.audit_events)
           /\ AuditGrows(s, u)
<1> DEFINE old == s.audit_events
           new == u.audit_events
<1>1. /\ old \in Seq(RuntimeAuditEvent) /\ Len(old) \in Nat /\ Len(records) \in Nat
      /\ s.audit_next_sequence \in Nat /\ s.audit_uploaded_sequence \in Nat
  BY LogTypes
<1>2. /\ \A i \in 1 .. Len(old) : old[i].sequence = i
      /\ s.audit_next_sequence = Len(old) + 1 /\ s.audit_uploaded_sequence <= Len(old)
  BY DEF LogsOrdered
<1>3. new = old \o records /\ u.audit_next_sequence = s.audit_next_sequence + Len(records)
  BY DEF Appended
<1>4. \A i \in 1 .. Len(records) : records[i].sequence = s.audit_next_sequence + i - 1
  BY DEF Appended
<1> HIDE DEF old, new
<1>5. /\ Len(new) = Len(old) + Len(records)
      /\ \A i \in 1 .. Len(old) : new[i] = old[i]
      /\ \A i \in Len(old) + 1 .. Len(old) + Len(records) : new[i] = records[i - Len(old)]
  BY <1>1, <1>3
<1>6. ASSUME NEW i \in 1 .. Len(new)
      PROVE  new[i].sequence = i
  <2>1. CASE i \in 1 .. Len(old)
    BY <1>2, <1>5, <2>1
  <2>2. CASE i \in Len(old) + 1 .. Len(old) + Len(records)
    <3>1. i - Len(old) \in 1 .. Len(records) /\ new[i] = records[i - Len(old)]
      BY <1>1, <1>5, <2>2
    <3>2. new[i].sequence = s.audit_next_sequence + (i - Len(old)) - 1
      BY <1>4, <3>1, Zenon
    <3>3. s.audit_next_sequence = Len(old) + 1
      BY <1>2
    <3> QED
      BY <1>1, <3>2, <3>3
  <2> QED
    BY <1>1, <1>5, <2>1, <2>2
<1>7. /\ u.audit_next_sequence = Len(new) + 1
      /\ u.audit_uploaded_sequence <= Len(new) /\ u.audit_uploaded_sequence >= s.audit_uploaded_sequence
      /\ Len(old) <= Len(new)
  BY <1>1, <1>2, <1>3, <1>5
<1> QED
  BY <1>5, <1>6, <1>7, Zenon DEF AuditGrows, old, new

\* A step that leaves the logs alone keeps their order.
LEMMA SameLogsOrdered ==
    ASSUME NEW s, NEW u, s \in Snapshot, LogsOrdered(s), SameLogs(s, u)
    PROVE  LogsOrdered(u) /\ EventsGrow(s, u) /\ AuditGrows(s, u)
<1> DEFINE ev == s.event_bus.events
<1>1. /\ ev \in Seq(RuntimeEvent) /\ s.event_bus.next_sequence \in Nat
      /\ s.event_bus.dropped_events \in Nat /\ Len(ev) \in Nat
      /\ Len(s.audit_events) \in Nat /\ s.audit_uploaded_sequence \in Nat
  BY LogTypes
<1>2. LogsOrdered(u) /\ u.event_bus = s.event_bus
  BY DEF LogsOrdered, SameLogs
<1>3. \A i \in 1 .. Len(ev) : ev[i].sequence = s.event_bus.dropped_events + i
  BY DEF LogsOrdered
<1> HIDE DEF ev
<1>4. ASSUME NEW i \in 1 .. Len(ev), NEW j \in 1 .. Len(ev), ev[i].sequence = ev[j].sequence
      PROVE  ev[i] = ev[j]
  <2>1. s.event_bus.dropped_events + i = s.event_bus.dropped_events + j
    BY <1>3, <1>4
  <2>2. i = j
    BY <1>1, <2>1
  <2> QED
    BY <2>2
<1>5. s.event_bus.next_sequence >= s.event_bus.next_sequence
      /\ s.event_bus.dropped_events >= s.event_bus.dropped_events
  BY <1>1
<1>6. EventsGrow(s, u)
  BY <1>2, <1>4, <1>5, Zenon DEF EventsGrow, ev
<1>7. AuditGrows(s, u)
  BY <1>1 DEF AuditGrows, SameLogs
<1> QED
  BY <1>2, <1>6, <1>7

\* What a logged step appends keeps the logs in order.
LEMMA LoggedOrdered ==
    ASSUME NEW s, NEW u, NEW batch \in Seq(EventPayload), NEW records \in Seq(RuntimeAuditEvent),
           s \in Snapshot, u \in Snapshot, LogsOrdered(s), Logged(s, batch, records, u)
    PROVE  LogsOrdered(u) /\ EventsGrow(s, u) /\ AuditGrows(s, u)
<1>1. /\ Emitted(s, batch, u) /\ Appended(s, records, u)
      /\ u.audit_uploaded_sequence = s.audit_uploaded_sequence
  BY DEF Logged
<1>2. /\ Len(u.event_bus.events) <= EventCapacity
      /\ u.event_bus.next_sequence = u.event_bus.dropped_events + Len(u.event_bus.events) + 1
      /\ \A i \in 1 .. Len(u.event_bus.events) :
            u.event_bus.events[i].sequence = u.event_bus.dropped_events + i
      /\ EventsGrow(s, u)
  BY <1>1, EmittedOrdered, Zenon
<1>3. /\ \A i \in 1 .. Len(u.audit_events) : u.audit_events[i].sequence = i
      /\ u.audit_next_sequence = Len(u.audit_events) + 1
      /\ u.audit_uploaded_sequence <= Len(u.audit_events)
      /\ AuditGrows(s, u)
  BY <1>1, AppendedOrdered, Zenon
<1> QED
  BY <1>2, <1>3, Zenon DEF LogsOrdered

\* Of three ranges of numbers whose starts and ends do not decrease, the middle
\* one holds what the other two have in common.
LEMMA MiddleRange ==
    ASSUME NEW a1 \in Nat, NEW a2 \in Nat, NEW b1 \in Nat, NEW b2 \in Nat, NEW c1 \in Nat,
           b1 >= a1, c1 >= b1, b1 + b2 + 1 >= a1 + a2 + 1,
           NEW i \in 1 .. a2, NEW j \in Nat \ {0}, a1 + i = c1 + j
    PROVE  \E h \in 1 .. b2 : b1 + h = a1 + i
<1>1. a1 + i - b1 \in 1 .. b2 /\ b1 + (a1 + i - b1) = a1 + i
  OBVIOUS
<1> QED
  BY <1>1

\* Growth of the logs is transitive: an event of s that is still in u was still
\* in every buffer between them.
LEMMA GrowthTransitive ==
    ASSUME NEW s, NEW c, NEW u, s \in Snapshot, c \in Snapshot, u \in Snapshot,
           LogsOrdered(s), LogsOrdered(c), LogsOrdered(u),
           EventsGrow(s, c), EventsGrow(c, u), AuditGrows(s, c), AuditGrows(c, u)
    PROVE  EventsGrow(s, u) /\ AuditGrows(s, u)
<1> DEFINE A == s.event_bus
           B == c.event_bus
           C == u.event_bus
<1>1. /\ A.next_sequence \in Nat /\ A.dropped_events \in Nat /\ Len(A.events) \in Nat
      /\ B.next_sequence \in Nat /\ B.dropped_events \in Nat /\ Len(B.events) \in Nat
      /\ C.next_sequence \in Nat /\ C.dropped_events \in Nat /\ Len(C.events) \in Nat
      /\ Len(s.audit_events) \in Nat /\ Len(c.audit_events) \in Nat /\ Len(u.audit_events) \in Nat
      /\ s.audit_uploaded_sequence \in Nat /\ c.audit_uploaded_sequence \in Nat
      /\ u.audit_uploaded_sequence \in Nat
  BY LogTypes
<1>2. /\ A.next_sequence = A.dropped_events + Len(A.events) + 1
      /\ B.next_sequence = B.dropped_events + Len(B.events) + 1
  BY DEF LogsOrdered
<1>3. /\ \A i \in 1 .. Len(A.events) : A.events[i].sequence = A.dropped_events + i
      /\ \A i \in 1 .. Len(B.events) : B.events[i].sequence = B.dropped_events + i
      /\ \A i \in 1 .. Len(C.events) : C.events[i].sequence = C.dropped_events + i
  BY DEF LogsOrdered
<1>4. /\ B.next_sequence >= A.next_sequence /\ C.next_sequence >= B.next_sequence
      /\ B.dropped_events >= A.dropped_events /\ C.dropped_events >= B.dropped_events
  BY DEF EventsGrow
<1>5. /\ \A i \in 1 .. Len(A.events), j \in 1 .. Len(B.events) :
            A.events[i].sequence = B.events[j].sequence => A.events[i] = B.events[j]
      /\ \A i \in 1 .. Len(B.events), j \in 1 .. Len(C.events) :
            B.events[i].sequence = C.events[j].sequence => B.events[i] = C.events[j]
  BY DEF EventsGrow
<1>6. AuditGrows(s, u)
  <2>1. /\ Len(s.audit_events) <= Len(c.audit_events) /\ Len(c.audit_events) <= Len(u.audit_events)
        /\ c.audit_uploaded_sequence >= s.audit_uploaded_sequence
        /\ u.audit_uploaded_sequence >= c.audit_uploaded_sequence
    BY DEF AuditGrows
  <2>2. ASSUME NEW i \in 1 .. Len(s.audit_events)
        PROVE  u.audit_events[i] = s.audit_events[i]
    <3>1. i \in 1 .. Len(c.audit_events)
      BY <1>1, <2>1
    <3> QED
      BY <3>1, Zenon DEF AuditGrows
  <2>3. Len(s.audit_events) <= Len(u.audit_events)
        /\ u.audit_uploaded_sequence >= s.audit_uploaded_sequence
    BY <1>1, <2>1, SMTT(30)
  <2> QED
    BY <2>2, <2>3 DEF AuditGrows
<1> HIDE DEF A, B, C
<1>7. ASSUME NEW i \in 1 .. Len(A.events), NEW j \in 1 .. Len(C.events),
             A.events[i].sequence = C.events[j].sequence
      PROVE  A.events[i] = C.events[j]
  <2>1. A.dropped_events + i = C.dropped_events + j /\ A.events[i].sequence = A.dropped_events + i
    BY <1>3, <1>7
  <2>2. j \in Nat \ {0}
    BY <1>1
  <2>3. B.dropped_events + Len(B.events) + 1 >= A.dropped_events + Len(A.events) + 1
    BY <1>2, <1>4, Zenon
  <2>4. PICK h \in 1 .. Len(B.events) : B.dropped_events + h = A.dropped_events + i
    <3> DEFINE a1 == A.dropped_events
               a2 == Len(A.events)
               b1 == B.dropped_events
               b2 == Len(B.events)
               c1 == C.dropped_events
    <3>1. /\ a1 \in Nat /\ a2 \in Nat /\ b1 \in Nat /\ b2 \in Nat /\ c1 \in Nat /\ i \in 1 .. a2
          /\ b1 >= a1 /\ c1 >= b1 /\ b1 + b2 + 1 >= a1 + a2 + 1 /\ a1 + i = c1 + j
      BY <1>1, <1>4, <2>1, <2>3, Zenon
    <3> HIDE DEF a1, a2, b1, b2, c1
    <3>2. \E h \in 1 .. b2 : b1 + h = a1 + i
      BY <2>2, <3>1, MiddleRange
    <3> QED
      BY <3>2, Zenon DEF a1, b1, b2
  <2>5. B.events[h].sequence = A.events[i].sequence
    BY <1>3, <2>1, <2>4, Zenon
  <2> QED
    BY <1>5, <1>7, <2>5, ZenonT(30)
<1>8. C.next_sequence >= A.next_sequence /\ C.dropped_events >= A.dropped_events
  <2>1. \A x, y, z \in Nat : z >= y /\ y >= x => z >= x
    OBVIOUS
  <2> QED
    BY <1>1, <1>4, <2>1, Zenon
<1>9. EventsGrow(s, u)
  BY <1>7, <1>8, Zenon DEF EventsGrow, A, C
<1> QED
  BY <1>6, <1>9

(***************************************************************************)
(* The audit log as a chain of configurations.                             *)
(***************************************************************************)
\* A record that follows the committed configuration c, or the working one w.
Follows(c, r) ==
    /\ ConfigDiff(c, r.committed_id) \subseteq r.changed_paths
    /\ IF r.kind \in {"Commit", "SyncApply", "DirectPush"}
       THEN r.base_id = c /\ r.target_id = r.committed_id
       ELSE r.committed_id = c
WorkFollows(w, r) == ConfigDiff(w, r.working_id) \subseteq r.changed_paths

ChainedFrom(c, log) ==
    \A i \in 1 .. Len(log) :
        /\ i = 1 => Follows(c, log[i])
        /\ i > 1 => Follows(log[i - 1].committed_id, log[i])
                    /\ WorkFollows(log[i - 1].working_id, log[i])

Names(r, s) == r.committed_id = CommittedId(s) /\ r.working_id = WorkingId(s)

\* AuditHeadIsCurrent of a snapshot.  An empty log stands for the baseline,
\* without which the first record would have nothing to follow.
HeadCurrent(s) ==
    /\ s.audit_events = <<>> => CommittedId(s) = Baseline
    /\ s.audit_events # <<>> => Names(s.audit_events[Len(s.audit_events)], s)

AuditGood(s) == ChainedFrom(Baseline, s.audit_events) /\ HeadCurrent(s)

\* Records that lead from the configurations of s to those of u.
Leads(s, records, u) ==
    /\ ChainedFrom(CommittedId(s), records)
    /\ records = <<>> => CommittedId(u) = CommittedId(s) /\ WorkingId(u) = WorkingId(s)
    /\ records # <<>> => /\ WorkFollows(WorkingId(s), records[1])
                         /\ Names(records[Len(records)], u)

\* A step whose records lead from its start to its end keeps the chain and its
\* head.
LEMMA LeadsKeeps ==
    ASSUME NEW s, NEW u, s \in Snapshot, NEW records \in Seq(RuntimeAuditEvent),
           AuditGood(s), Appended(s, records, u), Leads(s, records, u)
    PROVE  AuditGood(u)
<1> DEFINE old == s.audit_events
           new == u.audit_events
           n == Len(old)
           m == Len(records)
<1>1. old \in Seq(RuntimeAuditEvent) /\ n \in Nat /\ m \in Nat
  BY LogTypes
<1>2. new = old \o records
  BY DEF Appended
<1>3. /\ Len(new) = n + m
      /\ \A i \in 1 .. n : new[i] = old[i]
      /\ \A i \in n + 1 .. n + m : new[i] = records[i - n]
  BY <1>1, <1>2
<1>4. CASE records = <<>>
  <2>1. new = old
    BY <1>1, <1>2, <1>4
  <2> QED
    BY <1>4, <2>1, Zenon DEF AuditGood, HeadCurrent, Leads, Names
<1>5. CASE records # <<>>
  <2>1. m \in Nat \ {0}
    BY <1>1, <1>5
  <2>2. n # 0 => old # <<>>
    BY <1>1
  <2>3. n = 0 => old = <<>>
    BY <1>1
  <2>4. /\ WorkFollows(WorkingId(s), records[1]) /\ Names(records[m], u)
        /\ ChainedFrom(CommittedId(s), records)
    BY <1>5 DEF Leads
  <2>5. n = 0 => CommittedId(s) = Baseline
    BY <2>3 DEF AuditGood, HeadCurrent
  <2>6. n # 0 => Names(old[n], s)
    BY <2>2 DEF AuditGood, HeadCurrent
  <2>7. ChainedFrom(Baseline, old)
    BY DEF AuditGood
  <2> HIDE DEF old, new, n, m
  <2>8. new[n + 1] = records[1] /\ new[n + m] = records[m]
    <3>1. /\ n + 1 \in n + 1 .. n + m /\ (n + 1) - n = 1
          /\ n + m \in n + 1 .. n + m /\ (n + m) - n = m
      BY <1>1, <2>1
    <3> QED
      BY <1>3, <3>1
  <2>9. HeadCurrent(u)
    <3>1. Len(new) # 0 /\ new[Len(new)] = records[m]
      BY <1>1, <1>3, <2>1, <2>8
    <3>2. new # <<>>
      BY <3>1
    <3> QED
      BY <2>4, <3>1, <3>2, Zenon DEF HeadCurrent, new
  <2>10. Follows(CommittedId(s), records[1])
    <3>1. 1 \in 1 .. m
      BY <2>1
    <3> QED
      BY <2>4, <3>1 DEF ChainedFrom, m
  <2>11. ASSUME NEW i \in 1 .. n + m
         PROVE  /\ i = 1 => Follows(Baseline, new[i])
                /\ i > 1 => Follows(new[i - 1].committed_id, new[i])
                            /\ WorkFollows(new[i - 1].working_id, new[i])
    <3>1. CASE i \in 1 .. n
      <4>1. new[i] = old[i] /\ (i > 1 => new[i - 1] = old[i - 1])
        BY <1>1, <1>3, <3>1
      <4> QED
        BY <2>7, <3>1, <4>1, Zenon DEF ChainedFrom, n
    <3>2. CASE i = n + 1
      <4>1. new[i] = records[1] /\ (i > 1 => n # 0 /\ new[i - 1] = old[n]) /\ (i = 1 => n = 0)
        BY <1>1, <1>3, <2>8, <3>2
      <4> QED
        BY <2>4, <2>5, <2>6, <2>10, <4>1, Zenon DEF Names
    <3>3. CASE i > n + 1
      <4>1. /\ i - n \in 1 .. m /\ i - n > 1 /\ i # 1
            /\ new[i] = records[i - n] /\ new[i - 1] = records[(i - n) - 1]
        <5>1. /\ i - n \in 1 .. m /\ i - n > 1 /\ i # 1
              /\ i \in n + 1 .. n + m /\ i - 1 \in n + 1 .. n + m /\ (i - 1) - n = (i - n) - 1
          BY <1>1, <3>3
        <5>2. new[i] = records[i - n] /\ new[i - 1] = records[(i - 1) - n]
          BY <1>3, <5>1, Zenon
        <5> QED
          BY <5>1, <5>2
      <4> QED
        BY <2>4, <4>1, Zenon DEF ChainedFrom, m
    <3> QED
      BY <1>1, <3>1, <3>2, <3>3
  <2>12. ChainedFrom(Baseline, new)
    BY <1>3, <2>11, Zenon DEF ChainedFrom
  <2> QED
    BY <2>9, <2>12 DEF AuditGood, new
<1> QED
  BY <1>4, <1>5

SameValues(s, u) ==
    \A p \in Paths : /\ u.committed_overlay[p] = s.committed_overlay[p]
                     /\ u.dirty_overlay[p] = s.dirty_overlay[p]

\* A step that changes neither the audit log nor a configuration.
LEMMA SameAuditGood ==
    ASSUME NEW s, NEW u, AuditGood(s), u.audit_events = s.audit_events, SameValues(s, u)
    PROVE  AuditGood(u)
<1>1. \A p \in Paths : CommittedValue(u, p) = CommittedValue(s, p)
  BY DEF CommittedValue, SameValues
<1>2. \A p \in Paths : EffectiveValue(u, p) = EffectiveValue(s, p)
  BY <1>1 DEF EffectiveValue, SameValues
<1>3. CommittedId(u) = CommittedId(s) /\ WorkingId(u) = WorkingId(s)
  BY <1>1, <1>2 DEF CommittedId, WorkingId
<1> QED
  BY <1>3, Zenon DEF AuditGood, HeadCurrent, Names

(***************************************************************************)
(* Steps without a record, and the configurations two snapshots have.      *)
(***************************************************************************)
\* A step that emits a batch and writes no record.
LEMMA EventsOnly ==
    ASSUME NEW s, NEW c, s \in Snapshot, c \in Snapshot, SameLogs(s, c),
           NEW batch \in Seq(EventPayload)
    PROVE  Logged(s, batch, <<>>, Emit(c, batch))
<1> DEFINE u == Emit(c, batch)
<1>1. Emitted(c, batch, u) /\ SameAudit(c, u)
  BY EmitLogs
<1>2. s.audit_events \in Seq(RuntimeAuditEvent) /\ s.audit_next_sequence \in Nat
  BY LogTypes
<1> HIDE DEF u
<1>3. Emitted(s, batch, u)
  BY <1>1 DEF Emitted, SameLogs
<1>4. s.audit_events \o <<>> = s.audit_events /\ Len(<<>>) = 0 /\ s.audit_next_sequence + 0 = s.audit_next_sequence
  BY <1>2
<1>5. \A i \in 1 .. Len(<<>>) : FALSE
  OBVIOUS
<1>6. Appended(s, <<>>, u)
  BY <1>1, <1>4, <1>5, Zenon DEF Appended, SameLogs, SameAudit
<1>7. u.audit_uploaded_sequence = s.audit_uploaded_sequence
  BY <1>1 DEF SameLogs, SameAudit
<1> QED
  BY <1>3, <1>6, <1>7 DEF Logged, u

\* Where overlays agree, so do the configurations.
LEMMA DiffWithin ==
    ASSUME NEW s, NEW c, NEW ps,
           \A p \in Paths \ ps : /\ c.committed_overlay[p] = s.committed_overlay[p]
                                 /\ c.dirty_overlay[p] = s.dirty_overlay[p]
    PROVE  /\ ConfigDiff(CommittedId(s), CommittedId(c)) \subseteq ps
           /\ ConfigDiff(WorkingId(s), WorkingId(c)) \subseteq ps
<1>1. \A p \in Paths \ ps : CommittedValue(c, p) = CommittedValue(s, p)
  BY DEF CommittedValue
<1>2. \A p \in Paths \ ps : EffectiveValue(c, p) = EffectiveValue(s, p)
  BY <1>1 DEF EffectiveValue
<1> QED
  BY <1>1, <1>2 DEF ConfigDiff, CommittedId, WorkingId

\* The working configuration of s without the overrides of ps.
RevertedId(s, ps) ==
    [p \in Paths |-> IF p \in ps THEN CommittedValue(s, p) ELSE EffectiveValue(s, p)]

\* c is s without the overrides of ps, as far as values go.
Uncovers(s, ps, c) ==
    /\ c.committed_overlay = s.committed_overlay
    /\ c.dirty_overlay = [p \in Paths |-> IF p \in ps THEN NoValue ELSE s.dirty_overlay[p]]

\* The configurations after clearing overrides.
LEMMA ClearedIds ==
    ASSUME NEW s, NEW ps, NEW c, Uncovers(s, ps, c)
    PROVE  /\ CommittedId(c) = CommittedId(s)
           /\ WorkingId(c) = RevertedId(s, ps)
<1>1. \A p \in Paths : CommittedValue(c, p) = CommittedValue(s, p)
  BY DEF CommittedValue, Uncovers
<1>2. \A p \in Paths : EffectiveValue(c, p) = IF p \in ps THEN CommittedValue(s, p)
                                               ELSE EffectiveValue(s, p)
  BY <1>1 DEF EffectiveValue, Uncovers
<1> QED
  BY <1>1, <1>2 DEF CommittedId, WorkingId, RevertedId

OneMore(a, b, x) == a \subseteq b /\ b \subseteq a \cup {x}
DiffersAt(v, w, x) == ConfigDiff(v, w) \subseteq {x}

\* Taking back one more override changes the value of its path only.
LEMMA OneMoreReverted ==
    ASSUME NEW s, NEW a, NEW b, NEW x, OneMore(a, b, x)
    PROVE  DiffersAt(RevertedId(s, a), RevertedId(s, b), x)
BY DEF ConfigDiff, RevertedId, OneMore, DiffersAt

\* The records of timers in the order q: each names the configurations that its
\* timer and those before it leave.
ChainsBack(s, q, esc, audit) ==
    /\ Len(q) \in Nat /\ Len(audit) = Len(q) /\ audit \in Seq(RuntimeAuditEvent)
    /\ \A i \in 1 .. Len(q) :
          /\ audit[i].committed_id = CommittedId(s)
          /\ audit[i].working_id = RevertedId(s, RevertedBy(q, i, esc))
          /\ audit[i].changed_paths = {q[i].entry.path}
          /\ audit[i].kind \in {"Escalation", "Reset"}

\* Such records lead to the configurations that all the timers leave.
LEMMA RevertsLead ==
    ASSUME NEW s, NEW q, NEW esc, NEW audit, ChainsBack(s, q, esc, audit),
           NEW u, CommittedId(u) = CommittedId(s),
           WorkingId(u) = RevertedId(s, RevertedBy(q, Len(q), esc))
    PROVE  Leads(s, audit, u)
<1> DEFINE gone(i) == RevertedBy(q, i, esc)
<1>1. Len(q) \in Nat /\ audit \in Seq(RuntimeAuditEvent)
  BY Zenon DEF ChainsBack
<1>2. WorkingId(s) = RevertedId(s, {})
  BY DEF WorkingId, RevertedId
<1>3. /\ Len(audit) = Len(q)
      /\ \A i \in 1 .. Len(q) :
            /\ audit[i].committed_id = CommittedId(s) /\ audit[i].working_id = RevertedId(s, gone(i))
            /\ audit[i].changed_paths = {q[i].entry.path}
            /\ audit[i].kind \in {"Escalation", "Reset"}
  BY Zenon DEF ChainsBack
<1>4. ASSUME NEW i \in 1 .. Len(q) PROVE Follows(CommittedId(s), audit[i])
  <2>1. ConfigDiff(CommittedId(s), CommittedId(s)) = {}
    BY DEF ConfigDiff
  <2>2. audit[i].kind \notin {"Commit", "SyncApply", "DirectPush"}
    BY <1>3
  <2> QED
    BY <1>3, <2>1, <2>2, Zenon DEF Follows
<1>5. ASSUME NEW i \in 1 .. Len(q)
      PROVE  /\ i = 1 => WorkFollows(WorkingId(s), audit[i])
             /\ i > 1 => WorkFollows(audit[i - 1].working_id, audit[i])
  <2>1. CASE i = 1
    <3>1. OneMore({}, gone(i), q[i].entry.path)
      BY <2>1 DEF RevertedBy, OneMore
    <3>2. DiffersAt(RevertedId(s, {}), RevertedId(s, gone(i)), q[i].entry.path)
      <4> HIDE DEF gone
      <4> QED
        BY <3>1, OneMoreReverted, Zenon
    <3> HIDE DEF gone
    <3> QED
      BY <1>2, <1>3, <2>1, <3>2 DEF WorkFollows, DiffersAt
  <2>2. CASE i > 1
    <3>1. i - 1 \in 1 .. Len(q) /\ 1 .. i = (1 .. (i - 1)) \cup {i}
      BY <1>1, <2>2, SMTT(30)
    <3>2. OneMore(gone(i - 1), gone(i), q[i].entry.path)
      BY <3>1 DEF RevertedBy, OneMore
    <3>3. DiffersAt(RevertedId(s, gone(i - 1)), RevertedId(s, gone(i)), q[i].entry.path)
      <4> HIDE DEF gone
      <4> QED
        BY <3>2, OneMoreReverted, Zenon
    <3> HIDE DEF gone
    <3> QED
      BY <1>3, <2>2, <3>1, <3>3 DEF WorkFollows, DiffersAt
  <2> QED
    BY <1>1, <2>1, <2>2
<1>6. ChainedFrom(CommittedId(s), audit)
  <2>1. \A i \in 1 .. Len(q) : i > 1 => i - 1 \in 1 .. Len(q)
    BY <1>1
  <2> QED
    BY <1>3, <1>4, <1>5, <2>1, Zenon DEF ChainedFrom
<1>7. CASE audit = <<>>
  <2>1. Len(q) = 0
    BY <1>3, <1>7
  <2>2. RevertedBy(q, Len(q), esc) = {}
    BY <2>1 DEF RevertedBy
  <2> QED
    BY <1>2, <1>6, <1>7, <2>2, Zenon DEF Leads
<1>8. CASE audit # <<>>
  <2>1. Len(q) \in 1 .. Len(q) /\ 1 \in 1 .. Len(q)
    BY <1>1, <1>3, <1>8
  <2>2. Names(audit[Len(audit)], u)
    BY <1>3, <2>1, Zenon DEF Names
  <2>3. WorkFollows(WorkingId(s), audit[1])
    BY <1>5, <2>1
  <2> QED
    BY <1>6, <1>8, <2>2, <2>3, Zenon DEF Leads
<1> QED
  BY <1>7, <1>8

\* Events without a record lead to the same configurations.
LEMMA QuietLeads ==
    ASSUME NEW s, NEW u, SameValues(s, u)
    PROVE  Leads(s, <<>>, u)
<1>1. \A p \in Paths : CommittedValue(u, p) = CommittedValue(s, p)
  BY DEF SameValues, CommittedValue
<1>2. \A p \in Paths : EffectiveValue(u, p) = EffectiveValue(s, p)
  BY <1>1, Zenon DEF SameValues, EffectiveValue
<1>3. CommittedId(u) = CommittedId(s) /\ WorkingId(u) = WorkingId(s)
  BY <1>1, <1>2 DEF CommittedId, WorkingId
<1>4. ChainedFrom(CommittedId(s), <<>>)
  BY DEF ChainedFrom
<1> QED
  BY <1>3, <1>4 DEF Leads

\* A record of kind k that names ps accounts for a change from s to c.
Accounts(s, c, k, ps, base, target) ==
    /\ ConfigDiff(CommittedId(s), CommittedId(c)) \subseteq ps
    /\ ConfigDiff(WorkingId(s), WorkingId(c)) \subseteq ps
    /\ IF k \in {"Commit", "SyncApply", "DirectPush"}
       THEN base = CommittedId(s) /\ target = CommittedId(c)
       ELSE CommittedId(c) = CommittedId(s)

ValuesOf(c, u) ==
    \A p \in Paths : CommittedValue(u, p) = CommittedValue(c, p)
                       /\ EffectiveValue(u, p) = EffectiveValue(c, p)

\* The record r that e appends, after the batch, for a change from s to c.
Records(s, c, batch, e, r, u) ==
    /\ SameLogs(s, c) /\ Emitted(c, batch, e) /\ SameAudit(c, e) /\ ValuesOf(c, e)
    /\ u.event_bus = e.event_bus /\ u.audit_uploaded_sequence = e.audit_uploaded_sequence
    /\ Appended(e, <<r>>, u) /\ ValuesOf(c, u)

\* Such a record is what the step logs, and it leads to where the step ends.
LEMMA RecordOf ==
    ASSUME NEW s, NEW c, NEW batch, NEW e, NEW u, NEW r, NEW n, NEW k, NEW ps, NEW base, NEW target,
           Accounts(s, c, k, ps, base, target), r = AuditRecord(e, n, k, ps, base, target),
           Records(s, c, batch, e, r, u)
    PROVE  Logged(s, batch, <<r>>, u) /\ Leads(s, <<r>>, u)
<1>1. /\ SameLogs(s, c) /\ Emitted(c, batch, e) /\ SameAudit(c, e)
      /\ u.event_bus = e.event_bus /\ u.audit_uploaded_sequence = e.audit_uploaded_sequence
      /\ Appended(e, <<r>>, u)
  BY Zenon DEF Records
<1>2. CommittedId(e) = CommittedId(c) /\ WorkingId(e) = WorkingId(c)
  BY DEF Records, ValuesOf, CommittedId, WorkingId
<1>3. CommittedId(u) = CommittedId(c) /\ WorkingId(u) = WorkingId(c)
  BY DEF Records, ValuesOf, CommittedId, WorkingId
<1>4. /\ r.committed_id = CommittedId(c) /\ r.working_id = WorkingId(c)
      /\ r.kind = k /\ r.changed_paths = ps /\ r.base_id = base /\ r.target_id = target
  BY <1>2 DEF AuditRecord
<1>5. Logged(s, batch, <<r>>, u)
  <2>1. Emitted(s, batch, u)
    BY <1>1, Zenon DEF Emitted, SameLogs
  <2>2. Appended(s, <<r>>, u)
    BY <1>1, Zenon DEF Appended, SameAudit, SameLogs
  <2> QED
    BY <1>1, <2>1, <2>2, Zenon DEF Logged, SameAudit, SameLogs
<1>6. Leads(s, <<r>>, u)
  <2>1. /\ <<r>> # <<>> /\ Len(<<r>>) = 1 /\ <<r>>[1] = r /\ <<r>>[Len(<<r>>)] = r
        /\ \A i \in 1 .. Len(<<r>>) : i = 1 /\ ~ i > 1
    OBVIOUS
  <2>2. Follows(CommittedId(s), r) /\ WorkFollows(WorkingId(s), r)
    BY <1>4 DEF Follows, WorkFollows, Accounts
  <2>3. Names(r, u)
    BY <1>3, <1>4, Zenon DEF Names
  <2>4. ChainedFrom(CommittedId(s), <<r>>)
    BY <2>1, <2>2, Zenon DEF ChainedFrom
  <2> QED
    BY <2>1, <2>2, <2>3, <2>4, Zenon DEF Leads
<1> QED
  BY <1>5, <1>6

(***************************************************************************)
(* The invariant of the two logs.                                          *)
(***************************************************************************)
LogsGood(s) == LogsOrdered(s) /\ AuditGood(s)
LogsGrow(s, u) == EventsGrow(s, u) /\ AuditGrows(s, u)

\* What a logged step keeps.
LEMMA LoggedGoodLogs ==
    ASSUME NEW s, NEW u, NEW batch \in Seq(EventPayload), NEW records \in Seq(RuntimeAuditEvent),
           s \in Snapshot, u \in Snapshot, LogsGood(s), Logged(s, batch, records, u),
           Leads(s, records, u)
    PROVE  LogsGood(u) /\ LogsGrow(s, u)
<1>1. LogsOrdered(s) /\ AuditGood(s) /\ Appended(s, records, u)
  BY DEF LogsGood, Logged
<1>2. LogsOrdered(u) /\ EventsGrow(s, u) /\ AuditGrows(s, u)
  BY <1>1, LoggedOrdered, Zenon
<1>3. AuditGood(u)
  BY <1>1, LeadsKeeps, Zenon
<1> QED
  BY <1>2, <1>3 DEF LogsGood, LogsGrow

\* What a step keeps that leaves the logs and the values alone.
LEMMA QuietGoodLogs ==
    ASSUME NEW s, NEW u, s \in Snapshot, LogsGood(s), SameLogs(s, u), SameValues(s, u)
    PROVE  LogsGood(u) /\ LogsGrow(s, u)
<1>1. LogsOrdered(s) /\ AuditGood(s) /\ u.audit_events = s.audit_events
  BY DEF LogsGood, SameLogs
<1>2. LogsOrdered(u) /\ EventsGrow(s, u) /\ AuditGrows(s, u)
  BY <1>1, SameLogsOrdered
<1>3. AuditGood(u)
  BY <1>1, SameAuditGood
<1> QED
  BY <1>2, <1>3 DEF LogsGood, LogsGrow

\* Moving the upload cursor forward, and not past the log.
LEMMA CursorMoves ==
    ASSUME NEW s, NEW u, NEW cursor, s \in Snapshot, LogsGood(s),
           cursor \in s.audit_uploaded_sequence .. Len(s.audit_events),
           u.event_bus = s.event_bus, u.audit_events = s.audit_events,
           u.audit_next_sequence = s.audit_next_sequence,
           u.audit_uploaded_sequence = cursor, SameValues(s, u)
    PROVE  LogsGood(u) /\ LogsGrow(s, u)
<1>1. AuditGood(s) /\ LogsOrdered(s) /\ SameLogs(s, s)
  BY Zenon DEF LogsGood, SameLogs
<1>2. s.audit_uploaded_sequence \in Nat /\ Len(s.audit_events) \in Nat
  BY LogTypes, Zenon
<1>3. cursor <= Len(s.audit_events) /\ cursor >= s.audit_uploaded_sequence
  BY <1>2
<1>4. AuditGood(u)
  BY <1>1, SameAuditGood, Zenon
<1>5. LogsOrdered(u)
  BY <1>1, <1>3, Zenon DEF LogsOrdered
<1>6. EventsGrow(s, s) /\ AuditGrows(s, s)
  BY <1>1, SameLogsOrdered
<1>7. EventsGrow(s, u) /\ AuditGrows(s, u)
  BY <1>3, <1>6, Zenon DEF EventsGrow, AuditGrows
<1> QED
  BY <1>4, <1>5, <1>7, Zenon DEF LogsGood, LogsGrow

\* Empty logs are good if nothing is committed.
LEMMA EmptyLogs ==
    ASSUME NEW x, x.committed_overlay = [p \in Paths |-> NoValue],
           x.event_bus = [next_sequence |-> 1, events |-> <<>>, dropped_events |-> 0],
           x.audit_events = <<>>, x.audit_next_sequence = 1, x.audit_uploaded_sequence = 0
    PROVE  LogsGood(x)
<1>1. LogsOrdered(x)
  <2> DEFINE bus == x.event_bus
  <2>1. bus.events = <<>> /\ bus.next_sequence = 1 /\ bus.dropped_events = 0
    OBVIOUS
  <2>2. /\ Len(bus.events) = 0 /\ Len(x.audit_events) = 0 /\ 1 .. 0 = {}
        /\ 0 <= EventCapacity /\ 1 = 0 + 0 + 1 /\ 1 = 0 + 1 /\ 0 <= 0
    BY <2>1, CapacityAssumption
  <2> QED
    BY <2>1, <2>2, Zenon DEF LogsOrdered
<1>2. AuditGood(x)
  <2>1. CommittedId(x) = Baseline
    BY BaselineAssumption, Zenon DEF CommittedId, CommittedValue
  <2>2. Len(<<>>) = 0 /\ 1 .. 0 = {}
    OBVIOUS
  <2> QED
    BY <2>1, <2>2, Zenon DEF AuditGood, HeadCurrent, ChainedFrom
<1> QED
  BY <1>1, <1>2 DEF LogsGood

\* The functions that change values and overrides leave the logs alone.
LEMMA OverridesOnly ==
    ASSUME NEW s, s \in Snapshot, NEW w, NEW intent, NEW t, NEW ps
    PROVE  /\ SameLogs(s, ApplyDirtyWrites(s, w, intent, t))
           /\ SameLogs(s, ClearDirty(s, ps))
           /\ SameLogs(s, Normalize(s, t)) /\ SameValues(s, Normalize(s, t))
           /\ SameLogs(s, Escalate(s, ps))
<1>1. SameLogs(s, ApplyDirtyWrites(s, w, intent, t))
  BY Zenon DEF ApplyDirtyWrites, Snapshot, SameLogs
<1>2. SameLogs(s, ClearDirty(s, ps))
  BY Zenon DEF ClearDirty, Snapshot, SameLogs
<1>3. SameLogs(s, Normalize(s, t)) /\ SameValues(s, Normalize(s, t))
  <2> DEFINE dirty == DirtyPaths(s)
             m == [p \in Paths |-> IF p \in dirty THEN NormalizedMetadata(s, p, t) ELSE NoMetadata]
             g == [p \in Paths |-> IF p \in dirty THEN NormalizedGeneration(s, p)
                                   ELSE s.dirty_generations[p]]
             bounds == {BoundEntry(m[p], p, k) : p \in dirty, k \in DeadlineKinds}
             q == {e \in s.pending : e.path \in dirty} \cup {e \in bounds : e.deadline # NoDeadline}
  <2>1. Normalize(s, t) = [s EXCEPT !.dirty_generations = g, !.dirty_metadata = m, !.pending = q]
    BY DEF Normalize, Snapshot
  <2> HIDE DEF g, m, q
  <2> QED
    BY <2>1, Zenon DEF Snapshot, SameLogs, SameValues
<1>4. SameLogs(s, Escalate(s, ps))
  BY Zenon DEF Escalate, Snapshot, SameLogs
<1> QED
  BY <1>1, <1>2, <1>3, <1>4

(***************************************************************************)
(* A step of a session: the caller's snapshot is normalised, the due       *)
(* timers fire, and the operation does its own work.                       *)
(***************************************************************************)
PlainBatches == {<<Event("RuntimeOpened", {})>>, <<SyncEvent>>, <<SyncEvent, SyncEvent>>}

OwnWork(s, u) ==
    \/ SameLogs(s, u) /\ SameValues(s, u)
    \/ \E batch \in PlainBatches : Logged(s, batch, <<>>, u) /\ SameValues(s, u)
    \/ \E w \in Seq(Writes), intent \in Intents : u = Write(s, w, intent)
    \/ \E ps \in SUBSET DirtyPaths(s) : ps # {} /\ u = Rollback(s, ps)
    \/ u = Commit(s)
    \/ \E r \in PullRequest : PullAccepted(s, r) /\ r.writes # <<>> /\ u = Pull(s, r)

\* The batches without a value are sequences of payloads.
LEMMA PlainType ==
    \A batch \in PlainBatches : batch \in Seq(EventPayload)
<1>1. Event("RuntimeOpened", {}) \in EventPayload /\ SyncEvent \in EventPayload
  BY DEF SyncEvent, Event, EventPayload, EventKinds
<1>2. /\ <<Event("RuntimeOpened", {})>> \in Seq(EventPayload)
      /\ <<SyncEvent, SyncEvent>> \in Seq(EventPayload) /\ <<SyncEvent>> \in Seq(EventPayload)
  BY <1>1
<1> QED
  BY <1>2, Zenon DEF PlainBatches

\* Emitting such a batch.
LEMMA PlainWork ==
    ASSUME NEW s, NEW c, s \in Snapshot, c \in Snapshot, SameLogs(s, c), SameValues(s, c),
           NEW batch \in PlainBatches
    PROVE  OwnWork(s, Emit(c, batch))
<1>1. batch \in Seq(EventPayload)
  BY PlainType, Zenon
<1>2. Logged(s, batch, <<>>, Emit(c, batch))
  BY <1>1, EventsOnly, Zenon
<1>3. SameValues(s, Emit(c, batch))
  BY Zenon DEF Emit, Snapshot, SameValues
<1> QED
  BY <1>2, <1>3, Zenon DEF OwnWork

\* Every step is a tick, an upload, a run of the driver, or an operation's own
\* work on the prepared snapshot.
LEMMA StepsAreWork ==
    ASSUME [Next]_vars, NEW s, s = Prepared(snapshot, now), Operable => s \in Snapshot
    PROVE  \/ snapshot' = snapshot
           \/ PushAuditEvents
           \/ DriveOverrideLifecycle
           \/ Operable /\ OwnWork(s, snapshot')
           \/ Operable /\ \E r \in PullRequest : PullAccepted(s, r) /\ snapshot' = Pull(s, r)
<1>1. CASE UNCHANGED vars
  BY <1>1 DEF vars
<1>2. CASE Reopen
  <2>1. Operable /\ snapshot' = Emit(s, <<Event("RuntimeOpened", {})>>)
    BY <1>2 DEF Reopen, Return, RuntimeOpen
  <2>2. SameLogs(s, s) /\ SameValues(s, s) /\ <<Event("RuntimeOpened", {})>> \in PlainBatches
    BY DEF SameLogs, SameValues, PlainBatches
  <2> QED
    BY <2>1, <2>2, PlainWork, Zenon
<1>3. CASE SetParameter
  <2>1. Operable
    BY <1>3 DEF SetParameter
  <2>2. PICK x \in Writes, intent \in Intents : snapshot' = Write(s, <<x>>, intent)
    BY <1>3, Zenon DEF SetParameter, Return
  <2>3. <<x>> \in Seq(Writes)
    OBVIOUS
  <2> QED
    BY <2>1, <2>2, <2>3, Zenon DEF OwnWork
<1>4. CASE SetParametersAtomically
  <2>1. Operable
    BY <1>4 DEF SetParametersAtomically
  <2>2. PICK w \in WriteLists, intent \in Intents : snapshot' = Write(s, w, intent)
    BY <1>4, Zenon DEF SetParametersAtomically, Return
  <2>3. w \in Seq(Writes)
    BY WriteListsAssumption
  <2> QED
    BY <2>1, <2>2, <2>3, Zenon DEF OwnWork
<1>5. CASE SetAutoResetPolicy
  <2>1. Operable /\ s \in Snapshot
    BY <1>5 DEF SetAutoResetPolicy
  <2> DEFINE revision == s.policy_revision + 1
  <2>2. PICK policy \in Policies :
           snapshot' = Normalize([s EXCEPT !.auto_reset_policy = policy,
                                           !.policy_revision = revision], now)
    BY <1>5, Zenon DEF SetAutoResetPolicy, Return
  <2> DEFINE x == [s EXCEPT !.auto_reset_policy = policy, !.policy_revision = revision]
  <2>3. policy \in AutoResetPolicy /\ revision \in Nat
    BY <2>1, <2>2, PoliciesAssumption DEF Snapshot
  <2> HIDE DEF revision
  <2>4. x \in Snapshot /\ SameLogs(s, x) /\ SameValues(s, x)
    BY <2>1, <2>3, Zenon DEF Snapshot, SameLogs, SameValues
  <2>5. snapshot' = Normalize(x, now)
    BY <2>2
  <2> HIDE DEF x
  <2>6. SameLogs(x, snapshot') /\ SameValues(x, snapshot')
    BY <2>4, <2>5, OverridesOnly, Zenon
  <2>7. SameLogs(s, snapshot') /\ SameValues(s, snapshot')
    BY <2>4, <2>6, Zenon DEF SameLogs, SameValues
  <2> QED
    BY <2>1, <2>7, Zenon DEF OwnWork
<1>6. CASE RollbackDirty
  <2>1. Operable
    BY <1>6 DEF RollbackDirty
  <2>2. PICK ps \in SUBSET DirtyPaths(s) : snapshot' = Rollback(s, ps)
    BY <1>6, Zenon DEF RollbackDirty, Return
  <2>3. ASSUME ps = {} PROVE OwnWork(s, snapshot')
    BY <2>2, <2>3, Zenon DEF Rollback, OwnWork, SameLogs, SameValues
  <2>4. ASSUME ps # {} PROVE OwnWork(s, snapshot')
    BY <2>2, <2>4, Zenon DEF OwnWork
  <2> QED
    BY <2>1, <2>3, <2>4, Zenon
<1>7. CASE CommitConfiguration
  <2>1. Operable /\ snapshot' = Commit(s)
    BY <1>7 DEF CommitConfiguration, Return
  <2> QED
    BY <2>1, Zenon DEF OwnWork
<1>8. CASE CheckForUpdates
  <2>1. Operable /\ s \in Snapshot
    BY <1>8 DEF CheckForUpdates
  <2>2. PICK state \in SyncStates, batch \in PlainBatches :
           snapshot' = Emit([s EXCEPT !.sync_state = state], batch)
    BY <1>8 DEF CheckForUpdates, Return, SyncStates, PlainBatches
  <2> DEFINE x == [s EXCEPT !.sync_state = state]
  <2>3. x \in Snapshot /\ SameLogs(s, x) /\ SameValues(s, x)
    BY <2>1, Zenon DEF Snapshot, SameLogs, SameValues
  <2> HIDE DEF x
  <2>4. OwnWork(s, Emit(x, batch))
    BY <2>1, <2>3, PlainWork, Zenon
  <2> QED
    BY <2>1, <2>2, <2>4, Zenon DEF x
<1>9. CASE PullUpdates
  <2>1. Operable /\ \E r \in PullRequests : PullAccepted(s, r) /\ snapshot' = Pull(s, r)
    BY <1>9, Zenon DEF PullUpdates, Return
  <2> QED
    BY <2>1, PullAssumption, Zenon
<1>10. CASE Tick \/ ClockSetBack
  BY <1>10 DEF Tick, ClockSetBack
<1> QED
  BY <1>1, <1>2, <1>3, <1>4, <1>5, <1>6, <1>7, <1>8, <1>9, <1>10 DEF Next

(***************************************************************************)
(* Events about a path.                                                    *)
(***************************************************************************)
IsValue(e, p) == e.kind \in {"ParameterChanged", "ResetApplied"} /\ e.paths = {p}
IsDirty(e, p) == e.kind \in {"DirtyStateChanged"} /\ e.paths = {p}

\* Those of a batch of payloads, and those of the buffer of a snapshot.
ValueIn(b, p) == {i \in 1 .. Len(b) : IsValue(b[i], p)}
DirtyIn(b, p) == {i \in 1 .. Len(b) : IsDirty(b[i], p)}

Payload(s, i) == s.event_bus.events[i].payload
ValueAt(s, p) == {i \in 1 .. Len(s.event_bus.events) : IsValue(Payload(s, i), p)}
DirtyAt(s, p) == {i \in 1 .. Len(s.event_bus.events) : IsDirty(Payload(s, i), p)}

Below(S, j) == {i \in S : i < j}

\* DirtyEventsAgree and ValueEventsChain of a snapshot.
DirtyTold(s) ==
    \A p \in Paths : \A i \in Latest(DirtyAt(s, p)) : Payload(s, i).dirty <=> p \in DirtyPaths(s)

ValuesTold(s) ==
    \A p \in Paths :
        /\ \A i \in Latest(ValueAt(s, p)) : Payload(s, i).new = EffectiveValue(s, p)
        /\ \A j \in ValueAt(s, p) : \A i \in Latest(Below(ValueAt(s, p), j)) :
              Payload(s, i).new = Payload(s, j).old

\* What a batch says of a path when it leads from s to u.
ValueMoves(s, b, u, p) ==
    /\ ValueIn(b, p) = {} => EffectiveValue(u, p) = EffectiveValue(s, p)
    /\ \A i \in Latest(ValueIn(b, p)) : b[i].new = EffectiveValue(u, p)
    /\ \A j \in ValueIn(b, p) :
          /\ Below(ValueIn(b, p), j) = {} => b[j].old = EffectiveValue(s, p)
          /\ \A i \in Latest(Below(ValueIn(b, p), j)) : b[i].new = b[j].old

DirtyMoves(s, b, u, p) ==
    /\ DirtyIn(b, p) = {} => (p \in DirtyPaths(u) <=> p \in DirtyPaths(s))
    /\ \A i \in DirtyIn(b, p) : b[i].dirty <=> p \in DirtyPaths(u)

BatchMoves(s, b, u) == \A p \in Paths : ValueMoves(s, b, u, p) /\ DirtyMoves(s, b, u, p)

(***************************************************************************)
(* Appending a batch and dropping the oldest events, as sets of positions: *)
(* X after it, O before it, B in the batch.                                *)
(***************************************************************************)
Merges(X, O, B, n, m, k) ==
    /\ X \subseteq 1 .. n + m - k /\ O \subseteq 1 .. n /\ B \subseteq 1 .. m
    /\ \A i \in 1 .. n + m - k : i + k <= n => (i \in X <=> i + k \in O)
    /\ \A i \in 1 .. n + m - k : i + k > n => (i \in X <=> i + k - n \in B)

LastOf(i, O, B, n, k) ==
    \/ i + k > n /\ i + k - n \in Latest(B)
    \/ i + k <= n /\ B = {} /\ i + k \in Latest(O)

LinkOf(i, j, O, B, n, k) ==
    \/ j + k <= n /\ j + k \in O /\ i + k \in Latest(Below(O, j + k))
    \/ i + k > n /\ j + k > n /\ j + k - n \in B /\ i + k - n \in Latest(Below(B, j + k - n))
    \/ i + k <= n /\ j + k > n /\ j + k - n \in B /\ i + k \in Latest(O)
         /\ Below(B, j + k - n) = {}

\* The last event is the last of the batch, or the last before a batch without
\* one.
LEMMA LastMerged ==
    ASSUME NEW n \in Nat, NEW m \in Nat, NEW k \in Nat, k <= n + m, NEW X, NEW O, NEW B,
           Merges(X, O, B, n, m, k), NEW i \in Latest(X)
    PROVE  LastOf(i, O, B, n, k)
<1>1. i \in 1 .. n + m - k /\ i \in X /\ i + k \in Nat
  BY DEF Merges, Latest
<1>2. ASSUME NEW j \in O, j > i + k PROVE FALSE
  <2>1. j - k \in 1 .. n + m - k /\ (j - k) + k <= n /\ (j - k) + k = j /\ ~ (j - k <= i)
    BY <1>1, <1>2 DEF Merges
  <2>2. j - k \in X
    BY <2>1 DEF Merges
  <2> QED
    BY <2>1, <2>2 DEF Latest
<1>3. ASSUME NEW j \in B, j > i + k - n PROVE FALSE
  <2>1. /\ j + n - k \in 1 .. n + m - k /\ (j + n - k) + k > n
        /\ (j + n - k) + k - n = j /\ ~ (j + n - k <= i)
    BY <1>1, <1>3 DEF Merges
  <2>2. j + n - k \in X
    BY <2>1 DEF Merges
  <2> QED
    BY <2>1, <2>2 DEF Latest
<1>4. CASE i + k > n
  <2>1. i + k - n \in B
    BY <1>1, <1>4 DEF Merges
  <2>2. \A j \in B : j <= i + k - n
    BY <1>1, <1>3 DEF Merges
  <2> QED
    BY <1>4, <2>1, <2>2 DEF LastOf, Latest
<1>5. CASE i + k <= n
  <2>1. i + k \in O
    BY <1>1, <1>5 DEF Merges
  <2>2. \A j \in O : j <= i + k
    BY <1>1, <1>2 DEF Merges
  <2>3. \A j \in B : j > i + k - n
    BY <1>1, <1>5 DEF Merges
  <2>4. B = {}
    BY <1>3, <2>3
  <2> QED
    BY <1>5, <2>1, <2>2, <2>4 DEF LastOf, Latest
<1> QED
  BY <1>1, <1>4, <1>5

\* The event before another: both old, both of the batch, or the last old one
\* before the first of the batch.
LEMMA LinkMerged ==
    ASSUME NEW n \in Nat, NEW m \in Nat, NEW k \in Nat, k <= n + m, NEW X, NEW O, NEW B,
           Merges(X, O, B, n, m, k), NEW j \in X, NEW i \in Latest(Below(X, j))
    PROVE  LinkOf(i, j, O, B, n, k)
<1> DEFINE Xj == Below(X, j)
           Oj == Below(O, j + k)
           Bj == Below(B, j + k - n)
<1>1. j \in 1 .. n + m - k /\ i \in Xj /\ i \in 1 .. n + m - k /\ i < j
  BY DEF Merges, Latest, Below
<1>2. Merges(Xj, Oj, Bj, n, m, k)
  <2>1. Xj \subseteq 1 .. n + m - k /\ Oj \subseteq 1 .. n /\ Bj \subseteq 1 .. m
    BY Zenon DEF Merges, Below
  <2>2. ASSUME NEW h \in 1 .. n + m - k, h + k <= n PROVE h \in Xj <=> h + k \in Oj
    <3>1. h \in X <=> h + k \in O
      BY <2>2 DEF Merges
    <3>2. h < j <=> h + k < j + k
      BY <1>1
    <3> QED
      BY <3>1, <3>2 DEF Below
  <2>3. ASSUME NEW h \in 1 .. n + m - k, h + k > n PROVE h \in Xj <=> h + k - n \in Bj
    <3>1. h \in X <=> h + k - n \in B
      BY <2>3 DEF Merges
    <3>2. h < j <=> h + k - n < j + k - n
      BY <1>1
    <3> QED
      BY <3>1, <3>2 DEF Below
  <2> QED
    BY <2>1, <2>2, <2>3 DEF Merges
<1>3. LastOf(i, Oj, Bj, n, k)
  <2> HIDE DEF Xj, Oj, Bj
  <2>1. i \in Latest(Xj)
    BY DEF Xj
  <2> QED
    BY <1>2, <2>1, LastMerged, Zenon
<1>4. CASE j + k <= n
  <2>1. j + k \in O
    BY <1>1, <1>4 DEF Merges
  <2>2. ~ i + k > n
    BY <1>1, <1>4
  <2> QED
    BY <1>3, <1>4, <2>1, <2>2 DEF LastOf, LinkOf
<1>5. CASE j + k > n
  <2>1. j + k - n \in B
    BY <1>1, <1>5 DEF Merges
  <2>2. \A h \in 1 .. n : h < j + k
    BY <1>1, <1>5
  <2>3. Oj = O
    BY <2>2, Zenon DEF Merges, Below
  <2> QED
    BY <1>3, <1>5, <2>1, <2>3 DEF LastOf, LinkOf
<1> QED
  BY <1>1, <1>4, <1>5

\* The payloads of a buffer of n events after a batch of m, without the k oldest.
Shifted(s, b, u, n, m, k) ==
    /\ n = Len(s.event_bus.events) /\ m = Len(b) /\ k <= n + m
    /\ Len(u.event_bus.events) = n + m - k
    /\ \A i \in 1 .. n + m - k : i + k <= n => Payload(u, i) = Payload(s, i + k)
    /\ \A i \in 1 .. n + m - k : i + k > n => Payload(u, i) = b[i + k - n]

\* A batch shifts the buffer like this.
LEMMA EmittedPayloads ==
    ASSUME NEW s, NEW u, s \in Snapshot, u \in Snapshot, NEW b \in Seq(EventPayload),
           Emitted(s, b, u)
    PROVE  \E n, m, k \in Nat : Shifted(s, b, u, n, m, k)
<1> DEFINE n == Len(s.event_bus.events)
           m == Len(b)
           k == Overflow(n + m)
<1>1. n \in Nat /\ m \in Nat
  BY LogTypes
<1>2. k \in Nat /\ k <= n + m
  <2>1. n + m \in Nat
    BY <1>1
  <2> QED
    BY <2>1, OverflowType, Zenon
<1>3. /\ Len(u.event_bus.events) = n + m - k
      /\ \A i \in 1 .. n + m - k : i + k <= n => u.event_bus.events[i] = s.event_bus.events[i + k]
      /\ \A i \in 1 .. n + m - k : i + k > n => u.event_bus.events[i].payload = b[i + k - n]
  BY Zenon DEF Emitted
<1> HIDE DEF n, m, k
<1>4. /\ \A i \in 1 .. n + m - k : i + k <= n => Payload(u, i) = Payload(s, i + k)
      /\ \A i \in 1 .. n + m - k : i + k > n => Payload(u, i) = b[i + k - n]
  BY <1>3, Zenon DEF Payload
<1>5. n = Len(s.event_bus.events) /\ m = Len(b)
  BY DEF n, m
<1>6. Shifted(s, b, u, n, m, k)
  BY <1>2, <1>3, <1>4, <1>5, Zenon DEF Shifted
<1> QED
  BY <1>1, <1>2, <1>6, Zenon

\* A batch that leads from s to u keeps the buffer true: what the last event of a
\* path says, and the chain of its value events.
LEMMA EmittedTells ==
    ASSUME NEW s, NEW u, s \in Snapshot, u \in Snapshot, NEW b \in Seq(EventPayload),
           Emitted(s, b, u), BatchMoves(s, b, u), DirtyTold(s), ValuesTold(s)
    PROVE  DirtyTold(u) /\ ValuesTold(u)
<1>0. PICK n \in Nat, m \in Nat, k \in Nat : Shifted(s, b, u, n, m, k)
  BY EmittedPayloads, Zenon
<1>1. /\ n = Len(s.event_bus.events) /\ m = Len(b) /\ k <= n + m
      /\ Len(u.event_bus.events) = n + m - k
      /\ \A i \in 1 .. n + m - k : i + k <= n => Payload(u, i) = Payload(s, i + k)
      /\ \A i \in 1 .. n + m - k : i + k > n => Payload(u, i) = b[i + k - n]
  BY <1>0, Zenon DEF Shifted
<1>2. ASSUME NEW i \in 1 .. n + m - k
      PROVE  /\ i + k <= n => i + k \in 1 .. n /\ Payload(u, i) = Payload(s, i + k)
             /\ i + k > n => i + k - n \in 1 .. m /\ Payload(u, i) = b[i + k - n]
  <2>1. (i + k <= n => i + k \in 1 .. n) /\ (i + k > n => i + k - n \in 1 .. m)
    OBVIOUS
  <2> QED
    BY <1>1, <2>1, Zenon
<1>3. ASSUME NEW p \in Paths
      PROVE  /\ Merges(DirtyAt(u, p), DirtyAt(s, p), DirtyIn(b, p), n, m, k)
             /\ Merges(ValueAt(u, p), ValueAt(s, p), ValueIn(b, p), n, m, k)
  <2>1. /\ DirtyAt(u, p) = {i \in 1 .. n + m - k : IsDirty(Payload(u, i), p)}
        /\ DirtyAt(s, p) = {i \in 1 .. n : IsDirty(Payload(s, i), p)}
        /\ DirtyIn(b, p) = {i \in 1 .. m : IsDirty(b[i], p)}
        /\ ValueAt(u, p) = {i \in 1 .. n + m - k : IsValue(Payload(u, i), p)}
        /\ ValueAt(s, p) = {i \in 1 .. n : IsValue(Payload(s, i), p)}
        /\ ValueIn(b, p) = {i \in 1 .. m : IsValue(b[i], p)}
    BY <1>1 DEF DirtyAt, DirtyIn, ValueAt, ValueIn
  <2> QED
    BY <1>2, <2>1, Zenon DEF Merges
<1>4. ASSUME NEW p \in Paths, NEW i \in Latest(DirtyAt(u, p))
      PROVE  Payload(u, i).dirty <=> p \in DirtyPaths(u)
  <2>1. LastOf(i, DirtyAt(s, p), DirtyIn(b, p), n, k)
    BY <1>1, <1>3, LastMerged, Zenon
  <2>2. i \in 1 .. n + m - k
    BY <1>1 DEF Latest, DirtyAt
  <2>3. DirtyMoves(s, b, u, p)
    BY DEF BatchMoves
  <2>4. CASE i + k > n /\ i + k - n \in Latest(DirtyIn(b, p))
    <3>1. i + k - n \in DirtyIn(b, p) /\ Payload(u, i) = b[i + k - n]
      BY <1>2, <2>2, <2>4, Zenon DEF Latest
    <3> QED
      BY <2>3, <3>1, Zenon DEF DirtyMoves
  <2>5. CASE i + k <= n /\ DirtyIn(b, p) = {} /\ i + k \in Latest(DirtyAt(s, p))
    <3>1. Payload(u, i) = Payload(s, i + k)
      BY <1>2, <2>2, <2>5, Zenon
    <3> QED
      BY <2>3, <2>5, <3>1, Zenon DEF DirtyMoves, DirtyTold
  <2> QED
    BY <2>1, <2>4, <2>5, Zenon DEF LastOf
<1>5. ASSUME NEW p \in Paths, NEW i \in Latest(ValueAt(u, p))
      PROVE  Payload(u, i).new = EffectiveValue(u, p)
  <2>1. LastOf(i, ValueAt(s, p), ValueIn(b, p), n, k)
    BY <1>1, <1>3, LastMerged, Zenon
  <2>2. i \in 1 .. n + m - k
    BY <1>1 DEF Latest, ValueAt
  <2>3. ValueMoves(s, b, u, p)
    BY DEF BatchMoves
  <2>4. CASE i + k > n /\ i + k - n \in Latest(ValueIn(b, p))
    BY <1>2, <2>2, <2>3, <2>4, Zenon DEF ValueMoves
  <2>5. CASE i + k <= n /\ ValueIn(b, p) = {} /\ i + k \in Latest(ValueAt(s, p))
    BY <1>2, <2>2, <2>3, <2>5, Zenon DEF ValueMoves, ValuesTold
  <2> QED
    BY <2>1, <2>4, <2>5, Zenon DEF LastOf
<1>6. ASSUME NEW p \in Paths, NEW j \in ValueAt(u, p), NEW i \in Latest(Below(ValueAt(u, p), j))
      PROVE  Payload(u, i).new = Payload(u, j).old
  <2>1. LinkOf(i, j, ValueAt(s, p), ValueIn(b, p), n, k)
    BY <1>1, <1>3, LinkMerged, Zenon
  <2>2. i \in 1 .. n + m - k /\ j \in 1 .. n + m - k /\ i < j
    BY <1>1 DEF Latest, ValueAt, Below
  <2>3. ValueMoves(s, b, u, p)
    BY DEF BatchMoves
  <2>4. CASE /\ j + k <= n /\ j + k \in ValueAt(s, p)
             /\ i + k \in Latest(Below(ValueAt(s, p), j + k))
    <3>1. i + k <= n
      BY <2>2, <2>4
    <3> QED
      BY <1>2, <2>2, <2>4, <3>1, Zenon DEF ValuesTold
  <2>5. CASE /\ i + k > n /\ j + k > n /\ j + k - n \in ValueIn(b, p)
             /\ i + k - n \in Latest(Below(ValueIn(b, p), j + k - n))
    BY <1>2, <2>2, <2>3, <2>5, Zenon DEF ValueMoves
  <2>6. CASE /\ i + k <= n /\ j + k > n /\ j + k - n \in ValueIn(b, p)
             /\ i + k \in Latest(ValueAt(s, p)) /\ Below(ValueIn(b, p), j + k - n) = {}
    BY <1>2, <2>2, <2>3, <2>6, Zenon DEF ValueMoves, ValuesTold
  <2> QED
    BY <2>1, <2>4, <2>5, <2>6, Zenon DEF LinkOf
<1> QED
  BY <1>4, <1>5, <1>6 DEF DirtyTold, ValuesTold

(***************************************************************************)
(* Sequences that list a set, each element once.                           *)
(***************************************************************************)
Lists(q, S) ==
    /\ q \in Seq(S) /\ Len(q) \in Nat
    /\ \A i \in 1 .. Len(q) : q[i] \in S
    /\ \A x \in S : \E i \in 1 .. Len(q) : q[i] = x
    /\ \A i, j \in 1 .. Len(q) : q[i] = q[j] => i = j

(***************************************************************************)
(* Batches with at most one value event per path.                          *)
(***************************************************************************)
Telling == {"ParameterChanged", "ResetApplied", "DirtyStateChanged"}

OneEach(s, b, u) ==
    \A p \in Paths :
        /\ \A i, j \in ValueIn(b, p) : i = j
        /\ \A i \in ValueIn(b, p) : b[i].old = EffectiveValue(s, p) /\ b[i].new = EffectiveValue(u, p)
        /\ ValueIn(b, p) = {} => EffectiveValue(u, p) = EffectiveValue(s, p)
        /\ DirtyMoves(s, b, u, p)

\* Such a batch leads from s to u.
LEMMA OneEachMoves ==
    ASSUME NEW s, NEW b, NEW u, OneEach(s, b, u)
    PROVE  BatchMoves(s, b, u)
<1> SUFFICES ASSUME NEW p \in Paths PROVE ValueMoves(s, b, u, p) /\ DirtyMoves(s, b, u, p)
  BY DEF BatchMoves
<1>1. \A j \in ValueIn(b, p) : Below(ValueIn(b, p), j) = {}
  <2>1. ASSUME NEW j \in ValueIn(b, p), NEW i \in ValueIn(b, p), i < j PROVE FALSE
    <3>1. i = j /\ j \in Int
      BY DEF OneEach, ValueIn
    <3> QED
      BY <2>1, <3>1
  <2> QED
    BY <2>1, Zenon DEF Below
<1>2. Latest({}) = {} /\ \A i \in Latest(ValueIn(b, p)) : i \in ValueIn(b, p)
  BY DEF Latest
<1> QED
  BY <1>1, <1>2, Zenon DEF OneEach, ValueMoves

\* The fields of the events about one path.
ResetPayload(e, s, p) ==
    /\ e.kind = "ResetApplied" /\ e.paths = {p}
    /\ e.old = s.dirty_overlay[p] /\ e.new = CommittedValue(s, p)
ChangePayload(e, p, old, new) ==
    e.kind = "ParameterChanged" /\ e.paths = {p} /\ e.old = old /\ e.new = new
DirtyPayload(e, p, d) ==
    e.kind = "DirtyStateChanged" /\ e.paths = {p} /\ (e.dirty <=> d)

\* The events have these fields.
LEMMA EventFields ==
    /\ \A s, p : ResetPayload(ResetEvent(s, p), s, p)
    /\ \A s, p : DirtyPayload(ClearedEvent(s, p), p, FALSE)
    /\ \A p, g, old, new : ChangePayload(ChangeEvent(p, g, old, new), p, old, new)
    /\ \A p, g : DirtyPayload(DirtyEvent(p, g, TRUE), p, TRUE)
BY DEF ResetPayload, ChangePayload, DirtyPayload, ResetEvent, ChangeEvent, DirtyEvent,
       ClearedEvent, Event

\* A batch without events about a path leads from a snapshot to one with the
\* same values.
LEMMA QuietMoves ==
    ASSUME NEW s, NEW b, NEW u, \A i \in 1 .. Len(b) : b[i].kind \notin Telling, SameValues(s, u)
    PROVE  BatchMoves(s, b, u)
<1> SUFFICES ASSUME NEW p \in Paths PROVE ValueMoves(s, b, u, p) /\ DirtyMoves(s, b, u, p)
  BY DEF BatchMoves
<1>1. ValueIn(b, p) = {} /\ DirtyIn(b, p) = {} /\ Latest({}) = {}
  BY DEF ValueIn, DirtyIn, IsValue, IsDirty, Telling, Latest
<1>2. EffectiveValue(u, p) = EffectiveValue(s, p) /\ (p \in DirtyPaths(u) <=> p \in DirtyPaths(s))
  BY DEF SameValues, EffectiveValue, CommittedValue, DirtyPaths
<1> QED
  BY <1>1, <1>2, Zenon DEF ValueMoves, DirtyMoves

\* A batch that takes back the overrides of ps: two events per path, in any order
\* and among events about no path.
TakesBack(s, b, ps) ==
    /\ \A i \in 1 .. Len(b) :
          \/ b[i].kind \notin Telling
          \/ \E p \in ps : b[i] = ResetEvent(s, p) \/ b[i] = ClearedEvent(s, p)
    /\ \A p \in ps : \E i \in 1 .. Len(b) : b[i] = ResetEvent(s, p)
    /\ \A p \in ps : \E i \in 1 .. Len(b) : b[i] = ClearedEvent(s, p)
    /\ \A p \in ps : \A i, j \in 1 .. Len(b) :
          b[i] = ResetEvent(s, p) /\ b[j] = ResetEvent(s, p) => i = j

\* Such a batch leads to the snapshot without the overrides.
LEMMA TakesBackMoves ==
    ASSUME NEW s, NEW u, NEW b, NEW ps \in SUBSET DirtyPaths(s), TakesBack(s, b, ps),
           u.committed_overlay = s.committed_overlay,
           u.dirty_overlay = [p \in Paths |-> IF p \in ps THEN NoValue ELSE s.dirty_overlay[p]]
    PROVE  BatchMoves(s, b, u)
<1> SUFFICES ASSUME NEW p \in Paths
             PROVE  /\ \A i, j \in ValueIn(b, p) : i = j
                    /\ \A i \in ValueIn(b, p) : /\ b[i].old = EffectiveValue(s, p)
                                                /\ b[i].new = EffectiveValue(u, p)
                    /\ ValueIn(b, p) = {} => EffectiveValue(u, p) = EffectiveValue(s, p)
                    /\ DirtyMoves(s, b, u, p)
  BY OneEachMoves DEF OneEach
<1>1. ASSUME NEW i \in ValueIn(b, p) PROVE p \in ps /\ b[i] = ResetEvent(s, p) /\ i \in 1 .. Len(b)
  <2>1. i \in 1 .. Len(b) /\ b[i].kind \in {"ParameterChanged", "ResetApplied"} /\ b[i].paths = {p}
    BY DEF ValueIn, IsValue
  <2>2. PICK x \in ps : b[i] = ResetEvent(s, x) \/ b[i] = ClearedEvent(s, x)
    BY <2>1 DEF TakesBack, Telling
  <2>3. ResetPayload(ResetEvent(s, x), s, x) /\ DirtyPayload(ClearedEvent(s, x), x, FALSE)
    BY EventFields, Zenon
  <2>4. b[i] = ResetEvent(s, x) /\ x = p
    BY <2>1, <2>2, <2>3, Zenon DEF ResetPayload, DirtyPayload
  <2> QED
    BY <2>1, <2>2, <2>4
<1>2. ASSUME NEW i \in DirtyIn(b, p) PROVE p \in ps /\ ~ b[i].dirty
  <2>1. i \in 1 .. Len(b) /\ b[i].kind = "DirtyStateChanged" /\ b[i].paths = {p}
    BY DEF DirtyIn, IsDirty
  <2>2. PICK x \in ps : b[i] = ResetEvent(s, x) \/ b[i] = ClearedEvent(s, x)
    BY <2>1 DEF TakesBack, Telling
  <2>3. ResetPayload(ResetEvent(s, x), s, x) /\ DirtyPayload(ClearedEvent(s, x), x, FALSE)
    BY EventFields, Zenon
  <2>4. b[i] = ClearedEvent(s, x) /\ x = p
    BY <2>1, <2>2, <2>3 DEF ResetPayload, DirtyPayload
  <2> QED
    BY <2>2, <2>3, <2>4, Zenon DEF DirtyPayload
<1>3. ASSUME p \in ps PROVE ValueIn(b, p) # {} /\ DirtyIn(b, p) # {}
  <2>1. PICK i \in 1 .. Len(b) : b[i] = ResetEvent(s, p)
    BY <1>3 DEF TakesBack
  <2>2. PICK j \in 1 .. Len(b) : b[j] = ClearedEvent(s, p)
    BY <1>3 DEF TakesBack
  <2>3. i \in ValueIn(b, p)
    BY <2>1, EventFields DEF ValueIn, IsValue, ResetPayload
  <2>4. j \in DirtyIn(b, p)
    BY <2>2, EventFields DEF DirtyIn, IsDirty, DirtyPayload
  <2> QED
    BY <2>3, <2>4
<1>4. CommittedValue(u, p) = CommittedValue(s, p)
  BY DEF CommittedValue
<1>5. ASSUME p \in ps
      PROVE  /\ EffectiveValue(s, p) = s.dirty_overlay[p]
             /\ EffectiveValue(u, p) = CommittedValue(s, p) /\ p \notin DirtyPaths(u)
  BY <1>4, <1>5 DEF EffectiveValue, DirtyPaths
<1>6. ASSUME p \notin ps
      PROVE  /\ EffectiveValue(u, p) = EffectiveValue(s, p)
             /\ p \in DirtyPaths(u) <=> p \in DirtyPaths(s)
  BY <1>4, <1>6 DEF EffectiveValue, DirtyPaths
<1>7. \A i, j \in ValueIn(b, p) : i = j
  BY <1>1, Zenon DEF TakesBack
<1>8. ASSUME NEW i \in ValueIn(b, p)
      PROVE  b[i].old = EffectiveValue(s, p) /\ b[i].new = EffectiveValue(u, p)
  <2>1. /\ ResetEvent(s, p).old = s.dirty_overlay[p]
        /\ ResetEvent(s, p).new = CommittedValue(s, p)
    BY EventFields, Zenon DEF ResetPayload
  <2> QED
    BY <1>1, <1>5, <2>1
<1>9. ValueIn(b, p) = {} => EffectiveValue(u, p) = EffectiveValue(s, p)
  BY <1>3, <1>6
<1>10. DirtyMoves(s, b, u, p)
  BY <1>2, <1>3, <1>5, <1>6, Zenon DEF DirtyMoves
<1> QED
  BY <1>7, <1>8, <1>9, <1>10

\* Two events per element of a list: the odd one and the even one of element k.
LEMMA Halves ==
    ASSUME NEW n \in Nat
    PROVE  /\ \A i \in 1 .. 2 * n : (i + 1) \div 2 \in 1 .. n
           /\ \A i \in 1 .. 2 * n : i % 2 # 1 => i \div 2 \in 1 .. n /\ i \div 2 = (i + 1) \div 2
           /\ \A k \in 1 .. n : 2 * k - 1 \in 1 .. 2 * n /\ (2 * k - 1) % 2 = 1
                                /\ ((2 * k - 1) + 1) \div 2 = k
           /\ \A k \in 1 .. n : 2 * k \in 1 .. 2 * n /\ (2 * k) % 2 # 1
                                /\ (2 * k) \div 2 = k /\ (2 * k + 1) \div 2 = k
           /\ \A i \in 1 .. 2 * n : i % 2 = 1 => i = 2 * ((i + 1) \div 2) - 1
           /\ \A i \in 1 .. 2 * n : i % 2 # 1 => i = 2 * ((i + 1) \div 2)
OBVIOUS

\* The two positions of a pair.
LEMMA Doubles ==
    ASSUME NEW n \in Nat, NEW k \in 1 .. n
    PROVE  /\ 2 * k \in 1 .. 2 * n /\ (2 * k) % 2 # 1 /\ (2 * k) % 2 = 0 /\ (2 * k + 1) \div 2 = k
           /\ 2 * k - 1 \in 1 .. 2 * n /\ (2 * k - 1) % 2 = 1 /\ ((2 * k - 1) + 1) \div 2 = k
OBVIOUS

(***************************************************************************)
(* A pull.                                                                 *)
(***************************************************************************)
PullChange(s, w) ==
    ChangeEvent(w.path, NormalizedGeneration(s, w.path), EffectiveValue(s, w.path), w.value)

\* A batch that reports the writes W of a pull: a change per write, and a clear
\* per write to a dirty path, among events about no path.
Reports(s, b, W) ==
    /\ \A i \in 1 .. Len(b) :
          \/ b[i].kind \notin Telling
          \/ \E w \in W : \/ b[i] = PullChange(s, w)
                          \/ w.path \in DirtyPaths(s) /\ b[i] = ClearedEvent(s, w.path)
    /\ \A w \in W : \E i \in 1 .. Len(b) : b[i] = PullChange(s, w)
    /\ \A w \in W : w.path \in DirtyPaths(s) =>
                      \E i \in 1 .. Len(b) : b[i] = ClearedEvent(s, w.path)
    /\ \A w \in W : \A i, j \in 1 .. Len(b) :
          b[i] = PullChange(s, w) /\ b[j] = PullChange(s, w) => i = j

\* d with h events about no path before it, and some after it.
Framed(b, d, h) ==
    /\ h \in Nat /\ Len(b) \in Nat /\ Len(d) \in Nat /\ h + Len(d) <= Len(b)
    /\ \A i \in 1 .. Len(d) : b[i + h] = d[i]
    /\ \A i \in 1 .. Len(b) : i <= h \/ i > h + Len(d) => b[i].kind \notin Telling

\* The frame says nothing of a path.
LEMMA FramedReports ==
    ASSUME NEW s, NEW b, NEW d, NEW h, NEW W, Framed(b, d, h), Reports(s, d, W)
    PROVE  Reports(s, b, W)
<1>1. h \in Nat /\ Len(b) \in Nat /\ Len(d) \in Nat /\ h + Len(d) <= Len(b)
  BY DEF Framed
<1>2. ASSUME NEW i \in 1 .. Len(b), b[i].kind \in Telling
      PROVE  i - h \in 1 .. Len(d) /\ b[i] = d[i - h]
  <2>1. i > h /\ i <= h + Len(d)
    BY <1>1, <1>2 DEF Framed
  <2>2. i - h \in 1 .. Len(d) /\ (i - h) + h = i
    BY <1>1, <2>1
  <2> QED
    BY <2>2 DEF Framed
<1>3. ASSUME NEW i \in 1 .. Len(d) PROVE i + h \in 1 .. Len(b) /\ b[i + h] = d[i]
  BY <1>1 DEF Framed
<1>4. ASSUME NEW w \in W PROVE PullChange(s, w).kind \in Telling
  BY DEF PullChange, ChangeEvent, Event, Telling
<1>5. ASSUME NEW i \in 1 .. Len(b), b[i].kind \in Telling
      PROVE  \E w \in W : \/ b[i] = PullChange(s, w)
                          \/ w.path \in DirtyPaths(s) /\ b[i] = ClearedEvent(s, w.path)
  BY <1>2, <1>5, ZenonT(30) DEF Reports
<1>6. ASSUME NEW w \in W PROVE \E i \in 1 .. Len(b) : b[i] = PullChange(s, w)
  BY <1>3, Zenon DEF Reports
<1>7. ASSUME NEW w \in W, w.path \in DirtyPaths(s)
      PROVE  \E i \in 1 .. Len(b) : b[i] = ClearedEvent(s, w.path)
  BY <1>3, <1>7, Zenon DEF Reports
<1>8. ASSUME NEW w \in W, NEW i \in 1 .. Len(b), NEW j \in 1 .. Len(b),
             b[i] = PullChange(s, w), b[j] = PullChange(s, w)
      PROVE  i = j
  <2>1. b[i].kind \in Telling /\ b[j].kind \in Telling
    BY <1>4, <1>8
  <2>2. i - h = j - h
    <3>1. i - h \in 1 .. Len(d) /\ b[i] = d[i - h]
      BY <1>2, <2>1, Zenon
    <3>2. j - h \in 1 .. Len(d) /\ b[j] = d[j - h]
      BY <1>2, <2>1, Zenon
    <3>3. d[i - h] = PullChange(s, w) /\ d[j - h] = PullChange(s, w)
      BY <1>8, <3>1, <3>2, Zenon
    <3> QED
      BY <3>1, <3>2, <3>3, Zenon DEF Reports
  <2> QED
    BY <1>1, <2>2
<1> QED
  BY <1>5, <1>6, <1>7, <1>8, Zenon DEF Reports

\* Such a batch leads to the snapshot with the written values committed.
LEMMA ReportsMoves ==
    ASSUME NEW s, NEW u, NEW b, NEW W, Reports(s, b, W),
           \A w \in W : w.path \in Paths /\ EffectiveValue(u, w.path) = w.value
                          /\ w.path \notin DirtyPaths(u),
           \A v, w \in W : v.path = w.path => v = w,
           \A p \in Paths : (\A w \in W : w.path # p) =>
              /\ EffectiveValue(u, p) = EffectiveValue(s, p)
              /\ p \in DirtyPaths(u) <=> p \in DirtyPaths(s)
    PROVE  BatchMoves(s, b, u)
<1> SUFFICES ASSUME NEW p \in Paths
             PROVE  /\ \A i, j \in ValueIn(b, p) : i = j
                    /\ \A i \in ValueIn(b, p) : /\ b[i].old = EffectiveValue(s, p)
                                                /\ b[i].new = EffectiveValue(u, p)
                    /\ ValueIn(b, p) = {} => EffectiveValue(u, p) = EffectiveValue(s, p)
                    /\ DirtyMoves(s, b, u, p)
  BY OneEachMoves, Zenon DEF OneEach
<1>0. ASSUME NEW w \in W
      PROVE  /\ ChangePayload(PullChange(s, w), w.path, EffectiveValue(s, w.path), w.value)
             /\ DirtyPayload(ClearedEvent(s, w.path), w.path, FALSE)
  BY EventFields, Zenon DEF PullChange
<1>1. ASSUME NEW i \in ValueIn(b, p)
      PROVE  i \in 1 .. Len(b) /\ \E w \in W : w.path = p /\ b[i] = PullChange(s, w)
  <2>1. i \in 1 .. Len(b) /\ b[i].kind \in {"ParameterChanged", "ResetApplied"} /\ b[i].paths = {p}
    BY DEF ValueIn, IsValue
  <2>2. PICK w \in W : b[i] = PullChange(s, w) \/ b[i] = ClearedEvent(s, w.path)
    BY <2>1, Zenon DEF Reports, Telling
  <2>3. b[i] = PullChange(s, w) /\ w.path = p
    BY <1>0, <2>1, <2>2 DEF ChangePayload, DirtyPayload
  <2> QED
    BY <2>1, <2>3
<1>2. ASSUME NEW i \in DirtyIn(b, p) PROVE ~ b[i].dirty /\ \E w \in W : w.path = p
  <2>1. i \in 1 .. Len(b) /\ b[i].kind = "DirtyStateChanged" /\ b[i].paths = {p}
    BY DEF DirtyIn, IsDirty
  <2>2. PICK w \in W : b[i] = PullChange(s, w) \/ b[i] = ClearedEvent(s, w.path)
    BY <2>1, Zenon DEF Reports, Telling
  <2>3. b[i] = ClearedEvent(s, w.path) /\ w.path = p
    BY <1>0, <2>1, <2>2 DEF ChangePayload, DirtyPayload
  <2> QED
    BY <1>0, <2>2, <2>3, Zenon DEF DirtyPayload
<1>3. ASSUME NEW w \in W, w.path = p PROVE ValueIn(b, p) # {}
  <2>1. PICK i \in 1 .. Len(b) : b[i] = PullChange(s, w)
    BY DEF Reports
  <2>2. b[i].kind = "ParameterChanged" /\ b[i].paths = {p}
    BY <1>0, <1>3, <2>1, Zenon DEF ChangePayload
  <2>3. i \in ValueIn(b, p)
    BY <2>2 DEF ValueIn, IsValue
  <2> QED
    BY <2>3
<1>4. ASSUME NEW w \in W, w.path = p, p \in DirtyPaths(s) PROVE DirtyIn(b, p) # {}
  <2>1. PICK i \in 1 .. Len(b) : b[i] = ClearedEvent(s, w.path)
    BY <1>4 DEF Reports
  <2> QED
    BY <1>0, <1>4, <2>1 DEF DirtyIn, IsDirty, DirtyPayload
<1>5. \A i, j \in ValueIn(b, p) : i = j
  <2> SUFFICES ASSUME NEW i \in ValueIn(b, p), NEW j \in ValueIn(b, p) PROVE i = j
    OBVIOUS
  <2>1. PICK w \in W : w.path = p /\ b[i] = PullChange(s, w)
    BY <1>1
  <2>2. PICK v \in W : v.path = p /\ b[j] = PullChange(s, v)
    BY <1>1
  <2>3. v = w
    BY <2>1, <2>2
  <2> QED
    BY <1>1, <2>1, <2>2, <2>3, Zenon DEF Reports
<1>6. ASSUME NEW i \in ValueIn(b, p)
      PROVE  b[i].old = EffectiveValue(s, p) /\ b[i].new = EffectiveValue(u, p)
  <2>1. PICK w \in W : w.path = p /\ b[i] = PullChange(s, w)
    BY <1>1
  <2>2. b[i].old = EffectiveValue(s, w.path) /\ b[i].new = w.value
    BY <1>0, <2>1, Zenon DEF ChangePayload
  <2> QED
    BY <2>1, <2>2
<1>7. ValueIn(b, p) = {} => EffectiveValue(u, p) = EffectiveValue(s, p)
  BY <1>3
<1>8. DirtyMoves(s, b, u, p)
  <2>1. CASE \E w \in W : w.path = p
    BY <1>2, <1>4, <2>1, Zenon DEF DirtyMoves
  <2>2. CASE ~ \E w \in W : w.path = p
    BY <1>2, <2>2, Zenon DEF DirtyMoves
  <2> QED
    BY <2>1, <2>2
<1> QED
  BY <1>5, <1>6, <1>7, <1>8, Zenon

\* Events about no path.
QuietSeq(a) == a \in Seq(EventPayload) /\ \A i \in 1 .. Len(a) : a[i].kind \notin Telling

\* Such events one after the other, before other events, and after them.
LEMMA Frames ==
    /\ \A a, c : QuietSeq(a) /\ QuietSeq(c) => QuietSeq(a \o c)
    /\ \A a, d : QuietSeq(a) /\ d \in Seq(EventPayload) => Framed(a \o d, d, Len(a))
    /\ \A b, d, h, a : Framed(b, d, h) /\ b \in Seq(EventPayload) /\ QuietSeq(a)
                         => Framed(b \o a, d, h)
<1>1. ASSUME NEW a \in Seq(EventPayload), NEW c \in Seq(EventPayload)
      PROVE  /\ a \o c \in Seq(EventPayload) /\ Len(a \o c) = Len(a) + Len(c)
             /\ Len(a) \in Nat /\ Len(c) \in Nat
             /\ \A i \in 1 .. Len(a) : (a \o c)[i] = a[i]
             /\ \A i \in 1 .. Len(c) : (a \o c)[i + Len(a)] = c[i]
  <2>1. /\ a \o c \in Seq(EventPayload) /\ Len(a \o c) = Len(a) + Len(c)
        /\ Len(a) \in Nat /\ Len(c) \in Nat
    OBVIOUS
  <2>2. \A i \in 1 .. Len(a) : (a \o c)[i] = a[i]
    OBVIOUS
  <2>3. ASSUME NEW i \in 1 .. Len(c) PROVE (a \o c)[i + Len(a)] = c[i]
    <3>1. i + Len(a) \in 1 .. Len(a) + Len(c) /\ ~ (i + Len(a) <= Len(a)) /\ (i + Len(a)) - Len(a) = i
      BY <2>1
    <3> QED
      BY <2>1, <3>1
  <2> QED
    BY <2>1, <2>2, <2>3
<1>2. ASSUME NEW a \in Seq(EventPayload), NEW c \in Seq(EventPayload), NEW i \in 1 .. Len(a \o c)
      PROVE  \/ i \in 1 .. Len(a) /\ (a \o c)[i] = a[i]
             \/ i > Len(a) /\ i - Len(a) \in 1 .. Len(c) /\ (a \o c)[i] = c[i - Len(a)]
  <2>1. Len(a \o c) = Len(a) + Len(c) /\ Len(a) \in Nat /\ Len(c) \in Nat
    BY <1>1
  <2>2. \/ i \in 1 .. Len(a)
        \/ i > Len(a) /\ i - Len(a) \in 1 .. Len(c) /\ (i - Len(a)) + Len(a) = i
    BY <2>1
  <2> QED
    BY <1>1, <2>2
<1>3. ASSUME NEW a, NEW c, QuietSeq(a), QuietSeq(c) PROVE QuietSeq(a \o c)
  <2>1. /\ a \in Seq(EventPayload) /\ \A i \in 1 .. Len(a) : a[i].kind \notin Telling
        /\ c \in Seq(EventPayload) /\ \A i \in 1 .. Len(c) : c[i].kind \notin Telling
    BY <1>3 DEF QuietSeq
  <2>2. ASSUME NEW i \in 1 .. Len(a \o c) PROVE (a \o c)[i].kind \notin Telling
    <3>1. \/ i \in 1 .. Len(a) /\ (a \o c)[i] = a[i]
          \/ i - Len(a) \in 1 .. Len(c) /\ (a \o c)[i] = c[i - Len(a)]
      BY <1>2, <2>1, Zenon
    <3> QED
      BY <2>1, <3>1, Zenon
  <2>3. a \o c \in Seq(EventPayload)
    BY <2>1
  <2> QED
    BY <2>2, <2>3 DEF QuietSeq
<1>4. ASSUME NEW a, NEW d, QuietSeq(a), d \in Seq(EventPayload) PROVE Framed(a \o d, d, Len(a))
  <2>1. a \in Seq(EventPayload) /\ \A i \in 1 .. Len(a) : a[i].kind \notin Telling
    BY <1>4 DEF QuietSeq
  <2>2. /\ Len(a \o d) = Len(a) + Len(d) /\ Len(a) \in Nat /\ Len(d) \in Nat
        /\ \A i \in 1 .. Len(d) : (a \o d)[i + Len(a)] = d[i]
    BY <1>1, <1>4, <2>1
  <2>3. ASSUME NEW i \in 1 .. Len(a \o d), i <= Len(a) \/ i > Len(a) + Len(d)
        PROVE  (a \o d)[i].kind \notin Telling
    <3>1. i \in 1 .. Len(a)
      BY <2>2, <2>3
    <3>2. ~ (i > Len(a))
      BY <2>2, <3>1
    <3> QED
      BY <1>2, <1>4, <2>1, <3>2, Zenon
  <2>4. Len(a \o d) \in Nat /\ Len(a) + Len(d) <= Len(a \o d)
    BY <2>2
  <2> QED
    BY <2>2, <2>3, <2>4, Zenon DEF Framed
<1>5. ASSUME NEW b, NEW d, NEW h, NEW a, Framed(b, d, h), b \in Seq(EventPayload), QuietSeq(a)
      PROVE  Framed(b \o a, d, h)
  <2>1. a \in Seq(EventPayload) /\ \A i \in 1 .. Len(a) : a[i].kind \notin Telling
    BY <1>5 DEF QuietSeq
  <2>2. /\ Len(b \o a) = Len(b) + Len(a) /\ Len(b) \in Nat /\ Len(a) \in Nat
        /\ \A i \in 1 .. Len(b) : (b \o a)[i] = b[i]
    BY <1>1, <1>5, <2>1
  <2>3. /\ h \in Nat /\ Len(d) \in Nat /\ h + Len(d) <= Len(b)
        /\ \A i \in 1 .. Len(d) : b[i + h] = d[i]
        /\ \A i \in 1 .. Len(b) : i <= h \/ i > h + Len(d) => b[i].kind \notin Telling
    BY <1>5 DEF Framed
  <2>4. ASSUME NEW i \in 1 .. Len(d) PROVE (b \o a)[i + h] = d[i]
    <3>1. i + h \in 1 .. Len(b)
      BY <2>2, <2>3
    <3> QED
      BY <2>2, <2>3, <3>1, Zenon
  <2>5. ASSUME NEW i \in 1 .. Len(b \o a), i <= h \/ i > h + Len(d)
        PROVE  (b \o a)[i].kind \notin Telling
    BY <1>2, <1>5, <2>1, <2>3, <2>5, ZenonT(30)
  <2>6. Len(b \o a) \in Nat /\ h + Len(d) <= Len(b \o a)
    BY <2>2, <2>3
  <2> QED
    BY <2>3, <2>4, <2>5, <2>6, Zenon DEF Framed
<1> QED
  BY <1>3, <1>4, <1>5, Zenon

(***************************************************************************)
(* A list of writes.                                                       *)
(***************************************************************************)
\* The last write to a path, and the writes before another one.
LEMMA LastWriteIs ==
    ASSUME NEW v, NEW p, NEW k \in WritesTo(v, p), \A j \in WritesTo(v, p) : j <= k
    PROVE  LastWriteTo(v, p) = k
<1> DEFINE S == WritesTo(v, p)
<1>1. \A j \in S : j \in Int
  BY DEF WritesTo
<1>2. LastWriteTo(v, p) = CHOOSE x \in S : \A j \in S : j <= x
  BY DEF LastWriteTo
<1> HIDE DEF S
<1>3. \A x \in S : (\A j \in S : j <= x) => x = k
  BY <1>1 DEF S
<1>4. k \in S /\ \A j \in S : j <= k
  BY DEF S
<1>5. \E x \in S : \A j \in S : j <= x
  BY <1>4
<1> QED
  BY <1>2, <1>3, <1>5, Zenon

\* The two events of each write.
WriteChange(s, w, k, e) == ChangePayload(e, w[k].path, ValueBefore(s, w, k), w[k].value)

(***************************************************************************)
(* The buffer of a session, and the batches its operations emit.           *)
(***************************************************************************)
Told(s) == DirtyTold(s) /\ ValuesTold(s)

\* A step without events that changes no value keeps the buffer true.
LEMMA SilentTells ==
    ASSUME NEW s, NEW u, u.event_bus = s.event_bus, SameValues(s, u), Told(s)
    PROVE  Told(u)
<1>1. \A i : Payload(u, i) = Payload(s, i)
  BY DEF Payload
<1>2. \A p \in Paths : DirtyAt(u, p) = DirtyAt(s, p) /\ ValueAt(u, p) = ValueAt(s, p)
  BY DEF DirtyAt, ValueAt, Payload
<1>3. ASSUME NEW p \in Paths
      PROVE  /\ EffectiveValue(u, p) = EffectiveValue(s, p)
             /\ p \in DirtyPaths(u) <=> p \in DirtyPaths(s)
  BY DEF SameValues, EffectiveValue, CommittedValue, DirtyPaths
<1>4. DirtyTold(u)
  BY <1>1, <1>2, <1>3, Zenon DEF Told, DirtyTold
<1>5. ValuesTold(u)
  BY <1>1, <1>2, <1>3, ZenonT(30) DEF Told, ValuesTold
<1> QED
  BY <1>4, <1>5 DEF Told

Array(e, m) == m \in Nat /\ e = [i \in 1 .. m |-> e[i]]
Extended(b, e, m, z) == Len(b) = m + 1 /\ (\A i \in 1 .. m : b[i] = e[i]) /\ b[m + 1] = z

\* An array of events and one more at its end.
LEMMA OneAfter ==
    ASSUME NEW m, NEW e, Array(e, m), NEW z
    PROVE  Extended(e \o <<z>>, e, m, z)
<1> DEFINE S == {e[i] : i \in 1 .. m} \cup {z}
<1>1. z \in S /\ \A i \in 1 .. m : e[i] \in S
  OBVIOUS
<1> HIDE DEF S
<1>2. m \in Nat /\ e \in [1 .. m -> S]
  BY <1>1 DEF Array
<1>3. e \in Seq(S) /\ Len(e) = m /\ <<z>> \in Seq(S) /\ Len(<<z>>) = 1 /\ <<z>>[1] = z
  BY <1>1, <1>2
<1>4. Len(e \o <<z>>) = m + 1 /\ \A i \in 1 .. m : (e \o <<z>>)[i] = e[i]
  BY <1>2, <1>3
<1>5. (e \o <<z>>)[m + 1] = z
  BY <1>2, <1>3
<1> QED
  BY <1>4, <1>5, Zenon DEF Extended

(***************************************************************************)
(* The batches of the timers, of a rollback and of a commit.               *)
(***************************************************************************)
\* The timers that fire and are not escalated have each a path of its own.
OnePerPath(s, t, esc) ==
    \A e, f \in Fired(s, t, esc) : e \notin esc /\ f \notin esc /\ e.path = f.path => e = f

\* The events of the timers that fire: at most one timer reverts a path.
LEMMA FiringTakesBack ==
    ASSUME NEW s, NEW t, NEW esc, OnePerPath(s, t, esc),
           Lists(InOrder(Steps(s, t, esc)), Steps(s, t, esc)),
           Steps(s, t, esc) \in SUBSET [entry: s.pending, step: {1, 2}]
    PROVE  TakesBack(s, FiringEvents(s, t, esc), Reverted(s, t, esc))
<1> DEFINE S == Steps(s, t, esc)
           q == InOrder(S)
           b == FiringEvents(s, t, esc)
           ps == Reverted(s, t, esc)
           F == Fired(s, t, esc)
<1>1. Lists(q, S)
  OBVIOUS
<1>2. b = [i \in 1 .. Len(q) |-> FiringEvent(s, q[i], esc)]
  BY Zenon DEF FiringEvents
<1>3. \A a \in S : a.entry \in F /\ a.step \in {1, 2} /\ (a.step = 2 => a.entry \notin esc)
  BY DEF Steps
<1>4. \A e \in F : /\ [entry |-> e, step |-> 1] \in S
                   /\ e \notin esc => [entry |-> e, step |-> 2] \in S
  BY Zenon DEF Steps
<1>5. \A e \in F : e \notin esc => e.path \in ps
  BY DEF Reverted
<1>6. \A p \in ps : \E e \in F : e \notin esc /\ e.path = p
  BY DEF Reverted
<1>7. \A e, f \in F : e \notin esc /\ f \notin esc /\ e.path = f.path => e = f
  BY Zenon DEF OnePerPath
<1>8. \A a, c \in S : a.entry = c.entry /\ a.step = c.step => a = c
  OBVIOUS
<1> HIDE DEF S, F, q, ps, b
<1>9. Len(b) = Len(q) /\ \A i \in 1 .. Len(q) : b[i] = FiringEvent(s, q[i], esc) /\ q[i] \in S
  <2>1. Len(q) \in Nat /\ \A i \in 1 .. Len(q) : q[i] \in S
    BY <1>1 DEF Lists
  <2> QED
    BY <1>2, <2>1
<1>10. ASSUME NEW i \in 1 .. Len(b)
       PROVE  \/ b[i].kind \notin Telling
              \/ /\ q[i].step = 1 /\ q[i].entry \in F \ esc
                 /\ q[i].entry.path \in ps /\ b[i] = ResetEvent(s, q[i].entry.path)
              \/ /\ q[i].entry \in F \ esc
                 /\ q[i].entry.path \in ps /\ b[i] = ClearedEvent(s, q[i].entry.path)
  <2>1. q[i] \in S /\ b[i] = FiringEvent(s, q[i], esc) /\ q[i].entry \in F /\ q[i].step \in {1, 2}
    BY <1>3, <1>9, Zenon
  <2>2. CASE q[i].entry \in esc
    <3>1. b[i].kind = "OverrideEscalated"
      BY <2>1, <2>2 DEF FiringEvent, Event
    <3> QED
      BY <3>1 DEF Telling
  <2>3. CASE q[i].entry \notin esc
    BY <1>5, <2>1, <2>3 DEF FiringEvent
  <2> QED
    BY <2>2, <2>3, Zenon
<1>11. ASSUME NEW p \in ps
       PROVE  /\ \E i \in 1 .. Len(b) : b[i] = ResetEvent(s, p)
              /\ \E i \in 1 .. Len(b) : b[i] = ClearedEvent(s, p)
  <2>1. PICK e \in F : e \notin esc /\ e.path = p
    BY <1>6
  <2>2. PICK i \in 1 .. Len(q) : q[i] = [entry |-> e, step |-> 1]
    BY <1>1, <1>4, Zenon DEF Lists
  <2>3. PICK j \in 1 .. Len(q) : q[j] = [entry |-> e, step |-> 2]
    BY <1>1, <1>4, <2>1, Zenon DEF Lists
  <2>4. /\ q[i].entry = e /\ q[i].step = 1 /\ q[j].entry = e /\ q[j].step # 1
        /\ b[i] = FiringEvent(s, q[i], esc) /\ b[j] = FiringEvent(s, q[j], esc)
    <3>1. q[i].entry = e /\ q[i].step = 1
      BY <2>2
    <3>2. q[j].entry = e /\ q[j].step = 2
      BY <2>3
    <3>3. q[j].step # 1
      BY <3>2
    <3> QED
      BY <1>9, <3>1, <3>2, <3>3, Zenon
  <2>5. b[i] = ResetEvent(s, p) /\ b[j] = ClearedEvent(s, p)
    BY <2>1, <2>4, Zenon DEF FiringEvent
  <2> QED
    BY <1>9, <2>5, Zenon
<1>12. ASSUME NEW p \in ps, NEW i \in 1 .. Len(b), NEW j \in 1 .. Len(b),
              b[i] = ResetEvent(s, p), b[j] = ResetEvent(s, p)
       PROVE  i = j
  <2>1. ASSUME NEW h \in 1 .. Len(b), b[h] = ResetEvent(s, p)
        PROVE  q[h].step = 1 /\ q[h].entry \in F \ esc /\ q[h].entry.path = p
    <3>1. b[h].kind = "ResetApplied" /\ b[h].paths = {p}
      <4>1. ResetPayload(b[h], s, p)
        BY <2>1, EventFields, Zenon
      <4> QED
        BY <4>1, Zenon DEF ResetPayload
    <3>2. /\ q[h].step = 1 /\ q[h].entry \in F \ esc
          /\ b[h] = ResetEvent(s, q[h].entry.path)
      <4>1. b[h].kind \in Telling /\ \A x : b[h] # ClearedEvent(s, x)
        BY <3>1, EventFields, Zenon DEF Telling, DirtyPayload
      <4> QED
        BY <1>10, <4>1, Zenon
    <3>3. b[h].paths = {q[h].entry.path}
      <4>1. ResetPayload(b[h], s, q[h].entry.path)
        BY <3>2, EventFields, Zenon
      <4> QED
        BY <4>1, Zenon DEF ResetPayload
    <3> QED
      BY <3>1, <3>2, <3>3, Zenon
  <2>2. q[i].entry = q[j].entry /\ q[i].step = q[j].step
    BY <1>7, <1>12, <2>1, Zenon
  <2>3. q[i] = q[j]
    BY <1>8, <1>9, <2>2, Zenon
  <2> QED
    BY <1>1, <1>9, <2>3, Zenon DEF Lists
<1>13. TakesBack(s, b, ps)
  BY <1>10, <1>11, <1>12, Zenon DEF TakesBack
<1> QED
  BY <1>13, Zenon DEF b, ps

\* rollback_dirty: two events per path and one for the whole.
LEMMA RollbackTakesBack ==
    ASSUME NEW s, NEW ps, Lists(Ascending(ps), ps)
    PROVE  TakesBack(s, RollbackEvents(s, ps), ps)
<1> DEFINE q == Ascending(ps)
           n == Len(q)
           e == [i \in 1 .. 2 * n |-> IF i % 2 = 1 THEN ResetEvent(s, q[(i + 1) \div 2])
                                      ELSE ClearedEvent(s, q[i \div 2])]
           z == Event("RollbackApplied", ps)
           b == RollbackEvents(s, ps)
<1>1. Lists(q, ps)
  OBVIOUS
<1>2. b = e \o <<z>>
  BY Zenon DEF RollbackEvents
<1>3. z.kind = "RollbackApplied"
  BY DEF Event
<1> HIDE DEF q, z, b
<1>4. n \in Nat /\ \A i \in 1 .. n : q[i] \in ps
  BY <1>1 DEF Lists
<1> HIDE DEF n
<1>5. ASSUME NEW i \in 1 .. 2 * n
      PROVE  /\ i % 2 = 1 => e[i] = ResetEvent(s, q[(i + 1) \div 2])
             /\ i % 2 # 1 => e[i] = ClearedEvent(s, q[i \div 2])
  OBVIOUS
<1>6. Array(e, 2 * n)
  BY <1>4 DEF Array
<1> HIDE DEF e
<1>7. Len(b) = 2 * n + 1 /\ (\A i \in 1 .. 2 * n : b[i] = e[i]) /\ b[2 * n + 1] = z
  <2>1. Extended(e \o <<z>>, e, 2 * n, z)
    BY <1>6, OneAfter
  <2> QED
    BY <1>2, <2>1, Zenon DEF Extended
<1>8. ASSUME NEW i \in 1 .. Len(b)
      PROVE  \/ b[i].kind \notin Telling
             \/ i \in 1 .. 2 * n /\ i % 2 = 1 /\ q[(i + 1) \div 2] \in ps
                  /\ b[i] = ResetEvent(s, q[(i + 1) \div 2])
             \/ i \in 1 .. 2 * n /\ i % 2 # 1 /\ q[i \div 2] \in ps
                  /\ b[i] = ClearedEvent(s, q[i \div 2])
  <2>1. i \in 1 .. 2 * n \/ i = 2 * n + 1
    BY <1>4, <1>7
  <2>2. CASE i = 2 * n + 1
    BY <1>3, <1>7, <2>2 DEF Telling
  <2>3. CASE i \in 1 .. 2 * n
    <3>1. (i + 1) \div 2 \in 1 .. n /\ (i % 2 # 1 => i \div 2 \in 1 .. n)
      BY <1>4, <2>3, Halves
    <3> QED
      BY <1>4, <1>5, <1>7, <2>3, <3>1, Zenon
  <2> QED
    BY <2>1, <2>2, <2>3
<1>9. ASSUME NEW p \in ps
       PROVE  /\ \E i \in 1 .. Len(b) : b[i] = ResetEvent(s, p)
              /\ \E i \in 1 .. Len(b) : b[i] = ClearedEvent(s, p)
  <2>1. PICK k \in 1 .. n : q[k] = p
    BY <1>1 DEF Lists, n
  <2>2. /\ 2 * k - 1 \in 1 .. 2 * n /\ (2 * k - 1) % 2 = 1 /\ ((2 * k - 1) + 1) \div 2 = k
        /\ 2 * k \in 1 .. 2 * n /\ (2 * k) % 2 # 1 /\ (2 * k) \div 2 = k
    BY <1>4, Halves
  <2>3. b[2 * k - 1] = ResetEvent(s, p) /\ b[2 * k] = ClearedEvent(s, p)
    BY <1>5, <1>7, <2>1, <2>2, Zenon
  <2>4. 2 * k - 1 \in 1 .. Len(b) /\ 2 * k \in 1 .. Len(b)
    BY <1>4, <1>7, <2>2
  <2> QED
    BY <2>3, <2>4
<1>10. ASSUME NEW p \in ps, NEW i \in 1 .. Len(b), b[i] = ResetEvent(s, p)
       PROVE  i \in 1 .. 2 * n /\ i % 2 = 1 /\ q[(i + 1) \div 2] = p
  <2>1. ResetPayload(b[i], s, p)
    BY <1>10, EventFields
  <2>2. \A x : DirtyPayload(ClearedEvent(s, x), x, FALSE) /\ ResetPayload(ResetEvent(s, x), s, x)
    BY EventFields, Zenon
  <2>3. i \in 1 .. 2 * n /\ i % 2 = 1 /\ b[i] = ResetEvent(s, q[(i + 1) \div 2])
    <3>1. b[i].kind \in Telling /\ \A x : b[i] # ClearedEvent(s, x)
      BY <2>1, <2>2, Zenon DEF ResetPayload, DirtyPayload, Telling
    <3> QED
      BY <1>8, <3>1, Zenon
  <2>4. {q[(i + 1) \div 2]} = {p}
    <3> DEFINE x == q[(i + 1) \div 2]
    <3>1. ResetPayload(b[i], s, x)
      BY <2>2, <2>3, Zenon
    <3> HIDE DEF x
    <3>2. {x} = {p}
      BY <2>1, <3>1, Zenon DEF ResetPayload
    <3> QED
      BY <3>2 DEF x
  <2> QED
    BY <2>3, <2>4, Zenon
<1>11. ASSUME NEW p \in ps, NEW i \in 1 .. Len(b), NEW j \in 1 .. Len(b),
              b[i] = ResetEvent(s, p), b[j] = ResetEvent(s, p)
       PROVE  i = j
  <2>1. /\ i \in 1 .. 2 * n /\ i % 2 = 1 /\ q[(i + 1) \div 2] = p
        /\ j \in 1 .. 2 * n /\ j % 2 = 1 /\ q[(j + 1) \div 2] = p
    BY <1>10, <1>11
  <2>2. /\ (i + 1) \div 2 \in 1 .. n /\ (j + 1) \div 2 \in 1 .. n
        /\ i = 2 * ((i + 1) \div 2) - 1 /\ j = 2 * ((j + 1) \div 2) - 1
    BY <1>4, <2>1, Halves
  <2>3. \A h, k \in 1 .. n : q[h] = q[k] => h = k
    BY <1>1, Zenon DEF Lists, n
  <2>4. (i + 1) \div 2 = (j + 1) \div 2
    <3> DEFINE h == (i + 1) \div 2
               k == (j + 1) \div 2
    <3>1. h \in 1 .. n /\ k \in 1 .. n /\ q[h] = q[k]
      BY <2>1, <2>2, Zenon
    <3> HIDE DEF h, k
    <3>2. h = k
      BY <2>3, <3>1, Zenon
    <3> QED
      BY <3>2 DEF h, k
  <2> QED
    BY <2>2, <2>4, Zenon
<1>12. TakesBack(s, b, ps)
  BY <1>8, <1>9, <1>11, Zenon DEF TakesBack
<1> QED
  BY <1>12, Zenon DEF b

\* A batch that clears every override and reports no value.
Clears(s, b) ==
    \A p \in Paths : /\ ValueIn(b, p) = {}
                     /\ \A i \in DirtyIn(b, p) : ~ b[i].dirty
                     /\ p \in DirtyPaths(s) => DirtyIn(b, p) # {}

\* commit_configuration sends such a batch.
LEMMA CommitClears ==
    ASSUME NEW s, Lists(Ascending(DirtyPaths(s)), DirtyPaths(s))
    PROVE  Clears(s, CommitEvents(s))
<1> DEFINE ps == DirtyPaths(s)
           q == Ascending(ps)
           n == Len(q)
           e == [i \in 1 .. n |-> ClearedEvent(s, q[i])]
           z == Event("CommitApplied", CommitChanges(s))
           b == CommitEvents(s)
<1>1. Lists(q, ps)
  OBVIOUS
<1>2. b = e \o <<z>>
  BY Zenon DEF CommitEvents
<1>3. z.kind = "CommitApplied"
  BY DEF Event
<1> HIDE DEF q, z, b
<1>4. n \in Nat /\ \A i \in 1 .. n : q[i] \in ps
  BY <1>1, Zenon DEF Lists
<1> HIDE DEF n, ps
<1>5. \A i \in 1 .. n : e[i] = ClearedEvent(s, q[i])
  OBVIOUS
<1>6. Array(e, n)
  BY <1>4 DEF Array
<1> HIDE DEF e
<1>7. Len(b) = n + 1 /\ (\A i \in 1 .. n : b[i] = e[i]) /\ b[n + 1] = z
  <2>1. Extended(e \o <<z>>, e, n, z)
    BY <1>6, OneAfter
  <2> QED
    BY <1>2, <2>1, Zenon DEF Extended
<1>8. ASSUME NEW i \in 1 .. Len(b)
       PROVE  \/ b[i].kind \notin Telling
              \/ i \in 1 .. n /\ DirtyPayload(b[i], q[i], FALSE)
  <2>1. i \in 1 .. n \/ i = n + 1
    BY <1>4, <1>7
  <2>2. CASE i = n + 1
    BY <1>3, <1>7, <2>2, Zenon DEF Telling
  <2>3. CASE i \in 1 .. n
    BY <1>5, <1>7, <2>3, EventFields, Zenon
  <2> QED
    BY <2>1, <2>2, <2>3, Zenon
<1>9. ASSUME NEW p \in Paths
       PROVE  /\ ValueIn(b, p) = {}
              /\ \A i \in DirtyIn(b, p) : ~ b[i].dirty
              /\ p \in DirtyPaths(s) => DirtyIn(b, p) # {}
  <2>1. ValueIn(b, p) = {}
    BY <1>8 DEF ValueIn, IsValue, DirtyPayload, Telling
  <2>3. \A i \in DirtyIn(b, p) : ~ b[i].dirty
    BY <1>8, Zenon DEF DirtyIn, IsDirty, DirtyPayload, Telling
  <2>4. ASSUME p \in DirtyPaths(s) PROVE DirtyIn(b, p) # {}
    <3>1. PICK k \in 1 .. n : q[k] = p
      BY <1>1, <2>4 DEF Lists, n, ps
    <3>2. DirtyPayload(b[k], p, FALSE)
      BY <1>5, <1>7, <3>1, EventFields, Zenon
    <3>3. k \in 1 .. Len(b)
      BY <1>4, <1>7
    <3> QED
      BY <3>2, <3>3 DEF DirtyIn, IsDirty, DirtyPayload
  <2> QED
    BY <2>1, <2>3, <2>4, Zenon
<1> QED
  BY <1>9, Zenon DEF Clears, b

\* u says e in an event whose number is at least from.
Says(u, from, e) ==
    \E i \in 1 .. Len(u.event_bus.events) :
        u.event_bus.events[i].sequence >= from /\ u.event_bus.events[i].payload = e

\* The last event of a batch is in the buffer, however small the buffer is.
LEMMA LastStays ==
    ASSUME NEW s, NEW u, s \in Snapshot, u \in Snapshot, NEW b \in Seq(EventPayload),
           Emitted(s, b, u), Len(b) \in Nat \ {0}
    PROVE  Says(u, s.event_bus.next_sequence, b[Len(b)])
<1> DEFINE n == Len(s.event_bus.events)
           m == Len(b)
           k == Overflow(n + m)
           first == s.event_bus.next_sequence
           i == n + m - k
<1>1. n \in Nat /\ m \in Nat \ {0} /\ first \in Nat
  BY LogTypes
<1>2. /\ Len(u.event_bus.events) = n + m - k
      /\ \A j \in 1 .. n + m - k : j + k > n =>
            /\ u.event_bus.events[j].sequence = first + (j + k - n) - 1
            /\ u.event_bus.events[j].payload = b[j + k - n]
  BY Zenon DEF Emitted
<1>3. k \in Nat /\ k < n + m
  <2> HIDE DEF n, m
  <2> QED
    BY <1>1, CapacityAssumption DEF Overflow
<1> HIDE DEF n, m, k, first
<1>4. i \in 1 .. n + m - k /\ i + k > n /\ i + k - n = m /\ first + m - 1 >= first
  BY <1>1, <1>3
<1> HIDE DEF i
<1>5. u.event_bus.events[i].sequence >= first /\ u.event_bus.events[i].payload = b[m]
  BY <1>2, <1>4, Zenon
<1> QED
  BY <1>2, <1>4, <1>5, Zenon DEF Says, first, m

\* The events of a pull around those of its writes are about no path.
LEMMA PullFramed ==
    ASSUME NEW s \in Snapshot, NEW r \in PullRequest, PullWriteEvents(s, r) \in Seq(EventPayload)
    PROVE  \E h : Framed(PullEvents(s, r), PullWriteEvents(s, r), h)
<1> DEFINE conflicts == PulledPaths(r) \cap DirtyPaths(s)
           z == Event("SyncApplyCompleted", PulledPaths(r))
           d == PullWriteEvents(s, r)
<1>1. PulledPaths(r) \in SUBSET Paths /\ conflicts \in SUBSET Paths
  <2>1. r.writes \in Seq(PullWrite)
    BY DEF PullRequest
  <2>2. \A k \in 1 .. Len(r.writes) : r.writes[k] \in PullWrite
    BY <2>1
  <2> QED
    BY <2>2 DEF PulledPaths, PullWrite
<1> HIDE DEF conflicts
<1>2. /\ SyncEvent \in EventPayload /\ z \in EventPayload
      /\ Event("SyncConflictDetected", conflicts) \in EventPayload
      /\ Event("SyncConflictResolved", conflicts) \in EventPayload
  BY <1>1, Zenon DEF SyncEvent, Event, EventPayload, EventKinds
<1>3. /\ SyncEvent.kind \notin Telling /\ z.kind \notin Telling
      /\ Event("SyncConflictDetected", conflicts).kind \notin Telling
      /\ Event("SyncConflictResolved", conflicts).kind \notin Telling
  BY DEF SyncEvent, Event, Telling
<1>4. ASSUME NEW e \in EventPayload, e.kind \notin Telling PROVE QuietSeq(<<e>>) /\ QuietSeq(<<e, e>>)
  BY <1>4 DEF QuietSeq
<1>5. QuietSeq(<<>>)
  BY DEF QuietSeq
<1> DEFINE detected == IF conflicts = {} THEN <<>> ELSE <<Event("SyncConflictDetected", conflicts)>>
           resolved == IF conflicts = {} THEN <<>> ELSE <<Event("SyncConflictResolved", conflicts)>>
<1>6. QuietSeq(detected) /\ QuietSeq(resolved)
  BY <1>2, <1>3, <1>4, <1>5, Zenon
<1>7. QuietSeq(<<SyncEvent, SyncEvent>>) /\ QuietSeq(<<SyncEvent>>) /\ QuietSeq(<<z>>)
  BY <1>2, <1>3, <1>4, Zenon
<1>8. PullEvents(s, r) = <<SyncEvent, SyncEvent>> \o detected \o d \o <<SyncEvent>> \o resolved \o <<z>>
  BY DEF PullEvents, conflicts
<1> HIDE DEF detected, resolved, z, d
<1> DEFINE a == <<SyncEvent, SyncEvent>> \o detected
           b1 == a \o d
           b2 == b1 \o <<SyncEvent>>
           b3 == b2 \o resolved
           b4 == b3 \o <<z>>
<1>9. QuietSeq(a)
  BY <1>6, <1>7, Frames, Zenon
<1>10. a \in Seq(EventPayload) /\ d \in Seq(EventPayload) /\ <<SyncEvent>> \in Seq(EventPayload)
       /\ resolved \in Seq(EventPayload)
  BY <1>6, <1>7, <1>9, Zenon DEF QuietSeq, d
<1> HIDE DEF a
<1>11. b1 \in Seq(EventPayload) /\ Framed(b1, d, Len(a))
  <2>1. b1 \in Seq(EventPayload)
    BY <1>10
  <2> QED
    BY <1>9, <1>10, <2>1, Frames, Zenon
<1> HIDE DEF b1
<1>12. b2 \in Seq(EventPayload) /\ Framed(b2, d, Len(a))
  <2>1. b2 \in Seq(EventPayload)
    BY <1>10, <1>11
  <2> QED
    BY <1>7, <1>11, <2>1, Frames, Zenon
<1> HIDE DEF b2
<1>13. b3 \in Seq(EventPayload) /\ Framed(b3, d, Len(a))
  <2>1. b3 \in Seq(EventPayload)
    BY <1>10, <1>12
  <2> QED
    BY <1>6, <1>12, <2>1, Frames, Zenon
<1> HIDE DEF b3
<1>14. Framed(b4, d, Len(a))
  BY <1>7, <1>13, Frames, Zenon
<1>15. b4 = PullEvents(s, r)
  BY <1>8 DEF a, b1, b2, b3
<1> QED
  BY <1>14, <1>15, Zenon DEF d

\* The steps of a pull: its write k is step 2k, the override of its path that it
\* clears is step 2k - 1.
PullSteps(s, r) ==
    {i \in 1 .. 2 * Len(r.writes) :
        i % 2 = 0 \/ r.writes[(i + 1) \div 2].path \in DirtyPaths(s)}

\* The events of the writes of an accepted pull, taken in the order of its steps,
\* report the writes.
LEMMA StepsReport ==
    ASSUME NEW s \in Snapshot, NEW r \in PullRequest, PullAccepted(s, r),
           Lists(Ascending(PullSteps(s, r)), PullSteps(s, r)),
           \A k \in 1 .. Len(r.writes) :
              /\ PullChange(s, r.writes[k]) \in EventPayload
              /\ ClearedEvent(s, r.writes[k].path) \in EventPayload
    PROVE  /\ PullWriteEvents(s, r) \in Seq(EventPayload)
           /\ Reports(s, PullWriteEvents(s, r), {r.writes[k] : k \in 1 .. Len(r.writes)})
<1> DEFINE w == r.writes
           n == Len(w)
           S == PullSteps(s, r)
           q == Ascending(S)
           W == {w[k] : k \in 1 .. n}
           event(j) == IF j % 2 = 1 THEN ClearedEvent(s, w[(j + 1) \div 2].path)
                       ELSE PullChange(s, w[(j + 1) \div 2])
           d == PullWriteEvents(s, r)
<1>1. w \in Seq(PullWrite) /\ n \in Nat
  BY DEF PullRequest
<1>2. S = {i \in 1 .. 2 * n : i % 2 = 0 \/ w[(i + 1) \div 2].path \in DirtyPaths(s)}
  BY Zenon DEF PullSteps
<1>3. Lists(q, S)
  OBVIOUS
<1>4. d = [i \in 1 .. Len(q) |-> event(q[i])]
  BY Zenon DEF PullWriteEvents, PullChange, PullSteps
<1>5. \A j, k \in 1 .. n : w[j].path = w[k].path => j = k
  BY Zenon DEF PullAccepted
<1>7. ASSUME NEW i \in S
      PROVE  /\ (i + 1) \div 2 \in 1 .. n
             /\ i % 2 = 1 => w[(i + 1) \div 2].path \in DirtyPaths(s)
             /\ i % 2 # 1 => i = 2 * ((i + 1) \div 2)
  <2>1. i \in 1 .. 2 * n
    BY <1>2
  <2>2. (i + 1) \div 2 \in 1 .. n /\ (i % 2 # 1 => i = 2 * ((i + 1) \div 2))
    BY <1>1, <2>1, Halves, Zenon
  <2> QED
    BY <2>2, SMTT(30) DEF PullSteps
<1>8. ASSUME NEW k \in 1 .. n
      PROVE  /\ 2 * k \in S /\ (2 * k) % 2 # 1 /\ (2 * k + 1) \div 2 = k
             /\ w[k].path \in DirtyPaths(s) =>
                  2 * k - 1 \in S /\ (2 * k - 1) % 2 = 1 /\ ((2 * k - 1) + 1) \div 2 = k
  <2>1. /\ 2 * k \in 1 .. 2 * n /\ (2 * k) % 2 # 1 /\ (2 * k) % 2 = 0 /\ (2 * k + 1) \div 2 = k
        /\ 2 * k - 1 \in 1 .. 2 * n /\ (2 * k - 1) % 2 = 1 /\ ((2 * k - 1) + 1) \div 2 = k
    BY <1>1, Doubles, Zenon
  <2> QED
    BY <2>1, Zenon DEF PullSteps
<1> HIDE DEF S, q, d, n, w
<1>9. Len(q) \in Nat /\ \A i \in 1 .. Len(q) : q[i] \in S
  BY <1>3, Zenon DEF Lists
<1>10. Len(d) = Len(q) /\ \A i \in 1 .. Len(q) : d[i] = event(q[i])
  <2> HIDE DEF event
  <2> QED
    BY <1>4, <1>9, SMTT(30)
<1>11. ASSUME NEW i \in 1 .. Len(d)
       PROVE  \E k \in 1 .. n : \/ q[i] = 2 * k /\ d[i] = PullChange(s, w[k])
                                \/ w[k].path \in DirtyPaths(s) /\ d[i] = ClearedEvent(s, w[k].path)
  <2>1. q[i] \in S /\ d[i] = event(q[i])
    BY <1>9, <1>10, Zenon
  <2>2. CASE q[i] % 2 = 1
    BY <1>7, <2>1, <2>2, Zenon
  <2>3. CASE q[i] % 2 # 1
    BY <1>7, <2>1, <2>3, Zenon
  <2> QED
    BY <2>2, <2>3, Zenon
<1>12. ASSUME NEW k \in 1 .. n
       PROVE  /\ \E i \in 1 .. Len(d) : d[i] = PullChange(s, w[k])
              /\ w[k].path \in DirtyPaths(s) =>
                   \E i \in 1 .. Len(d) : d[i] = ClearedEvent(s, w[k].path)
  <2>1. event(2 * k) = PullChange(s, w[k])
    BY <1>8, Zenon
  <2>2. w[k].path \in DirtyPaths(s) => event(2 * k - 1) = ClearedEvent(s, w[k].path)
    BY <1>8, Zenon
  <2> HIDE DEF event
  <2>3. \E i \in 1 .. Len(q) : q[i] = 2 * k
    BY <1>3, <1>8, Zenon DEF Lists
  <2>4. w[k].path \in DirtyPaths(s) => \E i \in 1 .. Len(q) : q[i] = 2 * k - 1
    BY <1>3, <1>8, Zenon DEF Lists
  <2>5. w[k].path \in DirtyPaths(s) => \E i \in 1 .. Len(d) : d[i] = ClearedEvent(s, w[k].path)
    BY <1>10, <2>2, <2>4, Zenon
  <2> QED
    BY <1>10, <2>1, <2>3, <2>5, Zenon
<1> HIDE DEF event
<1>13. \A k \in 1 .. n : /\ ChangePayload(PullChange(s, w[k]), w[k].path,
                                          EffectiveValue(s, w[k].path), w[k].value)
                         /\ DirtyPayload(ClearedEvent(s, w[k].path), w[k].path, FALSE)
  BY EventFields, Zenon DEF PullChange
<1>14. ASSUME NEW k \in 1 .. n, NEW i \in 1 .. Len(d), d[i] = PullChange(s, w[k])
       PROVE  q[i] = 2 * k
  <2>1. PICK h \in 1 .. n : \/ q[i] = 2 * h /\ d[i] = PullChange(s, w[h])
                            \/ d[i] = ClearedEvent(s, w[h].path)
    BY <1>11, Zenon
  <2>2. d[i].kind = "ParameterChanged" /\ d[i].paths = {w[k].path}
    BY <1>13, <1>14, Zenon DEF ChangePayload
  <2>3. d[i] # ClearedEvent(s, w[h].path)
    BY <1>13, <2>2, Zenon DEF DirtyPayload
  <2>4. d[i].paths = {w[h].path}
    BY <1>13, <2>1, <2>3, Zenon DEF ChangePayload
  <2>5. h = k
    BY <1>5, <2>2, <2>4, Zenon
  <2> QED
    BY <2>1, <2>3, <2>5, Zenon
<1>15. ASSUME NEW k \in 1 .. n, NEW i \in 1 .. Len(d), NEW j \in 1 .. Len(d),
              d[i] = PullChange(s, w[k]), d[j] = PullChange(s, w[k])
       PROVE  i = j
  <2>1. q[i] = q[j] /\ i \in 1 .. Len(q) /\ j \in 1 .. Len(q)
    BY <1>10, <1>14, <1>15, Zenon
  <2> QED
    BY <1>3, <2>1, Zenon DEF Lists
<1>16. Reports(s, d, W)
  <2>1. \A x \in W : \E k \in 1 .. n : x = w[k]
    OBVIOUS
  <2>2. \A k \in 1 .. n : w[k] \in W
    OBVIOUS
  <2> HIDE DEF W
  <2>3. ASSUME NEW i \in 1 .. Len(d)
        PROVE  \E x \in W : \/ d[i] = PullChange(s, x)
                            \/ x.path \in DirtyPaths(s) /\ d[i] = ClearedEvent(s, x.path)
    BY <1>11, <2>2, Zenon
  <2>4. ASSUME NEW x \in W PROVE \E i \in 1 .. Len(d) : d[i] = PullChange(s, x)
    BY <1>12, <2>1, ZenonT(30)
  <2>5. ASSUME NEW x \in W, x.path \in DirtyPaths(s)
        PROVE  \E i \in 1 .. Len(d) : d[i] = ClearedEvent(s, x.path)
    BY <1>12, <2>1, <2>5, ZenonT(30)
  <2>6. ASSUME NEW x \in W, NEW i \in 1 .. Len(d), NEW j \in 1 .. Len(d),
               d[i] = PullChange(s, x), d[j] = PullChange(s, x)
        PROVE  i = j
    BY <1>15, <2>1, <2>6, ZenonT(30)
  <2> QED
    BY <2>3, <2>4, <2>5, <2>6, Zenon DEF Reports
<1>17. d \in Seq(EventPayload)
  <2>1. \A k \in 1 .. n : PullChange(s, w[k]) \in EventPayload
                            /\ ClearedEvent(s, w[k].path) \in EventPayload
    BY Zenon DEF n, w
  <2>2. \A i \in 1 .. Len(d) : d[i] \in EventPayload
    BY <1>11, <2>1, Zenon
  <2>3. d = [i \in 1 .. Len(q) |-> d[i]]
    BY <1>4, <1>10
  <2>4. Len(d) \in Nat
    BY <1>9, <1>10
  <2> QED
    BY <1>10, <2>2, <2>3, <2>4
<1> QED
  BY <1>16, <1>17, Zenon DEF d, n, w

\* The writes to a path in the part of a list before write k.
LEMMA EarlierWrites ==
    ASSUME NEW T, NEW w \in Seq(T), NEW k \in 1 .. Len(w), NEW p
    PROVE  WritesTo(SubSeq(w, 1, k - 1), p) = Below(WritesTo(w, p), k)
<1> DEFINE e == SubSeq(w, 1, k - 1)
<1>1. Len(w) \in Nat
  OBVIOUS
<1>2. Len(e) = k - 1 /\ \A i \in 1 .. k - 1 : e[i] = w[i]
  <2>1. 1 \in 1 .. Len(w) + 1 /\ k - 1 \in 0 .. Len(w)
    BY <1>1
  <2> QED
    BY <2>1
<1> HIDE DEF e
<1>3. ASSUME NEW i PROVE i \in WritesTo(e, p) <=> i \in Below(WritesTo(w, p), k)
  <2>1. i \in 1 .. k - 1 <=> i \in 1 .. Len(w) /\ i < k
    BY <1>1
  <2> QED
    BY <1>2, <2>1 DEF WritesTo, Below
<1> QED
  BY <1>3, Zenon DEF e

\* WriteEvents lists them in the order of the writes.
LEMMA WriteEventsAre ==
    ASSUME NEW s, NEW T, NEW w \in Seq(T)
    PROVE  /\ Len(WriteEvents(s, w)) = 2 * Len(w)
           /\ \A k \in 1 .. Len(w) :
                 /\ WriteChange(s, w, k, WriteEvents(s, w)[2 * k - 1])
                 /\ DirtyPayload(WriteEvents(s, w)[2 * k], w[k].path, TRUE)
<1> DEFINE n == Len(w)
           event(i, k) == IF i % 2 = 1
                          THEN ChangeEvent(w[k].path, WriteGeneration(s, w, k),
                                           ValueBefore(s, w, k), w[k].value)
                          ELSE DirtyEvent(w[k].path, WriteGeneration(s, w, k), TRUE)
           b == WriteEvents(s, w)
<1>1. n \in Nat
  OBVIOUS
<1>2. b = [i \in 1 .. 2 * n |-> event(i, (i + 1) \div 2)]
  BY DEF WriteEvents
<1> HIDE DEF b
<1>3. ASSUME NEW k \in 1 .. n
      PROVE  WriteChange(s, w, k, b[2 * k - 1]) /\ DirtyPayload(b[2 * k], w[k].path, TRUE)
  <2>1. /\ 2 * k \in 1 .. 2 * n /\ (2 * k) % 2 # 1 /\ (2 * k + 1) \div 2 = k
        /\ 2 * k - 1 \in 1 .. 2 * n /\ (2 * k - 1) % 2 = 1 /\ ((2 * k - 1) + 1) \div 2 = k
    BY <1>1, Halves
  <2>2. b[2 * k] = event(2 * k, k) /\ b[2 * k - 1] = event(2 * k - 1, k)
    <3> HIDE DEF event
    <3> QED
      BY <1>2, <2>1, Zenon
  <2>3. /\ b[2 * k - 1] = ChangeEvent(w[k].path, WriteGeneration(s, w, k),
                                      ValueBefore(s, w, k), w[k].value)
        /\ b[2 * k] = DirtyEvent(w[k].path, WriteGeneration(s, w, k), TRUE)
    BY <2>1, <2>2, Zenon
  <2>4. ChangePayload(b[2 * k - 1], w[k].path, ValueBefore(s, w, k), w[k].value)
    BY <2>3, EventFields, Zenon
  <2>5. DirtyPayload(b[2 * k], w[k].path, TRUE)
    BY <2>3, EventFields, Zenon
  <2> QED
    BY <2>4, <2>5, Zenon DEF WriteChange
<1>4. Len(b) = 2 * n
  <2> HIDE DEF event, n
  <2> QED
    BY <1>1, <1>2
<1> QED
  BY <1>3, <1>4, Zenon DEF b

\* The overlay after a list of writes.
Written(s, w, u) ==
    /\ u.committed_overlay = s.committed_overlay
    /\ \A p \in Paths : u.dirty_overlay[p] =
          IF WritesTo(w, p) # {} THEN w[LastWriteTo(w, p)].value ELSE s.dirty_overlay[p]

\* The events of a list of writes tell of the overlay after it: the values of a
\* path written several times are a chain too.
LEMMA WrittenMoves ==
    ASSUME NEW s, NEW u, NEW w \in Seq(Writes), Written(s, w, u),
           \A p \in Paths : WritesTo(w, p) # {} => LastWriteTo(w, p) \in 1 .. Len(w)
    PROVE  BatchMoves(s, WriteEvents(s, w), u)
<1> SUFFICES ASSUME NEW p \in Paths
             PROVE  /\ ValueMoves(s, WriteEvents(s, w), u, p)
                    /\ DirtyMoves(s, WriteEvents(s, w), u, p)
  BY Zenon DEF BatchMoves
<1> DEFINE n == Len(w)
           K == WritesTo(w, p)
           b == WriteEvents(s, w)
<1>1. n \in Nat /\ \A k \in 1 .. n : w[k].value \in Values
  <2>1. \A k \in 1 .. n : w[k] \in Writes
    OBVIOUS
  <2> QED
    BY <2>1 DEF Writes
<1>2. Len(b) = 2 * n /\ \A k \in 1 .. n : /\ WriteChange(s, w, k, b[2 * k - 1])
                                          /\ DirtyPayload(b[2 * k], w[k].path, TRUE)
  BY WriteEventsAre, Zenon
<1>3. K \in SUBSET (1 .. n) /\ \A k \in 1 .. n : k \in K <=> w[k].path = p
  BY DEF WritesTo
<1>4. /\ u.committed_overlay = s.committed_overlay
      /\ u.dirty_overlay[p] = IF K # {} THEN w[LastWriteTo(w, p)].value ELSE s.dirty_overlay[p]
  BY Zenon DEF Written
<1>5. \A k \in K : (\A j \in K : j <= k) => LastWriteTo(w, p) = k
  BY LastWriteIs, Zenon
<1>6. K # {} => LastWriteTo(w, p) \in 1 .. n
  BY Zenon
<1>7. \A k \in 1 .. n : WritesTo(SubSeq(w, 1, k - 1), p) = Below(K, k)
  BY EarlierWrites, Zenon
<1>8. ASSUME NEW k \in K
      PROVE  /\ Below(K, k) = {} => ValueBefore(s, w, k) = EffectiveValue(s, p)
             /\ \A h \in Latest(Below(K, k)) : ValueBefore(s, w, k) = w[h].value
  <2> DEFINE e == SubSeq(w, 1, k - 1)
  <2>1. k \in 1 .. n /\ w[k].path = p
    BY <1>3
  <2>2. ValueBefore(s, w, k) = IF WritesTo(e, p) = {} THEN EffectiveValue(s, p)
                               ELSE w[LastWriteTo(e, p)].value
    BY <2>1, Zenon DEF ValueBefore
  <2>3. WritesTo(e, p) = Below(K, k)
    BY <1>7, <2>1
  <2> HIDE DEF e, K
  <2>4. ASSUME NEW h \in Latest(Below(K, k)) PROVE LastWriteTo(e, p) = h /\ Below(K, k) # {}
    <3>1. h \in WritesTo(e, p) /\ \A j \in WritesTo(e, p) : j <= h
      BY <2>3 DEF Latest
    <3> QED
      BY <2>3, <3>1, LastWriteIs, Zenon
  <2> QED
    BY <2>2, <2>3, <2>4, Zenon
<1>9. ASSUME K # {} PROVE EffectiveValue(u, p) = w[LastWriteTo(w, p)].value /\ p \in DirtyPaths(u)
  <2>1. u.dirty_overlay[p] = w[LastWriteTo(w, p)].value /\ u.dirty_overlay[p] \in Values
    BY <1>1, <1>4, <1>6, <1>9, Zenon
  <2> QED
    BY <2>1, NoValueAssumption, Zenon DEF EffectiveValue, DirtyPaths
<1>10. ASSUME K = {}
       PROVE  /\ EffectiveValue(u, p) = EffectiveValue(s, p)
              /\ p \in DirtyPaths(u) <=> p \in DirtyPaths(s)
  BY <1>4, <1>10, Zenon DEF EffectiveValue, CommittedValue, DirtyPaths
<1> HIDE DEF K, b, n
<1>11. ASSUME NEW k \in 1 .. n
       PROVE  /\ b[2 * k - 1].kind = "ParameterChanged" /\ b[2 * k - 1].paths = {w[k].path}
              /\ b[2 * k - 1].old = ValueBefore(s, w, k) /\ b[2 * k - 1].new = w[k].value
              /\ b[2 * k].kind = "DirtyStateChanged" /\ b[2 * k].paths = {w[k].path}
  BY <1>2, Zenon DEF WriteChange, ChangePayload, DirtyPayload
<1>12. ASSUME NEW i \in 1 .. Len(b)
       PROVE  \E k \in 1 .. n : i = 2 * k - 1 \/ i = 2 * k
  <2>1. i \in 1 .. 2 * n
    BY <1>2
  <2> QED
    BY <1>1, <2>1, Halves, Zenon
<1>13. ASSUME NEW i PROVE i \in ValueIn(b, p) <=> \E k \in K : i = 2 * k - 1
  <2>1. ASSUME i \in ValueIn(b, p) PROVE \E k \in K : i = 2 * k - 1
    <3>1. i \in 1 .. Len(b) /\ b[i].kind \in {"ParameterChanged", "ResetApplied"} /\ b[i].paths = {p}
      BY <2>1 DEF ValueIn, IsValue
    <3>2. PICK k \in 1 .. n : i = 2 * k - 1 \/ i = 2 * k
      BY <1>12, <3>1
    <3>3. i = 2 * k - 1 /\ w[k].path = p
      BY <1>11, <3>1, <3>2, Zenon
    <3> QED
      BY <1>3, <3>3
  <2>2. ASSUME NEW k \in K, i = 2 * k - 1 PROVE i \in ValueIn(b, p)
    <3>1. k \in 1 .. n /\ w[k].path = p
      BY <1>3
    <3>2. i \in 1 .. Len(b)
      BY <1>1, <1>2, <2>2, <3>1
    <3> QED
      BY <1>11, <2>2, <3>1, <3>2, Zenon DEF ValueIn, IsValue
  <2> QED
    BY <2>1, <2>2
<1>14. ASSUME NEW i PROVE i \in DirtyIn(b, p) <=> \E k \in K : i = 2 * k
  <2>1. ASSUME i \in DirtyIn(b, p) PROVE \E k \in K : i = 2 * k
    <3>1. i \in 1 .. Len(b) /\ b[i].kind = "DirtyStateChanged" /\ b[i].paths = {p}
      BY <2>1 DEF DirtyIn, IsDirty
    <3>2. PICK k \in 1 .. n : i = 2 * k - 1 \/ i = 2 * k
      BY <1>12, <3>1
    <3>3. i = 2 * k /\ w[k].path = p
      BY <1>11, <3>1, <3>2, Zenon
    <3> QED
      BY <1>3, <3>3
  <2>2. ASSUME NEW k \in K, i = 2 * k PROVE i \in DirtyIn(b, p)
    <3>1. k \in 1 .. n /\ w[k].path = p
      BY <1>3
    <3>2. i \in 1 .. Len(b)
      BY <1>1, <1>2, <2>2, <3>1
    <3> QED
      BY <1>11, <2>2, <3>1, <3>2, Zenon DEF DirtyIn, IsDirty
  <2> QED
    BY <2>1, <2>2
<1>15. \A k \in K : k \in Int /\ k \in 1 .. n
  BY <1>1, <1>3
<1>16. ASSUME NEW i \in Latest(ValueIn(b, p)) PROVE b[i].new = EffectiveValue(u, p)
  <2>1. PICK k \in K : i = 2 * k - 1
    BY <1>13 DEF Latest
  <2>2. ASSUME NEW j \in K PROVE j <= k
    <3>1. 2 * j - 1 <= i
      BY <1>13 DEF Latest
    <3> QED
      BY <1>15, <2>1, <3>1
  <2>3. LastWriteTo(w, p) = k
    BY <1>5, <2>2
  <2> QED
    BY <1>9, <1>11, <1>15, <2>1, <2>3, Zenon
<1>17. ASSUME NEW j \in ValueIn(b, p)
       PROVE  /\ Below(ValueIn(b, p), j) = {} => b[j].old = EffectiveValue(s, p)
              /\ \A i \in Latest(Below(ValueIn(b, p), j)) : b[i].new = b[j].old
  <2>1. PICK k \in K : j = 2 * k - 1
    BY <1>13
  <2>2. b[j].old = ValueBefore(s, w, k)
    BY <1>11, <1>15, <2>1, Zenon
  <2>3. ASSUME Below(ValueIn(b, p), j) = {} PROVE Below(K, k) = {}
    <3> SUFFICES ASSUME NEW h \in Below(K, k) PROVE FALSE
      OBVIOUS
    <3>1. h \in K /\ h < k
      BY DEF Below
    <3>2. 2 * h - 1 \in ValueIn(b, p) /\ 2 * h - 1 < j
      BY <1>13, <1>15, <2>1, <3>1
    <3> QED
      BY <2>3, <3>2 DEF Below
  <2>4. ASSUME NEW i \in Latest(Below(ValueIn(b, p), j)) PROVE b[i].new = b[j].old
    <3>1. i \in ValueIn(b, p) /\ i < j
      BY DEF Latest, Below
    <3>2. PICK h \in K : i = 2 * h - 1
      BY <1>13, <3>1
    <3>3. h < k
      BY <1>15, <2>1, <3>1, <3>2
    <3>4. ASSUME NEW g \in K, g < k PROVE g <= h
      <4>1. 2 * g - 1 \in ValueIn(b, p) /\ 2 * g - 1 < j
        BY <1>13, <1>15, <2>1, <3>4
      <4>2. 2 * g - 1 <= i
        BY <4>1 DEF Latest, Below
      <4> QED
        BY <1>15, <3>2, <4>2
    <3>5. h \in Latest(Below(K, k))
      BY <3>3, <3>4 DEF Latest, Below
    <3>6. ValueBefore(s, w, k) = w[h].value
      BY <1>8, <3>5
    <3> QED
      BY <1>11, <1>15, <2>2, <3>2, <3>6, Zenon
  <2> QED
    BY <1>8, <2>2, <2>3, <2>4, Zenon
<1>18. ValueIn(b, p) = {} => K = {}
  BY <1>13
<1>19. ValueMoves(s, b, u, p)
  BY <1>10, <1>16, <1>17, <1>18, Zenon DEF ValueMoves
<1>20. ASSUME NEW i \in DirtyIn(b, p) PROVE b[i].dirty <=> p \in DirtyPaths(u)
  <2>1. PICK k \in K : i = 2 * k
    BY <1>14
  <2>2. p \in DirtyPaths(u) /\ k \in 1 .. n
    BY <1>9, <1>15
  <2>3. b[2 * k].dirty
    BY <1>2, <2>2, Zenon DEF DirtyPayload
  <2> QED
    BY <2>1, <2>2, <2>3
<1>21. DirtyIn(b, p) = {} => K = {}
  BY <1>14
<1>22. DirtyMoves(s, b, u, p)
  BY <1>10, <1>20, <1>21, Zenon DEF DirtyMoves
<1> QED
  BY <1>19, <1>22 DEF b

(***************************************************************************)
(* What a reader can tell who saw a value of a path when the event number  *)
(* at was the next one.                                                    *)
(***************************************************************************)
\* The value is the same, or a value event of the path from at on is in the
\* buffer, or the buffer dropped such numbers.
Explains(u, p, v, at) ==
    \/ v = EffectiveValue(u, p)
    \/ u.event_bus.dropped_events >= at
    \/ \E i \in ValueAt(u, p) : u.event_bus.events[i].sequence >= at

\* A batch that moves the value of a path has an event about it, which the
\* buffer keeps or has dropped.
LEMMA BatchExplains ==
    ASSUME NEW s, NEW u, s \in Snapshot, u \in Snapshot, NEW b \in Seq(EventPayload),
           LogsOrdered(s), Emitted(s, b, u), BatchMoves(s, b, u), NEW p \in Paths
    PROVE  Explains(u, p, EffectiveValue(s, p), s.event_bus.next_sequence)
<1> DEFINE n == Len(s.event_bus.events)
           m == Len(b)
           k == Overflow(n + m)
           first == s.event_bus.next_sequence
           d == s.event_bus.dropped_events
<1>1. n \in Nat /\ m \in Nat /\ first \in Nat /\ d \in Nat
  BY LogTypes
<1>2. /\ Len(u.event_bus.events) = n + m - k
      /\ u.event_bus.dropped_events = d + k
      /\ \A j \in 1 .. n + m - k : j + k > n =>
            /\ u.event_bus.events[j].sequence = first + (j + k - n) - 1
            /\ u.event_bus.events[j].payload = b[j + k - n]
  BY Zenon DEF Emitted
<1>3. k \in Nat
  <2> HIDE DEF n, m
  <2> QED
    BY <1>1, CapacityAssumption DEF Overflow
<1>4. first = d + n + 1
  BY Zenon DEF LogsOrdered
<1> HIDE DEF n, m, k, first, d
<1>5. CASE ValueIn(b, p) = {}
  BY <1>5, Zenon DEF BatchMoves, ValueMoves, Explains
<1>6. ASSUME NEW h \in ValueIn(b, p) PROVE Explains(u, p, EffectiveValue(s, p), first)
  <2> DEFINE j == n + h - k
  <2>1. h \in 1 .. m /\ IsValue(b[h], p)
    BY DEF ValueIn, m
  <2>2. CASE k < n + h
    <3>1. j \in 1 .. n + m - k /\ j + k > n /\ j + k - n = h /\ first + h - 1 >= first
      BY <1>1, <1>3, <2>1, <2>2
    <3> HIDE DEF j
    <3>2. u.event_bus.events[j].payload = b[h] /\ u.event_bus.events[j].sequence >= first
      BY <1>2, <3>1, Zenon
    <3>3. j \in ValueAt(u, p)
      BY <1>2, <2>1, <3>1, <3>2, Zenon DEF ValueAt, Payload
    <3> QED
      BY <3>2, <3>3, Zenon DEF Explains
  <2>3. CASE ~ k < n + h
    <3>1. d + k >= first
      BY <1>1, <1>3, <1>4, <2>1, <2>3
    <3> QED
      BY <1>2, <3>1, Zenon DEF Explains
  <2> QED
    BY <2>2, <2>3
<1> QED
  BY <1>5, <1>6, Zenon DEF first

\* Arithmetic of sequence numbers.
LEMMA AtLeastAlso ==
    ASSUME NEW a \in Nat, NEW b \in Nat, NEW c \in Nat, a >= b, c <= b
    PROVE  a >= c
OBVIOUS

\* The place, in a buffer that starts after e, of the event at i in one that
\* starts after d.
LEMMA PlaceAfter ==
    ASSUME NEW d \in Nat, NEW e \in Nat, NEW n \in Nat, NEW m \in Nat, NEW i \in 1 .. n,
           e + m + 1 >= d + n + 1, ~ d + i <= e
    PROVE  d + i - e \in 1 .. m /\ e + (d + i - e) = d + i
OBVIOUS

\* What was explained stays explained.
LEMMA StillExplains ==
    ASSUME NEW s, NEW u, s \in Snapshot, u \in Snapshot, LogsOrdered(s), LogsOrdered(u),
           EventsGrow(s, u), NEW p \in Paths, NEW v, NEW at \in Nat,
           at <= s.event_bus.next_sequence,
           Explains(u, p, EffectiveValue(s, p), s.event_bus.next_sequence),
           Explains(s, p, v, at)
    PROVE  Explains(u, p, v, at)
<1> DEFINE n == Len(s.event_bus.events)
           m == Len(u.event_bus.events)
           first == s.event_bus.next_sequence
           next == u.event_bus.next_sequence
           d == s.event_bus.dropped_events
           e == u.event_bus.dropped_events
<1>1. /\ n \in Nat /\ m \in Nat /\ first \in Nat /\ d \in Nat /\ next \in Nat /\ e \in Nat
      /\ s.event_bus.events \in Seq(RuntimeEvent) /\ u.event_bus.events \in Seq(RuntimeEvent)
  BY LogTypes, Zenon
<1>2. /\ first = d + n + 1 /\ next = e + m + 1
      /\ \A i \in 1 .. n : s.event_bus.events[i].sequence = d + i
      /\ \A i \in 1 .. m : u.event_bus.events[i].sequence = e + i
  BY Zenon DEF LogsOrdered
<1>3. /\ next >= first /\ e >= d
      /\ \A i \in 1 .. n, j \in 1 .. m : s.event_bus.events[i].sequence = u.event_bus.events[j].sequence
                                         => s.event_bus.events[i] = u.event_bus.events[j]
  BY Zenon DEF EventsGrow
<1> HIDE DEF n, m, first, next, d, e
<1>4. CASE v = EffectiveValue(s, p)
  <2>1. CASE EffectiveValue(s, p) = EffectiveValue(u, p)
    BY <1>4, <2>1, Zenon DEF Explains
  <2>2. CASE e >= first
    <3>1. e >= at
      BY <1>1, <2>2 DEF first
    <3> QED
      BY <3>1, Zenon DEF Explains, e
  <2>3. ASSUME NEW i \in ValueAt(u, p), u.event_bus.events[i].sequence >= first
        PROVE  Explains(u, p, v, at)
    <3>1. i \in 1 .. m
      BY DEF ValueAt, m
    <3>2. u.event_bus.events[i].sequence \in Nat
      <4>1. u.event_bus.events[i].sequence = e + i
        BY <1>2, <3>1, Zenon
      <4> QED
        BY <1>1, <3>1, <4>1, SMTT(30)
    <3>3. u.event_bus.events[i].sequence >= at
      <4>1. at <= first /\ u.event_bus.events[i].sequence >= first
        BY <2>3, Zenon DEF first
      <4> QED
        BY <1>1, <3>2, <4>1, AtLeastAlso, Zenon
    <3> QED
      BY <3>3, Zenon DEF Explains
  <2> QED
    BY <2>1, <2>2, <2>3, Zenon DEF Explains, e, first
<1>5. CASE d >= at
  <2>1. e >= at
    <3>1. at <= d
      BY <1>1, <1>5
    <3> QED
      BY <1>1, <1>3, <3>1, AtLeastAlso, Zenon
  <2> QED
    BY <2>1, Zenon DEF Explains, e
<1>6. ASSUME NEW i \in ValueAt(s, p), s.event_bus.events[i].sequence >= at
      PROVE  Explains(u, p, v, at)
  <2>1. i \in 1 .. n /\ IsValue(s.event_bus.events[i].payload, p)
    BY Zenon DEF ValueAt, Payload, n
  <2>2. s.event_bus.events[i].sequence = d + i
    BY <1>2, <2>1, Zenon
  <2>3. CASE d + i <= e
    <3>1. e >= at
      <4>1. d + i \in Nat /\ i \in Nat
        BY <1>1, <2>1
      <4>2. e >= d + i /\ at <= d + i
        BY <1>1, <1>6, <2>2, <2>3, <4>1
      <4> QED
        BY <1>1, <4>1, <4>2, AtLeastAlso, Zenon
    <3> QED
      BY <3>1, Zenon DEF Explains, e
  <2>4. CASE ~ d + i <= e
    <3> DEFINE j == d + i - e
    <3>1. j \in 1 .. m /\ e + j = d + i
      <4>1. e + m + 1 >= d + n + 1
        BY <1>2, <1>3, Zenon
      <4>2. n \in Nat /\ m \in Nat /\ d \in Nat /\ e \in Nat /\ i \in 1 .. n
        BY <1>1, <2>1, Zenon
      <4> QED
        BY <2>4, <4>1, <4>2, PlaceAfter
    <3> HIDE DEF j
    <3>2. u.event_bus.events[j].sequence = s.event_bus.events[i].sequence
      BY <1>2, <2>2, <3>1, Zenon
    <3>3. u.event_bus.events[j] = s.event_bus.events[i]
      BY <1>3, <2>1, <3>1, <3>2, Zenon
    <3>4. j \in ValueAt(u, p)
      BY <2>1, <3>1, <3>3, Zenon DEF ValueAt, Payload, m
    <3> QED
      BY <1>6, <3>3, <3>4, Zenon DEF Explains
  <2> QED
    BY <2>3, <2>4
<1> QED
  BY <1>4, <1>5, <1>6, Zenon DEF Explains, d

\* Every step of a session is of this kind: it changes no value and says
\* nothing, or a batch of events tells of what it changes.
Tells(s, u) ==
    \/ u.event_bus = s.event_bus /\ SameValues(s, u)
    \/ \E b \in Seq(EventPayload) : Emitted(s, b, u) /\ BatchMoves(s, b, u)

\* Such a step keeps the buffer true.
LEMMA TellsTold ==
    ASSUME NEW s, NEW u, s \in Snapshot, u \in Snapshot, Tells(s, u), Told(s)
    PROVE  Told(u)
<1>1. ASSUME NEW b \in Seq(EventPayload), Emitted(s, b, u), BatchMoves(s, b, u) PROVE Told(u)
  BY <1>1, EmittedTells, Zenon DEF Told
<1> QED
  BY <1>1, SilentTells, Zenon DEF Tells

\* And it explains every value it changes.
LEMMA TellsExplains ==
    ASSUME NEW s, NEW u, s \in Snapshot, u \in Snapshot, LogsOrdered(s), Tells(s, u), NEW p \in Paths
    PROVE  Explains(u, p, EffectiveValue(s, p), s.event_bus.next_sequence)
<1>1. ASSUME SameValues(s, u) PROVE EffectiveValue(u, p) = EffectiveValue(s, p)
  BY <1>1, Zenon DEF SameValues, EffectiveValue, CommittedValue
<1>2. CASE SameValues(s, u)
  BY <1>1, <1>2, Zenon DEF Explains
<1>3. CASE \E b \in Seq(EventPayload) : Emitted(s, b, u) /\ BatchMoves(s, b, u)
  BY <1>3, BatchExplains, Zenon
<1> QED
  BY <1>2, <1>3, Zenon DEF Tells
=============================================================================
