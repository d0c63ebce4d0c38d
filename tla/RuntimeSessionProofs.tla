------------------------ MODULE RuntimeSessionProofs -------------------------
(***************************************************************************)
(* Theorems about RuntimeSession for any paths, values, policies and       *)
(* requests: types, the consistency of the override maps and the timer     *)
(* schedule, that the code's own validation never refuses a snapshot while *)
(* the clock is not behind, that a session implements ConfigurationStore,  *)
(* and that the lifecycle driver spares compensating overrides.  They      *)
(* follow from one inductive invariant, GoodState.                         *)
(*                                                                         *)
(* The first part is about the operators of RuntimeSnapshot: each one      *)
(* keeps the type of a snapshot, and the ones that touch the override maps *)
(* and the timer schedule keep them consistent with each other.  The       *)
(* second part is about the operations of a session.                       *)
(***************************************************************************)
EXTENDS RuntimeSession, FiniteSetTheorems, TLAPS

(***************************************************************************)
(* Sets, ranks and sorted lists.                                           *)
(***************************************************************************)
\* Elements and parts of sequences.
LEMMA ElementOfSeq ==
    ASSUME NEW S, NEW seq \in Seq(S), NEW n \in 1 .. Len(seq)
    PROVE  seq[n] \in S
OBVIOUS

\* A sequence over a set is one over a larger set.
LEMMA SeqMonotonic ==
    ASSUME NEW S, NEW T, NEW seq \in Seq(S), S \subseteq T
    PROVE  seq \in Seq(T)
OBVIOUS

\* The part of a sequence before position k.
LEMMA PrefixBefore ==
    ASSUME NEW S, NEW seq \in Seq(S), NEW k \in 1 .. Len(seq)
    PROVE  /\ SubSeq(seq, 1, k - 1) \in Seq(S) /\ Len(SubSeq(seq, 1, k - 1)) = k - 1
           /\ \A i \in 1 .. k - 1 : SubSeq(seq, 1, k - 1)[i] = seq[i]
OBVIOUS

\* The image of a finite set under a function is finite.
LEMMA FiniteImage ==
    ASSUME NEW S, IsFiniteSet(S), NEW f
    PROVE  IsFiniteSet({f[x] : x \in S})
<1> DEFINE T == {f[x] : x \in S}
           g == [x \in S |-> f[x]]
<1>1. g \in Surjection(S, T)
  BY DEF Surjection
<1>2. QED
  BY <1>1, FS_Surjection

\* A non-empty set of numbers with an upper bound has a largest element.
LEMMA LargestNumber ==
    ASSUME NEW n \in Nat, NEW T \in SUBSET (1 .. n), T # {}
    PROVE  \E x \in T : \A y \in T : y <= x
<1> DEFINE R == {d \in Nat \X Nat : d[1] < d[2]}
           U == {n - x : x \in T}
<1>1. IsWellFoundedOn(R, Nat)
  BY NatLessThanWellFounded DEF OpToRel
<1>2. U \in SUBSET Nat /\ U # {}
  <2>1. PICK x \in T : TRUE
    BY Zenon
  <2>2. n - x \in U
    BY <2>1
  <2>3. \A u \in U : u \in Nat
    OBVIOUS
  <2>4. QED
    BY <2>2, <2>3
<1> HIDE DEF R
<1>3. PICK u \in U : \A v \in U : <<v, u>> \notin R
  BY <1>1, <1>2, WFMin, Zenon
<1>4. PICK x \in T : u = n - x
  BY <1>3
<1>5. \A y \in T : ~ (n - y < n - x)
  BY <1>2, <1>3, <1>4, Zenon DEF R
<1>6. QED
  BY <1>5

StrictOrder(S, R) ==
    /\ \A x \in S : <<x, x>> \notin R
    /\ \A x, y, z \in S : <<x, y>> \in R /\ <<y, z>> \in R => <<x, z>> \in R
    /\ \A x, y \in S : x = y \/ <<x, y>> \in R \/ <<y, x>> \in R

\* Listing a finite set in a strict total order gives a sequence of its elements.
LEMMA OrderedIsSeq ==
    ASSUME NEW S, IsFiniteSet(S), NEW R, StrictOrder(S, R)
    PROVE  /\ Cardinality(S) \in Nat
           /\ Ordered(S, R) \in [1 .. Cardinality(S) -> S]
           /\ \A x \in S : \E i \in 1 .. Cardinality(S) : Ordered(S, R)[i] = x
<1> DEFINE n == Cardinality(S)
           below(x) == {y \in S : <<y, x>> \in R}
           r == [x \in S |-> Rank(S, R, x)]
<1>1. n \in Nat
  BY FS_CardinalityType
<1>2. \A x \in S : /\ IsFiniteSet(below(x)) /\ Cardinality(below(x)) \in Nat
                   /\ r[x] = Cardinality(below(x)) + 1
  BY FS_Subset, FS_CardinalityType, Zenon DEF Rank
<1>3. \A x \in S : below(x) \in SUBSET S /\ x \in S \ below(x)
  BY Zenon DEF StrictOrder
<1>4. \A x, y \in S : <<x, y>> \in R => below(x) \in SUBSET below(y) /\ x \in below(y)
  BY Zenon DEF StrictOrder
<1>5. r = [x \in S |-> r[x]]
  OBVIOUS
<1> HIDE DEF r, below
<1>6. ASSUME NEW x \in S PROVE r[x] \in 1 .. n
  <2>1. Cardinality(below(x)) <= n /\ (n = Cardinality(below(x)) => S = below(x))
    BY <1>3, FS_Subset
  <2>2. Cardinality(below(x)) # n
    BY <1>3, <2>1
  <2>3. QED
    BY <1>1, <1>2, <2>1, <2>2
<1>7. ASSUME NEW x \in S, NEW y \in S, <<x, y>> \in R PROVE r[x] < r[y]
  <2>1. /\ Cardinality(below(x)) <= Cardinality(below(y))
        /\ Cardinality(below(y)) = Cardinality(below(x)) => below(y) = below(x)
    BY <1>2, <1>4, <1>7, FS_Subset
  <2>2. Cardinality(below(x)) # Cardinality(below(y))
    BY <1>3, <1>4, <1>7, <2>1
  <2>3. QED
    BY <1>2, <2>1, <2>2
<1>8. ASSUME NEW x \in S, NEW y \in S, x # y PROVE r[x] # r[y]
  <2>1. <<x, y>> \in R \/ <<y, x>> \in R
    BY <1>8 DEF StrictOrder
  <2>2. r[x] \in 1 .. n /\ r[y] \in 1 .. n
    BY <1>6
  <2>3. r[x] < r[y] \/ r[y] < r[x]
    BY <1>7, <2>1
  <2>4. QED
    BY <1>1, <2>2, <2>3
<1>9. r \in Injection(S, 1 .. n)
  BY <1>5, <1>6, <1>8 DEF Injection, IsInjective
<1>10. r \in Surjection(S, 1 .. n)
  <2>1. IsFiniteSet(1 .. n) /\ Cardinality(1 .. n) = n
    BY <1>1, FS_Interval
  <2>2. QED
    BY <1>9, <2>1, FS_Injection
<1>11. \A i \in 1 .. n : \E x \in S : r[x] = i
  BY <1>10 DEF Surjection
<1>12. \A i \in 1 .. n : Ordered(S, R)[i] \in S /\ r[Ordered(S, R)[i]] = i
  BY <1>11 DEF Ordered, r
<1>13. \A x \in S : r[x] \in 1 .. n /\ Ordered(S, R)[r[x]] = x
  BY <1>6, <1>8, <1>12
<1>14. Ordered(S, R) \in [1 .. n -> S]
  BY <1>12 DEF Ordered
<1>15. QED
  BY <1>1, <1>13, <1>14

(***************************************************************************)
(* Types.  The schedule is finite: the code keeps it in a vector.          *)
(***************************************************************************)
SnapshotOK(s) == s \in Snapshot /\ IsFiniteSet(s.pending)

\* The number of the next journal entry.
LEMMA NextJournal ==
    ASSUME NEW s, SnapshotOK(s)
    PROVE  s.persistence_journal_sequence + 1 \in Nat
<1>1. s.persistence_journal_sequence \in Nat
  BY Zenon DEF SnapshotOK, Snapshot
<1>2. QED
  BY <1>1

\* Logging leaves the values, the overrides, the schedule and the policy alone.
SameOverrides(s, u) ==
    /\ u.committed_overlay = s.committed_overlay
    /\ u.dirty_overlay = s.dirty_overlay
    /\ u.dirty_generations = s.dirty_generations
    /\ u.dirty_metadata = s.dirty_metadata
    /\ u.pending = s.pending
    /\ u.auto_reset_policy = s.auto_reset_policy

\* The values and identities of a well-typed snapshot are values and
\* configurations.
LEMMA ValuesType ==
    ASSUME NEW s \in Snapshot
    PROVE  /\ DirtyPaths(s) \in SUBSET Paths
           /\ \A p \in Paths : CommittedValue(s, p) \in Values /\ EffectiveValue(s, p) \in Values
           /\ \A p \in DirtyPaths(s) : s.dirty_overlay[p] \in Values
           /\ CommittedId(s) \in Configurations
           /\ WorkingId(s) \in Configurations
<1>1. /\ s.committed_overlay \in [Paths -> Values \cup {NoValue}]
      /\ s.dirty_overlay \in [Paths -> Values \cup {NoValue}]
  BY DEF Snapshot
<1>2. \A p \in Paths : CommittedValue(s, p) \in Values
  BY <1>1, BaselineAssumption DEF CommittedValue
<1>3. \A p \in Paths : EffectiveValue(s, p) \in Values
  BY <1>1, <1>2 DEF EffectiveValue
<1>4. QED
  BY <1>1, <1>2, <1>3 DEF DirtyPaths, CommittedId, WorkingId, Configurations

\* The payloads the operations build are event payloads.
LEMMA EventsType ==
    ASSUME NEW p \in Paths, NEW g \in Nat, NEW d \in BOOLEAN, NEW s \in Snapshot,
           NEW old \in Values \cup {NoValue}, NEW new \in Values \cup {NoValue},
           NEW k \in EventKinds, NEW ps \in SUBSET Paths
    PROVE  /\ Event(k, ps) \in EventPayload
           /\ DirtyEvent(p, g, d) \in EventPayload
           /\ ChangeEvent(p, g, old, new) \in EventPayload
           /\ ResetEvent(s, p) \in EventPayload
           /\ ClearedEvent(s, p) \in EventPayload
<1>1. /\ s.dirty_overlay[p] \in Values \cup {NoValue}
      /\ s.dirty_generations[p] \in Nat
  BY DEF Snapshot
<1>2. CommittedValue(s, p) \in Values
  BY ValuesType
<1>3. {p} \in SUBSET Paths
  OBVIOUS
<1>4. Event(k, ps) \in EventPayload
  BY DEF Event, EventPayload
<1>5. DirtyEvent(p, g, d) \in EventPayload /\ ClearedEvent(s, p) \in EventPayload
  BY <1>1, <1>3, Zenon DEF DirtyEvent, ClearedEvent, Event, EventPayload, EventKinds
<1>6. ChangeEvent(p, g, old, new) \in EventPayload
  BY <1>3, Zenon DEF ChangeEvent, Event, EventPayload, EventKinds
<1>7. ResetEvent(s, p) \in EventPayload
  BY <1>1, <1>2, <1>3, Zenon DEF ResetEvent, Event, EventPayload, EventKinds
<1>8. QED
  BY <1>4, <1>5, <1>6, <1>7

\* emit_runtime_event changes the event bus only, and keeps its type.
LEMMA EmitType ==
    ASSUME NEW s, SnapshotOK(s), NEW batch \in Seq(EventPayload)
    PROVE  /\ SnapshotOK(Emit(s, batch))
           /\ SameOverrides(s, Emit(s, batch))
<1> DEFINE bus == s.event_bus
           new == [i \in 1 .. Len(batch) |->
                     [sequence |-> bus.next_sequence + i - 1, payload |-> batch[i]]]
           all == bus.events \o new
           after == Emit(s, batch).event_bus
<1>1. s \in Snapshot /\ bus \in RuntimeEventBusState
  BY DEF SnapshotOK, Snapshot
<1>2. bus.next_sequence \in Nat /\ bus.dropped_events \in Nat /\ bus.events \in Seq(RuntimeEvent)
  BY <1>1 DEF RuntimeEventBusState
<1>3. new \in Seq(RuntimeEvent) /\ Len(new) = Len(batch)
  BY <1>2 DEF RuntimeEvent
<1> HIDE DEF new
<1>4. all \in Seq(RuntimeEvent) /\ Len(all) \in Nat
  BY <1>2, <1>3
<1> HIDE DEF all
<1>5. Overflow(Len(all)) \in Nat /\ Overflow(Len(all)) <= Len(all)
  BY <1>4, CapacityAssumption DEF Overflow
<1>6. SubSeq(all, Overflow(Len(all)) + 1, Len(all)) \in Seq(RuntimeEvent)
  BY <1>4, <1>5
<1>7. after = [next_sequence |-> bus.next_sequence + Len(batch),
               events |-> SubSeq(all, Overflow(Len(all)) + 1, Len(all)),
               dropped_events |-> bus.dropped_events + Overflow(Len(all))]
  BY <1>1, Zenon DEF Emit, Snapshot, all, new
<1> HIDE DEF after
<1>8. after \in RuntimeEventBusState
  <2>1. /\ bus.next_sequence + Len(batch) \in Nat
        /\ bus.dropped_events + Overflow(Len(all)) \in Nat
    BY <1>2, <1>5
  <2>2. QED
    BY <1>6, <1>7, <2>1, Zenon DEF RuntimeEventBusState
<1>9. Emit(s, batch) = [s EXCEPT !.event_bus = after]
  BY <1>1, <1>7 DEF Emit, all, new
<1>10. SnapshotOK(Emit(s, batch))
  BY <1>1, <1>8, <1>9, Zenon DEF SnapshotOK, Snapshot
<1>11. SameOverrides(s, Emit(s, batch))
  BY <1>1, <1>9 DEF SameOverrides, Snapshot
<1>12. QED
  BY <1>10, <1>11

\* append_audit_event changes the audit log only, and keeps its type.
LEMMA AuditType ==
    ASSUME NEW s, SnapshotOK(s), NEW seq \in Nat, NEW k \in AuditKinds, NEW ps \in SUBSET Paths,
           NEW base \in Configurations \cup {NoId}, NEW target \in Configurations \cup {NoId}
    PROVE  /\ AuditRecord(s, seq, k, ps, base, target) \in RuntimeAuditEvent
           /\ SnapshotOK(AppendAudit(s, k, ps, base, target))
           /\ SameOverrides(s, AppendAudit(s, k, ps, base, target))
<1> DEFINE log == Append(s.audit_events, AuditRecord(s, s.audit_next_sequence, k, ps, base, target))
           next == s.audit_next_sequence + 1
<1>1. s \in Snapshot /\ IsFiniteSet(s.pending)
  BY DEF SnapshotOK
<1>2. \A n \in Nat : AuditRecord(s, n, k, ps, base, target) \in RuntimeAuditEvent
  BY <1>1, ValuesType DEF AuditRecord, RuntimeAuditEvent
<1>3. s.audit_next_sequence \in Nat /\ s.audit_events \in Seq(RuntimeAuditEvent)
  BY <1>1 DEF Snapshot
<1>4. log \in Seq(RuntimeAuditEvent) /\ next \in Nat
  BY <1>2, <1>3
<1>5. AppendAudit(s, k, ps, base, target) =
        [s EXCEPT !.audit_events = log, !.audit_next_sequence = next]
  BY DEF AppendAudit
<1> HIDE DEF log, next
<1>6. SnapshotOK(AppendAudit(s, k, ps, base, target))
  BY <1>1, <1>4, <1>5, Zenon DEF SnapshotOK, Snapshot
<1>7. SameOverrides(s, AppendAudit(s, k, ps, base, target))
  BY <1>1, <1>5 DEF SameOverrides, Snapshot
<1>8. QED
  BY <1>2, <1>6, <1>7

(***************************************************************************)
(* Consistency of the override maps and the timer schedule.                *)
(***************************************************************************)
MapsAgree(s) ==
    \A p \in Paths :
        /\ p \in DirtyPaths(s) <=> s.dirty_generations[p] # 0
        /\ s.dirty_metadata[p].generation = s.dirty_generations[p]
        /\ s.dirty_generations[p] = 0 => s.dirty_metadata[p] = NoMetadata

\* Every timer belongs to an override and has a deadline.
TimersBelong(s) ==
    \A e \in s.pending :
        /\ e.path \in DirtyPaths(s) /\ e.generation \in 1 .. s.dirty_generations[e.path]
        /\ e.deadline # NoDeadline

Consistent(s) == MapsAgree(s) /\ TimersBelong(s)

\* c is s with the overrides of ps cleared.
Cleared(s, ps, c) ==
    /\ c.committed_overlay = s.committed_overlay
    /\ c.auto_reset_policy = s.auto_reset_policy
    /\ c.dirty_overlay = [p \in Paths |-> IF p \in ps THEN NoValue ELSE s.dirty_overlay[p]]
    /\ c.dirty_generations = [p \in Paths |-> IF p \in ps THEN 0 ELSE s.dirty_generations[p]]
    /\ c.dirty_metadata = [p \in Paths |-> IF p \in ps THEN NoMetadata ELSE s.dirty_metadata[p]]
    /\ c.pending = {e \in s.pending : e.path \notin ps
                                        \/ e.generation > s.dirty_generations[e.path]}

\* The override of one path once the paths ps are cleared.
LEMMA ClearedAt ==
    ASSUME NEW s, NEW ps, NEW c, Cleared(s, ps, c), NEW p \in Paths
    PROVE  /\ p \in ps => c.dirty_overlay[p] = NoValue
           /\ p \notin ps => c.dirty_overlay[p] = s.dirty_overlay[p]
  BY Zenon DEF Cleared

\* clear_dirty_entry changes the override maps and the schedule only.
LEMMA ClearDirtyType ==
    ASSUME NEW s, SnapshotOK(s), NEW ps
    PROVE  SnapshotOK(ClearDirty(s, ps)) /\ Cleared(s, ps, ClearDirty(s, ps))
<1> DEFINE o == [p \in Paths |-> IF p \in ps THEN NoValue ELSE s.dirty_overlay[p]]
           g == [p \in Paths |-> IF p \in ps THEN 0 ELSE s.dirty_generations[p]]
           m == [p \in Paths |-> IF p \in ps THEN NoMetadata ELSE s.dirty_metadata[p]]
           q == {e \in s.pending : e.path \notin ps \/ e.generation > s.dirty_generations[e.path]}
<1>1. s \in Snapshot /\ IsFiniteSet(s.pending)
  BY DEF SnapshotOK
<1>2. NoMetadata \in DirtyEntryMetadata
  BY DEF NoMetadata, DirtyEntryMetadata, NoDeadline, Intents
<1>3. /\ o \in [Paths -> Values \cup {NoValue}]
      /\ g \in [Paths -> Nat]
      /\ m \in [Paths -> DirtyEntryMetadata]
      /\ q \in SUBSET AutoResetScheduleEntry
  BY <1>1, <1>2 DEF Snapshot
<1>4. IsFiniteSet(q)
  BY <1>1, FS_Subset
<1>5. ClearDirty(s, ps) = [s EXCEPT !.dirty_overlay = o, !.dirty_generations = g,
                                    !.dirty_metadata = m, !.pending = q]
  BY <1>1 DEF ClearDirty, Snapshot
<1> HIDE DEF o, g, m, q
<1>6. SnapshotOK(ClearDirty(s, ps))
  BY <1>1, <1>3, <1>4, <1>5, Zenon DEF SnapshotOK, Snapshot
<1>7. /\ ClearDirty(s, ps).committed_overlay = s.committed_overlay
      /\ ClearDirty(s, ps).auto_reset_policy = s.auto_reset_policy
      /\ ClearDirty(s, ps).dirty_overlay = o
      /\ ClearDirty(s, ps).dirty_generations = g
      /\ ClearDirty(s, ps).dirty_metadata = m
      /\ ClearDirty(s, ps).pending = q
  BY <1>1, <1>5 DEF Snapshot
<1>8. QED
  BY <1>6, <1>7 DEF Cleared, o, g, m, q

\* clear_dirty_entry keeps the maps and the schedule consistent.
LEMMA ClearDirtyConsistent ==
    ASSUME NEW s, SnapshotOK(s), Consistent(s), NEW ps, NEW c, Cleared(s, ps, c)
    PROVE  Consistent(c)
<1>1. DirtyPaths(c) = DirtyPaths(s) \ ps
  BY DEF Cleared, DirtyPaths
<1>2. s.pending \in SUBSET AutoResetScheduleEntry /\ s.dirty_generations \in [Paths -> Nat]
  BY DEF SnapshotOK, Snapshot
<1>3. MapsAgree(c)
  BY <1>1 DEF Cleared, MapsAgree, Consistent, NoMetadata
<1>4. TimersBelong(c)
  BY <1>1, <1>2 DEF Cleared, TimersBelong, Consistent, AutoResetScheduleEntry
<1>5. QED
  BY <1>3, <1>4 DEF Consistent

\* A path written by a list is written last at one of its positions, and the
\* number of its writes is positive; a path not written has none.
LEMMA WritesToType ==
    ASSUME NEW V, NEW w \in Seq(V), NEW p
    PROVE  /\ IsFiniteSet(WritesTo(w, p)) /\ Cardinality(WritesTo(w, p)) \in Nat
           /\ WritesTo(w, p) = {} => Cardinality(WritesTo(w, p)) = 0
           /\ WritesTo(w, p) # {} =>
                /\ Cardinality(WritesTo(w, p)) > 0
                /\ LastWriteTo(w, p) \in 1 .. Len(w)
                /\ w[LastWriteTo(w, p)].path = p
<1>1. Len(w) \in Nat /\ WritesTo(w, p) \in SUBSET (1 .. Len(w))
  BY DEF WritesTo
<1>2. IsFiniteSet(WritesTo(w, p)) /\ Cardinality(WritesTo(w, p)) \in Nat
  <2>1. IsFiniteSet(1 .. Len(w))
    BY <1>1, FS_Interval
  <2>2. IsFiniteSet(WritesTo(w, p))
    BY <1>1, <2>1, FS_Subset
  <2>3. QED
    BY <2>2, FS_CardinalityType
<1>3. Cardinality(WritesTo(w, p)) = 0 <=> WritesTo(w, p) = {}
  BY <1>2, FS_EmptySet
<1>4. ASSUME WritesTo(w, p) # {} PROVE LastWriteTo(w, p) \in WritesTo(w, p)
  <2>1. \E k \in WritesTo(w, p) : \A j \in WritesTo(w, p) : j <= k
    BY <1>1, <1>4, LargestNumber, Zenon
  <2>2. QED
    BY <2>1 DEF LastWriteTo
<1>5. QED
  BY <1>1, <1>2, <1>3, <1>4 DEF WritesTo

\* A lease armed at a time ends at that time or later.
LEMMA ArmedType ==
    ASSUME NEW s \in Snapshot, NEW p \in Paths, NEW t \in Nat
    PROVE  Armed(s, p, t) \in Nat /\ (Armed(s, p, t) # NoDeadline => Armed(s, p, t) >= t)
<1>1. s.auto_reset_policy[p] \in [enabled: BOOLEAN, timeout: Nat]
  BY DEF Snapshot, AutoResetPolicy
<1>2. QED
  BY <1>1 DEF Armed, NoDeadline

\* u is s after writes to the paths of a set: new generations, metadata of the
\* write, and only the timers of the new generations are added.
Overridden(s, written, u, t) ==
    /\ u.committed_overlay = s.committed_overlay
    /\ u.auto_reset_policy = s.auto_reset_policy
    /\ \A p \in written :
         /\ u.dirty_overlay[p] \in Values
         /\ u.dirty_generations[p] > s.dirty_generations[p]
         /\ u.dirty_metadata[p].generation = u.dirty_generations[p]
         /\ u.dirty_metadata[p].dirty_since = t
         /\ u.dirty_metadata[p].reset_deadline = Armed(s, p, t)
         /\ u.dirty_metadata[p].hard_cap_deadline = NoDeadline
    /\ \A p \in Paths \ written :
         /\ u.dirty_overlay[p] = s.dirty_overlay[p]
         /\ u.dirty_generations[p] = s.dirty_generations[p]
         /\ u.dirty_metadata[p] = s.dirty_metadata[p]
    /\ \A e \in u.pending : e \in s.pending
         \/ (e.path \in written /\ e.deadline # NoDeadline
              /\ e.generation \in s.dirty_generations[e.path] + 1 .. u.dirty_generations[e.path])

\* apply_dirty_write of a list of writes keeps the types and the consistency.
LEMMA ApplyDirtyWritesType ==
    ASSUME NEW s, SnapshotOK(s), NEW w \in Seq([path: Paths, value: Values]),
           NEW intent \in Intents, NEW t \in Nat
    PROVE  LET written == {p \in Paths : WritesTo(w, p) # {}}
               u == ApplyDirtyWrites(s, w, intent, t)
           IN  SnapshotOK(u) /\ Overridden(s, written, u, t)
<1> DEFINE written == {p \in Paths : WritesTo(w, p) # {}}
           generation(p) == s.dirty_generations[p] + Cardinality(WritesTo(w, p))
           lease(p, n) == [path |-> p, generation |-> n, deadline |-> Armed(s, p, t),
                           kind |-> "LeaseExpiry"]
           leases(p) == {lease(p, n) : n \in s.dirty_generations[p] + 1 .. generation(p)}
           armed == {p \in written : Armed(s, p, t) # NoDeadline}
           o == [p \in Paths |-> IF p \in written THEN w[LastWriteTo(w, p)].value
                                 ELSE s.dirty_overlay[p]]
           g == [p \in Paths |-> generation(p)]
           entry(p) == [generation |-> generation(p), dirty_since |-> t,
                        reset_deadline |-> Armed(s, p, t),
                        hard_cap_deadline |-> NoDeadline, intent |-> intent]
           m == [p \in Paths |-> IF p \in written THEN entry(p) ELSE s.dirty_metadata[p]]
           new == UNION {leases(p) : p \in armed}
           q == s.pending \cup new
           j == s.persistence_journal_sequence + Len(w)
           u == ApplyDirtyWrites(s, w, intent, t)
<1>1. s \in Snapshot /\ IsFiniteSet(s.pending)
  BY DEF SnapshotOK
<1>2. /\ s.dirty_generations \in [Paths -> Nat]
      /\ s.dirty_overlay \in [Paths -> Values \cup {NoValue}]
      /\ s.dirty_metadata \in [Paths -> DirtyEntryMetadata]
      /\ s.pending \in SUBSET AutoResetScheduleEntry
      /\ s.persistence_journal_sequence \in Nat
  BY <1>1 DEF Snapshot
<1>3. \A p \in Paths : /\ generation(p) \in Nat
                       /\ p \in written => generation(p) > s.dirty_generations[p]
                       /\ p \notin written => generation(p) = s.dirty_generations[p]
  BY <1>2, WritesToType, SMTT(30)
<1>4. \A p \in written : w[LastWriteTo(w, p)].value \in Values
  <2>1. \A k \in 1 .. Len(w) : w[k] \in [path: Paths, value: Values]
    BY ElementOfSeq, Zenon
  <2>2. \A p \in written : LastWriteTo(w, p) \in 1 .. Len(w)
    BY WritesToType
  <2>3. QED
    BY <2>1, <2>2
<1>5. o \in [Paths -> Values \cup {NoValue}]
  BY <1>2, <1>4
<1>6. g \in [Paths -> Nat]
  BY <1>3
<1>7. \A p \in Paths : Armed(s, p, t) \in Nat
  BY <1>1, ArmedType
<1>8. m \in [Paths -> DirtyEntryMetadata]
  <2>1. \A p \in Paths : entry(p) \in DirtyEntryMetadata
    BY <1>3, <1>7 DEF DirtyEntryMetadata, NoDeadline
  <2> HIDE DEF entry
  <2>2. QED
    BY <1>2, <2>1
<1>9. \A e \in new : /\ e \in AutoResetScheduleEntry
                     /\ e.path \in written /\ e.deadline # NoDeadline
                     /\ e.generation \in s.dirty_generations[e.path] + 1 .. g[e.path]
  BY <1>2, <1>3, <1>7 DEF AutoResetScheduleEntry, DeadlineKinds
<1>10. IsFiniteSet(new)
  <2>1. \A p \in armed : IsFiniteSet(leases(p))
    <3> SUFFICES ASSUME NEW p \in armed PROVE IsFiniteSet(leases(p))
      OBVIOUS
    <3> DEFINE f == [n \in Nat |-> lease(p, n)]
               I == s.dirty_generations[p] + 1 .. generation(p)
    <3>1. /\ s.dirty_generations[p] + 1 \in Nat /\ generation(p) \in Nat
          /\ s.dirty_generations[p] + 1 \in Int /\ generation(p) \in Int
      BY <1>2, <1>3
    <3> HIDE DEF generation
    <3>2. IsFiniteSet(I) /\ I \subseteq Nat
      <4>1. IsFiniteSet(I)
        BY <3>1, FS_Interval, Zenon
      <4>2. QED
        BY <3>1, <4>1
    <3>3. leases(p) = {f[n] : n \in I}
      BY <3>2, Zenon
    <3> HIDE DEF I, f, leases
    <3>4. IsFiniteSet({f[n] : n \in I})
      BY <3>2, FiniteImage, Zenon
    <3>5. QED
      BY <3>3, <3>4, Zenon
  <2>2. IsFiniteSet(armed)
    BY PathsAssumption, FS_Subset
  <2> DEFINE h == [p \in Paths |-> leases(p)]
             family == {h[p] : p \in armed}
  <2>3. family = {leases(p) : p \in armed}
    OBVIOUS
  <2>4. IsFiniteSet(family)
    BY <2>2, FiniteImage, Zenon
  <2>5. \A T \in family : IsFiniteSet(T)
    BY <2>1
  <2> HIDE DEF family
  <2>6. QED
    BY <2>3, <2>4, <2>5, FS_UNION, Zenon
<1>11. IsFiniteSet(q) /\ q \in SUBSET AutoResetScheduleEntry
  BY <1>1, <1>2, <1>9, <1>10, FS_Union, Zenon
<1>12. j \in Nat
  BY <1>2
<1>13. u = [s EXCEPT !.dirty_overlay = o, !.dirty_generations = g, !.dirty_metadata = m,
                     !.pending = q, !.persistence_journal_sequence = j]
  BY <1>1 DEF ApplyDirtyWrites, Snapshot
<1>14. \A p \in Paths :
          /\ o[p] = IF p \in written THEN w[LastWriteTo(w, p)].value ELSE s.dirty_overlay[p]
          /\ g[p] = generation(p)
          /\ m[p] = IF p \in written THEN entry(p) ELSE s.dirty_metadata[p]
  OBVIOUS
<1> HIDE DEF o, g, m, q, j, u
<1>15. SnapshotOK(u)
  BY <1>1, <1>5, <1>6, <1>8, <1>11, <1>12, <1>13, Zenon DEF SnapshotOK, Snapshot
<1>16. /\ u.committed_overlay = s.committed_overlay
       /\ u.auto_reset_policy = s.auto_reset_policy
       /\ u.dirty_overlay = o
       /\ u.dirty_generations = g
       /\ u.dirty_metadata = m
       /\ u.pending = q
  BY <1>1, <1>13 DEF Snapshot
<1>17. Overridden(s, written, u, t)
  <2>1. \A e \in u.pending : e \in s.pending
         \/ (e.path \in written /\ e.deadline # NoDeadline
              /\ e.generation \in s.dirty_generations[e.path] + 1 .. u.dirty_generations[e.path])
    BY <1>9, <1>16 DEF q
  <2> HIDE DEF new, generation
  <2>2. ASSUME NEW p \in written
        PROVE  /\ u.dirty_overlay[p] \in Values
               /\ u.dirty_generations[p] > s.dirty_generations[p]
               /\ u.dirty_metadata[p].generation = u.dirty_generations[p]
               /\ u.dirty_metadata[p].dirty_since = t
               /\ u.dirty_metadata[p].reset_deadline = Armed(s, p, t)
               /\ u.dirty_metadata[p].hard_cap_deadline = NoDeadline
    <3>1. u.dirty_overlay[p] \in Values
      BY <1>4, <1>14, <1>16, Zenon
    <3>2. u.dirty_generations[p] = generation(p) /\ generation(p) > s.dirty_generations[p]
      BY <1>3, <1>14, <1>16, Zenon
    <3>3. u.dirty_metadata[p] = entry(p)
      BY <1>14, <1>16
    <3>4. QED
      BY <3>1, <3>2, <3>3
  <2>3. ASSUME NEW p \in Paths \ written
        PROVE  /\ u.dirty_overlay[p] = s.dirty_overlay[p]
               /\ u.dirty_generations[p] = s.dirty_generations[p]
               /\ u.dirty_metadata[p] = s.dirty_metadata[p]
    BY <1>3, <1>14, <1>16, Zenon
  <2> HIDE DEF written
  <2>4. QED
    BY <1>16, <2>1, <2>2, <2>3 DEF Overridden
<1>18. QED
  BY <1>15, <1>17 DEF u

\* Writing keeps the maps and the schedule consistent.
LEMMA OverriddenConsistent ==
    ASSUME NEW s, SnapshotOK(s), Consistent(s), NEW written \in SUBSET Paths, NEW t,
           NEW u, SnapshotOK(u), Overridden(s, written, u, t)
    PROVE  Consistent(u)
<1>1. /\ s.dirty_generations \in [Paths -> Nat] /\ u.dirty_generations \in [Paths -> Nat]
      /\ u.pending \in SUBSET AutoResetScheduleEntry
      /\ s.pending \in SUBSET AutoResetScheduleEntry
  BY DEF SnapshotOK, Snapshot
<1>2. DirtyPaths(u) = DirtyPaths(s) \cup written
  BY NoValueAssumption DEF Overridden, DirtyPaths
<1>3. MapsAgree(u)
  <2> SUFFICES ASSUME NEW p \in Paths
               PROVE  /\ p \in DirtyPaths(u) <=> u.dirty_generations[p] # 0
                      /\ u.dirty_metadata[p].generation = u.dirty_generations[p]
                      /\ u.dirty_generations[p] = 0 => u.dirty_metadata[p] = NoMetadata
    BY DEF MapsAgree
  <2>1. CASE p \in written
    BY <1>1, <1>2, <2>1 DEF Overridden
  <2>2. CASE p \notin written
    BY <1>2, <2>2 DEF Overridden, Consistent, MapsAgree
  <2>3. QED
    BY <2>1, <2>2
<1>4. TimersBelong(u)
  <2> SUFFICES ASSUME NEW e \in u.pending
               PROVE  /\ e.path \in DirtyPaths(u) /\ e.generation \in 1 .. u.dirty_generations[e.path]
                      /\ e.deadline # NoDeadline
    BY DEF TimersBelong
  <2>1. e.path \in Paths /\ e.generation \in Nat
    BY <1>1 DEF AutoResetScheduleEntry
  <2>2. CASE e \in s.pending
    <3>1. /\ e.path \in DirtyPaths(s) /\ e.generation \in 1 .. s.dirty_generations[e.path]
          /\ e.deadline # NoDeadline
      BY <2>2 DEF Consistent, TimersBelong
    <3>2. u.dirty_generations[e.path] >= s.dirty_generations[e.path]
      BY <1>1, <2>1 DEF Overridden
    <3>3. QED
      BY <1>1, <1>2, <2>1, <3>1, <3>2
  <2>3. CASE e \notin s.pending
    BY <1>1, <1>2, <2>1, <2>3 DEF Overridden
  <2>4. QED
    BY <2>2, <2>3
<1>5. QED
  BY <1>3, <1>4 DEF Consistent

\* u is s normalised at time t.
Normalized(s, t, u) ==
    /\ u.committed_overlay = s.committed_overlay
    /\ u.auto_reset_policy = s.auto_reset_policy
    /\ u.dirty_overlay = s.dirty_overlay
    /\ \A p \in DirtyPaths(s) :
         /\ u.dirty_generations[p] = NormalizedGeneration(s, p)
         /\ u.dirty_metadata[p] = NormalizedMetadata(s, p, t)
    /\ \A p \in Paths \ DirtyPaths(s) :
         /\ u.dirty_generations[p] = s.dirty_generations[p]
         /\ u.dirty_metadata[p] = NoMetadata
    /\ \A e \in u.pending :
         /\ e.path \in DirtyPaths(s)
         /\ \/ e \in s.pending
            \/ /\ e.generation = NormalizedMetadata(s, e.path, t).generation
               /\ e.deadline # NoDeadline

\* What normalisation makes of the metadata of an override.
LEMMA NormalizedMetadataType ==
    ASSUME NEW s \in Snapshot, NEW p \in Paths, NEW t \in Nat
    PROVE  LET m == s.dirty_metadata[p]
               n == NormalizedMetadata(s, p, t)
           IN  /\ NormalizedGeneration(s, p) \in Nat \ {0}
               /\ NormalizedGeneration(s, p) >= s.dirty_generations[p]
               /\ n \in DirtyEntryMetadata
               /\ n.generation = NormalizedGeneration(s, p)
               /\ n.dirty_since = IF m.dirty_since = 0 THEN t ELSE m.dirty_since
               /\ n.reset_deadline =
                    IF m.reset_deadline = NoDeadline THEN Armed(s, p, t) ELSE m.reset_deadline
               /\ n.hard_cap_deadline = m.hard_cap_deadline
               /\ n.intent = m.intent
<1>1. s.dirty_metadata[p] \in DirtyEntryMetadata /\ s.dirty_generations[p] \in Nat
  BY DEF Snapshot
<1>2. /\ NormalizedGeneration(s, p) \in Nat \ {0}
      /\ NormalizedGeneration(s, p) >= s.dirty_generations[p]
  BY <1>1 DEF NormalizedGeneration, DirtyEntryMetadata
<1>3. Armed(s, p, t) \in Nat
  BY ArmedType
<1>4. QED
  BY <1>1, <1>2, <1>3, Zenon DEF NormalizedMetadata, DirtyEntryMetadata

\* normalize_runtime_snapshot_state changes the override maps and the schedule
\* only, and keeps their types.
LEMMA NormalizeType ==
    ASSUME NEW s, SnapshotOK(s), NEW t \in Nat
    PROVE  SnapshotOK(Normalize(s, t)) /\ Normalized(s, t, Normalize(s, t))
<1> DEFINE dirty == DirtyPaths(s)
           m == [p \in Paths |-> IF p \in dirty THEN NormalizedMetadata(s, p, t) ELSE NoMetadata]
           g == [p \in Paths |-> IF p \in dirty THEN NormalizedGeneration(s, p)
                                 ELSE s.dirty_generations[p]]
           bounds == {BoundEntry(m[p], p, k) : p \in dirty, k \in DeadlineKinds}
           q == {e \in s.pending : e.path \in dirty} \cup {e \in bounds : e.deadline # NoDeadline}
           u == Normalize(s, t)
<1>1. s \in Snapshot /\ IsFiniteSet(s.pending)
  BY DEF SnapshotOK
<1>2. /\ s.dirty_generations \in [Paths -> Nat]
      /\ s.dirty_metadata \in [Paths -> DirtyEntryMetadata]
      /\ s.pending \in SUBSET AutoResetScheduleEntry
      /\ dirty \in SUBSET Paths
  BY <1>1 DEF Snapshot, DirtyPaths
<1>3. NoMetadata \in DirtyEntryMetadata
  BY DEF NoMetadata, DirtyEntryMetadata, NoDeadline, Intents
<1>4. \A p \in Paths : /\ NormalizedGeneration(s, p) \in Nat
                       /\ NormalizedMetadata(s, p, t) \in DirtyEntryMetadata
  BY <1>1, NormalizedMetadataType
<1>5. m \in [Paths -> DirtyEntryMetadata] /\ g \in [Paths -> Nat]
  BY <1>2, <1>3, <1>4
<1>6. \A p \in Paths :
         /\ m[p] = IF p \in dirty THEN NormalizedMetadata(s, p, t) ELSE NoMetadata
         /\ g[p] = IF p \in dirty THEN NormalizedGeneration(s, p) ELSE s.dirty_generations[p]
  OBVIOUS
<1>7. u = [s EXCEPT !.dirty_generations = g, !.dirty_metadata = m, !.pending = q]
  BY <1>1 DEF Normalize, Snapshot
<1> HIDE DEF m, g, u
<1>8. \A e \in bounds : /\ e \in AutoResetScheduleEntry
                        /\ e.path \in dirty /\ e.generation = m[e.path].generation
  BY <1>2, <1>5 DEF BoundEntry, DeadlineOf, AutoResetScheduleEntry, DirtyEntryMetadata, DeadlineKinds
<1>9. IsFiniteSet(bounds)
  <2> DEFINE D == dirty \X DeadlineKinds
             f == [d \in D |-> BoundEntry(m[d[1]], d[1], d[2])]
  <2>1. IsFiniteSet(dirty)
    BY <1>2, PathsAssumption, FS_Subset
  <2>2. IsFiniteSet(DeadlineKinds)
    <3>1. DeadlineKinds = {"LeaseExpiry"} \cup {"HardCap"}
      BY DEF DeadlineKinds
    <3>2. QED
      BY <3>1, FS_Singleton, FS_Union, Zenon
  <2>3. IsFiniteSet(D)
    BY <2>1, <2>2, FS_Product
  <2>4. bounds = {f[d] : d \in D}
    <3>1. ASSUME NEW e \in bounds PROVE e \in {f[d] : d \in D}
      <4>1. PICK p \in dirty, k \in DeadlineKinds : e = BoundEntry(m[p], p, k)
        OBVIOUS
      <4>2. <<p, k>> \in D /\ f[<<p, k>>] = e
        BY <4>1
      <4>3. QED
        BY <4>2
    <3>2. ASSUME NEW d \in D PROVE f[d] \in bounds
      <4>1. d[1] \in dirty /\ d[2] \in DeadlineKinds
        OBVIOUS
      <4>2. f[d] = BoundEntry(m[d[1]], d[1], d[2])
        OBVIOUS
      <4>3. QED
        BY <4>1, <4>2
    <3> HIDE DEF bounds, f, D
    <3>3. QED
      BY <3>1, <3>2
  <2> HIDE DEF D, f, bounds
  <2>5. QED
    BY <2>3, <2>4, FiniteImage
<1> HIDE DEF bounds
<1>10. IsFiniteSet(q) /\ q \in SUBSET AutoResetScheduleEntry
  <2>1. /\ IsFiniteSet({e \in s.pending : e.path \in dirty})
        /\ IsFiniteSet({e \in bounds : e.deadline # NoDeadline})
    BY <1>1, <1>9, FS_Subset
  <2>2. IsFiniteSet(q)
    BY <2>1, FS_Union, Zenon
  <2>3. QED
    BY <1>2, <1>8, <2>2
<1>11. \A e \in q : /\ e.path \in dirty
                    /\ \/ e \in s.pending
                       \/ e.generation = m[e.path].generation /\ e.deadline # NoDeadline
  BY <1>8
<1> HIDE DEF q, dirty
<1>12. SnapshotOK(u)
  BY <1>1, <1>5, <1>7, <1>10, Zenon DEF SnapshotOK, Snapshot
<1>13. /\ u.committed_overlay = s.committed_overlay
       /\ u.auto_reset_policy = s.auto_reset_policy
       /\ u.dirty_overlay = s.dirty_overlay
       /\ u.dirty_generations = g
       /\ u.dirty_metadata = m
       /\ u.pending = q
  BY <1>1, <1>7 DEF Snapshot
<1>14. Normalized(s, t, u)
  BY <1>2, <1>6, <1>11, <1>13 DEF Normalized, dirty
<1>15. QED
  BY <1>12, <1>14 DEF u

\* Normalising makes the override maps consistent, also on a persisted snapshot
\* that came with values and metadata but without generations.
LEMMA NormalizeConsistent ==
    ASSUME NEW s, SnapshotOK(s), TimersBelong(s), NEW t \in Nat,
           \A p \in Paths \ DirtyPaths(s) : s.dirty_generations[p] = 0,
           NEW u, SnapshotOK(u), Normalized(s, t, u)
    PROVE  Consistent(u)
<1>1. s \in Snapshot /\ u \in Snapshot
  BY DEF SnapshotOK
<1>2. /\ s.dirty_generations \in [Paths -> Nat] /\ u.dirty_generations \in [Paths -> Nat]
      /\ u.pending \in SUBSET AutoResetScheduleEntry
      /\ DirtyPaths(s) \in SUBSET Paths
  BY <1>1, Zenon DEF Snapshot, DirtyPaths
<1>3. DirtyPaths(u) = DirtyPaths(s)
  BY DEF Normalized, DirtyPaths
<1>4. \A p \in Paths : /\ NormalizedGeneration(s, p) \in Nat \ {0}
                       /\ NormalizedGeneration(s, p) >= s.dirty_generations[p]
                       /\ NormalizedMetadata(s, p, t).generation = NormalizedGeneration(s, p)
  BY <1>1, NormalizedMetadataType
<1>5. MapsAgree(u)
  BY <1>2, <1>3, <1>4 DEF Normalized, MapsAgree, NoMetadata
<1>6. TimersBelong(u)
  <2> SUFFICES ASSUME NEW e \in u.pending
               PROVE  /\ e.path \in DirtyPaths(u) /\ e.generation \in 1 .. u.dirty_generations[e.path]
                      /\ e.deadline # NoDeadline
    BY DEF TimersBelong
  <2>1. e.path \in DirtyPaths(s) /\ e.path \in Paths /\ e.generation \in Nat
    BY <1>2 DEF Normalized, AutoResetScheduleEntry
  <2>2. u.dirty_generations[e.path] = NormalizedGeneration(s, e.path)
    BY <2>1 DEF Normalized
  <2>3. CASE e \in s.pending
    BY <1>2, <1>3, <1>4, <2>1, <2>2, <2>3 DEF TimersBelong
  <2>4. CASE e \notin s.pending
    BY <1>3, <1>4, <2>1, <2>2, <2>4 DEF Normalized
  <2>5. QED
    BY <2>3, <2>4
<1>7. QED
  BY <1>5, <1>6 DEF Consistent

(***************************************************************************)
(* The auto-reset scheduler.                                               *)
(***************************************************************************)
\* The schedule order is a strict total order on schedule entries.
LEMMA PrecedesOrder ==
    /\ \A e \in AutoResetScheduleEntry : ~ Precedes(e, e)
    /\ \A e, f, g \in AutoResetScheduleEntry :
          Precedes(e, f) /\ Precedes(f, g) => Precedes(e, g)
    /\ \A e, f \in AutoResetScheduleEntry : e = f \/ Precedes(e, f) \/ Precedes(f, e)
<1>1. \A e \in AutoResetScheduleEntry :
         /\ e.path \in Nat /\ e.deadline \in Nat /\ e.generation \in Nat
         /\ e.kind = "LeaseExpiry" \/ e.kind = "HardCap"
  BY PathsAssumption, Zenon DEF AutoResetScheduleEntry, DeadlineKinds
<1>2. \A e \in AutoResetScheduleEntry : ~ Precedes(e, e)
  BY <1>1 DEF Precedes
<1>3. \A e, f, g \in AutoResetScheduleEntry :
         Precedes(e, f) /\ Precedes(f, g) => Precedes(e, g)
  BY <1>1 DEF Precedes
<1>4. \A e, f \in AutoResetScheduleEntry :
         e = f \/ Precedes(e, f) \/ Precedes(f, e)
  <2> SUFFICES ASSUME NEW e \in AutoResetScheduleEntry, NEW f \in AutoResetScheduleEntry,
                      ~ Precedes(e, f), ~ Precedes(f, e)
               PROVE  e = f
    OBVIOUS
  <2>1. e.deadline = f.deadline /\ e.path = f.path /\ e.generation = f.generation /\ e.kind = f.kind
    BY <1>1 DEF Precedes
  <2>2. QED
    BY <2>1 DEF AutoResetScheduleEntry
<1>5. QED
  BY <1>2, <1>3, <1>4

\* The entries that fire are finitely many entries of the schedule, and so are
\* the steps they cause.
LEMMA FiredType ==
    ASSUME NEW s, SnapshotOK(s), NEW t \in Nat, NEW esc
    PROVE  /\ Fired(s, t, esc) \in SUBSET s.pending
           /\ IsFiniteSet(Fired(s, t, esc))
           /\ Reverted(s, t, esc) \in SUBSET Paths
           /\ Cardinality(Reverted(s, t, esc)) \in Nat
           /\ Steps(s, t, esc) \in SUBSET [entry: s.pending, step: {1, 2}]
           /\ IsFiniteSet(Steps(s, t, esc))
<1> DEFINE F == Fired(s, t, esc)
           S == Steps(s, t, esc)
           P == Reverted(s, t, esc)
<1>1. /\ s.pending \in SUBSET AutoResetScheduleEntry /\ IsFiniteSet(s.pending)
      /\ F \in SUBSET s.pending
  BY DEF SnapshotOK, Snapshot, Fired, Due
<1>2. IsFiniteSet(F)
  BY <1>1, FS_Subset
<1>3. P \in SUBSET Paths
  BY <1>1 DEF Reverted, AutoResetScheduleEntry
<1>4. Cardinality(P) \in Nat
  BY <1>3, PathsAssumption, FS_Subset, FS_CardinalityType
<1>5. S \in SUBSET [entry: s.pending, step: {1, 2}]
  BY <1>1 DEF Steps
<1>6. IsFiniteSet(S)
  <2> DEFINE f1 == [e \in F |-> [entry |-> e, step |-> 1]]
             f2 == [e \in F \ esc |-> [entry |-> e, step |-> 2]]
  <2>1. S = {f1[e] : e \in F} \cup {f2[e] : e \in F \ esc}
    BY DEF Steps
  <2>2. IsFiniteSet(F \ esc)
    BY <1>2, FS_Subset
  <2> HIDE DEF f1, f2, F
  <2>3. IsFiniteSet({f1[e] : e \in F}) /\ IsFiniteSet({f2[e] : e \in F \ esc})
    BY <1>2, <2>2, FiniteImage
  <2>4. QED
    BY <2>1, <2>3, FS_Union, Zenon
<1>7. QED
  BY <1>1, <1>2, <1>3, <1>4, <1>5, <1>6

\* Any set of these steps is listed in the order the code takes them.
LEMMA InOrderType ==
    ASSUME NEW s, SnapshotOK(s), NEW steps \in SUBSET [entry: s.pending, step: {1, 2}],
           IsFiniteSet(steps)
    PROVE  /\ InOrder(steps) \in Seq(steps)
           /\ Len(InOrder(steps)) = Cardinality(steps)
           /\ DOMAIN InOrder(steps) = 1 .. Len(InOrder(steps))
           /\ \A a \in steps : \E i \in 1 .. Len(InOrder(steps)) : InOrder(steps)[i] = a
<1> DEFINE R == {d \in steps \X steps : StepPrecedes(d[1], d[2])}
           q == InOrder(steps)
<1>1. \A a \in steps : /\ a.entry \in AutoResetScheduleEntry /\ a.step \in {1, 2}
                       /\ a = [entry |-> a.entry, step |-> a.step]
  BY DEF SnapshotOK, Snapshot
<1>2. \A a, b \in steps : <<a, b>> \in R <=> StepPrecedes(a, b)
  OBVIOUS
<1> HIDE DEF R
<1>3. StrictOrder(steps, R)
  <2>1. \A a \in steps : ~ StepPrecedes(a, a)
    BY <1>1, PrecedesOrder DEF StepPrecedes
  <2>2. \A a, b, c \in steps : StepPrecedes(a, b) /\ StepPrecedes(b, c) => StepPrecedes(a, c)
    BY <1>1, PrecedesOrder DEF StepPrecedes
  <2>3. \A a, b \in steps : a = b \/ StepPrecedes(a, b) \/ StepPrecedes(b, a)
    BY <1>1, PrecedesOrder DEF StepPrecedes
  <2>4. QED
    BY <1>2, <2>1, <2>2, <2>3 DEF StrictOrder
<1>4. q = Ordered(steps, R)
  BY DEF InOrder, R
<1> HIDE DEF q
<1>5. /\ Cardinality(steps) \in Nat /\ q \in [1 .. Cardinality(steps) -> steps]
      /\ \A a \in steps : \E i \in 1 .. Cardinality(steps) : q[i] = a
  BY <1>3, <1>4, OrderedIsSeq
<1>6. q \in Seq(steps) /\ Len(q) = Cardinality(steps)
  BY <1>5
<1>7. QED
  BY <1>5, <1>6 DEF q

\* The events of the entries that fire are event payloads.
LEMMA FiringEventsType ==
    ASSUME NEW s, SnapshotOK(s), NEW t \in Nat, NEW esc
    PROVE  FiringEvents(s, t, esc) \in Seq(EventPayload)
<1> DEFINE S == Steps(s, t, esc)
           q == InOrder(S)
<1>1. q \in Seq(S) /\ S \in SUBSET [entry: s.pending, step: {1, 2}]
  BY FiredType, InOrderType
<1>2. ASSUME NEW a \in S PROVE FiringEvent(s, a, esc) \in EventPayload
  <2>1. a.entry \in AutoResetScheduleEntry /\ s \in Snapshot
    BY <1>1, Zenon DEF SnapshotOK, Snapshot
  <2>2. /\ a.entry.path \in Paths /\ a.entry.generation \in Nat
        /\ a.entry.kind \in DeadlineKinds
    BY <2>1 DEF AutoResetScheduleEntry
  <2>3. ResetEvent(s, a.entry.path) \in EventPayload /\ ClearedEvent(s, a.entry.path) \in EventPayload
    <3>1. /\ s.dirty_overlay[a.entry.path] \in Values \cup {NoValue}
          /\ "ResetApplied" \in EventKinds /\ {a.entry.path} \in SUBSET Paths
      BY <2>1, <2>2, Zenon DEF Snapshot, EventKinds
    <3>2. QED
      BY <2>1, <2>2, <3>1, EventsType, Zenon
  <2>4. [Event("OverrideEscalated", {a.entry.path}) EXCEPT !.generation = a.entry.generation,
                                                           !.bound = a.entry.kind] \in EventPayload
    BY <2>2, Zenon DEF Event, EventPayload, EventKinds
  <2>5. QED
    BY <2>3, <2>4 DEF FiringEvent
<1> HIDE DEF S, q
<1>3. \A i \in 1 .. Len(q) : FiringEvent(s, q[i], esc) \in EventPayload
  BY <1>1, <1>2, ElementOfSeq
<1>4. [i \in 1 .. Len(q) |-> FiringEvent(s, q[i], esc)] \in Seq(EventPayload)
  BY <1>1, <1>3
<1>5. QED
  BY <1>4 DEF FiringEvents, q, S

\* The audit records of the entries that fire are audit records.
LEMMA FiringAuditType ==
    ASSUME NEW s, SnapshotOK(s), NEW t \in Nat, NEW esc
    PROVE  /\ FiringAudit(s, t, esc) \in Seq(RuntimeAuditEvent)
           /\ \A i \in 1 .. Len(FiringAudit(s, t, esc)) :
                 FiringAudit(s, t, esc)[i].sequence = s.audit_next_sequence + i - 1
<1> DEFINE S == {a \in Steps(s, t, esc) : a.step = 1}
           q == InOrder(S)
           record(i) == AuditRecord(ClearDirty(s, RevertedBy(q, i, esc)),
                                    s.audit_next_sequence + i - 1,
                                    IF q[i].entry \in esc THEN "Escalation" ELSE "Reset",
                                    {q[i].entry.path}, NoId, NoId)
           log == [i \in 1 .. Len(q) |-> record(i)]
<1>1. IsFiniteSet(S) /\ S \in SUBSET [entry: s.pending, step: {1, 2}]
  BY FiredType, FS_Subset
<1>2. q \in Seq(S) /\ Len(q) \in Nat
  BY <1>1, InOrderType
<1>3. s.audit_next_sequence \in Nat /\ s.pending \in SUBSET AutoResetScheduleEntry
  BY DEF SnapshotOK, Snapshot
<1>4. FiringAudit(s, t, esc) = log
  BY DEF FiringAudit
<1> HIDE DEF S, q
<1>5. ASSUME NEW i \in 1 .. Len(q)
      PROVE  record(i) \in RuntimeAuditEvent /\ record(i).sequence = s.audit_next_sequence + i - 1
  <2>1. q[i] \in S
    BY <1>2, <1>5, ElementOfSeq
  <2>2. {q[i].entry.path} \in SUBSET Paths
    BY <1>1, <1>3, <2>1 DEF AutoResetScheduleEntry
  <2>3. SnapshotOK(ClearDirty(s, RevertedBy(q, i, esc)))
    BY ClearDirtyType
  <2>4. s.audit_next_sequence + i - 1 \in Nat
    BY <1>2, <1>3, <1>5
  <2>5. (IF q[i].entry \in esc THEN "Escalation" ELSE "Reset") \in AuditKinds
    BY DEF AuditKinds
  <2>6. record(i) \in RuntimeAuditEvent
    BY <2>2, <2>3, <2>4, <2>5, AuditType
  <2>7. record(i).sequence = s.audit_next_sequence + i - 1
    BY DEF AuditRecord
  <2>8. QED
    BY <2>6, <2>7
<1> HIDE DEF record
<1>6. log \in Seq(RuntimeAuditEvent) /\ Len(log) = Len(q)
  BY <1>2, <1>5
<1>7. QED
  BY <1>4, <1>5, <1>6

\* u is s after the overrides of ps ended: what is left of the other overrides
\* is as it was, except that a deadline may have been dropped.
Ended(s, ps, u) ==
    /\ u.committed_overlay = s.committed_overlay
    /\ u.auto_reset_policy = s.auto_reset_policy
    /\ u.dirty_overlay = [p \in Paths |-> IF p \in ps THEN NoValue ELSE s.dirty_overlay[p]]
    /\ \A p \in Paths \ ps :
         LET m == s.dirty_metadata[p]
             n == u.dirty_metadata[p]
         IN  /\ u.dirty_generations[p] = s.dirty_generations[p]
             /\ n.generation = m.generation /\ n.dirty_since = m.dirty_since
             /\ n.reset_deadline \in {m.reset_deadline, NoDeadline}
             /\ n.hard_cap_deadline \in {m.hard_cap_deadline, NoDeadline}

\* Disarming drops deadlines only.
LEMMA DisarmType ==
    ASSUME NEW m \in DirtyEntryMetadata, NEW kinds
    PROVE  /\ Disarm(m, kinds) \in DirtyEntryMetadata
           /\ Disarm(m, kinds).generation = m.generation
           /\ Disarm(m, kinds).dirty_since = m.dirty_since
           /\ Disarm(m, kinds).reset_deadline \in {m.reset_deadline, NoDeadline}
           /\ Disarm(m, kinds).hard_cap_deadline \in {m.hard_cap_deadline, NoDeadline}
           /\ m = NoMetadata => Disarm(m, kinds) = NoMetadata
<1> DEFINE r == IF "LeaseExpiry" \in kinds THEN NoDeadline ELSE m.reset_deadline
           h == IF "HardCap" \in kinds THEN NoDeadline ELSE m.hard_cap_deadline
           d == Disarm(m, kinds)
<1>1. d = [m EXCEPT !.reset_deadline = r, !.hard_cap_deadline = h]
  BY DEF Disarm, DirtyEntryMetadata
<1>2. /\ r \in {m.reset_deadline, NoDeadline} /\ h \in {m.hard_cap_deadline, NoDeadline}
      /\ r \in Nat /\ h \in Nat
  BY DEF DirtyEntryMetadata, NoDeadline
<1> HIDE DEF r, h, d
<1>3. /\ d \in DirtyEntryMetadata
      /\ d.generation = m.generation /\ d.dirty_since = m.dirty_since /\ d.intent = m.intent
      /\ d.reset_deadline = r /\ d.hard_cap_deadline = h
  BY <1>1, <1>2, Zenon DEF DirtyEntryMetadata
<1>4. ASSUME m = NoMetadata PROVE d = NoMetadata
  <2>1. /\ d.generation = 0 /\ d.dirty_since = 0 /\ d.reset_deadline = NoDeadline
        /\ d.hard_cap_deadline = NoDeadline /\ d.intent = "Experimental"
    BY <1>2, <1>3, <1>4 DEF NoMetadata
  <2>2. QED
    BY <1>3, <2>1 DEF NoMetadata, DirtyEntryMetadata
<1>5. QED
  BY <1>2, <1>3, <1>4 DEF d

\* u is s with some deadlines and timers dropped.
Disarmed(s, u) ==
    /\ Ended(s, {}, u)
    /\ u.dirty_generations = s.dirty_generations
    /\ \A p \in Paths : s.dirty_metadata[p] = NoMetadata => u.dirty_metadata[p] = NoMetadata
    /\ u.pending \in SUBSET s.pending

\* Escalating keeps the override and its generation, and drops only timers.
LEMMA EscalateType ==
    ASSUME NEW s, SnapshotOK(s), NEW entries
    PROVE  SnapshotOK(Escalate(s, entries)) /\ Disarmed(s, Escalate(s, entries))
<1> DEFINE kinds(p) == {e.kind : e \in {f \in entries : f.path = p}}
           m == [p \in Paths |-> Disarm(s.dirty_metadata[p], kinds(p))]
           q == {e \in s.pending : ~ \E f \in entries :
                                       e.path = f.path /\ e.generation <= f.generation}
           u == Escalate(s, entries)
<1>1. s \in Snapshot /\ IsFiniteSet(s.pending)
  BY DEF SnapshotOK
<1>2. s.dirty_metadata \in [Paths -> DirtyEntryMetadata]
  BY <1>1 DEF Snapshot
<1>3. ASSUME NEW p \in Paths
      PROVE  /\ m[p] \in DirtyEntryMetadata
             /\ m[p].generation = s.dirty_metadata[p].generation
             /\ m[p].dirty_since = s.dirty_metadata[p].dirty_since
             /\ m[p].reset_deadline \in {s.dirty_metadata[p].reset_deadline, NoDeadline}
             /\ m[p].hard_cap_deadline \in {s.dirty_metadata[p].hard_cap_deadline, NoDeadline}
             /\ s.dirty_metadata[p] = NoMetadata => m[p] = NoMetadata
  <2>1. m[p] = Disarm(s.dirty_metadata[p], kinds(p)) /\ s.dirty_metadata[p] \in DirtyEntryMetadata
    BY <1>2
  <2> HIDE DEF m, kinds
  <2>2. QED
    BY <2>1, DisarmType
<1>4. m \in [Paths -> DirtyEntryMetadata]
  BY <1>3, Zenon
<1>5. IsFiniteSet(q) /\ q \in SUBSET s.pending
  BY <1>1, FS_Subset
<1>6. u = [s EXCEPT !.dirty_metadata = m, !.pending = q]
  BY <1>1 DEF Escalate, Snapshot
<1> HIDE DEF m, q, u
<1>7. SnapshotOK(u)
  BY <1>1, <1>4, <1>5, <1>6, Zenon DEF SnapshotOK, Snapshot
<1>8. /\ u.committed_overlay = s.committed_overlay /\ u.auto_reset_policy = s.auto_reset_policy
      /\ u.dirty_overlay = s.dirty_overlay /\ u.dirty_generations = s.dirty_generations
      /\ u.dirty_metadata = m /\ u.pending = q
  BY <1>1, <1>6 DEF Snapshot
<1>9. s.dirty_overlay = [p \in Paths |-> IF p \in {} THEN NoValue ELSE s.dirty_overlay[p]]
  BY <1>1 DEF Snapshot
<1>10. Ended(s, {}, u)
  BY <1>3, <1>8, <1>9, Zenon DEF Ended
<1>11. QED
  BY <1>3, <1>5, <1>7, <1>8, <1>10, Zenon DEF u, Disarmed

\* Firing the due entries ends the reverted overrides and no other, and keeps
\* types and consistency.
LEMMA FireType ==
    ASSUME NEW s, SnapshotOK(s), Consistent(s), NEW t \in Nat, NEW esc
    PROVE  LET u == Fire(s, t, esc)
           IN  SnapshotOK(u) /\ Consistent(u) /\ Ended(s, Reverted(s, t, esc), u)
<1> DEFINE ps == Reverted(s, t, esc)
           rest == s.pending \ Due(s, t)
           drained == [s EXCEPT !.pending = rest]
           cleared == ClearDirty(drained, ps)
           changed == Escalate(cleared, Fired(s, t, esc) \cap esc)
           logged == Emit(changed, FiringEvents(s, t, esc))
           audit == FiringAudit(s, t, esc)
           log == logged.audit_events \o audit
           next == logged.audit_next_sequence + Len(audit)
           journal == logged.persistence_journal_sequence + Cardinality(ps)
           u == Fire(s, t, esc)
<1>1. s \in Snapshot /\ IsFiniteSet(rest) /\ rest \in SUBSET s.pending
  BY FS_Subset DEF SnapshotOK
<1>2. /\ SnapshotOK(drained)
      /\ drained.committed_overlay = s.committed_overlay
      /\ drained.auto_reset_policy = s.auto_reset_policy
      /\ drained.dirty_overlay = s.dirty_overlay
      /\ drained.dirty_generations = s.dirty_generations
      /\ drained.dirty_metadata = s.dirty_metadata
      /\ drained.pending = rest
  <2> HIDE DEF rest
  <2>1. QED
    BY <1>1, Zenon DEF SnapshotOK, Snapshot
<1>3. u = [logged EXCEPT !.audit_events = log, !.audit_next_sequence = next,
                         !.persistence_journal_sequence = journal]
  BY DEF Fire
<1> HIDE DEF drained, rest
<1>4. Consistent(drained)
  BY <1>1, <1>2 DEF Consistent, MapsAgree, TimersBelong, DirtyPaths
<1>5. SnapshotOK(cleared) /\ Cleared(drained, ps, cleared) /\ Consistent(cleared)
  BY <1>2, <1>4, ClearDirtyType, ClearDirtyConsistent
<1> HIDE DEF cleared
<1>6. SnapshotOK(changed) /\ Disarmed(cleared, changed)
  BY <1>5, EscalateType
<1> HIDE DEF changed
<1>7. changed.dirty_overlay = cleared.dirty_overlay
  BY <1>5, <1>6, Zenon DEF Disarmed, Ended, SnapshotOK, Snapshot
<1>8. Consistent(changed)
  <2>1. DirtyPaths(changed) = DirtyPaths(cleared)
    BY <1>7 DEF DirtyPaths
  <2>2. MapsAgree(changed)
    BY <1>5, <1>6, <2>1, Zenon DEF Consistent, MapsAgree, Disarmed, Ended
  <2>3. TimersBelong(changed)
    BY <1>5, <1>6, <2>1 DEF Consistent, TimersBelong, Disarmed
  <2>4. QED
    BY <2>2, <2>3 DEF Consistent
<1>9. SnapshotOK(logged) /\ SameOverrides(changed, logged)
  BY <1>6, FiringEventsType, EmitType
<1> HIDE DEF logged
<1>10. /\ log \in Seq(RuntimeAuditEvent) /\ next \in Nat /\ journal \in Nat
  <2>1. /\ logged.audit_events \in Seq(RuntimeAuditEvent)
        /\ logged.audit_next_sequence \in Nat
        /\ logged.persistence_journal_sequence \in Nat
    BY <1>9 DEF SnapshotOK, Snapshot
  <2>2. audit \in Seq(RuntimeAuditEvent) /\ Len(audit) \in Nat
    BY FiringAuditType
  <2>3. Cardinality(ps) \in Nat
    BY FiredType
  <2> HIDE DEF audit, ps
  <2>4. QED
    BY <2>1, <2>2, <2>3
<1> HIDE DEF log, next, journal, u, ps
<1>11. SnapshotOK(u) /\ SameOverrides(logged, u)
  BY <1>3, <1>9, <1>10, Zenon DEF SnapshotOK, Snapshot, SameOverrides
<1>12. SameOverrides(changed, u)
  BY <1>9, <1>11 DEF SameOverrides
<1>13. Consistent(u)
  BY <1>8, <1>12, Zenon DEF Consistent, MapsAgree, TimersBelong, SameOverrides, DirtyPaths
<1>14. Ended(s, ps, u)
  <2>1. /\ u.committed_overlay = s.committed_overlay
        /\ u.auto_reset_policy = s.auto_reset_policy
        /\ u.dirty_overlay = [p \in Paths |-> IF p \in ps THEN NoValue ELSE s.dirty_overlay[p]]
    BY <1>2, <1>5, <1>6, <1>7, <1>12, Zenon DEF SameOverrides, Cleared, Disarmed, Ended
  <2>2. \A p \in Paths \ ps : /\ cleared.dirty_generations[p] = s.dirty_generations[p]
                              /\ cleared.dirty_metadata[p] = s.dirty_metadata[p]
    BY <1>2, <1>5 DEF Cleared
  <2>3. ASSUME NEW p \in Paths
        PROVE  /\ changed.dirty_generations[p] = cleared.dirty_generations[p]
               /\ changed.dirty_metadata[p].generation = cleared.dirty_metadata[p].generation
               /\ changed.dirty_metadata[p].dirty_since = cleared.dirty_metadata[p].dirty_since
               /\ changed.dirty_metadata[p].reset_deadline \in
                     {cleared.dirty_metadata[p].reset_deadline, NoDeadline}
               /\ changed.dirty_metadata[p].hard_cap_deadline \in
                     {cleared.dirty_metadata[p].hard_cap_deadline, NoDeadline}
    <3>1. Ended(cleared, {}, changed) /\ p \in Paths \ {}
      BY <1>6, Zenon DEF Disarmed
    <3>2. QED
      BY <3>1, Zenon DEF Ended
  <2>4. u.dirty_generations = changed.dirty_generations /\ u.dirty_metadata = changed.dirty_metadata
    BY <1>12, Zenon DEF SameOverrides
  <2>5. ASSUME NEW p \in Paths \ ps
        PROVE  /\ u.dirty_generations[p] = s.dirty_generations[p]
               /\ u.dirty_metadata[p].generation = s.dirty_metadata[p].generation
               /\ u.dirty_metadata[p].dirty_since = s.dirty_metadata[p].dirty_since
               /\ u.dirty_metadata[p].reset_deadline \in
                     {s.dirty_metadata[p].reset_deadline, NoDeadline}
               /\ u.dirty_metadata[p].hard_cap_deadline \in
                     {s.dirty_metadata[p].hard_cap_deadline, NoDeadline}
    BY <2>2, <2>3, <2>4, Zenon
  <2>6. QED
    BY <2>1, <2>5, Zenon DEF Ended
<1>15. QED
  BY <1>11, <1>13, <1>14 DEF u, ps

\* What an operation finds when it starts: the caller's snapshot, normalised and
\* with the overrides of the due entries ended.
LEMMA PreparedType ==
    ASSUME NEW s, SnapshotOK(s), TimersBelong(s), NEW t \in Nat,
           \A p \in Paths \ DirtyPaths(s) : s.dirty_generations[p] = 0
    PROVE  /\ SnapshotOK(Normalize(s, t)) /\ Consistent(Normalize(s, t))
           /\ Normalized(s, t, Normalize(s, t))
           /\ SnapshotOK(Prepared(s, t)) /\ Consistent(Prepared(s, t))
           /\ \E ps \in SUBSET Paths : Ended(Normalize(s, t), ps, Prepared(s, t))
<1> DEFINE n == Normalize(s, t)
           u == Prepared(s, t)
<1>1. SnapshotOK(n) /\ Normalized(s, t, n) /\ Consistent(n)
  BY NormalizeType, NormalizeConsistent
<1>2. u = IF Due(n, t) = {} THEN n ELSE Fire(n, t, {})
  BY DEF Prepared, ApplyDueAutoResets
<1> HIDE DEF n, u
<1>3. CASE Due(n, t) = {}
  <2>1. n.dirty_overlay = [p \in Paths |-> IF p \in {} THEN NoValue ELSE n.dirty_overlay[p]]
    BY <1>1 DEF SnapshotOK, Snapshot
  <2>2. Ended(n, {}, n)
    BY <2>1 DEF Ended
  <2>3. QED
    BY <1>1, <1>2, <1>3, <2>2, Zenon DEF n, u
<1>4. CASE Due(n, t) # {}
  <2>1. SnapshotOK(u) /\ Consistent(u) /\ Ended(n, Reverted(n, t, {}), u)
    BY <1>1, <1>2, <1>4, FireType, Zenon
  <2>2. Reverted(n, t, {}) \in SUBSET Paths
    BY <1>1, FiredType
  <2>3. QED
    BY <1>1, <2>1, <2>2, Zenon DEF n, u
<1>5. QED
  BY <1>3, <1>4, Zenon

-----------------------------------------------------------------------------
(* --------------------- The operations of a session --------------------- *)

\* Every override has a start, and its deadlines do not end before it.
Sound(s) ==
    \A p \in DirtyPaths(s) :
        s.dirty_metadata[p].dirty_since # 0 /\ MetadataValid(s.dirty_metadata[p])

Good(s) == SnapshotOK(s) /\ Consistent(s) /\ Sound(s)

GoodState == Good(snapshot) /\ now \in Nat \ {0}

\* On a consistent snapshot the code's validation is about the overrides only.
LEMMA ValidIsSound ==
    ASSUME NEW s, SnapshotOK(s), Consistent(s)
    PROVE  Valid(s) <=> \A p \in DirtyPaths(s) : MetadataValid(s.dirty_metadata[p])
<1>1. \A p \in Paths : p \in DirtyPaths(s) <=> s.dirty_metadata[p] # NoMetadata
  BY DEF Consistent, MapsAgree, NoMetadata
<1>2. \A p \in Paths : s.dirty_generations[p] = s.dirty_metadata[p].generation
  BY DEF Consistent, MapsAgree
<1>3. \A e \in s.pending : e.generation # 0
  <2> SUFFICES ASSUME NEW e \in s.pending PROVE e.generation # 0
    OBVIOUS
  <2>1. e.path \in Paths /\ s.dirty_generations[e.path] \in Nat
    BY DEF SnapshotOK, Snapshot, AutoResetScheduleEntry
  <2>2. e.generation \in 1 .. s.dirty_generations[e.path]
    BY DEF Consistent, TimersBelong
  <2>3. QED
    BY <2>1, <2>2
<1>4. DirtyPaths(s) \in SUBSET Paths
  BY DEF DirtyPaths
<1>5. QED
  BY <1>1, <1>2, <1>3, <1>4 DEF Valid

\* A snapshot that differs in its logs only is as good.
LEMMA SameGood ==
    ASSUME NEW s, Good(s), NEW u, SnapshotOK(u), SameOverrides(s, u)
    PROVE  Good(u)
<1>1. DirtyPaths(u) = DirtyPaths(s)
  BY DEF SameOverrides, DirtyPaths
<1>2. Consistent(u)
  BY <1>1 DEF Good, Consistent, MapsAgree, TimersBelong, SameOverrides
<1>3. Sound(u)
  BY <1>1 DEF Good, Sound, SameOverrides
<1>4. QED
  BY <1>2, <1>3 DEF Good

\* Dropping overrides and deadlines keeps the rest sound.
LEMMA EndedGood ==
    ASSUME NEW s, Good(s), NEW ps, NEW u, SnapshotOK(u), Consistent(u), Ended(s, ps, u)
    PROVE  Good(u)
<1>1. SUFFICES ASSUME NEW p \in DirtyPaths(u)
               PROVE  u.dirty_metadata[p].dirty_since # 0 /\ MetadataValid(u.dirty_metadata[p])
  BY DEF Good, Sound
<1>2. p \in Paths \ ps /\ p \in DirtyPaths(s)
  BY <1>1, Zenon DEF DirtyPaths, Ended
<1>3. s.dirty_metadata[p].dirty_since # 0 /\ MetadataValid(s.dirty_metadata[p])
  BY <1>2 DEF Good, Sound
<1>4. QED
  BY <1>2, <1>3, Zenon DEF Ended, MetadataValid

\* Clearing overrides keeps the rest sound.
LEMMA ClearDirtyGood ==
    ASSUME NEW s, Good(s), NEW ps
    PROVE  Good(ClearDirty(s, ps)) /\ Cleared(s, ps, ClearDirty(s, ps))
<1> DEFINE c == ClearDirty(s, ps)
<1>1. SnapshotOK(c) /\ Cleared(s, ps, c) /\ Consistent(c)
  BY ClearDirtyType, ClearDirtyConsistent DEF Good
<1> HIDE DEF c
<1>2. \A p \in DirtyPaths(c) : p \in DirtyPaths(s) /\ c.dirty_metadata[p] = s.dirty_metadata[p]
  BY <1>1 DEF Cleared, DirtyPaths
<1>3. Good(c)
  BY <1>1, <1>2 DEF Good, Sound
<1>4. QED
  BY <1>1, <1>3 DEF c

\* A normalised snapshot that validates is good.
LEMMA NormalizedGood ==
    ASSUME NEW s, SnapshotOK(s), NEW t \in Nat \ {0}, NEW n, SnapshotOK(n), Consistent(n),
           Normalized(s, t, n), Valid(n)
    PROVE  Good(n)
<1>1. \A p \in DirtyPaths(n) : MetadataValid(n.dirty_metadata[p])
  BY ValidIsSound
<1>2. ASSUME NEW p \in DirtyPaths(n) PROVE n.dirty_metadata[p].dirty_since # 0
  <2>1. p \in DirtyPaths(s) /\ p \in Paths
    BY <1>2, Zenon DEF DirtyPaths, Normalized
  <2>2. n.dirty_metadata[p] = NormalizedMetadata(s, p, t)
    BY <2>1, Zenon DEF Normalized
  <2>3. s \in Snapshot /\ t \in Nat /\ t # 0
    BY DEF SnapshotOK
  <2> DEFINE b == s.dirty_metadata[p].dirty_since
  <2>4. NormalizedMetadata(s, p, t).dirty_since = IF b = 0 THEN t ELSE b
    BY <2>1, <2>3, NormalizedMetadataType, Zenon
  <2> HIDE DEF b
  <2>5. NormalizedMetadata(s, p, t).dirty_since # 0
    BY <2>3, <2>4, Zenon
  <2>6. QED
    BY <2>2, <2>5, Zenon
<1>3. QED
  BY <1>1, <1>2 DEF Good, Sound

\* What an operation starts from when the caller's snapshot is one it accepts.
StartOf(old, s) ==
    /\ s.committed_overlay = old.committed_overlay
    /\ \A p \in Paths : s.dirty_overlay[p] \in {old.dirty_overlay[p], NoValue}

\* Normalising and applying the due resets gives every operation a good
\* snapshot to start from.
LEMMA PreparedGood ==
    ASSUME NEW s, SnapshotOK(s), TimersBelong(s), NEW t \in Nat \ {0},
           \A p \in Paths \ DirtyPaths(s) : s.dirty_generations[p] = 0,
           Valid(Normalize(s, t))
    PROVE  /\ Good(Normalize(s, t)) /\ StartOf(s, Normalize(s, t))
           /\ Good(Prepared(s, t)) /\ StartOf(s, Prepared(s, t))
<1>1. /\ SnapshotOK(Normalize(s, t)) /\ Consistent(Normalize(s, t))
      /\ Normalized(s, t, Normalize(s, t))
      /\ SnapshotOK(Prepared(s, t)) /\ Consistent(Prepared(s, t))
  BY PreparedType, Zenon
<1>2. PICK ps \in SUBSET Paths : Ended(Normalize(s, t), ps, Prepared(s, t))
  BY PreparedType, Zenon
<1>3. Good(Normalize(s, t))
  BY <1>1, NormalizedGood, Zenon
<1>4. Good(Prepared(s, t))
  BY <1>1, <1>2, <1>3, EndedGood, Zenon
<1>5. StartOf(s, Normalize(s, t)) /\ StartOf(s, Prepared(s, t))
  <2> DEFINE n == Normalize(s, t)
             u == Prepared(s, t)
  <2>1. n.committed_overlay = s.committed_overlay /\ n.dirty_overlay = s.dirty_overlay
    BY <1>1, Zenon DEF Normalized
  <2>2. /\ u.committed_overlay = n.committed_overlay
        /\ u.dirty_overlay = [p \in Paths |-> IF p \in ps THEN NoValue ELSE n.dirty_overlay[p]]
    BY <1>2, Zenon DEF Ended
  <2> HIDE DEF n, u
  <2>3. StartOf(s, n) /\ StartOf(s, u)
    BY <2>1, <2>2, Zenon DEF StartOf
  <2>4. QED
    BY <2>3, Zenon DEF n, u
<1>6. QED
  BY <1>3, <1>4, <1>5, Zenon

\* The same, for the state of a session.
LEMMA OperationStart ==
    ASSUME GoodState, Operable
    PROVE  /\ Good(Normalize(snapshot, now)) /\ StartOf(snapshot, Normalize(snapshot, now))
           /\ Good(Prepared(snapshot, now)) /\ StartOf(snapshot, Prepared(snapshot, now))
<1>1. SnapshotOK(snapshot) /\ TimersBelong(snapshot) /\ now \in Nat \ {0}
  BY DEF GoodState, Good, Consistent
<1>2. \A p \in Paths \ DirtyPaths(snapshot) : snapshot.dirty_generations[p] = 0
  BY DEF GoodState, Good, Consistent, MapsAgree
<1>3. QED
  BY <1>1, <1>2, PreparedGood, Zenon DEF Operable

(***************************************************************************)
(* Lists of events.                                                        *)
(***************************************************************************)
\* A finite set of numbers in ascending order is a sequence of its elements.
LEMMA AscendingType ==
    ASSUME NEW S \in SUBSET Nat, IsFiniteSet(S)
    PROVE  Ascending(S) \in Seq(S) /\ Len(Ascending(S)) \in Nat
<1> DEFINE R == {d \in S \X S : d[1] < d[2]}
<1>1. \A x, y \in S : <<x, y>> \in R <=> x < y
  OBVIOUS
<1>2. Ascending(S) = Ordered(S, R)
  BY DEF Ascending
<1> HIDE DEF R
<1>3. StrictOrder(S, R)
  BY <1>1 DEF StrictOrder
<1>4. Cardinality(S) \in Nat /\ Ordered(S, R) \in [1 .. Cardinality(S) -> S]
  BY <1>3, OrderedIsSeq
<1>5. QED
  BY <1>2, <1>4

\* Two events per element: event 2k - 1 and event 2k belong to element k.
LEMMA HalfIndex ==
    ASSUME NEW n \in Nat, NEW i \in 1 .. 2 * n
    PROVE  /\ (i + 1) \div 2 \in 1 .. n
           /\ i % 2 # 1 => i \div 2 \in 1 .. n
OBVIOUS

\* The events of a list of writes.
LEMMA WriteEventsType ==
    ASSUME NEW s \in Snapshot, NEW w \in Seq([path: Paths, value: Values])
    PROVE  WriteEvents(s, w) \in Seq(EventPayload)
<1>1. Len(w) \in Nat /\ s.dirty_generations \in [Paths -> Nat]
  BY DEF Snapshot
<1>2. ASSUME NEW k \in 1 .. Len(w)
      PROVE  /\ w[k].path \in Paths /\ w[k].value \in Values
             /\ ValueBefore(s, w, k) \in Values
             /\ WriteGeneration(s, w, k) \in Nat
  <2>1. w[k].path \in Paths /\ w[k].value \in Values
    <3>1. w[k] \in [path: Paths, value: Values]
      BY <1>2, ElementOfSeq, Zenon
    <3>2. QED
      BY <3>1
  <2> DEFINE earlier == SubSeq(w, 1, k - 1)
             p == w[k].path
  <2>2. /\ earlier \in Seq([path: Paths, value: Values])
        /\ Len(earlier) <= Len(w) /\ Len(earlier) \in Nat
    <3>1. SubSeq(w, 1, k - 1) \in Seq([path: Paths, value: Values])
            /\ Len(SubSeq(w, 1, k - 1)) = k - 1
      BY <1>2, PrefixBefore, Zenon
    <3>2. QED
      BY <1>1, <1>2, <3>1
  <2>3. ASSUME WritesTo(earlier, p) # {} PROVE w[LastWriteTo(earlier, p)].value \in Values
    <3> HIDE DEF earlier, p
    <3>1. LastWriteTo(earlier, p) \in 1 .. Len(earlier)
      BY <2>2, <2>3, WritesToType
    <3>2. LastWriteTo(earlier, p) \in 1 .. Len(w)
      BY <1>1, <2>2, <3>1
    <3>3. w[LastWriteTo(earlier, p)] \in [path: Paths, value: Values]
      BY <3>2, ElementOfSeq, Zenon
    <3>4. QED
      BY <3>3
  <2>4. EffectiveValue(s, p) \in Values
    BY <2>1, ValuesType
  <2>5. ValueBefore(s, w, k) \in Values
    <3>1. ValueBefore(s, w, k) = IF WritesTo(earlier, p) = {} THEN EffectiveValue(s, p)
                                 ELSE w[LastWriteTo(earlier, p)].value
      BY DEF ValueBefore
    <3> HIDE DEF earlier, p
    <3>2. QED
      BY <2>3, <2>4, <3>1
  <2>6. WriteGeneration(s, w, k) \in Nat
    <3> DEFINE upto == {j \in WritesTo(w, p) : j <= k}
    <3>1. IsFiniteSet(WritesTo(w, p))
      BY WritesToType
    <3>2. Cardinality(upto) \in Nat
      BY <3>1, FS_Subset, FS_CardinalityType
    <3>3. s.dirty_generations[p] \in Nat
      BY <1>1, <2>1
    <3>4. WriteGeneration(s, w, k) = s.dirty_generations[p] + Cardinality(upto)
      BY DEF WriteGeneration
    <3> HIDE DEF upto, p
    <3>5. QED
      BY <3>2, <3>3, <3>4
  <2>7. QED
    BY <2>1, <2>5, <2>6
<1> DEFINE event(i) == LET k == (i + 1) \div 2
                           p == w[k].path
                           g == WriteGeneration(s, w, k)
                       IN  IF i % 2 = 1 THEN ChangeEvent(p, g, ValueBefore(s, w, k), w[k].value)
                           ELSE DirtyEvent(p, g, TRUE)
<1>3. ASSUME NEW i \in 1 .. 2 * Len(w) PROVE event(i) \in EventPayload
  <2> DEFINE k == (i + 1) \div 2
  <2>1. k \in 1 .. Len(w)
    BY <1>1, <1>3, HalfIndex
  <2>2. event(i) \in {ChangeEvent(w[k].path, WriteGeneration(s, w, k),
                                  ValueBefore(s, w, k), w[k].value),
                      DirtyEvent(w[k].path, WriteGeneration(s, w, k), TRUE)}
    OBVIOUS
  <2> HIDE DEF k, event
  <2>3. "RuntimeOpened" \in EventKinds /\ {} \in SUBSET Paths
    BY DEF EventKinds
  <2>4. /\ ChangeEvent(w[k].path, WriteGeneration(s, w, k), ValueBefore(s, w, k), w[k].value)
              \in EventPayload
        /\ DirtyEvent(w[k].path, WriteGeneration(s, w, k), TRUE) \in EventPayload
    BY <1>2, <2>1, <2>3, EventsType, Zenon
  <2>5. QED
    BY <2>2, <2>4, Zenon
<1> HIDE DEF event
<1>4. 2 * Len(w) \in Nat
  BY <1>1
<1>5. [i \in 1 .. 2 * Len(w) |-> event(i)] \in Seq(EventPayload)
  BY <1>3, <1>4
<1>6. QED
  BY <1>5, Zenon DEF WriteEvents, event

\* The events of the reset of some paths, and of their clearing.
LEMMA ResetEventsType ==
    ASSUME NEW s \in Snapshot, NEW ps \in SUBSET Paths, NEW k \in EventKinds
    PROVE  /\ \A p \in Paths : ResetEvent(s, p) \in EventPayload /\ ClearedEvent(s, p) \in EventPayload
           /\ Event(k, ps) \in EventPayload
           /\ <<Event(k, ps)>> \in Seq(EventPayload)
<1>1. ASSUME NEW p \in Paths
      PROVE  ResetEvent(s, p) \in EventPayload /\ ClearedEvent(s, p) \in EventPayload
  <2>1. s.dirty_overlay[p] \in Values \cup {NoValue} /\ 0 \in Nat /\ TRUE \in BOOLEAN
    BY DEF Snapshot
  <2>2. QED
    BY <2>1, EventsType, Zenon
<1>2. Event(k, ps) \in EventPayload
  BY DEF Event, EventPayload
<1>3. QED
  BY <1>1, <1>2

\* A batch whose last event is z.
EndsWith(b, z) == b \in Seq(EventPayload) /\ Len(b) \in Nat \ {0} /\ b[Len(b)] = z

\* An event added to a batch is its last.
LEMMA AddLast ==
    ASSUME NEW a \in Seq(EventPayload), NEW z \in EventPayload
    PROVE  EndsWith(a \o <<z>>, z)
<1>1. /\ a \o <<z>> \in Seq(EventPayload) /\ Len(a \o <<z>>) = Len(a) + 1
      /\ Len(a) + 1 \in Nat \ {0} /\ (a \o <<z>>)[Len(a) + 1] = z
  OBVIOUS
<1> QED
  BY <1>1 DEF EndsWith

\* The events of a rollback.
LEMMA RollbackEventsEnd ==
    ASSUME NEW s \in Snapshot, NEW ps \in SUBSET Paths
    PROVE  EndsWith(RollbackEvents(s, ps), Event("RollbackApplied", ps))
<1> DEFINE q == Ascending(ps)
           event(i) == IF i % 2 = 1 THEN ResetEvent(s, q[(i + 1) \div 2])
                       ELSE ClearedEvent(s, q[i \div 2])
<1>1. q \in Seq(ps) /\ Len(q) \in Nat
  <2>1. ps \in SUBSET Nat /\ IsFiniteSet(ps)
    BY PathsAssumption, FS_Subset, Zenon
  <2>2. QED
    BY <2>1, AscendingType
<1> HIDE DEF q
<1>2. ASSUME NEW i \in 1 .. 2 * Len(q) PROVE event(i) \in EventPayload
  <2>1. (i + 1) \div 2 \in 1 .. Len(q) /\ (i % 2 # 1 => i \div 2 \in 1 .. Len(q))
    BY <1>1, <1>2, HalfIndex
  <2>2. \A j \in 1 .. Len(q) : q[j] \in Paths
    BY <1>1, ElementOfSeq
  <2>3. "RollbackApplied" \in EventKinds
    BY DEF EventKinds
  <2>4. \A p \in Paths : ResetEvent(s, p) \in EventPayload /\ ClearedEvent(s, p) \in EventPayload
    BY <2>3, ResetEventsType, Zenon
  <2>5. QED
    BY <2>1, <2>2, <2>4
<1> HIDE DEF event
<1>3. [i \in 1 .. 2 * Len(q) |-> event(i)] \in Seq(EventPayload)
  <2>1. 2 * Len(q) \in Nat
    BY <1>1
  <2>2. QED
    BY <1>2, <2>1
<1>4. Event("RollbackApplied", ps) \in EventPayload
  BY ResetEventsType DEF EventKinds
<1>5. EndsWith([i \in 1 .. 2 * Len(q) |-> event(i)] \o <<Event("RollbackApplied", ps)>>,
               Event("RollbackApplied", ps))
  BY <1>3, <1>4, AddLast, Zenon
<1>6. QED
  BY <1>5 DEF RollbackEvents, event, q

\* They are event payloads.
LEMMA RollbackEventsType ==
    ASSUME NEW s \in Snapshot, NEW ps \in SUBSET Paths
    PROVE  RollbackEvents(s, ps) \in Seq(EventPayload)
BY RollbackEventsEnd DEF EndsWith

\* The events of a commit.
LEMMA CommitEventsEnd ==
    ASSUME NEW s \in Snapshot
    PROVE  EndsWith(CommitEvents(s), Event("CommitApplied", CommitChanges(s)))
<1> DEFINE q == Ascending(DirtyPaths(s))
<1>1. q \in Seq(DirtyPaths(s)) /\ Len(q) \in Nat /\ DirtyPaths(s) \in SUBSET Paths
  <2>1. DirtyPaths(s) \in SUBSET Paths
    BY DEF DirtyPaths
  <2>2. DirtyPaths(s) \in SUBSET Nat /\ IsFiniteSet(DirtyPaths(s))
    BY <2>1, PathsAssumption, FS_Subset, Zenon
  <2>3. QED
    BY <2>1, <2>2, AscendingType
<1>2. CommitChanges(s) \in SUBSET Paths /\ "CommitApplied" \in EventKinds
  BY <1>1 DEF CommitChanges, EventKinds
<1>3. /\ \A p \in Paths : ClearedEvent(s, p) \in EventPayload
      /\ Event("CommitApplied", CommitChanges(s)) \in EventPayload
  BY <1>2, ResetEventsType
<1> HIDE DEF q
<1>4. \A i \in 1 .. Len(q) : ClearedEvent(s, q[i]) \in EventPayload
  BY <1>1, <1>3, ElementOfSeq
<1>5. [i \in 1 .. Len(q) |-> ClearedEvent(s, q[i])] \in Seq(EventPayload)
  BY <1>1, <1>4
<1>6. EndsWith([i \in 1 .. Len(q) |-> ClearedEvent(s, q[i])]
                  \o <<Event("CommitApplied", CommitChanges(s))>>,
               Event("CommitApplied", CommitChanges(s)))
  BY <1>3, <1>5, AddLast, Zenon
<1>7. QED
  BY <1>6 DEF CommitEvents, q

\* They are event payloads.
LEMMA CommitEventsType ==
    ASSUME NEW s \in Snapshot
    PROVE  CommitEvents(s) \in Seq(EventPayload)
BY CommitEventsEnd DEF EndsWith

\* The events of a pull.
LEMMA PullEventsEnd ==
    ASSUME NEW s \in Snapshot, NEW r \in PullRequest
    PROVE  EndsWith(PullEvents(s, r), Event("SyncApplyCompleted", PulledPaths(r)))
<1> DEFINE n == Len(r.writes)
           S == {i \in 1 .. 2 * n : i % 2 = 0 \/ r.writes[(i + 1) \div 2].path \in DirtyPaths(s)}
           q == Ascending(S)
           at(j) == r.writes[(j + 1) \div 2]
           event(j) == IF j % 2 = 1 THEN ClearedEvent(s, at(j).path)
                       ELSE ChangeEvent(at(j).path, NormalizedGeneration(s, at(j).path),
                                        EffectiveValue(s, at(j).path), at(j).value)
           conflicts == PulledPaths(r) \cap DirtyPaths(s)
<1>1. r.writes \in Seq(PullWrite) /\ n \in Nat
  BY DEF PullRequest
<1>2. S \in SUBSET Nat /\ IsFiniteSet(S) /\ S \in SUBSET (1 .. 2 * n)
  <2>1. IsFiniteSet(1 .. 2 * n)
    <3>1. 1 \in Int /\ 2 * n \in Int
      BY <1>1
    <3>2. QED
      BY <3>1, FS_Interval
  <2>2. QED
    BY <1>1, <2>1, FS_Subset
<1>3. ASSUME NEW j \in S PROVE event(j) \in EventPayload
  <2> DEFINE w == at(j)
  <2>1. w \in PullWrite
    <3>1. (j + 1) \div 2 \in 1 .. n
      BY <1>1, <1>2, <1>3, HalfIndex, Zenon
    <3>2. QED
      BY <1>1, <3>1, ElementOfSeq
  <2>2. event(j) \in {ClearedEvent(s, w.path),
                      ChangeEvent(w.path, NormalizedGeneration(s, w.path),
                                  EffectiveValue(s, w.path), w.value)}
    OBVIOUS
  <2> HIDE DEF w, event
  <2>3. w.path \in Paths /\ w.value \in Values
    BY <2>1 DEF PullWrite
  <2>4. NormalizedGeneration(s, w.path) \in Nat
    <3>1. s.dirty_generations[w.path] \in Nat /\ s.dirty_metadata[w.path].generation \in Nat
      BY <2>3, Zenon DEF Snapshot, DirtyEntryMetadata
    <3>2. QED
      BY <3>1 DEF NormalizedGeneration
  <2>5. EffectiveValue(s, w.path) \in Values
    BY <2>3, ValuesType
  <2>6. "RuntimeOpened" \in EventKinds /\ {} \in SUBSET Paths /\ TRUE \in BOOLEAN
    BY DEF EventKinds
  <2>7. /\ ClearedEvent(s, w.path) \in EventPayload
        /\ ChangeEvent(w.path, NormalizedGeneration(s, w.path),
                       EffectiveValue(s, w.path), w.value) \in EventPayload
    BY <2>3, <2>4, <2>5, <2>6, EventsType, Zenon
  <2>8. QED
    BY <2>2, <2>7
<1>4. q \in Seq(S) /\ Len(q) \in Nat
  BY <1>2, AscendingType
<1>5. PullWriteEvents(s, r) = [i \in 1 .. Len(q) |-> event(q[i])]
  BY Zenon DEF PullWriteEvents
<1> HIDE DEF q, S, event
<1>6. PullWriteEvents(s, r) \in Seq(EventPayload)
  <2>1. \A i \in 1 .. Len(q) : event(q[i]) \in EventPayload
    BY <1>3, <1>4, ElementOfSeq
  <2>2. QED
    BY <1>4, <1>5, <2>1
<1>7. PulledPaths(r) \in SUBSET Paths /\ conflicts \in SUBSET Paths
  <2>1. \A k \in 1 .. n : r.writes[k] \in PullWrite
    BY <1>1, ElementOfSeq
  <2>2. PulledPaths(r) \in SUBSET Paths
    BY <2>1 DEF PulledPaths, PullWrite
  <2>3. QED
    BY <2>2
<1> HIDE DEF conflicts
<1>8. /\ SyncEvent \in EventPayload
      /\ Event("SyncConflictDetected", conflicts) \in EventPayload
      /\ Event("SyncConflictResolved", conflicts) \in EventPayload
      /\ Event("SyncApplyCompleted", PulledPaths(r)) \in EventPayload
  BY <1>7, Zenon DEF SyncEvent, Event, EventPayload, EventKinds
<1> DEFINE detected == IF conflicts = {} THEN <<>> ELSE <<Event("SyncConflictDetected", conflicts)>>
           resolved == IF conflicts = {} THEN <<>> ELSE <<Event("SyncConflictResolved", conflicts)>>
<1>9. detected \in Seq(EventPayload) /\ resolved \in Seq(EventPayload)
  BY <1>8
<1>10. <<SyncEvent, SyncEvent>> \in Seq(EventPayload) /\ <<SyncEvent>> \in Seq(EventPayload)
  BY <1>8
<1> DEFINE front == <<SyncEvent, SyncEvent>> \o detected \o PullWriteEvents(s, r)
                       \o <<SyncEvent>> \o resolved
<1>11. PullEvents(s, r) = front \o <<Event("SyncApplyCompleted", PulledPaths(r))>>
  BY DEF PullEvents, conflicts
<1> HIDE DEF detected, resolved
<1>12. front \in Seq(EventPayload)
  BY <1>6, <1>9, <1>10
<1> HIDE DEF front
<1>13. QED
  BY <1>8, <1>11, <1>12, AddLast

\* They are event payloads.
LEMMA PullEventsType ==
    ASSUME NEW s \in Snapshot, NEW r \in PullRequest
    PROVE  PullEvents(s, r) \in Seq(EventPayload)
BY PullEventsEnd DEF EndsWith

(***************************************************************************)
(* What an operation makes of the snapshot it starts from.                 *)
(***************************************************************************)
\* Overrides written on runtime paths or dropped; the rest as it was.
WroteOnly(s, u) ==
    /\ u.committed_overlay = s.committed_overlay
    /\ \A p \in Paths : u.dirty_overlay[p] \in {s.dirty_overlay[p], NoValue}
                           \/ (p \in RuntimePaths /\ u.dirty_overlay[p] \in Values)

\* Logging an operation keeps a good snapshot good.
LEMMA LoggedGood ==
    ASSUME NEW s, Good(s), NEW batch \in Seq(EventPayload), NEW k \in AuditKinds,
           NEW ps \in SUBSET Paths, NEW base \in Configurations \cup {NoId},
           NEW target \in Configurations \cup {NoId}
    PROVE  /\ Good(Emit(s, batch)) /\ SameOverrides(s, Emit(s, batch))
           /\ Good(AppendAudit(Emit(s, batch), k, ps, base, target))
           /\ SameOverrides(s, AppendAudit(Emit(s, batch), k, ps, base, target))
<1> DEFINE e == Emit(s, batch)
           a == AppendAudit(e, k, ps, base, target)
<1>1. SnapshotOK(e) /\ SameOverrides(s, e)
  BY EmitType DEF Good
<1> HIDE DEF e
<1>2. SnapshotOK(a) /\ SameOverrides(e, a)
  BY <1>1, AuditType
<1> HIDE DEF a
<1>3. SameOverrides(s, a)
  BY <1>1, <1>2 DEF SameOverrides
<1>4. Good(e) /\ Good(a)
  BY <1>1, <1>2, <1>3, SameGood
<1>5. QED
  BY <1>1, <1>3, <1>4 DEF e, a

\* A list of writes (set_parameter, set_parameters_atomically).
LEMMA WriteGood ==
    ASSUME NEW s, Good(s), NEW w \in Seq(Writes), NEW intent \in Intents, now \in Nat \ {0}
    PROVE  Good(Write(s, w, intent)) /\ WroteOnly(s, Write(s, w, intent))
<1> DEFINE written == {p \in Paths : WritesTo(w, p) # {}}
           a == ApplyDirtyWrites(s, w, intent, now)
           ps == {w[k].path : k \in 1 .. Len(w)}
           u == Write(s, w, intent)
<1>1. SnapshotOK(s) /\ s \in Snapshot /\ Consistent(s)
  BY DEF Good, SnapshotOK
<1>2. \A k \in 1 .. Len(w) : w[k].path \in RuntimePaths /\ w[k].value \in Values
  <2>1. \A k \in 1 .. Len(w) : w[k] \in Writes
    BY ElementOfSeq
  <2>2. QED
    BY <2>1 DEF Writes
<1>3. w \in Seq([path: Paths, value: Values])
  <2>1. Writes \subseteq [path: Paths, value: Values]
    BY RuntimePathsAssumption DEF Writes
  <2>2. QED
    BY <2>1, SeqMonotonic, Zenon
<1>4. ps \in SUBSET Paths /\ written \in SUBSET Paths /\ written \in SUBSET RuntimePaths
  BY <1>2, RuntimePathsAssumption DEF WritesTo
<1>5. SnapshotOK(a) /\ Overridden(s, written, a, now)
  BY <1>1, <1>3, ApplyDirtyWritesType, Zenon
<1> HIDE DEF a, written, ps
<1>6. Consistent(a)
  BY <1>1, <1>4, <1>5, OverriddenConsistent
<1>7. ASSUME NEW p \in DirtyPaths(a)
      PROVE  a.dirty_metadata[p].dirty_since # 0 /\ MetadataValid(a.dirty_metadata[p])
  <2>1. p \in Paths
    BY <1>7 DEF DirtyPaths
  <2>2. CASE p \in written
    <3>1. Armed(s, p, now) \in Nat /\ (Armed(s, p, now) # NoDeadline => Armed(s, p, now) >= now)
      BY <1>1, <2>1, ArmedType
    <3>2. s.dirty_generations[p] \in Nat /\ a.dirty_generations[p] \in Nat
      BY <1>1, <1>5, <2>1, Zenon DEF SnapshotOK, Snapshot
    <3> DEFINE m == a.dirty_metadata[p]
    <3>3. /\ a.dirty_generations[p] > s.dirty_generations[p] /\ m.generation = a.dirty_generations[p]
          /\ m.dirty_since = now /\ m.reset_deadline = Armed(s, p, now)
          /\ m.hard_cap_deadline = NoDeadline
      BY <1>5, <2>2, Zenon DEF Overridden
    <3> HIDE DEF m
    <3>4. m.generation # 0
      BY <3>2, <3>3
    <3>5. m.dirty_since # 0
      BY <3>3
    <3>6. QED
      BY <3>1, <3>3, <3>4, <3>5, Zenon DEF MetadataValid, m
  <2>3. CASE p \notin written
    BY <1>5, <1>7, <2>1, <2>3, Zenon DEF Overridden, DirtyPaths, Good, Sound
  <2>4. QED
    BY <2>2, <2>3
<1>8. Good(a)
  BY <1>5, <1>6, <1>7 DEF Good, Sound
<1>9. WriteEvents(s, w) \in Seq(EventPayload)
  BY <1>1, <1>3, WriteEventsType, Zenon
<1>10. u = AppendAudit(Emit(a, WriteEvents(s, w)), "Write", ps, NoId, NoId)
  BY Zenon DEF Write, a, ps
<1> HIDE DEF u
<1>11. Good(u) /\ SameOverrides(a, u)
  BY <1>4, <1>8, <1>9, <1>10, LoggedGood DEF AuditKinds
<1>12. WroteOnly(s, u)
  BY <1>4, <1>5, <1>11, Zenon DEF WroteOnly, SameOverrides, Overridden
<1>13. QED
  BY <1>11, <1>12 DEF u

\* A rollback.
LEMMA RollbackGood ==
    ASSUME NEW s, Good(s), NEW ps \in SUBSET DirtyPaths(s)
    PROVE  Good(Rollback(s, ps)) /\ WroteOnly(s, Rollback(s, ps))
<1> DEFINE d == ClearDirty(s, ps)
           j == d.persistence_journal_sequence + 1
           c == [d EXCEPT !.persistence_journal_sequence = j]
           u == Rollback(s, ps)
<1>1. s \in Snapshot /\ ps \in SUBSET Paths
  BY DEF Good, SnapshotOK, DirtyPaths
<1>2. CASE ps = {}
  <2>1. u = s
    BY <1>2 DEF Rollback
  <2>2. QED
    BY <2>1 DEF WroteOnly
<1>3. CASE ps # {}
  <2>1. Good(d) /\ Cleared(s, ps, d)
    BY ClearDirtyGood
  <2>2. u = AppendAudit(Emit(c, RollbackEvents(s, ps)), "Reset", ps, NoId, NoId)
    BY <1>3 DEF Rollback
  <2> HIDE DEF d
  <2>3. j \in Nat
    BY <2>1, NextJournal, Zenon DEF Good
  <2> HIDE DEF j
  <2>4. SnapshotOK(c) /\ SameOverrides(d, c)
    BY <2>1, <2>3, Zenon DEF Good, SnapshotOK, Snapshot, SameOverrides
  <2> HIDE DEF c, u
  <2>5. Good(c)
    BY <2>1, <2>4, SameGood
  <2>6. Good(u) /\ SameOverrides(c, u)
    BY <1>1, <2>2, <2>5, RollbackEventsType, LoggedGood DEF AuditKinds
  <2>7. WroteOnly(s, u)
    <3>1. u.committed_overlay = s.committed_overlay /\ u.dirty_overlay = d.dirty_overlay
      BY <2>1, <2>4, <2>6, Zenon DEF SameOverrides, Cleared
    <3>2. \A p \in Paths : d.dirty_overlay[p] = NoValue \/ d.dirty_overlay[p] = s.dirty_overlay[p]
      BY <2>1, ClearedAt, Zenon
    <3>3. QED
      BY <3>1, <3>2, Zenon DEF WroteOnly
  <2>8. QED
    BY <2>6, <2>7 DEF u
<1>4. QED
  BY <1>2, <1>3

\* u commits what s has in effect.
CommitsAll(s, u) ==
    /\ \A p \in Paths : u.dirty_overlay[p] = NoValue
    /\ \A p \in Paths : CommittedValue(u, p) = EffectiveValue(s, p)

\* A commit.
LEMMA CommitGood ==
    ASSUME NEW s, Good(s)
    PROVE  Good(Commit(s)) /\ CommitsAll(s, Commit(s))
<1> DEFINE dirty == DirtyPaths(s)
           overlay == [p \in Paths |-> IF p \in dirty THEN OverlayEntry(p, s.dirty_overlay[p])
                                       ELSE s.committed_overlay[p]]
           moved == [s EXCEPT !.committed_overlay = overlay]
           d == ClearDirty(moved, dirty)
           j == d.persistence_journal_sequence + 1
           c == Committed(s)
           u == Commit(s)
<1>1. /\ s \in Snapshot /\ SnapshotOK(s) /\ Consistent(s) /\ Sound(s)
      /\ dirty \in SUBSET Paths
      /\ s.dirty_overlay \in [Paths -> Values \cup {NoValue}]
      /\ s.committed_overlay \in [Paths -> Values \cup {NoValue}]
  BY Zenon DEF Good, SnapshotOK, DirtyPaths, Snapshot
<1>2. overlay \in [Paths -> Values \cup {NoValue}]
  BY <1>1 DEF OverlayEntry
<1>3. c = [d EXCEPT !.persistence_journal_sequence = j]
  BY <1>1 DEF Committed, Snapshot
<1>4. \A p \in Paths : overlay[p] = IF p \in dirty THEN OverlayEntry(p, s.dirty_overlay[p])
                                    ELSE s.committed_overlay[p]
  OBVIOUS
<1> HIDE DEF overlay, dirty
<1>5. /\ SnapshotOK(moved) /\ moved.committed_overlay = overlay
      /\ moved.dirty_overlay = s.dirty_overlay /\ moved.dirty_generations = s.dirty_generations
      /\ moved.dirty_metadata = s.dirty_metadata /\ moved.pending = s.pending
  BY <1>1, <1>2, Zenon DEF SnapshotOK, Snapshot
<1> HIDE DEF moved
<1>6. Good(moved)
  <2>1. DirtyPaths(moved) = DirtyPaths(s)
    BY <1>5 DEF DirtyPaths
  <2>2. Consistent(moved) /\ Sound(moved)
    BY <1>1, <1>5, <2>1, Zenon DEF Consistent, MapsAgree, TimersBelong, Sound
  <2>3. QED
    BY <1>5, <2>2 DEF Good
<1>7. Good(d) /\ Cleared(moved, dirty, d)
  BY <1>6, ClearDirtyGood
<1> HIDE DEF d
<1>8. j \in Nat
  BY <1>7, NextJournal, Zenon DEF Good
<1> HIDE DEF j, c
<1>9. SnapshotOK(c) /\ SameOverrides(d, c)
  BY <1>3, <1>7, <1>8, Zenon DEF Good, SnapshotOK, Snapshot, SameOverrides
<1>10. Good(c)
  BY <1>7, <1>9, SameGood
<1>11. u = AppendAudit(Emit(c, CommitEvents(s)), "Commit", CommitChanges(s),
                       CommittedId(s), CommittedId(c))
  BY DEF Commit, c
<1> HIDE DEF u
<1>12. Good(u) /\ SameOverrides(c, u)
  <2>1. CommittedId(s) \in Configurations /\ CommittedId(c) \in Configurations
    BY <1>1, <1>9, ValuesType, Zenon DEF SnapshotOK
  <2>2. CommitChanges(s) \in SUBSET Paths /\ "Commit" \in AuditKinds
    BY DEF CommitChanges, DirtyPaths, AuditKinds
  <2>3. CommitEvents(s) \in Seq(EventPayload)
    BY <1>1, CommitEventsType, Zenon
  <2>4. QED
    BY <1>10, <1>11, <2>1, <2>2, <2>3, LoggedGood
<1>13. u.committed_overlay = overlay
  BY <1>5, <1>7, <1>9, <1>12, Zenon DEF SameOverrides, Cleared
<1>14. \A p \in Paths : u.dirty_overlay[p] = NoValue
  <2>1. u.dirty_overlay = d.dirty_overlay
    BY <1>9, <1>12, Zenon DEF SameOverrides
  <2>2. ASSUME NEW p \in Paths PROVE d.dirty_overlay[p] = NoValue
    <3>1. /\ p \in dirty => d.dirty_overlay[p] = NoValue
          /\ p \notin dirty => d.dirty_overlay[p] = s.dirty_overlay[p]
      <4>1. Cleared(moved, dirty, d) /\ moved.dirty_overlay = s.dirty_overlay
        BY <1>5, <1>7, Zenon
      <4>2. /\ p \in dirty => d.dirty_overlay[p] = NoValue
            /\ p \notin dirty => d.dirty_overlay[p] = moved.dirty_overlay[p]
        BY <4>1, ClearedAt, Zenon
      <4>3. QED
        BY <4>1, <4>2, Zenon
    <3>2. p \notin dirty => s.dirty_overlay[p] = NoValue
      BY Zenon DEF dirty, DirtyPaths
    <3>3. QED
      BY <3>1, <3>2, Zenon
  <2>3. QED
    BY <2>1, <2>2, Zenon
<1>15. ASSUME NEW p \in Paths PROVE CommittedValue(u, p) = EffectiveValue(s, p)
  BY <1>1, <1>4, <1>13, NoValueAssumption, Zenon
     DEF CommittedValue, EffectiveValue, OverlayEntry, dirty, DirtyPaths
<1>16. QED
  BY <1>12, <1>14, <1>15 DEF u, CommitsAll

\* u takes committed values for the paths of ps and drops their overrides.
SyncsOnly(s, ps, u) ==
    /\ \A p \in ps : u.dirty_overlay[p] = NoValue
    /\ \A p \in Paths \ ps : /\ u.committed_overlay[p] = s.committed_overlay[p]
                             /\ u.dirty_overlay[p] = s.dirty_overlay[p]

\* The values a pull applies.
LEMMA PullAppliedGood ==
    ASSUME NEW s, Good(s), NEW r \in PullRequest
    PROVE  /\ PulledPaths(r) \in SUBSET Paths
           /\ Good(PullApplied(s, r))
           /\ SyncsOnly(s, PulledPaths(r), PullApplied(s, r))
<1> DEFINE ps == PulledPaths(r)
           overlay == Upstream(s, r)
           moved == [s EXCEPT !.committed_overlay = overlay, !.sync_state = "Idle"]
           c == PullApplied(s, r)
<1>1. /\ s \in Snapshot /\ SnapshotOK(s) /\ Consistent(s) /\ Sound(s)
      /\ s.dirty_overlay \in [Paths -> Values \cup {NoValue}]
      /\ s.committed_overlay \in [Paths -> Values \cup {NoValue}]
  BY Zenon DEF Good, SnapshotOK, Snapshot
<1>2. \A k \in 1 .. Len(r.writes) : r.writes[k].path \in Paths /\ r.writes[k].value \in Values
  <2>1. r.writes \in Seq(PullWrite)
    BY DEF PullRequest
  <2>2. \A k \in 1 .. Len(r.writes) : r.writes[k] \in PullWrite
    BY <2>1, ElementOfSeq
  <2>3. QED
    BY <2>2 DEF PullWrite
<1>3. ps \in SUBSET Paths
  BY <1>2 DEF PulledPaths
<1>4. ASSUME NEW p \in Paths
      PROVE  /\ overlay[p] \in Values \cup {NoValue}
             /\ p \notin ps => overlay[p] = s.committed_overlay[p]
  <2> DEFINE k == CHOOSE k \in 1 .. Len(r.writes) : r.writes[k].path = p
  <2>1. overlay[p] = IF p \in ps THEN OverlayEntry(p, r.writes[k].value) ELSE s.committed_overlay[p]
    BY DEF Upstream
  <2>2. ASSUME p \in ps PROVE k \in 1 .. Len(r.writes)
    <3>1. \E i \in 1 .. Len(r.writes) : r.writes[i].path = p
      BY <2>2 DEF PulledPaths
    <3>2. QED
      BY <3>1
  <2> HIDE DEF k, overlay, ps
  <2>3. QED
    BY <1>1, <1>2, <2>1, <2>2 DEF OverlayEntry
<1>5. overlay \in [Paths -> Values \cup {NoValue}]
  BY <1>4, Zenon DEF Upstream
<1>6. c = ClearDirty(moved, ps \cap DirtyPaths(s))
  BY DEF PullApplied
<1> HIDE DEF overlay, ps
<1>7. /\ SnapshotOK(moved) /\ moved.committed_overlay = overlay
      /\ moved.dirty_overlay = s.dirty_overlay /\ moved.dirty_generations = s.dirty_generations
      /\ moved.dirty_metadata = s.dirty_metadata /\ moved.pending = s.pending
  BY <1>1, <1>5, Zenon DEF SnapshotOK, Snapshot, SyncStates
<1> HIDE DEF moved
<1>8. Good(moved)
  <2>1. DirtyPaths(moved) = DirtyPaths(s)
    BY <1>7 DEF DirtyPaths
  <2>2. Consistent(moved) /\ Sound(moved)
    BY <1>1, <1>7, <2>1, Zenon DEF Consistent, MapsAgree, TimersBelong, Sound
  <2>3. QED
    BY <1>7, <2>2 DEF Good
<1>9. Good(c) /\ Cleared(moved, ps \cap DirtyPaths(s), c)
  BY <1>6, <1>8, ClearDirtyGood
<1> HIDE DEF c
<1>10. SyncsOnly(s, ps, c)
  <2> DEFINE qs == ps \cap DirtyPaths(s)
  <2>1. c.committed_overlay = overlay
    BY <1>7, <1>9, Zenon DEF Cleared
  <2>2. ASSUME NEW p \in Paths
        PROVE  /\ p \in qs => c.dirty_overlay[p] = NoValue
               /\ p \notin qs => c.dirty_overlay[p] = s.dirty_overlay[p]
    <3>1. Cleared(moved, qs, c) /\ moved.dirty_overlay = s.dirty_overlay
      BY <1>7, <1>9, Zenon
    <3> HIDE DEF qs
    <3>2. /\ p \in qs => c.dirty_overlay[p] = NoValue
          /\ p \notin qs => c.dirty_overlay[p] = moved.dirty_overlay[p]
      BY <3>1, ClearedAt, Zenon
    <3>3. QED
      BY <3>1, <3>2, Zenon
  <2>3. ASSUME NEW p \in ps PROVE p \in Paths /\ c.dirty_overlay[p] = NoValue
    <3>1. p \in Paths
      BY <1>3, Zenon
    <3>2. p \notin qs => s.dirty_overlay[p] = NoValue
      BY <3>1, Zenon DEF DirtyPaths
    <3>3. QED
      BY <2>2, <3>1, <3>2, Zenon
  <2>4. ASSUME NEW p \in Paths \ ps
        PROVE  c.committed_overlay[p] = s.committed_overlay[p] /\ c.dirty_overlay[p] = s.dirty_overlay[p]
    BY <1>4, <2>1, <2>2, Zenon
  <2>5. QED
    BY <2>3, <2>4, Zenon DEF SyncsOnly
<1>11. QED
  BY <1>3, <1>9, <1>10 DEF ps, c

\* A pull.
LEMMA PullGood ==
    ASSUME NEW s, Good(s), NEW r \in PullRequest
    PROVE  /\ PulledPaths(r) \in SUBSET Paths
           /\ Good(Pull(s, r))
           /\ SyncsOnly(s, PulledPaths(r), Pull(s, r))
<1> DEFINE c == PullApplied(s, r)
           ps == PulledPaths(r)
           kind == IF r.source = "Backend" THEN "SyncApply" ELSE "DirectPush"
           u == Pull(s, r)
<1>1. ps \in SUBSET Paths /\ Good(c) /\ SyncsOnly(s, ps, c) /\ s \in Snapshot /\ c \in Snapshot
  BY PullAppliedGood DEF Good, SnapshotOK
<1>2. u = IF r.writes = <<>> THEN Emit(c, <<SyncEvent, SyncEvent>>)
          ELSE AppendAudit(Emit(c, PullEvents(s, r)), kind, ps, CommittedId(s), CommittedId(c))
  BY Zenon DEF Pull
<1>3. kind \in AuditKinds /\ "Write" \in AuditKinds /\ {} \in SUBSET Paths
  BY DEF AuditKinds
<1>4. <<SyncEvent, SyncEvent>> \in Seq(EventPayload)
  <2>1. SyncEvent \in EventPayload
    BY Zenon DEF SyncEvent, Event, EventPayload, EventKinds
  <2>2. QED
    BY <2>1
<1> HIDE DEF c, ps, kind, u
<1>5. PullEvents(s, r) \in Seq(EventPayload)
  BY <1>1, PullEventsType
<1>6. CommittedId(s) \in Configurations /\ CommittedId(c) \in Configurations
  BY <1>1, ValuesType
<1>7. /\ Good(Emit(c, <<SyncEvent, SyncEvent>>))
      /\ SameOverrides(c, Emit(c, <<SyncEvent, SyncEvent>>))
  BY <1>1, <1>3, <1>4, LoggedGood, Zenon
<1>8. LET a == AppendAudit(Emit(c, PullEvents(s, r)), kind, ps, CommittedId(s), CommittedId(c))
      IN  Good(a) /\ SameOverrides(c, a)
  BY <1>1, <1>3, <1>5, <1>6, LoggedGood
<1>9. Good(u) /\ SameOverrides(c, u)
  BY <1>2, <1>7, <1>8, Zenon
<1>10. SyncsOnly(s, ps, u)
  BY <1>1, <1>9 DEF SyncsOnly, SameOverrides
<1>11. QED
  BY <1>1, <1>9, <1>10 DEF ps, u

(***************************************************************************)
(* The values after an operation.                                          *)
(***************************************************************************)
\* The overlays after a rollback.
LEMMA RollbackValues ==
    ASSUME NEW s, Good(s), NEW ps \in SUBSET DirtyPaths(s), ps # {}
    PROVE  /\ Rollback(s, ps).committed_overlay = s.committed_overlay
           /\ Rollback(s, ps).dirty_overlay =
                [p \in Paths |-> IF p \in ps THEN NoValue ELSE s.dirty_overlay[p]]
<1> DEFINE d == ClearDirty(s, ps)
           j == d.persistence_journal_sequence + 1
           c == [d EXCEPT !.persistence_journal_sequence = j]
           b == RollbackEvents(s, ps)
<1>1. s \in Snapshot /\ ps \in SUBSET Paths
  BY DEF Good, SnapshotOK, DirtyPaths
<1>2. Good(d) /\ SnapshotOK(d) /\ Cleared(s, ps, d)
  BY ClearDirtyGood DEF Good
<1>3. Rollback(s, ps) = AppendAudit(Emit(c, b), "Reset", ps, NoId, NoId)
  BY DEF Rollback
<1> HIDE DEF d
<1>4. j \in Nat
  BY <1>2, NextJournal, Zenon
<1> HIDE DEF j
<1>5. SnapshotOK(c) /\ SameOverrides(d, c)
  BY <1>2, <1>4, Zenon DEF SnapshotOK, Snapshot, SameOverrides
<1> HIDE DEF c
<1>6. b \in Seq(EventPayload) /\ "Reset" \in AuditKinds /\ NoId \in Configurations \cup {NoId}
  BY <1>1, RollbackEventsType DEF AuditKinds
<1> HIDE DEF b
<1>7. Good(c)
  BY <1>2, <1>5, SameGood
<1>8. SameOverrides(c, AppendAudit(Emit(c, b), "Reset", ps, NoId, NoId))
  BY <1>1, <1>6, <1>7, LoggedGood, Zenon
<1> QED
  BY <1>2, <1>3, <1>5, <1>8, Zenon DEF SameOverrides, Cleared

\* The overlays after a list of writes.
LEMMA WriteValues ==
    ASSUME NEW s, Good(s), NEW w \in Seq(Writes), NEW intent \in Intents, now \in Nat \ {0}
    PROVE  /\ Write(s, w, intent).committed_overlay = s.committed_overlay
           /\ \A p \in Paths : Write(s, w, intent).dirty_overlay[p] =
                 IF WritesTo(w, p) # {} THEN w[LastWriteTo(w, p)].value ELSE s.dirty_overlay[p]
<1> DEFINE a == ApplyDirtyWrites(s, w, intent, now)
           u == Write(s, w, intent)
           overlay == [p \in Paths |-> IF p \in {x \in Paths : WritesTo(w, x) # {}}
                                       THEN w[LastWriteTo(w, p)].value ELSE s.dirty_overlay[p]]
<1>1. s \in Snapshot
  BY DEF Good, SnapshotOK
<1>2. a.committed_overlay = s.committed_overlay /\ a.dirty_overlay = overlay
  BY <1>1, Zenon DEF ApplyDirtyWrites, Snapshot
<1>3. a \in Snapshot
  <2>1. w \in Seq([path: Paths, value: Values])
    <3>1. Writes \subseteq [path: Paths, value: Values]
      BY RuntimePathsAssumption DEF Writes
    <3> QED
      BY <3>1, SeqMonotonic, Zenon
  <2>2. SnapshotOK(s)
    BY DEF Good
  <2>3. SnapshotOK(a)
    BY <2>1, <2>2, ApplyDirtyWritesType, Zenon
  <2> QED
    BY <2>3 DEF SnapshotOK
<1> HIDE DEF a
<1>4. u.committed_overlay = a.committed_overlay /\ u.dirty_overlay = a.dirty_overlay
  BY <1>3, Zenon DEF Write, AppendAudit, Emit, Snapshot, a
<1> HIDE DEF u
<1>5. \A p \in Paths : overlay[p] = IF WritesTo(w, p) # {} THEN w[LastWriteTo(w, p)].value
                                    ELSE s.dirty_overlay[p]
  OBVIOUS
<1> QED
  BY <1>2, <1>4, <1>5, Zenon DEF u

\* The effective value of a written path is the last one written.
LEMMA WriteEffective ==
    ASSUME NEW s, Good(s), NEW w \in Seq(Writes), NEW intent \in Intents, now \in Nat \ {0},
           NEW p \in Paths, WritesTo(w, p) # {}
    PROVE  EffectiveValue(Write(s, w, intent), p) = w[LastWriteTo(w, p)].value
<1>1. LastWriteTo(w, p) \in 1 .. Len(w)
  BY WritesToType
<1>2. w[LastWriteTo(w, p)] \in Writes
  BY <1>1, ElementOfSeq
<1>3. w[LastWriteTo(w, p)].value # NoValue
  BY <1>2, NoValueAssumption DEF Writes
<1>4. Write(s, w, intent).dirty_overlay[p] = w[LastWriteTo(w, p)].value
  BY WriteValues
<1> QED
  BY <1>3, <1>4, Zenon DEF EffectiveValue

(***************************************************************************)
(* The invariant.                                                          *)
(***************************************************************************)
\* The snapshot a new session is opened with: no committed override, empty logs.
Fresh(x) ==
    /\ SnapshotOK(x) /\ TimersBelong(x)
    /\ \A p \in Paths \ DirtyPaths(x) : x.dirty_generations[p] = 0
    /\ x.committed_overlay = [p \in Paths |-> NoValue]
    /\ x.event_bus = [next_sequence |-> 1, events |-> <<>>, dropped_events |-> 0]
    /\ x.audit_events = <<>> /\ x.audit_next_sequence = 1 /\ x.audit_uploaded_sequence = 0

\* What a restart finds is such a snapshot.
LEMMA PersistedFresh ==
    ASSUME NEW overlay \in PersistedOverlays, NEW policy \in Policies,
           NEW metadata \in [Paths -> DirtyEntryMetadata]
    PROVE  Fresh(Persisted(overlay, metadata, policy))
<1> DEFINE x == Persisted(overlay, metadata, policy)
           o == [p \in Paths |-> NoValue]
           g == [p \in Paths |-> 0]
           bus == [next_sequence |-> 1, events |-> <<>>, dropped_events |-> 0]
<1>1. overlay \in [Paths -> Values \cup {NoValue}] /\ policy \in AutoResetPolicy
  BY PersistedAssumption, PoliciesAssumption
<1>2. /\ o \in [Paths -> Values \cup {NoValue}] /\ g \in [Paths -> Nat]
      /\ bus \in RuntimeEventBusState
      /\ <<>> \in Seq(RuntimeAuditEvent) /\ {} \in SUBSET AutoResetScheduleEntry
      /\ "Idle" \in SyncStates
  <2>1. <<>> \in Seq(RuntimeEvent) /\ <<>> \in Seq(RuntimeAuditEvent) /\ 0 \in Nat /\ 1 \in Nat
    OBVIOUS
  <2>2. bus \in RuntimeEventBusState
    BY <2>1, Zenon DEF RuntimeEventBusState
  <2>3. o \in [Paths -> Values \cup {NoValue}] /\ g \in [Paths -> Nat]
    BY <2>1, Zenon
  <2> QED
    BY <2>1, <2>2, <2>3, Zenon DEF SyncStates
<1>3. x = [committed_overlay |-> o, dirty_overlay |-> overlay, dirty_generations |-> g,
           dirty_metadata |-> metadata, auto_reset_policy |-> policy, policy_revision |-> 0,
           pending |-> {}, event_bus |-> bus, sync_state |-> "Idle", audit_events |-> <<>>,
           audit_next_sequence |-> 1, audit_uploaded_sequence |-> 0,
           persistence_journal_sequence |-> 0]
  BY Zenon DEF Persisted
<1>4. 0 \in Nat /\ 1 \in Nat
  OBVIOUS
<1> HIDE DEF bus, x, o, g
<1>5. x \in Snapshot
  BY <1>1, <1>2, <1>3, <1>4, Zenon DEF Snapshot
<1>6. /\ x.pending = {} /\ x.dirty_generations = g /\ x.committed_overlay = o
      /\ x.event_bus = bus /\ x.audit_events = <<>>
      /\ x.audit_next_sequence = 1 /\ x.audit_uploaded_sequence = 0
  BY <1>3, Zenon
<1>7. SnapshotOK(x) /\ TimersBelong(x) /\ \A p \in Paths \ DirtyPaths(x) : x.dirty_generations[p] = 0
  BY <1>5, <1>6, FS_EmptySet, Zenon DEF SnapshotOK, TimersBelong, g
<1>8. Fresh(x)
  BY <1>6, <1>7, Zenon DEF Fresh, bus, o
<1> QED
  BY <1>8 DEF x

\* Init opens a session with such a snapshot.
LEMMA InitFresh ==
    ASSUME Init
    PROVE  \E x : /\ Fresh(x) /\ snapshot = RuntimeOpen(x, 1)
                  /\ Good(Prepared(x, 1)) /\ StartOf(x, Prepared(x, 1))
<1>1. PICK overlay \in PersistedOverlays, policy \in Policies,
           metadata \in [Paths -> PersistedMetadata \cup {NoMetadata}] :
         /\ \A p \in Paths : overlay[p] = NoValue => metadata[p] = NoMetadata
         /\ Valid(Normalize(Persisted(overlay, metadata, policy), 1))
         /\ snapshot = RuntimeOpen(Persisted(overlay, metadata, policy), 1)
  BY Zenon DEF Init
<1>2. NoMetadata \in DirtyEntryMetadata
  BY DEF NoMetadata, DirtyEntryMetadata, NoDeadline, Intents
<1>3. metadata \in [Paths -> DirtyEntryMetadata]
  BY <1>2, PersistedAssumption
<1> DEFINE x == Persisted(overlay, metadata, policy)
<1>4. Fresh(x) /\ Valid(Normalize(x, 1)) /\ snapshot = RuntimeOpen(x, 1)
  BY <1>1, <1>3, PersistedFresh
<1> HIDE DEF x
<1>5. 1 \in Nat \ {0}
  OBVIOUS
<1>6. Good(Prepared(x, 1)) /\ StartOf(x, Prepared(x, 1))
  BY <1>4, <1>5, PreparedGood, Zenon DEF Fresh
<1> QED
  BY <1>4, <1>6, Zenon

\* The metadata an override without any is given: it starts at the time t.
LEMMA NormalizedOfNone ==
    ASSUME NEW s \in Snapshot, NEW p \in Paths, NEW t \in Nat, s.dirty_metadata[p] = NoMetadata
    PROVE  /\ NormalizedMetadata(s, p, t).generation # 0
           /\ NormalizedMetadata(s, p, t).dirty_since = t
           /\ NormalizedMetadata(s, p, t).reset_deadline = Armed(s, p, t)
           /\ NormalizedMetadata(s, p, t).hard_cap_deadline = NoDeadline
<1> DEFINE y == NormalizedMetadata(s, p, t)
           m == s.dirty_metadata[p]
<1>1. /\ NormalizedGeneration(s, p) \in Nat \ {0}
      /\ y.generation = NormalizedGeneration(s, p)
      /\ y.dirty_since = IF m.dirty_since = 0 THEN t ELSE m.dirty_since
      /\ y.reset_deadline =
           IF m.reset_deadline = NoDeadline THEN Armed(s, p, t) ELSE m.reset_deadline
      /\ y.hard_cap_deadline = m.hard_cap_deadline
  BY NormalizedMetadataType, Zenon
<1>2. m.dirty_since = 0 /\ m.reset_deadline = NoDeadline /\ m.hard_cap_deadline = NoDeadline
  <2>1. /\ NoMetadata.dirty_since = 0 /\ NoMetadata.reset_deadline = NoDeadline
        /\ NoMetadata.hard_cap_deadline = NoDeadline
    BY Zenon DEF NoMetadata
  <2> QED
    BY <2>1, Zenon
<1> HIDE DEF y, m
<1>3. y.generation # 0 /\ y.dirty_since = t /\ y.reset_deadline = Armed(s, p, t)
        /\ y.hard_cap_deadline = NoDeadline
  BY <1>1, <1>2, Zenon
<1> QED
  BY <1>3, Zenon DEF y

\* An overlay that was kept without its metadata is one that opens.
LEMMA RestoredGood ==
    ASSUME NEW overlay \in PersistedOverlays, NEW policy \in Policies, NEW t \in Nat \ {0},
           NEW x, x = Persisted(overlay, [p \in Paths |-> NoMetadata], policy)
    PROVE  Fresh(x) /\ Good(Prepared(x, t))
<1> DEFINE n == Normalize(x, t)
<1>1. NoMetadata \in DirtyEntryMetadata /\ t \in Nat
  BY DEF NoMetadata, DirtyEntryMetadata, NoDeadline, Intents
<1>2. Fresh(x)
  <2>1. [p \in Paths |-> NoMetadata] \in [Paths -> DirtyEntryMetadata]
    BY <1>1
  <2> QED
    BY <2>1, PersistedFresh, Zenon
<1>3. x.dirty_metadata = [p \in Paths |-> NoMetadata]
  BY Zenon DEF Persisted
<1>4. /\ x \in Snapshot /\ SnapshotOK(x) /\ TimersBelong(x)
      /\ \A p \in Paths \ DirtyPaths(x) : x.dirty_generations[p] = 0
  BY <1>2, Zenon DEF Fresh, SnapshotOK
<1>5. SnapshotOK(n) /\ Consistent(n) /\ Normalized(x, t, n)
  BY <1>1, <1>4, PreparedType, Zenon
<1> HIDE DEF n
<1>6. ASSUME NEW p \in DirtyPaths(n) PROVE MetadataValid(n.dirty_metadata[p])
  <2>1. p \in DirtyPaths(x) /\ p \in Paths
    BY <1>5, <1>6, Zenon DEF Normalized, DirtyPaths
  <2>2. n.dirty_metadata[p] = NormalizedMetadata(x, p, t)
    BY <1>5, <2>1, Zenon DEF Normalized
  <2>3. /\ Armed(x, p, t) \in Nat
        /\ Armed(x, p, t) # NoDeadline => Armed(x, p, t) >= t
    BY <1>1, <1>4, <2>1, ArmedType, Zenon
  <2>4. /\ NormalizedMetadata(x, p, t).generation # 0
        /\ NormalizedMetadata(x, p, t).dirty_since = t
        /\ NormalizedMetadata(x, p, t).reset_deadline = Armed(x, p, t)
        /\ NormalizedMetadata(x, p, t).hard_cap_deadline = NoDeadline
    <3>1. x \in Snapshot /\ x.dirty_metadata[p] = NoMetadata
      BY <1>3, <1>4, <2>1, Zenon
    <3> QED
      BY <1>1, <2>1, <3>1, NormalizedOfNone, Zenon
  <2> QED
    BY <1>1, <2>2, <2>3, <2>4, Zenon DEF MetadataValid
<1>7. Valid(n)
  BY <1>5, <1>6, ValidIsSound
<1>8. Good(Prepared(x, t))
  BY <1>4, <1>7, PreparedGood, Zenon DEF n
<1> QED
  BY <1>2, <1>8, Zenon

\* The event of a session that opens.
LEMMA OpenedType == <<Event("RuntimeOpened", {})>> \in Seq(EventPayload)
<1>1. Event("RuntimeOpened", {}) \in EventPayload
  BY Zenon DEF Event, EventPayload, EventKinds
<1>2. QED
  BY <1>1

\* A session opens with a good snapshot, also on persisted overrides without
\* generations or timers.
LEMMA InitGood ==
    ASSUME Init
    PROVE  /\ GoodState
           /\ snapshot.committed_overlay = [p \in Paths |-> NoValue]
<1>1. PICK x : /\ Fresh(x) /\ snapshot = RuntimeOpen(x, 1)
               /\ Good(Prepared(x, 1)) /\ StartOf(x, Prepared(x, 1))
  BY InitFresh, Zenon
<1> DEFINE s == Prepared(x, 1)
<1>2. snapshot = Emit(s, <<Event("RuntimeOpened", {})>>)
  BY <1>1, Zenon DEF RuntimeOpen
<1> HIDE DEF s
<1>3. Good(s) /\ s.committed_overlay = [p \in Paths |-> NoValue]
  BY <1>1, Zenon DEF Fresh, StartOf, s
<1>4. Good(snapshot) /\ SameOverrides(s, snapshot)
  BY <1>2, <1>3, OpenedType, EmitType, SameGood, Zenon DEF Good
<1>5. now \in Nat \ {0}
  BY DEF Init
<1>6. QED
  BY <1>3, <1>4, <1>5, Zenon DEF GoodState, SameOverrides

\* Opening a session again.
LEMMA ReopenGood ==
    ASSUME GoodState, Reopen
    PROVE  Good(snapshot') /\ WroteOnly(snapshot, snapshot') /\ now' = now
<1> DEFINE s == Prepared(snapshot, now)
<1>1. Good(s) /\ StartOf(snapshot, s)
  BY OperationStart DEF Reopen
<1>2. snapshot' = Emit(s, <<Event("RuntimeOpened", {})>>) /\ now' = now
  BY DEF Reopen, Return, RuntimeOpen
<1> HIDE DEF s
<1>3. Good(snapshot') /\ SameOverrides(s, snapshot')
  BY <1>1, <1>2, OpenedType, EmitType, SameGood, Zenon DEF Good
<1>4. QED
  BY <1>1, <1>2, <1>3, Zenon DEF WroteOnly, SameOverrides, StartOf

\* Writes, atomic or not.
LEMMA SetGood ==
    ASSUME GoodState, SetParameter \/ SetParametersAtomically
    PROVE  Good(snapshot') /\ WroteOnly(snapshot, snapshot') /\ now' = now
<1> DEFINE s == Prepared(snapshot, now)
<1>1. Good(s) /\ StartOf(snapshot, s)
  BY OperationStart DEF SetParameter, SetParametersAtomically
<1>2. PICK w \in Seq(Writes), intent \in Intents : snapshot' = Write(s, w, intent) /\ now' = now
  <2>1. CASE SetParameter
    <3>1. PICK x \in Writes, intent \in Intents : Return(Write(s, <<x>>, intent))
      BY <2>1 DEF SetParameter
    <3>2. <<x>> \in Seq(Writes)
      OBVIOUS
    <3>3. QED
      BY <3>1, <3>2, Zenon DEF Return
  <2>2. CASE SetParametersAtomically
    <3>1. PICK w \in WriteLists, intent \in Intents : Return(Write(s, w, intent))
      BY <2>2 DEF SetParametersAtomically
    <3>2. w \in Seq(Writes)
      BY WriteListsAssumption
    <3>3. QED
      BY <3>1, <3>2 DEF Return
  <2>3. QED
    BY <2>1, <2>2
<1> HIDE DEF s
<1>3. now \in Nat \ {0}
  BY DEF GoodState
<1>4. Good(snapshot') /\ WroteOnly(s, snapshot')
  BY <1>1, <1>2, <1>3, WriteGood
<1>5. QED
  BY <1>1, <1>2, <1>4, Zenon DEF WroteOnly, StartOf

\* A change of the auto-reset policy, which arms overrides that had no lease.
LEMMA PolicyGood ==
    ASSUME GoodState, SetAutoResetPolicy
    PROVE  Good(snapshot') /\ WroteOnly(snapshot, snapshot') /\ now' = now
<1> DEFINE s == Prepared(snapshot, now)
<1>1. Good(s) /\ StartOf(snapshot, s) /\ now \in Nat \ {0}
  BY OperationStart DEF SetAutoResetPolicy, GoodState
<1>2. PICK policy \in Policies :
         Return(Normalize([s EXCEPT !.auto_reset_policy = policy, !.policy_revision = @ + 1], now))
  BY Zenon DEF SetAutoResetPolicy
<1> DEFINE revision == s.policy_revision + 1
           x == [s EXCEPT !.auto_reset_policy = policy, !.policy_revision = revision]
<1>3. Return(Normalize(x, now))
  BY <1>2
<1> HIDE DEF s
<1>4. policy \in AutoResetPolicy /\ revision \in Nat
  BY <1>1, <1>2, PoliciesAssumption DEF Good, SnapshotOK, Snapshot
<1> HIDE DEF revision
<1>5. /\ SnapshotOK(x) /\ x.committed_overlay = s.committed_overlay
      /\ x.dirty_overlay = s.dirty_overlay /\ x.dirty_generations = s.dirty_generations
      /\ x.pending = s.pending
  BY <1>1, <1>4, Zenon DEF Good, SnapshotOK, Snapshot
<1> HIDE DEF x
<1>6. TimersBelong(x) /\ \A p \in Paths \ DirtyPaths(x) : x.dirty_generations[p] = 0
  BY <1>1, <1>5, Zenon DEF Good, Consistent, MapsAgree, TimersBelong, DirtyPaths
<1>7. Valid(Normalize(x, now)) /\ snapshot' = Normalize(x, now) /\ now' = now
  BY <1>3 DEF Return
<1>8. Good(snapshot') /\ StartOf(x, snapshot')
  BY <1>1, <1>5, <1>6, <1>7, PreparedGood, Zenon
<1>9. QED
  BY <1>1, <1>5, <1>7, <1>8, Zenon DEF WroteOnly, StartOf

\* A rollback.
LEMMA RollbackDirtyGood ==
    ASSUME GoodState, RollbackDirty
    PROVE  Good(snapshot') /\ WroteOnly(snapshot, snapshot') /\ now' = now
<1> DEFINE s == Prepared(snapshot, now)
<1>1. Good(s) /\ StartOf(snapshot, s)
  BY OperationStart DEF RollbackDirty
<1>2. PICK ps \in SUBSET DirtyPaths(s) : snapshot' = Rollback(s, ps) /\ now' = now
  BY DEF RollbackDirty, Return
<1> HIDE DEF s
<1>3. Good(snapshot') /\ WroteOnly(s, snapshot')
  BY <1>1, <1>2, RollbackGood
<1>4. QED
  BY <1>1, <1>2, <1>3, Zenon DEF WroteOnly, StartOf

\* A commit of what the due resets left.
LEMMA CommitConfigurationGood ==
    ASSUME GoodState, CommitConfiguration
    PROVE  /\ Good(snapshot') /\ now' = now
           /\ \E s : SnapshotOK(s) /\ StartOf(snapshot, s) /\ CommitsAll(s, snapshot')
<1> DEFINE s == Prepared(snapshot, now)
<1>1. Good(s) /\ StartOf(snapshot, s)
  BY OperationStart DEF CommitConfiguration
<1>2. snapshot' = Commit(s) /\ now' = now
  BY DEF CommitConfiguration, Return
<1> HIDE DEF s
<1>3. Good(snapshot') /\ CommitsAll(s, snapshot')
  BY <1>1, <1>2, CommitGood
<1>4. QED
  BY <1>1, <1>2, <1>3 DEF Good

\* Asking the backend for updates.
LEMMA CheckGood ==
    ASSUME GoodState, CheckForUpdates
    PROVE  Good(snapshot') /\ WroteOnly(snapshot, snapshot') /\ now' = now
<1> DEFINE s == Prepared(snapshot, now)
<1>1. Good(s) /\ StartOf(snapshot, s)
  BY OperationStart DEF CheckForUpdates
<1>2. PICK state \in SyncStates, batch \in {<<SyncEvent, SyncEvent>>, <<SyncEvent>>} :
         snapshot' = Emit([s EXCEPT !.sync_state = state], batch) /\ now' = now
  BY DEF CheckForUpdates, Return, SyncStates
<1> DEFINE x == [s EXCEPT !.sync_state = state]
<1> HIDE DEF s
<1>3. SnapshotOK(x) /\ SameOverrides(s, x)
  BY <1>1, Zenon DEF Good, SnapshotOK, Snapshot, SameOverrides
<1> HIDE DEF x
<1>4. batch \in Seq(EventPayload)
  <2>1. SyncEvent \in EventPayload
    BY Zenon DEF SyncEvent, Event, EventPayload, EventKinds
  <2>2. <<SyncEvent, SyncEvent>> \in Seq(EventPayload) /\ <<SyncEvent>> \in Seq(EventPayload)
    BY <2>1
  <2>3. QED
    BY <1>2, <2>2, Zenon
<1>5. SnapshotOK(snapshot') /\ SameOverrides(x, snapshot')
  BY <1>2, <1>3, <1>4, EmitType DEF x
<1>6. SameOverrides(s, snapshot')
  BY <1>3, <1>5 DEF SameOverrides
<1>7. Good(snapshot')
  BY <1>1, <1>5, <1>6, SameGood
<1>8. QED
  BY <1>1, <1>2, <1>6, <1>7 DEF WroteOnly, SameOverrides, StartOf

\* A pull over what the due resets left.
LEMMA PullUpdatesGood ==
    ASSUME GoodState, PullUpdates
    PROVE  /\ Good(snapshot') /\ now' = now
           /\ \E s, ps : /\ ps \in SUBSET Paths /\ StartOf(snapshot, s)
                         /\ SyncsOnly(s, ps, snapshot')
<1> DEFINE s == Prepared(snapshot, now)
<1>1. Good(s) /\ StartOf(snapshot, s)
  BY OperationStart DEF PullUpdates
<1>2. PICK r \in PullRequests : snapshot' = Pull(s, r) /\ now' = now
  BY DEF PullUpdates, Return
<1>3. r \in PullRequest
  BY PullAssumption
<1> HIDE DEF s
<1>4. /\ PulledPaths(r) \in SUBSET Paths /\ Good(snapshot')
      /\ SyncsOnly(s, PulledPaths(r), snapshot')
  BY <1>1, <1>2, <1>3, PullGood
<1>5. QED
  BY <1>1, <1>2, <1>4

\* Uploading audit records moves the cursor only.
LEMMA PushGood ==
    ASSUME GoodState, PushAuditEvents
    PROVE  Good(snapshot') /\ WroteOnly(snapshot, snapshot') /\ now' = now
<1> DEFINE s == Normalize(snapshot, now)
<1>1. Good(s) /\ StartOf(snapshot, s)
  BY OperationStart DEF PushAuditEvents
<1>2. PICK connected \in BOOLEAN, max_events \in 1 .. MaxAudit :
         /\ snapshot' = [s EXCEPT !.audit_uploaded_sequence =
                            IF connected THEN Pushed(s, max_events) ELSE @]
         /\ now' = now
  BY DEF PushAuditEvents, Return
<1> DEFINE cursor == IF connected THEN Pushed(s, max_events) ELSE s.audit_uploaded_sequence
<1>3. snapshot' = [s EXCEPT !.audit_uploaded_sequence = cursor]
  BY <1>2
<1> HIDE DEF s
<1>4. cursor \in Nat
  <2>1. s.audit_uploaded_sequence \in Nat /\ Len(s.audit_events) \in Nat /\ max_events \in Nat
    <3>1. s.audit_uploaded_sequence \in Nat /\ s.audit_events \in Seq(RuntimeAuditEvent)
      BY <1>1, Zenon DEF Good, SnapshotOK, Snapshot
    <3>2. QED
      BY <3>1, BoundsAssumption
  <2>2. QED
    BY <2>1 DEF Pushed
<1> HIDE DEF cursor
<1>5. SnapshotOK(snapshot') /\ SameOverrides(s, snapshot')
  BY <1>1, <1>3, <1>4, Zenon DEF Good, SnapshotOK, Snapshot, SameOverrides
<1>6. QED
  BY <1>1, <1>2, <1>5, SameGood, Zenon DEF WroteOnly, SameOverrides, StartOf

\* One run of the override driver.
LEMMA DriveGood ==
    ASSUME GoodState, DriveOverrideLifecycle
    PROVE  Good(snapshot') /\ WroteOnly(snapshot, snapshot') /\ now' = now
<1> DEFINE s == Normalize(snapshot, now)
           esc == {e \in s.pending : Escalates(s, e)}
<1>1. Good(s) /\ StartOf(snapshot, s) /\ now \in Nat
  BY OperationStart DEF DriveOverrideLifecycle, GoodState
<1>2. snapshot' = (IF Due(s, now) = {} THEN s ELSE Fire(s, now, esc)) /\ now' = now
  BY Zenon DEF DriveOverrideLifecycle, Driven
<1> HIDE DEF s, esc
<1>3. CASE Due(s, now) = {}
  BY <1>1, <1>2, <1>3 DEF WroteOnly, StartOf
<1>4. CASE Due(s, now) # {}
  <2>1. /\ SnapshotOK(snapshot') /\ Consistent(snapshot')
        /\ Ended(s, Reverted(s, now, esc), snapshot')
    BY <1>1, <1>2, <1>4, FireType DEF Good
  <2>2. Good(snapshot')
    BY <1>1, <2>1, EndedGood
  <2>3. QED
    BY <1>1, <1>2, <2>1, <2>2, Zenon DEF WroteOnly, StartOf, Ended
<1>5. QED
  BY <1>3, <1>4

\* Every step keeps the invariant.
LEMMA NextGood ==
    ASSUME GoodState, [Next]_vars
    PROVE  GoodState'
<1>1. CASE UNCHANGED vars
  BY <1>1, Zenon DEF vars, GoodState, Good, SnapshotOK, Consistent, MapsAgree, TimersBelong, Sound,
              DirtyPaths, MetadataValid
<1>2. ASSUME Good(snapshot'), now' = now PROVE GoodState'
  BY <1>2, Zenon DEF GoodState, Good, SnapshotOK, Consistent, MapsAgree, TimersBelong, Sound,
              DirtyPaths, MetadataValid
<1>3. CASE Reopen
  BY <1>2, <1>3, ReopenGood
<1>4. CASE SetParameter \/ SetParametersAtomically
  BY <1>2, <1>4, SetGood
<1>5. CASE SetAutoResetPolicy
  BY <1>2, <1>5, PolicyGood
<1>6. CASE RollbackDirty
  BY <1>2, <1>6, RollbackDirtyGood
<1>7. CASE CommitConfiguration
  BY <1>2, <1>7, CommitConfigurationGood
<1>8. CASE CheckForUpdates
  BY <1>2, <1>8, CheckGood
<1>9. CASE PullUpdates
  BY <1>2, <1>9, PullUpdatesGood
<1>10. CASE PushAuditEvents
  BY <1>2, <1>10, PushGood
<1>11. CASE DriveOverrideLifecycle
  BY <1>2, <1>11, DriveGood
<1>12. ASSUME snapshot' = snapshot, now' \in Nat \ {0} PROVE GoodState'
  BY <1>12, Zenon DEF GoodState, Good, SnapshotOK, Consistent, MapsAgree, TimersBelong, Sound,
               DirtyPaths, MetadataValid
<1>13. CASE Tick
  BY <1>12, <1>13 DEF Tick, GoodState
<1>14. CASE ClockSetBack
  BY <1>12, <1>14 DEF ClockSetBack, GoodState
<1>15. QED
  BY <1>1, <1>3, <1>4, <1>5, <1>6, <1>7, <1>8, <1>9, <1>10, <1>11, <1>13, <1>14 DEF Next

(***************************************************************************)
(* The theorems.                                                           *)
(***************************************************************************)
\* The inductive invariant holds in every state of a session.
THEOREM GoodAlways == Spec => []GoodState
<1>1. Init => GoodState
  BY InitGood
<1>2. GoodState /\ [Next]_vars => GoodState'
  BY NextGood
<1>3. QED
  BY <1>1, <1>2, PTL DEF Spec

\* Every component of a session's state keeps its type (TypeOK): in particular a
\* transient sync state never stays behind in a returned snapshot.
THEOREM TypeCorrect == Spec => []TypeOK
<1>1. GoodState => TypeOK
  BY DEF GoodState, Good, SnapshotOK, TypeOK
<1>2. QED
  BY <1>1, GoodAlways, PTL

\* The maps of values, generations and metadata of the overrides agree in every
\* state, for any number of paths and any interleaving of calls, timers, clock
\* steps and restarts (DirtyMapsAgree).
THEOREM MapsAlwaysAgree == Spec => []DirtyMapsAgree
<1>1. GoodState => DirtyMapsAgree
  BY Zenon DEF GoodState, Good, Consistent, MapsAgree, DirtyMapsAgree
<1>2. QED
  BY <1>1, GoodAlways, PTL

\* No timer outlives the override that armed it, although generations restart
\* with every new override (TimersBelongToOverrides).
THEOREM TimersAlwaysBelong == Spec => []TimersBelongToOverrides
<1>1. GoodState => TimersBelongToOverrides
  BY Zenon DEF GoodState, Good, Consistent, TimersBelong, TimersBelongToOverrides
<1>2. QED
  BY <1>1, GoodAlways, PTL

\* A snapshot is refused by the code's own validation only while the clock is
\* behind the start of an override (RefusedOnlyWhileClockBehind).
THEOREM UsableUnlessClockBehind == Spec => []RefusedOnlyWhileClockBehind
<1>1. ASSUME GoodState, \A p \in DirtyPaths(snapshot) : snapshot.dirty_metadata[p].dirty_since <= now
      PROVE  Operable
  <2> DEFINE n == Normalize(snapshot, now)
  <2>1. /\ SnapshotOK(snapshot) /\ snapshot \in Snapshot /\ TimersBelong(snapshot)
        /\ now \in Nat \ {0}
        /\ \A p \in Paths \ DirtyPaths(snapshot) : snapshot.dirty_generations[p] = 0
    BY <1>1 DEF GoodState, Good, Consistent, MapsAgree, SnapshotOK
  <2>2. SnapshotOK(n) /\ Consistent(n) /\ Normalized(snapshot, now, n)
    BY <2>1, PreparedType, Zenon
  <2> HIDE DEF n
  <2>3. ASSUME NEW p \in DirtyPaths(n) PROVE MetadataValid(n.dirty_metadata[p])
    <3> DEFINE m == snapshot.dirty_metadata[p]
    <3>1. p \in DirtyPaths(snapshot) /\ p \in Paths
      BY <2>2, <2>3, Zenon DEF Normalized, DirtyPaths
    <3>2. n.dirty_metadata[p] = NormalizedMetadata(snapshot, p, now)
      BY <2>2, <3>1, Zenon DEF Normalized
    <3>3. m.dirty_since # 0 /\ MetadataValid(m) /\ m.dirty_since <= now
      BY <1>1, <3>1, Zenon DEF GoodState, Good, Sound
    <3>4. m \in DirtyEntryMetadata
      BY <2>1, <3>1 DEF Snapshot
    <3>5. /\ Armed(snapshot, p, now) \in Nat
          /\ Armed(snapshot, p, now) # NoDeadline => Armed(snapshot, p, now) >= now
      BY <2>1, <3>1, ArmedType
    <3>6. /\ NormalizedMetadata(snapshot, p, now).generation # 0
          /\ NormalizedMetadata(snapshot, p, now).dirty_since = m.dirty_since
          /\ NormalizedMetadata(snapshot, p, now).reset_deadline \in
                {m.reset_deadline, Armed(snapshot, p, now)}
          /\ NormalizedMetadata(snapshot, p, now).hard_cap_deadline = m.hard_cap_deadline
      <4> DEFINE x == NormalizedMetadata(snapshot, p, now)
      <4>1. now \in Nat
        BY <2>1
      <4>2. /\ NormalizedGeneration(snapshot, p) \in Nat \ {0}
            /\ x.generation = NormalizedGeneration(snapshot, p)
            /\ x.dirty_since = IF m.dirty_since = 0 THEN now ELSE m.dirty_since
            /\ x.reset_deadline =
                 IF m.reset_deadline = NoDeadline THEN Armed(snapshot, p, now) ELSE m.reset_deadline
            /\ x.hard_cap_deadline = m.hard_cap_deadline
        BY <2>1, <3>1, <4>1, NormalizedMetadataType, Zenon
      <4> HIDE DEF x, m
      <4>3. /\ x.generation # 0
            /\ x.dirty_since = m.dirty_since
            /\ x.reset_deadline \in {m.reset_deadline, Armed(snapshot, p, now)}
            /\ x.hard_cap_deadline = m.hard_cap_deadline
        BY <3>3, <4>2, Zenon
      <4>4. QED
        BY <4>3, Zenon DEF x
    <3> HIDE DEF m
    <3>7. m.dirty_since \in Nat /\ m.reset_deadline \in Nat /\ m.hard_cap_deadline \in Nat
      BY <3>4 DEF DirtyEntryMetadata
    <3> DEFINE x == NormalizedMetadata(snapshot, p, now)
               a == Armed(snapshot, p, now)
    <3>8. /\ x.generation # 0 /\ x.dirty_since = m.dirty_since
          /\ x.reset_deadline \in {m.reset_deadline, a} /\ x.hard_cap_deadline = m.hard_cap_deadline
          /\ a \in Nat
          /\ a # NoDeadline => a >= now
      BY <3>5, <3>6, Zenon
    <3> HIDE DEF x, a
    <3>9. a # NoDeadline => a >= m.dirty_since
      BY <2>1, <3>3, <3>7, <3>8
    <3>10. MetadataValid(x)
      BY <3>3, <3>8, <3>9, Zenon DEF MetadataValid
    <3>11. QED
      BY <3>2, <3>10, Zenon DEF x
  <2>4. QED
    BY <2>2, <2>3, ValidIsSound DEF Operable, n
<1>2. GoodState => RefusedOnlyWhileClockBehind
  BY <1>1 DEF RefusedOnlyWhileClockBehind
<1>3. QED
  BY <1>2, GoodAlways, PTL

\* A session implements the abstract store of ConfigurationStore (ImplementsStore):
\* whatever timers fire at the start of a call, a commit publishes exactly what
\* is left in effect, only runtime paths are overridden, and a sync changes and
\* drops only its own paths.
THEOREM SessionImplementsStore == Spec => ImplementsStore
<1>1. ASSUME Init PROVE Store!StoreInit
  <2>1. snapshot \in Snapshot /\ snapshot.committed_overlay = [p \in Paths |-> NoValue]
    BY <1>1, InitGood DEF GoodState, Good, SnapshotOK
  <2>2. CommittedId(snapshot) = Baseline
    BY <2>1, BaselineAssumption DEF CommittedId, CommittedValue
  <2>3. snapshot.dirty_overlay \in [Paths -> Values \cup {NoValue}]
    BY <2>1 DEF Snapshot
  <2>4. QED
    BY <2>2, <2>3 DEF Store!StoreInit, Store!Overlays
<1>2. ASSUME GoodState, [Next]_vars PROVE [Store!StoreNext]_(Store!storeVars)
  <2>1. /\ snapshot \in Snapshot
        /\ snapshot.dirty_overlay \in [Paths -> Values \cup {NoValue}]
    BY <1>2, Zenon DEF GoodState, Good, SnapshotOK, Snapshot
  <2>2. ASSUME Good(snapshot')
        PROVE  /\ snapshot' \in Snapshot
               /\ snapshot'.dirty_overlay \in [Paths -> Values \cup {NoValue}]
               /\ CommittedId(snapshot') \in [Paths -> Values]
    <3>1. snapshot' \in Snapshot
      BY <2>2 DEF Good, SnapshotOK
    <3>2. CommittedId(snapshot') \in Configurations
      BY <3>1, ValuesType
    <3>3. QED
      BY <3>1, <3>2, Zenon DEF Snapshot, Configurations
  <2>3. ASSUME Good(snapshot'), WroteOnly(snapshot, snapshot') PROVE Store!Override
    <3>1. CommittedId(snapshot)' = CommittedId(snapshot)
      BY <2>3 DEF WroteOnly, CommittedId, CommittedValue
    <3>2. QED
      BY <2>2, <2>3, <3>1 DEF WroteOnly, Store!Override, Store!Overlays
  <2>4. CASE UNCHANGED vars \/ Tick \/ ClockSetBack
    BY <2>4 DEF vars, Tick, ClockSetBack, Store!storeVars, CommittedId, CommittedValue
  <2>5. CASE CommitConfiguration
    <3>1. Good(snapshot')
      BY <1>2, <2>5, CommitConfigurationGood
    <3>2. PICK s : SnapshotOK(s) /\ StartOf(snapshot, s) /\ CommitsAll(s, snapshot')
      BY <1>2, <2>5, CommitConfigurationGood
    <3>3. s.dirty_overlay \in [Paths -> Values \cup {NoValue}]
      BY <3>2 DEF SnapshotOK, Snapshot
    <3>4. snapshot'.dirty_overlay = [p \in Paths |-> NoValue]
      BY <2>2, <3>1, <3>2, Zenon DEF CommitsAll
    <3>5. CommittedId(snapshot)' =
             [p \in Paths |-> IF s.dirty_overlay[p] # NoValue THEN s.dirty_overlay[p]
                              ELSE CommittedId(snapshot)[p]]
      BY <3>2, Zenon DEF CommitsAll, StartOf, CommittedId, EffectiveValue, CommittedValue
    <3>6. Store!Commit
      BY <3>2, <3>3, <3>4, <3>5, Zenon
         DEF StartOf, Store!Commit, Store!None, Store!Remains, Store!Overlays, Store!InEffect
    <3>7. QED
      BY <3>6 DEF Store!StoreNext
  <2>6. CASE PullUpdates
    <3>1. Good(snapshot')
      BY <1>2, <2>6, PullUpdatesGood
    <3>2. PICK s, ps : /\ ps \in SUBSET Paths /\ StartOf(snapshot, s)
                       /\ SyncsOnly(s, ps, snapshot')
      BY <1>2, <2>6, PullUpdatesGood
    <3>3. \A p \in Paths : snapshot'.dirty_overlay[p] \in {snapshot.dirty_overlay[p], NoValue}
      BY <3>2 DEF StartOf, SyncsOnly
    <3>4. \A p \in Paths \ ps : CommittedId(snapshot)'[p] = CommittedId(snapshot)[p]
      BY <3>2, Zenon DEF StartOf, SyncsOnly, CommittedId, CommittedValue
    <3>5. \A p \in ps : snapshot'.dirty_overlay[p] = NoValue
      BY <3>2, Zenon DEF SyncsOnly
    <3>6. Store!Sync
      BY <2>2, <3>1, <3>2, <3>3, <3>4, <3>5, Zenon DEF Store!Sync, Store!Remains, Store!Overlays
    <3>7. QED
      BY <3>6 DEF Store!StoreNext
  <2>7. CASE \/ Reopen \/ SetParameter \/ SetParametersAtomically \/ SetAutoResetPolicy
             \/ RollbackDirty \/ CheckForUpdates \/ PushAuditEvents \/ DriveOverrideLifecycle
    <3>1. Good(snapshot') /\ WroteOnly(snapshot, snapshot')
      BY <1>2, <2>7, ReopenGood, SetGood, PolicyGood, RollbackDirtyGood, CheckGood, PushGood,
         DriveGood
    <3>2. QED
      BY <2>3, <3>1 DEF Store!StoreNext
  <2>8. QED
    BY <1>2, <2>4, <2>5, <2>6, <2>7 DEF Next
<1>3. QED
  BY <1>1, <1>2, GoodAlways, PTL DEF Spec, ImplementsStore, Store!StoreSpec

(***************************************************************************)
(* What ends an override.                                                  *)
(***************************************************************************)
\* A reverted path has a due entry that does not escalate and is current.
LEMMA RevertedBecause ==
    ASSUME NEW s, NEW t, NEW esc, NEW p \in Reverted(s, t, esc)
    PROVE  \E e \in s.pending \ esc : e.path = p /\ e.deadline <= t /\ IsCurrent(s, e)
<1>1. PICK e \in Fired(s, t, esc) \ esc : e.path = p
  BY Zenon DEF Reverted
<1> QED
  BY <1>1, Zenon DEF Fired, Due

\* The driver reverts no compensating override.
LEMMA DriverSpares ==
    ASSUME NEW s, s \in Snapshot, NEW t,
           NEW p \in Reverted(s, t, {e \in s.pending : Escalates(s, e)})
    PROVE  s.dirty_metadata[p].intent # "Compensating"
<1> DEFINE esc == {e \in s.pending : Escalates(s, e)}
<1>0. p \in Reverted(s, t, esc)
  OBVIOUS
<1> HIDE DEF esc
<1>1. PICK e \in s.pending \ esc : e.path = p /\ e.deadline <= t /\ IsCurrent(s, e)
  BY <1>0, RevertedBecause
<1>2. ~ Escalates(s, e)
  BY <1>1 DEF esc
<1>3. e.kind = "LeaseExpiry" \/ e.kind = "HardCap"
  BY <1>1 DEF Snapshot, AutoResetScheduleEntry, DeadlineKinds
<1>4. TerminalOutcome("LeaseExpiry", "Compensating") = "Survive"
  BY DEF TerminalOutcome
<1>5. TerminalOutcome("HardCap", "Compensating") = "Escalate"
  BY DEF TerminalOutcome
<1>6. "Survive" # "SilentRevert" /\ "Escalate" # "SilentRevert"
  OBVIOUS
<1> QED
  BY <1>1, <1>2, <1>3, <1>4, <1>5, <1>6, Zenon DEF Escalates

\* The active driver keeps the value of every compensating override, whatever
\* timers are due and however late it runs (DriverKeepsCompensating).
THEOREM DriverAlwaysSpares == Spec => DriverKeepsCompensating
<1> DEFINE A == DriveOverrideLifecycle =>
                   \A p \in DirtyPaths(snapshot) :
                      snapshot.dirty_metadata[p].intent = "Compensating" =>
                         snapshot'.dirty_overlay[p] = snapshot.dirty_overlay[p]
<1>1. ASSUME GoodState, DriveOverrideLifecycle, NEW p \in DirtyPaths(snapshot),
             snapshot.dirty_metadata[p].intent = "Compensating"
      PROVE  snapshot'.dirty_overlay[p] = snapshot.dirty_overlay[p]
  <2> DEFINE n == Normalize(snapshot, now)
             esc == {e \in n.pending : Escalates(n, e)}
  <2>1. /\ SnapshotOK(snapshot) /\ snapshot \in Snapshot /\ now \in Nat /\ p \in Paths
    BY <1>1 DEF GoodState, Good, SnapshotOK, DirtyPaths
  <2>2. Good(n)
    BY <1>1, OperationStart, Zenon DEF DriveOverrideLifecycle
  <2>3. Normalized(snapshot, now, n)
    BY <2>1, NormalizeType
  <2>4. snapshot' = (IF Due(n, now) = {} THEN n ELSE Fire(n, now, esc))
    BY <1>1, Zenon DEF DriveOverrideLifecycle, Driven
  <2>5. p \notin Reverted(n, now, esc)
    <3>1. n \in Snapshot
      BY <2>2 DEF Good, SnapshotOK
    <3>2. ASSUME p \in Reverted(n, now, esc) PROVE n.dirty_metadata[p].intent # "Compensating"
      BY <3>1, <3>2, DriverSpares, Zenon
    <3> HIDE DEF n, esc
    <3>3. n.dirty_metadata[p].intent = NormalizedMetadata(snapshot, p, now).intent
      BY <1>1, <2>3, Zenon DEF Normalized
    <3>4. n.dirty_metadata[p].intent = snapshot.dirty_metadata[p].intent
      BY <2>1, <3>3, NormalizedMetadataType, Zenon
    <3> QED
      BY <1>1, <3>2, <3>4
  <2>6. n.dirty_overlay[p] = snapshot.dirty_overlay[p]
    BY <2>3, Zenon DEF Normalized
  <2> HIDE DEF n, esc
  <2>7. CASE Due(n, now) = {}
    BY <2>4, <2>6, <2>7, Zenon
  <2>8. CASE Due(n, now) # {}
    <3>1. Ended(n, Reverted(n, now, esc), snapshot')
      BY <2>1, <2>2, <2>4, <2>8, FireType DEF Good
    <3> QED
      BY <2>1, <2>5, <2>6, <3>1, Zenon DEF Ended
  <2> QED
    BY <2>7, <2>8
<1>2. ASSUME GoodState PROVE A
  BY <1>1, <1>2, Zenon
<1>3. GoodState => [A]_vars
  BY <1>2
<1>4. [][A]_vars => DriverKeepsCompensating
  BY DEF DriverKeepsCompensating
<1> HIDE DEF A
<1> QED
  BY <1>3, <1>4, GoodAlways, PTL
=============================================================================
