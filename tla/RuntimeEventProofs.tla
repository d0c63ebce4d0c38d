------------------------- MODULE RuntimeEventProofs --------------------------
(***************************************************************************)
(* Theorems about what the events of a runtime session tell a subscriber:  *)
(* the last event about a path agrees with the overlay, and the value      *)
(* events of a path are a chain that ends at its effective value.  A batch *)
(* of events is described by what it says of each path (BatchMoves); one   *)
(* lemma shows that the buffer stays true when such a batch is appended,   *)
(* and the oldest events dropped, and one lemma per operation that its     *)
(* batch is such a one.  From the same description follows what a reader   *)
(* who saw a value earlier can tell from the buffer now (NextExplains).    *)
(* The last part shows that an override ends only by its own deadline or   *)
(* by an event the buffer reports.                                         *)
(***************************************************************************)
EXTENDS RuntimeLogProofs

\* A sequence that meets every element of a set of its own size lists it.
LEMMA ListsAll ==
    ASSUME NEW S, IsFiniteSet(S), NEW q \in Seq(S), Len(q) = Cardinality(S),
           \A x \in S : \E i \in 1 .. Len(q) : q[i] = x
    PROVE  Lists(q, S)
<1> DEFINE n == Len(q)
<1>1. n \in Nat /\ q \in [1 .. n -> S] /\ \A i \in 1 .. n : q[i] \in S
  OBVIOUS
<1> HIDE DEF n
<1>2. q \in Surjection(1 .. n, S)
  BY <1>1 DEF Surjection, n
<1>3. IsFiniteSet(1 .. n) /\ Cardinality(1 .. n) = n
  BY <1>1, FS_Interval
<1>4. q \in Injection(1 .. n, S)
  BY <1>2, <1>3, FS_SurjSameCardinalityImpliesInj DEF n
<1>5. \A i, j \in 1 .. n : q[i] = q[j] => i = j
  BY <1>4, Zenon DEF Injection, IsInjective
<1> QED
  BY <1>1, <1>5 DEF Lists, n

\* A finite set of numbers in ascending order.
LEMMA AscendingLists ==
    ASSUME NEW S \in SUBSET Nat, IsFiniteSet(S)
    PROVE  Lists(Ascending(S), S)
<1> DEFINE R == {d \in S \X S : d[1] < d[2]}
           q == Ascending(S)
<1>1. \A x, y \in S : <<x, y>> \in R <=> x < y
  OBVIOUS
<1>2. q = Ordered(S, R)
  BY DEF Ascending
<1> HIDE DEF R, q
<1>3. StrictOrder(S, R)
  BY <1>1 DEF StrictOrder
<1>4. /\ Cardinality(S) \in Nat /\ q \in [1 .. Cardinality(S) -> S]
      /\ \A x \in S : \E i \in 1 .. Cardinality(S) : q[i] = x
  BY <1>2, <1>3, OrderedIsSeq
<1>5. q \in Seq(S) /\ Len(q) = Cardinality(S)
  BY <1>4
<1>6. \A x \in S : \E i \in 1 .. Len(q) : q[i] = x
  BY <1>4, <1>5
<1> QED
  BY <1>5, <1>6, ListsAll, Zenon DEF q

\* The events of the timers that fire: at most one timer reverts a path.
LEMMA FireMoves ==
    ASSUME NEW s, SnapshotOK(s), Consistent(s), NEW t \in Nat, NEW esc
    PROVE  BatchMoves(s, FiringEvents(s, t, esc), Fire(s, t, esc))
<1> DEFINE S == Steps(s, t, esc)
           q == InOrder(S)
           ps == Reverted(s, t, esc)
           F == Fired(s, t, esc)
           u == Fire(s, t, esc)
<1>1. IsFiniteSet(S) /\ S \in SUBSET [entry: s.pending, step: {1, 2}] /\ F \in SUBSET s.pending
  BY FiredType
<1>2. Lists(q, S)
  <2>1. /\ q \in Seq(S) /\ Len(q) = Cardinality(S)
        /\ \A a \in S : \E i \in 1 .. Len(q) : q[i] = a
    BY <1>1, InOrderType, Zenon
  <2> HIDE DEF q, S
  <2> QED
    BY <1>1, <2>1, ListsAll, Zenon
<1>3. Ended(s, ps, u)
  BY FireType
<1>4. \A p \in ps : \E e \in F : e \notin esc /\ e.path = p
  BY DEF Reverted
<1>5. \A e \in F : e \in Due(s, t) /\ IsCurrent(s, e) /\ e \in AutoResetScheduleEntry
  BY <1>1 DEF Fired, SnapshotOK, Snapshot
<1>6. ASSUME NEW e \in F, NEW f \in F, e \notin esc, f \notin esc, e.path = f.path PROVE e = f
  <2>1. ~ Precedes(e, f) /\ ~ Precedes(f, e)
    BY <1>5, <1>6, Zenon DEF Fired
  <2> QED
    BY <1>5, <2>1, PrecedesOrder
<1>7. ps \in SUBSET DirtyPaths(s)
  <2>1. \A e \in F : e.path \in DirtyPaths(s)
    BY <1>5 DEF IsCurrent, DirtyPaths, AutoResetScheduleEntry
  <2> QED
    BY <1>4, <2>1
<1>8. TakesBack(s, FiringEvents(s, t, esc), ps)
  BY <1>1, <1>2, <1>6, FiringTakesBack, Zenon DEF OnePerPath
<1> HIDE DEF u, ps
<1>9. /\ u.committed_overlay = s.committed_overlay
      /\ u.dirty_overlay = [p \in Paths |-> IF p \in ps THEN NoValue ELSE s.dirty_overlay[p]]
  BY <1>3 DEF Ended
<1> QED
  BY <1>7, <1>8, <1>9, TakesBackMoves, Zenon DEF u

\* rollback_dirty: two events per path and one for the whole.
LEMMA RollbackMoves ==
    ASSUME NEW s, Good(s), NEW ps \in SUBSET DirtyPaths(s), ps # {}
    PROVE  BatchMoves(s, RollbackEvents(s, ps), Rollback(s, ps))
<1>1. ps \in SUBSET Nat /\ IsFiniteSet(ps)
  BY PathsAssumption, FS_Subset, Zenon DEF DirtyPaths
<1>2. TakesBack(s, RollbackEvents(s, ps), ps)
  BY <1>1, AscendingLists, RollbackTakesBack, Zenon
<1> QED
  BY <1>2, RollbackValues, TakesBackMoves, Zenon

\* commit_configuration: the values in effect stay, every override is cleared.
LEMMA CommitMoves ==
    ASSUME NEW s, Good(s)
    PROVE  BatchMoves(s, CommitEvents(s), Commit(s))
<1> DEFINE b == CommitEvents(s)
           u == Commit(s)
<1>1. DirtyPaths(s) \in SUBSET Nat /\ IsFiniteSet(DirtyPaths(s))
  BY PathsAssumption, FS_Subset, Zenon DEF DirtyPaths
<1>2. Clears(s, b)
  BY <1>1, AscendingLists, CommitClears, Zenon
<1>3. CommitsAll(s, u)
  BY CommitGood
<1> HIDE DEF b, u
<1>4. ASSUME NEW p \in Paths
      PROVE  EffectiveValue(u, p) = EffectiveValue(s, p) /\ p \notin DirtyPaths(u)
  BY <1>3 DEF CommitsAll, EffectiveValue, DirtyPaths
<1>5. \A p \in Paths : DirtyMoves(s, b, u, p)
  BY <1>2, <1>4, Zenon DEF DirtyMoves, Clears
<1>6. OneEach(s, b, u)
  BY <1>2, <1>4, <1>5, Zenon DEF OneEach, Clears
<1> QED
  BY <1>6, OneEachMoves DEF b, u

\* The events of the writes of an accepted pull report them.
LEMMA PullWritesReport ==
    ASSUME NEW s \in Snapshot, NEW r \in PullRequest, PullAccepted(s, r)
    PROVE  /\ PullWriteEvents(s, r) \in Seq(EventPayload)
           /\ Reports(s, PullWriteEvents(s, r), {r.writes[k] : k \in 1 .. Len(r.writes)})
<1> DEFINE w == r.writes
           n == Len(w)
<1>1. w \in Seq(PullWrite) /\ n \in Nat
  BY DEF PullRequest
<1>2. \A k \in 1 .. n : w[k] \in PullWrite
  BY <1>1, ElementOfSeq
<1>3. Lists(Ascending(PullSteps(s, r)), PullSteps(s, r))
  <2>1. 1 \in Int /\ 2 * n \in Int
    BY <1>1
  <2>2. IsFiniteSet(1 .. 2 * n)
    BY <2>1, FS_Interval
  <2>3. PullSteps(s, r) \in SUBSET (1 .. 2 * n)
    BY DEF PullSteps
  <2> HIDE DEF n
  <2>4. PullSteps(s, r) \in SUBSET Nat /\ IsFiniteSet(PullSteps(s, r))
    BY <1>1, <2>2, <2>3, FS_Subset
  <2> QED
    BY <2>4, AscendingLists
<1>4. ASSUME NEW k \in 1 .. n
      PROVE  PullChange(s, w[k]) \in EventPayload /\ ClearedEvent(s, w[k].path) \in EventPayload
  <2> DEFINE p == w[k].path
  <2>1. p \in Paths /\ w[k].value \in Values
    BY <1>2 DEF PullWrite
  <2> HIDE DEF p
  <2>2. s.dirty_generations[p] \in Nat /\ s.dirty_metadata[p].generation \in Nat
    BY <2>1 DEF Snapshot, DirtyEntryMetadata
  <2>3. NormalizedGeneration(s, p) \in Nat
    BY <2>2 DEF NormalizedGeneration
  <2>4. EffectiveValue(s, p) \in Values
    BY <2>1, ValuesType
  <2>5. "RuntimeOpened" \in EventKinds /\ {} \in SUBSET Paths /\ TRUE \in BOOLEAN
    BY DEF EventKinds
  <2> QED
    BY <2>1, <2>3, <2>4, <2>5, EventsType, Zenon DEF PullChange, p
<1> QED
  BY <1>3, <1>4, StepsReport, Zenon DEF w, n

\* The values after an accepted pull: the pulled ones are in effect.
LEMMA PullValues ==
    ASSUME NEW s, Good(s), NEW r \in PullRequest, PullAccepted(s, r),
           NEW k \in 1 .. Len(r.writes)
    PROVE  /\ r.writes[k].path \in Paths
           /\ EffectiveValue(Pull(s, r), r.writes[k].path) = r.writes[k].value
           /\ r.writes[k].path \notin DirtyPaths(Pull(s, r))
<1> DEFINE w == r.writes
           n == Len(w)
           p == w[k].path
           c == PullApplied(s, r)
           overlay == Upstream(s, r)
           moved == [s EXCEPT !.committed_overlay = overlay, !.sync_state = "Idle"]
           ps == PulledPaths(r)
           u == Pull(s, r)
<1>1. w \in Seq(PullWrite) /\ w[k] \in PullWrite
  <2>1. w \in Seq(PullWrite)
    BY DEF PullRequest
  <2> QED
    BY <2>1, ElementOfSeq
<1>2. p \in Paths /\ w[k].value \in Values /\ p \in ps
  BY <1>1 DEF PullWrite, PulledPaths
<1>3. Good(u) /\ SyncsOnly(s, ps, u) /\ Good(c) /\ s \in Snapshot /\ SnapshotOK(s)
  BY PullGood, PullAppliedGood DEF Good, SnapshotOK
<1>4. (CHOOSE j \in 1 .. n : w[j].path = p) = k
  BY DEF PullAccepted
<1>5. overlay[p] = OverlayEntry(p, w[k].value)
  BY <1>2, <1>4, Zenon DEF Upstream
<1>6. overlay \in [Paths -> Values \cup {NoValue}] /\ c = ClearDirty(moved, ps \cap DirtyPaths(s))
  <2>1. c.committed_overlay = overlay
    BY <1>3, Zenon DEF PullApplied, ClearDirty, Snapshot
  <2> QED
    BY <1>3, <2>1, Zenon DEF Good, SnapshotOK, Snapshot, PullApplied
<1>7. u.committed_overlay = c.committed_overlay /\ c.committed_overlay = overlay
  <2>1. c.committed_overlay = overlay
    BY <1>3, Zenon DEF PullApplied, ClearDirty, Snapshot
  <2>2. c \in Snapshot
    BY <1>3 DEF Good, SnapshotOK
  <2>3. u.committed_overlay = c.committed_overlay
    <3> HIDE DEF c
    <3> QED
      BY <2>2, Zenon DEF Pull, AppendAudit, Emit, Snapshot, c
  <2> QED
    BY <2>1, <2>3
<1> HIDE DEF c, overlay, u, ps, w, p
<1>8. u.dirty_overlay[p] = NoValue
  BY <1>2, <1>3 DEF SyncsOnly
<1>9. CommittedValue(u, p) = w[k].value
  BY <1>2, <1>5, <1>7, NoValueAssumption DEF CommittedValue, OverlayEntry
<1>10. EffectiveValue(u, p) = w[k].value
  BY <1>8, <1>9, Zenon DEF EffectiveValue
<1>11. p \notin DirtyPaths(u)
  BY <1>8, Zenon DEF DirtyPaths
<1> QED
  BY <1>2, <1>10, <1>11, Zenon DEF u, p, w

\* pull_updates: the events of an accepted pull.
LEMMA PullMoves ==
    ASSUME NEW s, Good(s), NEW r \in PullRequest, PullAccepted(s, r)
    PROVE  BatchMoves(s, PullEvents(s, r), Pull(s, r))
<1> DEFINE W == {r.writes[k] : k \in 1 .. Len(r.writes)}
           u == Pull(s, r)
<1>1. s \in Snapshot
  BY DEF Good, SnapshotOK
<1>2. PullWriteEvents(s, r) \in Seq(EventPayload) /\ Reports(s, PullWriteEvents(s, r), W)
  BY <1>1, PullWritesReport, Zenon
<1>3. Reports(s, PullEvents(s, r), W)
  BY <1>1, <1>2, PullFramed, FramedReports, Zenon
<1>4. \A w \in W : w.path \in Paths /\ EffectiveValue(u, w.path) = w.value
                     /\ w.path \notin DirtyPaths(u)
  BY PullValues, ZenonT(30)
<1>5. \A v, w \in W : v.path = w.path => v = w
  BY DEF PullAccepted
<1>6. SyncsOnly(s, PulledPaths(r), u)
  BY PullGood
<1>7. ASSUME NEW p \in Paths, \A w \in W : w.path # p
      PROVE  /\ EffectiveValue(u, p) = EffectiveValue(s, p)
             /\ p \in DirtyPaths(u) <=> p \in DirtyPaths(s)
  <2>1. p \notin PulledPaths(r)
    BY <1>7 DEF PulledPaths
  <2>2. u.committed_overlay[p] = s.committed_overlay[p] /\ u.dirty_overlay[p] = s.dirty_overlay[p]
    BY <1>6, <2>1 DEF SyncsOnly
  <2> QED
    BY <2>2 DEF EffectiveValue, CommittedValue, DirtyPaths
<1> HIDE DEF W, u
<1>8. BatchMoves(s, PullEvents(s, r), u)
  BY <1>3, <1>4, <1>5, <1>7, ReportsMoves, Zenon
<1> QED
  BY <1>8 DEF u

\* set_parameter and set_parameters_atomically.
LEMMA WriteMoves ==
    ASSUME NEW s, Good(s), NEW w \in Seq(Writes), NEW intent \in Intents, now \in Nat \ {0}
    PROVE  BatchMoves(s, WriteEvents(s, w), Write(s, w, intent))
<1>1. Written(s, w, Write(s, w, intent))
  BY WriteValues, Zenon DEF Written
<1>2. \A p \in Paths : WritesTo(w, p) # {} => LastWriteTo(w, p) \in 1 .. Len(w)
  BY WritesToType
<1> QED
  BY <1>1, <1>2, WrittenMoves, Zenon

\* Normalising, and firing the due timers.
LEMMA StartTells ==
    ASSUME NEW x, SnapshotOK(x), TimersBelong(x), NEW t \in Nat,
           \A p \in Paths \ DirtyPaths(x) : x.dirty_generations[p] = 0, NEW esc
    PROVE  /\ SnapshotOK(Normalize(x, t)) /\ Tells(x, Normalize(x, t))
           /\ SnapshotOK(Fire(Normalize(x, t), t, esc))
           /\ Tells(Normalize(x, t), Fire(Normalize(x, t), t, esc))
<1> DEFINE n == Normalize(x, t)
           f == Fire(n, t, esc)
<1>1. SnapshotOK(n) /\ Normalized(x, t, n) /\ SameLogs(x, n)
  BY NormalizeType, ValuesOnly
<1>2. Consistent(n)
  BY <1>1, NormalizeConsistent
<1> HIDE DEF n
<1>3. SameValues(x, n)
  BY <1>1 DEF SameValues, Normalized
<1>4. Tells(x, n)
  BY <1>1, <1>3 DEF SameLogs, Tells
<1>5. SnapshotOK(f)
  BY <1>1, <1>2, FireType
<1>6. /\ FiringEvents(n, t, esc) \in Seq(EventPayload)
      /\ Logged(n, FiringEvents(n, t, esc), FiringAudit(n, t, esc), f)
  BY <1>1, FireLogged, Zenon
<1>7. BatchMoves(n, FiringEvents(n, t, esc), f)
  BY <1>1, <1>2, FireMoves, Zenon
<1> HIDE DEF f
<1>8. Tells(n, f)
  BY <1>6, <1>7, Zenon DEF Logged, Tells
<1> QED
  BY <1>1, <1>4, <1>5, <1>8 DEF n, f

\* The own work of an operation.
LEMMA WorkTells ==
    ASSUME NEW s, Good(s), NEW u, OwnWork(s, u), now \in Nat \ {0}
    PROVE  Tells(s, u)
<1>1. now \in Nat
  OBVIOUS
<1>2. CASE SameLogs(s, u) /\ SameValues(s, u)
  BY <1>2 DEF SameLogs, Tells
<1>3. CASE \E batch \in PlainBatches : Logged(s, batch, <<>>, u) /\ SameValues(s, u)
  <2>1. PICK batch \in PlainBatches : Logged(s, batch, <<>>, u) /\ SameValues(s, u)
    BY <1>3
  <2>2. batch \in Seq(EventPayload)
    BY PlainType
  <2>3. Event("RuntimeOpened", {}).kind \notin Telling /\ SyncEvent.kind \notin Telling
    BY DEF SyncEvent, Event, Telling
  <2>4. \A i \in 1 .. Len(batch) : batch[i] \in {Event("RuntimeOpened", {}), SyncEvent}
    BY DEF PlainBatches
  <2>5. \A i \in 1 .. Len(batch) : batch[i].kind \notin Telling
    BY <2>3, <2>4, Zenon
  <2>6. BatchMoves(s, batch, u)
    BY <2>1, <2>5, QuietMoves, Zenon
  <2> QED
    BY <2>1, <2>2, <2>6, Zenon DEF Logged, Tells
<1>4. ASSUME NEW b \in Seq(EventPayload), OneLogged(s, b, u), BatchMoves(s, b, u) PROVE Tells(s, u)
  <2>1. PICK r \in RuntimeAuditEvent : Logged(s, b, <<r>>, u)
    BY <1>4 DEF OneLogged
  <2> QED
    BY <1>4, <2>1, Zenon DEF Logged, Tells
<1>5. CASE \E w \in Seq(Writes), intent \in Intents : u = Write(s, w, intent)
  BY <1>1, <1>4, <1>5, WriteLogged, WriteMoves, Zenon
<1>6. CASE \E ps \in SUBSET DirtyPaths(s) : ps # {} /\ u = Rollback(s, ps)
  BY <1>4, <1>6, RollbackLogged, RollbackMoves, Zenon
<1>7. CASE u = Commit(s)
  BY <1>4, <1>7, CommitLogged, CommitMoves, Zenon
<1>8. CASE \E r \in PullRequest : PullAccepted(s, r) /\ r.writes # <<>> /\ u = Pull(s, r)
  BY <1>4, <1>8, PullLogged, PullMoves, Zenon
<1> QED
  BY <1>2, <1>3, <1>5, <1>6, <1>7, <1>8, Zenon DEF OwnWork

\* The two parts of an operation.
LEMMA OperationTells ==
    ASSUME GoodState, NEW s, Begun(s), Good(s), NEW u, OwnWork(s, u)
    PROVE  /\ Tells(s, u)
           /\ \E n : Begun(n) /\ SnapshotOK(n) /\ Tells(snapshot, n) /\ SameLogs(snapshot, n)
                      /\ (s = n \/ Tells(n, s))
<1> DEFINE n == Normalize(snapshot, now)
<1>1. /\ SnapshotOK(snapshot) /\ now \in Nat /\ now \in Nat \ {0} /\ TimersBelong(snapshot)
      /\ \A p \in Paths \ DirtyPaths(snapshot) : snapshot.dirty_generations[p] = 0
  BY DEF GoodState, Good, Consistent, MapsAgree
<1>2. SnapshotOK(n) /\ Tells(snapshot, n) /\ \A esc : Tells(n, Fire(n, now, esc))
  BY <1>1, StartTells, Zenon
<1>3. SameLogs(snapshot, n) /\ Begun(n)
  BY <1>1, ValuesOnly DEF Begun
<1>4. s = n \/ \E esc : s = Fire(n, now, esc)
  BY DEF Begun
<1>5. Tells(s, u)
  BY <1>1, WorkTells
<1> HIDE DEF n
<1> QED
  BY <1>2, <1>3, <1>4, <1>5, Zenon

\* A new session: one event, about no path.
LEMMA InitTells ==
    ASSUME Init
    PROVE  Told(snapshot)
<1>1. PICK x : Fresh(x) /\ snapshot = RuntimeOpen(x, 1) /\ Good(Prepared(x, 1))
  BY InitFresh
<1>2. Told(x)
  <2>1. \A p \in Paths : DirtyAt(x, p) = {} /\ ValueAt(x, p) = {}
    BY <1>1 DEF Fresh, DirtyAt, ValueAt
  <2>2. Latest({}) = {}
    BY DEF Latest
  <2> QED
    BY <2>1, <2>2, Zenon DEF Told, DirtyTold, ValuesTold
<1> DEFINE s == Prepared(x, 1)
<1>3. Told(s)
  <2>1. 1 \in Nat
    OBVIOUS
  <2> DEFINE n == Normalize(x, 1)
  <2>2. SnapshotOK(n) /\ Tells(x, n) /\ SnapshotOK(Fire(n, 1, {})) /\ Tells(n, Fire(n, 1, {}))
    BY <1>1, <2>1, StartTells, Zenon DEF Fresh
  <2>3. s = n \/ s = Fire(n, 1, {})
    BY Zenon DEF Prepared, ApplyDueAutoResets
  <2> HIDE DEF n
  <2>4. Told(n)
    BY <1>1, <1>2, <2>2, TellsTold DEF Fresh, SnapshotOK
  <2> QED
    BY <2>2, <2>3, <2>4, TellsTold, Zenon DEF SnapshotOK
<1>4. snapshot = Emit(s, <<Event("RuntimeOpened", {})>>)
  BY <1>1 DEF RuntimeOpen
<1>5. Good(s) /\ SnapshotOK(s)
  BY <1>1 DEF Good
<1>6. <<Event("RuntimeOpened", {})>> \in PlainBatches
  BY DEF PlainBatches
<1> HIDE DEF s
<1>7. SameLogs(s, s) /\ SameValues(s, s)
  BY DEF SameLogs, SameValues
<1>8. OwnWork(s, snapshot)
  BY <1>4, <1>5, <1>6, <1>7, PlainLogged, Zenon
<1>9. SnapshotOK(snapshot) /\ now \in Nat \ {0}
  BY InitGood DEF GoodState, Good
<1>10. Tells(s, snapshot)
  BY <1>5, <1>8, <1>9, WorkTells, Zenon
<1> QED
  BY <1>3, <1>5, <1>9, <1>10, TellsTold, Zenon DEF SnapshotOK

\* Every step.
LEMMA NextTells ==
    ASSUME GoodState, Told(snapshot), [Next]_vars
    PROVE  Told(snapshot')
<1>1. /\ SnapshotOK(snapshot) /\ SnapshotOK(snapshot') /\ now \in Nat /\ now \in Nat \ {0}
      /\ TimersBelong(snapshot)
      /\ \A p \in Paths \ DirtyPaths(snapshot) : snapshot.dirty_generations[p] = 0
  BY NextGood DEF GoodState, Good, Consistent, MapsAgree
<1>2. SnapshotOK(Normalize(snapshot, now)) /\ Tells(snapshot, Normalize(snapshot, now))
  BY <1>1, StartTells, Zenon
<1>3. CASE snapshot' = snapshot
  BY <1>3
<1>4. CASE PushAuditEvents
  <2> DEFINE s == Normalize(snapshot, now)
  <2>1. SnapshotOK(s) /\ Told(s)
    BY <1>1, <1>2, TellsTold DEF SnapshotOK
  <2>2. \E cursor : snapshot' = [s EXCEPT !.audit_uploaded_sequence = cursor]
    BY <1>4, Zenon DEF PushAuditEvents, Return
  <2> HIDE DEF s
  <2>3. snapshot'.event_bus = s.event_bus /\ SameValues(s, snapshot')
    BY <2>1, <2>2, Zenon DEF SnapshotOK, Snapshot, SameValues
  <2> QED
    BY <2>1, <2>3, SilentTells
<1>5. CASE \E s : Begun(s) /\ Good(s) /\ OwnWork(s, snapshot')
  <2>1. PICK s : Begun(s) /\ Good(s) /\ OwnWork(s, snapshot')
    BY <1>5
  <2>2. PICK n : SnapshotOK(n) /\ Tells(snapshot, n) /\ (s = n \/ Tells(n, s))
    BY <2>1, OperationTells
  <2>3. Tells(s, snapshot')
    BY <2>1, OperationTells
  <2>4. Told(n)
    BY <1>1, <2>2, TellsTold DEF SnapshotOK
  <2>5. Told(s)
    BY <2>1, <2>2, <2>4, TellsTold DEF SnapshotOK, Good
  <2> QED
    BY <1>1, <2>1, <2>3, <2>5, TellsTold DEF SnapshotOK, Good
<1> QED
  BY <1>3, <1>4, <1>5, Operations

\* An operation explains every value it changes to a reader of the events.
LEMMA OperationExplains ==
    ASSUME GoodState, LogsGood(snapshot), NEW s, Begun(s), Good(s), NEW u, OwnWork(s, u),
           SnapshotOK(u), NEW p \in Paths
    PROVE  Explains(u, p, EffectiveValue(snapshot, p), snapshot.event_bus.next_sequence)
<1> DEFINE v == EffectiveValue(snapshot, p)
           at == snapshot.event_bus.next_sequence
<1>1. SnapshotOK(snapshot) /\ SnapshotOK(s) /\ now \in Nat
  BY DEF GoodState, Good
<1>2. PICK n : /\ Begun(n) /\ SnapshotOK(n) /\ Tells(snapshot, n) /\ SameLogs(snapshot, n)
               /\ s = n \/ Tells(n, s)
  BY OperationTells
<1>3. Tells(s, u)
  BY OperationTells
<1>4. LogsOrdered(n) /\ LogsOrdered(s) /\ EventsGrow(snapshot, s) /\ LogsGood(s)
  BY <1>2, BegunLogs DEF LogsGood, LogsGrow
<1>5. LogsOrdered(u) /\ EventsGrow(s, u)
  BY <1>1, <1>4, WorkLogs DEF LogsGood, LogsGrow
<1>6. n.event_bus = snapshot.event_bus
  BY <1>2 DEF SameLogs
<1>7. EventsGrow(n, s)
  BY <1>4, <1>6 DEF EventsGrow
<1>8. at \in Nat /\ n.event_bus.next_sequence \in Nat /\ s.event_bus.next_sequence \in Nat
  BY <1>1, <1>2, LogTypes DEF SnapshotOK
<1>9. at <= n.event_bus.next_sequence /\ at <= s.event_bus.next_sequence
  <2>1. s.event_bus.next_sequence >= at
    BY <1>4 DEF EventsGrow
  <2> QED
    BY <1>6, <1>8, <2>1
<1>10. Explains(n, p, v, at)
  BY <1>1, <1>2, TellsExplains, Zenon DEF LogsGood, SnapshotOK
<1> HIDE DEF v, at
<1>11. Explains(s, p, v, at)
  <2>1. ASSUME Tells(n, s) PROVE Explains(s, p, v, at)
    <3>1. Explains(s, p, EffectiveValue(n, p), n.event_bus.next_sequence)
      BY <1>1, <1>2, <1>4, <2>1, TellsExplains, Zenon DEF SnapshotOK
    <3> QED
      BY <1>1, <1>2, <1>4, <1>7, <1>8, <1>9, <1>10, <3>1, StillExplains, Zenon DEF SnapshotOK
  <2> QED
    BY <1>2, <1>10, <2>1
<1>12. Explains(u, p, EffectiveValue(s, p), s.event_bus.next_sequence)
  BY <1>1, <1>3, <1>4, TellsExplains, Zenon DEF SnapshotOK
<1> QED
  BY <1>1, <1>4, <1>5, <1>8, <1>9, <1>11, <1>12, StillExplains, Zenon DEF SnapshotOK, v, at

\* So does every step.
LEMMA NextExplains ==
    ASSUME GoodState, LogsGood(snapshot), [Next]_vars, NEW p \in Paths
    PROVE  Explains(snapshot', p, EffectiveValue(snapshot, p), snapshot.event_bus.next_sequence)
<1>1. SnapshotOK(snapshot) /\ SnapshotOK(snapshot') /\ now \in Nat
  BY NextGood DEF GoodState, Good
<1>2. CASE snapshot' = snapshot
  BY <1>2, Zenon DEF Explains
<1>3. CASE PushAuditEvents
  <2> DEFINE s == Normalize(snapshot, now)
  <2>1. SnapshotOK(s) /\ s.dirty_overlay = snapshot.dirty_overlay
        /\ s.committed_overlay = snapshot.committed_overlay
    <3>1. SnapshotOK(s) /\ Normalized(snapshot, now, s)
      BY <1>1, NormalizeType
    <3> QED
      BY <3>1 DEF Normalized
  <2>2. \E cursor : snapshot' = [s EXCEPT !.audit_uploaded_sequence = cursor]
    BY <1>3, Zenon DEF PushAuditEvents, Return
  <2> HIDE DEF s
  <2>3. snapshot'.dirty_overlay = s.dirty_overlay /\ snapshot'.committed_overlay = s.committed_overlay
    BY <2>1, <2>2, Zenon DEF SnapshotOK, Snapshot
  <2>4. EffectiveValue(snapshot', p) = EffectiveValue(snapshot, p)
    BY <2>1, <2>3 DEF EffectiveValue, CommittedValue
  <2> QED
    BY <2>4, Zenon DEF Explains
<1>4. CASE \E s : Begun(s) /\ Good(s) /\ OwnWork(s, snapshot')
  BY <1>1, <1>4, OperationExplains
<1> QED
  BY <1>2, <1>3, <1>4, Operations

(***************************************************************************)
(* The theorems.                                                           *)
(***************************************************************************)
\* The buffer is true in every state.
THEOREM AlwaysTold == Spec => []Told(snapshot)
<1> DEFINE I == GoodState /\ Told(snapshot)
<1>1. Init => I
  BY InitGood, InitTells
<1>2. I /\ [Next]_vars => I'
  BY NextGood, NextTells
<1>3. I => Told(snapshot)
  OBVIOUS
<1> QED
  BY <1>1, <1>2, <1>3, PTL DEF Spec

\* The last dirty_state_changed event of a path in the buffer tells whether the
\* path is dirty now (DirtyEventsAgree), whichever operation or timer changed it
\* last and however many events the buffer has dropped.
THEOREM DirtyEventsAlwaysAgree == Spec => []DirtyEventsAgree
<1>1. Told(snapshot) => DirtyEventsAgree
  <2>1. \A p : DirtyAt(snapshot, p) = About(p, {"DirtyStateChanged"})
    BY Zenon DEF DirtyAt, IsDirty, Payload, About
  <2> QED
    BY <2>1, Zenon DEF Told, DirtyTold, DirtyEventsAgree, Payload
<1> QED
  BY <1>1, AlwaysTold, PTL

\* The value events of a path in the buffer are a chain that ends at its
\* effective value (ValueEventsChain), across writes, timer resets, rollbacks,
\* commits and syncs.
THEOREM ValueEventsAlwaysChain == Spec => []ValueEventsChain
<1>1. Told(snapshot) => ValueEventsChain
  <2>1. \A p : ValueAt(snapshot, p) = About(p, {"ParameterChanged", "ResetApplied"})
    BY Zenon DEF ValueAt, IsValue, Payload, About
  <2> QED
    BY <2>1, Zenon DEF Told, ValuesTold, ValueEventsChain, Payload, Below
<1> QED
  BY <1>1, AlwaysTold, PTL

(***************************************************************************)
(* What ends an override.                                                  *)
(***************************************************************************)
\* An event that says the override of p ended other than by its deadline.
Ends(p, e) ==
    \/ e.kind \in {"RollbackApplied", "SyncApplyCompleted"} /\ p \in e.paths
    \/ e.kind = "CommitApplied"

\* The own work of an operation ends an override only with an event that says
\* so, which the buffer still has when the operation returns.
LEMMA WorkEnds ==
    ASSUME NEW s, Good(s), NEW u, SnapshotOK(u), OwnWork(s, u), now \in Nat \ {0},
           NEW p \in DirtyPaths(s), p \notin DirtyPaths(u)
    PROVE  \E e : Ends(p, e) /\ Says(u, s.event_bus.next_sequence, e)
<1>1. /\ s \in Snapshot /\ u \in Snapshot /\ p \in Paths
      /\ s.dirty_overlay[p] # NoValue /\ u.dirty_overlay[p] = NoValue
  BY DEF Good, SnapshotOK, DirtyPaths
<1>2. ~ SameValues(s, u)
  BY <1>1 DEF SameValues
<1>3. ASSUME NEW b, NEW z, EndsWith(b, z), OneLogged(s, b, u), Ends(p, z)
      PROVE  \E e : Ends(p, e) /\ Says(u, s.event_bus.next_sequence, e)
  <2>1. b \in Seq(EventPayload) /\ Len(b) \in Nat \ {0} /\ b[Len(b)] = z
    BY <1>3 DEF EndsWith
  <2>2. Emitted(s, b, u)
    BY <1>3 DEF OneLogged, Logged
  <2>3. Says(u, s.event_bus.next_sequence, z)
    BY <1>1, <2>1, <2>2, LastStays, Zenon
  <2> QED
    BY <1>3, <2>3
<1>4. ASSUME NEW w \in Seq(Writes), NEW intent \in Intents, u = Write(s, w, intent) PROVE FALSE
  <2>1. u.dirty_overlay[p] = IF WritesTo(w, p) # {} THEN w[LastWriteTo(w, p)].value
                             ELSE s.dirty_overlay[p]
    BY <1>1, <1>4, WriteValues
  <2>2. WritesTo(w, p) # {} => LastWriteTo(w, p) \in 1 .. Len(w)
    BY WritesToType
  <2>3. ASSUME NEW k \in 1 .. Len(w) PROVE w[k].value \in Values
    <3>1. w[k] \in Writes
      BY ElementOfSeq
    <3> QED
      BY <3>1 DEF Writes
  <2> QED
    BY <1>1, <2>1, <2>2, <2>3, NoValueAssumption, Zenon
<1>5. ASSUME NEW ps \in SUBSET DirtyPaths(s), ps # {}, u = Rollback(s, ps)
      PROVE  \E e : Ends(p, e) /\ Says(u, s.event_bus.next_sequence, e)
  <2>0. u.dirty_overlay = [q \in Paths |-> IF q \in ps THEN NoValue ELSE s.dirty_overlay[q]]
    BY <1>5, RollbackValues, ZenonT(30)
  <2>1. p \in ps
    BY <1>1, <2>0
  <2>2. Ends(p, Event("RollbackApplied", ps))
    BY <2>1 DEF Ends, Event
  <2>3. EndsWith(RollbackEvents(s, ps), Event("RollbackApplied", ps))
    BY <1>1, RollbackEventsEnd DEF DirtyPaths
  <2>4. OneLogged(s, RollbackEvents(s, ps), u)
    BY <1>5, RollbackLogged, Zenon
  <2> QED
    BY <1>3, <2>2, <2>3, <2>4, Zenon
<1>6. ASSUME u = Commit(s)
      PROVE  \E e : Ends(p, e) /\ Says(u, s.event_bus.next_sequence, e)
  <2>1. Ends(p, Event("CommitApplied", CommitChanges(s)))
    BY DEF Ends, Event
  <2>2. EndsWith(CommitEvents(s), Event("CommitApplied", CommitChanges(s)))
    BY <1>1, CommitEventsEnd
  <2>3. OneLogged(s, CommitEvents(s), u)
    BY <1>6, CommitLogged, Zenon
  <2> QED
    BY <1>3, <2>1, <2>2, <2>3, Zenon
<1>7. ASSUME NEW r \in PullRequest, PullAccepted(s, r), r.writes # <<>>, u = Pull(s, r)
      PROVE  \E e : Ends(p, e) /\ Says(u, s.event_bus.next_sequence, e)
  <2>1. p \in PulledPaths(r)
    BY <1>1, <1>7, PullGood DEF SyncsOnly
  <2>2. Ends(p, Event("SyncApplyCompleted", PulledPaths(r)))
    BY <2>1 DEF Ends, Event
  <2>3. EndsWith(PullEvents(s, r), Event("SyncApplyCompleted", PulledPaths(r)))
    BY <1>1, PullEventsEnd
  <2>4. OneLogged(s, PullEvents(s, r), u)
    BY <1>7, PullLogged, Zenon
  <2> QED
    BY <1>3, <2>2, <2>3, <2>4, Zenon
<1> QED
  BY <1>2, <1>4, <1>5, <1>6, <1>7, Zenon DEF OwnWork

\* The work at the start of an operation ends an override only at one of its own
\* deadlines: the entry that fired is current, so its deadline is that of the
\* override's metadata.
LEMMA BegunEnds ==
    ASSUME GoodState, NEW s, Begun(s), NEW p \in DirtyPaths(snapshot), p \notin DirtyPaths(s)
    PROVE  ExpiredAt(p, now)
<1> DEFINE n == Normalize(snapshot, now)
<1>1. /\ SnapshotOK(snapshot) /\ now \in Nat /\ TimersBelong(snapshot)
      /\ \A q \in Paths \ DirtyPaths(snapshot) : snapshot.dirty_generations[q] = 0
      /\ p \in Paths /\ snapshot.dirty_overlay[p] # NoValue
      /\ s.dirty_overlay[p] = NoValue
  BY DEF GoodState, Good, Consistent, MapsAgree, DirtyPaths
<1>2. SnapshotOK(n) /\ Normalized(snapshot, now, n)
  BY <1>1, NormalizeType
<1>3. Consistent(n)
  BY <1>1, <1>2, NormalizeConsistent
<1>4. s = n \/ \E esc : s = Fire(n, now, esc)
  BY DEF Begun
<1> HIDE DEF n
<1>5. n.dirty_overlay[p] # NoValue
  BY <1>1, <1>2 DEF Normalized
<1>6. PICK esc : s = Fire(n, now, esc)
  BY <1>1, <1>4, <1>5
<1>7. Ended(n, Reverted(n, now, esc), s)
  BY <1>1, <1>2, <1>3, <1>6, FireType
<1>8. p \in Reverted(n, now, esc)
  BY <1>1, <1>5, <1>7, Zenon DEF Ended
<1>9. PICK e \in n.pending \ esc : e.path = p /\ e.deadline <= now /\ IsCurrent(n, e)
  BY <1>8, RevertedBecause
<1>10. e.kind \in DeadlineKinds
  BY <1>2, <1>9 DEF SnapshotOK, Snapshot, AutoResetScheduleEntry
<1>11. e.deadline # NoDeadline /\ DeadlineOf(n.dirty_metadata[p], e.kind) = e.deadline
  BY <1>3, <1>9, Zenon DEF Consistent, TimersBelong, IsCurrent
<1> QED
  BY <1>9, <1>10, <1>11, Zenon DEF ExpiredAt, n

\* An override that a step takes away has expired, or an event of the step says
\* what ended it.
LEMMA NextEnds ==
    ASSUME GoodState, LogsGood(snapshot), [Next]_vars,
           NEW p \in DirtyPaths(snapshot), p \notin DirtyPaths(snapshot')
    PROVE  ExpiredAt(p, now) \/ \E e \in NewEvents : Ends(p, e)
<1>1. /\ SnapshotOK(snapshot) /\ SnapshotOK(snapshot') /\ now \in Nat \ {0}
      /\ snapshot'.event_bus.events \in Seq(RuntimeEvent)
      /\ snapshot.event_bus.next_sequence \in Nat
  BY NextGood, LogTypes DEF GoodState, Good, SnapshotOK
<1>2. ~ PushAuditEvents
  <2> SUFFICES ASSUME PushAuditEvents PROVE FALSE
    OBVIOUS
  <2> DEFINE s == Normalize(snapshot, now)
  <2>1. s \in Snapshot /\ s.dirty_overlay = snapshot.dirty_overlay
    <3>1. now \in Nat /\ SnapshotOK(s) /\ Normalized(snapshot, now, s)
      BY <1>1, NormalizeType
    <3> QED
      BY <3>1, Zenon DEF SnapshotOK, Normalized
  <2>2. \E cursor : snapshot' = [s EXCEPT !.audit_uploaded_sequence = cursor]
    BY Zenon DEF PushAuditEvents, Return
  <2> HIDE DEF s
  <2>3. snapshot'.dirty_overlay = s.dirty_overlay
    BY <2>1, <2>2, Zenon DEF Snapshot
  <2> QED
    BY <2>1, <2>3 DEF DirtyPaths
<1>3. snapshot' # snapshot
  OBVIOUS
<1>4. PICK s : Begun(s) /\ Good(s) /\ OwnWork(s, snapshot')
  BY <1>2, <1>3, Operations
<1>5. CASE p \notin DirtyPaths(s)
  BY <1>4, <1>5, BegunEnds
<1>6. CASE p \in DirtyPaths(s)
  <2>1. PICK e : Ends(p, e) /\ Says(snapshot', s.event_bus.next_sequence, e)
    BY <1>1, <1>4, <1>6, WorkEnds
  <2>2. LogsGrow(snapshot, s)
    BY <1>4, BegunLogs
  <2>3. s.event_bus.next_sequence \in Nat
    BY <1>4, LogTypes DEF Good, SnapshotOK
  <2>4. s.event_bus.next_sequence >= snapshot.event_bus.next_sequence
    BY <2>2 DEF LogsGrow, EventsGrow
  <2>5. PICK i \in 1 .. Len(snapshot'.event_bus.events) :
            /\ snapshot'.event_bus.events[i].sequence >= s.event_bus.next_sequence
            /\ snapshot'.event_bus.events[i].payload = e
    BY <2>1 DEF Says
  <2>6. snapshot'.event_bus.events[i].sequence \in Nat
    <3>1. snapshot'.event_bus.events[i] \in RuntimeEvent
      BY <1>1
    <3> QED
      BY <3>1 DEF RuntimeEvent
  <2>7. snapshot'.event_bus.events[i].sequence >= snapshot.event_bus.next_sequence
    BY <1>1, <2>3, <2>4, <2>5, <2>6
  <2>8. e \in NewEvents
    BY <2>5, <2>7, Zenon DEF NewEvents
  <2> QED
    BY <2>1, <2>8
<1> QED
  BY <1>5, <1>6

\* An override ends only at one of its own deadlines or with an event that says
\* a rollback, a sync of its path or a commit ended it.
THEOREM OnlyOwnDeadlinesEnd == Spec => OnlyOwnDeadlineReverts
<1> DEFINE A == \A p \in DirtyPaths(snapshot) \ DirtyPaths(snapshot') :
                   \/ ExpiredAt(p, now)
                   \/ Announced(p, {"RollbackApplied", "SyncApplyCompleted"})
                   \/ \E e \in NewEvents : e.kind = "CommitApplied"
<1>1. ASSUME GoodState, LogsGood(snapshot), [Next]_vars PROVE A
  BY <1>1, NextEnds, Zenon DEF Ends, Announced
<1> HIDE DEF A
<1>2. GoodState /\ LogsGood(snapshot) /\ [Next]_vars => [A]_vars
  BY <1>1
<1>3. OnlyOwnDeadlineReverts <=> [][A]_vars
  BY DEF OnlyOwnDeadlineReverts, A
<1> QED
  BY <1>2, <1>3, LogsAlwaysGood, PTL DEF Spec
=============================================================================
