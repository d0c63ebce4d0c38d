--------------------------- MODULE RuntimeSession ----------------------------
(***************************************************************************)
(* One runtime v2 session: the operations of compiler/src/runtime_api on   *)
(* the snapshot their caller holds.  Each action is one successful call; a *)
(* call that fails returns no snapshot, so its caller keeps the old one    *)
(* and the call is a stuttering step.  Calls on a session are serialised   *)
(* (the C ABI handle owns the snapshot); what interleaves is their order,  *)
(* the clock between them, restarts, and the requests of several clients   *)
(* and of the sync backend.                                                *)
(***************************************************************************)
EXTENDS RuntimeSnapshot

CONSTANTS RuntimePaths,        \* the paths whose lifecycle is "runtime"
          Policies,            \* auto-reset policies a request may carry
          PersistedOverlays,   \* dirty overlays a session may be opened with
          PersistedMetadata,   \* metadata such an overlay may come with
          PullRequests,        \* requests of the sync backend
          WriteLists,          \* write lists of atomic requests
          MaxTime,             \* bound: the clock
          MaxEvents,           \* bound: no call after this many events,
          MaxAudit,            \* audit records,
          MaxRevision,         \* and policy changes
          ClockMayStepBack     \* may the wall clock be set back?

VARIABLES snapshot, now

vars == <<snapshot, now>>

WritesAnywhere == [path: Paths, value: Values]
Writes == [path: RuntimePaths, value: Values]

PullWrite == [path: Paths, value: Values, before: Values \cup {NoValue}]

PullRequest == [full_snapshot: BOOLEAN, source: {"Backend", "DirectPush"},
                backend_connected: BOOLEAN, base_id: Configurations \cup {NoId},
                target_id: Configurations \cup {NoId}, writes: Seq(PullWrite)]

ASSUME RuntimePathsAssumption == RuntimePaths \subseteq Paths
ASSUME PoliciesAssumption == Policies \subseteq AutoResetPolicy
ASSUME PersistedAssumption ==
    /\ PersistedOverlays \subseteq [Paths -> Values \cup {NoValue}]
    /\ PersistedMetadata \subseteq DirtyEntryMetadata
ASSUME PullAssumption == PullRequests \subseteq PullRequest
ASSUME WriteListsAssumption == WriteLists \subseteq Seq(Writes) \ {<<>>}
ASSUME BoundsAssumption == {MaxTime, MaxEvents, MaxAudit, MaxRevision} \subseteq Nat

Room ==
    /\ snapshot.event_bus.next_sequence <= MaxEvents
    /\ Len(snapshot.audit_events) < MaxAudit

\* Every call first checks that the caller's snapshot normalises to a valid one.
Operable == Valid(Normalize(snapshot, now))

\* A successful call: the result is valid and the caller replaces its snapshot
\* by it.
Return(s) ==
    /\ snapshot' = s
    /\ Valid(snapshot')
    /\ UNCHANGED now

(***************************************************************************)
(* Opening, and opening again with the snapshot of the previous session.   *)
(***************************************************************************)
RuntimeOpen(s, t) == Emit(Prepared(s, t), <<Event("RuntimeOpened", {})>>)

Persisted(overlay, metadata, policy) ==
    [committed_overlay |-> [p \in Paths |-> NoValue],
     dirty_overlay |-> overlay,
     dirty_generations |-> [p \in Paths |-> 0],
     dirty_metadata |-> metadata,
     auto_reset_policy |-> policy,
     policy_revision |-> 0,
     pending |-> {},
     event_bus |-> [next_sequence |-> 1, events |-> <<>>, dropped_events |-> 0],
     sync_state |-> "Idle",
     audit_events |-> <<>>,
     audit_next_sequence |-> 1,
     audit_uploaded_sequence |-> 0,
     persistence_journal_sequence |-> 0]

Init ==
    /\ now = 1
    /\ \E overlay \in PersistedOverlays, policy \in Policies,
          metadata \in [Paths -> PersistedMetadata \cup {NoMetadata}] :
          LET s == Persisted(overlay, metadata, policy)
          IN  /\ \A p \in Paths : overlay[p] = NoValue => metadata[p] = NoMetadata
              /\ Valid(Normalize(s, 1))
              /\ snapshot = RuntimeOpen(s, 1)

Reopen == Room /\ Operable /\ Return(RuntimeOpen(snapshot, now))

(***************************************************************************)
(* Writes.                                                                 *)
(***************************************************************************)
ValueInSnapshot(s, w, k) == EffectiveValue(s, w[k].path)

ValueBefore(s, w, k) ==
    LET earlier == SubSeq(w, 1, k - 1)
        p == w[k].path
    IN  IF WritesTo(earlier, p) = {} THEN EffectiveValue(s, p)
        ELSE w[LastWriteTo(earlier, p)].value

WriteGeneration(s, w, k) ==
    s.dirty_generations[w[k].path] + Cardinality({j \in WritesTo(w, w[k].path) : j <= k})

WriteEvents(s, w) ==
    [i \in 1 .. 2 * Len(w) |->
        LET k == (i + 1) \div 2
            p == w[k].path
            g == WriteGeneration(s, w, k)
        IN  IF i % 2 = 1 THEN ChangeEvent(p, g, ValueBefore(s, w, k), w[k].value)
            ELSE DirtyEvent(p, g, TRUE)]

Write(s, w, intent) ==
    AppendAudit(Emit(ApplyDirtyWrites(s, w, intent, now), WriteEvents(s, w)),
                "Write", {w[k].path : k \in 1 .. Len(w)}, NoId, NoId)

SetParameter ==
    /\ Room /\ Operable
    /\ \E s \in {Prepared(snapshot, now)}, w \in Writes, intent \in Intents :
          Return(Write(s, <<w>>, intent))

\* A request may carry the working id its client expects: it fails unless that
\* is WorkingId(s), and is otherwise the request without one.
SetParametersAtomically ==
    /\ Room /\ Operable
    /\ \E s \in {Prepared(snapshot, now)}, w \in WriteLists, intent \in Intents :
          Return(Write(s, w, intent))

SetAutoResetPolicy ==
    /\ Room /\ Operable
    /\ snapshot.policy_revision < MaxRevision
    /\ \E s \in {Prepared(snapshot, now)}, policy \in Policies :
          Return(Normalize([s EXCEPT !.auto_reset_policy = policy,
                                     !.policy_revision = @ + 1], now))

(***************************************************************************)
(* Rollback and commit.                                                    *)
(***************************************************************************)
RollbackEvents(s, ps) ==
    LET q == Ascending(ps)
    IN  [i \in 1 .. 2 * Len(q) |->
            IF i % 2 = 1 THEN ResetEvent(s, q[(i + 1) \div 2])
            ELSE ClearedEvent(s, q[i \div 2])]
          \o <<Event("RollbackApplied", ps)>>

Rollback(s, ps) ==
    IF ps = {} THEN s
    ELSE LET c == [ClearDirty(s, ps) EXCEPT !.persistence_journal_sequence = @ + 1]
         IN  AppendAudit(Emit(c, RollbackEvents(s, ps)), "Reset", ps, NoId, NoId)

\* ps: every dirty path (rollback of all), or the paths a subset request names.
RollbackDirty ==
    /\ Room /\ Operable
    /\ \E s \in {Prepared(snapshot, now)} :
        \E ps \in SUBSET DirtyPaths(s) :
           /\ ps = {} => DirtyPaths(s) = {}
           /\ Return(Rollback(s, ps))

CommitChanges(s) == {p \in DirtyPaths(s) : s.dirty_overlay[p] # CommittedValue(s, p)}

CommitEvents(s) ==
    LET q == Ascending(DirtyPaths(s))
    IN  [i \in 1 .. Len(q) |-> ClearedEvent(s, q[i])] \o <<Event("CommitApplied", CommitChanges(s))>>

Committed(s) ==
    LET dirty == DirtyPaths(s)
        moved == [s EXCEPT !.committed_overlay =
                     [p \in Paths |-> IF p \in dirty THEN OverlayEntry(p, s.dirty_overlay[p])
                                      ELSE @[p]]]
    IN  [ClearDirty(moved, dirty) EXCEPT !.persistence_journal_sequence = @ + 1]

CommitWithNewBase(s) ==
    AppendAudit(Emit(Committed(s), CommitEvents(s)), "Commit", CommitChanges(s),
                CommittedId(Committed(s)), CommittedId(Committed(s)))

Commit(s) ==
    AppendAudit(Emit(Committed(s), CommitEvents(s)), "Commit", CommitChanges(s),
                CommittedId(s), CommittedId(Committed(s)))

\* A request whose expected base is not CommittedId(s), or whose hint names a
\* clean path, fails; all dirty paths are committed whatever the hint names.
CommitConfiguration ==
    /\ Room /\ Operable
    /\ \E s \in {Prepared(snapshot, now)} :
        /\ CommittedId(Commit(s)) = WorkingId(Commit(s))
        /\ Return(Commit(s))

(***************************************************************************)
(* Sync with the backend.                                                  *)
(***************************************************************************)
SyncEvent == Event("SyncStateChanged", {})

CheckForUpdates ==
    /\ Room /\ Operable
    /\ \E s \in {Prepared(snapshot, now)}, connected \in BOOLEAN :
          Return(IF connected
                 THEN Emit([s EXCEPT !.sync_state = "Idle"], <<SyncEvent, SyncEvent>>)
                 ELSE Emit([s EXCEPT !.sync_state = "Offline"], <<SyncEvent>>))

PulledPaths(r) == {r.writes[k].path : k \in 1 .. Len(r.writes)}

\* The checks of pull_updates before it changes a value.
PullAccepted(s, r) ==
    /\ r.backend_connected \/ r.source = "DirectPush"
    /\ ~ r.full_snapshot => r.base_id = CommittedId(s) /\ r.target_id # NoId
    /\ \A k \in 1 .. Len(r.writes) :
          LET w == r.writes[k]
          IN  /\ \A j \in 1 .. Len(r.writes) : r.writes[j].path = w.path => j = k
              /\ ~ r.full_snapshot => w.before # NoValue
              /\ w.before \in {NoValue, CommittedValue(s, w.path)}

PullWriteEventsOnly(s, r) ==
    [i \in 1 .. Len(r.writes) |->
        LET w == r.writes[i]
        IN  ChangeEvent(w.path, NormalizedGeneration(s, w.path),
                        EffectiveValue(s, w.path), w.value)]

\* Write k of the request emits event 2k - 1 when its path was dirty, and 2k.
PullWriteEvents(s, r) ==
    LET q == Ascending({i \in 1 .. 2 * Len(r.writes) :
                          i % 2 = 0 \/ r.writes[(i + 1) \div 2].path \in DirtyPaths(s)})
    IN  [i \in 1 .. Len(q) |->
            LET w == r.writes[(q[i] + 1) \div 2]
            IN  IF q[i] % 2 = 1 THEN ClearedEvent(s, w.path)
                ELSE ChangeEvent(w.path, NormalizedGeneration(s, w.path),
                                 EffectiveValue(s, w.path), w.value)]

PullEvents(s, r) ==
    LET conflicts == PulledPaths(r) \cap DirtyPaths(s)
        ifConflict(k) == IF conflicts = {} THEN <<>> ELSE <<Event(k, conflicts)>>
    IN  <<SyncEvent, SyncEvent>> \o ifConflict("SyncConflictDetected")
          \o PullWriteEvents(s, r)
          \o <<SyncEvent>> \o ifConflict("SyncConflictResolved")
          \o <<Event("SyncApplyCompleted", PulledPaths(r))>>

\* The committed overlay after the writes of a pull, and the snapshot with it.
Upstream(s, r) ==
    [p \in Paths |->
        IF p \in PulledPaths(r)
        THEN OverlayEntry(p, r.writes[CHOOSE k \in 1 .. Len(r.writes) : r.writes[k].path = p].value)
        ELSE s.committed_overlay[p]]

PullAppliedUnderOverrides(s, r) ==
    [s EXCEPT !.committed_overlay = Upstream(s, r), !.sync_state = "Idle"]

PullAppliedStillApplying(s, r) ==
    ClearDirty([s EXCEPT !.committed_overlay = Upstream(s, r), !.sync_state = "Applying"],
               PulledPaths(r) \cap DirtyPaths(s))

PullApplied(s, r) ==
    ClearDirty([s EXCEPT !.committed_overlay = Upstream(s, r), !.sync_state = "Idle"],
               PulledPaths(r) \cap DirtyPaths(s))

Pull(s, r) ==
    LET c == PullApplied(s, r)
    IN  IF r.writes = <<>> THEN Emit(c, <<SyncEvent, SyncEvent>>)
        ELSE AppendAudit(Emit(c, PullEvents(s, r)),
                         IF r.source = "Backend" THEN "SyncApply" ELSE "DirectPush",
                         PulledPaths(r), CommittedId(s), CommittedId(c))

PullUpdates ==
    /\ Room /\ Operable
    /\ \E s \in {Prepared(snapshot, now)}, r \in PullRequests :
          /\ PullAccepted(s, r)
          /\ r.target_id \in {NoId, CommittedId(PullApplied(s, r))}
          /\ Return(Pull(s, r))

\* The upload cursor after a push of at most max_events records.
PushedFromStart(s, max_events) ==
    IF max_events < Len(s.audit_events) THEN max_events ELSE Len(s.audit_events)

Pushed(s, max_events) ==
    IF s.audit_uploaded_sequence + max_events < Len(s.audit_events)
    THEN s.audit_uploaded_sequence + max_events ELSE Len(s.audit_events)

\* push_audit_events does not apply due resets.
PushAuditEvents ==
    /\ Operable
    /\ \E s \in {Normalize(snapshot, now)}, connected \in BOOLEAN, max_events \in 1 .. MaxAudit :
          Return([s EXCEPT !.audit_uploaded_sequence =
                     IF connected THEN Pushed(s, max_events) ELSE @])

(***************************************************************************)
(* The active override driver, which knows the intent of an override.      *)
(***************************************************************************)
TerminalOutcome(kind, intent) ==
    CASE kind = "LeaseExpiry" /\ intent = "Experimental" -> "SilentRevert"
      [] kind = "LeaseExpiry" /\ intent = "Compensating" -> "Survive"
      [] kind = "HardCap" /\ intent = "Experimental" -> "SilentRevert"
      [] kind = "HardCap" /\ intent = "Compensating" -> "Escalate"

EscalatesAtHardCap(s, e) ==
    TerminalOutcome(e.kind, s.dirty_metadata[e.path].intent) = "Escalate"

Escalates(s, e) ==
    TerminalOutcome(e.kind, s.dirty_metadata[e.path].intent) # "SilentRevert"

Driven(s, t) ==
    IF Due(s, t) = {} THEN s ELSE Fire(s, t, {e \in s.pending : Escalates(s, e)})

DriveOverrideLifecycle ==
    /\ Room /\ Operable
    /\ snapshot' = Driven(Normalize(snapshot, now), now)
    /\ UNCHANGED now

(***************************************************************************)
(* The wall clock (current_time_unix_ms); it is not monotonic.             *)
(***************************************************************************)
Tick == now < MaxTime /\ now' = now + 1 /\ UNCHANGED snapshot

ClockSetBack ==
    /\ ClockMayStepBack
    /\ \E t \in 1 .. now - 1 : now' = t
    /\ UNCHANGED snapshot

Next ==
    \/ Reopen
    \/ SetParameter
    \/ SetParametersAtomically
    \/ SetAutoResetPolicy
    \/ RollbackDirty
    \/ CommitConfiguration
    \/ CheckForUpdates
    \/ PullUpdates
    \/ PushAuditEvents
    \/ DriveOverrideLifecycle
    \/ Tick
    \/ ClockSetBack

Spec == Init /\ [][Next]_vars

(***************************************************************************)
(* Invariants.                                                             *)
(***************************************************************************)
\* Every component of the state keeps its type; the transient sync states
\* (checking, pulling, applying) never stay behind in a returned snapshot.
TypeOK == snapshot \in Snapshot /\ now \in Nat

\* The three maps of an override (value, generation, metadata) have the same
\* paths and agree on the generation, whatever operations wrote and cleared
\* them: clear_dirty_entry and apply_dirty_write update all three.
DirtyMapsAgree ==
    \A p \in Paths :
        LET g == snapshot.dirty_generations[p]
            m == snapshot.dirty_metadata[p]
        IN  /\ p \in DirtyPaths(snapshot) <=> g # 0
            /\ m.generation = g
            /\ g = 0 => m = NoMetadata

\* No timer outlives the override that armed it.  clear_dirty_entry restarts a
\* path's generations at 1, so a timer left behind by an earlier override of
\* the path would match a later one; none is left, because a pending entry
\* always belongs to a dirty path and is not newer than its current write.
TimersBelongToOverrides ==
    \A e \in snapshot.pending :
        /\ e.path \in DirtyPaths(snapshot)
        /\ e.generation \in 1 .. snapshot.dirty_generations[e.path]

\* The event buffer and the audit log are gap-free and in order, the drop
\* counter accounts for every event that left the buffer, and the upload
\* cursor never passes the log (emit_runtime_event, append_audit_event,
\* push_audit_events).  This is why normalising the logs changes nothing.
LogsInOrder ==
    LET bus == snapshot.event_bus
        log == snapshot.audit_events
    IN  /\ Len(bus.events) <= EventCapacity
        /\ bus.next_sequence = bus.dropped_events + Len(bus.events) + 1
        /\ \A i \in 1 .. Len(bus.events) : bus.events[i].sequence = bus.dropped_events + i
        /\ \A i \in 1 .. Len(log) : log[i].sequence = i
        /\ snapshot.audit_next_sequence = Len(log) + 1
        /\ snapshot.audit_uploaded_sequence <= Len(log)

About(p, kinds) ==
    {i \in 1 .. Len(snapshot.event_bus.events) :
        /\ snapshot.event_bus.events[i].payload.kind \in kinds
        /\ snapshot.event_bus.events[i].payload.paths = {p}}

Latest(S) == {i \in S : \A j \in S : j <= i}

\* The last dirty_state_changed event of a path in the buffer tells whether the
\* path is dirty now: a subscriber that folds the events never disagrees with
\* the overlay, whichever operation or timer changed it last.
DirtyEventsAgree ==
    \A p \in Paths : \A i \in Latest(About(p, {"DirtyStateChanged"})) :
        snapshot.event_bus.events[i].payload.dirty <=> p \in DirtyPaths(snapshot)

\* The value events of a path (parameter_changed, reset_applied) are a chain of
\* hashes: each starts from the value the one before it ended at, and the last
\* one ends at the effective value, across writes, timer resets, rollbacks,
\* commits and syncs.  A subscriber that follows the hashes is never left
\* behind and never sees a gap.
ValueEventsChain ==
    \A p \in Paths :
        LET about == About(p, {"ParameterChanged", "ResetApplied"})
            payload(i) == snapshot.event_bus.events[i].payload
        IN  /\ \A i \in Latest(about) : payload(i).new = EffectiveValue(snapshot, p)
            /\ \A j \in about : \A i \in Latest({k \in about : k < j}) :
                  payload(i).new = payload(j).old

\* The newest audit record names the committed and the working configuration
\* the session has now: no operation, timer reset or sync changes either
\* without a record.
AuditHeadIsCurrent ==
    LET log == snapshot.audit_events
    IN  log # <<>> => /\ log[Len(log)].committed_id = CommittedId(snapshot)
                      /\ log[Len(log)].working_id = WorkingId(snapshot)

ConfigDiff(a, b) == {p \in Paths : a[p] # b[p]}

\* The audit log is a chain: a commit or a sync record starts from the committed
\* configuration of the record before it (the baseline for the first one) and
\* ends at its own, only those kinds change it, and the paths in which two
\* consecutive records differ are paths the later one names.
AuditRecordsChain ==
    LET log == snapshot.audit_events
        before(i) == IF i = 1 THEN Baseline ELSE log[i - 1].committed_id
    IN  \A i \in 1 .. Len(log) :
          /\ ConfigDiff(before(i), log[i].committed_id) \subseteq log[i].changed_paths
          /\ IF log[i].kind \in {"Commit", "SyncApply", "DirectPush"}
             THEN log[i].base_id = before(i) /\ log[i].target_id = log[i].committed_id
             ELSE log[i].committed_id = before(i)
          /\ i > 1 => ConfigDiff(log[i - 1].working_id, log[i].working_id)
                         \subseteq log[i].changed_paths

\* No operation leaves a snapshot the next one refuses: it normalises to one that
\* validate_runtime_snapshot accepts, unless the wall clock was set back behind
\* the start of an override (whose lease, armed again from the earlier time,
\* would then end before it begins).
RefusedOnlyWhileClockBehind ==
    (\A p \in DirtyPaths(snapshot) : snapshot.dirty_metadata[p].dirty_since <= now) => Operable

(***************************************************************************)
(* Action properties.                                                      *)
(***************************************************************************)
NewEvents ==
    LET ev == snapshot'.event_bus.events
    IN  {ev[i].payload : i \in {i \in 1 .. Len(ev) :
                                  ev[i].sequence >= snapshot.event_bus.next_sequence}}

Announced(p, kinds) == \E e \in NewEvents : e.kind \in kinds /\ p \in e.paths

\* An override ends without a rollback, a commit or a sync of its path only when
\* one of its own deadlines has passed: the timer of an older write, or of
\* another path, never takes a value away.
ExpiredAt(p, t) ==
    LET m == Normalize(snapshot, t).dirty_metadata[p]
    IN  \E k \in DeadlineKinds : DeadlineOf(m, k) # NoDeadline /\ DeadlineOf(m, k) <= t

OnlyOwnDeadlineReverts ==
    [][\A p \in DirtyPaths(snapshot) \ DirtyPaths(snapshot') :
          \/ ExpiredAt(p, now)
          \/ Announced(p, {"RollbackApplied", "SyncApplyCompleted"})
          \/ \E e \in NewEvents : e.kind = "CommitApplied"]_vars

\* The active driver never ends a compensating override: it escalates it and
\* leaves its value in place (drive_override_lifecycle).
DriverKeepsCompensating ==
    [][DriveOverrideLifecycle =>
          \A p \in DirtyPaths(snapshot) :
             snapshot.dirty_metadata[p].intent = "Compensating" =>
                snapshot'.dirty_overlay[p] = snapshot.dirty_overlay[p]]_vars

\* The logs only grow: a sequence number names one event for ever, the audit log
\* keeps its records and the upload cursor never moves back.
LogsOnlyGrow ==
    [][LET old == snapshot.event_bus
           new == snapshot'.event_bus
       IN  /\ \A i \in 1 .. Len(old.events), j \in 1 .. Len(new.events) :
                old.events[i].sequence = new.events[j].sequence => old.events[i] = new.events[j]
           /\ new.next_sequence >= old.next_sequence
           /\ SubSeq(snapshot'.audit_events, 1, Len(snapshot.audit_events)) = snapshot.audit_events
           /\ snapshot'.audit_uploaded_sequence >= snapshot.audit_uploaded_sequence]_vars

\* A session implements the abstract store: whatever the timers, the retries and
\* the order of calls, commits publish exactly what is in effect, only paths
\* with lifecycle "runtime" are written, and a sync touches only its own keys.
Store == INSTANCE ConfigurationStore WITH committed <- CommittedId(snapshot),
                                          overrides <- snapshot.dirty_overlay

ImplementsStore == Store!StoreSpec

(***************************************************************************)
(* Statements of the documentation that the code does not keep.            *)
(***************************************************************************)
\* docs/runtime-v2-state-machine.md:26: "dirty_generation strictly increases for
\* each successful write to a path": of two write events of a path, the later
\* one has the larger generation.
GenerationsIncrease ==
    \A p \in Paths : \A i, j \in About(p, {"DirtyStateChanged"}) :
        LET a == snapshot.event_bus.events[i].payload
            b == snapshot.event_bus.events[j].payload
        IN  i < j /\ a.dirty /\ b.dirty => a.generation < b.generation

\* override_intent.rs:26, of a compensating override: "It may never end
\* silently": it ends by a rollback, a commit or a sync of its path, not by a
\* timer alone.
CompensatingNeverEndsSilently ==
    [][\A p \in DirtyPaths(snapshot) \ DirtyPaths(snapshot') :
          snapshot.dirty_metadata[p].intent = "Compensating" =>
             \/ Announced(p, {"RollbackApplied", "SyncApplyCompleted"})
             \/ \E e \in NewEvents : e.kind = "CommitApplied"]_vars

\* lifecycle_driver_ops.rs:330: "the bound that just fired is consumed and must
\* not re-fire": between two escalations of a path for the same bound there is
\* a new write of the path.
BoundFiresOnce ==
    \A p \in Paths : \A i, j \in About(p, {"OverrideEscalated"}) :
        LET ev == snapshot.event_bus.events
        IN  i < j /\ ev[i].payload.bound = ev[j].payload.bound =>
               \E k \in About(p, {"ParameterChanged"}) : i < k /\ k < j
=============================================================================
