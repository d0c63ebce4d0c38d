--------------------------- MODULE RuntimeSnapshot ---------------------------
(***************************************************************************)
(* The runtime v2 snapshot and the pure functions every runtime operation  *)
(* is built from (compiler/src/runtime_api/shared_ops.rs).  The runtime is *)
(* value-semantic: an operation takes a snapshot, works on its own copy    *)
(* and returns the changed copy only when it succeeds.  A snapshot is      *)
(* therefore a record here, and the functions of shared_ops.rs that change *)
(* one in place are operators from snapshots to snapshots.                 *)
(*                                                                         *)
(* A canonical path ("scope/path") is a natural number; the numbering is   *)
(* the order of the code's sorted maps.  An absent map entry is NoValue in *)
(* an overlay, generation 0 in dirty_generations, NoMetadata in            *)
(* dirty_metadata; an absent deadline is NoDeadline.  A configuration id   *)
(* is the configuration it hashes.                                         *)
(***************************************************************************)
EXTENDS Integers, Sequences, FiniteSets

CONSTANTS Paths,          \* canonical parameter paths, as numbers
          Values,         \* parameter values (type and limits respected)
          Baseline,       \* the resolved 100% model: [Paths -> Values]
          EventCapacity,  \* event_bus.buffer_capacity
          NoValue,        \* no overlay entry
          NoId            \* no configuration id

ASSUME PathsAssumption == Paths \subseteq Nat /\ IsFiniteSet(Paths)
ASSUME BaselineAssumption == Baseline \in [Paths -> Values]
ASSUME NoValueAssumption == NoValue \notin Values
ASSUME CapacityAssumption == EventCapacity \in Nat \ {0}

NoDeadline == 0
Intents == {"Experimental", "Compensating"}
DeadlineKinds == {"LeaseExpiry", "HardCap"}
Configurations == [Paths -> Values]

NoMetadata == [generation |-> 0, dirty_since |-> 0, reset_deadline |-> NoDeadline,
               hard_cap_deadline |-> NoDeadline, intent |-> "Experimental"]

DirtyEntryMetadata == [generation: Nat, dirty_since: Nat, reset_deadline: Nat,
                       hard_cap_deadline: Nat, intent: Intents]

AutoResetScheduleEntry == [path: Paths, generation: Nat, deadline: Nat, kind: DeadlineKinds]

\* The outcome of resolve_auto_reset_for_path for every path.
AutoResetPolicy == [Paths -> [enabled: BOOLEAN, timeout: Nat]]

EventKinds == {"RuntimeOpened", "ParameterChanged", "DirtyStateChanged", "ResetApplied",
               "RollbackApplied", "CommitApplied", "SyncStateChanged",
               "SyncConflictDetected", "SyncConflictResolved", "SyncApplyCompleted",
               "OverrideEscalated"}

\* old and new stand for old_value_hash and new_value_hash, NoValue when absent;
\* generation is 0 and bound "None" in the payloads without one.
EventPayload == [kind: EventKinds, paths: SUBSET Paths, generation: Nat, dirty: BOOLEAN,
                 old: Values \cup {NoValue}, new: Values \cup {NoValue},
                 bound: DeadlineKinds \cup {"None"}]

RuntimeEvent == [sequence: Nat, payload: EventPayload]

RuntimeEventBusState == [next_sequence: Nat, events: Seq(RuntimeEvent), dropped_events: Nat]

AuditKinds == {"Write", "Reset", "Commit", "SyncApply", "DirectPush", "Escalation"}

RuntimeAuditEvent == [sequence: Nat, kind: AuditKinds, changed_paths: SUBSET Paths,
                      committed_id: Configurations, working_id: Configurations,
                      base_id: Configurations \cup {NoId},
                      target_id: Configurations \cup {NoId}]

SyncStates == {"Idle", "Offline"}

Snapshot == [committed_overlay: [Paths -> Values \cup {NoValue}],
             dirty_overlay: [Paths -> Values \cup {NoValue}],
             dirty_generations: [Paths -> Nat],
             dirty_metadata: [Paths -> DirtyEntryMetadata],
             auto_reset_policy: AutoResetPolicy,
             policy_revision: Nat,
             pending: SUBSET AutoResetScheduleEntry,
             event_bus: RuntimeEventBusState,
             sync_state: SyncStates,
             audit_events: Seq(RuntimeAuditEvent),
             audit_next_sequence: Nat,
             audit_uploaded_sequence: Nat,
             persistence_journal_sequence: Nat]

(***************************************************************************)
(* A finite set listed in the order of a relation, as the code's sorted    *)
(* vectors and maps list it.                                               *)
(***************************************************************************)
Rank(S, R, x) == Cardinality({y \in S : <<y, x>> \in R}) + 1

Ordered(S, R) == [i \in 1 .. Cardinality(S) |-> CHOOSE x \in S : Rank(S, R, x) = i]

Ascending(S) == Ordered(S, {d \in S \X S : d[1] < d[2]})

(***************************************************************************)
(* Values and identities.                                                  *)
(***************************************************************************)
DirtyPaths(s) == {p \in Paths : s.dirty_overlay[p] # NoValue}

CommittedValue(s, p) ==
    IF s.committed_overlay[p] # NoValue THEN s.committed_overlay[p] ELSE Baseline[p]

EffectiveValue(s, p) ==
    IF s.dirty_overlay[p] # NoValue THEN s.dirty_overlay[p] ELSE CommittedValue(s, p)

CommittedId(s) == [p \in Paths |-> CommittedValue(s, p)]
WorkingId(s) == [p \in Paths |-> EffectiveValue(s, p)]

\* A committed value equal to the baseline is stored as no overlay entry.
OverlayEntry(p, v) == IF v = Baseline[p] THEN NoValue ELSE v

(***************************************************************************)
(* The event bus and the audit log.                                        *)
(***************************************************************************)
Event(k, ps) ==
    [kind |-> k, paths |-> ps, generation |-> 0, dirty |-> FALSE,
     old |-> NoValue, new |-> NoValue, bound |-> "None"]
DirtyEvent(p, g, d) ==
    [Event("DirtyStateChanged", {p}) EXCEPT !.generation = g, !.dirty = d]
ChangeEvent(p, g, old, new) ==
    [Event("ParameterChanged", {p}) EXCEPT !.generation = g, !.old = old, !.new = new]
\* The events of a revert: the override's value goes, the committed one returns.
ResetEvent(s, p) ==
    [Event("ResetApplied", {p}) EXCEPT !.generation = s.dirty_generations[p],
                                       !.old = s.dirty_overlay[p],
                                       !.new = CommittedValue(s, p)]
ClearedEvent(s, p) == DirtyEvent(p, s.dirty_generations[p], FALSE)

\* How many events leave a buffer that would hold n.
OverflowLate(n) == IF n > EventCapacity + 1 THEN n - EventCapacity - 1 ELSE 0
Overflow(n) == IF n > EventCapacity THEN n - EventCapacity ELSE 0

\* emit_runtime_event for each payload of a batch: the sequence numbers are
\* consecutive and the oldest events make room, each counted as dropped.
Emit(s, batch) ==
    LET bus == s.event_bus
        all == bus.events \o
                 [i \in 1 .. Len(batch) |->
                    [sequence |-> bus.next_sequence + i - 1, payload |-> batch[i]]]
        overflow == Overflow(Len(all))
    IN  [s EXCEPT !.event_bus =
            [next_sequence |-> bus.next_sequence + Len(batch),
             events |-> SubSeq(all, overflow + 1, Len(all)),
             dropped_events |-> bus.dropped_events + overflow]]

AuditRecord(s, seq, k, ps, base, target) ==
    [sequence |-> seq, kind |-> k, changed_paths |-> ps, committed_id |-> CommittedId(s),
     working_id |-> WorkingId(s), base_id |-> base, target_id |-> target]

AppendAudit(s, k, ps, base, target) ==
    [s EXCEPT !.audit_events =
                 Append(@, AuditRecord(s, s.audit_next_sequence, k, ps, base, target)),
              !.audit_next_sequence = @ + 1]

(***************************************************************************)
(* Dirty entries: writing, clearing, normalising and validating.           *)
(***************************************************************************)
ClearDirtyKeepingTimers(s, ps) ==
    [s EXCEPT !.dirty_overlay = [p \in Paths |-> IF p \in ps THEN NoValue ELSE @[p]],
              !.dirty_generations = [p \in Paths |-> IF p \in ps THEN 0 ELSE @[p]],
              !.dirty_metadata = [p \in Paths |-> IF p \in ps THEN NoMetadata ELSE @[p]]]

ClearDirtyKeepingMetadata(s, ps) ==
    [s EXCEPT !.dirty_overlay = [p \in Paths |-> IF p \in ps THEN NoValue ELSE @[p]],
              !.dirty_generations = [p \in Paths |-> IF p \in ps THEN 0 ELSE @[p]],
              !.pending = {e \in @ : e.path \notin ps}]

\* clear_dirty_entry of every path in ps, at its current generation.
ClearDirty(s, ps) ==
    [s EXCEPT !.dirty_overlay = [p \in Paths |-> IF p \in ps THEN NoValue ELSE @[p]],
              !.dirty_generations = [p \in Paths |-> IF p \in ps THEN 0 ELSE @[p]],
              !.dirty_metadata = [p \in Paths |-> IF p \in ps THEN NoMetadata ELSE @[p]],
              !.pending = {e \in @ : e.path \notin ps
                                       \/ e.generation > s.dirty_generations[e.path]}]

Armed(s, p, t) ==
    IF s.auto_reset_policy[p].enabled THEN t + s.auto_reset_policy[p].timeout ELSE NoDeadline

\* apply_dirty_write for each write of a list, in order.  A path written twice
\* gets both generations, the last value, and a schedule entry per generation.
WritesTo(w, p) == {k \in 1 .. Len(w) : w[k].path = p}
LastWriteTo(w, p) == CHOOSE k \in WritesTo(w, p) : \A j \in WritesTo(w, p) : j <= k

ApplyDirtyWrites(s, w, intent, t) ==
    LET written == {p \in Paths : WritesTo(w, p) # {}}
        generation(p) == s.dirty_generations[p] + Cardinality(WritesTo(w, p))
        leases(p) == {[path |-> p, generation |-> g, deadline |-> Armed(s, p, t),
                       kind |-> "LeaseExpiry"] : g \in s.dirty_generations[p] + 1 .. generation(p)}
    IN  [s EXCEPT !.dirty_overlay = [p \in Paths |-> IF p \in written
                                        THEN w[LastWriteTo(w, p)].value ELSE @[p]],
                  !.dirty_generations = [p \in Paths |-> generation(p)],
                  !.dirty_metadata = [p \in Paths |-> IF p \in written
                                        THEN [generation |-> generation(p), dirty_since |-> t,
                                              reset_deadline |-> Armed(s, p, t),
                                              hard_cap_deadline |-> NoDeadline,
                                              intent |-> intent]
                                        ELSE @[p]],
                  !.pending = @ \cup UNION {leases(p) : p \in {p \in written : Armed(s, p, t) # NoDeadline}},
                  !.persistence_journal_sequence = @ + Len(w)]

DeadlineOf(m, kind) ==
    IF kind = "LeaseExpiry" THEN m.reset_deadline ELSE m.hard_cap_deadline

NormalizedGeneration(s, p) ==
    LET g == IF s.dirty_generations[p] # 0 THEN s.dirty_generations[p]
             ELSE s.dirty_metadata[p].generation
    IN  IF g = 0 THEN 1 ELSE g

RearmedFromZero(s, p, t) ==
    [s.dirty_metadata[p] EXCEPT
        !.generation = NormalizedGeneration(s, p),
        !.dirty_since = IF @ = 0 THEN t ELSE @,
        !.reset_deadline = IF @ = NoDeadline THEN Armed(s, p, 0) ELSE @]

NormalizedMetadata(s, p, t) ==
    [s.dirty_metadata[p] EXCEPT
        !.generation = NormalizedGeneration(s, p),
        !.dirty_since = IF @ = 0 THEN t ELSE @,
        !.reset_deadline = IF @ = NoDeadline THEN Armed(s, p, t) ELSE @]

BoundEntry(m, p, kind) ==
    [path |-> p, generation |-> m.generation, deadline |-> DeadlineOf(m, kind), kind |-> kind]

\* normalize_runtime_snapshot_state.  Its first part, which sorts, dedups and
\* trims the event buffer and the audit log, is the identity on the logs the
\* operations produce (LogsInOrder of RuntimeSession) and is left out.
Normalize(s, t) ==
    LET dirty == DirtyPaths(s)
        metadata == [p \in Paths |-> IF p \in dirty THEN NormalizedMetadata(s, p, t)
                                     ELSE NoMetadata]
        bounds == {BoundEntry(metadata[p], p, k) : p \in dirty, k \in DeadlineKinds}
    IN  [s EXCEPT !.dirty_generations =
                     [p \in Paths |-> IF p \in dirty THEN NormalizedGeneration(s, p) ELSE @[p]],
                  !.dirty_metadata = metadata,
                  !.pending = {e \in @ : e.path \in dirty}
                                \cup {e \in bounds : e.deadline # NoDeadline}]

MetadataValid(m) ==
    /\ m.generation # 0
    /\ m.reset_deadline # NoDeadline => m.reset_deadline >= m.dirty_since
    /\ m.hard_cap_deadline # NoDeadline => m.hard_cap_deadline >= m.dirty_since

\* validate_runtime_snapshot, as far as the snapshots of this model can fail it.
Valid(s) ==
    /\ \A p \in Paths : s.dirty_metadata[p] # NoMetadata =>
          /\ MetadataValid(s.dirty_metadata[p])
          /\ s.dirty_generations[p] # 0 =>
                s.dirty_generations[p] = s.dirty_metadata[p].generation
    /\ \A e \in s.pending : e.generation # 0

(***************************************************************************)
(* The auto-reset scheduler.  A due entry fires when it is still current;  *)
(* it then reverts its path or, for the entries in esc, escalates.  The    *)
(* code takes the due entries in schedule order and checks each against    *)
(* the state its predecessors left: a revert makes every later entry of    *)
(* its path stale, an escalation clears only the bound that fired.         *)
(***************************************************************************)
IsCurrentUnchecked(s, e) == s.dirty_overlay[e.path] # NoValue

IsCurrent(s, e) ==
    /\ s.dirty_generations[e.path] = e.generation
    /\ s.dirty_metadata[e.path].generation = e.generation
    /\ DeadlineOf(s.dirty_metadata[e.path], e.kind) = e.deadline
    /\ s.dirty_overlay[e.path] # NoValue

Due(s, t) == {e \in s.pending : e.deadline <= t}

\* Schedule order: deadline, path, generation, kind.
Precedes(e, f) ==
    \/ e.deadline < f.deadline
    \/ /\ e.deadline = f.deadline
       /\ \/ e.path < f.path
          \/ /\ e.path = f.path
             /\ \/ e.generation < f.generation
                \/ /\ e.generation = f.generation
                   /\ e.kind = "LeaseExpiry" /\ f.kind = "HardCap"

Fired(s, t, esc) ==
    {e \in Due(s, t) :
        /\ IsCurrent(s, e)
        /\ ~ \E f \in Due(s, t) \ esc :
                IsCurrent(s, f) /\ f.path = e.path /\ Precedes(f, e)}

Reverted(s, t, esc) == {e.path : e \in Fired(s, t, esc) \ esc}

\* One step of the work a fired entry causes: a revert emits two events, an
\* escalation one; step 1 is also the one that appends the audit record.
Steps(s, t, esc) ==
    {[entry |-> e, step |-> 1] : e \in Fired(s, t, esc)}
      \cup {[entry |-> e, step |-> 2] : e \in Fired(s, t, esc) \ esc}

StepPrecedes(a, b) ==
    Precedes(a.entry, b.entry) \/ (a.entry = b.entry /\ a.step < b.step)

InOrder(steps) == Ordered(steps, {d \in steps \X steps : StepPrecedes(d[1], d[2])})

FiringEvent(s, a, esc) ==
    IF a.entry \in esc
    THEN [Event("OverrideEscalated", {a.entry.path}) EXCEPT !.generation = a.entry.generation,
                                                            !.bound = a.entry.kind]
    ELSE IF a.step = 1 THEN ResetEvent(s, a.entry.path)
    ELSE ClearedEvent(s, a.entry.path)

FiringEvents(s, t, esc) ==
    LET q == InOrder(Steps(s, t, esc)) IN [i \in 1 .. Len(q) |-> FiringEvent(s, q[i], esc)]

\* The identity in an audit record is the one after the reverts up to it.
RevertedBefore(q, i, esc) == {q[j].entry.path : j \in {j \in 1 .. i - 1 : q[j].entry \notin esc}}
RevertedBy(q, i, esc) == {q[j].entry.path : j \in {j \in 1 .. i : q[j].entry \notin esc}}

FiringAudit(s, t, esc) ==
    LET q == InOrder({a \in Steps(s, t, esc) : a.step = 1})
    IN  [i \in 1 .. Len(q) |->
            AuditRecord(ClearDirty(s, RevertedBy(q, i, esc)), s.audit_next_sequence + i - 1,
                        IF q[i].entry \in esc THEN "Escalation" ELSE "Reset",
                        {q[i].entry.path}, NoId, NoId)]

Disarm(m, kinds) ==
    [m EXCEPT !.reset_deadline = IF "LeaseExpiry" \in kinds THEN NoDeadline ELSE @,
              !.hard_cap_deadline = IF "HardCap" \in kinds THEN NoDeadline ELSE @]

\* drop_schedule_entry of every escalated entry and escalate_compensating_entry's
\* change of the metadata.
Escalate(s, entries) ==
    [s EXCEPT !.dirty_metadata =
                 [p \in Paths |-> Disarm(@[p], {e.kind : e \in {f \in entries : f.path = p}})],
              !.pending = {e \in @ : ~ \E f \in entries :
                                         e.path = f.path /\ e.generation <= f.generation}]

Fire(s, t, esc) ==
    LET drained == [s EXCEPT !.pending = @ \ Due(s, t)]
        cleared == ClearDirty(drained, Reverted(s, t, esc))
        changed == Escalate(cleared, Fired(s, t, esc) \cap esc)
        logged == Emit(changed, FiringEvents(s, t, esc))
        audit == FiringAudit(s, t, esc)
    IN  [logged EXCEPT
            !.audit_events = @ \o audit,
            !.audit_next_sequence = @ + Len(audit),
            !.persistence_journal_sequence = @ + Cardinality(Reverted(s, t, esc))]

\* The lazy path reverts every due entry, whatever its intent.
ApplyDueAutoResets(s, t) == IF Due(s, t) = {} THEN s ELSE Fire(s, t, {})

\* What normalize and apply_due_auto_resets make of the caller's snapshot before
\* an operation starts its own work.
Prepared(s, t) == ApplyDueAutoResets(Normalize(s, t), t)
=============================================================================
