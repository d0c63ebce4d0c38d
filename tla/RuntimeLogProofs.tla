-------------------------- MODULE RuntimeLogProofs ---------------------------
(***************************************************************************)
(* Theorems about the two logs of a runtime session, the event buffer and  *)
(* the audit log: they are gap-free and in order, they only grow, the last *)
(* audit record names the configuration the session has, and the records   *)
(* form a chain.                                                           *)
(*                                                                         *)
(* The first part is about one step: what it does to the values and leaves *)
(* in the logs.  An operation appends one record that accounts for what it *)
(* changed, the due timers append one for every override they end, and     *)
(* every step is the work of the due timers followed by an operation's own *)
(* work.  The second part shows the invariants for one such logged step.   *)
(***************************************************************************)
EXTENDS RuntimeSessionProofs, RuntimeBufferProofs

\* A step that emits the batch and logs one record.
OneLogged(s, batch, u) ==
    \E r \in RuntimeAuditEvent : Logged(s, batch, <<r>>, u) /\ Leads(s, <<r>>, u)

\* The shape of an operation: it changes s to c, which has the same logs, emits
\* its events and appends one record that names what changed.
LEMMA OneRecord ==
    ASSUME NEW s, NEW c, SnapshotOK(s), SnapshotOK(c), SameLogs(s, c),
           NEW batch \in Seq(EventPayload), NEW k \in AuditKinds, NEW ps \in SUBSET Paths,
           NEW base \in Configurations \cup {NoId}, NEW target \in Configurations \cup {NoId},
           Accounts(s, c, k, ps, base, target)
    PROVE  OneLogged(s, batch, AppendAudit(Emit(c, batch), k, ps, base, target))
<1> DEFINE e == Emit(c, batch)
           u == AppendAudit(e, k, ps, base, target)
           r == AuditRecord(e, e.audit_next_sequence, k, ps, base, target)
<1>1. SnapshotOK(e) /\ SameOverrides(c, e)
  BY EmitType
<1>2. Emitted(c, batch, e) /\ SameAudit(c, e)
  BY EmitLogs DEF SnapshotOK
<1>3. /\ u.event_bus = e.event_bus /\ u.audit_uploaded_sequence = e.audit_uploaded_sequence
      /\ Appended(e, <<r>>, u)
  <2> HIDE DEF e
  <2> QED
    BY <1>1, AuditLogs DEF SnapshotOK
<1>4. SnapshotOK(u) /\ SameOverrides(e, u) /\ r \in RuntimeAuditEvent
  <2>1. e.audit_next_sequence \in Nat
    BY <1>1, LogTypes DEF SnapshotOK
  <2> QED
    BY <1>1, <2>1, AuditType, Zenon
<1>5. ValuesOf(c, e) /\ ValuesOf(c, u)
  BY <1>1, <1>4, Zenon DEF ValuesOf, CommittedValue, EffectiveValue, SameOverrides
<1> HIDE DEF e, u
<1>6. Records(s, c, batch, e, r, u)
  BY <1>2, <1>3, <1>5, Zenon DEF Records
<1> DEFINE n == e.audit_next_sequence
<1>7. r = AuditRecord(e, n, k, ps, base, target)
  OBVIOUS
<1> HIDE DEF r, n
<1>8. Logged(s, batch, <<r>>, u) /\ Leads(s, <<r>>, u)
  BY <1>6, <1>7, RecordOf, Zenon
<1> QED
  BY <1>4, <1>8, Zenon DEF u, e, OneLogged

\* The functions that change values and overrides leave the logs alone.
LEMMA ValuesOnly ==
    ASSUME NEW s, SnapshotOK(s), NEW w, NEW intent, NEW t, NEW ps
    PROVE  /\ SameLogs(s, ApplyDirtyWrites(s, w, intent, t))
           /\ SameLogs(s, ClearDirty(s, ps))
           /\ SameLogs(s, Normalize(s, t))
           /\ SameLogs(s, Escalate(s, ps))
<1>1. s \in Snapshot
  BY DEF SnapshotOK
<1> QED
  BY <1>1, OverridesOnly, Zenon

\* The committed configuration is read off the committed overlay alone.
LEMMA SameCommitted ==
    ASSUME NEW s, NEW c, c.committed_overlay = s.committed_overlay
    PROVE  CommittedId(c) = CommittedId(s)
BY DEF CommittedId, CommittedValue

\* set_parameter and set_parameters_atomically: the record names every path
\* written.
LEMMA WriteLogged ==
    ASSUME NEW s, Good(s), NEW w \in Seq(Writes), NEW intent \in Intents, now \in Nat
    PROVE  /\ WriteEvents(s, w) \in Seq(EventPayload)
           /\ OneLogged(s, WriteEvents(s, w), Write(s, w, intent))
<1> DEFINE written == {p \in Paths : WritesTo(w, p) # {}}
           a == ApplyDirtyWrites(s, w, intent, now)
           ps == {w[k].path : k \in 1 .. Len(w)}
<1>1. SnapshotOK(s) /\ s \in Snapshot
  BY DEF Good, SnapshotOK
<1>2. w \in Seq([path: Paths, value: Values])
  <2>1. Writes \subseteq [path: Paths, value: Values]
    BY RuntimePathsAssumption DEF Writes
  <2> QED
    BY <2>1, SeqMonotonic, Zenon
<1>3. \A k \in 1 .. Len(w) : w[k].path \in Paths
  <2>1. \A k \in 1 .. Len(w) : w[k] \in [path: Paths, value: Values]
    BY <1>2, ElementOfSeq, Zenon
  <2> QED
    BY <2>1
<1>4. ps \in SUBSET Paths /\ written \subseteq ps
  BY <1>3 DEF WritesTo
<1>5. SnapshotOK(a) /\ Overridden(s, written, a, now)
  BY <1>1, <1>2, ApplyDirtyWritesType, Zenon
<1>6. SameLogs(s, a)
  BY <1>1, ValuesOnly
<1>7. WriteEvents(s, w) \in Seq(EventPayload)
  BY <1>1, <1>2, WriteEventsType, Zenon
<1>8. Write(s, w, intent) = AppendAudit(Emit(a, WriteEvents(s, w)), "Write", ps, NoId, NoId)
  BY DEF Write
<1> HIDE DEF a, written, ps
<1>9. CommittedId(a) = CommittedId(s)
  BY <1>5, SameCommitted DEF Overridden
<1>10. /\ ConfigDiff(CommittedId(s), CommittedId(a)) \subseteq ps
       /\ ConfigDiff(WorkingId(s), WorkingId(a)) \subseteq ps
  <2>1. \A p \in Paths \ ps : /\ a.committed_overlay[p] = s.committed_overlay[p]
                              /\ a.dirty_overlay[p] = s.dirty_overlay[p]
    BY <1>4, <1>5 DEF Overridden
  <2> QED
    BY <2>1, DiffWithin, Zenon
<1>11. /\ "Write" \in AuditKinds /\ "Write" \notin {"Commit", "SyncApply", "DirectPush"}
       /\ NoId \in Configurations \cup {NoId}
  BY DEF AuditKinds
<1>12. Accounts(s, a, "Write", ps, NoId, NoId)
  BY <1>9, <1>10, <1>11 DEF Accounts
<1> QED
  BY <1>1, <1>4, <1>5, <1>6, <1>7, <1>8, <1>11, <1>12, OneRecord, Zenon

\* rollback_dirty: the record names the paths rolled back.
LEMMA RollbackLogged ==
    ASSUME NEW s, Good(s), NEW ps \in SUBSET DirtyPaths(s), ps # {}
    PROVE  /\ RollbackEvents(s, ps) \in Seq(EventPayload)
           /\ OneLogged(s, RollbackEvents(s, ps), Rollback(s, ps))
<1> DEFINE d == ClearDirty(s, ps)
           j == d.persistence_journal_sequence + 1
           c == [d EXCEPT !.persistence_journal_sequence = j]
<1>1. s \in Snapshot /\ SnapshotOK(s) /\ ps \in SUBSET Paths
  BY DEF Good, SnapshotOK, DirtyPaths
<1>2. SnapshotOK(d) /\ Cleared(s, ps, d) /\ SameLogs(s, d)
  BY <1>1, ClearDirtyType, ValuesOnly
<1>3. Rollback(s, ps) = AppendAudit(Emit(c, RollbackEvents(s, ps)), "Reset", ps, NoId, NoId)
  BY DEF Rollback
<1> HIDE DEF d
<1>4. j \in Nat
  BY <1>2, NextJournal, Zenon
<1> HIDE DEF j
<1>5. SnapshotOK(c) /\ SameOverrides(d, c) /\ SameLogs(d, c)
  BY <1>2, <1>4, Zenon DEF SnapshotOK, Snapshot, SameOverrides, SameLogs
<1> HIDE DEF c
<1>6. SameLogs(s, c) /\ c.committed_overlay = s.committed_overlay
  BY <1>2, <1>5 DEF SameLogs, SameOverrides, Cleared
<1>7. CommittedId(c) = CommittedId(s)
  BY <1>6, SameCommitted
<1>8. /\ ConfigDiff(CommittedId(s), CommittedId(c)) \subseteq ps
      /\ ConfigDiff(WorkingId(s), WorkingId(c)) \subseteq ps
  <2>1. \A p \in Paths \ ps : /\ c.committed_overlay[p] = s.committed_overlay[p]
                              /\ c.dirty_overlay[p] = s.dirty_overlay[p]
    BY <1>2, <1>5 DEF Cleared, SameOverrides
  <2> QED
    BY <2>1, DiffWithin, Zenon
<1>9. RollbackEvents(s, ps) \in Seq(EventPayload)
  BY <1>1, RollbackEventsType
<1>10. /\ "Reset" \in AuditKinds /\ "Reset" \notin {"Commit", "SyncApply", "DirectPush"}
       /\ NoId \in Configurations \cup {NoId}
  BY DEF AuditKinds
<1>11. Accounts(s, c, "Reset", ps, NoId, NoId)
  BY <1>7, <1>8, <1>10 DEF Accounts
<1>12. OneLogged(s, RollbackEvents(s, ps),
                 AppendAudit(Emit(c, RollbackEvents(s, ps)), "Reset", ps, NoId, NoId))
  BY <1>1, <1>5, <1>6, <1>9, <1>10, <1>11, OneRecord, Zenon
<1> QED
  BY <1>3, <1>9, <1>12, Zenon

\* commit_configuration: the record starts from the committed configuration and
\* ends at the new one; overrides equal to the committed value are not named.
LEMMA CommitLogged ==
    ASSUME NEW s, Good(s)
    PROVE  /\ CommitEvents(s) \in Seq(EventPayload)
           /\ OneLogged(s, CommitEvents(s), Commit(s))
<1> DEFINE dirty == DirtyPaths(s)
           overlay == [p \in Paths |-> IF p \in dirty THEN OverlayEntry(p, s.dirty_overlay[p])
                                       ELSE s.committed_overlay[p]]
           moved == [s EXCEPT !.committed_overlay = overlay]
           d == ClearDirty(moved, dirty)
           j == d.persistence_journal_sequence + 1
           c == Committed(s)
<1>1. /\ s \in Snapshot /\ SnapshotOK(s) /\ dirty \in SUBSET Paths
      /\ s.dirty_overlay \in [Paths -> Values \cup {NoValue}]
      /\ s.committed_overlay \in [Paths -> Values \cup {NoValue}]
  BY DEF Good, SnapshotOK, DirtyPaths, Snapshot
<1>2. overlay \in [Paths -> Values \cup {NoValue}]
  BY <1>1 DEF OverlayEntry
<1>3. c = [d EXCEPT !.persistence_journal_sequence = j]
  BY <1>1 DEF Committed, Snapshot
<1>4. \A p \in Paths : overlay[p] = IF p \in dirty THEN OverlayEntry(p, s.dirty_overlay[p])
                                    ELSE s.committed_overlay[p]
  OBVIOUS
<1> HIDE DEF overlay, dirty
<1>5. /\ SnapshotOK(moved) /\ moved.committed_overlay = overlay
      /\ moved.dirty_overlay = s.dirty_overlay /\ SameLogs(s, moved)
  BY <1>1, <1>2, Zenon DEF SnapshotOK, Snapshot, SameLogs
<1> HIDE DEF moved
<1>6. SnapshotOK(d) /\ Cleared(moved, dirty, d) /\ SameLogs(moved, d)
  BY <1>5, ClearDirtyType, ValuesOnly
<1> HIDE DEF d
<1>7. j \in Nat
  BY <1>6, NextJournal, Zenon
<1> HIDE DEF j, c
<1>8. SnapshotOK(c) /\ SameOverrides(d, c) /\ SameLogs(d, c)
  BY <1>3, <1>6, <1>7, Zenon DEF SnapshotOK, Snapshot, SameOverrides, SameLogs
<1>9. SameLogs(s, c)
  BY <1>5, <1>6, <1>8 DEF SameLogs
<1>10. /\ c.committed_overlay = overlay
       /\ \A p \in Paths : c.dirty_overlay[p] = NoValue
  BY <1>1, <1>5, <1>6, <1>8 DEF SameOverrides, Cleared, dirty, DirtyPaths
<1>11. \A p \in Paths : CommittedValue(c, p) = EffectiveValue(s, p)
  BY <1>1, <1>4, <1>10, NoValueAssumption
     DEF CommittedValue, EffectiveValue, OverlayEntry, dirty, DirtyPaths
<1>12. \A p \in Paths : EffectiveValue(c, p) = EffectiveValue(s, p)
  BY <1>10, <1>11 DEF EffectiveValue
<1>13. \A p \in Paths \ CommitChanges(s) : EffectiveValue(s, p) = CommittedValue(s, p)
  BY DEF CommitChanges, EffectiveValue, DirtyPaths
<1>14. Accounts(s, c, "Commit", CommitChanges(s), CommittedId(s), CommittedId(c))
  BY <1>11, <1>12, <1>13 DEF Accounts, ConfigDiff, CommittedId, WorkingId
<1>15. Commit(s) = AppendAudit(Emit(c, CommitEvents(s)), "Commit", CommitChanges(s),
                               CommittedId(s), CommittedId(c))
  BY DEF Commit, c
<1>16. /\ CommittedId(s) \in Configurations \cup {NoId} /\ CommittedId(c) \in Configurations \cup {NoId}
       /\ CommitChanges(s) \in SUBSET Paths /\ "Commit" \in AuditKinds
  <2>1. CommittedId(s) \in Configurations /\ CommittedId(c) \in Configurations
    BY <1>1, <1>8, ValuesType DEF SnapshotOK
  <2> QED
    BY <2>1 DEF CommitChanges, DirtyPaths, AuditKinds
<1>17. CommitEvents(s) \in Seq(EventPayload)
  BY <1>1, CommitEventsType
<1> QED
  BY <1>1, <1>8, <1>9, <1>14, <1>15, <1>16, <1>17, OneRecord, Zenon

\* pull_updates: the record starts from the committed configuration, ends at the
\* new one and names the keys the backend sent.
LEMMA PullLogged ==
    ASSUME NEW s, Good(s), NEW r \in PullRequest, r.writes # <<>>
    PROVE  /\ PullEvents(s, r) \in Seq(EventPayload)
           /\ OneLogged(s, PullEvents(s, r), Pull(s, r))
<1> DEFINE ps == PulledPaths(r)
           moved == [s EXCEPT !.committed_overlay = Upstream(s, r), !.sync_state = "Idle"]
           c == PullApplied(s, r)
           kind == IF r.source = "Backend" THEN "SyncApply" ELSE "DirectPush"
<1>1. /\ ps \in SUBSET Paths /\ Good(c) /\ SyncsOnly(s, ps, c)
      /\ s \in Snapshot /\ c \in Snapshot /\ SnapshotOK(s) /\ SnapshotOK(c)
  BY PullAppliedGood DEF Good, SnapshotOK
<1>2. SameLogs(s, c)
  BY <1>1, Zenon DEF PullApplied, ClearDirty, Snapshot, SameLogs
<1>3. Pull(s, r) = AppendAudit(Emit(c, PullEvents(s, r)), kind, ps, CommittedId(s), CommittedId(c))
  BY DEF Pull
<1>4. kind \in AuditKinds /\ kind \in {"Commit", "SyncApply", "DirectPush"}
  BY DEF AuditKinds
<1>5. PullEvents(s, r) \in Seq(EventPayload)
  BY <1>1, PullEventsType
<1> HIDE DEF c, ps, kind
<1>6. /\ CommittedId(s) \in Configurations \cup {NoId} /\ CommittedId(c) \in Configurations \cup {NoId}
  BY <1>1, ValuesType
<1>7. /\ ConfigDiff(CommittedId(s), CommittedId(c)) \subseteq ps
      /\ ConfigDiff(WorkingId(s), WorkingId(c)) \subseteq ps
  BY <1>1, DiffWithin, Zenon DEF SyncsOnly
<1>8. Accounts(s, c, kind, ps, CommittedId(s), CommittedId(c))
  BY <1>4, <1>7 DEF Accounts
<1> QED
  BY <1>1, <1>2, <1>3, <1>4, <1>5, <1>6, <1>8, OneRecord, Zenon

\* Firing the due timers appends their events and their records to the logs.
LEMMA FireLogged ==
    ASSUME NEW s, SnapshotOK(s), NEW t \in Nat, NEW esc
    PROVE  /\ FiringEvents(s, t, esc) \in Seq(EventPayload)
           /\ FiringAudit(s, t, esc) \in Seq(RuntimeAuditEvent)
           /\ Logged(s, FiringEvents(s, t, esc), FiringAudit(s, t, esc), Fire(s, t, esc))
<1> DEFINE ps == Reverted(s, t, esc)
           rest == s.pending \ Due(s, t)
           drained == [s EXCEPT !.pending = rest]
           cleared == ClearDirty(drained, ps)
           changed == Escalate(cleared, Fired(s, t, esc) \cap esc)
           batch == FiringEvents(s, t, esc)
           logged == Emit(changed, batch)
           audit == FiringAudit(s, t, esc)
           log == logged.audit_events \o audit
           next == logged.audit_next_sequence + Len(audit)
           journal == logged.persistence_journal_sequence + Cardinality(ps)
           u == Fire(s, t, esc)
<1>1. s \in Snapshot /\ IsFiniteSet(rest) /\ rest \in SUBSET s.pending
  BY FS_Subset DEF SnapshotOK
<1>2. u = [logged EXCEPT !.audit_events = log, !.audit_next_sequence = next,
                         !.persistence_journal_sequence = journal]
  BY DEF Fire
<1>3. SnapshotOK(drained) /\ SameLogs(s, drained)
  <2> HIDE DEF rest
  <2> QED
    BY <1>1, Zenon DEF SnapshotOK, Snapshot, SameLogs
<1> HIDE DEF drained, rest
<1>4. SnapshotOK(cleared) /\ SameLogs(drained, cleared)
  BY <1>3, ClearDirtyType, ValuesOnly
<1> HIDE DEF cleared
<1>5. SnapshotOK(changed) /\ SameLogs(cleared, changed)
  BY <1>4, EscalateType, ValuesOnly
<1> HIDE DEF changed
<1>6. batch \in Seq(EventPayload)
  BY FiringEventsType
<1>7. /\ audit \in Seq(RuntimeAuditEvent)
      /\ \A i \in 1 .. Len(audit) : audit[i].sequence = s.audit_next_sequence + i - 1
  BY FiringAuditType
<1> HIDE DEF batch, audit
<1>8. Emitted(changed, batch, logged) /\ SameAudit(changed, logged) /\ logged \in Snapshot
  BY <1>5, <1>6, EmitLogs, EmitType DEF SnapshotOK
<1>9. SameLogs(s, changed)
  BY <1>3, <1>4, <1>5 DEF SameLogs
<1> HIDE DEF logged, log, next, journal
<1>10. /\ u.event_bus = logged.event_bus /\ u.audit_events = log
       /\ u.audit_next_sequence = next
       /\ u.audit_uploaded_sequence = logged.audit_uploaded_sequence
  BY <1>2, <1>8, Zenon DEF Snapshot
<1> HIDE DEF u
<1>11. Emitted(s, batch, u)
  BY <1>8, <1>9, <1>10 DEF Emitted, SameLogs
<1>12. log = s.audit_events \o audit /\ next = s.audit_next_sequence + Len(audit)
  BY <1>8, <1>9, Zenon DEF log, next, SameLogs, SameAudit
<1>13. Appended(s, audit, u)
  BY <1>7, <1>10, <1>12, Zenon DEF Appended
<1>14. u.audit_uploaded_sequence = s.audit_uploaded_sequence
  BY <1>8, <1>9, <1>10 DEF SameLogs, SameAudit
<1> QED
  BY <1>6, <1>7, <1>11, <1>13, <1>14 DEF Logged, u, batch, audit

\* The records of the timers lead to the configurations they leave: each one
\* takes back the override of its own path, and the last has seen them all.
LEMMA FireLeads ==
    ASSUME NEW s, SnapshotOK(s), Consistent(s), NEW t \in Nat, NEW esc
    PROVE  Leads(s, FiringAudit(s, t, esc), Fire(s, t, esc))
<1> DEFINE S == {a \in Steps(s, t, esc) : a.step = 1}
           q == InOrder(S)
           gone(i) == RevertedBy(q, i, esc)
           audit == FiringAudit(s, t, esc)
           u == Fire(s, t, esc)
<1>1. IsFiniteSet(S) /\ S \in SUBSET [entry: s.pending, step: {1, 2}]
  BY FiredType, FS_Subset
<1>2. /\ q \in Seq(S) /\ Len(q) \in Nat
      /\ \A a \in S : \E i \in 1 .. Len(q) : q[i] = a
  <2>1. q \in Seq(S) /\ \A a \in S : \E i \in 1 .. Len(q) : q[i] = a
    BY <1>1, InOrderType, Zenon
  <2> HIDE DEF q, S
  <2>2. Len(q) \in Nat
    BY <2>1
  <2> QED
    BY <2>1, <2>2
<1>3. audit = [i \in 1 .. Len(q) |->
                  AuditRecord(ClearDirty(s, gone(i)), s.audit_next_sequence + i - 1,
                              IF q[i].entry \in esc THEN "Escalation" ELSE "Reset",
                              {q[i].entry.path}, NoId, NoId)]
  BY DEF FiringAudit
<1>4. Ended(s, Reverted(s, t, esc), u)
  BY FireType
<1>5. \A i \in 1 .. Len(q) : q[i] \in S
  BY <1>2, ElementOfSeq
<1>6. \A a \in S : a.entry \in Fired(s, t, esc)
  BY DEF Steps
<1>7. \A e \in Fired(s, t, esc) : [entry |-> e, step |-> 1] \in S
  BY DEF Steps
<1>8. gone(Len(q)) = Reverted(s, t, esc)
  <2>1. gone(Len(q)) \subseteq Reverted(s, t, esc)
    <3> HIDE DEF q, S
    <3> QED
      BY <1>5, <1>6, Zenon DEF RevertedBy, Reverted
  <2>2. ASSUME NEW e \in Fired(s, t, esc) \ esc PROVE e.path \in gone(Len(q))
    <3>1. PICK i \in 1 .. Len(q) : q[i] = [entry |-> e, step |-> 1]
      BY <1>2, <1>7
    <3> HIDE DEF q, S
    <3> QED
      BY <3>1 DEF RevertedBy
  <2> QED
    BY <2>1, <2>2 DEF Reverted
<1> HIDE DEF S, q, u
<1>9. ASSUME NEW ps
      PROVE  /\ CommittedId(ClearDirty(s, ps)) = CommittedId(s)
             /\ WorkingId(ClearDirty(s, ps)) = RevertedId(s, ps)
  <2> DEFINE c == ClearDirty(s, ps)
  <2>1. Uncovers(s, ps, c)
    <3>1. Cleared(s, ps, c)
      BY ClearDirtyType, Zenon
    <3> QED
      BY <3>1 DEF Cleared, Uncovers
  <2> HIDE DEF c
  <2>2. CommittedId(c) = CommittedId(s) /\ WorkingId(c) = RevertedId(s, ps)
    BY <2>1, ClearedIds, Zenon
  <2> QED
    BY <2>2 DEF c
<1>10. CommittedId(u) = CommittedId(s) /\ WorkingId(u) = RevertedId(s, Reverted(s, t, esc))
  <2>1. Uncovers(s, Reverted(s, t, esc), u)
    BY <1>4 DEF Ended, Uncovers
  <2> QED
    BY <2>1, ClearedIds, Zenon
<1>11. /\ Len(audit) = Len(q)
       /\ \A i \in 1 .. Len(q) :
             /\ audit[i].committed_id = CommittedId(s) /\ audit[i].working_id = RevertedId(s, gone(i))
             /\ audit[i].changed_paths = {q[i].entry.path}
             /\ audit[i].kind \in {"Escalation", "Reset"}
  <2>1. audit \in Seq(RuntimeAuditEvent)
    BY FiringAuditType
  <2>2. Len(audit) = Len(q)
    BY <1>2, <1>3, <2>1
  <2> HIDE DEF gone
  <2> QED
    BY <1>3, <1>9, <2>2 DEF AuditRecord
<1> HIDE DEF audit
<1>12. ChainsBack(s, q, esc, audit)
  <2>1. audit \in Seq(RuntimeAuditEvent)
    BY FiringAuditType, Zenon DEF audit
  <2> QED
    BY <1>2, <1>11, <2>1, Zenon DEF ChainsBack
<1>13. WorkingId(u) = RevertedId(s, RevertedBy(q, Len(q), esc))
  BY <1>8, <1>10, Zenon
<1> QED
  BY <1>10, <1>12, <1>13, RevertsLead, Zenon DEF u, audit

(***************************************************************************)
(* A step of a session is the work of the due timers, after which the      *)
(* snapshot is begun, and an operation's own work.                         *)
(***************************************************************************)
Begun(s) ==
    LET n == Normalize(snapshot, now)
    IN  s = n \/ \E esc : s = Fire(n, now, esc)

\* Emitting a batch without a value.
LEMMA PlainLogged ==
    ASSUME NEW s, NEW c, SnapshotOK(s), SnapshotOK(c), SameLogs(s, c), SameValues(s, c),
           NEW batch \in PlainBatches
    PROVE  OwnWork(s, Emit(c, batch))
<1>1. s \in Snapshot /\ c \in Snapshot
  BY DEF SnapshotOK
<1> QED
  BY <1>1, PlainWork, Zenon

\* The snapshot an operation starts from.
LEMMA PreparedBegun ==
    ASSUME GoodState, Operable
    PROVE  /\ Begun(Prepared(snapshot, now)) /\ Good(Prepared(snapshot, now))
           /\ Begun(Normalize(snapshot, now)) /\ Good(Normalize(snapshot, now))
<1>1. Good(Prepared(snapshot, now)) /\ Good(Normalize(snapshot, now))
  BY OperationStart
<1>2. Begun(Prepared(snapshot, now)) /\ Begun(Normalize(snapshot, now))
  BY Zenon DEF Prepared, ApplyDueAutoResets, Begun
<1> QED
  BY <1>1, <1>2

\* An accepted pull, with or without writes.
LEMMA PullIsWork ==
    ASSUME NEW s, Good(s), NEW r \in PullRequest, PullAccepted(s, r)
    PROVE  OwnWork(s, Pull(s, r))
<1>1. CASE r.writes # <<>>
  BY <1>1, Zenon DEF OwnWork
<1>2. CASE r.writes = <<>>
  <2> DEFINE c == PullApplied(s, r)
  <2>1. SnapshotOK(s) /\ s \in Snapshot
    BY DEF Good, SnapshotOK
  <2>2. Pull(s, r) = Emit(c, <<SyncEvent, SyncEvent>>)
    BY <1>2 DEF Pull
  <2>3. Good(c) /\ SyncsOnly(s, PulledPaths(r), c)
    BY PullAppliedGood
  <2>4. PulledPaths(r) = {}
    BY <1>2 DEF PulledPaths
  <2>5. SameValues(s, c)
    <3> HIDE DEF c
    <3> QED
      BY <2>3, <2>4 DEF SameValues, SyncsOnly
  <2>6. SameLogs(s, c)
    BY <2>1, Zenon DEF PullApplied, ClearDirty, Snapshot, SameLogs
  <2> HIDE DEF c
  <2>7. <<SyncEvent, SyncEvent>> \in PlainBatches /\ SnapshotOK(c)
    BY <2>3 DEF PlainBatches, Good
  <2> QED
    BY <2>1, <2>2, <2>5, <2>6, <2>7, PlainLogged, Zenon
<1> QED
  BY <1>1, <1>2

\* Every step is of this shape, except a tick and an upload.
LEMMA Operations ==
    ASSUME GoodState, [Next]_vars
    PROVE  \/ snapshot' = snapshot
           \/ PushAuditEvents
           \/ \E s : Begun(s) /\ Good(s) /\ OwnWork(s, snapshot')
<1> DEFINE s == Prepared(snapshot, now)
<1>1. ASSUME Operable PROVE Begun(s) /\ Good(s) /\ s \in Snapshot
  BY <1>1, PreparedBegun DEF Good, SnapshotOK
<1>2. \/ snapshot' = snapshot
      \/ PushAuditEvents
      \/ DriveOverrideLifecycle
      \/ Operable /\ OwnWork(s, snapshot')
      \/ Operable /\ \E r \in PullRequest : PullAccepted(s, r) /\ snapshot' = Pull(s, r)
  BY <1>1, StepsAreWork, Zenon
<1> HIDE DEF s
<1>3. CASE Operable /\ \E r \in PullRequest : PullAccepted(s, r) /\ snapshot' = Pull(s, r)
  BY <1>1, <1>3, PullIsWork, Zenon
<1>4. CASE DriveOverrideLifecycle
  <2> DEFINE n == Normalize(snapshot, now)
             esc == {e \in n.pending : Escalates(n, e)}
  <2>1. snapshot' = n \/ snapshot' = Fire(n, now, esc)
    BY <1>4 DEF DriveOverrideLifecycle, Driven
  <2>2. Begun(snapshot')
    BY <2>1, Zenon DEF Begun
  <2>3. Good(snapshot')
    BY <1>4, DriveGood
  <2>4. OwnWork(snapshot', snapshot')
    BY DEF OwnWork, SameLogs, SameValues
  <2> QED
    BY <2>2, <2>3, <2>4, Zenon
<1> QED
  BY <1>1, <1>2, <1>3, <1>4, Zenon

(***************************************************************************)
(* The invariants of the logs.                                             *)
(***************************************************************************)
\* Normalising and firing the due timers keeps the logs good.
LEMMA StartLogs ==
    ASSUME NEW x, SnapshotOK(x), TimersBelong(x), NEW t \in Nat,
           \A p \in Paths \ DirtyPaths(x) : x.dirty_generations[p] = 0, LogsGood(x), NEW esc
    PROVE  /\ LogsGood(Normalize(x, t)) /\ LogsGrow(x, Normalize(x, t))
           /\ LogsGood(Fire(Normalize(x, t), t, esc)) /\ LogsGrow(x, Fire(Normalize(x, t), t, esc))
<1> DEFINE n == Normalize(x, t)
           f == Fire(n, t, esc)
<1>1. SnapshotOK(n) /\ Normalized(x, t, n) /\ SameLogs(x, n)
  BY NormalizeType, ValuesOnly
<1>2. Consistent(n)
  BY <1>1, NormalizeConsistent
<1> HIDE DEF n
<1>3. SameValues(x, n)
  BY <1>1 DEF SameValues, Normalized
<1>4. LogsGood(n) /\ LogsGrow(x, n)
  BY <1>1, <1>3, QuietGoodLogs DEF SnapshotOK
<1>5. SnapshotOK(f)
  BY <1>1, <1>2, FireType
<1>6. /\ FiringEvents(n, t, esc) \in Seq(EventPayload)
      /\ FiringAudit(n, t, esc) \in Seq(RuntimeAuditEvent)
      /\ Logged(n, FiringEvents(n, t, esc), FiringAudit(n, t, esc), f)
      /\ Leads(n, FiringAudit(n, t, esc), f)
  BY <1>1, <1>2, FireLogged, FireLeads, Zenon
<1> HIDE DEF f
<1>7. LogsGood(f) /\ LogsGrow(n, f)
  BY <1>1, <1>4, <1>5, <1>6, LoggedGoodLogs, Zenon DEF SnapshotOK
<1>8. LogsGrow(x, f)
  BY <1>1, <1>4, <1>5, <1>7, GrowthTransitive, Zenon DEF SnapshotOK, LogsGrow, LogsGood
<1> QED
  BY <1>4, <1>7, <1>8 DEF n, f

\* The own work of an operation keeps the logs good.
LEMMA WorkLogs ==
    ASSUME NEW s, Good(s), LogsGood(s), NEW u, SnapshotOK(u), OwnWork(s, u), now \in Nat
    PROVE  LogsGood(u) /\ LogsGrow(s, u)
<1>1. SnapshotOK(s)
  BY DEF Good
<1>2. CASE SameLogs(s, u) /\ SameValues(s, u)
  BY <1>1, <1>2, QuietGoodLogs DEF SnapshotOK
<1>3. CASE \E batch \in PlainBatches : Logged(s, batch, <<>>, u) /\ SameValues(s, u)
  <2>1. PICK batch \in PlainBatches : Logged(s, batch, <<>>, u)
    BY <1>3
  <2>2. batch \in Seq(EventPayload) /\ <<>> \in Seq(RuntimeAuditEvent)
    BY PlainType
  <2>3. Leads(s, <<>>, u)
    BY <1>3, QuietLeads, Zenon
  <2> QED
    BY <1>1, <2>1, <2>2, <2>3, LoggedGoodLogs, Zenon DEF SnapshotOK
<1>4. ASSUME NEW batch \in Seq(EventPayload), OneLogged(s, batch, u)
      PROVE  LogsGood(u) /\ LogsGrow(s, u)
  <2>1. PICK r \in RuntimeAuditEvent : Logged(s, batch, <<r>>, u) /\ Leads(s, <<r>>, u)
    BY <1>4 DEF OneLogged
  <2>2. <<r>> \in Seq(RuntimeAuditEvent)
    OBVIOUS
  <2> QED
    BY <1>1, <2>1, <2>2, LoggedGoodLogs, Zenon DEF SnapshotOK
<1>5. CASE \E w \in Seq(Writes), intent \in Intents : u = Write(s, w, intent)
  BY <1>4, <1>5, WriteLogged, Zenon
<1>6. CASE \E ps \in SUBSET DirtyPaths(s) : ps # {} /\ u = Rollback(s, ps)
  BY <1>4, <1>6, RollbackLogged, Zenon
<1>7. CASE u = Commit(s)
  BY <1>4, <1>7, CommitLogged, Zenon
<1>8. CASE \E r \in PullRequest : PullAccepted(s, r) /\ r.writes # <<>> /\ u = Pull(s, r)
  BY <1>4, <1>8, PullLogged, Zenon
<1> QED
  BY <1>2, <1>3, <1>5, <1>6, <1>7, <1>8, Zenon DEF OwnWork

\* An upload moves the cursor forward and not past the log.
LEMMA PushLogs ==
    ASSUME GoodState, LogsGood(snapshot), PushAuditEvents
    PROVE  LogsGood(snapshot') /\ LogsGrow(snapshot, snapshot')
<1> DEFINE s == Normalize(snapshot, now)
<1>1. /\ SnapshotOK(snapshot) /\ now \in Nat /\ TimersBelong(snapshot)
      /\ \A p \in Paths \ DirtyPaths(snapshot) : snapshot.dirty_generations[p] = 0
  BY DEF GoodState, Good, Consistent, MapsAgree
<1>2. LogsGood(s) /\ LogsGrow(snapshot, s)
  BY <1>1, StartLogs, Zenon
<1>3. SnapshotOK(s)
  BY <1>1, NormalizeType
<1>4. PICK connected \in BOOLEAN, max_events \in 1 .. MaxAudit :
         snapshot' = [s EXCEPT !.audit_uploaded_sequence =
                         IF connected THEN Pushed(s, max_events) ELSE @]
  BY DEF PushAuditEvents, Return
<1> DEFINE cursor == IF connected THEN Pushed(s, max_events) ELSE s.audit_uploaded_sequence
<1>5. snapshot' = [s EXCEPT !.audit_uploaded_sequence = cursor]
  BY <1>4
<1> HIDE DEF s
<1>6. cursor \in s.audit_uploaded_sequence .. Len(s.audit_events)
  <2>1. /\ s.audit_uploaded_sequence \in Nat /\ Len(s.audit_events) \in Nat /\ max_events \in Nat
        /\ s.audit_uploaded_sequence <= Len(s.audit_events)
    BY <1>2, <1>3, LogTypes, BoundsAssumption DEF SnapshotOK, LogsGood, LogsOrdered
  <2> QED
    BY <2>1 DEF Pushed
<1> HIDE DEF cursor
<1>7. /\ snapshot'.event_bus = s.event_bus /\ snapshot'.audit_events = s.audit_events
      /\ snapshot'.audit_next_sequence = s.audit_next_sequence
      /\ snapshot'.audit_uploaded_sequence = cursor
      /\ SameValues(s, snapshot')
  BY <1>3, <1>5, Zenon DEF SnapshotOK, Snapshot, SameValues
<1>8. LogsGood(snapshot') /\ LogsGrow(s, snapshot')
  BY <1>2, <1>3, <1>6, <1>7, CursorMoves, Zenon DEF SnapshotOK
<1>9. SnapshotOK(snapshot')
  BY PushGood DEF Good
<1>10. LogsGrow(snapshot, snapshot')
  BY <1>1, <1>2, <1>3, <1>8, <1>9, GrowthTransitive, Zenon DEF SnapshotOK, LogsGrow, LogsGood
<1> QED
  BY <1>8, <1>10

\* A session opened with such a snapshot has good logs.
LEMMA OpenLogs ==
    ASSUME NEW x, Fresh(x), NEW t \in Nat \ {0}, Good(Prepared(x, t)), now \in Nat
    PROVE  Good(RuntimeOpen(x, t)) /\ LogsGood(RuntimeOpen(x, t))
<1> DEFINE s == Prepared(x, t)
           b == <<Event("RuntimeOpened", {})>>
           u == RuntimeOpen(x, t)
<1>1. LogsGood(x)
  BY EmptyLogs, Zenon DEF Fresh
<1>2. t \in Nat
  OBVIOUS
<1>3. LogsGood(s)
  <2>1. LogsGood(Normalize(x, t)) /\ LogsGood(Fire(Normalize(x, t), t, {}))
    BY <1>1, <1>2, StartLogs, Zenon DEF Fresh
  <2> QED
    BY <2>1, Zenon DEF Prepared, ApplyDueAutoResets
<1>4. u = Emit(s, b) /\ b \in PlainBatches /\ Good(s)
  BY DEF RuntimeOpen, PlainBatches
<1> HIDE DEF s, b, u
<1>5. b \in Seq(EventPayload)
  BY <1>4, PlainType
<1>6. Good(u) /\ SnapshotOK(u)
  <2>1. "Write" \in AuditKinds /\ {} \in SUBSET Paths
    BY DEF AuditKinds
  <2> QED
    BY <1>4, <1>5, <2>1, LoggedGood, Zenon DEF Good
<1>7. SameLogs(s, s) /\ SameValues(s, s)
  BY DEF SameLogs, SameValues
<1>8. OwnWork(s, u)
  BY <1>4, <1>7, PlainLogged, Zenon DEF Good
<1> QED
  BY <1>3, <1>4, <1>6, <1>8, WorkLogs, Zenon DEF u

\* Opening a session with an overlay that was kept without its metadata.
LEMMA RestoredLogs ==
    ASSUME NEW overlay \in PersistedOverlays, NEW policy \in Policies, NEW t \in Nat \ {0}, now \in Nat,
           NEW x, x = Persisted(overlay, [p \in Paths |-> NoMetadata], policy)
    PROVE  Good(RuntimeOpen(x, t)) /\ LogsGood(RuntimeOpen(x, t))
<1>1. Fresh(x) /\ Good(Prepared(x, t))
  BY RestoredGood, Zenon
<1> QED
  BY <1>1, OpenLogs, Zenon

\* A new session has good logs.
LEMMA InitLogs ==
    ASSUME Init
    PROVE  LogsGood(snapshot)
<1>1. PICK x : Fresh(x) /\ snapshot = RuntimeOpen(x, 1) /\ Good(Prepared(x, 1))
  BY InitFresh
<1>2. 1 \in Nat \ {0} /\ now \in Nat
  BY DEF Init
<1> QED
  BY <1>1, <1>2, OpenLogs, Zenon

\* The start of an operation keeps the logs good.
LEMMA BegunLogs ==
    ASSUME GoodState, LogsGood(snapshot), NEW s, Begun(s)
    PROVE  LogsGood(s) /\ LogsGrow(snapshot, s)
<1>1. /\ SnapshotOK(snapshot) /\ now \in Nat /\ TimersBelong(snapshot)
      /\ \A p \in Paths \ DirtyPaths(snapshot) : snapshot.dirty_generations[p] = 0
  BY DEF GoodState, Good, Consistent, MapsAgree
<1> QED
  BY <1>1, StartLogs, Zenon DEF Begun

\* Every step keeps the logs good, and they grow.
LEMMA NextLogs ==
    ASSUME GoodState, LogsGood(snapshot), [Next]_vars
    PROVE  LogsGood(snapshot') /\ LogsGrow(snapshot, snapshot')
<1>1. SnapshotOK(snapshot) /\ SnapshotOK(snapshot') /\ now \in Nat
  BY NextGood DEF GoodState, Good
<1>2. CASE snapshot' = snapshot
  BY <1>1, <1>2, QuietGoodLogs, Zenon DEF SnapshotOK, SameLogs, SameValues
<1>3. CASE PushAuditEvents
  BY <1>3, PushLogs
<1>4. CASE \E s : Begun(s) /\ Good(s) /\ OwnWork(s, snapshot')
  <2>1. PICK s : Begun(s) /\ Good(s) /\ OwnWork(s, snapshot')
    BY <1>4
  <2>2. LogsGood(s) /\ LogsGrow(snapshot, s)
    BY <2>1, BegunLogs
  <2>3. LogsGood(snapshot') /\ LogsGrow(s, snapshot')
    BY <1>1, <2>1, <2>2, WorkLogs
  <2> QED
    BY <1>1, <2>1, <2>2, <2>3, GrowthTransitive DEF SnapshotOK, LogsGrow, LogsGood, Good
<1> QED
  BY <1>2, <1>3, <1>4, Operations

(***************************************************************************)
(* The upload cursor, which only push_audit_events moves.                  *)
(***************************************************************************)
\* Normalising and firing the due timers leave the cursor.
LEMMA StartCursor ==
    ASSUME NEW x, SnapshotOK(x), NEW t \in Nat, NEW esc
    PROVE  /\ Normalize(x, t).audit_uploaded_sequence = x.audit_uploaded_sequence
           /\ Fire(Normalize(x, t), t, esc).audit_uploaded_sequence = x.audit_uploaded_sequence
<1> DEFINE n == Normalize(x, t)
<1>1. SnapshotOK(n) /\ SameLogs(x, n)
  BY NormalizeType, ValuesOnly
<1> HIDE DEF n
<1>2. Logged(n, FiringEvents(n, t, esc), FiringAudit(n, t, esc), Fire(n, t, esc))
  BY <1>1, FireLogged, Zenon
<1> QED
  BY <1>1, <1>2, Zenon DEF Logged, SameLogs, n

\* So does the own work of an operation.
LEMMA WorkCursor ==
    ASSUME NEW s, Good(s), NEW u, OwnWork(s, u), now \in Nat
    PROVE  u.audit_uploaded_sequence = s.audit_uploaded_sequence
<1>1. CASE SameLogs(s, u)
  BY <1>1 DEF SameLogs
<1>2. CASE \E batch \in PlainBatches : Logged(s, batch, <<>>, u)
  BY <1>2, Zenon DEF Logged
<1>3. CASE \E batch : OneLogged(s, batch, u)
  BY <1>3, Zenon DEF OneLogged, Logged
<1>4. CASE \E w \in Seq(Writes), intent \in Intents : u = Write(s, w, intent)
  BY <1>3, <1>4, WriteLogged, Zenon
<1>5. CASE \E ps \in SUBSET DirtyPaths(s) : ps # {} /\ u = Rollback(s, ps)
  BY <1>3, <1>5, RollbackLogged, Zenon
<1>6. CASE u = Commit(s)
  BY <1>3, <1>6, CommitLogged, Zenon
<1>7. CASE \E r \in PullRequest : PullAccepted(s, r) /\ r.writes # <<>> /\ u = Pull(s, r)
  BY <1>3, <1>7, PullLogged, Zenon
<1> QED
  BY <1>1, <1>2, <1>4, <1>5, <1>6, <1>7, Zenon DEF OwnWork

\* A session starts with nothing uploaded.
LEMMA InitCursor ==
    ASSUME Init
    PROVE  snapshot.audit_uploaded_sequence = 0
<1>1. PICK x : Fresh(x) /\ snapshot = RuntimeOpen(x, 1) /\ Good(Prepared(x, 1))
  BY InitFresh
<1> DEFINE s == Prepared(x, 1)
           b == <<Event("RuntimeOpened", {})>>
<1>2. 1 \in Nat /\ now \in Nat
  BY DEF Init
<1>3. s.audit_uploaded_sequence = 0
  <2>1. SnapshotOK(x)
    BY <1>1, Zenon DEF Fresh
  <2>2. \A t \in Nat : s = Prepared(x, t) => s.audit_uploaded_sequence = x.audit_uploaded_sequence
    BY <2>1, StartCursor, Zenon DEF Prepared, ApplyDueAutoResets
  <2>3. x.audit_uploaded_sequence = 0
    BY <1>1, Zenon DEF Fresh
  <2> QED
    BY <1>2, <2>2, <2>3, Zenon
<1>4. snapshot = Emit(s, b) /\ b \in PlainBatches /\ Good(s)
  BY <1>1, Zenon DEF RuntimeOpen, PlainBatches
<1> HIDE DEF s, b
<1>5. SameLogs(s, s) /\ SameValues(s, s) /\ SnapshotOK(s)
  BY <1>4 DEF SameLogs, SameValues, Good
<1>6. OwnWork(s, snapshot)
  BY <1>4, <1>5, PlainLogged, Zenon
<1> QED
  BY <1>2, <1>3, <1>4, <1>6, WorkCursor, Zenon

\* Writing a parameter leaves the cursor, whatever timers it fires.
LEMMA WriteCursor ==
    ASSUME GoodState, SetParameter
    PROVE  snapshot'.audit_uploaded_sequence = snapshot.audit_uploaded_sequence
<1> DEFINE s == Prepared(snapshot, now)
<1>1. Operable /\ now \in Nat /\ SnapshotOK(snapshot)
  BY DEF SetParameter, GoodState, Good
<1>2. PICK x \in Writes, intent \in Intents : snapshot' = Write(s, <<x>>, intent)
  BY Zenon DEF SetParameter, Return
<1>3. <<x>> \in Seq(Writes)
  OBVIOUS
<1>4. Good(s)
  BY <1>1, PreparedBegun
<1>5. s.audit_uploaded_sequence = snapshot.audit_uploaded_sequence
  BY <1>1, StartCursor, Zenon DEF Prepared, ApplyDueAutoResets
<1> HIDE DEF s
<1>6. OwnWork(s, snapshot')
  BY <1>2, <1>3, Zenon DEF OwnWork
<1> QED
  BY <1>1, <1>4, <1>5, <1>6, WorkCursor, Zenon

(***************************************************************************)
(* The theorems.                                                           *)
(***************************************************************************)
\* The logs are good in every state, and every step makes them grow.
THEOREM LogsAlwaysGood ==
    Spec => [](GoodState /\ LogsGood(snapshot)) /\ [][LogsGrow(snapshot, snapshot')]_vars
<1> DEFINE I == GoodState /\ LogsGood(snapshot)
<1>1. Init => I
  BY InitGood, InitLogs
<1>2. I /\ [Next]_vars => I'
  BY NextGood, NextLogs
<1>3. I /\ [Next]_vars => [LogsGrow(snapshot, snapshot')]_vars
  BY NextLogs
<1> QED
  BY <1>1, <1>2, <1>3, PTL DEF Spec

\* The event buffer and the audit log are gap-free and in order, no event leaves
\* the buffer uncounted and the upload cursor stays within the log
\* (LogsInOrder), for every capacity and any number of paths.
THEOREM LogsAlwaysInOrder == Spec => []LogsInOrder
<1>1. LogsGood(snapshot) => LogsInOrder
  BY DEF LogsGood, LogsOrdered, LogsInOrder
<1> QED
  BY <1>1, LogsAlwaysGood, PTL

\* A sequence number names one event for ever, the audit log keeps its records
\* and the upload cursor never moves back (LogsOnlyGrow), whatever overflows.
THEOREM LogsNeverShrink == Spec => LogsOnlyGrow
<1> DEFINE A == LET old == snapshot.event_bus
                    new == snapshot'.event_bus
                IN  /\ \A i \in 1 .. Len(old.events), j \in 1 .. Len(new.events) :
                         old.events[i].sequence = new.events[j].sequence
                            => old.events[i] = new.events[j]
                    /\ new.next_sequence >= old.next_sequence
                    /\ SubSeq(snapshot'.audit_events, 1, Len(snapshot.audit_events))
                         = snapshot.audit_events
                    /\ snapshot'.audit_uploaded_sequence >= snapshot.audit_uploaded_sequence
<1>1. ASSUME GoodState, GoodState', LogsGrow(snapshot, snapshot') PROVE A
  <2> DEFINE a == snapshot.audit_events
             b == snapshot'.audit_events
  <2>1. /\ a \in Seq(RuntimeAuditEvent) /\ b \in Seq(RuntimeAuditEvent)
        /\ Len(a) <= Len(b) /\ \A i \in 1 .. Len(a) : b[i] = a[i]
    BY <1>1, LogTypes, Zenon DEF SnapshotOK, GoodState, Good, LogsGrow, AuditGrows
  <2> HIDE DEF a, b
  <2>2. SubSeq(b, 1, Len(a)) = a
    <3>0. Len(a) \in Nat /\ Len(b) \in Nat /\ Len(a) <= Len(b)
      BY <2>1
    <3>1. Len(a) \in 0 .. Len(b) /\ 1 \in 1 .. Len(b) + 1
      BY <3>0
    <3>2. SubSeq(b, 1, Len(a)) \in Seq(RuntimeAuditEvent) /\ Len(SubSeq(b, 1, Len(a))) = Len(a)
      BY <2>1, <3>1
    <3>3. \A i \in 1 .. Len(a) : SubSeq(b, 1, Len(a))[i] = a[i]
      BY <2>1, <3>1
    <3> QED
      BY <2>1, <3>2, <3>3
  <2> QED
    BY <1>1, <2>2, Zenon DEF LogsGrow, EventsGrow, AuditGrows, a, b
<1>2. ASSUME GoodState, GoodState', [LogsGrow(snapshot, snapshot')]_vars PROVE [A]_vars
  BY <1>1, <1>2, Zenon
<1>3. [][A]_vars => LogsOnlyGrow
  BY DEF LogsOnlyGrow
<1> HIDE DEF A
<1> QED
  BY <1>2, <1>3, LogsAlwaysGood, PTL

\* The newest audit record names the committed and the working configuration of
\* the session (AuditHeadIsCurrent): timers, restarts and syncs included, no
\* step changes either without a record.
THEOREM AuditHeadAlwaysCurrent == Spec => []AuditHeadIsCurrent
<1>1. LogsGood(snapshot) => AuditHeadIsCurrent
  BY DEF LogsGood, AuditGood, HeadCurrent, Names, AuditHeadIsCurrent
<1> QED
  BY <1>1, LogsAlwaysGood, PTL

\* The audit log is a chain from the baseline: each record starts from the
\* configuration the one before it names and lists the paths that differ
\* (AuditRecordsChain).
THEOREM AuditAlwaysChained == Spec => []AuditRecordsChain
<1>1. GoodState /\ LogsGood(snapshot) => AuditRecordsChain
  <2> SUFFICES ASSUME GoodState, LogsGood(snapshot) PROVE AuditRecordsChain
    OBVIOUS
  <2> DEFINE log == snapshot.audit_events
             before(i) == IF i = 1 THEN Baseline ELSE log[i - 1].committed_id
  <2>1. ChainedFrom(Baseline, log)
    BY DEF LogsGood, AuditGood
  <2>2. ASSUME NEW i \in 1 .. Len(log)
        PROVE  /\ Follows(before(i), log[i])
               /\ i > 1 => WorkFollows(log[i - 1].working_id, log[i])
    <3>1. i = 1 \/ i # 1
      OBVIOUS
    <3>2. i # 1 => i > 1
      OBVIOUS
    <3> QED
      BY <2>1, <3>1, <3>2, Zenon DEF ChainedFrom
  <2> QED
    BY <2>2, Zenon DEF Follows, WorkFollows, AuditRecordsChain
<1> QED
  BY <1>1, LogsAlwaysGood, PTL
=============================================================================
