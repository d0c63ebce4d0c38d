--------------------------- MODULE Ros2NodeProofs ----------------------------
(***************************************************************************)
(* The node parameters of the ROS 2 node against the session behind them,  *)
(* for any parameters, buffer capacity, other clients and goals.           *)
(*                                                                         *)
(* The node keeps values and does not hear of their changes.  What it      *)
(* keeps is what the session said at an event number (Seen), and what the  *)
(* session does afterwards leaves that explained: its events about the     *)
(* path, or the count of events it has dropped.  OnConfigure reads the     *)
(* values one by one, so the same is needed of the values read so far.     *)
(*                                                                         *)
(* The last parts join the session to the uploader of its audit log and to *)
(* the poller of its events.                                               *)
(***************************************************************************)
EXTENDS EdgeProofs, RuntimeEventProofs

\* Seen in terms of what the buffer explains.
LEMMA SeenExplained ==
    ASSUME NEW u, NEW p, NEW v, NEW at
    PROVE  Seen(u, p, v, at) <=> /\ at \in Nat /\ at <= u.event_bus.next_sequence
                                 /\ Explains(u, p, v, at)
BY DEF Seen, Explains, ValueAt, IsValue, Payload

\* The session behind the node.
SessionInv == GoodState /\ LogsGood(snapshot)

\* A step of the session that explains its changes.
LEMMA ExplainedStays ==
    ASSUME SessionInv, SessionInv', LogsGrow(snapshot, snapshot'),
           \A p \in Paths : Explains(snapshot', p, EffectiveValue(snapshot, p),
                                     snapshot.event_bus.next_sequence)
    PROVE  StaysSeen
<1>1. /\ snapshot \in Snapshot /\ snapshot' \in Snapshot
      /\ LogsOrdered(snapshot) /\ LogsOrdered(snapshot') /\ EventsGrow(snapshot, snapshot')
  BY DEF SessionInv, GoodState, Good, SnapshotOK, LogsGood, LogsGrow
<1>2. /\ snapshot.event_bus.next_sequence \in Nat /\ snapshot'.event_bus.next_sequence \in Nat
      /\ snapshot'.event_bus.next_sequence >= snapshot.event_bus.next_sequence
  BY <1>1, LogTypes DEF EventsGrow
<1>3. ASSUME NEW p \in Paths, NEW v, NEW at, Seen(snapshot, p, v, at)
      PROVE  Seen(snapshot', p, v, at)
  <2>1. /\ at \in Nat /\ at <= snapshot.event_bus.next_sequence /\ Explains(snapshot, p, v, at)
    BY <1>3, SeenExplained
  <2>2. Explains(snapshot', p, v, at)
    BY <1>1, <2>1, StillExplains, Zenon
  <2> QED
    BY <1>2, <2>1, <2>2, SeenExplained
<1> QED
  BY <1>3, Zenon DEF StaysSeen

\* The session's own steps are such steps.
LEMMA SessionStays ==
    ASSUME SessionInv, [Next]_vars
    PROVE  SessionInv' /\ StaysSeen
<1>1. SessionInv' /\ LogsGrow(snapshot, snapshot')
  BY NextGood, NextLogs DEF SessionInv
<1>2. \A p \in Paths : Explains(snapshot', p, EffectiveValue(snapshot, p),
                                snapshot.event_bus.next_sequence)
  BY NextExplains DEF SessionInv
<1> QED
  BY <1>1, <1>2, ExplainedStays

\* The invariant of the session, from that of its snapshot.
LEMMA GoodStateAfter ==
    ASSUME Good(snapshot'), now' \in Nat \ {0}
    PROVE  GoodState'
BY DEF GoodState, Good, SnapshotOK, Consistent, MapsAgree, TimersBelong, Sound, DirtyPaths,
       MetadataValid

\* And so is a call of the node, with arguments of its own.
LEMMA CallStays ==
    ASSUME SessionInv, NEW s, Begun(s), Good(s), OwnWork(s, snapshot'), Good(snapshot'), now' = now
    PROVE  SessionInv' /\ StaysSeen
<1>1. GoodState /\ LogsGood(snapshot) /\ SnapshotOK(snapshot') /\ now \in Nat \ {0} /\ now \in Nat
  BY DEF SessionInv, GoodState, Good
<1>2. GoodState'
  BY <1>1, GoodStateAfter
<1>3. LogsGood(s) /\ LogsGrow(snapshot, s)
  BY <1>1, BegunLogs
<1>4. LogsGood(snapshot') /\ LogsGrow(s, snapshot')
  BY <1>1, <1>3, WorkLogs
<1>5. LogsGrow(snapshot, snapshot')
  BY <1>1, <1>3, <1>4, GrowthTransitive DEF SnapshotOK, LogsGrow, LogsGood, Good, GoodState
<1>6. \A p \in Paths : Explains(snapshot', p, EffectiveValue(snapshot, p),
                                snapshot.event_bus.next_sequence)
  BY <1>1, OperationExplains
<1> QED
  BY <1>2, <1>4, <1>5, <1>6, ExplainedStays DEF SessionInv

NodeSeen == SessionInv /\ MirrorInv /\ ReadingInv

\* A write of node parameters the runtime took, or the node kept to itself.
LEMMA SetKeeps ==
    ASSUME NodeSeen, SetNodeParameters
    PROVE  NodeSeen'
<1>1. PICK w \in NodeWrites : OnSetParameters(w) \/ NoCallback(w)
  BY Zenon DEF SetNodeParameters
<1>2. reading' = reading
  BY Zenon DEF SetNodeParameters
<1>3. CASE NoCallback(w)
  <2>1. [Next]_vars /\ mirror' = Stored(w) /\ synced' = Synced(w, Unknown)
    BY <1>3 DEF NoCallback, vars
  <2>2. SessionInv' /\ StaysSeen
    BY <2>1, SessionStays DEF NodeSeen
  <2> QED
    BY <1>2, <2>1, <2>2, StayKeeps, StoredKeeps, Zenon DEF NodeSeen
<1>4. CASE OnSetParameters(w)
  <2> DEFINE s == Prepared(snapshot, now)
             at == snapshot'.event_bus.next_sequence
  <2>1. /\ Operable /\ \A i \in 1 .. Len(w) : w[i].path \in RuntimePaths
        /\ snapshot' = Write(s, w, "Experimental") /\ now' = now
        /\ mirror' = Stored(w) /\ synced' = Synced(w, at)
    BY <1>4, Zenon DEF OnSetParameters, RuntimeTakes, Serves, Return
  <2>2. w \in Seq(Writes)
    BY <2>1, NodeWritesAssumption, TakenWrites, Zenon
  <2>3. Begun(s) /\ Good(s) /\ now \in Nat \ {0}
    BY <2>1, PreparedBegun DEF NodeSeen, SessionInv, GoodState
  <2>4. "Experimental" \in Intents
    BY DEF Intents
  <2> HIDE DEF s
  <2>5. Good(snapshot') /\ OwnWork(s, snapshot')
    BY <2>1, <2>2, <2>3, <2>4, WriteGood, Zenon DEF OwnWork
  <2>6. SessionInv' /\ StaysSeen
    BY <2>1, <2>3, <2>5, CallStays DEF NodeSeen
  <2>7. ASSUME NEW p \in Paths, WritesTo(w, p) # {}
        PROVE  Seen(snapshot', p, w[LastWriteTo(w, p)].value, at)
    <3>1. EffectiveValue(snapshot', p) = w[LastWriteTo(w, p)].value
      BY <2>1, <2>2, <2>3, <2>4, <2>7, WriteEffective, Zenon
    <3>2. at \in Nat
      BY <2>5, LogTypes DEF Good, SnapshotOK
    <3> QED
      BY <3>1, <3>2 DEF Seen
  <2> HIDE DEF at
  <2> QED
    BY <1>2, <2>1, <2>6, <2>7, StayKeeps, StoredKeeps, Zenon DEF NodeSeen
<1> QED
  BY <1>1, <1>3, <1>4

\* The call of a pull goal: a pull, or nothing.
LEMMA PullKeeps ==
    ASSUME NodeSeen, NEW g \in Goals, GoalInv(goals[g]), PullUpdatesAction(g)
    PROVE  NodeSeen'
<1> DEFINE s == Prepared(snapshot, now)
           r == goals[g].request
<1>1. goals[g].pc = "calling"
  BY Zenon DEF PullUpdatesAction
<1>2. r \in PullRequest
  BY <1>1, PullAssumption DEF GoalInv, GoalType
<1>3. UNCHANGED <<mirror, synced, reading>>
  BY Zenon DEF PullUpdatesAction, Step, executor_vars
<1>4. \/ UNCHANGED <<snapshot, now>>
      \/ Operable /\ PullAccepted(s, r) /\ snapshot' = Pull(s, r) /\ now' = now
  BY Zenon DEF PullUpdatesAction, Serves, Return
<1>5. CASE UNCHANGED <<snapshot, now>>
  <2>1. [Next]_vars
    BY <1>5 DEF vars
  <2> QED
    BY <1>3, <2>1, SessionStays, StayKeeps DEF NodeSeen
<1>6. CASE Operable /\ PullAccepted(s, r) /\ snapshot' = Pull(s, r) /\ now' = now
  <2>1. Begun(s) /\ Good(s)
    BY <1>6, PreparedBegun DEF NodeSeen, SessionInv
  <2> HIDE DEF s, r
  <2>2. Good(snapshot') /\ OwnWork(s, snapshot')
    BY <1>2, <1>6, <2>1, PullGood, PullIsWork
  <2> QED
    BY <1>3, <1>6, <2>1, <2>2, CallStays, StayKeeps DEF NodeSeen
<1> QED
  BY <1>4, <1>5, <1>6

\* The session opened anew is good, and nothing is known of it.
LEMMA RestartKeeps ==
    ASSUME NodeSeen, RestartRuntime
    PROVE  NodeSeen'
<1>1. now' = now /\ now \in Nat \ {0} /\ now \in Nat
  BY DEF RestartRuntime, NodeSeen, SessionInv, GoodState
<1>2. PICK overlay \in PersistedOverlays, policy \in Policies :
         snapshot' = RuntimeOpen(Persisted(overlay, [p \in Paths |-> NoMetadata], policy), now)
  BY Zenon DEF RestartRuntime
<1>3. Good(snapshot') /\ LogsGood(snapshot')
  BY <1>1, <1>2, RestoredLogs
<1>4. GoodState'
  BY <1>1, <1>3, GoodStateAfter
<1> QED
  BY <1>3, <1>4, ConfigureKeeps DEF NodeSeen, SessionInv

\* Every step of the node.
LEMMA NodeStepKeeps ==
    ASSUME NodeSeen, GoalsInv, RosNext
    PROVE  NodeSeen'
<1>1. ASSUME UNCHANGED <<snapshot, now, mirror, synced, reading>> PROVE NodeSeen'
  <2>1. [Next]_vars
    BY <1>1 DEF vars
  <2> QED
    BY <1>1, <2>1, SessionStays, StayKeeps DEF NodeSeen
<1>2. ASSUME Next, UNCHANGED ros_vars PROVE NodeSeen'
  <2>1. [Next]_vars /\ UNCHANGED <<mirror, synced, reading>>
    BY <1>2 DEF ros_vars
  <2> QED
    BY <2>1, SessionStays, StayKeeps DEF NodeSeen
<1>3. CASE ListRuntimeParameterNames \/ FetchParameterByRuntimePath \/ OnConfigure
  <2>1. UNCHANGED <<snapshot, now>>
    BY <1>3, Zenon DEF ListRuntimeParameterNames, FetchParameterByRuntimePath, OnConfigure
  <2>2. [Next]_vars
    BY <2>1 DEF vars
  <2>3. SessionInv'
    BY <2>2, SessionStays DEF NodeSeen
  <2>4. NextSequence \in Nat
    BY LogTypes DEF NodeSeen, SessionInv, GoodState, Good, SnapshotOK, NextSequence
  <2>5. MirrorInv' /\ ReadingInv'
    BY <1>3, <2>4, ReadKeeps, ConfigureKeeps DEF NodeSeen
  <2> QED
    BY <2>3, <2>5 DEF NodeSeen
<1>4. CASE OnActivate \/ OnDeactivate \/ OnCleanup
  <2>1. UNCHANGED <<snapshot, now, mirror, synced, reading>>
    BY <1>4, Zenon DEF OnActivate, OnDeactivate, OnCleanup
  <2> QED
    BY <1>1, <2>1
<1>5. CASE \/ HandleCommitConfiguration \/ HandleRollbackDirty \/ HandleCheckForUpdates
           \/ HandlePushAuditEvents \/ OtherClient \/ (Tick /\ UNCHANGED ros_vars)
  <2>1. Next /\ UNCHANGED ros_vars
    BY <1>5, Zenon DEF HandleCommitConfiguration, HandleRollbackDirty, HandleCheckForUpdates,
          HandlePushAuditEvents, OtherClient, Replied, Next
  <2> QED
    BY <1>2, <2>1
<1>6. ASSUME NEW g \in Goals, GoalStep(g) PROVE NodeSeen'
  <2>1. CASE PullUpdatesAction(g)
    BY <2>1, PullKeeps DEF GoalsInv
  <2>2. CASE HandlePullGoal(g) \/ HandlePullCancel(g) \/ ExecutePullGoal(g) \/ ReportPullGoal(g)
    <3>1. UNCHANGED <<snapshot, now, mirror, synced, reading>>
      BY <2>2, Zenon DEF HandlePullGoal, HandlePullCancel, ExecutePullGoal, ReportPullGoal, Step,
            executor_vars
    <3> QED
      BY <1>1, <3>1
  <2> QED
    BY <1>6, <2>1, <2>2, Zenon DEF GoalStep
<1>7. GoalsAlone \/ \E g \in Goals : GoalStep(g)
  BY RosNextSplits
<1> QED
  BY <1>3, <1>4, <1>5, <1>6, <1>7, SetKeeps, RestartKeeps, Zenon DEF GoalsAlone

\* No deployment but the node declares a node parameter.
MirrorKept ==
    /\ deployment = "node" => NodeSeen
    /\ deployment # "node" => \A p \in Paths : mirror[p] = NoValue

\* Nothing is declared at first.
LEMMA InitMirror == EdgeInit => MirrorKept
<1> SUFFICES ASSUME EdgeInit PROVE MirrorKept
  OBVIOUS
<1>1. /\ Init /\ mirror = [p \in Paths |-> NoValue] /\ reading = Idle
  BY DEF EdgeInit, RosInit
<1>2. SessionInv
  BY <1>1, InitGood, InitLogs DEF SessionInv
<1>3. Reading(reading) /\ \A p \in Paths : reading.values[p] = NoValue
  BY <1>1, IdleReads, Zenon
<1>4. ReadingInv
  BY <1>3, Zenon DEF ReadingInv
<1>5. \A p \in Paths : mirror[p] = NoValue
  BY <1>1
<1>6. MirrorInv
  BY <1>5, Zenon DEF MirrorInv
<1> QED
  BY <1>2, <1>4, <1>5, <1>6 DEF MirrorKept, NodeSeen

\* MirrorKept is inductive, given what GoalsInv says of the pull goals.
LEMMA NextMirror == MirrorKept /\ GoalsInv /\ [EdgeNext]_edge_vars => MirrorKept'
<1> SUFFICES ASSUME MirrorKept, GoalsInv, [EdgeNext]_edge_vars PROVE MirrorKept'
  OBVIOUS
<1>1. CASE UNCHANGED edge_vars
  <2>1. UNCHANGED <<deployment, mirror>> /\ UNCHANGED <<synced, reading>> /\ [Next]_vars
    BY <1>1 DEF edge_vars, ros_vars, vars
  <2>2. NodeSeen => NodeSeen'
    BY <2>1, SessionStays, StayKeeps DEF NodeSeen
  <2> QED
    BY <2>1, <2>2 DEF MirrorKept
<1>2. CASE EdgeNext
  <2>1. UNCHANGED deployment
    BY <1>2 DEF EdgeNext
  <2>2. CASE deployment = "node"
    <3>1. RosNext
      BY <1>2, <2>2, Zenon DEF EdgeNext
    <3> QED
      BY <2>1, <2>2, <3>1, NodeStepKeeps, Zenon DEF MirrorKept
  <2>3. CASE deployment # "node"
    <3>1. UNCHANGED ros_vars
      BY <1>2, <2>3, Zenon DEF EdgeNext
    <3>2. mirror' = mirror
      BY <3>1 DEF ros_vars
    <3> QED
      BY <2>1, <2>3, <3>2, Zenon DEF MirrorKept
  <2> QED
    BY <2>2, <2>3
<1> QED
  BY <1>1, <1>2

\* A node parameter that differs from the runtime's value is one the event
\* stream explains, for any paths, values and write lists, any buffer capacity
\* and any number of goals and of other clients' writes (ParameterAdapter's
\* OnConfigure and OnSetParameters against the session's event bus).
THEOREM NodeAlwaysMirrors == EdgeSpec => []NodeMirrorsRuntime
<1>1. MirrorKept => NodeMirrorsRuntime
  BY SeenMirrors DEF MirrorKept, NodeSeen
<1> QED
  BY <1>1, InitGoals, NextGoals, InitMirror, NextMirror, PTL DEF EdgeSpec
(***************************************************************************)
(* The upload of the audit log.                                            *)
(***************************************************************************)
\* Taking records is push_audit_events, and puts the records between the cursors
\* in hand.
LEMMA TakeKeepsUploads ==
    ASSUME SessionInv, UploadInv, TakeRecords
    PROVE  UploadInv' /\ PushAuditEvents
<1> DEFINE s == Normalize(snapshot, now)
           before == snapshot.audit_uploaded_sequence
<1>1. /\ hand = <<>> /\ Operable
      /\ transport' = transport /\ broker' = broker /\ lost' = lost
  BY Zenon DEF TakeRecords
<1>2. PICK max_events \in 1 .. MaxAudit :
         /\ Pushed(s, max_events) > s.audit_uploaded_sequence
         /\ Return([s EXCEPT !.audit_uploaded_sequence = Pushed(s, max_events)])
         /\ hand' = [i \in 1 .. Pushed(s, max_events) - s.audit_uploaded_sequence
                        |-> s.audit_uploaded_sequence + i]
  BY Zenon DEF TakeRecords
<1>3. PushAuditEvents
  <2>1. TRUE \in BOOLEAN /\ [s EXCEPT !.audit_uploaded_sequence = Pushed(s, max_events)]
          = [s EXCEPT !.audit_uploaded_sequence = IF TRUE THEN Pushed(s, max_events) ELSE @]
    BY Zenon
  <2> QED
    BY <1>1, <1>2, <2>1, Zenon DEF PushAuditEvents
<1>4. SnapshotOK(snapshot) /\ now \in Nat
  BY DEF SessionInv, GoodState, Good
<1>5. s.audit_uploaded_sequence = before /\ SnapshotOK(s)
  BY <1>4, StartCursor, NormalizeType, Zenon
<1> DEFINE cursor == Pushed(s, max_events)
<1>6. before \in Nat /\ cursor \in Nat
  <2>1. s.audit_uploaded_sequence \in Nat /\ Len(s.audit_events) \in Nat
    BY <1>5, LogTypes DEF SnapshotOK
  <2>2. max_events \in Nat
    BY BoundsAssumption
  <2> QED
    BY <1>5, <2>1, <2>2 DEF Pushed
<1>7. snapshot'.audit_uploaded_sequence = cursor
  BY <1>2, <1>5, Zenon DEF Return, SnapshotOK, Snapshot
<1>8. hand' = [i \in 1 .. cursor - before |-> before + i] /\ cursor > before
  BY <1>2, <1>5, Zenon
<1> HIDE DEF s, cursor
<1>9. cursor - before \in Nat /\ cursor = before + (cursor - before)
  BY <1>6, <1>8
<1>10. snapshot'.audit_uploaded_sequence = before + (cursor - before)
  BY <1>7, <1>9, Zenon
<1>11. UploadInv'
  BY <1>1, <1>8, <1>9, <1>10, TakeKeeps, Zenon
<1> QED
  BY <1>3, <1>11

\* The uploader's records are accounted for, and its session is one.
UploadKept == deployment = "uploader" /\ ~ AtMostOnce => SessionInv /\ UploadInv

\* At first the log is its own, and nothing is taken from it.
LEMMA InitUpload == EdgeInit => UploadKept
<1> SUFFICES ASSUME EdgeInit PROVE UploadKept
  OBVIOUS
<1>1. Init /\ UploadInit
  BY Zenon DEF EdgeInit
<1>2. SessionInv
  BY <1>1, InitGood, InitLogs DEF SessionInv
<1> QED
  BY <1>1, <1>2, InitCursor, InitUploads, Zenon DEF UploadKept

\* UploadKept is inductive.
LEMMA NextUpload == UploadKept /\ [EdgeNext]_edge_vars => UploadKept'
<1> SUFFICES ASSUME SessionInv, UploadInv, [EdgeNext]_edge_vars, deployment = "uploader", ~ AtMostOnce
             PROVE  SessionInv' /\ UploadInv'
  <2>1. [EdgeNext]_edge_vars => deployment' = deployment
    BY DEF EdgeNext, edge_vars
  <2> QED
    BY <2>1, Zenon DEF UploadKept
<1>1. CASE UNCHANGED <<vars, upload_vars>>
  <2>1. /\ transport' = transport /\ hand' = hand /\ broker' = broker /\ lost' = lost
        /\ snapshot' = snapshot /\ [Next]_vars
    BY <1>1 DEF vars, upload_vars
  <2>2. /\ TransportOK(transport') /\ hand' \in Seq(Nat)
        /\ UploadOK(broker', transport'.pending \o hand', lost', snapshot'.audit_uploaded_sequence)
    BY <2>1, Zenon DEF UploadInv
  <2> QED
    BY <2>1, <2>2, UploadInvNext, SessionStays, Zenon
<1>2. CASE SetParameter /\ UNCHANGED upload_vars
  <2>1. snapshot'.audit_uploaded_sequence = snapshot.audit_uploaded_sequence
    BY <1>2, WriteCursor DEF SessionInv
  <2>2. transport' = transport /\ hand' = hand /\ broker' = broker /\ lost' = lost
    BY <1>2 DEF upload_vars
  <2>3. /\ TransportOK(transport') /\ hand' \in Seq(Nat)
        /\ UploadOK(broker', transport'.pending \o hand', lost', snapshot'.audit_uploaded_sequence)
    BY <2>1, <2>2, Zenon DEF UploadInv
  <2>4. [Next]_vars
    BY <1>2, Zenon DEF Next
  <2> QED
    BY <2>3, <2>4, UploadInvNext, SessionStays, Zenon
<1>3. CASE TakeRecords
  <2>1. UploadInv' /\ PushAuditEvents
    BY <1>3, TakeKeepsUploads
  <2>2. [Next]_vars
    BY <2>1, Zenon DEF Next
  <2> QED
    BY <2>1, <2>2, SessionStays, Zenon
<1>4. CASE Connect \/ AskBackend \/ QueueRecord \/ Drain \/ Crash
  <2>1. UploadInv' /\ [Next]_vars
    BY <1>4, OwnStepsKeep, Zenon
  <2> QED
    BY <2>1, SessionStays, Zenon
<1>5. UNCHANGED <<vars, upload_vars>> \/ UploadNext
  BY DEF EdgeNext, edge_vars, vars
<1> QED
  BY <1>1, <1>2, <1>3, <1>4, <1>5, Zenon DEF UploadNext

\* Every record the upload cursor has passed is at the broker, waits, or was lost
\* in a crash, and the broker has them in order but for repeats: for any log,
\* any queue depth, number of attempts and failures of them, any crashes, and
\* any writes meanwhile (drain_once and push_audit_events).
THEOREM UploadsAlwaysAccountedFor == EdgeSpec => []UploadsAccountedFor
<1>1. UploadKept => UploadsAccountedFor
  BY UploadsAccount, Zenon DEF UploadKept, UploadsAccountedFor, LogWithoutLost
<1> QED
  BY <1>1, InitUpload, NextUpload, PTL DEF EdgeSpec

(***************************************************************************)
(* The diagnostics bridge.                                                 *)
(***************************************************************************)
\* The buffer of a session is one the bridge can follow.
LEMMA PollOfSession ==
    ASSUME SessionInv, BridgeInv, Poll
    PROVE  BridgeInv'
<1> DEFINE bus == snapshot.event_bus
<1>1. /\ bus.next_sequence \in Nat /\ bus.dropped_events \in Nat /\ Len(bus.events) \in Nat
      /\ \A i \in 1 .. Len(bus.events) : bus.events[i].sequence = bus.dropped_events + i
  BY LogTypes DEF SessionInv, GoodState, Good, SnapshotOK, LogsGood, LogsOrdered
<1> HIDE DEF bus
<1>2. /\ \A i \in 1 .. Len(bus.events) : bus.events[i].sequence \in Nat
      /\ \A i, k \in 1 .. Len(bus.events) : i < k => bus.events[i].sequence < bus.events[k].sequence
  BY <1>1
<1> QED
  BY <1>1, <1>2, PollKeeps, Zenon DEF bus

\* The session opened anew is one, too.
LEMMA RestartOfSession ==
    ASSUME SessionInv, RestartSession
    PROVE  SessionInv'
<1>1. now' = now /\ now \in Nat \ {0} /\ now \in Nat
  BY DEF RestartSession, SessionInv, GoodState
<1>2. PICK overlay \in PersistedOverlays, policy \in Policies :
         snapshot' = RuntimeOpen(Persisted(overlay, [p \in Paths |-> NoMetadata], policy), now)
  BY Zenon DEF RestartSession
<1>3. Good(snapshot') /\ LogsGood(snapshot')
  BY <1>1, <1>2, RestoredLogs
<1> QED
  BY <1>1, <1>3, GoodStateAfter DEF SessionInv

DiagnosticsKept == BridgeInv /\ (deployment = "diagnostics" => SessionInv)

\* At first the session is good and the bridge has no status.
LEMMA InitDiagnostics == EdgeInit => DiagnosticsKept
<1> SUFFICES ASSUME EdgeInit PROVE DiagnosticsKept
  OBVIOUS
<1>1. Init /\ DiagnosticsInit
  BY Zenon DEF EdgeInit
<1>2. SessionInv
  BY <1>1, InitGood, InitLogs DEF SessionInv
<1> QED
  BY <1>1, <1>2, InitBridge, Zenon DEF DiagnosticsKept

\* DiagnosticsKept is inductive.
LEMMA NextDiagnostics == DiagnosticsKept /\ [EdgeNext]_edge_vars => DiagnosticsKept'
<1> SUFFICES ASSUME BridgeInv, deployment = "diagnostics" => SessionInv, [EdgeNext]_edge_vars
             PROVE  BridgeInv' /\ (deployment = "diagnostics" => SessionInv')
  <2>1. [EdgeNext]_edge_vars => deployment' = deployment
    BY DEF EdgeNext, edge_vars
  <2> QED
    BY <2>1, Zenon DEF DiagnosticsKept
<1>1. ASSUME UNCHANGED diagnostics_vars PROVE BridgeInv'
  <2>1. bridge' = bridge /\ latest' = latest /\ stream' = stream
    BY <1>1 DEF diagnostics_vars
  <2> QED
    BY <2>1, Zenon DEF BridgeInv
<1>2. CASE UNCHANGED <<vars, diagnostics_vars>>
  BY <1>1, <1>2, SessionStays, Zenon
<1>3. CASE deployment # "diagnostics" /\ UNCHANGED diagnostics_vars
  BY <1>1, <1>3, Zenon
<1>4. CASE deployment = "diagnostics" /\ OtherCalls
  <2>1. Next /\ UNCHANGED diagnostics_vars
    BY <1>4, Zenon DEF OtherCalls, Next
  <2> QED
    BY <1>1, <1>4, <2>1, SessionStays, Zenon
<1>5. CASE deployment = "diagnostics" /\ Poll
  <2>1. UNCHANGED vars
    BY <1>5 DEF Poll, vars
  <2> QED
    BY <1>5, <2>1, PollOfSession, SessionStays, Zenon
<1>6. CASE deployment = "diagnostics" /\ PollFails
  BY <1>6, PollFailsKeeps, SessionStays, Zenon
<1>7. CASE deployment = "diagnostics" /\ RestartSession
  BY <1>7, RestartKeepsBridge, RestartOfSession, Zenon
<1>8. \/ UNCHANGED <<vars, diagnostics_vars>>
      \/ deployment # "diagnostics" /\ UNCHANGED diagnostics_vars
      \/ deployment = "diagnostics" /\ DiagnosticsNext
  BY DEF EdgeNext, edge_vars, vars, diagnostics_vars
<1> QED
  BY <1>2, <1>3, <1>4, <1>5, <1>6, <1>7, <1>8, Zenon DEF DiagnosticsNext

\* Every status is about the newest event delivered for its key, but for events
\* at or below the floor: for any number of events in a poll, any capacity of
\* the buffer, any polls that fail, and any sessions opened anew with or without
\* Reset (IngestEvent and ObserveDispatch).
THEOREM DiagnosticsAlwaysFollow == EdgeSpec => []DiagnosticsFollowEvents
<1>1. DiagnosticsKept => DiagnosticsFollowEvents
  BY BridgeFollows, Zenon DEF DiagnosticsKept
<1> QED
  BY <1>1, InitDiagnostics, NextDiagnostics, PTL DEF EdgeSpec
=============================================================================
