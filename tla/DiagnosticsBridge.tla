-------------------------- MODULE DiagnosticsBridge --------------------------
(***************************************************************************)
(* The ROS 2 diagnostics bridge (runtime_diagnostics_bridge.cc): it turns  *)
(* the events an SDK dispatch delivers, and the result of the dispatch,    *)
(* into one status per key.  A bridge is the record [last_sequence,        *)
(* has_sequence, statuses]; a status keeps its code and the sequence it is *)
(* about, NoStatus where there is none.                                    *)
(***************************************************************************)
EXTENDS RuntimeSession

CONSTANT MaxPoll   \* max_events of a poll

ASSUME MaxPollAssumption == MaxPoll \in Nat \ {0}

VARIABLES bridge,
          stream,   \* the poller: its cursor and the SDK's drop counter
          latest    \* ghost: see DiagnosticsFollowEvents

diagnostics_vars == <<bridge, stream, latest>>

Keys == {"runtime.health", "runtime.dirty", "runtime.commit", "runtime.sync", "runtime.events"}
NoStatus == [code |-> "None", sequence |-> 0]
Status(code, sequence) == [code |-> code, sequence |-> sequence]

NewBridge == [last_sequence |-> 0, has_sequence |-> FALSE, statuses |-> [k \in Keys |-> NoStatus]]

\* EventChannelForKind: the kinds the SDK hands to callbacks at all.
EventChannelForKind ==
    {"ParameterChanged", "DirtyStateChanged", "ResetApplied", "CommitApplied", "SyncStateChanged",
     "SyncConflictDetected", "SyncConflictResolved", "SyncApplyCompleted"}

\* The kinds that make a status, with its key, and the code of the status.
StatusKey(kind) ==
    CASE kind = "RuntimeOpened" -> "runtime.health"
      [] kind = "DirtyStateChanged" -> "runtime.dirty"
      [] kind = "CommitApplied" -> "runtime.commit"
      [] OTHER -> "runtime.sync"
StatusKinds ==
    {"RuntimeOpened", "DirtyStateChanged", "CommitApplied", "SyncStateChanged",
     "SyncConflictDetected", "SyncConflictResolved", "SyncApplyCompleted"}

ShouldTreatAsReconnect(b, e) ==
    b.has_sequence /\ e.payload.kind = "RuntimeOpened" /\ e.sequence <= b.last_sequence

StatusCode(e, reconnect) ==
    CASE e.payload.kind = "RuntimeOpened" -> IF reconnect THEN "RECONNECTED" ELSE "RUNTIME_OPENED"
      [] e.payload.kind = "DirtyStateChanged" -> IF e.payload.dirty THEN "ACTIVE" ELSE "CLEARED"
      [] OTHER -> e.payload.kind

EventStatus(e) == Status(StatusCode(e, FALSE), e.sequence)

\* An event not newer than the last sequence is ignored, unless it shows that
\* the runtime was opened again.
IngestEvent(b, e) ==
    LET reconnect == ShouldTreatAsReconnect(b, e)
        kept == IF reconnect THEN NewBridge.statuses ELSE b.statuses
    IN  IF ~ reconnect /\ b.has_sequence /\ e.sequence <= b.last_sequence THEN b
        ELSE [last_sequence |-> e.sequence, has_sequence |-> TRUE,
              statuses |-> IF e.payload.kind \in StatusKinds
                           THEN [kept EXCEPT ![StatusKey(e.payload.kind)] =
                                    Status(StatusCode(e, reconnect), e.sequence)]
                           ELSE kept]

\* A dispatch result r is [ok, next_sequence, dropped_events_delta]; a dispatch
\* that failed has next_sequence 0.
Advance(b, status) ==
    [last_sequence |-> IF ~ b.has_sequence \/ status.sequence > b.last_sequence
                       THEN status.sequence ELSE b.last_sequence,
     has_sequence |-> TRUE,
     statuses |-> [b.statuses EXCEPT !["runtime.events"] = status]]

ObserveEveryDispatch(b, r) ==
    Advance(b, Status(IF r.ok THEN "DROPPED" ELSE "DISPATCH_FAILED", r.next_sequence))
ObserveDispatch(b, r) ==
    IF ~ r.ok THEN Advance(b, Status("DISPATCH_FAILED", r.next_sequence))
    ELSE IF r.dropped_events_delta = 0 THEN b
    ELSE Advance(b, Status("DROPPED", r.next_sequence))

NoneLatest == [k \in Keys |-> NoStatus]

DiagnosticsInit ==
    /\ bridge = NewBridge
    /\ stream = [cursor |-> 0, last_observed_dropped |-> 0, floor |-> 0]
    /\ latest = NoneLatest

(***************************************************************************)
(* Diagnostics: a thread polls events with a cursor and feeds the bridge.  *)
(***************************************************************************)
\* The first MaxPoll events after the cursor, by their positions in the buffer.
SubscribeEvents ==
    LET events == snapshot.event_bus.events
        newer == {i \in 1 .. Len(events) : events[i].sequence > stream.cursor}
    IN  {i \in newer : Cardinality({j \in newer : j <= i}) <= MaxPoll}

\* One event of a dispatch: its callback feeds the bridge.  A dispatch is the
\* bridge, the poller's cursor and the ghost while its loop is at some event.
Delivered(d, e) ==
    IF e.payload.kind \notin EventChannelForKind THEN [d EXCEPT !.cursor = e.sequence]
    ELSE [bridge |-> IngestEvent(d.bridge, e),
          cursor |-> e.sequence,
          latest |-> IF e.payload.kind \in StatusKinds
                     THEN [d.latest EXCEPT ![StatusKey(e.payload.kind)] = EventStatus(e)]
                     ELSE d.latest]

DispatchEvents(d, events, polled) ==
    LET after[i \in 0 .. Len(events)] ==
            IF i = 0 THEN d
            ELSE IF i \in polled THEN Delivered(after[i - 1], events[i]) ELSE after[i - 1]
    IN  after[Len(events)]

DroppedDelta ==
    LET dropped == snapshot.event_bus.dropped_events
    IN  IF dropped >= stream.last_observed_dropped THEN dropped - stream.last_observed_dropped
        ELSE dropped

AtLeast(a, b) == IF a < b THEN b ELSE a

Poll ==
    /\ Operable
    /\ \E delta \in {DroppedDelta},
          d \in {DispatchEvents([bridge |-> bridge, cursor |-> stream.cursor, latest |-> latest],
                               snapshot.event_bus.events, SubscribeEvents)} :
          /\ bridge' = ObserveDispatch(d.bridge,
                                       [ok |-> TRUE, next_sequence |-> snapshot.event_bus.next_sequence,
                                        dropped_events_delta |-> delta])
          /\ latest' = d.latest
          /\ stream' = [cursor |-> d.cursor,
                        last_observed_dropped |-> snapshot.event_bus.dropped_events,
                        floor |-> IF delta = 0 THEN stream.floor
                                  ELSE AtLeast(stream.floor, snapshot.event_bus.next_sequence)]
    /\ UNCHANGED <<snapshot, now>>

\* A poll that fails (the session is closed, the response cannot be read).
PollFails ==
    /\ bridge' = ObserveDispatch(bridge, [ok |-> FALSE, next_sequence |-> 0,
                                          dropped_events_delta |-> 0])
    /\ UNCHANGED <<snapshot, now, stream, latest>>

(***************************************************************************)
(* The rest of the system: clients whose calls emit every kind of status   *)
(* event, and the session closed and opened anew, with the bridge Reset or *)
(* not.                                                                    *)
(***************************************************************************)
OtherCalls ==
    /\ SetParametersAtomically \/ RollbackDirty \/ CommitConfiguration \/ CheckForUpdates
    /\ UNCHANGED diagnostics_vars

RestartSession ==
    /\ \E overlay \in PersistedOverlays, policy \in Policies :
          snapshot' = RuntimeOpen(Persisted(overlay, [p \in Paths |-> NoMetadata], policy), now)
    /\ \E reset \in BOOLEAN :
          /\ bridge' = IF reset THEN NewBridge ELSE bridge
          /\ stream' = [cursor |-> 0, last_observed_dropped |-> 0, floor |-> bridge'.last_sequence]
    /\ latest' = NoneLatest
    /\ UNCHANGED now

DiagnosticsNext == Poll \/ PollFails \/ OtherCalls \/ RestartSession

\* Every status is about the newest event delivered for its key, but for events
\* at or below the head reported with dropped events, or the bridge's position
\* when the session was opened anew without Reset: ObserveDispatch moves
\* last_sequence to the head of the stream, and IngestEvent ignores what is not
\* newer.
DiagnosticsFollowEvents ==
    \A k \in Keys \ {"runtime.events"} :
        bridge.statuses[k] = latest[k] \/ latest[k].sequence <= stream.floor
=============================================================================
