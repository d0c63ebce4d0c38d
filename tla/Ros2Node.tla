------------------------------ MODULE Ros2Node -------------------------------
(***************************************************************************)
(* A ROS 2 node in front of one runtime session (sdk/ros2): the parameter  *)
(* adapter, which mirrors runtime parameters as node parameters, the       *)
(* control adapter with its services and its pull_updates action, and the  *)
(* lifecycle mode that switches both.                                      *)
(*                                                                         *)
(* The node's executor runs one callback at a time; OnConfigure makes      *)
(* several runtime calls, so it is several steps here, between which the   *)
(* executor runs nothing else.  Every accepted pull goal has a detached    *)
(* thread of its own.  Other clients of the session run at any time; the   *)
(* session serialises the calls.                                           *)
(*                                                                         *)
(* The adapters send schema version 1 and the SDK's poll sends 5; the      *)
(* runtime of this repository accepts 5 alone.  accepted is the set of     *)
(* versions the runtime accepts.                                           *)
(***************************************************************************)
EXTENDS RuntimeSession

CONSTANTS AcceptedVersions,   \* the sets of versions a runtime may accept
          InactivePolicies,   \* sets of the operations allowed while inactive
          NodeWrites,         \* write lists of node parameter sets
          Goals,              \* pull goals
          NoRequest           \* a goal whose request cannot be mapped

kSchemaVersion == 1

ASSUME NodeWritesAssumption == NodeWrites \subseteq Seq(WritesAnywhere) \ {<<>>}

VARIABLES accepted,
          node,     \* the two node adapters and the lifecycle mode
          mirror,   \* the node parameters, NoValue where not declared
          reading,  \* OnConfigure in progress: the values read so far
          goals,    \* pull goals and their threads
          synced,   \* ghost: see NodeMirrorsRuntime
          racing    \* ghost: see InactiveMeansPaused

executor_vars == <<node, mirror, reading, synced, racing>>
ros_vars == <<accepted, node, mirror, reading, goals, synced, racing>>

Idle == [todo |-> <<>>, values |-> [p \in Paths |-> NoValue], at |-> [p \in Paths |-> 0], busy |-> FALSE]
NoGoal == [pc |-> "none", request |-> NoRequest, canceling |-> FALSE, applied |-> FALSE,
           outcome |-> "none"]
Unknown == -1

RosInit ==
    /\ accepted \in AcceptedVersions
    /\ node = [state |-> "unconfigured", servers |-> FALSE, callback |-> FALSE,
               mutations_enabled |-> TRUE, lifecycle_active |-> TRUE, policy |-> {"get_sync_status"}]
    /\ mirror = [p \in Paths |-> NoValue]
    /\ reading = Idle
    /\ goals = [g \in Goals |-> NoGoal]
    /\ synced = [p \in Paths |-> Unknown]
    /\ racing = {}

\* The runtime takes a call of the adapters.
Serves == kSchemaVersion \in accepted /\ Operable

IsOperationAllowedWhileInactive(op) == node.lifecycle_active \/ op \in node.policy

\* The pulls past their check.
PastCheck == {g \in Goals : goals[g].pc = "calling"}

NextSequence == snapshot.event_bus.next_sequence

(***************************************************************************)
(* The lifecycle.                                                          *)
(***************************************************************************)
\* OnConfigure, DeclareParameters, ReadParameters: list, then get one by one.
\* get_parameter does not apply due resets.
ListRuntimeParameterNames ==
    /\ node.state = "unconfigured" /\ ~ reading.busy /\ Serves
    /\ reading' = [Idle EXCEPT !.todo = Ascending(Paths), !.busy = TRUE]
    /\ UNCHANGED <<snapshot, now, accepted, node, mirror, goals, synced, racing>>

FetchParameterByRuntimePath ==
    /\ reading.busy /\ reading.todo # <<>>
    /\ LET p == Head(reading.todo)
       IN  reading' = IF Serves
                      THEN [reading EXCEPT !.todo = Tail(@), !.at[p] = NextSequence,
                                           !.values[p] = EffectiveValue(snapshot, p)]
                      ELSE Idle
    /\ UNCHANGED <<snapshot, now, accepted, node, mirror, goals, synced, racing>>

\* All read: declare or set every parameter past the callback, start the
\* servers (which fails for a prefix that is no ROS name), pause.
OnConfigure ==
    /\ reading.busy /\ reading.todo = <<>>
    /\ mirror' = reading.values
    /\ synced' = reading.at
    /\ reading' = Idle
    /\ racing' = racing \cup PastCheck
    /\ \/ UNCHANGED node
       \/ \E policy \in InactivePolicies :
             node' = [node EXCEPT !.state = "inactive", !.servers = TRUE, !.policy = policy,
                                  !.lifecycle_active = FALSE, !.mutations_enabled = FALSE]
    /\ UNCHANGED <<snapshot, now, accepted, goals>>

OnActivate ==
    /\ node.state = "inactive"
    /\ node' = [node EXCEPT !.state = "active", !.callback = TRUE, !.mutations_enabled = TRUE,
                            !.lifecycle_active = TRUE]
    /\ racing' = {}
    /\ UNCHANGED <<snapshot, now, accepted, mirror, reading, goals, synced>>

OnDeactivate ==
    /\ node.state = "active"
    /\ node' = [node EXCEPT !.state = "inactive", !.mutations_enabled = FALSE, !.lifecycle_active = FALSE]
    /\ racing' = racing \cup PastCheck
    /\ UNCHANGED <<snapshot, now, accepted, mirror, reading, goals, synced>>

\* OnShutdown is the same.
OnCleanup ==
    /\ node.state # "unconfigured"
    /\ node' = [node EXCEPT !.state = "unconfigured", !.mutations_enabled = FALSE, !.callback = FALSE,
                            !.lifecycle_active = FALSE, !.servers = FALSE]
    /\ racing' = racing \cup PastCheck
    /\ UNCHANGED <<snapshot, now, accepted, mirror, reading, goals, synced>>

(***************************************************************************)
(* Node parameters: set_parameters and set_parameters_atomically of the    *)
(* node itself, which call the callback first.                             *)
(***************************************************************************)
Stored(w) ==
    [p \in Paths |-> IF WritesTo(w, p) # {} THEN w[LastWriteTo(w, p)].value ELSE mirror[p]]
Synced(w, at) == [p \in Paths |-> IF WritesTo(w, p) # {} THEN at ELSE synced[p]]
Declared(w) == \A i \in 1 .. Len(w) : mirror[w[i].path] # NoValue

RuntimeTakes(w) == Serves /\ \A i \in 1 .. Len(w) : w[i].path \in RuntimePaths

\* The callback refuses while mutations are off (nothing changes) and otherwise
\* passes the writes to the runtime; the node stores them when it took them.
OnSetParametersUnchecked(w) ==
    /\ node.callback /\ node.mutations_enabled /\ Room
    /\ IF RuntimeTakes(w) THEN Return(Write(Prepared(snapshot, now), w, "Experimental"))
       ELSE UNCHANGED <<snapshot, now>>
    /\ mirror' = Stored(w)
    /\ synced' = Synced(w, snapshot'.event_bus.next_sequence)

OnSetParameters(w) ==
    /\ node.callback /\ node.mutations_enabled /\ Room
    /\ RuntimeTakes(w)
    /\ Return(Write(Prepared(snapshot, now), w, "Experimental"))
    /\ mirror' = Stored(w)
    /\ synced' = Synced(w, snapshot'.event_bus.next_sequence)

\* Without a callback the node keeps the value to itself.
NoCallback(w) ==
    /\ ~ node.callback
    /\ mirror' = Stored(w)
    /\ synced' = Synced(w, Unknown)
    /\ UNCHANGED <<snapshot, now>>

SetNodeParameters ==
    /\ ~ reading.busy
    /\ \E w \in NodeWrites : Declared(w) /\ (OnSetParameters(w) \/ NoCallback(w))
    /\ UNCHANGED <<accepted, node, reading, goals, racing>>

(***************************************************************************)
(* Services.  A call the lifecycle or the runtime refuses changes nothing, *)
(* nor do get_sync_status and export_pending_sync_bundle.                  *)
(***************************************************************************)
Handle(op) == node.servers /\ IsOperationAllowedWhileInactive(op) /\ Serves

Replied == UNCHANGED ros_vars

HandleCommitConfiguration == Handle("commit_configuration") /\ CommitConfiguration /\ Replied
HandleRollbackDirty == Handle("rollback_dirty") /\ RollbackDirty /\ Replied
HandleCheckForUpdates == Handle("check_for_updates") /\ CheckForUpdates /\ Replied
HandlePushAuditEvents == Handle("push_audit_events") /\ PushAuditEvents /\ Replied

(***************************************************************************)
(* The pull_updates action: the goal callbacks run in the executor, the    *)
(* goal itself in a thread: its checks, the runtime call, the report.      *)
(***************************************************************************)
Step(g, goal) ==
    /\ goals' = [goals EXCEPT ![g] = goal]
    /\ UNCHANGED <<accepted, executor_vars>>

HandlePullGoal(g) ==
    /\ node.servers /\ IsOperationAllowedWhileInactive("pull_updates")
    /\ goals[g].pc \in {"none", "done"}
    /\ \E r \in PullRequests \cup {NoRequest} :
          Step(g, [NoGoal EXCEPT !.pc = "accepted", !.request = r])
    /\ UNCHANGED <<snapshot, now>>

HandlePullCancel(g) ==
    /\ node.servers
    /\ goals[g].pc \in {"accepted", "calling", "called"} /\ ~ goals[g].canceling
    /\ Step(g, [goals[g] EXCEPT !.canceling = TRUE])
    /\ UNCHANGED <<snapshot, now>>

Done(g, outcome) == [goals[g] EXCEPT !.pc = "done", !.request = NoRequest, !.outcome = outcome]

ExecutePullGoalUnchecked(g) ==
    /\ goals[g].pc = "accepted"
    /\ Step(g, IF goals[g].request = NoRequest THEN Done(g, "aborted")
               ELSE [goals[g] EXCEPT !.pc = "calling"])
    /\ UNCHANGED <<snapshot, now>>

ExecutePullGoal(g) ==
    /\ goals[g].pc = "accepted"
    /\ Step(g, IF ~ IsOperationAllowedWhileInactive("pull_updates") \/ goals[g].request = NoRequest
               THEN Done(g, "aborted")
               ELSE [goals[g] EXCEPT !.pc = "calling"])
    /\ UNCHANGED <<snapshot, now>>

PullUpdatesAction(g) ==
    /\ goals[g].pc = "calling" /\ Room
    /\ \E s \in {Prepared(snapshot, now)}, r \in {goals[g].request} :
          LET successful == /\ Serves
                            /\ PullAccepted(s, r)
                            /\ r.target_id \in {NoId, CommittedId(PullApplied(s, r))}
          IN  /\ IF successful THEN Return(Pull(s, r)) ELSE UNCHANGED <<snapshot, now>>
              /\ Step(g, [goals[g] EXCEPT !.pc = "called", !.applied = successful])

\* The report of a goal whose call returned; a cancel request wins.
OutcomeIgnoringResult(g) == IF goals[g].canceling THEN "aborted" ELSE "succeeded"
Outcome(g) ==
    IF goals[g].canceling THEN "canceled"
    ELSE IF goals[g].applied THEN "succeeded" ELSE "aborted"

ReportPullGoal(g) ==
    /\ goals[g].pc = "called"
    /\ Step(g, Done(g, Outcome(g)))
    /\ UNCHANGED <<snapshot, now>>

(***************************************************************************)
(* The rest of the system: other clients of the session, time, and the     *)
(* session closed and opened anew.                                         *)
(***************************************************************************)
OtherClient == SetParametersAtomically /\ UNCHANGED ros_vars

RestartRuntime ==
    /\ reading' = Idle
    /\ \E overlay \in PersistedOverlays, policy \in Policies :
          snapshot' = RuntimeOpen(Persisted(overlay, [p \in Paths |-> NoMetadata], policy), now)
    /\ synced' = [p \in Paths |-> Unknown]
    /\ UNCHANGED <<now, accepted, node, mirror, goals, racing>>

RosNext ==
    \/ ListRuntimeParameterNames
    \/ FetchParameterByRuntimePath
    \/ OnConfigure
    \/ OnActivate
    \/ OnDeactivate
    \/ OnCleanup
    \/ SetNodeParameters
    \/ HandleCommitConfiguration
    \/ HandleRollbackDirty
    \/ HandleCheckForUpdates
    \/ HandlePushAuditEvents
    \/ \E g \in Goals : \/ HandlePullGoal(g)
                        \/ HandlePullCancel(g)
                        \/ ExecutePullGoal(g)
                        \/ PullUpdatesAction(g)
                        \/ ReportPullGoal(g)
    \/ OtherClient
    \/ RestartRuntime
    \/ Tick /\ UNCHANGED ros_vars

(***************************************************************************)
(* Properties.                                                             *)
(***************************************************************************)
\* A node parameter that differs from the runtime's value is one the event
\* stream explains: the runtime announced (parameter_changed, reset_applied) a
\* change after the node read or wrote it, or the buffer has dropped events
\* since.  The exceptions are the values the node took without its callback and
\* those from before the session was opened anew (synced = Unknown).
NodeMirrorsRuntime ==
    \A p \in Paths :
        mirror[p] # NoValue /\ synced[p] # Unknown =>
          \/ mirror[p] = EffectiveValue(snapshot, p)
          \/ snapshot.event_bus.dropped_events >= synced[p]
          \/ \E i \in About(p, {"ParameterChanged", "ResetApplied"}) :
                snapshot.event_bus.events[i].sequence >= synced[p]

\* The outcome of a pull goal tells what happened to the configuration whatever
\* cancel and lifecycle requests it raced with: succeeded if applied, aborted if
\* not; only after a cancel request does the outcome leave it open.
GoalOutcomeIsTrue ==
    \A g \in Goals :
        /\ goals[g].outcome = "succeeded" => goals[g].applied
        /\ goals[g].outcome = "aborted" => ~ goals[g].applied
        /\ goals[g].outcome = "canceled" => goals[g].canceling
=============================================================================
