----------------------------- MODULE EdgeProofs ------------------------------
(***************************************************************************)
(* What the ROS 2 node promises about pull goals and about its inactive    *)
(* state, for any number of goals, any policies, requests and writes; the  *)
(* lemmas about its parameters that do not look into the event buffer; and *)
(* the steps of the process that uploads the audit log and of the one that *)
(* feeds the diagnostics bridge.                                           *)
(*                                                                         *)
(* The outcome of a goal is decided in three steps of its thread, between  *)
(* which cancels and lifecycle changes happen; GoalsInv says what a goal   *)
(* may be in at each of them.  NodeInv relates the lifecycle state to the  *)
(* flags the adapters look at, and says why a call may be under way while  *)
(* the node is not active.  UploadInv says where each audit record is that *)
(* the upload cursor has passed.  BridgeInv relates the bridge, the cursor *)
(* of its poller and the newest events.                                    *)
(***************************************************************************)
EXTENDS Edge, FiniteSetTheorems, TLAPS

Stages == {"none", "accepted", "calling", "called", "done"}
GoalType == [pc: Stages, request: PullRequests \cup {NoRequest}, canceling: BOOLEAN, applied: BOOLEAN,
             outcome: {"none", "succeeded", "aborted", "canceled"}]

\* A goal has no outcome before it is done, has applied nothing before its call
\* returned, and calls the runtime with a request only.
GoalInv(x) ==
    /\ x \in GoalType
    /\ x.pc # "done" => x.outcome = "none"
    /\ x.pc = "calling" => x.request # NoRequest
    /\ x.pc \in {"none", "accepted", "calling"} => ~ x.applied
    /\ x.outcome = "succeeded" => x.applied
    /\ x.outcome = "aborted" => ~ x.applied
    /\ x.outcome = "canceled" => x.canceling

GoalsInv == DOMAIN goals = Goals /\ goals = [g \in Goals |-> goals[g]] /\ \A g \in Goals : GoalInv(goals[g])

\* A step of one goal that keeps the invariant of that goal keeps it for all.
LEMMA StepKeepsGoals ==
    ASSUME GoalsInv, NEW g \in Goals, NEW x, GoalInv(x), Step(g, x)
    PROVE  GoalsInv'
BY DEF GoalsInv, Step

\* HandlePullGoal: a fresh goal.
LEMMA PullGoalKeeps ==
    ASSUME GoalsInv, NEW g \in Goals, HandlePullGoal(g)
    PROVE  GoalsInv'
<1>1. PICK r \in PullRequests \cup {NoRequest} : Step(g, [NoGoal EXCEPT !.pc = "accepted", !.request = r])
  BY Zenon DEF HandlePullGoal
<1>2. GoalInv([NoGoal EXCEPT !.pc = "accepted", !.request = r])
  BY Zenon DEF GoalInv, GoalType, Stages, NoGoal
<1> QED BY <1>1, <1>2, StepKeepsGoals

\* HandlePullCancel: only the request to cancel is new.
LEMMA PullCancelKeeps ==
    ASSUME GoalsInv, NEW g \in Goals, HandlePullCancel(g)
    PROVE  GoalsInv'
<1>1. Step(g, [goals[g] EXCEPT !.canceling = TRUE])
  BY DEF HandlePullCancel
<1>2. GoalInv([goals[g] EXCEPT !.canceling = TRUE])
  BY Zenon DEF GoalsInv, GoalInv, GoalType, Stages
<1> QED BY <1>1, <1>2, StepKeepsGoals

\* ExecutePullGoal: refused, and nothing was applied, or about to call.
LEMMA ExecuteKeeps ==
    ASSUME GoalsInv, NEW g \in Goals, ExecutePullGoal(g)
    PROVE  GoalsInv'
<1>1. GoalInv(goals[g]) /\ goals[g].pc = "accepted"
  BY DEF GoalsInv, ExecutePullGoal
<1>2. GoalInv(Done(g, "aborted"))
  BY <1>1, Zenon DEF GoalInv, GoalType, Stages, Done
<1>3. goals[g].request # NoRequest => GoalInv([goals[g] EXCEPT !.pc = "calling"])
  BY <1>1 DEF GoalInv, GoalType, Stages
<1>4. \/ Step(g, Done(g, "aborted"))
      \/ goals[g].request # NoRequest /\ Step(g, [goals[g] EXCEPT !.pc = "calling"])
  BY DEF ExecutePullGoal
<1> QED BY <1>2, <1>3, <1>4, StepKeepsGoals

\* PullUpdatesAction: the call records whether it was applied.
LEMMA CallKeeps ==
    ASSUME GoalsInv, NEW g \in Goals, PullUpdatesAction(g)
    PROVE  GoalsInv'
<1>1. PICK a \in BOOLEAN : Step(g, [goals[g] EXCEPT !.pc = "called", !.applied = a])
  <2>1. PICK s \in {Prepared(snapshot, now)}, r \in {goals[g].request} :
           Step(g, [goals[g] EXCEPT !.pc = "called",
                                    !.applied = /\ Serves
                                                /\ PullAccepted(s, r)
                                                /\ r.target_id \in {NoId, CommittedId(PullApplied(s, r))}])
    BY Zenon DEF PullUpdatesAction
  <2> DEFINE a == Serves /\ PullAccepted(s, r) /\ r.target_id \in {NoId, CommittedId(PullApplied(s, r))}
  <2>2. a \in BOOLEAN
    OBVIOUS
  <2> QED BY <2>1, <2>2, Zenon
<1>2. GoalInv(goals[g]) /\ goals[g].pc = "calling"
  BY DEF GoalsInv, PullUpdatesAction
<1>3. GoalInv([goals[g] EXCEPT !.pc = "called", !.applied = a])
  BY <1>2, Zenon DEF GoalInv, GoalType, Stages
<1> QED BY <1>1, <1>3, StepKeepsGoals

\* ReportPullGoal: the report tells what the call did, unless it was canceled.
LEMMA ReportKeeps ==
    ASSUME GoalsInv, NEW g \in Goals, ReportPullGoal(g)
    PROVE  GoalsInv'
<1>1. Step(g, Done(g, Outcome(g)))
  BY DEF ReportPullGoal
<1>2. GoalInv(goals[g])
  BY DEF GoalsInv
<1>3. GoalInv(Done(g, Outcome(g)))
  BY <1>2, Zenon DEF GoalInv, GoalType, Stages, Done, Outcome
<1> QED BY <1>1, <1>3, StepKeepsGoals

-----------------------------------------------------------------------------
(* ----------------------- Outcomes of pull goals ------------------------ *)

\* The steps of the node that leave all goals alone.
GoalsAlone ==
    \/ ListRuntimeParameterNames \/ FetchParameterByRuntimePath \/ OnConfigure \/ OnActivate
    \/ OnDeactivate \/ OnCleanup \/ SetNodeParameters \/ HandleCommitConfiguration
    \/ HandleRollbackDirty \/ HandleCheckForUpdates \/ HandlePushAuditEvents \/ OtherClient
    \/ RestartRuntime \/ (Tick /\ UNCHANGED ros_vars)
GoalStep(g) ==
    HandlePullGoal(g) \/ HandlePullCancel(g) \/ ExecutePullGoal(g) \/ PullUpdatesAction(g) \/ ReportPullGoal(g)

\* Every step of RosNext is a step of one goal or leaves the goals alone.
LEMMA RosNextSplits == RosNext => GoalsAlone \/ \E g \in Goals : GoalStep(g)
BY Zenon DEF RosNext, GoalsAlone, GoalStep

\* The lifecycle, the services and the environment change no goal.
LEMMA GoalsAloneUnchanged == GoalsAlone => UNCHANGED goals
<1>1. UNCHANGED ros_vars => UNCHANGED goals
  BY DEF ros_vars
<1>2. ListRuntimeParameterNames \/ FetchParameterByRuntimePath \/ OnConfigure => UNCHANGED goals
  BY Zenon DEF ListRuntimeParameterNames, FetchParameterByRuntimePath, OnConfigure
<1>3. OnActivate \/ OnDeactivate \/ OnCleanup \/ SetNodeParameters \/ RestartRuntime => UNCHANGED goals
  BY Zenon DEF OnActivate, OnDeactivate, OnCleanup, SetNodeParameters, RestartRuntime
<1>4. \/ HandleCommitConfiguration \/ HandleRollbackDirty \/ HandleCheckForUpdates
      \/ HandlePushAuditEvents \/ OtherClient
      => UNCHANGED ros_vars
  BY Zenon DEF HandleCommitConfiguration, HandleRollbackDirty, HandleCheckForUpdates,
        HandlePushAuditEvents, OtherClient, Replied
<1> QED BY <1>1, <1>2, <1>3, <1>4, Zenon DEF GoalsAlone

\* The five steps of a pull goal together.
LEMMA GoalStepKeepsGoals ==
    ASSUME GoalsInv, NEW g \in Goals, GoalStep(g)
    PROVE  GoalsInv'
BY PullGoalKeeps, PullCancelKeeps, ExecuteKeeps, CallKeeps, ReportKeeps, Zenon DEF GoalStep

\* Stuttering on the goals.
LEMMA UnchangedGoals ==
    ASSUME GoalsInv, UNCHANGED goals
    PROVE  GoalsInv'
BY DEF GoalsInv

\* No goal exists at first.
LEMMA InitGoals == EdgeInit => GoalsInv
BY DEF EdgeInit, RosInit, GoalsInv, GoalInv, GoalType, Stages, NoGoal

\* GoalsInv is inductive for the composed system.
LEMMA NextGoals == GoalsInv /\ [EdgeNext]_edge_vars => GoalsInv'
<1> SUFFICES ASSUME GoalsInv, [EdgeNext]_edge_vars PROVE GoalsInv'
  OBVIOUS
<1>1. CASE RosNext
  BY <1>1, RosNextSplits, GoalsAloneUnchanged, UnchangedGoals, GoalStepKeepsGoals, Zenon
<1>2. CASE UNCHANGED goals
  BY <1>2, UnchangedGoals
<1>3. RosNext \/ UNCHANGED goals
  BY Zenon DEF EdgeNext, edge_vars, ros_vars
<1> QED BY <1>1, <1>2, <1>3

\* The outcome of every pull goal tells what happened to the configuration,
\* for any number of concurrent goals and whatever cancels and lifecycle
\* requests they race with (ExecutePullGoal).
THEOREM GoalOutcomesTrue == EdgeSpec => []GoalOutcomeIsTrue
<1>1. GoalsInv => GoalOutcomeIsTrue
  BY DEF GoalsInv, GoalInv, GoalOutcomeIsTrue
<1> QED BY <1>1, InitGoals, NextGoals, PTL DEF EdgeSpec

-----------------------------------------------------------------------------
(* --------------------------- The inactive node ------------------------- *)

\* How the flags of the two adapters follow the lifecycle state.  Only before
\* the first configuration is the control adapter active without the node being
\* so, and then there is no goal.
FlagsInv ==
    /\ node.state = "inactive" => ~ node.lifecycle_active /\ ~ node.mutations_enabled
    /\ node.state = "unconfigured" => ~ node.servers /\ ~ node.callback
    /\ node.state = "unconfigured" /\ node.lifecycle_active => \A g \in Goals : goals[g].pc = "none"

\* A call under way while the node is not active raced with the lifecycle or is
\* allowed by the policy.
CallsInv ==
    node.state # "active" =>
        \A g \in Goals : goals[g].pc = "calling" => g \in racing \/ "pull_updates" \in node.policy

NodeType ==
    node \in [state: {"unconfigured", "inactive", "active"}, servers: BOOLEAN, callback: BOOLEAN,
              mutations_enabled: BOOLEAN, lifecycle_active: BOOLEAN, policy: InactivePolicies \cup {{"get_sync_status"}}]

NodeInv == NodeType /\ FlagsInv /\ CallsInv /\ GoalsInv

\* NodeInv holds before the first OnConfigure.
LEMMA InitNode == EdgeInit => NodeInv
<1> SUFFICES ASSUME EdgeInit PROVE NodeInv
  OBVIOUS
<1>1. RosInit /\ GoalsInv
  BY InitGoals DEF EdgeInit
<1>2. NodeType
  BY <1>1 DEF RosInit, NodeType
<1>3. FlagsInv /\ CallsInv
  BY <1>1 DEF RosInit, FlagsInv, CallsInv, NoGoal
<1> QED BY <1>1, <1>2, <1>3 DEF NodeInv

\* OnConfigure, OnActivate, OnDeactivate and OnCleanup set the flags, and add to
\* racing the calls that are under way.
LEMMA LifecycleKeepsNode ==
    ASSUME NodeInv, OnConfigure \/ OnActivate \/ OnDeactivate \/ OnCleanup
    PROVE  NodeType' /\ FlagsInv' /\ CallsInv'
<1> USE DEF NodeInv
<1>1. CASE OnConfigure /\ UNCHANGED node
  <2>1. UNCHANGED <<node, goals>> /\ racing' = racing \cup PastCheck
    BY <1>1 DEF OnConfigure
  <2> QED BY <2>1 DEF NodeType, FlagsInv, CallsInv
<1>2. CASE OnConfigure /\ ~ UNCHANGED node
  <2>1. PICK policy \in InactivePolicies :
           node' = [node EXCEPT !.state = "inactive", !.servers = TRUE, !.policy = policy,
                                !.lifecycle_active = FALSE, !.mutations_enabled = FALSE]
    BY <1>2, Zenon DEF OnConfigure
  <2>2. UNCHANGED goals /\ racing' = racing \cup PastCheck
    BY <1>2, Zenon DEF OnConfigure
  <2> QED BY <2>1, <2>2, Zenon DEF NodeType, FlagsInv, CallsInv, PastCheck
<1>3. CASE OnActivate
  BY <1>3, Zenon DEF OnActivate, NodeType, FlagsInv, CallsInv
<1>4. CASE OnDeactivate
  BY <1>4, Zenon DEF OnDeactivate, NodeType, FlagsInv, CallsInv, PastCheck
<1>5. CASE OnCleanup
  BY <1>5, Zenon DEF OnCleanup, NodeType, FlagsInv, CallsInv, PastCheck
<1> QED BY <1>1, <1>2, <1>3, <1>4, <1>5

\* A goal is accepted only by a running server, and starts its call only when
\* the node is active or its policy allows it.
LEMMA GoalStepKeepsNode ==
    ASSUME NodeInv, NEW h \in Goals, GoalStep(h)
    PROVE  NodeType' /\ FlagsInv' /\ CallsInv'
<1> USE DEF NodeInv
<1>1. PICK x : Step(h, x)
  BY Zenon DEF GoalStep, HandlePullGoal, HandlePullCancel, ExecutePullGoal, PullUpdatesAction, ReportPullGoal
<1>2. UNCHANGED <<node, racing>> /\ goals' = [goals EXCEPT ![h] = x]
  BY <1>1 DEF Step, executor_vars
<1>3. goals'[h] = x /\ \A g \in Goals : g # h => goals'[g] = goals[g]
  BY <1>2 DEF GoalsInv
<1>4. NodeType'
  BY <1>2 DEF NodeType
<1>5. node.servers \/ goals[h].pc # "none"
  BY Zenon DEF GoalStep, HandlePullGoal, HandlePullCancel, ExecutePullGoal, PullUpdatesAction, ReportPullGoal
<1>6. FlagsInv'
  BY <1>2, <1>3, <1>5 DEF FlagsInv
<1>7. goals'[h].pc = "calling" =>
          goals[h].pc = "calling" \/ (goals[h].pc = "accepted" /\ IsOperationAllowedWhileInactive("pull_updates"))
  <2>1. GoalInv(goals[h])
    BY DEF GoalsInv
  <2>2. CASE HandlePullGoal(h)
    <3>1. PICK r \in PullRequests \cup {NoRequest} : Step(h, [NoGoal EXCEPT !.pc = "accepted", !.request = r])
      BY <2>2, Zenon DEF HandlePullGoal
    <3>2. goals'[h] = [NoGoal EXCEPT !.pc = "accepted", !.request = r]
      BY <3>1 DEF Step, GoalsInv
    <3> QED BY <3>2 DEF NoGoal
  <2>3. CASE HandlePullCancel(h)
    BY <2>3, <2>1 DEF HandlePullCancel, Step, GoalsInv, GoalInv, GoalType, Stages
  <2>4. CASE ExecutePullGoal(h)
    BY <2>4, <2>1 DEF ExecutePullGoal, Step, Done, GoalsInv, GoalInv, GoalType, Stages
  <2>5. CASE PullUpdatesAction(h)
    BY <2>5 DEF PullUpdatesAction
  <2>6. CASE ReportPullGoal(h)
    BY <2>6, <2>1, Zenon DEF ReportPullGoal, Step, Done, GoalsInv, GoalInv, GoalType, Stages
  <2> QED BY <2>2, <2>3, <2>4, <2>5, <2>6, Zenon DEF GoalStep
<1>8. CallsInv'
  BY <1>2, <1>3, <1>7 DEF CallsInv, FlagsInv, NodeType, IsOperationAllowedWhileInactive
<1> QED BY <1>4, <1>6, <1>8

\* Everything else leaves node, goals and racing alone.
LEMMA OthersKeepNode ==
    ASSUME NodeInv, UNCHANGED <<node, goals, racing>>
    PROVE  NodeType' /\ FlagsInv' /\ CallsInv'
BY DEF NodeInv, NodeType, FlagsInv, CallsInv

\* A step that leaves the goals alone is a lifecycle step or leaves the node alone.
LEMMA AloneSplits ==
    GoalsAlone => \/ OnConfigure \/ OnActivate \/ OnDeactivate \/ OnCleanup
                  \/ UNCHANGED <<node, goals, racing>>
<1>1. UNCHANGED ros_vars => UNCHANGED <<node, goals, racing>>
  BY DEF ros_vars
<1>2. ListRuntimeParameterNames \/ FetchParameterByRuntimePath => UNCHANGED <<node, goals, racing>>
  BY Zenon DEF ListRuntimeParameterNames, FetchParameterByRuntimePath
<1>3. SetNodeParameters \/ RestartRuntime => UNCHANGED <<node, goals, racing>>
  BY Zenon DEF SetNodeParameters, RestartRuntime
<1>4. \/ HandleCommitConfiguration \/ HandleRollbackDirty \/ HandleCheckForUpdates
      \/ HandlePushAuditEvents \/ OtherClient
      => UNCHANGED ros_vars
  BY Zenon DEF HandleCommitConfiguration, HandleRollbackDirty, HandleCheckForUpdates,
        HandlePushAuditEvents, OtherClient, Replied
<1> QED BY <1>1, <1>2, <1>3, <1>4, Zenon DEF GoalsAlone

\* NodeInv is inductive for the composed system.
LEMMA NextNode == NodeInv /\ [EdgeNext]_edge_vars => NodeInv'
<1> SUFFICES ASSUME NodeInv, [EdgeNext]_edge_vars PROVE NodeInv'
  OBVIOUS
<1>1. GoalsInv'
  BY NextGoals DEF NodeInv
<1>2. CASE RosNext
  <2>1. CASE GoalsAlone
    <3>1. CASE OnConfigure \/ OnActivate \/ OnDeactivate \/ OnCleanup
      BY <1>1, <3>1, LifecycleKeepsNode DEF NodeInv
    <3>2. CASE UNCHANGED <<node, goals, racing>>
      BY <1>1, <3>2, OthersKeepNode DEF NodeInv
    <3> QED BY <2>1, <3>1, <3>2, AloneSplits
  <2>2. ASSUME NEW g \in Goals, GoalStep(g) PROVE NodeType' /\ FlagsInv' /\ CallsInv'
    BY <2>2, GoalStepKeepsNode, Zenon
  <2> QED BY <1>1, <1>2, <2>1, <2>2, RosNextSplits, Zenon DEF NodeInv
<1>3. CASE UNCHANGED <<node, goals, racing>>
  BY <1>1, <1>3, OthersKeepNode DEF NodeInv
<1>4. RosNext \/ UNCHANGED <<node, goals, racing>>
  BY Zenon DEF EdgeNext, edge_vars, ros_vars
<1> QED BY <1>2, <1>3, <1>4

\* While the node is not active its set callback passes nothing on: it is
\* disabled or not registered.
LEMMA NoSetWhileInactive ==
    ASSUME NodeInv, node.state # "active", SetNodeParameters
    PROVE  UNCHANGED snapshot
<1>1. ~ node.callback \/ ~ node.mutations_enabled
  BY DEF NodeInv, NodeType, FlagsInv
<1> QED BY <1>1, Zenon DEF SetNodeParameters, OnSetParameters, NoCallback

\* While the node is not active a service that runs is one its policy names.
LEMMA ServiceIsAllowed ==
    ASSUME NodeInv, node.state # "active", NEW op, Handle(op)
    PROVE  op \in node.policy
BY DEF NodeInv, NodeType, FlagsInv, Handle, IsOperationAllowedWhileInactive

\* Every step of the composed system is a PausedStep.
LEMMA StepIsPaused == NodeInv /\ [EdgeNext]_edge_vars => PausedStep
<1> SUFFICES ASSUME NodeInv, [EdgeNext]_edge_vars, deployment = "node", node.state # "active",
                    snapshot' # snapshot, ~ OtherClient, ~ RestartRuntime
             PROVE  \/ \E g \in Goals : /\ goals[g].pc = "calling" /\ goals'[g].pc = "called"
                                        /\ g \in racing \/ "pull_updates" \in node.policy
                    \/ /\ goals' = goals
                       /\ node.policy \cap {"commit_configuration", "rollback_dirty", "check_for_updates",
                                            "push_audit_events"} # {}
  BY Zenon DEF PausedStep
<1>1. RosNext
  BY DEF EdgeNext, edge_vars
<1>2. CASE GoalsAlone
  <2>1. goals' = goals
    BY <1>2, GoalsAloneUnchanged
  <2>2. ~ (ListRuntimeParameterNames \/ FetchParameterByRuntimePath \/ OnConfigure \/ OnActivate
           \/ OnDeactivate \/ OnCleanup \/ Tick)
    BY Zenon DEF ListRuntimeParameterNames, FetchParameterByRuntimePath, OnConfigure, OnActivate, OnDeactivate,
                 OnCleanup, Tick
  <2>3. ~ SetNodeParameters
    BY NoSetWhileInactive
  <2>4. HandleCommitConfiguration \/ HandleRollbackDirty \/ HandleCheckForUpdates \/ HandlePushAuditEvents
    BY <1>2, <2>2, <2>3, Zenon DEF GoalsAlone
  <2>5. \E op \in {"commit_configuration", "rollback_dirty", "check_for_updates", "push_audit_events"} : Handle(op)
    BY <2>4, Zenon DEF HandleCommitConfiguration, HandleRollbackDirty, HandleCheckForUpdates, HandlePushAuditEvents
  <2>6. \E op \in {"commit_configuration", "rollback_dirty", "check_for_updates", "push_audit_events"} :
            op \in node.policy
    BY <2>5, ServiceIsAllowed, Zenon
  <2> QED BY <2>1, <2>6
<1>3. ASSUME NEW g \in Goals, GoalStep(g)
      PROVE  /\ goals[g].pc = "calling" /\ goals'[g].pc = "called"
             /\ g \in racing \/ "pull_updates" \in node.policy
  <2>1. PullUpdatesAction(g)
    BY <1>3, Zenon DEF GoalStep, HandlePullGoal, HandlePullCancel, ExecutePullGoal, ReportPullGoal
  <2>2. goals[g].pc = "calling"
    BY <2>1 DEF PullUpdatesAction
  <2>3. PICK a : Step(g, [goals[g] EXCEPT !.pc = "called", !.applied = a])
    BY <2>1, Zenon DEF PullUpdatesAction
  <2>4. goals'[g] = [goals[g] EXCEPT !.pc = "called", !.applied = a]
    BY <2>3 DEF Step, NodeInv, GoalsInv
  <2>5. goals'[g].pc = "called"
    BY <2>4 DEF NodeInv, GoalsInv, GoalInv, GoalType
  <2>6. g \in racing \/ "pull_updates" \in node.policy
    BY <2>2 DEF NodeInv, CallsInv
  <2> QED BY <2>2, <2>5, <2>6
<1> QED BY <1>1, <1>2, <1>3, RosNextSplits, Zenon

\* While the node is not active it changes the session only as its inactive
\* policy allows or by a pull that was past its check, for any number of goals
\* and any policies (IsOperationAllowedWhileInactive, SetMutationsEnabled).
THEOREM InactiveNodePauses == EdgeSpec => InactiveMeansPaused
BY InitNode, NextNode, StepIsPaused, PTL DEF EdgeSpec, InactiveMeansPaused

-----------------------------------------------------------------------------
(* ------------------------- The node parameters ------------------------- *)

\* A reader who took v for the value of path p when at was the next event number
\* can tell: v is still the value, or the buffer has a value event about p from
\* then on, or it has dropped events of that time.
Seen(u, p, v, at) ==
    /\ at \in Nat /\ at <= u.event_bus.next_sequence
    /\ \/ v = EffectiveValue(u, p)
       \/ u.event_bus.dropped_events >= at
       \/ \E i \in 1 .. Len(u.event_bus.events) :
             /\ u.event_bus.events[i].payload.kind \in {"ParameterChanged", "ResetApplied"}
             /\ u.event_bus.events[i].payload.paths = {p}
             /\ u.event_bus.events[i].sequence >= at

\* What the node declared, and what it has read so far, is such a value.
MirrorInv ==
    \A p \in Paths : mirror[p] # NoValue /\ synced[p] # Unknown
                       => Seen(snapshot, p, mirror[p], synced[p])

Reading(r) ==
    /\ r = [todo |-> r.todo, values |-> r.values, at |-> r.at, busy |-> r.busy]
    /\ r.values = [p \in Paths |-> r.values[p]]
    /\ r.at = [p \in Paths |-> r.at[p]]

ReadingInv ==
    /\ Reading(reading)
    /\ \A p \in Paths : reading.values[p] # NoValue
                          => Seen(snapshot, p, reading.values[p], reading.at[p])

\* What was seen of the session stays explained.
StaysSeen == \A p \in Paths : \A v, at : Seen(snapshot, p, v, at) => Seen(snapshot', p, v, at)

\* The session moves and the node parameters stay.
LEMMA StayKeeps ==
    ASSUME StaysSeen
    PROVE  /\ MirrorInv /\ UNCHANGED <<mirror, synced>> => MirrorInv'
           /\ ReadingInv /\ UNCHANGED reading => ReadingInv'
<1>1. ASSUME MirrorInv, mirror' = mirror, synced' = synced PROVE MirrorInv'
  BY <1>1, Zenon DEF StaysSeen, MirrorInv
<1>2. ASSUME ReadingInv, reading' = reading PROVE ReadingInv'
  BY <1>2, Zenon DEF StaysSeen, ReadingInv, Reading
<1> QED
  BY <1>1, <1>2

\* What get_parameter returns is seen at the next event number.
LEMMA ReadIsSeen ==
    ASSUME NextSequence \in Nat, NEW p \in Paths
    PROVE  Seen(snapshot, p, EffectiveValue(snapshot, p), NextSequence)
BY DEF Seen, NextSequence

\* Nothing is read yet.
LEMMA IdleReads ==
    ASSUME NEW r, r = Idle \/ \E t, b : r = [Idle EXCEPT !.todo = t, !.busy = b]
    PROVE  Reading(r) /\ \A p \in Paths : r.values[p] = NoValue
<1> DEFINE v == [p \in Paths |-> NoValue]
           a == [p \in Paths |-> 0]
<1>1. v = [p \in Paths |-> v[p]] /\ a = [p \in Paths |-> a[p]] /\ \A p \in Paths : v[p] = NoValue
  BY Zenon
<1>2. Idle = [todo |-> <<>>, values |-> v, at |-> a, busy |-> FALSE]
  BY Zenon DEF Idle
<1> HIDE DEF v, a
<1>3. PICK t, b : r = [todo |-> t, values |-> v, at |-> a, busy |-> b]
  <2>1. ASSUME NEW t, NEW b, r = [Idle EXCEPT !.todo = t, !.busy = b]
        PROVE  r = [todo |-> t, values |-> v, at |-> a, busy |-> b]
    BY <1>2, <2>1, Zenon
  <2> QED
    BY <1>2, <2>1, Zenon
<1>4. /\ r.values = v /\ r.at = a
      /\ r = [todo |-> r.todo, values |-> r.values, at |-> r.at, busy |-> r.busy]
  BY <1>3, Zenon
<1> QED
  BY <1>1, <1>4, Zenon DEF Reading

\* The record of FetchParameterByRuntimePath.
Fetches(o, p, n, v, r) == r = [o EXCEPT !.todo = Tail(@), !.at[p] = n, !.values[p] = v]
Took(o, p, n, v, r) ==
    \A q \in Paths : /\ r.values[q] = IF q = p THEN v ELSE o.values[q]
                     /\ r.at[q] = IF q = p THEN n ELSE o.at[q]

\* What one fetch leaves in the list being read: the value of p, and the event
\* number it was read at.
LEMMA Fetched ==
    ASSUME NEW o, Reading(o), NEW p, NEW n, NEW v, NEW r, Fetches(o, p, n, v, r)
    PROVE  Reading(r) /\ Took(o, p, n, v, r)
<1>1. o = [todo |-> o.todo, values |-> o.values, at |-> o.at, busy |-> o.busy]
  BY DEF Reading
<1>2. /\ r.values = [o.values EXCEPT ![p] = v] /\ r.at = [o.at EXCEPT ![p] = n]
      /\ r = [todo |-> r.todo, values |-> r.values, at |-> r.at, busy |-> r.busy]
  BY <1>1, Zenon DEF Fetches
<1>3. /\ o.values = [q \in Paths |-> o.values[q]]
      /\ o.at = [q \in Paths |-> o.at[q]]
  BY DEF Reading
<1> QED
  BY <1>2, <1>3 DEF Reading, Took

\* ListRuntimeParameterNames and FetchParameterByRuntimePath.
LEMMA ReadKeeps ==
    ASSUME NextSequence \in Nat, MirrorInv, ReadingInv,
           ListRuntimeParameterNames \/ FetchParameterByRuntimePath
    PROVE  MirrorInv' /\ ReadingInv'
<1>1. UNCHANGED <<snapshot, now, mirror, synced>>
  BY Zenon DEF ListRuntimeParameterNames, FetchParameterByRuntimePath
<1>2. MirrorInv'
  BY <1>1, Zenon DEF MirrorInv
<1>3. \/ reading' = Idle \/ \E t, b : reading' = [Idle EXCEPT !.todo = t, !.busy = b]
      \/ \E p : reading' = [reading EXCEPT !.todo = Tail(@), !.at[p] = NextSequence,
                                           !.values[p] = EffectiveValue(snapshot, p)]
  BY Zenon DEF ListRuntimeParameterNames, FetchParameterByRuntimePath
<1>4. ASSUME reading' = Idle \/ \E t, b : reading' = [Idle EXCEPT !.todo = t, !.busy = b]
      PROVE  ReadingInv'
  <2>1. Reading(reading') /\ \A p \in Paths : reading'.values[p] = NoValue
    BY <1>4, IdleReads, Zenon
  <2> QED
    BY <2>1, Zenon DEF ReadingInv, Reading
<1>5. ASSUME NEW p, reading' = [reading EXCEPT !.todo = Tail(@), !.at[p] = NextSequence,
                                               !.values[p] = EffectiveValue(snapshot, p)]
      PROVE  ReadingInv'
  <2> DEFINE v == EffectiveValue(snapshot, p)
             n == NextSequence
  <2>1. Reading(reading) /\ Fetches(reading, p, n, v, reading')
    BY <1>5 DEF ReadingInv, Fetches
  <2> HIDE DEF v, n
  <2>2. Reading(reading') /\ Took(reading, p, n, v, reading')
    BY <2>1, Fetched, Zenon
  <2>3. ASSUME NEW q \in Paths, reading'.values[q] # NoValue
        PROVE  Seen(snapshot, q, reading'.values[q], reading'.at[q])
    <3>1. CASE q = p
      BY <2>2, <3>1, ReadIsSeen DEF v, n, Took
    <3>2. CASE q # p
      BY <2>2, <2>3, <3>2, Zenon DEF ReadingInv, Took
    <3> QED
      BY <3>1, <3>2
  <2> QED
    BY <1>1, <2>2, <2>3, Zenon DEF ReadingInv, Reading
<1> QED
  BY <1>2, <1>3, <1>4, <1>5, Zenon

\* OnConfigure declares what was read; a session opened anew is unknown.
LEMMA ConfigureKeeps ==
    ASSUME ReadingInv, OnConfigure \/ RestartRuntime
    PROVE  MirrorInv' /\ ReadingInv'
<1>1. reading' = Idle
  BY Zenon DEF OnConfigure, RestartRuntime
<1>2. Reading(reading') /\ \A p \in Paths : reading'.values[p] = NoValue
  BY <1>1, IdleReads, Zenon
<1>3. ReadingInv'
  BY <1>2, Zenon DEF ReadingInv, Reading
<1>4. CASE OnConfigure
  <2>1. UNCHANGED snapshot /\ mirror' = reading.values /\ synced' = reading.at
    BY <1>4, Zenon DEF OnConfigure
  <2> QED
    BY <1>3, <2>1, Zenon DEF ReadingInv, MirrorInv
<1>5. CASE RestartRuntime
  <2>1. \A p \in Paths : synced'[p] = Unknown
    BY <1>5 DEF RestartRuntime
  <2> QED
    BY <1>3, <2>1, Zenon DEF MirrorInv
<1> QED
  BY <1>4, <1>5

\* Node parameters that were written: their values are those of the session, or
\* nothing is known of them.
LEMMA StoredKeeps ==
    ASSUME StaysSeen, MirrorInv, NEW w, NEW at, mirror' = Stored(w), synced' = Synced(w, at),
           \A p \in Paths : WritesTo(w, p) # {} =>
               at = Unknown \/ Seen(snapshot', p, w[LastWriteTo(w, p)].value, at)
    PROVE  MirrorInv'
<1>1. ASSUME NEW p \in Paths, mirror'[p] # NoValue, synced'[p] # Unknown
      PROVE  Seen(snapshot', p, mirror'[p], synced'[p])
  <2>1. CASE WritesTo(w, p) # {}
    BY <1>1, <2>1 DEF Stored, Synced
  <2>2. CASE WritesTo(w, p) = {}
    <3>1. mirror'[p] = mirror[p] /\ synced'[p] = synced[p]
      BY <2>2 DEF Stored, Synced
    <3> QED
      BY <1>1, <3>1, Zenon DEF MirrorInv, StaysSeen
  <2> QED
    BY <2>1, <2>2
<1> QED
  BY <1>1, Zenon DEF MirrorInv

\* NodeMirrorsRuntime is what is left of MirrorInv when at is forgotten.
LEMMA SeenMirrors ==
    ASSUME \/ MirrorInv
           \/ \A p \in Paths : mirror[p] = NoValue
    PROVE  NodeMirrorsRuntime
BY Zenon DEF MirrorInv, Seen, About, NodeMirrorsRuntime

\* Writes the runtime takes are writes to its runtime paths.
LEMMA TakenWrites ==
    ASSUME NEW w \in Seq(WritesAnywhere), \A i \in 1 .. Len(w) : w[i].path \in RuntimePaths
    PROVE  w \in Seq(Writes)
<1>1. ASSUME NEW i \in 1 .. Len(w) PROVE w[i] \in Writes
  <2>1. w[i] \in WritesAnywhere
    OBVIOUS
  <2> QED
    BY <2>1 DEF Writes, WritesAnywhere
<1>2. Len(w) \in Nat /\ DOMAIN w = 1 .. Len(w) /\ w = [i \in 1 .. Len(w) |-> w[i]]
  OBVIOUS
<1>3. w \in [1 .. Len(w) -> Writes]
  BY <1>1, <1>2, Zenon
<1> QED
  BY <1>2, <1>3
(***************************************************************************)
(* The upload of the audit log.  What the broker got, what waits in the    *)
(* queue and in hand, and what crashes lost are the log up to the cursor;  *)
(* UploadOK says it of four values, and has a lemma for each way they      *)
(* change.                                                                 *)
(***************************************************************************)
\* A sequence in order but for repeats, and one strictly in order.
NonDecreasing(q) == \A i, k \in 1 .. Len(q) : i < k => q[i] <= q[k]
Increasing(q) == \A i, k \in 1 .. Len(q) : i < k => q[i] < q[k]

\* What the broker got (b) and what waits (w) are the log up to the cursor, in
\* order, without what was lost.
UploadOK(b, w, gone, cursor) ==
    /\ b \in Seq(Nat) /\ w \in Seq(Nat) /\ cursor \in Nat /\ gone \subseteq 1 .. cursor
    /\ NonDecreasing(b) /\ Increasing(w)
    /\ \A i \in 1 .. Len(b), k \in 1 .. Len(w) : b[i] <= w[k]
    /\ Members(b) \cup Members(w) = (1 .. cursor) \ gone

\* The positions of a concatenation, and what it holds.
LEMMA Joined ==
    ASSUME NEW s \in Seq(Nat), NEW t \in Seq(Nat)
    PROVE  /\ s \o t \in Seq(Nat) /\ Len(s \o t) = Len(s) + Len(t) /\ Len(s) \in Nat /\ Len(t) \in Nat
           /\ \A i \in 1 .. Len(s) : (s \o t)[i] = s[i] /\ i \in 1 .. Len(s \o t)
           /\ \A i \in 1 .. Len(t) : (s \o t)[Len(s) + i] = t[i] /\ Len(s) + i \in 1 .. Len(s \o t)
           /\ \A i \in 1 .. Len(s \o t) : i \in 1 .. Len(s) \/ \E k \in 1 .. Len(t) : i = Len(s) + k
           /\ Members(s \o t) = Members(s) \cup Members(t)
<1> DEFINE u == s \o t
<1>1. u \in Seq(Nat) /\ Len(u) = Len(s) + Len(t) /\ Len(s) \in Nat /\ Len(t) \in Nat
  OBVIOUS
<1>2. \A i \in 1 .. Len(s) : u[i] = s[i] /\ i \in 1 .. Len(u)
  OBVIOUS
<1>3. \A i \in 1 .. Len(t) : u[Len(s) + i] = t[i] /\ Len(s) + i \in 1 .. Len(u)
  OBVIOUS
<1> HIDE DEF u
<1>4. ASSUME NEW i \in 1 .. Len(u), i \notin 1 .. Len(s) PROVE \E k \in 1 .. Len(t) : i = Len(s) + k
  <2>1. i - Len(s) \in 1 .. Len(t) /\ i = Len(s) + (i - Len(s))
    BY <1>1, <1>4
  <2>2. QED
    BY <2>1, Zenon
<1>5. \A i \in 1 .. Len(u) : i \in 1 .. Len(s) \/ \E k \in 1 .. Len(t) : i = Len(s) + k
  BY <1>4, Zenon
<1>6. Members(s) \cup Members(t) \subseteq Members(u)
  BY <1>2, <1>3, Zenon DEF Members
<1>7. ASSUME NEW i \in 1 .. Len(u) PROVE u[i] \in Members(s) \cup Members(t)
  BY <1>2, <1>3, <1>5, Zenon DEF Members
<1>8. Members(u) \subseteq Members(s) \cup Members(t)
  BY <1>7, Zenon DEF Members
<1>9. QED
  BY <1>1, <1>2, <1>3, <1>5, <1>6, <1>8, Zenon DEF u

\* The broker gets the front message again, any number of times.
LEMMA RepeatKeeps ==
    ASSUME NEW b, NEW w, NEW gone, NEW cursor, UploadOK(b, w, gone, cursor), w # <<>>, NEW n \in Nat
    PROVE  UploadOK(b \o [i \in 1 .. n |-> w[1]], w, gone, cursor)
<1> DEFINE c == w[1]
           m == [i \in 1 .. n |-> c]
           u == b \o m
<1>1. /\ b \in Seq(Nat) /\ w \in Seq(Nat) /\ cursor \in Nat /\ gone \subseteq 1 .. cursor
      /\ NonDecreasing(b) /\ Increasing(w)
      /\ \A i \in 1 .. Len(b), k \in 1 .. Len(w) : b[i] <= w[k]
      /\ Members(b) \cup Members(w) = (1 .. cursor) \ gone
  BY Zenon DEF UploadOK
<1>2. Len(b) \in Nat /\ Len(w) \in Nat \ {0} /\ c \in Nat /\ 1 \in 1 .. Len(w)
  BY <1>1
<1>3. \A k \in 1 .. Len(w) : c <= w[k] /\ w[k] \in Nat
  <2>1. \A k \in 1 .. Len(w) : k # 1 => c < w[k] /\ 1 < k
    BY <1>1, <1>2 DEF Increasing
  <2>2. \A k \in 1 .. Len(w) : w[k] \in Nat
    BY <1>1
  <2>3. QED
    BY <1>2, <2>1, <2>2
<1>4. \A i \in 1 .. Len(b) : b[i] <= c /\ b[i] \in Nat
  BY <1>1, <1>2
<1> HIDE DEF c
<1>5. m \in Seq(Nat) /\ Len(m) = n /\ \A i \in 1 .. n : m[i] = c
  BY <1>2
<1> HIDE DEF m
<1>6. /\ u \in Seq(Nat) /\ Len(u) = Len(b) + n
      /\ \A i \in 1 .. Len(b) : u[i] = b[i] /\ i \in 1 .. Len(u)
      /\ \A i \in 1 .. n : u[Len(b) + i] = c
      /\ \A i \in 1 .. Len(u) : i \in 1 .. Len(b) \/ \E k \in 1 .. n : i = Len(b) + k
      /\ Members(u) = Members(b) \cup Members(m)
  BY <1>1, <1>5, Joined, ZenonT(30)
<1> HIDE DEF u
<1>7. \A i \in 1 .. Len(u) : (u[i] = b[i] /\ i \in 1 .. Len(b)) \/ u[i] = c
  BY <1>6, Zenon
<1>8. \A i \in 1 .. Len(u), k \in 1 .. Len(w) : u[i] <= w[k]
  BY <1>1, <1>3, <1>7, Zenon
<1>9. NonDecreasing(u)
  <2> SUFFICES ASSUME NEW i \in 1 .. Len(u), NEW k \in 1 .. Len(u), i < k PROVE u[i] <= u[k]
    BY DEF NonDecreasing
  <2>1. CASE k \in 1 .. Len(b)
    <3>1. i \in 1 .. Len(b)
      BY <1>2, <1>6, <2>1
    <3>2. QED
      BY <1>1, <1>6, <2>1, <3>1, Zenon DEF NonDecreasing
  <2>2. CASE k \notin 1 .. Len(b)
    <3>1. u[k] = c
      BY <1>6, <2>2, Zenon
    <3>2. u[i] <= c
      <4>1. c <= c
        BY <1>2
      <4>2. QED
        BY <1>4, <1>7, <4>1, Zenon
    <3>3. QED
      BY <3>1, <3>2, Zenon
  <2>3. QED
    BY <2>1, <2>2, Zenon
<1>10. Members(u) \cup Members(w) = Members(b) \cup Members(w)
  <2>1. c \in Members(w)
    BY <1>2, Zenon DEF Members, c
  <2>2. Members(m) \subseteq {c}
    BY <1>5, Zenon DEF Members
  <2>3. QED
    BY <1>6, <2>1, <2>2, Zenon
<1>11. QED
  BY <1>1, <1>6, <1>8, <1>9, <1>10, Zenon DEF UploadOK, u, m, c

\* The front message leaves the queue when the broker has it.
LEMMA PopKeeps ==
    ASSUME NEW b, NEW w, NEW gone, NEW cursor, UploadOK(b, w, gone, cursor), w # <<>>, w[1] \in Members(b)
    PROVE  UploadOK(b, Tail(w), gone, cursor)
<1> DEFINE t == Tail(w)
<1>1. /\ b \in Seq(Nat) /\ w \in Seq(Nat) /\ cursor \in Nat /\ gone \subseteq 1 .. cursor
      /\ NonDecreasing(b) /\ Increasing(w)
      /\ \A i \in 1 .. Len(b), k \in 1 .. Len(w) : b[i] <= w[k]
      /\ Members(b) \cup Members(w) = (1 .. cursor) \ gone
  BY Zenon DEF UploadOK
<1>2. /\ t \in Seq(Nat) /\ Len(t) = Len(w) - 1 /\ Len(w) \in Nat \ {0}
      /\ \A i \in 1 .. Len(t) : t[i] = w[i + 1]
  BY <1>1
<1> HIDE DEF t
<1>3. /\ \A i \in 1 .. Len(t) : i + 1 \in 1 .. Len(w)
      /\ \A i \in 1 .. Len(w) : i = 1 \/ (i - 1 \in 1 .. Len(t) /\ (i - 1) + 1 = i)
  BY <1>2
<1>4. Increasing(t)
  <2> SUFFICES ASSUME NEW i \in 1 .. Len(t), NEW k \in 1 .. Len(t), i < k PROVE t[i] < t[k]
    BY DEF Increasing
  <2>1. i + 1 < k + 1
    BY <1>2
  <2>2. w[i + 1] < w[k + 1]
    BY <1>1, <1>3, <2>1, Zenon DEF Increasing
  <2>3. QED
    BY <1>2, <2>2
<1>5. \A i \in 1 .. Len(b), k \in 1 .. Len(t) : b[i] <= t[k]
  BY <1>1, <1>2, <1>3, Zenon
<1>6. Members(t) \subseteq Members(w) /\ Members(w) \subseteq Members(t) \cup {w[1]}
  <2>1. ASSUME NEW i \in 1 .. Len(w), i # 1 PROVE w[i] \in Members(t)
    <3>1. t[i - 1] = w[(i - 1) + 1]
      BY <1>2, <1>3, <2>1, Zenon
    <3>2. t[i - 1] = w[i]
      BY <1>3, <2>1, <3>1, Zenon
    <3>3. QED
      BY <1>3, <2>1, <3>2, Zenon DEF Members
  <2>2. ASSUME NEW i \in 1 .. Len(t) PROVE t[i] \in Members(w)
    BY <1>2, <1>3, Zenon DEF Members
  <2>3. \A x \in Members(w) : \E i \in 1 .. Len(w) : x = w[i]
    BY Zenon DEF Members
  <2>4. \A x \in Members(t) : \E i \in 1 .. Len(t) : x = t[i]
    BY Zenon DEF Members
  <2>5. QED
    BY <2>1, <2>2, <2>3, <2>4, Zenon
<1>7. Members(b) \cup Members(t) = Members(b) \cup Members(w)
  BY <1>6, Zenon
<1>8. QED
  BY <1>1, <1>2, <1>4, <1>5, <1>7, Zenon DEF UploadOK, t

\* The next n records are taken.
LEMMA TakenKeeps ==
    ASSUME NEW b, NEW w, NEW gone, NEW cursor, UploadOK(b, w, gone, cursor), NEW n \in Nat
    PROVE  UploadOK(b, w \o [i \in 1 .. n |-> cursor + i], gone, cursor + n)
<1> DEFINE m == [i \in 1 .. n |-> cursor + i]
           u == w \o m
           top == cursor + n
<1>1. /\ b \in Seq(Nat) /\ w \in Seq(Nat) /\ cursor \in Nat /\ gone \subseteq 1 .. cursor
      /\ NonDecreasing(b) /\ Increasing(w)
      /\ \A i \in 1 .. Len(b), k \in 1 .. Len(w) : b[i] <= w[k]
      /\ Members(b) \cup Members(w) = (1 .. cursor) \ gone
  BY Zenon DEF UploadOK
<1>2. \A i \in 1 .. Len(b) : b[i] \in 1 .. cursor
  <2>1. \A i \in 1 .. Len(b) : b[i] \in Members(b)
    BY Zenon DEF Members
  <2>2. QED
    BY <1>1, <2>1, Zenon
<1>3. \A i \in 1 .. Len(w) : w[i] \in 1 .. cursor
  <2>1. \A i \in 1 .. Len(w) : w[i] \in Members(w)
    BY Zenon DEF Members
  <2>2. QED
    BY <1>1, <2>1, Zenon
<1>4. m \in Seq(Nat) /\ Len(m) = n /\ \A i \in 1 .. n : m[i] = cursor + i
  BY <1>1
<1> HIDE DEF m
<1>5. /\ u \in Seq(Nat) /\ Len(u) = Len(w) + n /\ Len(w) \in Nat
      /\ \A i \in 1 .. Len(w) : u[i] = w[i] /\ i \in 1 .. Len(u)
      /\ \A i \in 1 .. n : u[Len(w) + i] = cursor + i
      /\ \A i \in 1 .. Len(u) : i \in 1 .. Len(w) \/ \E k \in 1 .. n : i = Len(w) + k
      /\ Members(u) = Members(w) \cup Members(m)
  BY <1>1, <1>4, Joined, ZenonT(30)
<1> HIDE DEF u
<1>6. \A i \in 1 .. Len(u) : (u[i] = w[i] /\ i \in 1 .. Len(w)) \/ \E k \in 1 .. n : i = Len(w) + k /\ u[i] = cursor + k
  BY <1>5, Zenon
<1>7. Increasing(u)
  <2> SUFFICES ASSUME NEW i \in 1 .. Len(u), NEW k \in 1 .. Len(u), i < k PROVE u[i] < u[k]
    BY DEF Increasing
  <2>1. CASE k \in 1 .. Len(w)
    <3>1. i \in 1 .. Len(w)
      BY <1>5, <2>1
    <3>2. QED
      BY <1>1, <1>5, <2>1, <3>1, Zenon DEF Increasing
  <2>2. CASE k \notin 1 .. Len(w)
    <3>1. PICK x \in 1 .. n : k = Len(w) + x /\ u[k] = cursor + x
      BY <1>6, <2>2, Zenon
    <3>2. CASE i \in 1 .. Len(w)
      <4>1. u[i] \in 1 .. cursor
        BY <1>3, <1>5, <3>2, Zenon
      <4>2. QED
        BY <1>1, <3>1, <4>1
    <3>3. CASE i \notin 1 .. Len(w)
      <4>1. PICK y \in 1 .. n : i = Len(w) + y /\ u[i] = cursor + y
        BY <1>6, <3>3, Zenon
      <4>2. QED
        BY <1>1, <1>5, <3>1, <4>1
    <3>4. QED
      BY <3>2, <3>3, Zenon
  <2>3. QED
    BY <2>1, <2>2, Zenon
<1>8. \A i \in 1 .. Len(b), k \in 1 .. Len(u) : b[i] <= u[k]
  <2>1. \A i \in 1 .. Len(b) : \A x \in 1 .. n : b[i] <= cursor + x
    BY <1>1, <1>2
  <2>2. QED
    BY <1>1, <1>6, <2>1, Zenon
<1>9. Members(b) \cup Members(u) = (1 .. top) \ gone
  <2>1. Members(m) = {cursor + i : i \in 1 .. n}
    BY <1>4, Zenon DEF Members
  <2>2. 1 .. top = (1 .. cursor) \cup {cursor + i : i \in 1 .. n}
    <3>1. ASSUME NEW x \in 1 .. top, x \notin 1 .. cursor PROVE \E i \in 1 .. n : x = cursor + i
      <4>1. x - cursor \in 1 .. n /\ x = cursor + (x - cursor)
        BY <1>1, <3>1
      <4>2. QED
        BY <4>1, Zenon
    <3>2. \A i \in 1 .. n : cursor + i \in 1 .. top
      BY <1>1
    <3>3. \A x \in 1 .. cursor : x \in 1 .. top
      BY <1>1
    <3> HIDE DEF top
    <3>4. QED
      BY <3>1, <3>2, <3>3, Zenon
  <2>3. \A i \in 1 .. n : cursor + i \notin 1 .. cursor
    BY <1>1
  <2> HIDE DEF top
  <2>4. {cursor + i : i \in 1 .. n} \cap gone = {}
    BY <1>1, <2>3, Zenon
  <2>5. QED
    BY <1>1, <1>5, <2>1, <2>2, <2>4, Zenon
<1>10. top \in Nat /\ gone \subseteq 1 .. top
  BY <1>1
<1> HIDE DEF top
<1>11. QED
  BY <1>1, <1>5, <1>7, <1>8, <1>9, <1>10, Zenon DEF UploadOK, u, m, top

\* What waits is lost, but for what the broker has.
LEMMA DroppedKeeps ==
    ASSUME NEW b, NEW w, NEW gone, NEW cursor, UploadOK(b, w, gone, cursor)
    PROVE  UploadOK(b, <<>>, gone \cup (Members(w) \ Members(b)), cursor)
<1> DEFINE dropped == gone \cup (Members(w) \ Members(b))
<1>1. /\ b \in Seq(Nat) /\ cursor \in Nat /\ gone \subseteq 1 .. cursor /\ NonDecreasing(b)
      /\ Members(b) \cup Members(w) = (1 .. cursor) \ gone
  BY Zenon DEF UploadOK
<1>2. <<>> \in Seq(Nat) /\ 1 .. Len(<<>>) = {}
  OBVIOUS
<1>3. Increasing(<<>>) /\ Members(<<>>) = {} /\ \A i \in 1 .. Len(b), k \in 1 .. Len(<<>>) : b[i] <= <<>>[k]
  BY <1>2, Zenon DEF Increasing, Members
<1>4. dropped \subseteq 1 .. cursor /\ Members(b) = (1 .. cursor) \ dropped
  BY <1>1, Zenon
<1>5. QED
  BY <1>1, <1>2, <1>3, <1>4, Zenon DEF UploadOK

\* The uploader while the QoS makes a success mean that the broker has it.
TransportOK(t) ==
    /\ t = [pending |-> t.pending, offline |-> t.offline, last_backoff |-> t.last_backoff]
    /\ t.pending \in Seq(Nat)

UploadInv ==
    /\ TransportOK(transport) /\ hand \in Seq(Nat)
    /\ UploadOK(broker, transport.pending \o hand, lost, snapshot.audit_uploaded_sequence)

\* retry leaves the queue alone.
LEMMA RetryKeepsQueue ==
    ASSUME NEW t, TransportOK(t), NEW as
    PROVE  TransportOK(retry(t, as)) /\ retry(t, as).pending = t.pending
<1> DEFINE r == retry(t, as)
<1>1. PICK o, n : r = [pending |-> t.pending, offline |-> o, last_backoff |-> n]
  <2>1. PICK q, x, y : t = [pending |-> q, offline |-> x, last_backoff |-> y]
    BY Zenon DEF TransportOK
  <2>2. \A o, n : [t EXCEPT !.offline = o, !.last_backoff = n]
                    = [pending |-> t.pending, offline |-> o, last_backoff |-> n]
    <3> SUFFICES ASSUME NEW o, NEW n
                 PROVE  [t EXCEPT !.offline = o, !.last_backoff = n]
                          = [pending |-> t.pending, offline |-> o, last_backoff |-> n]
      BY Zenon
    <3> DEFINE a == [t EXCEPT !.offline = o]
    <3>2. t.pending = q /\ a = [pending |-> q, offline |-> o, last_backoff |-> y]
      BY <2>1
    <3> HIDE DEF a
    <3>3. [a EXCEPT !.last_backoff = n] = [pending |-> q, offline |-> o, last_backoff |-> n]
      BY <3>2
    <3>4. QED
      BY <3>2, <3>3, Zenon DEF a
  <2>3. \E o, n : r = [t EXCEPT !.offline = o, !.last_backoff = n]
    BY Zenon DEF retry
  <2>4. QED
    BY <2>2, <2>3, Zenon
<1> HIDE DEF r
<1>2. QED
  BY <1>1 DEF TransportOK, r

\* A queue with another content.
LEMMA QueueReplaced ==
    ASSUME NEW t, TransportOK(t), NEW q \in Seq(Nat)
    PROVE  TransportOK([t EXCEPT !.pending = q]) /\ [t EXCEPT !.pending = q].pending = q
<1>1. PICK p, x, y : t = [pending |-> p, offline |-> x, last_backoff |-> y]
  BY Zenon DEF TransportOK
<1>2. [t EXCEPT !.pending = q] = [pending |-> q, offline |-> x, last_backoff |-> y]
  BY <1>1
<1>3. QED
  BY <1>2, Zenon DEF TransportOK

\* The invariant after a step, from its parts.
LEMMA UploadInvNext ==
    ASSUME TransportOK(transport'), hand' \in Seq(Nat),
           UploadOK(broker', transport'.pending \o hand', lost', snapshot'.audit_uploaded_sequence)
    PROVE  UploadInv'
BY Zenon DEF UploadInv, TransportOK, UploadOK, NonDecreasing, Increasing, Members

\* connect and the requests leave the records alone.
LEMMA RetryKeeps ==
    ASSUME UploadInv, NEW as, transport' = retry(transport, as), UNCHANGED <<snapshot, hand, broker, lost>>
    PROVE  UploadInv'
BY RetryKeepsQueue, Zenon DEF UploadInv, TransportOK, UploadOK, NonDecreasing, Increasing, Members

\* The first of one sequence may as well be the last of the one before it.
LEMMA HeadMoved ==
    ASSUME NEW s \in Seq(Nat), NEW t \in Seq(Nat), t # <<>>
    PROVE  /\ Append(s, Head(t)) \in Seq(Nat) /\ Tail(t) \in Seq(Nat)
           /\ Append(s, Head(t)) \o Tail(t) = s \o t
<1> DEFINE a == Append(s, Head(t))
           r == Tail(t)
<1>1. Len(s) \in Nat /\ Len(t) \in Nat /\ Len(t) >= 1 /\ Head(t) \in Nat /\ Head(t) = t[1]
  OBVIOUS
<1>2. /\ r \in Seq(Nat) /\ Len(r) = Len(t) - 1
      /\ \A i \in 1 .. Len(r) : r[i] = t[i + 1]
  BY <1>1
<1>3. /\ a \in Seq(Nat) /\ Len(a) = Len(s) + 1 /\ a[Len(s) + 1] = t[1]
      /\ \A i \in 1 .. Len(s) : a[i] = s[i]
  BY <1>1
<1> HIDE DEF a, r
<1>4. /\ a \o r \in Seq(Nat) /\ Len(a \o r) = Len(a) + Len(r)
      /\ \A i \in 1 .. Len(a) : (a \o r)[i] = a[i]
      /\ \A i \in 1 .. Len(r) : (a \o r)[Len(a) + i] = r[i]
  <2>1. a \in Seq(Nat) /\ r \in Seq(Nat)
    BY <1>2, <1>3, Zenon
  <2>2. QED
    BY <2>1, Joined
<1>5. /\ s \o t \in Seq(Nat) /\ Len(s \o t) = Len(s) + Len(t)
      /\ \A i \in 1 .. Len(s) : (s \o t)[i] = s[i]
      /\ \A i \in 1 .. Len(t) : (s \o t)[Len(s) + i] = t[i]
  BY Joined, Zenon
<1> DEFINE u == a \o r
           v == s \o t
<1>6. u = v
  <2> HIDE DEF u, v
  <2>1. Len(u) = Len(v) /\ Len(u) = Len(s) + Len(t)
    BY <1>1, <1>2, <1>3, <1>4, <1>5 DEF u, v
  <2>2. ASSUME NEW i \in 1 .. Len(u) PROVE u[i] = v[i]
    <3>1. CASE i \in 1 .. Len(s)
      <4>1. i \in 1 .. Len(a)
        BY <1>1, <1>3, <3>1
      <4>2. QED
        BY <1>3, <1>4, <1>5, <3>1, <4>1, Zenon DEF u, v
    <3>2. CASE i = Len(s) + 1
      <4>1. 1 \in 1 .. Len(t) /\ i \in 1 .. Len(a)
        BY <1>1, <1>3, <3>2
      <4>2. QED
        BY <1>3, <1>4, <1>5, <3>2, <4>1, Zenon DEF u, v
    <3>3. CASE i \in Len(s) + 2 .. Len(s) + Len(t)
      <4>1. PICK k \in 1 .. Len(r) : i = Len(a) + k /\ i = Len(s) + (k + 1) /\ k + 1 \in 1 .. Len(t)
        <5>1. /\ i - Len(s) - 1 \in 1 .. Len(r) /\ i = Len(a) + (i - Len(s) - 1)
              /\ i = Len(s) + ((i - Len(s) - 1) + 1) /\ (i - Len(s) - 1) + 1 \in 1 .. Len(t)
          BY <1>1, <1>2, <1>3, <3>3
        <5>2. QED
          BY <5>1, Zenon
      <4>2. u[Len(a) + k] = r[k] /\ r[k] = t[k + 1]
        BY <1>2, <1>4, Zenon DEF u
      <4>3. v[Len(s) + (k + 1)] = t[k + 1]
        BY <1>5, <4>1, Zenon DEF v
      <4>4. QED
        BY <4>1, <4>2, <4>3, Zenon
    <3>4. QED
      BY <1>1, <2>1, <3>1, <3>2, <3>3
  <2>3. u \in Seq(Nat) /\ v \in Seq(Nat)
    BY <1>4, <1>5, Zenon DEF u, v
  <2>4. u = [i \in 1 .. Len(u) |-> u[i]] /\ v = [i \in 1 .. Len(v) |-> v[i]]
    BY <2>3
  <2>5. QED
    BY <2>1, <2>2, <2>4, Zenon
<1>7. QED
  BY <1>2, <1>3, <1>6, Zenon DEF a, r, u, v

\* The front of what waits is the front of the queue.
LEMMA TailOfJoined ==
    ASSUME NEW s \in Seq(Nat), NEW t \in Seq(Nat), s # <<>>
    PROVE  s \o t # <<>> /\ (s \o t)[1] = s[1] /\ Tail(s) \in Seq(Nat) /\ Tail(s) \o t = Tail(s \o t)
<1>1. 1 \in 1 .. Len(s) /\ Tail(s) \in Seq(Nat)
  OBVIOUS
<1>2. (s \o t)[1] = s[1] /\ s \o t # <<>>
  BY <1>1
<1>3. Tail(s) \o t = Tail(s \o t)
  BY <1>1
<1>4. QED
  BY <1>1, <1>2, <1>3, Zenon

\* A record in hand goes to the end of the queue: what waits is the same.
LEMMA QueueKeeps ==
    ASSUME UploadInv, QueueRecord
    PROVE  UploadInv'
<1> DEFINE q == Append(transport.pending, Head(hand))
<1>1. /\ TransportOK(transport) /\ transport.pending \in Seq(Nat) /\ hand \in Seq(Nat) /\ hand # <<>>
      /\ hand' = Tail(hand) /\ transport' = [transport EXCEPT !.pending = q]
      /\ UNCHANGED <<snapshot, broker, lost>>
  BY Zenon DEF UploadInv, QueueRecord, publish_nonblocking, TransportOK
<1>2. q \in Seq(Nat) /\ q \o Tail(hand) = transport.pending \o hand /\ Tail(hand) \in Seq(Nat)
  BY <1>1, HeadMoved, Zenon
<1> HIDE DEF q
<1>3. TransportOK(transport') /\ transport'.pending = q
  BY <1>1, <1>2, QueueReplaced, Zenon
<1>4. transport'.pending \o hand' = transport.pending \o hand /\ hand' \in Seq(Nat)
  BY <1>1, <1>2, <1>3, Zenon
<1>5. UploadOK(broker, transport'.pending \o hand', lost, snapshot.audit_uploaded_sequence)
  BY <1>4, Zenon DEF UploadInv
<1>6. UploadOK(broker', transport'.pending \o hand', lost', snapshot'.audit_uploaded_sequence)
  BY <1>1, <1>5, Zenon
<1>7. QED
  BY <1>3, <1>4, <1>6, UploadInvNext, Zenon

\* How often the broker gets the front record: at least once if the loop ends
\* with a success that means it did.
LEMMA ReceivedCount ==
    ASSUME NEW as \in Attempts, ~ AtMostOnce
    PROVE  \E n \in Nat : /\ \A t : Received(t, as) = [i \in 1 .. n |-> t.pending[1]]
                          /\ last(as).result = "Ok" => n # 0
<1> DEFINE got == {i \in 1 .. Len(as) : as[i].received}
           n == Cardinality(got)
<1>1. PICK len \in 1 .. MaxAttempts : as \in [1 .. len -> Attempt]
  BY Zenon DEF Attempts
<1>2. len \in Nat /\ len >= 1 /\ Len(as) = len
  BY <1>1, TransportAssumption
<1>3. IsFiniteSet(1 .. Len(as))
  BY <1>2, FS_Interval
<1>4. got \in SUBSET (1 .. Len(as))
  BY Zenon
<1>5. IsFiniteSet(got) /\ n \in Nat
  BY <1>3, <1>4, FS_Subset, FS_CardinalityType, Zenon
<1>6. ASSUME last(as).result = "Ok" PROVE n # 0
  <2>1. Len(as) \in 1 .. Len(as) /\ as[Len(as)] \in Attempt
    <3>1. Len(as) \in 1 .. Len(as)
      BY <1>2
    <3>2. QED
      BY <1>1, <1>2, <3>1, Zenon
  <2>2. as[Len(as)].result = "Ok"
    BY <1>6, Zenon DEF last
  <2>3. as[Len(as)].received
    BY <2>1, <2>2, Zenon DEF Attempt
  <2>4. got # {}
    BY <2>1, <2>3, Zenon
  <2>5. QED
    BY <1>5, <2>4, FS_EmptySet, Zenon
<1>7. \A t : Received(t, as) = [i \in 1 .. n |-> t.pending[1]]
  BY Zenon DEF Received
<1>8. QED
  BY <1>5, <1>6, <1>7, Zenon

\* A record goes out once for each attempt the broker saw, and leaves the queue
\* when the loop succeeded.
LEMMA DrainKeeps ==
    ASSUME UploadInv, ~ AtMostOnce, Drain
    PROVE  UploadInv'
<1> DEFINE q == transport.pending
           w == q \o hand
           cursor == snapshot.audit_uploaded_sequence
<1>1. PICK as \in Attempts : transport' = drain_once(transport, as) /\ broker' = broker \o Received(transport, as)
  BY Zenon DEF Drain
<1>2. q # <<>> /\ UNCHANGED <<snapshot, hand, lost>>
  BY Zenon DEF Drain
<1>3. TransportOK(transport) /\ q \in Seq(Nat) /\ hand \in Seq(Nat) /\ UploadOK(broker, w, lost, cursor)
  BY Zenon DEF UploadInv, TransportOK
<1>4. PICK n \in Nat : /\ Received(transport, as) = [i \in 1 .. n |-> q[1]]
                       /\ last(as).result = "Ok" => n # 0
  BY ReceivedCount, Zenon
<1>5. w # <<>> /\ w[1] = q[1] /\ Tail(q) \in Seq(Nat) /\ Tail(q) \o hand = Tail(w)
  BY <1>2, <1>3, TailOfJoined, Zenon
<1> HIDE DEF w
<1>6. UploadOK(broker', w, lost, cursor)
  <2>1. broker' = broker \o [i \in 1 .. n |-> w[1]]
    BY <1>1, <1>4, <1>5, Zenon
  <2>2. QED
    BY <1>3, <1>5, <2>1, RepeatKeeps, Zenon
<1>7. TransportOK(retry(transport, as)) /\ retry(transport, as).pending = q
  BY <1>3, RetryKeepsQueue, Zenon
<1>8. CASE last(as).result # "Ok"
  <2>1. transport' = retry(transport, as)
    BY <1>1, <1>8, Zenon DEF drain_once
  <2>2. TransportOK(transport') /\ transport'.pending \o hand' = w
    BY <1>2, <1>7, <2>1, Zenon DEF w
  <2>3. QED
    BY <1>2, <1>3, <1>6, <2>2, UploadInvNext, Zenon
<1>9. CASE last(as).result = "Ok"
  <2>1. transport' = [retry(transport, as) EXCEPT !.pending = Tail(q)]
    BY <1>1, <1>7, <1>9, Zenon DEF drain_once
  <2>2. TransportOK(transport') /\ transport'.pending = Tail(q)
    BY <1>5, <1>7, <2>1, QueueReplaced, Zenon
  <2>3. transport'.pending \o hand' = Tail(w)
    BY <1>2, <1>5, <2>2, Zenon
  <2>4. w[1] \in Members(broker')
    <3>1. broker \in Seq(Nat)
      BY <1>3, Zenon DEF UploadOK
    <3>2. [i \in 1 .. n |-> q[1]] \in Seq(Nat) /\ Len([i \in 1 .. n |-> q[1]]) = n
      BY <1>2, <1>3
    <3>3. Members(broker') = Members(broker) \cup Members([i \in 1 .. n |-> q[1]])
      BY <1>1, <1>4, <3>1, <3>2, Joined, Zenon
    <3>4. n # 0 => 1 \in 1 .. n
      OBVIOUS
    <3>5. q[1] \in Members([i \in 1 .. n |-> q[1]])
      BY <1>4, <1>9, <3>2, <3>4, Zenon DEF Members
    <3>6. QED
      BY <1>5, <3>3, <3>5, Zenon
  <2>5. UploadOK(broker', Tail(w), lost, cursor)
    BY <1>5, <1>6, <2>4, PopKeeps, Zenon
  <2>6. QED
    BY <1>2, <1>3, <2>2, <2>3, <2>5, UploadInvNext, Zenon
<1>10. QED
  BY <1>8, <1>9, Zenon

\* A crash forgets what waits.
LEMMA CrashKeeps ==
    ASSUME UploadInv, Crash
    PROVE  UploadInv'
<1> DEFINE w == transport.pending \o hand
           cursor == snapshot.audit_uploaded_sequence
<1>1. /\ transport' = NewTransport /\ hand' = <<>> /\ UNCHANGED <<snapshot, broker>>
      /\ lost' = lost \cup (Members(w) \ Members(broker))
  BY Zenon DEF Crash
<1>2. UploadOK(broker, w, lost, cursor)
  BY Zenon DEF UploadInv
<1> HIDE DEF w
<1>3. UploadOK(broker, <<>>, lost', cursor)
  BY <1>1, <1>2, DroppedKeeps, Zenon
<1>4. TransportOK(NewTransport) /\ NewTransport.pending \o <<>> = <<>> /\ <<>> \in Seq(Nat)
  BY DEF TransportOK, NewTransport
<1>5. transport'.pending \o hand' = <<>> /\ TransportOK(transport') /\ hand' \in Seq(Nat)
  BY <1>1, <1>4, Zenon
<1>6. QED
  BY <1>1, <1>3, <1>5, UploadInvNext, Zenon

\* The hand was empty; the records between the cursors are in it now.
LEMMA TakeKeeps ==
    ASSUME UploadInv, hand = <<>>, transport' = transport, broker' = broker, lost' = lost,
           NEW n \in Nat, hand' = [i \in 1 .. n |-> snapshot.audit_uploaded_sequence + i],
           snapshot'.audit_uploaded_sequence = snapshot.audit_uploaded_sequence + n
    PROVE  UploadInv'
<1> DEFINE q == transport.pending
           cursor == snapshot.audit_uploaded_sequence
<1>1. q \in Seq(Nat) /\ TransportOK(transport) /\ UploadOK(broker, q \o hand, lost, cursor) /\ cursor \in Nat
  BY Zenon DEF UploadInv, TransportOK, UploadOK
<1>2. q \o hand = q
  BY <1>1
<1>3. UploadOK(broker, q \o hand', lost, snapshot'.audit_uploaded_sequence)
  BY <1>1, <1>2, TakenKeeps, Zenon
<1>4. hand' \in Seq(Nat)
  BY <1>1
<1>5. QED
  BY <1>1, <1>3, <1>4, UploadInvNext, Zenon

\* The steps of the uploader that leave the session alone.
LEMMA OwnStepsKeep ==
    ASSUME UploadInv, ~ AtMostOnce, Connect \/ AskBackend \/ QueueRecord \/ Drain \/ Crash
    PROVE  UploadInv' /\ UNCHANGED vars
<1>1. CASE Connect
  <2>1. \E as : transport' = retry(transport, as)
    BY <1>1, Zenon DEF Connect, connect
  <2>2. UNCHANGED <<snapshot, hand, broker, lost>> /\ UNCHANGED vars
    BY <1>1, Zenon DEF Connect, vars
  <2>3. QED
    BY <2>1, <2>2, RetryKeeps, Zenon
<1>2. CASE AskBackend
  <2>1. \E as : transport' = retry(transport, as)
    BY <1>2, Zenon DEF AskBackend, request
  <2>2. UNCHANGED <<snapshot, hand, broker, lost>> /\ UNCHANGED vars
    BY <1>2, Zenon DEF AskBackend, vars
  <2>3. QED
    BY <2>1, <2>2, RetryKeeps, Zenon
<1>3. CASE QueueRecord
  BY <1>3, QueueKeeps, Zenon DEF QueueRecord, vars
<1>4. CASE Drain
  BY <1>4, DrainKeeps, Zenon DEF Drain, vars
<1>5. CASE Crash
  BY <1>5, CrashKeeps, Zenon DEF Crash, vars
<1>6. QED
  BY <1>1, <1>2, <1>3, <1>4, <1>5, Zenon

\* At first nothing waits and nothing is uploaded.
LEMMA InitUploads ==
    ASSUME UploadInit, snapshot.audit_uploaded_sequence = 0
    PROVE  UploadInv
<1>1. TransportOK(NewTransport) /\ NewTransport.pending \o <<>> = <<>> /\ <<>> \in Seq(Nat)
  BY DEF TransportOK, NewTransport
<1>2. 1 .. Len(<<>>) = {} /\ 1 .. 0 = {} /\ 0 \in Nat
  OBVIOUS
<1>3. UploadOK(<<>>, <<>>, {}, 0)
  BY <1>1, <1>2, Zenon DEF UploadOK, NonDecreasing, Increasing, Members
<1>4. QED
  BY <1>1, <1>3, Zenon DEF UploadInit, UploadInv

\* What the invariant says of the log.
LEMMA UploadsAccount ==
    ASSUME UploadInv
    PROVE  LogWithoutLost
BY Zenon DEF UploadInv, UploadOK, NonDecreasing, Increasing, LogWithoutLost

(***************************************************************************)
(* The diagnostics bridge.  A dispatch is a loop over the events polled:   *)
(* its recursive function exists because a least position without one has  *)
(* no reason to be, and what its body keeps holds after every position for *)
(* the same reason.                                                        *)
(***************************************************************************)
\* A set of natural numbers has a least element.
LEMMA Least ==
    ASSUME NEW T, T \subseteq Nat, T # {}
    PROVE  \E m \in T : \A k \in T : m <= k
<1> DEFINE R == OpToRel(<, Nat)
<1>1. IsWellFoundedOn(R, Nat)
  BY NatLessThanWellFounded, Zenon
<1>2. \A x, y \in Nat : x < y => <<x, y>> \in R
  BY DEF OpToRel
<1> HIDE DEF R
<1>3. PICK m \in T : \A k \in T : ~ (<<k, m>> \in R)
  BY <1>1, WFMin, Zenon
<1>4. \A k \in T : ~ (k < m)
  BY <1>2, <1>3, Zenon
<1>5. \A k \in T : k \in Nat /\ m \in Nat
  BY Zenon
<1>6. \A k \in T : m <= k
  BY <1>4, <1>5
<1>7. QED
  BY <1>6, Zenon

\* The states of a fold over the first n of the events.
DispatchRun(f, n, d, events, polled) ==
    f = [i \in 0 .. n |-> IF i = 0 THEN d
                          ELSE IF i \in polled THEN Delivered(f[i - 1], events[i]) ELSE f[i - 1]]

\* There is such a function, of any length.
LEMMA RunExists ==
    ASSUME NEW d, NEW events, NEW polled, NEW n \in Nat
    PROVE  \E f : DispatchRun(f, n, d, events, polled)
<1> DEFINE T == {m \in Nat : ~ \E f : DispatchRun(f, m, d, events, polled)}
<1>1. SUFFICES ASSUME T # {} PROVE FALSE
  BY Zenon
<1>2. T \subseteq Nat
  BY Zenon
<1>3. PICK m \in T : \A k \in T : m <= k
  BY <1>1, <1>2, Least, Zenon
<1>4. m \in Nat /\ ~ \E f : DispatchRun(f, m, d, events, polled)
  BY <1>3, Zenon
<1>5. m # 0
  <2>1. 0 .. 0 = {0}
    OBVIOUS
  <2> DEFINE f == [i \in 0 .. 0 |-> d]
  <2>2. f[0] = d /\ \A i \in 0 .. 0 : i = 0
    BY <2>1, Zenon
  <2>3. DispatchRun(f, 0, d, events, polled)
    BY <2>1, <2>2, Zenon DEF DispatchRun
  <2>4. QED
    BY <1>4, <2>3, Zenon
<1>6. m - 1 \in Nat /\ ~ (m <= m - 1)
  BY <1>4, <1>5
<1>7. PICK f : DispatchRun(f, m - 1, d, events, polled)
  <2>1. m - 1 \notin T
    BY <1>3, <1>6, Zenon
  <2>2. QED
    BY <1>6, <2>1, Zenon
<1> HIDE DEF T
<1> DEFINE next(x, i) == IF i \in polled THEN Delivered(x, events[i]) ELSE x
           g == [i \in 0 .. m |-> IF i = m THEN next(f[m - 1], m) ELSE f[i]]
<1>8. /\ \A i \in 0 .. m - 1 : i \in 0 .. m /\ i # m
      /\ \A i \in 0 .. m : i # m => i \in 0 .. m - 1
      /\ \A i \in 0 .. m : i # 0 => i - 1 \in 0 .. m - 1
      /\ m \in 0 .. m /\ m - 1 \in 0 .. m - 1
  BY <1>4, <1>5, <1>6
<1>9. /\ \A i \in 0 .. m - 1 : g[i] = f[i]
      /\ g[m] = next(f[m - 1], m)
  BY <1>8, Zenon
<1>10. \A i \in 0 .. m - 1 : f[i] = IF i = 0 THEN d ELSE next(f[i - 1], i)
  BY <1>7, Zenon DEF DispatchRun
<1>11. \A i \in 0 .. m : g[i] = IF i = 0 THEN d ELSE next(g[i - 1], i)
  <2> SUFFICES ASSUME NEW i \in 0 .. m PROVE g[i] = IF i = 0 THEN d ELSE next(g[i - 1], i)
    BY Zenon
  <2> HIDE DEF g, next
  <2>1. CASE i = m
    BY <1>5, <1>8, <1>9, <2>1, Zenon
  <2>2. CASE i # m
    <3>1. i \in 0 .. m - 1
      BY <1>8, <2>2, Zenon
    <3>2. g[i] = f[i] /\ (i # 0 => g[i - 1] = f[i - 1])
      BY <1>8, <1>9, <3>1, Zenon
    <3>3. QED
      BY <1>10, <3>1, <3>2, Zenon
  <2>3. QED
    BY <2>1, <2>2, Zenon
<1>12. g = [i \in 0 .. m |-> g[i]]
  BY Zenon
<1> HIDE DEF g
<1>13. DispatchRun(g, m, d, events, polled)
  BY <1>11, <1>12, Zenon DEF DispatchRun
<1>14. QED
  BY <1>4, <1>13, Zenon

\* DispatchEvents is the last value of such a function.
LEMMA DispatchRuns ==
    ASSUME NEW d, NEW events, NEW polled, Len(events) \in Nat
    PROVE  \E f : DispatchRun(f, Len(events), d, events, polled) /\ DispatchEvents(d, events, polled) = f[Len(events)]
<1> DEFINE after == CHOOSE f : DispatchRun(f, Len(events), d, events, polled)
<1>1. DispatchRun(after, Len(events), d, events, polled)
  BY RunExists, Zenon
<1>2. DispatchEvents(d, events, polled) = after[Len(events)]
  BY Zenon DEF DispatchEvents, DispatchRun
<1>3. QED
  BY <1>1, <1>2, Zenon
\* The statuses of a bridge b follow the newest events l, for a poller at c whose
\* floor is f.
BridgeOK(b, l, c, f) ==
    /\ c \in Nat /\ f \in Nat /\ b.last_sequence \in Nat
    /\ b.last_sequence <= f \/ b.last_sequence <= c
    /\ b.statuses = [k \in Keys |-> b.statuses[k]]
    /\ l = [k \in Keys |-> l[k]]
    /\ \A k \in Keys : l[k].sequence \in Nat
    /\ \A k \in Keys \ {"runtime.events"} : b.statuses[k] = l[k] \/ l[k].sequence <= f

DispatchOK(d, f) ==
    /\ d = [bridge |-> d.bridge, cursor |-> d.cursor, latest |-> d.latest]
    /\ BridgeOK(d.bridge, d.latest, d.cursor, f)

\* A new status for the key of an event, in either of the two.
LEMMA StatusReplaced ==
    ASSUME NEW m, m = [k \in Keys |-> m[k]], NEW key \in Keys, NEW v
    PROVE  LET u == [m EXCEPT ![key] = v]
           IN  /\ u = [k \in Keys |-> u[k]]
               /\ \A k \in Keys : u[k] = IF k = key THEN v ELSE m[k]
<1> DEFINE u == [m EXCEPT ![key] = v]
           w == [k \in Keys |-> IF k = key THEN v ELSE m[k]]
<1>1. u = w
  BY Zenon
<1>2. w = [k \in Keys |-> w[k]] /\ \A k \in Keys : w[k] = IF k = key THEN v ELSE m[k]
  BY Zenon
<1> HIDE DEF u, w
<1>3. QED
  BY <1>1, <1>2, Zenon DEF u

\* One event, newer than the cursor, that has a channel.
LEMMA IngestKeeps ==
    ASSUME NEW b, NEW l, NEW c, NEW f, BridgeOK(b, l, c, f),
           NEW e, e.sequence \in Nat, e.sequence > c, e.payload.kind \in EventChannelForKind
    PROVE  BridgeOK(IngestEvent(b, e),
                    IF e.payload.kind \in StatusKinds
                    THEN [l EXCEPT ![StatusKey(e.payload.kind)] = EventStatus(e)] ELSE l,
                    e.sequence, f)
<1> DEFINE kind == e.payload.kind
           key == StatusKey(kind)
           v == EventStatus(e)
           newer == [l EXCEPT ![key] = v]
           told == [b.statuses EXCEPT ![key] = v]
           m == IF kind \in StatusKinds THEN newer ELSE l
           x == IngestEvent(b, e)
           n == e.sequence
<1>1. /\ c \in Nat /\ f \in Nat /\ b.last_sequence \in Nat
      /\ b.last_sequence <= f \/ b.last_sequence <= c
      /\ b.statuses = [k \in Keys |-> b.statuses[k]]
      /\ l = [k \in Keys |-> l[k]]
      /\ \A k \in Keys : l[k].sequence \in Nat
      /\ \A k \in Keys \ {"runtime.events"} : b.statuses[k] = l[k] \/ l[k].sequence <= f
  BY Zenon DEF BridgeOK
<1>2. ~ ShouldTreatAsReconnect(b, e) /\ key \in Keys /\ v.sequence = n
  BY DEF ShouldTreatAsReconnect, EventChannelForKind, StatusKey, Keys, EventStatus, Status
<1>3. /\ newer = [k \in Keys |-> newer[k]] /\ \A k \in Keys : newer[k] = IF k = key THEN v ELSE l[k]
      /\ told = [k \in Keys |-> told[k]] /\ \A k \in Keys : told[k] = IF k = key THEN v ELSE b.statuses[k]
  BY <1>1, <1>2, StatusReplaced, Zenon
<1>4. x = IF b.has_sequence /\ n <= b.last_sequence THEN b
          ELSE [last_sequence |-> n, has_sequence |-> TRUE,
                statuses |-> IF kind \in StatusKinds THEN told ELSE b.statuses]
  <2> DEFINE kept(r) == IF r THEN NewBridge.statuses ELSE b.statuses
             after(r) == IF ~ r /\ b.has_sequence /\ n <= b.last_sequence THEN b
                         ELSE [last_sequence |-> n, has_sequence |-> TRUE,
                               statuses |-> IF kind \in StatusKinds
                                            THEN [kept(r) EXCEPT ![key] = Status(StatusCode(e, r), n)]
                                            ELSE kept(r)]
  <2>1. x = after(ShouldTreatAsReconnect(b, e))
    BY Zenon DEF IngestEvent
  <2>2. ShouldTreatAsReconnect(b, e) = FALSE
    BY <1>2 DEF ShouldTreatAsReconnect
  <2>3. x = after(FALSE)
    BY <2>1, <2>2, Zenon
  <2>4. kept(FALSE) = b.statuses /\ v = Status(StatusCode(e, FALSE), n)
    BY Zenon DEF EventStatus
  <2>5. QED
    BY <2>3, <2>4, Zenon
<1> HIDE DEF newer, told, v, key, x
<1>5. m = [k \in Keys |-> m[k]] /\ \A k \in Keys : m[k].sequence \in Nat
  BY <1>1, <1>2, <1>3, Zenon
<1>6. CASE b.has_sequence /\ n <= b.last_sequence
  <2>1. x = b
    BY <1>4, <1>6, Zenon
  <2>2. n <= f /\ b.last_sequence <= f
    BY <1>1, <1>6
  <2>3. \A k \in Keys \ {"runtime.events"} : b.statuses[k] = m[k] \/ m[k].sequence <= f
    BY <1>1, <1>2, <1>3, <2>2, Zenon
  <2> HIDE DEF m
  <2>4. BridgeOK(x, m, n, f)
    BY <1>1, <1>5, <2>1, <2>2, <2>3, Zenon DEF BridgeOK
  <2>5. QED
    BY <2>4, Zenon DEF m, x, newer, v, key
<1>7. CASE ~ (b.has_sequence /\ n <= b.last_sequence)
  <2>1. /\ x.last_sequence = n
        /\ x.statuses = IF kind \in StatusKinds THEN told ELSE b.statuses
    BY <1>4, <1>7
  <2>2. x.statuses = [k \in Keys |-> x.statuses[k]]
    BY <1>1, <1>3, <2>1, Zenon
  <2>3. \A k \in Keys \ {"runtime.events"} : x.statuses[k] = m[k] \/ m[k].sequence <= f
    BY <1>1, <1>3, <2>1, Zenon
  <2>4. n <= n
    OBVIOUS
  <2> HIDE DEF m
  <2>5. BridgeOK(x, m, n, f)
    BY <1>1, <1>5, <2>1, <2>2, <2>3, <2>4, Zenon DEF BridgeOK
  <2>6. QED
    BY <2>5, Zenon DEF m, x, newer, v, key
<1>8. QED
  BY <1>6, <1>7, Zenon

\* One event of a dispatch.
LEMMA DeliverKeeps ==
    ASSUME NEW d, NEW f, DispatchOK(d, f), NEW e, e.sequence \in Nat, e.sequence > d.cursor
    PROVE  DispatchOK(Delivered(d, e), f) /\ Delivered(d, e).cursor = e.sequence
<1> DEFINE x == Delivered(d, e)
<1>1. CASE e.payload.kind \notin EventChannelForKind
  <2>1. PICK b, c, l : d = [bridge |-> b, cursor |-> c, latest |-> l]
    BY Zenon DEF DispatchOK
  <2>2. x = [d EXCEPT !.cursor = e.sequence]
    BY <1>1, Zenon DEF Delivered
  <2>3. x = [bridge |-> b, cursor |-> e.sequence, latest |-> l] /\ d.bridge = b /\ d.latest = l /\ d.cursor = c
    BY <2>1, <2>2
  <2>4. BridgeOK(b, l, c, f)
    BY <2>3, Zenon DEF DispatchOK
  <2>5. c \in Nat /\ c < e.sequence /\ b.last_sequence \in Nat /\ (b.last_sequence <= f \/ b.last_sequence <= c)
    BY <2>3, <2>4, Zenon DEF BridgeOK
  <2>6. b.last_sequence <= f \/ b.last_sequence <= e.sequence
    BY <2>5
  <2>7. BridgeOK(b, l, e.sequence, f)
    BY <2>4, <2>6, Zenon DEF BridgeOK
  <2> HIDE DEF x
  <2>8. x.bridge = b /\ x.latest = l /\ x.cursor = e.sequence
    BY <2>3
  <2>9. DispatchOK(x, f)
    BY <2>3, <2>7, <2>8, Zenon DEF DispatchOK
  <2>10. QED
    BY <2>8, <2>9, Zenon DEF x
<1>2. CASE e.payload.kind \in EventChannelForKind
  <2> DEFINE b == IngestEvent(d.bridge, e)
             l == IF e.payload.kind \in StatusKinds
                  THEN [d.latest EXCEPT ![StatusKey(e.payload.kind)] = EventStatus(e)] ELSE d.latest
  <2>1. x = [bridge |-> b, cursor |-> e.sequence, latest |-> l]
    BY <1>2, Zenon DEF Delivered
  <2>2. BridgeOK(d.bridge, d.latest, d.cursor, f)
    BY Zenon DEF DispatchOK
  <2>3. BridgeOK(b, l, e.sequence, f)
    BY <1>2, <2>2, IngestKeeps, Zenon
  <2> HIDE DEF b, l, x
  <2>4. x.bridge = b /\ x.latest = l /\ x.cursor = e.sequence
    BY <2>1
  <2>5. DispatchOK(x, f)
    BY <2>1, <2>3, <2>4, Zenon DEF DispatchOK
  <2>6. QED
    BY <2>4, <2>5, Zenon DEF x
<1>3. QED
  BY <1>1, <1>2, Zenon

\* A dispatch of events that are newer than the cursor and in order.
LEMMA DispatchKeeps ==
    ASSUME NEW d, NEW f, DispatchOK(d, f), NEW events, Len(events) \in Nat, NEW polled,
           polled \subseteq 1 .. Len(events),
           \A i \in polled : events[i].sequence \in Nat /\ events[i].sequence > d.cursor,
           \A i, k \in polled : i < k => events[i].sequence < events[k].sequence
    PROVE  DispatchOK(DispatchEvents(d, events, polled), f)
<1> DEFINE n == Len(events)
<1>1. PICK after : /\ DispatchRun(after, n, d, events, polled)
                   /\ DispatchEvents(d, events, polled) = after[n]
  BY DispatchRuns, Zenon
<1> DEFINE Holds(i) == /\ DispatchOK(after[i], f)
                       /\ \A k \in polled : k > i => events[k].sequence > after[i].cursor
           T == {i \in 0 .. n : ~ Holds(i)}
<1>2. after[0] = d /\ \A i \in 1 .. n : after[i] = IF i \in polled THEN Delivered(after[i - 1], events[i]) ELSE after[i - 1]
  <2>1. 0 \in 0 .. n /\ \A i \in 1 .. n : i \in 0 .. n /\ i # 0
    OBVIOUS
  <2>2. QED
    BY <1>1, <2>1, Zenon DEF DispatchRun
<1>3. Holds(0)
  BY <1>2, Zenon
<1>4. ASSUME NEW i \in 1 .. n, Holds(i - 1) PROVE Holds(i)
  <2>1. i \in Nat /\ i - 1 \in Nat /\ \A k \in polled : (k > i => k > i - 1) /\ (k > i - 1 /\ k # i => k > i)
    OBVIOUS
  <2>2. CASE i \notin polled
    <3>1. after[i] = after[i - 1]
      BY <1>2, <2>2, Zenon
    <3>2. QED
      BY <1>4, <2>1, <3>1, Zenon
  <2>3. CASE i \in polled
    <3>1. after[i] = Delivered(after[i - 1], events[i])
      BY <1>2, <2>3, Zenon
    <3>2. i > i - 1
      BY <2>1
    <3>3. events[i].sequence \in Nat /\ events[i].sequence > after[i - 1].cursor
      BY <1>4, <2>3, <3>2, Zenon
    <3>4. DispatchOK(after[i], f) /\ after[i].cursor = events[i].sequence
      BY <1>4, <3>1, <3>3, DeliverKeeps, ZenonT(30)
    <3>5. \A k \in polled : k > i => events[k].sequence > events[i].sequence
      <4>1. \A k \in polled : k > i <=> i < k
        BY <2>1
      <4>2. \A k \in polled : i < k => events[i].sequence < events[k].sequence
        BY <2>3, Zenon
      <4>3. \A k \in polled : events[k].sequence \in Nat
        BY Zenon
      <4>4. QED
        BY <2>3, <4>2, <4>3
    <3>6. QED
      BY <3>4, <3>5, Zenon
  <2>4. QED
    BY <2>2, <2>3, Zenon
<1> HIDE DEF Holds
<1>5. T = {}
  <2>1. SUFFICES ASSUME T # {} PROVE FALSE
    BY Zenon
  <2>2. T \subseteq Nat
    OBVIOUS
  <2>3. PICK m \in T : \A k \in T : m <= k
    BY <2>1, <2>2, Least, Zenon
  <2>4. m \in 0 .. n /\ ~ Holds(m) /\ m # 0
    BY <1>3, <2>3, Zenon
  <2>5. m \in 1 .. n /\ m - 1 \in 0 .. n /\ ~ (m <= m - 1)
    BY <2>4
  <2>6. Holds(m - 1)
    BY <2>3, <2>5, Zenon
  <2>7. QED
    BY <1>4, <2>4, <2>5, <2>6, Zenon
<1>6. n \in 0 .. n
  OBVIOUS
<1>7. Holds(n)
  BY <1>5, <1>6, Zenon
<1>8. QED
  BY <1>1, <1>7, Zenon DEF Holds

\* A status about the dispatch itself moves the bridge, and the floor with it.
LEMMA AdvanceKeeps ==
    ASSUME NEW b, NEW l, NEW c, NEW f, BridgeOK(b, l, c, f), NEW status, status.sequence \in Nat
    PROVE  BridgeOK(Advance(b, status), l, c, AtLeast(f, status.sequence))
<1> DEFINE x == Advance(b, status)
           key == "runtime.events"
           told == [b.statuses EXCEPT ![key] = status]
           n == status.sequence
           g == AtLeast(f, n)
           z == IF ~ b.has_sequence \/ n > b.last_sequence THEN n ELSE b.last_sequence
<1>1. /\ c \in Nat /\ f \in Nat /\ b.last_sequence \in Nat
      /\ b.last_sequence <= f \/ b.last_sequence <= c
      /\ b.statuses = [k \in Keys |-> b.statuses[k]]
      /\ l = [k \in Keys |-> l[k]]
      /\ \A k \in Keys : l[k].sequence \in Nat
      /\ \A k \in Keys \ {"runtime.events"} : b.statuses[k] = l[k] \/ l[k].sequence <= f
  BY Zenon DEF BridgeOK
<1>2. x = [last_sequence |-> z, has_sequence |-> TRUE, statuses |-> told]
  BY Zenon DEF Advance
<1>3. key \in Keys
  BY DEF Keys
<1>4. told = [k \in Keys |-> told[k]] /\ \A k \in Keys : told[k] = IF k = key THEN status ELSE b.statuses[k]
  BY <1>1, <1>3, StatusReplaced, Zenon
<1>5. z \in Nat /\ g \in Nat /\ (z <= g \/ z <= c) /\ f <= g
  BY <1>1 DEF AtLeast
<1> HIDE DEF told, g, z, x
<1>6. x.last_sequence = z /\ x.statuses = told
  BY <1>2
<1>7. \A k \in Keys : l[k].sequence <= f => l[k].sequence <= g
  BY <1>1, <1>5
<1>8. \A k \in Keys \ {"runtime.events"} : x.statuses[k] = l[k] \/ l[k].sequence <= g
  BY <1>1, <1>4, <1>6, <1>7, Zenon
<1>9. BridgeOK(x, l, c, g)
  BY <1>1, <1>4, <1>5, <1>6, <1>8, Zenon DEF BridgeOK
<1>10. QED
  BY <1>9, Zenon DEF x, g

\* The bridge, its poller and the newest events.
BridgeInv == BridgeOK(bridge, latest, stream.cursor, stream.floor)

\* The invariant after a step, from its parts.
LEMMA BridgeInvNext ==
    ASSUME BridgeOK(bridge', latest', stream'.cursor, stream'.floor)
    PROVE  BridgeInv'
BY Zenon DEF BridgeInv, BridgeOK

\* A poll, if the buffer numbers its events in order.
LEMMA PollKeeps ==
    ASSUME BridgeInv, Poll, Len(snapshot.event_bus.events) \in Nat,
           snapshot.event_bus.next_sequence \in Nat,
           \A i \in 1 .. Len(snapshot.event_bus.events) : snapshot.event_bus.events[i].sequence \in Nat,
           \A i, k \in 1 .. Len(snapshot.event_bus.events) :
              i < k => snapshot.event_bus.events[i].sequence < snapshot.event_bus.events[k].sequence
    PROVE  BridgeInv'
<1> DEFINE events == snapshot.event_bus.events
           head == snapshot.event_bus.next_sequence
           polled == SubscribeEvents
           o == [bridge |-> bridge, cursor |-> stream.cursor, latest |-> latest]
           d == DispatchEvents(o, events, polled)
           f == stream.floor
<1>1. PICK delta : /\ bridge' = ObserveDispatch(d.bridge, [ok |-> TRUE, next_sequence |-> head,
                                                          dropped_events_delta |-> delta])
                   /\ latest' = d.latest
                   /\ stream' = [cursor |-> d.cursor,
                                 last_observed_dropped |-> snapshot.event_bus.dropped_events,
                                 floor |-> IF delta = 0 THEN f ELSE AtLeast(f, head)]
  BY Zenon DEF Poll
<1>2. polled \subseteq 1 .. Len(events) /\ \A i \in polled : events[i].sequence > stream.cursor
  BY Zenon DEF SubscribeEvents
<1>3. o = [bridge |-> o.bridge, cursor |-> o.cursor, latest |-> o.latest]
      /\ o.bridge = bridge /\ o.cursor = stream.cursor /\ o.latest = latest
  OBVIOUS
<1> HIDE DEF o, polled
<1>4. DispatchOK(o, f)
  BY <1>3, Zenon DEF DispatchOK, BridgeInv
<1>5. DispatchOK(d, f)
  <2>1. \A i \in polled : events[i].sequence \in Nat /\ events[i].sequence > o.cursor
    BY <1>2, <1>3, Zenon
  <2>2. \A i, k \in polled : i < k => events[i].sequence < events[k].sequence
    BY <1>2, Zenon
  <2> HIDE DEF events
  <2>3. Len(events) \in Nat
    BY Zenon DEF events
  <2>4. QED
    BY <1>2, <1>4, <2>1, <2>2, <2>3, DispatchKeeps, Zenon
<1> HIDE DEF d
<1>6. BridgeOK(d.bridge, latest', stream'.cursor, f)
  BY <1>1, <1>5, Zenon DEF DispatchOK
<1>7. stream'.floor = IF delta = 0 THEN f ELSE AtLeast(f, head)
  BY <1>1, Zenon
<1>8. CASE delta = 0
  <2>1. bridge' = d.bridge
    BY <1>1, <1>8, Zenon DEF ObserveDispatch
  <2>2. QED
    BY <1>6, <1>7, <1>8, <2>1, BridgeInvNext, Zenon
<1>9. CASE delta # 0
  <2>1. bridge' = Advance(d.bridge, Status("DROPPED", head)) /\ Status("DROPPED", head).sequence = head
    BY <1>1, <1>9, Zenon DEF ObserveDispatch, Status
  <2> DEFINE s == Status("DROPPED", head)
  <2> HIDE DEF s, head
  <2>2. s.sequence \in Nat /\ s.sequence = head /\ bridge' = Advance(d.bridge, s)
    BY <2>1, Zenon DEF s, head
  <2>3. BridgeOK(bridge', latest', stream'.cursor, AtLeast(f, head))
    BY <1>6, <2>2, AdvanceKeeps, Zenon
  <2>4. QED
    BY <1>7, <1>9, <2>3, BridgeInvNext, Zenon
<1>10. QED
  BY <1>8, <1>9, Zenon

\* A poll that fails reports head 0, which moves nothing.
LEMMA PollFailsKeeps ==
    ASSUME BridgeInv, PollFails
    PROVE  BridgeInv' /\ UNCHANGED vars
<1> DEFINE s == Status("DISPATCH_FAILED", 0)
<1>1. bridge' = Advance(bridge, s) /\ s.sequence = 0 /\ latest' = latest /\ stream' = stream /\ UNCHANGED vars
  BY DEF PollFails, ObserveDispatch, Status, vars
<1>2. BridgeOK(bridge, latest, stream.cursor, stream.floor) /\ stream.floor \in Nat
  BY Zenon DEF BridgeInv, BridgeOK
<1>3. AtLeast(stream.floor, 0) = stream.floor /\ 0 \in Nat
  BY <1>2 DEF AtLeast
<1> HIDE DEF s
<1>4. BridgeOK(bridge', latest, stream.cursor, AtLeast(stream.floor, s.sequence))
  BY <1>1, <1>2, <1>3, AdvanceKeeps, Zenon
<1>5. BridgeOK(bridge', latest', stream'.cursor, stream'.floor)
  BY <1>1, <1>3, <1>4, Zenon
<1>6. QED
  BY <1>1, <1>5, BridgeInvNext, Zenon

\* A bridge that starts, or goes on, before a session opened anew.
LEMMA FreshBridge ==
    ASSUME NEW b, b = NewBridge \/ (b.last_sequence \in Nat /\ b.statuses = [k \in Keys |-> b.statuses[k]])
    PROVE  BridgeOK(b, NoneLatest, 0, b.last_sequence)
<1>1. NoStatus.sequence = 0 /\ 0 \in Nat
  BY DEF NoStatus
<1>2. NoneLatest = [k \in Keys |-> NoneLatest[k]] /\ \A k \in Keys : NoneLatest[k].sequence = 0
  BY <1>1, Zenon DEF NoneLatest
<1>3. NewBridge.last_sequence = 0 /\ NewBridge.statuses = NoneLatest
  BY DEF NewBridge, NoneLatest
<1>4. b.last_sequence \in Nat /\ b.statuses = [k \in Keys |-> b.statuses[k]]
  BY <1>1, <1>2, <1>3, Zenon
<1>5. b.last_sequence <= b.last_sequence /\ 0 <= b.last_sequence
  BY <1>4
<1>6. QED
  BY <1>1, <1>2, <1>4, <1>5, Zenon DEF BridgeOK

\* The session opened anew.
LEMMA RestartKeepsBridge ==
    ASSUME BridgeInv, RestartSession
    PROVE  BridgeInv'
<1>1. /\ bridge' = NewBridge \/ bridge' = bridge
      /\ stream' = [cursor |-> 0, last_observed_dropped |-> 0, floor |-> bridge'.last_sequence]
      /\ latest' = NoneLatest
  BY Zenon DEF RestartSession
<1>2. bridge.last_sequence \in Nat /\ bridge.statuses = [k \in Keys |-> bridge.statuses[k]]
  BY Zenon DEF BridgeInv, BridgeOK
<1>3. stream'.cursor = 0 /\ stream'.floor = bridge'.last_sequence
  BY <1>1
<1>4. BridgeOK(bridge', NoneLatest, 0, bridge'.last_sequence)
  BY <1>1, <1>2, FreshBridge, Zenon
<1>5. BridgeOK(bridge', latest', stream'.cursor, stream'.floor)
  BY <1>1, <1>3, <1>4, Zenon
<1>6. QED
  BY <1>5, BridgeInvNext, Zenon

\* At first there is no status and no event.
LEMMA InitBridge ==
    ASSUME DiagnosticsInit
    PROVE  BridgeInv
<1>1. bridge = NewBridge /\ latest = NoneLatest /\ stream.cursor = 0 /\ stream.floor = 0 /\ bridge.last_sequence = 0
  BY DEF DiagnosticsInit, NewBridge
<1>2. BridgeOK(bridge, NoneLatest, 0, bridge.last_sequence)
  BY <1>1, FreshBridge, Zenon
<1>3. QED
  BY <1>1, <1>2, Zenon DEF BridgeInv

\* What the invariant says of the statuses.
LEMMA BridgeFollows ==
    ASSUME BridgeInv
    PROVE  DiagnosticsFollowEvents
BY Zenon DEF BridgeInv, BridgeOK, DiagnosticsFollowEvents
=============================================================================
