-------------------------------- MODULE Edge ---------------------------------
(***************************************************************************)
(* What sits at the edge of a runtime session: a ROS 2 node in front of it *)
(* (Ros2Node), a diagnostics bridge on its events (DiagnosticsBridge), or  *)
(* a process that uploads its audit log through the sync transport         *)
(* (AuditUpload).  They share the session and nothing else; a deployment   *)
(* is one of them, so that their states add up and do not multiply.        *)
(***************************************************************************)
EXTENDS Ros2Node, DiagnosticsBridge, AuditUpload

VARIABLE deployment

edge_vars == <<snapshot, now, ros_vars, diagnostics_vars, upload_vars, deployment>>

EdgeInit ==
    /\ Init /\ RosInit /\ DiagnosticsInit /\ UploadInit
    /\ deployment \in {"node", "diagnostics", "uploader"}
    /\ deployment # "node" => accepted = CHOOSE a \in AcceptedVersions : TRUE

EdgeNext ==
    /\ \/ deployment = "node" /\ RosNext /\ UNCHANGED <<diagnostics_vars, upload_vars>>
       \/ deployment = "diagnostics" /\ DiagnosticsNext /\ UNCHANGED <<ros_vars, upload_vars>>
       \/ deployment = "uploader" /\ UploadNext /\ UNCHANGED <<ros_vars, diagnostics_vars>>
    /\ UNCHANGED deployment

EdgeSpec == EdgeInit /\ [][EdgeNext]_edge_vars

PausedStep ==
    deployment = "node" /\ node.state # "active" /\ snapshot' # snapshot
      /\ ~ OtherClient /\ ~ RestartRuntime =>
        \/ \E g \in Goals : /\ goals[g].pc = "calling" /\ goals'[g].pc = "called"
                            /\ g \in racing \/ "pull_updates" \in node.policy
        \/ /\ goals' = goals
           /\ node.policy \cap {"commit_configuration", "rollback_dirty", "check_for_updates",
                                "push_audit_events"} # {}

\* While the node is not active it changes the session only by operations its
\* inactive policy allows, or by a pull that had passed its check before the
\* node left the active state (ExecutePullGoal checks again in its thread, but
\* not once more at the call).
InactiveMeansPaused == [][PausedStep]_edge_vars

\* Every record the upload cursor has passed is accounted for, and the broker
\* gets them in order: what it received, repeats aside, followed by what is
\* queued and in hand, is the log up to the cursor without the records lost in
\* a crash, each of them after the ones before it.  The front of the queue may
\* already be at the broker.  The retry loop may repeat a record but never skips
\* or swaps one (drain_once).  With QoS AtMostOnce the client may report a
\* success the broker never saw.
UploadsAccountedFor == deployment = "uploader" => LogWithoutLost
=============================================================================
