----------------------------- MODULE AuditUpload -----------------------------
(***************************************************************************)
(* The upload of the audit log: a device process that takes records from   *)
(* its runtime session with push_audit_events, queues each on the sync     *)
(* transport and drains the queue, and that may crash.  The process is not *)
(* part of the repository; it is the one docs/runtime-v2-sync-transport.md *)
(* describes ("Flush telemetry/audit queues", "Resume uploads from         *)
(* persisted queues on reconnect"), with what the code gives it: the       *)
(* snapshot persists, the transport's queue is in memory.                  *)
(***************************************************************************)
EXTENDS RuntimeSession, SyncTransport

VARIABLES transport,   \* the MqttSyncTransport
          hand,        \* records pushed and not yet queued (audit sequences)
          broker,      \* what the broker received, in order
          lost         \* records a crash took: pushed, and not at the broker

upload_vars == <<transport, hand, broker, lost>>

Members(q) == {q[i] : i \in 1 .. Len(q)}

UploadInit ==
    /\ transport = NewTransport
    /\ hand = <<>>
    /\ broker = <<>>
    /\ lost = {}

Connect ==
    /\ transport.offline
    /\ \E as \in Attempts : transport' = connect(transport, as)
    /\ UNCHANGED <<snapshot, now, hand, broker, lost>>

\* A request to the backend (check for updates); the answer is not modelled.
AskBackend ==
    /\ \E as \in Attempts : transport' = request(transport, as)
    /\ UNCHANGED <<snapshot, now, hand, broker, lost>>

\* push_audit_events moves the upload cursor past the records it names.
TakeRecords ==
    /\ hand = <<>> /\ ~ transport.offline /\ Operable
    /\ \E s \in {Normalize(snapshot, now)}, max_events \in 1 .. MaxAudit :
        \E cursor \in {Pushed(s, max_events)} :
           /\ cursor > s.audit_uploaded_sequence
           /\ Return([s EXCEPT !.audit_uploaded_sequence = cursor])
           /\ hand' = [i \in 1 .. cursor - s.audit_uploaded_sequence |-> s.audit_uploaded_sequence + i]
    /\ UNCHANGED <<transport, broker, lost>>

\* A full queue refuses the record, which stays in hand for a later try.
QueueRecord ==
    /\ hand # <<>>
    /\ publish_accepted(transport)
    /\ transport' = publish_nonblocking(transport, Head(hand))
    /\ hand' = Tail(hand)
    /\ UNCHANGED <<snapshot, now, broker, lost>>

Drain ==
    /\ transport.pending # <<>>
    /\ \E as \in Attempts :
          /\ transport' = drain_once(transport, as)
          /\ broker' = broker \o Received(transport, as)
          /\ Len(broker') <= 2 * MaxAudit
    /\ UNCHANGED <<snapshot, now, hand, lost>>

\* The process restarts: the snapshot comes back from its store.
Crash ==
    /\ transport # NewTransport \/ hand # <<>>
    /\ transport' = NewTransport
    /\ hand' = <<>>
    /\ LET unsent == transport.pending \o hand
       IN  lost' = lost \cup (Members(unsent) \ Members(broker))
    /\ UNCHANGED <<snapshot, now, broker>>

UploadNext ==
    \/ SetParameter /\ UNCHANGED upload_vars
    \/ Connect
    \/ AskBackend
    \/ TakeRecords
    \/ QueueRecord
    \/ Drain
    \/ Crash

(***************************************************************************)
(* Properties.                                                             *)
(***************************************************************************)
\* What the broker got, in order but for repeats; then what is queued and in
\* hand, in order, of which the first may be at the broker already; together the
\* log up to the cursor but for what a crash lost.
LogWithoutLost ==
    LET waiting == transport.pending \o hand
    IN  \/ AtMostOnce
        \/ /\ \A i, k \in 1 .. Len(broker) : i < k => broker[i] <= broker[k]
           /\ \A i, k \in 1 .. Len(waiting) : i < k => waiting[i] < waiting[k]
           /\ \A i \in 1 .. Len(broker), k \in 1 .. Len(waiting) : broker[i] <= waiting[k]
           /\ Members(broker) \cup Members(waiting) = (1 .. snapshot.audit_uploaded_sequence) \ lost
=============================================================================
