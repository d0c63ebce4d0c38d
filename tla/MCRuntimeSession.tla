-------------------------- MODULE MCRuntimeSession ---------------------------
(* Small instances of RuntimeSession for TLC. *)
EXTENDS RuntimeSession

CONSTANTS v0, v1

MCBaseline == [p \in Paths |-> v0]

AllPaths(enabled, timeout) == [p \in Paths |-> [enabled |-> enabled, timeout |-> timeout]]
Off == AllPaths(FALSE, 1)
Lease(timeout) == AllPaths(TRUE, timeout)

Write1(p, v) == [path |-> p, value |-> v]
\* Two paths at once, and one path twice.
MCWriteLists == {<<Write1(1, v1), Write1(2, v1)>>, <<Write1(1, v0), Write1(1, v1)>>}

MCPolicies == {Off, Lease(1)}

Clean == [p \in Paths |-> NoValue]
OverlayOn(ps) == [p \in Paths |-> IF p \in ps THEN v1 ELSE NoValue]
MCPersistedOverlays == {Clean, OverlayOn({1})}

Capped(intent, cap) == [generation |-> 1, dirty_since |-> 1, reset_deadline |-> NoDeadline,
                        hard_cap_deadline |-> cap, intent |-> intent]
MCPersistedMetadata == {Capped("Compensating", 2)}

\* The delta a backend computes against a base: the leaf values before, and the
\* configuration the writes lead to.
PullWriteOf(base, p, v) == [path |-> p, value |-> v, before |-> base[p]]
Delta(base, p, v) ==
    [full_snapshot |-> FALSE, source |-> "Backend", backend_connected |-> TRUE,
     base_id |-> base, target_id |-> [base EXCEPT ![p] = v],
     writes |-> <<PullWriteOf(base, p, v)>>]
Deltas == {Delta(base, p, v) : base \in Configurations, p \in Paths, v \in Values}

Direct(ws) == [full_snapshot |-> TRUE, source |-> "DirectPush", backend_connected |-> FALSE,
               base_id |-> NoId, target_id |-> NoId, writes |-> ws]
FullSnapshot == Direct([i \in Paths |-> [path |-> i, value |-> v1, before |-> NoValue]])
NothingNew == Direct(<<>>)

MCPullRequests == Deltas \cup {FullSnapshot, NothingNew}

\* One path, looked at for longer: persisted overrides with a hard cap that comes
\* with or after the lease.
OnePathMetadata == {Capped("Compensating", 2), Capped("Compensating", 3), Capped("Experimental", 3)}
OnePathWrites == {<<Write1(1, v0), Write1(1, v1)>>}
=============================================================================
