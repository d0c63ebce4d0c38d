------------------------------- MODULE MCEdge --------------------------------
(* A small instance of Edge for TLC: two paths, of which the first may be   *)
(* written at runtime.                                                      *)
EXTENDS MCRuntimeSession, Edge

\* This repository's runtime, and one that also takes the adapters' version.
MCAcceptedVersions == {{5}, {1, 5}}
MCInactivePolicies == {{"get_sync_status"}, {"get_sync_status", "pull_updates", "rollback_dirty"}}
\* A write the runtime takes, and one it refuses as a whole.
MCNodeWrites == {<<Write1(1, v1)>>, <<Write1(1, v0), Write1(2, v1)>>}
EdgePulls == {Delta(MCBaseline, 1, v1)}
ClientWrites == {<<Write1(1, v1)>>}
LeaseOnly == {Lease(1)}
CleanOnly == {Clean}
=============================================================================
