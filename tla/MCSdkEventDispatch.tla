------------------------- MODULE MCSdkEventDispatch --------------------------
(* Small instances of SdkEventDispatch for TLC. *)
EXTENDS SdkEventDispatch, TLC

CONSTANTS t1, t2, parameter

\* A batch with the event of a write, and one that starts with an event that has
\* no channel.
MCBatches == {<<parameter>>, <<NoChannel, parameter>>}

ThreadSymmetry == Permutations(Threads)
=============================================================================
