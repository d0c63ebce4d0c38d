---------------------------- MODULE SyncTransport ----------------------------
(***************************************************************************)
(* The MQTT sync transport (compiler/src/sync_transport.rs): a bounded     *)
(* publish queue and the retry loop around the MQTT client.  A transport   *)
(* is the record [pending, offline, last_backoff]; an operation returns    *)
(* the transport after it and, where it can fail, whether it succeeded.    *)
(*                                                                         *)
(* The client is external.  What a call of it does is an attempt [result,  *)
(* received]: the answer the client gives and whether the broker got the   *)
(* message.  A call that times out or loses the connection may have been   *)
(* received; with QoS AtMostOnce one that succeeds may not have been.      *)
(***************************************************************************)
EXTENDS Integers, Sequences, FiniteSets

CONSTANTS MaxAttempts,        \* retry_policy.max_attempts, at least 1
          InitialBackoff, MaxBackoff,
          MaxQueueDepth,
          AtMostOnce          \* is the QoS profile AtMostOnce?

ASSUME TransportAssumption ==
    /\ {InitialBackoff, MaxBackoff, MaxQueueDepth} \subseteq Nat
    /\ MaxAttempts \in Nat \ {0}
    /\ AtMostOnce \in BOOLEAN

NewTransport == [pending |-> <<>>, offline |-> TRUE, last_backoff |-> 0]
depth == IF MaxQueueDepth = 0 THEN 1 ELSE MaxQueueDepth

\* The kinds map_mqtt_error marks retryable, and those it does not.
Retryable == {"Disconnected", "Timeout"}
Permanent == {"Auth", "InvalidPayload", "Internal"}

Attempt ==
    {a \in [result: {"Ok"} \cup Retryable \cup Permanent, received: BOOLEAN] :
        /\ a.result = "Ok" => a.received \/ AtMostOnce
        /\ a.result \in {"Auth", "InvalidPayload"} => ~ a.received}

backoff_for_attempt(n) ==
    LET exponent == IF n - 1 < 16 THEN n - 1 ELSE 16
        scaled == InitialBackoff * 2 ^ exponent
    IN  IF scaled < MaxBackoff THEN scaled ELSE MaxBackoff

\* The attempts one retry loop may make: it goes on after a retryable failure
\* until the attempts are used up.
last(as) == as[Len(as)]
Attempts ==
    {as \in UNION {[1 .. n -> Attempt] : n \in 1 .. MaxAttempts} :
        /\ \A i \in 1 .. Len(as) - 1 : as[i].result \in Retryable
        /\ last(as).result \in Retryable => Len(as) = MaxAttempts}

\* retry.  The backoff is recorded, never waited for; a failure of the last
\* attempt leaves the one recorded before it.
retry(t, as) ==
    IF last(as).result = "Ok" THEN [t EXCEPT !.offline = FALSE, !.last_backoff = 0]
    ELSE [t EXCEPT !.offline = last(as).result \in Retryable,
                   !.last_backoff = IF Len(as) > 1 THEN backoff_for_attempt(Len(as) - 1) ELSE @]

connect(t, as) == retry(t, as)
request(t, as) == retry(t, as)

publish_accepted(t) == Len(t.pending) < depth
publish_nonblocking(t, message) == [t EXCEPT !.pending = Append(@, message)]

\* drain_once of a queue that is not empty: the front message leaves the queue
\* only when a publish of it has succeeded.
drain_once_popping_first(t, as) == [retry(t, as) EXCEPT !.pending = Tail(@)]
drain_once(t, as) ==
    LET r == retry(t, as)
    IN  IF last(as).result = "Ok" THEN [r EXCEPT !.pending = Tail(@)] ELSE r

\* What the broker gets of the front message: once per attempt it received.
Received(t, as) ==
    LET got == {i \in 1 .. Len(as) : as[i].received}
    IN  [i \in 1 .. Cardinality(got) |-> t.pending[1]]
=============================================================================
