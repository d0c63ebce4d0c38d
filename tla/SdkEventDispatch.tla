-------------------------- MODULE SdkEventDispatch ---------------------------
(***************************************************************************)
(* The C++ SDK's RuntimeSession (sdk/cpp): threads that share one session  *)
(* object, whose event callbacks run on the thread that polls.  mutex_     *)
(* serialises the calls into the C ABI, callbacks_mutex_ protects the      *)
(* subscriptions, and no lock is held between the steps of a dispatch or   *)
(* while a callback runs; a callback may call any method.  A section under *)
(* one lock is one step; Close, which takes callbacks_mutex_ while it      *)
(* holds mutex_, is two.                                                   *)
(*                                                                         *)
(* An event is its number in the event stream and its channel.  The client *)
(* is the environment: it keeps the cursor docs/runtime-v2-contract.md     *)
(* prescribes, the highest sequence number it was given, and its threads   *)
(* share it: a fetch and the advance of the cursor are one step (the       *)
(* response is then dispatched with no lock of the client's held).         *)
(***************************************************************************)
EXTENDS Naturals, Sequences, FiniteSets

CONSTANTS Threads,        \* threads that share the session object
          Pollers,        \* those that poll for events
          Channels,       \* RuntimeEventChannel
          NoChannel,      \* the event kinds EventChannelForKind knows no channel for
          EventCapacity,  \* event_bus.buffer_capacity
          Batches,        \* the events one runtime operation emits
          NoThread,       \* nobody holds mutex_ between two steps
          MaxEvents,      \* bound: events of a stream
          MaxStreams,     \* bound: event streams
          MaxIds          \* bound: subscriptions ever made

ASSUME ThreadsAssumption == Pollers \subseteq Threads /\ NoThread \notin Threads
ASSUME ChannelsAssumption == NoChannel \notin Channels
ASSUME SdkCapacityAssumption == EventCapacity \in Nat \ {0}
ASSUME BatchesAssumption == Batches \subseteq Seq(Channels \cup {NoChannel}) \ {<<>>}
ASSUME SdkBoundsAssumption == {MaxEvents, MaxStreams, MaxIds} \subseteq Nat

VARIABLES open,                  \* handle_ # nullptr
          stream,                \* number of the event stream the session has
          log,                   \* its events: the n-th has sequence n
          cursor,                \* the client's cursor in it
          event_subscriptions,   \* id -> channel
          next_subscription_id,
          closing,               \* the thread that holds mutex_ in Close
          call,                  \* what each thread has of a dispatch in flight
          delivered              \* history: the notifications callbacks got

vars == <<open, stream, log, cursor, event_subscriptions, next_subscription_id,
          closing, call, delivered>>

Kinds == Channels \cup {NoChannel}
Ids == Nat \ {0}

NoSubscriptions == [id \in {} |-> NoChannel]

Idle == [pc |-> "idle", stream |-> 0, events |-> <<>>, callbacks |-> {}, unsubscribe |-> {}]

Notification == [stream: Nat, sequence: Nat, id: Ids]

Call == [pc: {"idle", "collect", "invoke"}, stream: Nat,
         events: Seq([sequence: Nat, channel: Kinds]),
         callbacks: SUBSET Ids, unsubscribe: SUBSET Ids]

\* Events the bounded buffer has evicted (dropped_events).
Dropped == IF Len(log) > EventCapacity THEN Len(log) - EventCapacity ELSE 0

EventsNewestFirst(first, max_events) ==
    LET last == IF first + max_events - 1 < Len(log) THEN first + max_events - 1 ELSE Len(log)
    IN  [i \in 1 .. (IF last < first THEN 0 ELSE last - first + 1) |->
            [sequence |-> last - i + 1, channel |-> log[last - i + 1]]]

\* subscribe_events: the buffered events above from, at most max_events of them.
EventsAbove(first, max_events) ==
    LET last == IF first + max_events - 1 < Len(log) THEN first + max_events - 1 ELSE Len(log)
    IN  [i \in 1 .. (IF last < first THEN 0 ELSE last - first + 1) |->
            [sequence |-> first + i - 1, channel |-> log[first + i - 1]]]

SubscribeEventsInclusive(from, max_events) ==
    EventsAbove(IF from > Dropped + 1 THEN from ELSE Dropped + 1, max_events)

SubscribeEventsFromNext(from, max_events) ==
    EventsAbove((IF from = 0 THEN Dropped ELSE IF from > Dropped THEN from + 1 ELSE Dropped) + 1,
                max_events)

SubscribeEvents(from, max_events) ==
    EventsAbove((IF from > Dropped THEN from ELSE Dropped) + 1, max_events)

Init ==
    /\ open = FALSE
    /\ stream = 0
    /\ log = <<>>
    /\ cursor = 0
    /\ event_subscriptions = NoSubscriptions
    /\ next_subscription_id = 1
    /\ closing = NoThread
    /\ call = [t \in Threads |-> Idle]
    /\ delivered = {}

(***************************************************************************)
(* Open, with a snapshot that carries the stream so far or without one;    *)
(* the runtime emits runtime_opened, which has no channel.                 *)
(***************************************************************************)
OpenFresh ==
    /\ stream < MaxStreams
    /\ stream' = stream + 1
    /\ log' = <<NoChannel>>
    /\ cursor' = 0

OpenRestored ==
    /\ log # <<>> /\ Len(log) < MaxEvents
    /\ log' = Append(log, NoChannel)
    /\ UNCHANGED <<stream, cursor>>

Open ==
    /\ closing = NoThread /\ ~ open
    /\ open' = TRUE
    /\ OpenFresh \/ OpenRestored
    /\ UNCHANGED <<event_subscriptions, next_subscription_id, closing, call, delivered>>

\* Any operation that changes the runtime's state emits events.
Execute ==
    /\ closing = NoThread /\ open
    /\ \E batch \in Batches :
          /\ Len(log) + Len(batch) <= MaxEvents
          /\ log' = log \o batch
    /\ UNCHANGED <<open, stream, cursor, event_subscriptions, next_subscription_id,
                   closing, call, delivered>>

\* Close closes the handle, if there is one, and then clears the subscriptions.
Close(t) ==
    /\ closing = NoThread
    /\ closing' = t
    /\ open' = FALSE
    /\ UNCHANGED <<stream, log, cursor, event_subscriptions, next_subscription_id,
                   call, delivered>>

CloseClearAndRestartIds ==
    /\ closing # NoThread
    /\ closing' = NoThread
    /\ event_subscriptions' = NoSubscriptions
    /\ next_subscription_id' = 1
    /\ UNCHANGED <<open, stream, log, cursor, call, delivered>>

CloseClear ==
    /\ closing # NoThread
    /\ closing' = NoThread
    /\ event_subscriptions' = NoSubscriptions
    /\ UNCHANGED <<open, stream, log, cursor, next_subscription_id, call, delivered>>

(***************************************************************************)
(* Subscriptions.  An id is one more than the last; 2^64 are never used.   *)
(***************************************************************************)
SubscribeKeepingNextId(channel) ==
    /\ next_subscription_id <= MaxIds
    /\ event_subscriptions' =
          [id \in DOMAIN event_subscriptions \cup {next_subscription_id} |->
              IF id = next_subscription_id THEN channel ELSE event_subscriptions[id]]
    /\ UNCHANGED <<open, stream, log, cursor, next_subscription_id, closing, call, delivered>>

SubscribeEventChannel(channel) ==
    /\ next_subscription_id <= MaxIds
    /\ event_subscriptions' =
          [id \in DOMAIN event_subscriptions \cup {next_subscription_id} |->
              IF id = next_subscription_id THEN channel ELSE event_subscriptions[id]]
    /\ next_subscription_id' = next_subscription_id + 1
    /\ UNCHANGED <<open, stream, log, cursor, closing, call, delivered>>

Without(ids) ==
    [id \in DOMAIN event_subscriptions \ ids |-> event_subscriptions[id]]

UnsubscribeEventChannel(id) ==
    /\ id \in DOMAIN event_subscriptions
    /\ event_subscriptions' = Without({id})
    /\ UNCHANGED <<open, stream, log, cursor, next_subscription_id, closing, call, delivered>>

(***************************************************************************)
(* PollAndDispatchEvents on thread t, or SubscribeEvents followed by       *)
(* DispatchEventsFromSubscribeResponse.  The response is taken under       *)
(* mutex_; then, for each of its events, the callbacks are looked up under *)
(* callbacks_mutex_ and run in id order with no lock held; those that      *)
(* asked for it, or threw, are unsubscribed after the last event.          *)
(***************************************************************************)
Poll(t) ==
    /\ t \in Pollers /\ call[t].pc = "idle"
    /\ closing = NoThread /\ open
    /\ \E max_events \in 1 .. MaxEvents :
          LET events == SubscribeEvents(cursor, max_events)
          IN  /\ call' = [call EXCEPT ![t] = [pc |-> "collect", stream |-> stream, events |-> events,
                                              callbacks |-> {}, unsubscribe |-> {}]]
              /\ cursor' = IF events = <<>> THEN cursor ELSE events[Len(events)].sequence
    /\ UNCHANGED <<open, stream, log, event_subscriptions, next_subscription_id,
                   closing, delivered>>

CollectCallbacks(t) ==
    /\ closing # t /\ call[t].pc = "collect" /\ call[t].events # <<>>
    /\ call' = [call EXCEPT ![t].pc = "invoke",
                            ![t].callbacks = {id \in DOMAIN event_subscriptions :
                                event_subscriptions[id] = Head(call[t].events).channel}]
    /\ UNCHANGED <<open, stream, log, cursor, event_subscriptions, next_subscription_id,
                   closing, delivered>>

\* The callback with the smallest id runs; it keeps its subscription or not.
InvokeCallback(t) ==
    /\ closing # t /\ call[t].pc = "invoke"
    /\ \E id \in call[t].callbacks, unsubscribes \in BOOLEAN :
          /\ \A other \in call[t].callbacks : id <= other
          /\ call' = [call EXCEPT ![t].callbacks = @ \ {id},
                                  ![t].unsubscribe = IF unsubscribes THEN @ \cup {id} ELSE @]
          /\ delivered' = delivered \cup
                {[stream |-> call[t].stream, sequence |-> Head(call[t].events).sequence, id |-> id]}
    /\ UNCHANGED <<open, stream, log, cursor, event_subscriptions, next_subscription_id, closing>>

NextEvent(t) ==
    /\ closing # t /\ call[t].pc = "invoke" /\ call[t].callbacks = {}
    /\ call' = [call EXCEPT ![t].pc = "collect", ![t].events = Tail(@)]
    /\ UNCHANGED <<open, stream, log, cursor, event_subscriptions, next_subscription_id,
                   closing, delivered>>

ReturnFromDispatch(t) ==
    /\ closing # t /\ call[t].pc = "collect" /\ call[t].events = <<>>
    /\ event_subscriptions' = Without(call[t].unsubscribe)
    /\ call' = [call EXCEPT ![t] = Idle]
    /\ UNCHANGED <<open, stream, log, cursor, next_subscription_id, closing, delivered>>

Dispatch(t) ==
    \/ CollectCallbacks(t)
    \/ InvokeCallback(t)
    \/ NextEvent(t)
    \/ ReturnFromDispatch(t)

Next ==
    \/ Open
    \/ Execute
    \/ \E t \in Threads : Close(t) \/ Poll(t) \/ Dispatch(t)
    \/ CloseClear
    \/ \E channel \in Channels : SubscribeEventChannel(channel)
    \/ \E id \in DOMAIN event_subscriptions : UnsubscribeEventChannel(id)

Spec == Init /\ [][Next]_vars

\* A thread that is inside a call goes on with it (the dispatch runs on the
\* caller's thread, Close waits for nothing), and a poller polls again.
Fairness ==
    /\ WF_vars(CloseClear)
    /\ \A t \in Pollers : WF_vars(Poll(t)) /\ WF_vars(Dispatch(t))

FairSpec == Spec /\ Fairness

(***************************************************************************)
(* Properties.                                                             *)
(***************************************************************************)
\* Every variable keeps its type, and a live subscription's id was handed out.
TypeOK ==
    /\ open \in BOOLEAN
    /\ stream \in Nat /\ cursor \in Nat
    /\ log \in Seq(Kinds)
    /\ next_subscription_id \in Ids
    /\ DOMAIN event_subscriptions \subseteq 1 .. next_subscription_id - 1
    /\ event_subscriptions \in [DOMAIN event_subscriptions -> Channels]
    /\ closing \in Threads \cup {NoThread}
    /\ call \in [Threads -> Call]
    /\ delivered \subseteq Notification

Held(t) == call[t].callbacks \cup call[t].unsubscribe

\* A new subscription never gets an id that a dispatch in flight still holds:
\* the unsubscription at the end of a dispatch, which erases by id without a
\* look at the subscription, can only remove the one whose callback asked for
\* it, even when the session was closed and opened again under the dispatch.
FreshIds ==
    [][\A id \in DOMAIN event_subscriptions' \ DOMAIN event_subscriptions :
          \A t \in Threads : id \notin Held(t)]_vars

\* What thread t is about to deliver.
Pending(t) ==
    IF call[t].pc = "invoke"
    THEN {[stream |-> call[t].stream, sequence |-> Head(call[t].events).sequence, id |-> id] :
             id \in call[t].callbacks}
    ELSE {}

\* No callback is called twice for one event, however many threads poll with a
\* common cursor, and whatever is dropped, closed or opened again meanwhile.
DeliveredAtMostOnce ==
    \A t \in Threads :
        /\ Pending(t) \cap delivered = {}
        /\ \A u \in Threads \ {t} : Pending(t) \cap Pending(u) = {}

\* sdk/cpp/include/configflux/sdk/runtime_session.h:146: "callback invocation
\* order matches runtime event sequence ordering": a callback gets the events
\* of a stream by increasing sequence number.
DeliveredInOrder ==
    [][\A d \in delivered' \ delivered : \A e \in delivered :
          e.stream = d.stream /\ e.id = d.id => e.sequence < d.sequence]_vars

Awaited(id, n, st) ==
    /\ open /\ stream = st
    /\ id \in DOMAIN event_subscriptions
    /\ n \in 1 .. Len(log) /\ n > cursor /\ event_subscriptions[id] = log[n]

\* An event that is still ahead of the cursor reaches every subscription of its
\* channel, unless the buffer evicts it, the subscription ends or the session
\* is closed before: neither the batch limit nor events without a subscriber
\* make a poller skip one or stop.
EventuallyDelivered ==
    \A id \in 1 .. MaxIds, n \in 1 .. MaxEvents, st \in 1 .. MaxStreams :
        Awaited(id, n, st) ~>
            \/ [stream |-> st, sequence |-> n, id |-> id] \in delivered
            \/ n <= Dropped
            \/ id \notin DOMAIN event_subscriptions
            \/ stream # st
            \/ ~ open
=============================================================================
