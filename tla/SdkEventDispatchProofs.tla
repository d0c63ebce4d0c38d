----------------------- MODULE SdkEventDispatchProofs ------------------------
(***************************************************************************)
(* Proofs about SdkEventDispatch, for any number of threads, pollers,      *)
(* channels and subscriptions.                                             *)
(***************************************************************************)
EXTENDS SdkEventDispatch, SequenceTheorems, TLAPS

\* The subscription ids a dispatch holds were handed out before: FreshIds needs
\* that of the dispatches whose subscription is already gone, which the
\* subscriptions themselves say nothing about.
HeldIdsAreOld == \A t \in Threads : Held(t) \subseteq 1 .. next_subscription_id - 1

\* A dispatch that runs callbacks runs them for an event.
InvokesForEvent == \A t \in Threads : call[t].pc = "invoke" => call[t].events # <<>>

IdInvariant == TypeOK /\ HeldIdsAreOld /\ InvokesForEvent

\* The events of a response are numbered events of the log (subscribe_events).
LEMMA EventsAboveType ==
    ASSUME log \in Seq(Kinds), NEW first \in Nat \ {0}, NEW max_events \in Nat
    PROVE  EventsAbove(first, max_events) \in Seq([sequence: Nat, channel: Kinds])
<1> DEFINE last == IF first + max_events - 1 < Len(log) THEN first + max_events - 1 ELSE Len(log)
           n == IF last < first THEN 0 ELSE last - first + 1
           e(i) == [sequence |-> first + i - 1, channel |-> log[first + i - 1]]
<1>1. Len(log) \in Nat
  OBVIOUS
<1>2. n \in Nat /\ \A i \in 1 .. n : first + i - 1 \in 1 .. Len(log)
  BY <1>1
<1>3. \A i \in 1 .. n : e(i) \in [sequence: Nat, channel: Kinds]
  <2> TAKE i \in 1 .. n
  <2>1. first + i - 1 \in 1 .. Len(log)
    BY <1>2
  <2>2. log[first + i - 1] \in Kinds
    BY <2>1
  <2> QED
    BY <2>1, <2>2, <1>1
<1> HIDE DEF e, n
<1>4. [i \in 1 .. n |-> e(i)] \in Seq([sequence: Nat, channel: Kinds])
  BY <1>2, <1>3, IsASeq
<1> QED
  BY <1>4 DEF EventsAbove, n, e

\* The type of a poll's response, whatever the cursor.
LEMMA SubscribeEventsType ==
    ASSUME log \in Seq(Kinds), NEW from \in Nat, NEW max_events \in Nat
    PROVE  SubscribeEvents(from, max_events) \in Seq([sequence: Nat, channel: Kinds])
<1>1. Len(log) \in Nat /\ EventCapacity \in Nat
  BY SdkCapacityAssumption
<1>2. Dropped \in Nat
  BY <1>1 DEF Dropped
<1>3. (IF from > Dropped THEN from ELSE Dropped) + 1 \in Nat \ {0}
  BY <1>2
<1> QED
  BY <1>3, EventsAboveType, Zenon DEF SubscribeEvents

\* The session starts with no subscription and no dispatch.
LEMMA IdInvariantInit == Init => IdInvariant
<1> SUFFICES ASSUME Init PROVE IdInvariant
  OBVIOUS
<1>1. Idle \in Call
  BY DEF Idle, Call, Ids, Kinds
<1>2. NoSubscriptions \in [{} -> Channels] /\ DOMAIN NoSubscriptions = {}
  BY DEF NoSubscriptions
<1>3. call \in [Threads -> Call]
  BY <1>1 DEF Init
<1>4. TypeOK
  <2>1. log \in Seq(Kinds)
    BY EmptySeq DEF Init
  <2>2. event_subscriptions \in [DOMAIN event_subscriptions -> Channels]
    BY <1>2 DEF Init
  <2>3. DOMAIN event_subscriptions \subseteq 1 .. next_subscription_id - 1
    BY <1>2 DEF Init
  <2>4. open \in BOOLEAN /\ closing \in Threads \cup {NoThread} /\ delivered \subseteq Notification
    BY Zenon DEF Init
  <2>5. stream \in Nat /\ cursor \in Nat /\ next_subscription_id \in Ids
    BY DEF Init, Ids
  <2> QED
    BY <2>1, <2>2, <2>3, <2>4, <2>5, <1>3 DEF TypeOK
<1>5. HeldIdsAreOld /\ InvokesForEvent
  BY DEF Init, HeldIdsAreOld, InvokesForEvent, Held, Idle
<1> QED
  BY <1>4, <1>5 DEF IdInvariant

\* Every step keeps the subscription ids old and the types.
LEMMA IdInvariantStep == IdInvariant /\ [Next]_vars => IdInvariant'
<1> SUFFICES ASSUME IdInvariant, [Next]_vars PROVE IdInvariant'
  OBVIOUS
<1> USE DEF IdInvariant
<1>1. CASE Open
  <2>1. log' \in Seq(Kinds)
    <3>1. NoChannel \in Kinds
      BY DEF Kinds
    <3>2. <<NoChannel>> \in Seq(Kinds) /\ Append(log, NoChannel) \in Seq(Kinds)
      BY <3>1 DEF TypeOK
    <3> QED
      BY <1>1, <3>2 DEF Open, OpenFresh, OpenRestored
  <2>2. stream' \in Nat /\ cursor' \in Nat
    BY <1>1 DEF Open, OpenFresh, OpenRestored, TypeOK
  <2> QED
    BY <1>1, <2>1, <2>2 DEF Open, TypeOK, HeldIdsAreOld, Held, InvokesForEvent
<1>2. CASE Execute
  <2>1. PICK batch \in Batches : log' = log \o batch
    BY <1>2 DEF Execute
  <2>2. log' \in Seq(Kinds)
    BY <2>1, BatchesAssumption DEF TypeOK, Kinds
  <2> QED
    BY <1>2, <2>2 DEF Execute, TypeOK, HeldIdsAreOld, Held, InvokesForEvent
<1>3. CASE \E t \in Threads : Close(t)
  BY <1>3, Zenon DEF Close, TypeOK, HeldIdsAreOld, Held, InvokesForEvent
<1>4. CASE CloseClear
  BY <1>4 DEF CloseClear, NoSubscriptions, TypeOK, HeldIdsAreOld, Held, InvokesForEvent
<1>5. CASE \E channel \in Channels : SubscribeEventChannel(channel)
  <2>1. PICK channel \in Channels : SubscribeEventChannel(channel)
    BY <1>5
  <2>2. next_subscription_id \in Ids /\ next_subscription_id' = next_subscription_id + 1
    BY <2>1 DEF SubscribeEventChannel, TypeOK
  <2>3. 1 .. next_subscription_id' - 1
          = (1 .. next_subscription_id - 1) \cup {next_subscription_id}
    BY <2>2 DEF Ids
  <2>4. TypeOK'
    <3>1. next_subscription_id' \in Ids
      BY <2>2 DEF Ids
    <3>2. DOMAIN event_subscriptions' = DOMAIN event_subscriptions \cup {next_subscription_id}
      BY <2>1 DEF SubscribeEventChannel
    <3>3. event_subscriptions' \in [DOMAIN event_subscriptions' -> Channels]
      BY <2>1 DEF SubscribeEventChannel, TypeOK
    <3> QED
      BY <2>1, <2>3, <3>1, <3>2, <3>3 DEF SubscribeEventChannel, TypeOK
  <2>5. HeldIdsAreOld' /\ InvokesForEvent'
    BY <2>1, <2>3 DEF SubscribeEventChannel, HeldIdsAreOld, Held, InvokesForEvent
  <2> QED
    BY <2>4, <2>5
<1>6. CASE \E id \in DOMAIN event_subscriptions : UnsubscribeEventChannel(id)
  BY <1>6 DEF UnsubscribeEventChannel, Without, TypeOK, HeldIdsAreOld, Held, InvokesForEvent
<1>7. ASSUME NEW t \in Threads, Poll(t) PROVE IdInvariant'
  <2>1. PICK max_events \in 1 .. MaxEvents :
           LET events == SubscribeEvents(cursor, max_events)
           IN  /\ call' = [call EXCEPT ![t] = [pc |-> "collect", stream |-> stream, events |-> events,
                                               callbacks |-> {}, unsubscribe |-> {}]]
               /\ cursor' = IF events = <<>> THEN cursor ELSE events[Len(events)].sequence
    BY <1>7, Zenon DEF Poll
  <2> DEFINE events == SubscribeEvents(cursor, max_events)
             new == [pc |-> "collect", stream |-> stream, events |-> events,
                     callbacks |-> {}, unsubscribe |-> {}]
  <2>2. events \in Seq([sequence: Nat, channel: Kinds])
    <3>1. max_events \in Nat
      BY SdkBoundsAssumption
    <3> QED
      BY <3>1, SubscribeEventsType, Zenon DEF TypeOK
  <2>3. new.pc = "collect" /\ new.callbacks = {} /\ new.unsubscribe = {}
    OBVIOUS
  <2>4. new \in Call
    BY <2>2, <2>3, Zenon DEF Call, TypeOK, Ids
  <2>5. cursor' \in Nat
    <3>1. CASE events = <<>>
      BY <3>1, <2>1 DEF TypeOK
    <3>2. CASE events # <<>>
      <4>1. Len(events) \in 1 .. Len(events)
        BY <2>2, <3>2, EmptySeq
      <4>2. events[Len(events)] \in [sequence: Nat, channel: Kinds]
        BY <2>2, <4>1, ElementOfSeq, Zenon
      <4> QED
        BY <4>2, <3>2, <2>1
    <3> QED
      BY <3>1, <3>2
  <2> HIDE DEF events
  <2>6. call' = [call EXCEPT ![t] = new]
    BY <2>1 DEF events
  <2> HIDE DEF new
  <2>7. TypeOK'
    BY <1>7, <2>4, <2>5, <2>6, Zenon DEF Poll, TypeOK
  <2>8. HeldIdsAreOld' /\ InvokesForEvent'
    BY <1>7, <2>3, <2>6 DEF Poll, HeldIdsAreOld, Held, InvokesForEvent, TypeOK
  <2> QED
    BY <2>7, <2>8
<1>8. ASSUME NEW t \in Threads, CollectCallbacks(t) PROVE IdInvariant'
  <2> DEFINE found == {id \in DOMAIN event_subscriptions :
                          event_subscriptions[id] = Head(call[t].events).channel}
             new == [call[t] EXCEPT !.pc = "invoke", !.callbacks = found]
  <2>1. call' = [call EXCEPT ![t] = new]
    BY <1>8, Zenon DEF CollectCallbacks, TypeOK
  <2>2. found \subseteq 1 .. next_subscription_id - 1 /\ found \subseteq Ids
    BY DEF TypeOK, Ids
  <2> HIDE DEF found
  <2>3. call[t] \in Call
    BY DEF TypeOK
  <2>4. new \in Call
    BY <2>2, <2>3, Zenon DEF Call
  <2>5. new.callbacks = found /\ new.unsubscribe = call[t].unsubscribe /\ new.events = call[t].events
    BY <2>3 DEF Call
  <2> HIDE DEF new
  <2>6. TypeOK'
    BY <1>8, <2>1, <2>4, Zenon DEF CollectCallbacks, TypeOK
  <2>7. HeldIdsAreOld'
    BY <1>8, <2>1, <2>2, <2>5 DEF CollectCallbacks, HeldIdsAreOld, Held, TypeOK
  <2>8. InvokesForEvent'
    BY <1>8, <2>1, <2>5 DEF CollectCallbacks, InvokesForEvent, TypeOK
  <2> QED
    BY <2>6, <2>7, <2>8
<1>9. ASSUME NEW t \in Threads, InvokeCallback(t) PROVE IdInvariant'
  <2>1. PICK id \in call[t].callbacks, unsubscribes \in BOOLEAN :
           /\ call' = [call EXCEPT ![t].callbacks = @ \ {id},
                                   ![t].unsubscribe = IF unsubscribes THEN @ \cup {id} ELSE @]
           /\ delivered' = delivered \cup
                 {[stream |-> call[t].stream, sequence |-> Head(call[t].events).sequence, id |-> id]}
    BY <1>9, Zenon DEF InvokeCallback
  <2> DEFINE new == [call[t] EXCEPT !.callbacks = @ \ {id},
                                    !.unsubscribe = IF unsubscribes THEN @ \cup {id} ELSE @]
  <2>2. call' = [call EXCEPT ![t] = new]
    BY <2>1, Zenon DEF TypeOK
  <2>3. call[t] \in Call
    BY DEF TypeOK
  <2>4. id \in Ids /\ id \in Held(t)
    BY <2>3 DEF Call, Held
  <2>5. new \in Call
    BY <2>3, <2>4, Zenon DEF Call
  <2>6. new.callbacks \cup new.unsubscribe \subseteq Held(t) /\ new.events = call[t].events
    BY <2>3, <2>4 DEF Call, Held
  <2> HIDE DEF new
  <2>7. delivered' \subseteq Notification
    <3>1. call[t].events # <<>> /\ call[t].events \in Seq([sequence: Nat, channel: Kinds])
      BY <1>9, <2>3 DEF InvokeCallback, InvokesForEvent, Call
    <3>2. Head(call[t].events) \in [sequence: Nat, channel: Kinds]
      BY <3>1, HeadTailProperties, Zenon
    <3>3. call[t].stream \in Nat
      BY <2>3 DEF Call
    <3> QED
      BY <3>2, <3>3, <2>1, <2>4 DEF Notification, TypeOK
  <2>8. TypeOK'
    BY <1>9, <2>2, <2>5, <2>7, Zenon DEF InvokeCallback, TypeOK
  <2>9. HeldIdsAreOld'
    BY <1>9, <2>2, <2>6 DEF InvokeCallback, HeldIdsAreOld, Held, TypeOK
  <2>10. InvokesForEvent'
    BY <1>9, <2>2, <2>6 DEF InvokeCallback, InvokesForEvent, TypeOK
  <2> QED
    BY <2>8, <2>9, <2>10
<1>10. ASSUME NEW t \in Threads, NextEvent(t) PROVE IdInvariant'
  <2> DEFINE new == [call[t] EXCEPT !.pc = "collect", !.events = Tail(@)]
  <2>1. call' = [call EXCEPT ![t] = new]
    BY <1>10, Zenon DEF NextEvent, TypeOK
  <2>2. call[t] \in Call
    BY DEF TypeOK
  <2>3. Tail(call[t].events) \in Seq([sequence: Nat, channel: Kinds])
    BY <1>10, <2>2 DEF NextEvent, InvokesForEvent, Call
  <2>4. new \in Call
    BY <2>2, <2>3, Zenon DEF Call
  <2>5. new.pc = "collect" /\ new.callbacks = call[t].callbacks
          /\ new.unsubscribe = call[t].unsubscribe
    BY <2>2 DEF Call
  <2> HIDE DEF new
  <2>6. TypeOK'
    BY <1>10, <2>1, <2>4, Zenon DEF NextEvent, TypeOK
  <2>7. HeldIdsAreOld' /\ InvokesForEvent'
    BY <1>10, <2>1, <2>5 DEF NextEvent, HeldIdsAreOld, Held, InvokesForEvent, TypeOK
  <2> QED
    BY <2>6, <2>7
<1>11. ASSUME NEW t \in Threads, ReturnFromDispatch(t) PROVE IdInvariant'
  <2>1. Idle \in Call
    BY DEF Idle, Call, Ids
  <2>2. call' = [call EXCEPT ![t] = Idle]
    BY <1>11 DEF ReturnFromDispatch
  <2>3. Idle.pc = "idle" /\ Idle.callbacks = {} /\ Idle.unsubscribe = {}
    BY DEF Idle
  <2>4. TypeOK'
    BY <1>11, <2>1, <2>2 DEF ReturnFromDispatch, Without, TypeOK
  <2>5. HeldIdsAreOld' /\ InvokesForEvent'
    BY <1>11, <2>2, <2>3 DEF ReturnFromDispatch, HeldIdsAreOld, Held, InvokesForEvent, TypeOK
  <2> QED
    BY <2>4, <2>5
<1>12. CASE UNCHANGED vars
  BY <1>12 DEF vars, TypeOK, HeldIdsAreOld, Held, InvokesForEvent
<1> QED
  BY <1>1, <1>2, <1>3, <1>4, <1>5, <1>6, <1>7, <1>8, <1>9, <1>10, <1>11, <1>12
     DEF Next, Dispatch

\* The type invariant of the SDK session, for any number of threads.
THEOREM SdkTypeCorrect == Spec => []TypeOK
<1>1. IdInvariant => TypeOK
  BY DEF IdInvariant
<1> QED
  BY <1>1, IdInvariantInit, IdInvariantStep, PTL DEF Spec

\* A subscription never gets the id of one that a dispatch in flight is about to
\* call or to erase, for any number of threads, streams and subscriptions:
\* SubscribeEventChannel hands out next_subscription_id_, which Close does not
\* reset.
THEOREM IdsStayFresh == Spec => FreshIds
<1> DEFINE Fresh == \A id \in DOMAIN event_subscriptions' \ DOMAIN event_subscriptions :
                       \A t \in Threads : id \notin Held(t)
<1>1. ASSUME IdInvariant, [Next]_vars PROVE [Fresh]_vars
  <2> SUFFICES ASSUME Next,
                      NEW id \in DOMAIN event_subscriptions' \ DOMAIN event_subscriptions,
                      NEW t \in Threads
               PROVE  id \notin Held(t)
    BY <1>1
  <2>1. PICK channel \in Channels : SubscribeEventChannel(channel)
    BY Zenon DEF Next, Open, Execute, Close, CloseClear, NoSubscriptions, Poll, Dispatch,
           CollectCallbacks, InvokeCallback, NextEvent, ReturnFromDispatch,
           UnsubscribeEventChannel, Without
  <2>2. id = next_subscription_id
    BY <2>1 DEF SubscribeEventChannel
  <2> QED
    BY <1>1, <2>2 DEF IdInvariant, HeldIdsAreOld, TypeOK, Ids
<1> QED
  BY <1>1, IdInvariantInit, IdInvariantStep, PTL DEF Spec, FreshIds

-----------------------------------------------------------------------------
(* ------------------------ At most one delivery ------------------------- *)

\* The numbers of the events a call still has, and that they are in order.
Numbers(c) == {c.events[i].sequence : i \in 1 .. Len(c.events)}
Increasing(c) ==
    \A i, j \in 1 .. Len(c.events) : i < j => c.events[i].sequence < c.events[j].sequence

\* What was fetched from the present stream is not above the cursor, and nothing
\* comes from a stream that is not there yet.
BelowCursor ==
    /\ \A t \in Threads :
          /\ call[t].stream <= stream
          /\ call[t].stream = stream => \A n \in Numbers(call[t]) : n <= cursor
    /\ \A d \in delivered : d.stream <= stream /\ (d.stream = stream => d.sequence <= cursor)

\* An event is held by one dispatch at most.
HeldByOne ==
    \A t, u \in Threads :
        t # u /\ call[t].stream = call[u].stream =>
            Numbers(call[t]) \cap Numbers(call[u]) = {}

\* An event a dispatch has left was delivered to no one, the one at hand perhaps
\* to callbacks that are not due any more.
LeftUndelivered ==
    \A t \in Threads, d \in delivered :
        d.stream = call[t].stream /\ d.sequence \in Numbers(call[t]) =>
            /\ call[t].pc = "invoke"
            /\ d.sequence = Head(call[t].events).sequence
            /\ d.id \notin call[t].callbacks

DeliveryInvariant ==
    /\ \A t \in Threads : Increasing(call[t])
    /\ BelowCursor /\ HeldByOne /\ LeftUndelivered

\* A response is a run of consecutive events above the cursor (subscribe_events).
LEMMA SubscribeEventsConsecutive ==
    ASSUME log \in Seq(Kinds), NEW from \in Nat, NEW max_events \in Nat
    PROVE  \E base \in Nat :
              /\ base >= from
              /\ \A i \in 1 .. Len(SubscribeEvents(from, max_events)) :
                    SubscribeEvents(from, max_events)[i].sequence = base + i
<1> DEFINE events == SubscribeEvents(from, max_events)
           base == IF from > Dropped THEN from ELSE Dropped
           first == base + 1
           last == IF first + max_events - 1 < Len(log) THEN first + max_events - 1 ELSE Len(log)
           n == IF last < first THEN 0 ELSE last - first + 1
           e(i) == [sequence |-> first + i - 1, channel |-> log[first + i - 1]]
<1>1. Len(log) \in Nat /\ EventCapacity \in Nat
  BY SdkCapacityAssumption
<1>2. base \in Nat /\ base >= from
  BY <1>1 DEF Dropped
<1>3. n \in Nat
  BY <1>1, <1>2
<1>4. \A i \in 1 .. n : e(i).sequence = base + i
  BY <1>2, <1>3
<1>5. events = [i \in 1 .. n |-> e(i)]
  BY DEF SubscribeEvents, EventsAbove
<1> HIDE DEF e, n, base, events
<1>6. Len(events) = n
  BY <1>3, <1>5
<1>7. \A i \in 1 .. n : events[i] = e(i)
  BY <1>5
<1>8. \A i \in 1 .. Len(events) : events[i].sequence = base + i
  BY <1>4, <1>6, <1>7
<1> QED
  BY <1>2, <1>8, Zenon DEF events

\* The numbers a call has depend on its events alone.
LEMMA SameEvents ==
    ASSUME NEW c, NEW e, e.events = c.events
    PROVE  Numbers(e) = Numbers(c) /\ (Increasing(c) => Increasing(e))
BY DEF Numbers, Increasing

\* The event at hand is one of those a call has.
LEMMA FirstIsHeld ==
    ASSUME NEW c \in Call, c.events # <<>>
    PROVE  Head(c.events).sequence \in Numbers(c)
<1>1. c.events \in Seq([sequence: Nat, channel: Kinds])
  BY DEF Call
<1>2. Head(c.events) = c.events[1] /\ 1 \in 1 .. Len(c.events)
  BY <1>1
<1> QED
  BY <1>2 DEF Numbers

\* What is left of a call's events after the first.
LEMMA RestOfEvents ==
    ASSUME NEW c \in Call, c.events # <<>>, Increasing(c), NEW e, e.events = Tail(c.events)
    PROVE  /\ Numbers(e) \subseteq Numbers(c) \ {Head(c.events).sequence}
           /\ Increasing(e)
<1> DEFINE s == c.events
<1>1. s \in Seq([sequence: Nat, channel: Kinds]) /\ s # <<>>
  BY DEF Call
<1>2. Head(s) = s[1] /\ 1 \in 1 .. Len(s) /\ Len(s) \in Nat
  BY <1>1
<1>3. Len(e.events) = Len(s) - 1 /\ \A i \in 1 .. Len(s) - 1 : e.events[i] = s[i + 1]
  BY <1>1, <1>2
<1>4. \A i \in 1 .. Len(s) : s[i].sequence \in Nat
  <2>1. \A i \in 1 .. Len(s) : s[i] \in [sequence: Nat, channel: Kinds]
    BY <1>1, ElementOfSeq, Zenon
  <2> QED
    BY <2>1
<1>5. \A i \in 1 .. Len(s) - 1 : i + 1 \in 1 .. Len(s) /\ s[1].sequence < s[i + 1].sequence
  BY <1>2 DEF Increasing
<1> HIDE DEF s
<1>6. ASSUME NEW n \in Numbers(e) PROVE n \in Numbers(c) /\ n # Head(s).sequence
  <2>1. PICK i \in 1 .. Len(s) - 1 : n = s[i + 1].sequence
    BY <1>3, <1>6 DEF Numbers
  <2>2. n \in Numbers(c)
    BY <2>1, <1>5 DEF Numbers, s
  <2>3. n # Head(s).sequence
    BY <2>1, <1>2, <1>4, <1>5
  <2> QED
    BY <2>2, <2>3
<1>7. Increasing(e)
  <2> SUFFICES ASSUME NEW i \in 1 .. Len(s) - 1, NEW j \in 1 .. Len(s) - 1, i < j
               PROVE  s[i + 1].sequence < s[j + 1].sequence
    BY <1>3 DEF Increasing
  <2>1. i + 1 \in 1 .. Len(s) /\ j + 1 \in 1 .. Len(s) /\ i + 1 < j + 1
    BY <1>2
  <2> QED
    BY <2>1 DEF Increasing, s
<1> QED
  BY <1>6, <1>7 DEF s

\* A step that changes what one thread has of a dispatch.
Replaced(t, new) == call' = [call EXCEPT ![t] = new]

\* A dispatch that goes on holds no event it did not hold before.
LEMMA GoingOnKeeps ==
    ASSUME TypeOK, DeliveryInvariant, NEW t \in Threads, NEW new, Replaced(t, new),
           new.stream = call[t].stream, Numbers(new) \subseteq Numbers(call[t]), Increasing(new),
           UNCHANGED <<stream, cursor>>
    PROVE  /\ \A u \in Threads : Increasing(call'[u])
           /\ HeldByOne'
           /\ delivered' = delivered => BelowCursor'
<1>1. call'[t] = new /\ \A u \in Threads : u # t => call'[u] = call[u]
  BY DEF Replaced, TypeOK
<1>2. \A u \in Threads : /\ call'[u].stream = call[u].stream
                         /\ Numbers(call'[u]) \subseteq Numbers(call[u])
                         /\ Increasing(call'[u])
  BY <1>1 DEF DeliveryInvariant
<1>3. HeldByOne'
  BY <1>2, Zenon DEF DeliveryInvariant, HeldByOne
<1>4. ASSUME delivered' = delivered PROVE BelowCursor'
  BY <1>2, <1>4 DEF DeliveryInvariant, BelowCursor
<1> QED
  BY <1>2, <1>3, <1>4

\* The session starts with no dispatch.
LEMMA DeliveryInit == Init => DeliveryInvariant
<1> SUFFICES ASSUME Init PROVE DeliveryInvariant
  OBVIOUS
<1>1. Numbers(Idle) = {} /\ Increasing(Idle)
  BY DEF Numbers, Increasing, Idle
<1>2. \A t \in Threads : call[t] = Idle /\ call[t].stream = 0
  BY DEF Init, Idle
<1>3. delivered = {} /\ stream = 0
  BY DEF Init
<1> QED
  BY <1>1, <1>2, <1>3 DEF DeliveryInvariant, BelowCursor, HeldByOne, LeftUndelivered

\* Steps that change neither a dispatch nor the cursor nor what was delivered.
LEMMA AsideKeeps ==
    ASSUME DeliveryInvariant, UNCHANGED <<call, delivered, stream, cursor>>
    PROVE  DeliveryInvariant'
BY DEF DeliveryInvariant, BelowCursor, HeldByOne, LeftUndelivered

\* Open: nothing in flight is of a stream that starts.
LEMMA OpenKeeps ==
    ASSUME TypeOK, DeliveryInvariant, Open
    PROVE  DeliveryInvariant'
<1>1. CASE OpenFresh
  <2>1. UNCHANGED <<call, delivered>> /\ stream' = stream + 1 /\ stream \in Nat
    BY <1>1 DEF Open, OpenFresh, TypeOK
  <2>2. \A t \in Threads : call[t].stream \in Nat
    BY DEF TypeOK, Call
  <2>3. \A d \in delivered : d.stream \in Nat
    BY DEF TypeOK, Notification
  <2>4. BelowCursor'
    BY <2>1, <2>2, <2>3 DEF DeliveryInvariant, BelowCursor
  <2> QED
    BY <2>1, <2>4 DEF DeliveryInvariant, HeldByOne, LeftUndelivered
<1>2. CASE OpenRestored
  BY <1>2, AsideKeeps DEF Open, OpenRestored
<1> QED
  BY <1>1, <1>2 DEF Open

\* What Poll takes: events in order, all above the cursor and none above the new
\* cursor.
Fetched(new) ==
    /\ new.stream = stream /\ Increasing(new)
    /\ cursor' \in Nat /\ cursor' >= cursor
    /\ \A n \in Numbers(new) : n \in Nat /\ n > cursor /\ n <= cursor'

\* Poll replaces an idle call by one with events it fetched.
LEMMA PollFetches ==
    ASSUME TypeOK, NEW t \in Threads, Poll(t)
    PROVE  \E new : Replaced(t, new) /\ Fetched(new)
<1>1. PICK max_events \in 1 .. MaxEvents :
         LET events == SubscribeEvents(cursor, max_events)
         IN  /\ call' = [call EXCEPT ![t] = [pc |-> "collect", stream |-> stream, events |-> events,
                                             callbacks |-> {}, unsubscribe |-> {}]]
             /\ cursor' = IF events = <<>> THEN cursor ELSE events[Len(events)].sequence
  BY Zenon DEF Poll
<1> DEFINE events == SubscribeEvents(cursor, max_events)
           new == [pc |-> "collect", stream |-> stream, events |-> events,
                   callbacks |-> {}, unsubscribe |-> {}]
<1>2. max_events \in Nat /\ log \in Seq(Kinds) /\ cursor \in Nat /\ stream \in Nat
  BY SdkBoundsAssumption DEF TypeOK
<1>3. events \in Seq([sequence: Nat, channel: Kinds])
  BY <1>2, SubscribeEventsType, Zenon
<1>4. PICK base \in Nat : /\ base >= cursor
                          /\ \A i \in 1 .. Len(events) : events[i].sequence = base + i
  BY <1>2, SubscribeEventsConsecutive, Zenon
<1>5. call' = [call EXCEPT ![t] = new] /\ new.events = events /\ new.stream = stream
  BY <1>1
<1>6. cursor' = IF events = <<>> THEN cursor ELSE events[Len(events)].sequence
  BY <1>1
<1> HIDE DEF events
<1>7. Len(events) \in Nat /\ (events = <<>> <=> Len(events) = 0)
  BY <1>3
<1> HIDE DEF new
<1>8. Increasing(new)
  BY <1>4, <1>5, <1>7 DEF Increasing
<1>9. cursor' \in Nat /\ cursor' >= cursor
  BY <1>2, <1>4, <1>6, <1>7
<1>10. \A n \in Numbers(new) : n \in Nat /\ n > cursor /\ n <= cursor'
  <2> SUFFICES ASSUME NEW i \in 1 .. Len(events)
               PROVE  events[i].sequence \in Nat /\ events[i].sequence > cursor
                        /\ events[i].sequence <= cursor'
    BY <1>5 DEF Numbers
  <2> QED
    BY <1>2, <1>4, <1>6, <1>7
<1>11. Replaced(t, new) /\ Fetched(new)
  BY <1>5, <1>8, <1>9, <1>10, Zenon DEF Replaced, Fetched
<1> QED
  BY <1>11, Zenon

\* Poll: the events fetched are above the cursor, all that is held or was
\* delivered of the stream is not.
LEMMA PollKeeps ==
    ASSUME TypeOK, DeliveryInvariant, NEW t \in Threads, Poll(t)
    PROVE  DeliveryInvariant'
<1>1. PICK new : Replaced(t, new) /\ Fetched(new)
  BY PollFetches
<1>2. cursor \in Nat /\ stream \in Nat
  BY DEF TypeOK
<1>3. call'[t] = new /\ \A u \in Threads : u # t => call'[u] = call[u]
  BY <1>1 DEF Replaced, TypeOK
<1>4. UNCHANGED <<stream, delivered>>
  BY DEF Poll
<1>5. \A u \in Threads : \A n \in Numbers(call[u]) : n \in Nat
  <2> SUFFICES ASSUME NEW u \in Threads, NEW i \in 1 .. Len(call[u].events)
               PROVE  call[u].events[i].sequence \in Nat
    BY DEF Numbers
  <2>1. call[u].events \in Seq([sequence: Nat, channel: Kinds])
    BY Zenon DEF TypeOK, Call
  <2>2. call[u].events[i] \in [sequence: Nat, channel: Kinds]
    BY <2>1, ElementOfSeq, Zenon
  <2> QED
    BY <2>2
<1> DEFINE Old(u) == /\ call'[u].stream <= stream
                     /\ call'[u].stream = stream => \A n \in Numbers(call'[u]) : n \in Nat /\ n <= cursor
<1>6. \A u \in Threads : u # t => Old(u)
  BY <1>3, <1>5 DEF DeliveryInvariant, BelowCursor
<1>7. \A d \in delivered : d.sequence \in Nat
  BY DEF TypeOK, Notification
<1>8. BelowCursor'
  <2>1. ASSUME NEW u \in Threads
        PROVE  /\ call'[u].stream <= stream
               /\ call'[u].stream = stream => \A n \in Numbers(call'[u]) : n <= cursor'
    <3>1. CASE u = t
      BY <3>1, <1>1, <1>2, <1>3 DEF Fetched
    <3>2. CASE u # t
      <4>1. Old(u)
        BY <3>2, <1>6
      <4>2. \A n \in Nat : n <= cursor => n <= cursor'
        BY <1>1, <1>2 DEF Fetched
      <4> QED
        BY <4>1, <4>2
    <3> QED
      BY <3>1, <3>2
  <2>2. \A d \in delivered : d.stream <= stream /\ (d.stream = stream => d.sequence <= cursor')
    BY <1>1, <1>2, <1>7 DEF Fetched, DeliveryInvariant, BelowCursor
  <2> QED
    BY <2>1, <2>2, <1>4 DEF BelowCursor
<1>9. HeldByOne'
  <2> SUFFICES ASSUME NEW u \in Threads, NEW v \in Threads, u # v,
                      call'[u].stream = call'[v].stream, NEW n \in Numbers(call'[u]),
                      n \in Numbers(call'[v])
               PROVE  FALSE
    BY DEF HeldByOne
  <2>1. CASE u = t
    BY <2>1, <1>1, <1>2, <1>3, <1>6 DEF Fetched
  <2>2. CASE v = t
    BY <2>2, <1>1, <1>2, <1>3, <1>6 DEF Fetched
  <2>3. CASE u # t /\ v # t
    BY <2>3, <1>3 DEF DeliveryInvariant, HeldByOne
  <2> QED
    BY <2>1, <2>2, <2>3
<1>10. LeftUndelivered'
  <2> SUFFICES ASSUME NEW u \in Threads, NEW d \in delivered,
                      d.stream = call'[u].stream, d.sequence \in Numbers(call'[u])
               PROVE  /\ call'[u].pc = "invoke"
                      /\ d.sequence = Head(call'[u].events).sequence
                      /\ d.id \notin call'[u].callbacks
    BY <1>4 DEF LeftUndelivered
  <2>1. u # t
    BY <1>1, <1>2, <1>3, <1>7 DEF Fetched, DeliveryInvariant, BelowCursor
  <2> QED
    BY <2>1, <1>3 DEF DeliveryInvariant, LeftUndelivered
<1>11. \A u \in Threads : Increasing(call'[u])
  BY <1>1, <1>3 DEF Fetched, DeliveryInvariant
<1> QED
  BY <1>8, <1>9, <1>10, <1>11 DEF DeliveryInvariant

\* CollectCallbacks: the event at hand was delivered to no one yet.
LEMMA CollectKeeps ==
    ASSUME TypeOK, DeliveryInvariant, NEW t \in Threads, CollectCallbacks(t)
    PROVE  DeliveryInvariant'
<1> DEFINE found == {id \in DOMAIN event_subscriptions :
                        event_subscriptions[id] = Head(call[t].events).channel}
           new == [call[t] EXCEPT !.pc = "invoke", !.callbacks = found]
<1>1. Replaced(t, new)
  BY Zenon DEF CollectCallbacks, TypeOK, Replaced
<1>2. call[t] \in Call
  BY DEF TypeOK
<1>3. new.events = call[t].events /\ new.stream = call[t].stream
  BY <1>2 DEF Call
<1>4. call[t].pc = "collect" /\ UNCHANGED <<stream, cursor, delivered>>
  BY DEF CollectCallbacks
<1> HIDE DEF new
<1>5. Numbers(new) = Numbers(call[t]) /\ Increasing(new)
  BY <1>3, SameEvents DEF DeliveryInvariant
<1>6. /\ \A u \in Threads : Increasing(call'[u])
      /\ HeldByOne' /\ BelowCursor'
  BY <1>1, <1>3, <1>4, <1>5, GoingOnKeeps
<1>7. call'[t] = new /\ \A u \in Threads : u # t => call'[u] = call[u]
  BY <1>1 DEF Replaced, TypeOK
<1>8. \A d \in delivered : d.stream = call[t].stream => d.sequence \notin Numbers(call[t])
  BY <1>4 DEF DeliveryInvariant, LeftUndelivered
<1>9. LeftUndelivered'
  BY <1>3, <1>4, <1>5, <1>7, <1>8 DEF DeliveryInvariant, LeftUndelivered
<1> QED
  BY <1>6, <1>9 DEF DeliveryInvariant

\* InvokeCallback: the callback that runs is not due any more, and no other
\* dispatch has the event.
LEMMA InvokeKeeps ==
    ASSUME IdInvariant, DeliveryInvariant, NEW t \in Threads, InvokeCallback(t)
    PROVE  DeliveryInvariant'
<1>1. PICK id \in call[t].callbacks, unsubscribes \in BOOLEAN :
         /\ call' = [call EXCEPT ![t].callbacks = @ \ {id},
                                 ![t].unsubscribe = IF unsubscribes THEN @ \cup {id} ELSE @]
         /\ delivered' = delivered \cup
               {[stream |-> call[t].stream, sequence |-> Head(call[t].events).sequence, id |-> id]}
  BY Zenon DEF InvokeCallback
<1> DEFINE new == [call[t] EXCEPT !.callbacks = @ \ {id},
                                  !.unsubscribe = IF unsubscribes THEN @ \cup {id} ELSE @]
           n == Head(call[t].events).sequence
           d0 == [stream |-> call[t].stream, sequence |-> n, id |-> id]
<1>2. TypeOK /\ call[t] \in Call
  BY DEF IdInvariant, TypeOK
<1>3. Replaced(t, new)
  BY <1>1, <1>2, Zenon DEF TypeOK, Replaced
<1>4. /\ new.events = call[t].events /\ new.stream = call[t].stream /\ new.pc = call[t].pc
      /\ new.callbacks = call[t].callbacks \ {id}
  BY <1>2 DEF Call
<1>5. call[t].pc = "invoke" /\ UNCHANGED <<stream, cursor>>
  BY DEF InvokeCallback
<1> HIDE DEF new
<1>6. Numbers(new) = Numbers(call[t]) /\ Increasing(new)
  BY <1>4, SameEvents DEF DeliveryInvariant
<1>7. (\A u \in Threads : Increasing(call'[u])) /\ HeldByOne'
  BY <1>2, <1>3, <1>4, <1>5, <1>6, GoingOnKeeps
<1>8. call'[t] = new /\ \A u \in Threads : u # t => call'[u] = call[u]
  BY <1>2, <1>3 DEF Replaced, TypeOK
<1>9. n \in Numbers(call[t])
  <2>1. call[t].events # <<>>
    BY <1>5 DEF IdInvariant, InvokesForEvent
  <2> QED
    BY <1>2, <2>1, FirstIsHeld
<1>10. delivered' = delivered \cup {d0} /\ d0.stream = call[t].stream /\ d0.sequence = n /\ d0.id = id
  BY <1>1
<1> HIDE DEF d0, n
<1>11. BelowCursor'
  <2>1. \A u \in Threads : call'[u].stream = call[u].stream /\ Numbers(call'[u]) = Numbers(call[u])
    BY <1>4, <1>6, <1>8
  <2>2. d0.stream <= stream /\ (d0.stream = stream => d0.sequence <= cursor)
    BY <1>9, <1>10 DEF DeliveryInvariant, BelowCursor
  <2> QED
    BY <2>1, <2>2, <1>5, <1>10 DEF DeliveryInvariant, BelowCursor
<1>12. LeftUndelivered'
  <2> SUFFICES ASSUME NEW u \in Threads, NEW d \in delivered',
                      d.stream = call'[u].stream, d.sequence \in Numbers(call'[u])
               PROVE  /\ call'[u].pc = "invoke"
                      /\ d.sequence = Head(call'[u].events).sequence
                      /\ d.id \notin call'[u].callbacks
    BY DEF LeftUndelivered
  <2>1. CASE u = t /\ d = d0
    BY <2>1, <1>4, <1>5, <1>8, <1>10 DEF n
  <2>2. CASE u = t /\ d # d0
    BY <2>2, <1>4, <1>6, <1>8, <1>10 DEF DeliveryInvariant, LeftUndelivered
  <2>3. CASE u # t /\ d = d0
    BY <2>3, <1>8, <1>9, <1>10 DEF DeliveryInvariant, HeldByOne
  <2>4. CASE u # t /\ d # d0
    BY <2>4, <1>8, <1>10 DEF DeliveryInvariant, LeftUndelivered
  <2> QED
    BY <2>1, <2>2, <2>3, <2>4
<1> QED
  BY <1>7, <1>11, <1>12 DEF DeliveryInvariant

\* NextEvent: the events left were delivered to no one.
LEMMA NextEventKeeps ==
    ASSUME IdInvariant, DeliveryInvariant, NEW t \in Threads, NextEvent(t)
    PROVE  DeliveryInvariant'
<1> DEFINE new == [call[t] EXCEPT !.pc = "collect", !.events = Tail(@)]
<1>1. TypeOK /\ call[t] \in Call
  BY DEF IdInvariant, TypeOK
<1>2. Replaced(t, new)
  BY <1>1, Zenon DEF NextEvent, TypeOK, Replaced
<1>3. call[t].events # <<>> /\ Increasing(call[t]) /\ UNCHANGED <<stream, cursor, delivered>>
  BY DEF NextEvent, IdInvariant, InvokesForEvent, DeliveryInvariant
<1>4. new.events = Tail(call[t].events) /\ new.stream = call[t].stream
  BY <1>1 DEF Call
<1> HIDE DEF new
<1>5. Numbers(new) \subseteq Numbers(call[t]) \ {Head(call[t].events).sequence} /\ Increasing(new)
  BY <1>1, <1>3, <1>4, RestOfEvents
<1>6. (\A u \in Threads : Increasing(call'[u])) /\ HeldByOne' /\ BelowCursor'
  BY <1>1, <1>2, <1>3, <1>4, <1>5, GoingOnKeeps
<1>7. call'[t] = new /\ \A u \in Threads : u # t => call'[u] = call[u]
  BY <1>1, <1>2 DEF Replaced, TypeOK
<1>8. LeftUndelivered'
  BY <1>3, <1>4, <1>5, <1>7 DEF DeliveryInvariant, LeftUndelivered
<1> QED
  BY <1>6, <1>8 DEF DeliveryInvariant

\* ReturnFromDispatch: nothing is left.
LEMMA ReturnKeeps ==
    ASSUME TypeOK, DeliveryInvariant, NEW t \in Threads, ReturnFromDispatch(t)
    PROVE  DeliveryInvariant'
<1>1. UNCHANGED <<stream, cursor, delivered>> /\ call' = [call EXCEPT ![t] = Idle]
  BY DEF ReturnFromDispatch
<1>2. Numbers(Idle) = {} /\ Increasing(Idle) /\ Idle.stream = 0
  BY DEF Numbers, Increasing, Idle
<1>3. call'[t] = Idle /\ \A u \in Threads : u # t => call'[u] = call[u]
  BY <1>1 DEF TypeOK
<1>4. BelowCursor'
  BY <1>1, <1>2, <1>3 DEF DeliveryInvariant, BelowCursor, TypeOK
<1>5. HeldByOne'
  <2> SUFFICES ASSUME NEW u \in Threads, NEW v \in Threads, u # v,
                      call'[u].stream = call'[v].stream
               PROVE  Numbers(call'[u]) \cap Numbers(call'[v]) = {}
    BY DEF HeldByOne
  <2>1. CASE u = t \/ v = t
    BY <2>1, <1>2, <1>3
  <2>2. CASE u # t /\ v # t
    BY <2>2, <1>3 DEF DeliveryInvariant, HeldByOne
  <2> QED
    BY <2>1, <2>2
<1>6. LeftUndelivered'
  BY <1>1, <1>2, <1>3 DEF DeliveryInvariant, LeftUndelivered
<1> QED
  BY <1>2, <1>3, <1>4, <1>5, <1>6 DEF DeliveryInvariant

\* Every step is a step of a dispatch, Poll, Open or changes none of call,
\* delivered, stream and cursor.
LEMMA NextSplits ==
    ASSUME [Next]_vars
    PROVE  \/ Open
           \/ \E t \in Threads : \/ Poll(t) \/ CollectCallbacks(t) \/ InvokeCallback(t)
                                 \/ NextEvent(t) \/ ReturnFromDispatch(t)
           \/ UNCHANGED <<call, delivered, stream, cursor>>
<1>1. CASE Next
  BY <1>1, Zenon DEF Next, Dispatch, Execute, Close, CloseClear, SubscribeEventChannel,
       UnsubscribeEventChannel
<1>2. CASE UNCHANGED vars
  BY <1>2 DEF vars
<1> QED
  BY <1>1, <1>2

\* DeliveryInvariant is inductive beside IdInvariant.
LEMMA DeliveryStep == IdInvariant /\ DeliveryInvariant /\ [Next]_vars => DeliveryInvariant'
<1> SUFFICES ASSUME IdInvariant, DeliveryInvariant, [Next]_vars PROVE DeliveryInvariant'
  OBVIOUS
<1>1. TypeOK
  BY DEF IdInvariant
<1>2. CASE Open
  BY <1>1, <1>2, OpenKeeps
<1>3. ASSUME NEW t \in Threads,
             \/ Poll(t) \/ CollectCallbacks(t) \/ InvokeCallback(t)
             \/ NextEvent(t) \/ ReturnFromDispatch(t)
      PROVE  DeliveryInvariant'
  BY <1>1, <1>3, PollKeeps, CollectKeeps, InvokeKeeps, NextEventKeeps, ReturnKeeps, Zenon
<1>4. CASE UNCHANGED <<call, delivered, stream, cursor>>
  BY <1>4, AsideKeeps
<1> QED
  BY <1>2, <1>3, <1>4, NextSplits

\* No callback is called twice for one event, however many threads poll with a
\* common cursor, for any capacity of the event buffer, any batch limit and any
\* number of streams (PollAndDispatchEvents, subscribe_events).
THEOREM DeliveredOnce == Spec => []DeliveredAtMostOnce
<1>1. ASSUME IdInvariant, DeliveryInvariant PROVE DeliveredAtMostOnce
  <2>1. ASSUME NEW t \in Threads, call[t].pc = "invoke"
        PROVE  Head(call[t].events).sequence \in Numbers(call[t])
    BY <1>1, <2>1, FirstIsHeld DEF IdInvariant, InvokesForEvent, TypeOK
  <2>2. ASSUME NEW t \in Threads PROVE Pending(t) \cap delivered = {}
    <3> SUFFICES ASSUME NEW d \in delivered, d \in Pending(t) PROVE FALSE
      OBVIOUS
    <3>1. call[t].pc = "invoke"
      BY DEF Pending
    <3>2. PICK id \in call[t].callbacks :
             d = [stream |-> call[t].stream, sequence |-> Head(call[t].events).sequence, id |-> id]
      BY <3>1 DEF Pending
    <3>3. d.stream = call[t].stream /\ d.sequence \in Numbers(call[t]) /\ d.id = id
      BY <2>1, <3>1, <3>2
    <3> QED
      BY <1>1, <3>3 DEF DeliveryInvariant, LeftUndelivered
  <2>3. ASSUME NEW t \in Threads, NEW u \in Threads \ {t} PROVE Pending(t) \cap Pending(u) = {}
    <3> SUFFICES ASSUME NEW d \in Pending(t), d \in Pending(u) PROVE FALSE
      OBVIOUS
    <3>1. call[t].pc = "invoke" /\ call[u].pc = "invoke"
      BY DEF Pending
    <3>2. d.stream = call[t].stream /\ d.sequence = Head(call[t].events).sequence
      BY <3>1 DEF Pending
    <3>3. d.stream = call[u].stream /\ d.sequence = Head(call[u].events).sequence
      BY <3>1 DEF Pending
    <3>4. Numbers(call[t]) \cap Numbers(call[u]) = {}
      BY <1>1, <3>2, <3>3, Zenon DEF DeliveryInvariant, HeldByOne
    <3> QED
      BY <2>1, <3>1, <3>2, <3>3, <3>4
  <2> QED
    BY <2>2, <2>3 DEF DeliveredAtMostOnce
<1> QED
  BY <1>1, IdInvariantInit, IdInvariantStep, DeliveryInit, DeliveryStep, PTL DEF Spec

-----------------------------------------------------------------------------
(* ------------------------- Order of delivery --------------------------- *)

\* Only pollers hold events, and nothing they hold is older than what was
\* delivered of the same stream.  The second part needs that one thread polls.
OrderInvariant ==
    \A t \in Threads : \A n \in Numbers(call[t]) :
        /\ t \in Pollers
        /\ \A d \in delivered : d.stream = call[t].stream => d.sequence <= n

\* What a callback gets now is at most as new as what its dispatch still has.
LEMMA HeadIsLeast ==
    ASSUME NEW c \in Call, c.events # <<>>, Increasing(c), NEW n \in Numbers(c)
    PROVE  Head(c.events).sequence \in Nat /\ Head(c.events).sequence <= n
<1> DEFINE s == c.events
<1>1. s \in Seq([sequence: Nat, channel: Kinds]) /\ s # <<>>
  BY DEF Call
<1>2. Head(s) = s[1] /\ 1 \in 1 .. Len(s)
  BY <1>1
<1>3. \A i \in 1 .. Len(s) : s[i] \in [sequence: Nat, channel: Kinds]
  BY <1>1, ElementOfSeq, Zenon
<1>4. PICK i \in 1 .. Len(s) : n = s[i].sequence
  BY DEF Numbers
<1>5. s[1].sequence \in Nat /\ s[i].sequence \in Nat
  BY <1>2, <1>3
<1>6. i = 1 \/ s[1].sequence < s[i].sequence
  BY <1>2 DEF Increasing
<1> QED
  BY <1>2, <1>4, <1>5, <1>6

\* A step that delivers nothing, after which each call has events it had before.
LEMMA OrderOfRest ==
    ASSUME OrderInvariant, delivered' = delivered,
           \A t \in Threads : /\ Numbers(call'[t]) \subseteq Numbers(call[t])
                              /\ Numbers(call'[t]) # {} => call'[t].stream = call[t].stream
    PROVE  OrderInvariant'
BY Zenon DEF OrderInvariant

\* OrderInvariant is inductive when one thread polls.
LEMMA OrderStep ==
    ASSUME \A s, t \in Pollers : s = t, IdInvariant, DeliveryInvariant, OrderInvariant, [Next]_vars
    PROVE  OrderInvariant'
<1>1. TypeOK
  BY DEF IdInvariant
<1>2. CASE Open \/ UNCHANGED <<call, delivered, stream, cursor>>
  <2>1. UNCHANGED <<call, delivered>>
    BY <1>2 DEF Open
  <2> QED
    BY <2>1, OrderOfRest
<1>3. ASSUME NEW t \in Threads, Poll(t) PROVE OrderInvariant'
  <2>1. PICK new : Replaced(t, new) /\ Fetched(new)
    BY <1>1, <1>3, PollFetches
  <2>2. call'[t] = new /\ \A u \in Threads : u # t => call'[u] = call[u]
    BY <1>1, <2>1 DEF Replaced, TypeOK
  <2>3. t \in Pollers /\ delivered' = delivered
    BY <1>3 DEF Poll
  <2>4. ASSUME NEW n \in Numbers(new), NEW d \in delivered, d.stream = new.stream
        PROVE  d.sequence <= n
    <3>1. n \in Nat /\ n > cursor /\ cursor \in Nat
      BY <1>1, <2>1 DEF Fetched, TypeOK
    <3>2. d.sequence \in Nat /\ d.sequence <= cursor
      BY <1>1, <2>1, <2>4 DEF Fetched, TypeOK, Notification, DeliveryInvariant, BelowCursor
    <3> QED
      BY <3>1, <3>2
  <2> SUFFICES ASSUME NEW u \in Threads, NEW n \in Numbers(call'[u])
               PROVE  /\ u \in Pollers
                      /\ \A d \in delivered : d.stream = call'[u].stream => d.sequence <= n
    BY <2>3 DEF OrderInvariant
  <2>5. CASE u = t
    BY <2>2, <2>3, <2>4, <2>5
  <2>6. CASE u # t
    BY <2>2, <2>6 DEF OrderInvariant
  <2> QED
    BY <2>5, <2>6
<1>4. ASSUME NEW t \in Threads, CollectCallbacks(t) PROVE OrderInvariant'
  <2>1. call[t] \in Call /\ delivered' = delivered
    BY <1>1, <1>4 DEF TypeOK, CollectCallbacks
  <2>2. call'[t].events = call[t].events /\ call'[t].stream = call[t].stream
    BY <1>1, <1>4, <2>1 DEF CollectCallbacks, TypeOK, Call
  <2>3. \A u \in Threads : u # t => call'[u] = call[u]
    BY <1>1, <1>4 DEF CollectCallbacks, TypeOK
  <2> QED
    BY <2>1, <2>2, <2>3, SameEvents, OrderOfRest
<1>5. ASSUME NEW t \in Threads, NextEvent(t) PROVE OrderInvariant'
  <2>1. call[t] \in Call /\ delivered' = delivered /\ call[t].events # <<>> /\ Increasing(call[t])
    BY <1>1, <1>5 DEF TypeOK, NextEvent, IdInvariant, InvokesForEvent, DeliveryInvariant
  <2>2. call'[t].events = Tail(call[t].events) /\ call'[t].stream = call[t].stream
    BY <1>1, <1>5, <2>1 DEF NextEvent, TypeOK, Call
  <2>3. \A u \in Threads : u # t => call'[u] = call[u]
    BY <1>1, <1>5 DEF NextEvent, TypeOK
  <2>4. Numbers(call'[t]) \subseteq Numbers(call[t])
    BY <2>1, <2>2, RestOfEvents
  <2> QED
    BY <2>1, <2>2, <2>3, <2>4, OrderOfRest
<1>6. ASSUME NEW t \in Threads, ReturnFromDispatch(t) PROVE OrderInvariant'
  <2>1. delivered' = delivered /\ call'[t] = Idle /\ \A u \in Threads : u # t => call'[u] = call[u]
    BY <1>1, <1>6 DEF ReturnFromDispatch, TypeOK
  <2>2. Numbers(Idle) = {}
    BY DEF Numbers, Idle
  <2> QED
    BY <2>1, <2>2, OrderOfRest
<1>7. ASSUME NEW t \in Threads, InvokeCallback(t) PROVE OrderInvariant'
  <2> DEFINE head == Head(call[t].events).sequence
  <2>1. call[t] \in Call /\ call[t].events # <<>> /\ Increasing(call[t])
    BY <1>1, <1>7 DEF TypeOK, InvokeCallback, IdInvariant, InvokesForEvent, DeliveryInvariant
  <2>2. call'[t].events = call[t].events /\ call'[t].stream = call[t].stream
    BY <1>1, <1>7, <2>1 DEF InvokeCallback, TypeOK, Call
  <2>3. \A u \in Threads : u # t => call'[u] = call[u]
    BY <1>1, <1>7 DEF InvokeCallback, TypeOK
  <2>4. \A d \in delivered' : d \in delivered \/ (d.stream = call[t].stream /\ d.sequence = head)
    BY <1>7 DEF InvokeCallback
  <2>5. \A u \in Threads : Numbers(call'[u]) = Numbers(call[u]) /\ call'[u].stream = call[u].stream
    BY <2>2, <2>3, SameEvents
  <2>6. head \in Numbers(call[t])
    BY <2>1, FirstIsHeld
  <2> SUFFICES ASSUME NEW u \in Threads, NEW n \in Numbers(call[u])
               PROVE  /\ u \in Pollers
                      /\ \A d \in delivered' : d.stream = call[u].stream => d.sequence <= n
    BY <2>5 DEF OrderInvariant
  <2>7. u = t
    BY <2>6 DEF OrderInvariant
  <2>8. head <= n
    BY <2>1, <2>7, HeadIsLeast
  <2> QED
    BY <2>4, <2>7, <2>8 DEF OrderInvariant
<1> QED
  BY <1>2, <1>3, <1>4, <1>5, <1>6, <1>7, NextSplits

\* When one thread polls, each callback gets the events of a stream by increasing
\* sequence number, whatever the other threads do with the session and the
\* subscriptions (RuntimeSession::PollAndDispatchEvents).  With two pollers it
\* does not hold.
THEOREM OnePollerInOrder ==
    ASSUME \A s, t \in Pollers : s = t
    PROVE  Spec => DeliveredInOrder
<1> DEFINE InOrder == \A d \in delivered' \ delivered : \A e \in delivered :
                         e.stream = d.stream /\ e.id = d.id => e.sequence < d.sequence
<1>1. Init => OrderInvariant
  BY DEF Init, Idle, OrderInvariant, Numbers
<1>2. IdInvariant /\ DeliveryInvariant /\ OrderInvariant /\ [Next]_vars => OrderInvariant'
  BY OrderStep
<1>3. ASSUME IdInvariant, DeliveryInvariant, OrderInvariant, [Next]_vars PROVE [InOrder]_vars
  <2> SUFFICES ASSUME NEW d \in delivered', d \notin delivered, NEW e \in delivered,
                      e.stream = d.stream, e.id = d.id
               PROVE  e.sequence < d.sequence
    BY Zenon
  <2>1. TypeOK
    BY <1>3 DEF IdInvariant
  <2>2. PICK t \in Threads : InvokeCallback(t)
    BY <1>3, NextSplits, Zenon DEF Open, Poll, CollectCallbacks, NextEvent, ReturnFromDispatch
  <2> DEFINE head == Head(call[t].events).sequence
  <2>3. call[t] \in Call /\ call[t].pc = "invoke" /\ call[t].events # <<>>
    BY <1>3, <2>1, <2>2 DEF TypeOK, InvokeCallback, IdInvariant, InvokesForEvent
  <2>4. d.stream = call[t].stream /\ d.sequence = head /\ d.id \in call[t].callbacks
    BY <2>2 DEF InvokeCallback
  <2>5. head \in Numbers(call[t]) /\ head \in Nat
    BY <1>3, <2>3, FirstIsHeld, HeadIsLeast DEF DeliveryInvariant
  <2>6. e.sequence \in Nat /\ e.sequence <= head
    BY <1>3, <2>1, <2>4, <2>5 DEF OrderInvariant, TypeOK, Notification
  <2>7. e.sequence # head
    BY <1>3, <2>4, <2>5 DEF DeliveryInvariant, LeftUndelivered
  <2> QED
    BY <2>4, <2>5, <2>6, <2>7
<1> QED
  BY <1>1, <1>2, <1>3, IdInvariantInit, IdInvariantStep, DeliveryInit, DeliveryStep, PTL
     DEF Spec, DeliveredInOrder
=============================================================================
