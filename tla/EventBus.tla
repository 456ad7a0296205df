------------------------------ MODULE EventBus ------------------------------
(***************************************************************************)
(* The in-process bus of infrastructure/event_bus.py.  A publish latches   *)
(* the value and hands one item to each matching consumer through          *)
(* call_soon_threadsafe, so it enters the consumer's bounded queue later,  *)
(* in publishing order.  A consumer that subscribes gets the latched values*)
(* of its topics at once.  The operators are composed with the producers   *)
(* and consumers of a system in the module that EXTENDS this one.          *)
(*                                                                         *)
(* A topic prefix is represented by the set of topics it matches.          *)
(***************************************************************************)
EXTENDS Naturals, Sequences, FiniteSets

CONSTANTS
    Topics,
    Consumers,      \* queues that may be subscribed
    Subscription,   \* consumer -> the topics its prefix matches
    QueueSize,      \* queue_maxsize
    NoValue         \* nothing latched

ASSUME BusAssumption ==
    /\ Subscription \in [Consumers -> SUBSET Topics]
    /\ QueueSize \in Nat \ {0}
    /\ IsFiniteSet(Topics)

VARIABLES
    latched,        \* topic -> its latched payload
    consumers,      \* the subscribed consumers
    scheduled,      \* consumer -> items handed to the loop for its queue
    queue           \* consumer -> its queue

busVars == <<latched, consumers, scheduled, queue>>

\* An event: what publish() is called with.
Event(topic, payload, latch) == [topic |-> topic, payload |-> payload, latch |-> latch]

Matches(topic, c) == topic \in Subscription[c]

\* publish: latch, and schedule the item for every consumer that matches.
Publish(e) ==
    /\ latched' = IF e.latch THEN [latched EXCEPT ![e.topic] = e.payload] ELSE latched
    /\ scheduled' = [c \in Consumers |->
                        IF c \in consumers /\ Matches(e.topic, c)
                        THEN Append(scheduled[c], e) ELSE scheduled[c]]

\* What a full queue becomes: a latched item evicts the oldest entry, of
\* whatever topic, and any other item is dropped.
\* Slip: the newest item is dropped in both cases.
SlipOverflow(q, e) == q

Overflow(q, e) == IF e.latch THEN Append(Tail(q), e) ELSE q

\* The item _enqueue loses, if any.
LostBy(c) ==
    IF Len(queue[c]) < QueueSize THEN {}
    ELSE IF Head(scheduled[c]).latch THEN {Head(queue[c])} ELSE {Head(scheduled[c])}

\* _enqueue, on the loop.
Enqueue(c) ==
    /\ scheduled[c] # <<>>
    /\ LET e == Head(scheduled[c])
       IN  queue' = [queue EXCEPT ![c] = IF Len(@) < QueueSize THEN Append(@, e)
                                                               ELSE Overflow(@, e)]
    /\ scheduled' = [scheduled EXCEPT ![c] = Tail(@)]
    /\ UNCHANGED <<latched, consumers>>

\* Slip: a new subscriber waits for the next publish.
SlipSnapshot(c) == {}

\* The latched values of a consumer's topics, as the events that set them.
Snapshot(c) == {Event(t, latched[t], TRUE) : t \in {u \in Subscription[c] : latched[u] # NoValue}}

\* subscribe: a new queue is registered and filled with the latched values, in
\* the order they were first latched, until it is full.
Subscribe(c) ==
    /\ c \notin consumers
    /\ consumers' = consumers \cup {c}
    /\ \E q \in [1..Cardinality(Snapshot(c)) -> Snapshot(c)] :
        /\ \A i, j \in DOMAIN q : i # j => q[i] # q[j]
        /\ queue' = [queue EXCEPT ![c] = IF Len(q) <= QueueSize THEN q
                                                                ELSE SubSeq(q, 1, QueueSize)]
    /\ UNCHANGED <<latched, scheduled>>

\* unsubscribe: items still scheduled reach a queue nobody reads.
Unsubscribe(c) ==
    /\ c \in consumers
    /\ consumers' = consumers \ {c}
    /\ scheduled' = [scheduled EXCEPT ![c] = <<>>]
    /\ queue' = [queue EXCEPT ![c] = <<>>]
    /\ UNCHANGED latched

\* queue.get()
Take(c) ==
    /\ queue[c] # <<>>
    /\ queue' = [queue EXCEPT ![c] = Tail(@)]
    /\ UNCHANGED <<latched, consumers, scheduled>>
=============================================================================
