-------------------------- MODULE FleetStatusProofs --------------------------
(***************************************************************************)
(* Proofs about FleetStatus, for any robots, clients, transactions and     *)
(* queue size: the state is well typed, and a latched status differs from  *)
(* the facts only while a recompute is owed.                               *)
(***************************************************************************)
EXTENDS FleetStatus, FiniteSetTheorems, SequenceTheorems, TLAPS

Payloads == Robots \cup StatusValues \cup BatteryValues

\* What the use cases publish.
FactTopics == {Registry, Lifecycle, RunState}

-----------------------------------------------------------------------------
(* Topics and events                                                       *)

LEMMA TopicsDiffer ==
    \A r, q \in Robots :
        /\ Status(r) \in Topics /\ Battery(r) \in Topics /\ FactTopics \subseteq Topics
        /\ Status(r) \notin FactTopics
        /\ Battery(r) \notin FactTopics
        /\ Status(r) # Battery(q)
        /\ Status(r) = Status(q) => r = q
        /\ Battery(r) = Battery(q) => r = q
  BY FleetAssumption DEF FleetTopics, FactTopics, Registry, Lifecycle, RunState, Status, Battery

LEMMA FactTopicsDiffer ==
    /\ Registry # Lifecycle /\ Registry # RunState /\ Lifecycle # RunState
    /\ FactTopics \subseteq Topics
  BY FleetAssumption DEF FactTopics, FleetTopics, Registry, Lifecycle, RunState

LEMMA DrainFacts ==
    /\ Drains \subseteq Consumers /\ Clients \subseteq Consumers
    /\ Consumers = Drains \cup Clients
    /\ Drains \cap Clients = {}
    /\ Subscription["registry"] = {Registry}
    /\ Subscription["mission"] = {Lifecycle, RunState}
    /\ \A c \in Clients : Subscription[c] \subseteq {Status(r) : r \in Robots}
    /\ NoValue \notin Robots
    /\ Drains = {"registry", "mission"}
    /\ Tasks = Drains \cup {"sweep"}
  BY FleetAssumption DEF Drains, Tasks

\* An event that concerns a robot reaches the projector's queue for its topic.
LEMMA AffectedIsHeard ==
  ASSUME NEW e \in Events, NEW r \in Affected(e)
  PROVE  /\ r \in Robots
         /\ \E k \in Drains : Matches(e.topic, k)
  BY FleetAssumption DEF Events, Affected, Matches, Drains

LEMMA AnnouncingAppend ==
  ASSUME NEW s \in Seq(Events), NEW e \in Events
  PROVE  Announcing(Append(s, e)) = Announcing(s) \cup Affected(e)
<1> DEFINE n == Len(s)
<1>1. /\ n \in Nat /\ DOMAIN s = 1 .. n
      /\ DOMAIN Append(s, e) = 1 .. (n + 1)
      /\ \A i \in 1 .. n : Append(s, e)[i] = s[i]
      /\ Append(s, e)[n + 1] = e
  OBVIOUS
<1>2. 1 .. (n + 1) = (1 .. n) \cup {n + 1}
  BY <1>1
<1> HIDE DEF n
<1>3. \A a : a \in Announcing(Append(s, e)) <=> \E i \in 1 .. (n + 1) : a \in Affected(Append(s, e)[i])
  BY <1>1 DEF Announcing
<1>4. \A a : a \in Announcing(s) <=> \E i \in 1 .. n : a \in Affected(s[i])
  BY <1>1 DEF Announcing
<1> QED
  BY <1>1, <1>2, <1>3, <1>4

LEMMA AnnouncingTail ==
  ASSUME NEW s \in Seq(Events), s # <<>>
  PROVE  /\ Head(s) \in Events
         /\ Tail(s) \in Seq(Events)
         /\ Announcing(s) = Affected(Head(s)) \cup Announcing(Tail(s))
<1> DEFINE n == Len(s)
<1>1. /\ n \in Nat \ {0} /\ DOMAIN s = 1 .. n
      /\ Head(s) = s[1] /\ Head(s) \in Events
      /\ Tail(s) \in Seq(Events)
      /\ DOMAIN Tail(s) = 1 .. (n - 1)
      /\ \A i \in 1 .. (n - 1) : Tail(s)[i] = s[i + 1]
  OBVIOUS
<1> HIDE DEF n
<1>2. \A i \in 1 .. n : i = 1 \/ (i - 1 \in 1 .. (n - 1) /\ s[i] = Tail(s)[i - 1])
  BY <1>1
<1>3. \A i \in 1 .. (n - 1) : i + 1 \in 1 .. n
  BY <1>1
<1>4. \A a : a \in Announcing(s) <=> \E i \in 1 .. n : a \in Affected(s[i])
  BY <1>1 DEF Announcing
<1>5. \A a : a \in Announcing(Tail(s)) <=> \E i \in 1 .. (n - 1) : a \in Affected(Tail(s)[i])
  BY <1>1 DEF Announcing
<1>6. 1 \in 1 .. n
  BY <1>1
<1>7. ASSUME NEW a \in Announcing(s) PROVE a \in Affected(Head(s)) \cup Announcing(Tail(s))
  BY <1>1, <1>2, <1>4, <1>5
<1>8. ASSUME NEW a \in Affected(Head(s)) \cup Announcing(Tail(s)) PROVE a \in Announcing(s)
  BY <1>1, <1>3, <1>4, <1>5, <1>6
<1> QED
  BY <1>1, <1>7, <1>8

-----------------------------------------------------------------------------
(* The inductive invariant                                                 *)

FactEvents == {e \in Events : e.topic \in FactTopics}

\* A recompute that starts later is owed for the robot.
EventOwed(r) ==
    \/ \E t \in Txs : tx[t].phase = "committed" /\ r \in Announcing(tx[t].callbacks)
    \/ \E k \in Drains : r \in Announcing(queue[k]) \cup Announcing(scheduled[k])
    \/ \E k \in Tasks : task[k].at = "waiting" /\ task[k].robot = r
    \/ r \in missed

TxShape ==
    \A t \in Txs :
        /\ tx[t].phase = "none" => tx[t] = NoTx
        /\ tx[t].phase # "none" => /\ tx[t].robot \in Robots
                                   /\ tx[t].kind \in ConnectivityKinds \cup RunKinds
        /\ tx[t].callbacks \in Seq(FactEvents)

TaskShape ==
    \A k \in Tasks :
        /\ task[k].at = "idle" => task[k].robot = NoValue
        /\ task[k].at # "idle" => task[k].robot \in Robots
        /\ Recomputing(k) => Known(task[k].robot)
        /\ task[k].at = "derived" => task[k].status \in StatusValues

\* The lock of the projector.
OneRecompute == \A k, j \in Tasks : Recomputing(k) /\ Recomputing(j) => k = j

LastIsLatched == \A r \in Robots : last[r] = latched[Status(r)]

\* The lock of the robot's row.
OneOpen ==
    \A t, u \in Txs :
        /\ tx[t].phase = "open" /\ Busy(t, ConnectivityKinds, tx[u].robot)
        /\ tx[u].phase = "open" /\ tx[u].kind \in ConnectivityKinds
        => t = u

OpenAnnounces ==
    \A t \in Txs : tx[t].phase = "open" => tx[t].callbacks = Callbacks(tx[t].kind, tx[t].robot)

\* What a recompute holds, and what is latched when none is under way, is what
\* the facts give unless a later recompute is owed.
Fresh(r) ==
    \/ EventOwed(r)
    \/ /\ \A k \in Tasks : task[k].robot = r =>
            /\ task[k].at = "robot_read" => task[k].online = (row[r] = "online")
            /\ task[k].at = "derived" => task[k].status = Derived(r)
       /\ \/ \E k \in Tasks : Recomputing(k) /\ task[k].robot = r
          \/ Known(r) => latched[Status(r)] = Derived(r)

Shape ==
    /\ TypeOK
    /\ Drains \subseteq consumers
    /\ TxShape
    /\ TaskShape
    /\ OneRecompute
    /\ LastIsLatched
    /\ OneOpen
    /\ OpenAnnounces

IInv == Shape /\ \A r \in Robots : Fresh(r)

-----------------------------------------------------------------------------
(* Facts about the operators of the actions                                *)

LEMMA ConstantFacts ==
    /\ Topics = FleetTopics /\ Consumers = Drains \cup Clients
    /\ Registry \in Topics /\ Lifecycle \in Topics /\ RunState \in Topics
    /\ \A r \in Robots : Status(r) \in Topics /\ Battery(r) \in Topics
    /\ NoTx \in TxRows /\ NoTask \in TaskRows
    /\ Seq(FactEvents) \subseteq Seq(Events)
  <1>1. FactEvents \subseteq Events
    BY DEF FactEvents
  <1>2. Seq(FactEvents) \subseteq Seq(Events)
    BY <1>1
  <1>3. NoTx \in TxRows
    BY DEF NoTx, TxRows
  <1>4. NoTask \in TaskRows
    BY DEF NoTask, TaskRows
  <1> QED
    BY <1>2, <1>3, <1>4, FleetAssumption DEF FleetTopics

LEMMA CallbacksType ==
  ASSUME NEW kind \in ConnectivityKinds \cup RunKinds, NEW r \in Robots
  PROVE  /\ Callbacks(kind, r) \in Seq(FactEvents)
         /\ kind \in RunKinds => Callbacks(kind, r) # <<>>
<1>1. Event(Registry, r, FALSE) \in FactEvents /\ Event(Lifecycle, r, FALSE) \in FactEvents
      /\ Event(RunState, r, TRUE) \in FactEvents
  BY ConstantFacts, FactTopicsDiffer DEF FactEvents, Events, Event, FactTopics
<1>2. kind \in {"online", "offline", "move", "frame"}
  BY DEF ConnectivityKinds, RunKinds
<1>3. \A e \in FactEvents : <<e>> \in Seq(FactEvents) /\ <<e>> # <<>>
  OBVIOUS
<1>4. <<>> \in Seq(FactEvents)
  OBVIOUS
<1>5. CASE kind = "online"
  <2>1. Callbacks(kind, r) = <<Event(Registry, r, FALSE)>>
    BY <1>5 DEF Callbacks, EventOf, ConnectivityKinds
  <2> QED BY <2>1, <1>1, <1>3, <1>5 DEF RunKinds
<1>6. CASE kind = "offline"
  <2>1. Callbacks(kind, r) \in {<<>>, <<Event(Registry, r, FALSE)>>}
    BY <1>6 DEF Callbacks, EventOf, ConnectivityKinds
  <2> QED BY <2>1, <1>1, <1>3, <1>4, <1>6 DEF RunKinds
<1>7. CASE kind = "move"
  <2>1. Callbacks(kind, r) = <<Event(Lifecycle, r, FALSE)>>
    BY <1>7 DEF Callbacks, EventOf, ConnectivityKinds
  <2> QED BY <2>1, <1>1, <1>3
<1>8. CASE kind = "frame"
  <2>1. Callbacks(kind, r) = <<Event(RunState, r, TRUE)>>
    BY <1>8 DEF Callbacks, EventOf, ConnectivityKinds
  <2> QED BY <2>1, <1>1, <1>3
<1> QED BY <1>2, <1>5, <1>6, <1>7, <1>8

\* A transaction that changes a fact announces it.
LEMMA ChangeIsAnnounced ==
  ASSUME NEW kind \in ConnectivityKinds \cup {"move"}, NEW r \in Robots,
         kind = "offline" => Known(r)
  PROVE  r \in Announcing(Callbacks(kind, r))
<1>1. CASE kind \in ConnectivityKinds
  <2>1. Callbacks(kind, r) = <<Event(Registry, r, FALSE)>>
    BY <1>1 DEF Callbacks, EventOf, ConnectivityKinds
  <2> QED BY <2>1 DEF Announcing, Affected, Event
<1>2. CASE kind = "move"
  <2>1. Callbacks(kind, r) = <<Event(Lifecycle, r, FALSE)>>
    BY <1>2 DEF Callbacks, EventOf, ConnectivityKinds
  <2> QED BY <2>1 DEF Announcing, Affected, Event
<1> QED BY <1>1, <1>2

\* What a publish does to the queues and the latched values.
LEMMA PublishFacts ==
  ASSUME TypeOK, NEW e \in Events, Publish(e), Drains \subseteq consumers
  PROVE  /\ latched' \in [Topics -> Robots \cup StatusValues \cup BatteryValues \cup {NoValue}]
         /\ scheduled' \in [Consumers -> Seq(Events)]
         /\ \A t \in Topics : t # e.topic => latched'[t] = latched[t]
         /\ e.latch => latched'[e.topic] = e.payload
         /\ \A k \in Drains : Announcing(scheduled[k]) \subseteq Announcing(scheduled'[k])
         /\ \A a \in Affected(e) : \E k \in Drains : a \in Announcing(scheduled'[k])
<1>1. e.topic \in Topics /\ e.payload \in Robots \cup StatusValues \cup BatteryValues
      /\ e.latch \in BOOLEAN
  BY DEF Events
<1>2. /\ latched \in [Topics -> Robots \cup StatusValues \cup BatteryValues \cup {NoValue}]
      /\ scheduled \in [Consumers -> Seq(Events)]
  BY DEF TypeOK
<1>3. \A c \in Consumers : Append(scheduled[c], e) \in Seq(Events)
  BY <1>2
<1>4. /\ latched' \in [Topics -> Robots \cup StatusValues \cup BatteryValues \cup {NoValue}]
      /\ \A t \in Topics : t # e.topic => latched'[t] = latched[t]
      /\ e.latch => latched'[e.topic] = e.payload
  BY <1>1, <1>2 DEF Publish
<1>5. scheduled' \in [Consumers -> Seq(Events)]
  BY <1>2, <1>3 DEF Publish
<1>6. ASSUME NEW k \in Drains
      PROVE  /\ Announcing(scheduled[k]) \subseteq Announcing(scheduled'[k])
             /\ Matches(e.topic, k) => Affected(e) \subseteq Announcing(scheduled'[k])
  <2>1. k \in Consumers /\ k \in consumers
    BY DrainFacts
  <2>2. scheduled'[k] = IF Matches(e.topic, k) THEN Append(scheduled[k], e) ELSE scheduled[k]
    BY <2>1 DEF Publish
  <2>3. Announcing(Append(scheduled[k], e)) = Announcing(scheduled[k]) \cup Affected(e)
    BY <2>1, <1>2, AnnouncingAppend
  <2> QED BY <2>2, <2>3
<1>7. ASSUME NEW a \in Affected(e) PROVE \E k \in Drains : a \in Announcing(scheduled'[k])
  BY <1>6, AffectedIsHeard
<1> QED BY <1>4, <1>5, <1>6, <1>7

-----------------------------------------------------------------------------
(* The transactions' steps                                                 *)

\* What the steps of a transaction leave alone of the projector.
LEMMA OpenKeeps ==
  ASSUME IInv, NEW t \in Txs, NEW kind \in ConnectivityKinds \cup RunKinds, NEW r \in Robots,
         \/ OpenConnectivity(t, kind, r) /\ kind \in ConnectivityKinds
         \/ OpenRun(t, kind, r) /\ kind \in RunKinds
  PROVE  IInv'
<1> DEFINE opened == [phase |-> "open", kind |-> kind, robot |-> r, callbacks |-> Callbacks(kind, r)]
<1>1. /\ tx[t].phase = "none" /\ tx[t] = NoTx
      /\ tx' = [tx EXCEPT ![t] = opened]
      /\ tx \in [Txs -> TxRows]
  BY DEF OpenConnectivity, OpenRun, Begin, IInv, Shape, TypeOK, TxShape
<1>2. opened \in TxRows /\ opened.callbacks \in Seq(FactEvents)
  BY CallbacksType, ConstantFacts DEF TxRows
<1>3. /\ tx' \in [Txs -> TxRows]
      /\ tx'[t] = opened
      /\ \A u \in Txs : u # t => tx'[u] = tx[u]
  BY <1>1, <1>2
<1>4. /\ UNCHANGED <<latched, consumers, scheduled, queue, row, executing, adapter, task, todo,
                     last, view, missed>>
      /\ \E n \in Counted : Counts(n)
  BY DEF OpenConnectivity, OpenRun, busVars, factVars, projectorVars, Counted
<1>5. count' \in [Counted -> Nat]
  BY <1>4 DEF Counts, IInv, Shape, TypeOK
<1>6. TypeOK'
  BY <1>3, <1>4, <1>5 DEF IInv, Shape, TypeOK
<1>7. TxShape'
  BY <1>3, <1>2 DEF IInv, Shape, TxShape
<1>8. TaskShape' /\ OneRecompute' /\ LastIsLatched' /\ (Drains \subseteq consumers)'
  BY <1>4 DEF IInv, Shape, TaskShape, OneRecompute, LastIsLatched, Recomputing, Known
<1>9. OneOpen'
  <2> SUFFICES ASSUME NEW u \in Txs, NEW v \in Txs,
                      tx'[u].phase = "open", tx'[u].kind \in ConnectivityKinds,
                      tx'[u].robot = tx'[v].robot,
                      tx'[v].phase = "open", tx'[v].kind \in ConnectivityKinds
               PROVE  u = v
    BY DEF OneOpen, Busy
  <2>1. CASE u # t /\ v # t
    BY <2>1, <1>3 DEF IInv, Shape, OneOpen, Busy
  <2>2. ASSUME NEW w \in Txs, w # t, tx[w].phase = "open", tx[w].kind \in ConnectivityKinds,
               tx[w].robot = r, kind \in ConnectivityKinds
        PROVE  FALSE
    BY <2>2 DEF OpenConnectivity, RowLocked, Busy, ConnectivityKinds, RunKinds
  <2>3. CASE u = t \/ v = t
    BY <2>2, <2>3, <1>3
  <2> QED BY <2>1, <2>3
<1>10. OpenAnnounces'
  <2>1. \A k, q : Callbacks(k, q)' = Callbacks(k, q)
    BY <1>4 DEF Callbacks, Known
  <2> QED BY <2>1, <1>3 DEF IInv, Shape, OpenAnnounces
<1>11. ASSUME NEW q \in Robots PROVE Fresh(q)'
  <2>1. EventOwed(q) => EventOwed(q)'
    <3>1. \A u \in Txs : tx[u].phase = "committed" => tx'[u] = tx[u]
      BY <1>1, <1>3 DEF NoTx
    <3> QED BY <3>1, <1>4 DEF EventOwed
  <2>2. Derived(q)' = Derived(q)
    BY <1>4 DEF Derived, Charging
  <2>3. Fresh(q)
    BY DEF IInv
  <2> QED BY <2>1, <2>2, <2>3, <1>4 DEF Fresh, Recomputing, Known
<1> QED BY <1>6, <1>7, <1>8, <1>9, <1>10, <1>11 DEF IInv, Shape

\* A step that takes a transaction out, or leaves it open or committed: what it
\* keeps when nothing else but facts change.
LEMMA CommitKeeps ==
  ASSUME IInv, NEW t \in Txs, Commit(t)
  PROVE  IInv'
<1> DEFINE r == tx[t].robot
           kind == tx[t].kind
<1>1. /\ tx[t].phase = "open"
      /\ tx' = [tx EXCEPT ![t].phase = "committed"]
      /\ tx \in [Txs -> TxRows] /\ tx[t] \in TxRows
      /\ r \in Robots /\ kind \in ConnectivityKinds \cup RunKinds
      /\ tx[t].callbacks \in Seq(FactEvents)
  BY DEF Commit, IInv, Shape, TypeOK, TxShape
<1>2. /\ tx' \in [Txs -> TxRows]
      /\ tx'[t] = [tx[t] EXCEPT !.phase = "committed"]
      /\ tx'[t].phase = "committed" /\ tx'[t].kind = kind /\ tx'[t].robot = r
      /\ tx'[t].callbacks = tx[t].callbacks
      /\ \A u \in Txs : u # t => tx'[u] = tx[u]
  BY <1>1 DEF TxRows
<1>3. /\ UNCHANGED <<latched, consumers, scheduled, queue, adapter, task, todo, last, view,
                     missed, count>>
  BY DEF Commit, busVars, factVars, projectorVars
<1>4. /\ row \in [Robots -> {"unknown", "online", "offline"}] /\ executing \in [Robots -> BOOLEAN]
      /\ row' \in [Robots -> {"unknown", "online", "offline"}]
      /\ executing' \in [Robots -> BOOLEAN]
      /\ \A q \in Robots : q # r => row'[q] = row[q] /\ executing'[q] = executing[q]
      /\ kind \in RunKinds => row' = row
      /\ kind = "offline" /\ ~Known(r) => row' = row
      /\ kind # "move" => executing' = executing
      /\ \A q \in Robots : Known(q) => Known(q)'
  <2>1. row \in [Robots -> {"unknown", "online", "offline"}] /\ executing \in [Robots -> BOOLEAN]
    BY DEF IInv, Shape, TypeOK
  <2>2. row' = [row EXCEPT ![r] = CASE kind = "online" -> "online"
                                    [] kind = "offline" /\ Known(r) -> "offline"
                                    [] OTHER -> @]
        /\ executing' = [executing EXCEPT ![r] = IF kind = "move" THEN ~@ ELSE @]
    BY DEF Commit
  <2>3. kind = "online" \/ (kind = "offline" /\ Known(r)) \/ ~(kind = "online" \/ (kind = "offline" /\ Known(r)))
    OBVIOUS
  <2>4. row' = [row EXCEPT ![r] = IF kind = "online" THEN "online"
                                  ELSE IF kind = "offline" /\ Known(r) THEN "offline" ELSE @]
    BY <2>2
  <2>5. "online" # "offline" /\ "online" # "unknown" /\ "offline" # "unknown"
    OBVIOUS
  <2> HIDE DEF kind, r
  <2>6. row' \in [Robots -> {"unknown", "online", "offline"}] /\ executing' \in [Robots -> BOOLEAN]
    BY <2>1, <2>2, <2>4
  <2>7. \A q \in Robots : q # r => row'[q] = row[q] /\ executing'[q] = executing[q]
    BY <2>1, <2>2, <2>4
  <2>8. kind \in RunKinds \/ (kind = "offline" /\ ~Known(r)) => row' = row
    BY <2>1, <2>4 DEF RunKinds
  <2>9. kind # "move" => executing' = executing
    BY <2>1, <2>2
  <2>10. \A q \in Robots : Known(q) => Known(q)'
    BY <2>1, <2>4, <2>5 DEF Known
  <2> QED BY <2>1, <2>6, <2>7, <2>8, <2>9, <2>10
<1>5. TypeOK'
  BY <1>2, <1>3, <1>4 DEF IInv, Shape, TypeOK
<1>6. TxShape'
  BY <1>1, <1>2 DEF IInv, Shape, TxShape
<1>7. TaskShape'
  BY <1>3, <1>4 DEF IInv, Shape, TaskShape, Recomputing
<1>8. OneRecompute' /\ LastIsLatched' /\ (Drains \subseteq consumers)'
  BY <1>3 DEF IInv, Shape, OneRecompute, LastIsLatched, Recomputing
<1>9. OneOpen'
  BY <1>2 DEF IInv, Shape, OneOpen, Busy
<1>10. OpenAnnounces'
  <2> SUFFICES ASSUME NEW u \in Txs, tx'[u].phase = "open"
               PROVE  tx'[u].callbacks = Callbacks(tx[u].kind, tx[u].robot)'
    BY DEF OpenAnnounces
  <2>1. u # t /\ tx'[u] = tx[u] /\ tx[u].phase = "open"
        /\ tx[u].callbacks = Callbacks(tx[u].kind, tx[u].robot)
        /\ tx[u].robot \in Robots
    BY <1>2 DEF IInv, Shape, OpenAnnounces, TxShape
  <2>2. tx[u].kind # "offline" \/ (Known(tx[u].robot)' <=> Known(tx[u].robot))
    <3>1. CASE tx[u].robot # r
      BY <3>1, <2>1, <1>4 DEF Known
    <3>2. CASE tx[u].robot = r /\ tx[u].kind = "offline"
      <4>1. ~(kind \in ConnectivityKinds)
        BY <3>2, <2>1, <1>1 DEF IInv, Shape, OneOpen, Busy, ConnectivityKinds
      <4> QED BY <4>1, <1>1, <1>4 DEF Known
    <3> QED BY <3>1, <3>2
  <2> PICK k, q : k = tx[u].kind /\ q = tx[u].robot
    OBVIOUS
  <2>3. k # "offline" \/ (Known(q)' <=> Known(q))
    BY <2>1, <2>2 DEF Known
  <2>4. Callbacks(k, q)' = Callbacks(k, q)
    BY <2>3 DEF Callbacks
  <2>5. tx[u].callbacks = Callbacks(k, q)
    BY <2>1
  <2>6. Callbacks(tx[u].kind, tx[u].robot)' = Callbacks(k, q)'
    BY <2>1 DEF Callbacks
  <2> QED BY <2>1, <2>4, <2>5, <2>6
<1>11. ASSUME NEW q \in Robots PROVE Fresh(q)'
  <2>1. EventOwed(q) => EventOwed(q)'
    BY <1>1, <1>2, <1>3 DEF EventOwed
  <2>2. Fresh(q)
    BY DEF IInv
  <2>3. CASE row'[q] = row[q] /\ executing'[q] = executing[q]
    <3>1. Derived(q)' = Derived(q)
      BY <2>3, <1>3 DEF Derived, Charging
    <3> QED BY <3>1, <2>1, <2>2, <2>3, <1>3 DEF Fresh, Recomputing, Known
  <2>4. CASE ~(row'[q] = row[q] /\ executing'[q] = executing[q])
    <3>1. q = r /\ kind \in ConnectivityKinds \cup {"move"} /\ (kind = "offline" => Known(r))
      BY <2>4, <1>1, <1>4 DEF ConnectivityKinds, RunKinds
    <3>2. tx[t].callbacks = Callbacks(kind, r)
      BY <1>1 DEF IInv, Shape, OpenAnnounces
    <3>3. r \in Announcing(tx'[t].callbacks)
      BY <3>1, <3>2, <1>1, <1>2, ChangeIsAnnounced
    <3> QED BY <3>1, <3>3, <1>2 DEF Fresh, EventOwed
  <2> QED BY <2>3, <2>4
<1> QED BY <1>5, <1>6, <1>7, <1>8, <1>9, <1>10, <1>11 DEF IInv, Shape

\* A step that ends a transaction that has nothing to announce.
LEMMA EndKeeps ==
  ASSUME IInv, NEW t \in Txs, Rollback(t) \/ LeaveScope(t) \/ LeaveScopeFails(t)
  PROVE  IInv'
<1>1. /\ tx[t].phase \in {"open", "committed"}
      /\ tx[t].phase = "committed" => tx[t].callbacks = <<>>
      /\ tx' = [tx EXCEPT ![t] = NoTx]
      /\ tx \in [Txs -> TxRows]
      /\ tx[t].robot \in Robots
  BY DEF Rollback, LeaveScope, LeaveScopeFails, IInv, Shape, TypeOK, TxShape
<1>2. /\ tx' \in [Txs -> TxRows]
      /\ tx'[t] = NoTx
      /\ \A u \in Txs : u # t => tx'[u] = tx[u]
  BY <1>1, ConstantFacts
<1>3. /\ UNCHANGED <<latched, consumers, scheduled, queue, row, executing, task, todo, last, view,
                     missed>>
      /\ adapter' \subseteq Robots
      /\ count' \in [Counted -> Nat]
  <2>1. adapter \subseteq Robots
    BY DEF IInv, Shape, TypeOK
  <2>2. adapter' \subseteq adapter \cup {tx[t].robot}
    BY DEF Rollback, LeaveScope, LeaveScopeFails, factVars
  <2>3. count' \in [Counted -> Nat]
    BY DEF Rollback, LeaveScope, LeaveScopeFails, Counts, Counted, IInv, Shape, TypeOK
  <2> QED BY <1>1, <2>1, <2>2, <2>3 DEF Rollback, LeaveScope, LeaveScopeFails,
         busVars, factVars, projectorVars
<1>4. TypeOK'
  BY <1>2, <1>3 DEF IInv, Shape, TypeOK
<1>5. TxShape'
  <2>1. NoTx.phase = "none" /\ NoTx.callbacks \in Seq(FactEvents)
    BY DEF NoTx
  <2> QED BY <1>2, <2>1 DEF IInv, Shape, TxShape
<1>6. TaskShape' /\ OneRecompute' /\ LastIsLatched' /\ (Drains \subseteq consumers)'
  BY <1>3 DEF IInv, Shape, TaskShape, OneRecompute, LastIsLatched, Recomputing, Known
<1>7. OneOpen' /\ OpenAnnounces'
  <2>1. NoTx.phase # "open"
    BY DEF NoTx
  <2>2. \A k, q : Callbacks(k, q)' = Callbacks(k, q)
    BY <1>3 DEF Callbacks, Known
  <2>3. OneOpen'
    BY <1>2, <2>1 DEF IInv, Shape, OneOpen, Busy
  <2>4. OpenAnnounces'
    BY <1>2, <2>1, <2>2 DEF IInv, Shape, OpenAnnounces
  <2> QED BY <2>3, <2>4
<1>8. ASSUME NEW q \in Robots PROVE Fresh(q)'
  <2>1. EventOwed(q) => EventOwed(q)'
    <3>1. Announcing(<<>>) = {}
      BY DEF Announcing
    <3> QED BY <3>1, <1>1, <1>2, <1>3 DEF EventOwed
  <2>2. Derived(q)' = Derived(q)
    BY <1>3 DEF Derived, Charging
  <2>3. Fresh(q)
    BY DEF IInv
  <2> QED BY <2>1, <2>2, <2>3, <1>3 DEF Fresh, Recomputing, Known
<1> QED BY <1>4, <1>5, <1>6, <1>7, <1>8 DEF IInv, Shape

LEMMA CallbackKeeps ==
  ASSUME IInv, NEW t \in Txs, RunCallback(t)
  PROVE  IInv'
<1> DEFINE e == Head(tx[t].callbacks)
<1>1. /\ tx[t].phase = "committed"
      /\ tx' = [tx EXCEPT ![t].callbacks = Tail(@)]
      /\ tx \in [Txs -> TxRows] /\ tx[t] \in TxRows
      /\ tx[t].callbacks \in Seq(FactEvents) /\ tx[t].callbacks # <<>>
      /\ Publish(e)
  BY DEF RunCallback, IInv, Shape, TypeOK, TxShape
<1>2. e \in FactEvents /\ Tail(tx[t].callbacks) \in Seq(FactEvents)
  BY <1>1
<1>3. e \in Events /\ e.topic \in FactTopics /\ Tail(tx[t].callbacks) \in Seq(Events)
      /\ tx[t].callbacks \in Seq(Events)
  BY <1>1, <1>2, ConstantFacts DEF FactEvents
<1>4. /\ tx' \in [Txs -> TxRows]
      /\ tx'[t].phase = "committed" /\ tx'[t].kind = tx[t].kind /\ tx'[t].robot = tx[t].robot
      /\ tx'[t].callbacks = Tail(tx[t].callbacks)
      /\ \A u \in Txs : u # t => tx'[u] = tx[u]
  BY <1>1, <1>3 DEF TxRows
<1>5. UNCHANGED <<consumers, queue, row, executing, adapter, task, todo, last, view, missed, count>>
  BY DEF RunCallback, factVars, projectorVars
<1>6. /\ latched' \in [Topics -> Robots \cup StatusValues \cup BatteryValues \cup {NoValue}]
      /\ scheduled' \in [Consumers -> Seq(Events)]
      /\ \A q \in Robots : latched'[Status(q)] = latched[Status(q)]
                           /\ latched'[Battery(q)] = latched[Battery(q)]
      /\ \A k \in Drains : Announcing(scheduled[k]) \subseteq Announcing(scheduled'[k])
      /\ \A a \in Affected(e) : \E k \in Drains : a \in Announcing(scheduled'[k])
  <2>1. TypeOK /\ Drains \subseteq consumers
    BY DEF IInv, Shape
  <2>2. \A q \in Robots : Status(q) # e.topic /\ Battery(q) # e.topic
                          /\ Status(q) \in Topics /\ Battery(q) \in Topics
    BY <1>3, TopicsDiffer
  <2> HIDE DEF e
  <2> QED BY <2>1, <2>2, <1>1, <1>3, PublishFacts
<1>7. TypeOK'
  BY <1>4, <1>5, <1>6 DEF IInv, Shape, TypeOK
<1>8. TxShape'
  BY <1>1, <1>2, <1>4 DEF IInv, Shape, TxShape
<1>9. TaskShape' /\ OneRecompute' /\ LastIsLatched' /\ (Drains \subseteq consumers)'
  BY <1>5, <1>6 DEF IInv, Shape, TaskShape, OneRecompute, LastIsLatched, Recomputing, Known
<1>10. OneOpen' /\ OpenAnnounces'
  <2>1. \A k, q : Callbacks(k, q)' = Callbacks(k, q)
    BY <1>5 DEF Callbacks, Known
  <2>2. OneOpen'
    BY <1>4 DEF IInv, Shape, OneOpen, Busy
  <2>3. OpenAnnounces'
    BY <1>4, <2>1 DEF IInv, Shape, OpenAnnounces
  <2> QED BY <2>2, <2>3
<1>11. ASSUME NEW q \in Robots PROVE Fresh(q)'
  <2>1. EventOwed(q) => EventOwed(q)'
    <3>1. Announcing(tx[t].callbacks) = Affected(e) \cup Announcing(tx'[t].callbacks)
      BY <1>1, <1>3, <1>4, AnnouncingTail
    <3> HIDE DEF e
    <3> QED BY <3>1, <1>1, <1>4, <1>5, <1>6 DEF EventOwed
  <2>2. Derived(q)' = Derived(q)
    BY <1>5, <1>6 DEF Derived, Charging
  <2>3. Fresh(q)
    BY DEF IInv
  <2> QED BY <2>1, <2>2, <2>3, <1>5, <1>6 DEF Fresh, Recomputing, Known
<1> QED BY <1>7, <1>8, <1>9, <1>10, <1>11 DEF IInv, Shape

-----------------------------------------------------------------------------
(* The other steps leave the transactions and the facts alone              *)

\* What such a step keeps of the invariant, whatever it does to the projector.
LEMMA TxKept ==
  ASSUME IInv, UNCHANGED <<tx, row>>
  PROVE  TxShape' /\ OneOpen' /\ OpenAnnounces'
<1>1. \A k, q : Callbacks(k, q)' = Callbacks(k, q)
  BY DEF Callbacks, Known
<1> QED BY <1>1 DEF IInv, Shape, TxShape, OneOpen, OpenAnnounces, Busy

LEMMA BatteryKeeps ==
  ASSUME IInv, NEW r \in Robots, NEW battery \in BatteryValues, RecordBattery(r, battery)
  PROVE  IInv'
<1> DEFINE e == Event(Battery(r), battery, TRUE)
<1>1. e \in Events /\ e.topic = Battery(r)
  BY TopicsDiffer, ConstantFacts DEF Events, Event, FactTopics
<1>2. /\ UNCHANGED <<consumers, queue, row, executing, adapter, tx, task, todo, last, view>>
      /\ missed' = missed \cup {r}
      /\ Counts("others")
      /\ Publish(e)
  BY DEF RecordBattery, factVars, projectorVars
<1>3. count' \in [Counted -> Nat]
  BY <1>2 DEF Counts, Counted, IInv, Shape, TypeOK
<1>4. /\ latched' \in [Topics -> Robots \cup StatusValues \cup BatteryValues \cup {NoValue}]
      /\ scheduled' \in [Consumers -> Seq(Events)]
      /\ \A q \in Robots : latched'[Status(q)] = latched[Status(q)]
      /\ \A q \in Robots \ {r} : latched'[Battery(q)] = latched[Battery(q)]
      /\ \A k \in Drains : Announcing(scheduled[k]) \subseteq Announcing(scheduled'[k])
  <2>1. TypeOK /\ Drains \subseteq consumers
    BY DEF IInv, Shape
  <2>2. \A q \in Robots : Status(q) # e.topic /\ (q # r => Battery(q) # e.topic)
                          /\ Status(q) \in Topics /\ Battery(q) \in Topics
    BY <1>1, TopicsDiffer
  <2> HIDE DEF e
  <2> QED BY <2>1, <2>2, <1>1, <1>2, PublishFacts
<1>5. TypeOK'
  BY <1>2, <1>3, <1>4 DEF IInv, Shape, TypeOK
<1>6. TaskShape' /\ OneRecompute' /\ LastIsLatched' /\ (Drains \subseteq consumers)'
  BY <1>2, <1>4 DEF IInv, Shape, TaskShape, OneRecompute, LastIsLatched, Recomputing, Known
<1>7. ASSUME NEW q \in Robots PROVE Fresh(q)'
  <2>1. EventOwed(q) => EventOwed(q)'
    BY <1>2, <1>4 DEF EventOwed
  <2>2. CASE q = r
    BY <2>2, <1>2 DEF Fresh, EventOwed
  <2>3. CASE q # r
    <3>1. Derived(q)' = Derived(q)
      BY <2>3, <1>2, <1>4 DEF Derived, Charging
    <3>2. Fresh(q)
      BY DEF IInv
    <3> QED BY <2>1, <3>1, <3>2, <1>2, <1>4 DEF Fresh, Recomputing, Known
  <2> QED BY <2>2, <2>3
<1> QED BY <1>2, <1>5, <1>6, <1>7, TxKept DEF IInv, Shape

LEMMA DeliverKeeps ==
  ASSUME IInv, NEW c \in Consumers, Deliver(c)
  PROVE  IInv'
<1> DEFINE e == Head(scheduled[c])
           q == queue[c]
<1>1. /\ scheduled[c] # <<>> /\ scheduled[c] \in Seq(Events) /\ q \in Seq(Events)
      /\ e \in Events /\ Tail(scheduled[c]) \in Seq(Events)
      /\ scheduled \in [Consumers -> Seq(Events)] /\ queue \in [Consumers -> Seq(Events)]
      /\ Announcing(scheduled[c]) = Affected(e) \cup Announcing(Tail(scheduled[c]))
  <2>1. /\ scheduled \in [Consumers -> Seq(Events)] /\ queue \in [Consumers -> Seq(Events)]
        /\ scheduled[c] # <<>>
    BY DEF IInv, Shape, TypeOK, Deliver, Enqueue
  <2> QED BY <2>1, AnnouncingTail
<1>2. /\ UNCHANGED <<latched, consumers, row, executing, adapter, tx, task, todo, last, view, count>>
      /\ scheduled' = [scheduled EXCEPT ![c] = Tail(@)]
      /\ queue' = [queue EXCEPT ![c] = IF Len(@) < QueueSize THEN Append(@, e) ELSE Overflow(@, e)]
      /\ missed' = missed \cup UNION {Affected(a) : a \in IF c \in Drains THEN LostBy(c) ELSE {}}
  BY DEF Deliver, Enqueue, factVars, projectorVars
<1>3. QueueSize \in Nat \ {0}
  BY BusAssumption
<1>4. ASSUME Len(q) < QueueSize
      PROVE  /\ queue'[c] \in Seq(Events) /\ missed' \subseteq Robots
             /\ c \in Drains => Announcing(q) \cup Affected(e) \subseteq Announcing(queue'[c]) \cup missed'
             /\ missed \subseteq missed'
  <2>1. queue'[c] = Append(q, e) /\ queue'[c] \in Seq(Events)
    BY <1>1, <1>2, <1>4
  <2>2. Announcing(queue'[c]) = Announcing(q) \cup Affected(e) /\ LostBy(c) = {}
    BY <1>1, <1>4, <2>1, AnnouncingAppend DEF LostBy
  <2>3. missed' = missed
    BY <2>2, <1>2
  <2>4. /\ queue'[c] \in Seq(Events) /\ missed' \subseteq Robots
        /\ c \in Drains => Announcing(q) \cup Affected(e) \subseteq Announcing(queue'[c]) \cup missed'
        /\ missed \subseteq missed'
    BY <2>1, <2>2, <2>3 DEF IInv, Shape, TypeOK
  <2> QED BY <2>4
<1>5. ASSUME ~(Len(q) < QueueSize)
      PROVE  /\ queue'[c] \in Seq(Events) /\ missed' \subseteq Robots
             /\ c \in Drains => Announcing(q) \cup Affected(e) \subseteq Announcing(queue'[c]) \cup missed'
             /\ missed \subseteq missed'
  <2>1. q # <<>> /\ Head(q) \in Events /\ Tail(q) \in Seq(Events)
        /\ Announcing(q) = Affected(Head(q)) \cup Announcing(Tail(q))
    <3>1. q # <<>>
      BY <1>1, <1>3, <1>5
    <3> QED BY <3>1, <1>1, AnnouncingTail
  <2>2. queue'[c] = IF e.latch THEN Append(Tail(q), e) ELSE q
    BY <1>1, <1>2, <1>5 DEF Overflow
  <2>3. Announcing(Append(Tail(q), e)) = Announcing(Tail(q)) \cup Affected(e)
        /\ Append(Tail(q), e) \in Seq(Events)
    <3>1. PICK a, b : a = Tail(q) /\ b = e
      OBVIOUS
    <3>2. a \in Seq(Events) /\ b \in Events
      BY <3>1, <1>1, <2>1
    <3>3. Announcing(Append(a, b)) = Announcing(a) \cup Affected(b)
      BY <3>2, AnnouncingAppend
    <3>4. Append(a, b) \in Seq(Events)
      BY <3>2
    <3> HIDE DEF q, e
    <3> QED BY <3>1, <3>3, <3>4, Zenon
  <2>4. LostBy(c) = IF e.latch THEN {Head(q)} ELSE {e}
    BY <1>5 DEF LostBy
  <2>5. \A a \in Events : Affected(a) \subseteq Robots
    BY AffectedIsHeard
  <2>6. missed' \subseteq Robots /\ missed \subseteq missed'
    BY <1>1, <1>2, <2>1, <2>4, <2>5 DEF IInv, Shape, TypeOK
  <2>7. c \in Drains => missed' = missed \cup (IF e.latch THEN Affected(Head(q)) ELSE Affected(e))
    <3> HIDE DEF e, q
    <3> QED BY <1>2, <2>4
  <2>8. /\ queue'[c] \in Seq(Events)
        /\ c \in Drains => Announcing(q) \cup Affected(e) \subseteq Announcing(queue'[c]) \cup missed'
    <3> HIDE DEF e, q
    <3> QED BY <1>1, <2>1, <2>2, <2>3, <2>7
  <2> QED BY <2>6, <2>8
<1>6. /\ queue'[c] \in Seq(Events) /\ missed' \subseteq Robots
      /\ c \in Drains => Announcing(q) \cup Affected(e) \subseteq Announcing(queue'[c]) \cup missed'
      /\ missed \subseteq missed'
  BY <1>4, <1>5
<1>7. /\ queue' \in [Consumers -> Seq(Events)] /\ scheduled' \in [Consumers -> Seq(Events)]
      /\ scheduled'[c] = Tail(scheduled[c])
      /\ \A k \in Consumers : k # c => queue'[k] = queue[k] /\ scheduled'[k] = scheduled[k]
  BY <1>1, <1>2, <1>6
<1>8. TypeOK'
  BY <1>2, <1>6, <1>7 DEF IInv, Shape, TypeOK
<1>9. TaskShape' /\ OneRecompute' /\ LastIsLatched' /\ (Drains \subseteq consumers)'
  BY <1>2 DEF IInv, Shape, TaskShape, OneRecompute, LastIsLatched, Recomputing, Known
<1>10. ASSUME NEW r \in Robots PROVE Fresh(r)'
  <2>1. EventOwed(r) => EventOwed(r)'
    <3> SUFFICES ASSUME EventOwed(r) PROVE EventOwed(r)'
      OBVIOUS
    <3>1. CASE \E k \in Drains : r \in Announcing(queue[k]) \cup Announcing(scheduled[k])
      <4>1. PICK k \in Drains : r \in Announcing(queue[k]) \cup Announcing(scheduled[k])
        BY <3>1
      <4>2. CASE k # c
        BY <4>1, <4>2, <1>7, DrainFacts DEF EventOwed
      <4>3. CASE k = c
        <5>1. r \in Announcing(queue'[c]) \cup missed' \cup Announcing(scheduled'[c])
          <6> HIDE DEF e, q
          <6>1. r \in Announcing(q) \cup Affected(e) \cup Announcing(Tail(scheduled[c]))
            BY <4>1, <4>3, <1>1 DEF q
          <6> QED BY <6>1, <4>3, <1>6, <1>7
        <5> QED BY <5>1, <4>3 DEF EventOwed
      <4> QED BY <4>2, <4>3
    <3>2. CASE ~\E k \in Drains : r \in Announcing(queue[k]) \cup Announcing(scheduled[k])
      BY <3>2, <1>2, <1>6 DEF EventOwed
    <3> QED BY <3>1, <3>2
  <2>2. Derived(r)' = Derived(r)
    BY <1>2 DEF Derived, Charging
  <2>3. Fresh(r)
    BY DEF IInv
  <2> QED BY <2>1, <2>2, <2>3, <1>2 DEF Fresh, Recomputing, Known
<1> QED BY <1>2, <1>8, <1>9, <1>10, TxKept DEF IInv, Shape

\* A client's step does not touch the projector.
LEMMA ClientKeeps ==
  ASSUME IInv, NEW c \in Clients, ClientSubscribes(c) \/ ClientReceives(c) \/ ClientLeaves(c)
  PROVE  IInv'
<1>1. /\ UNCHANGED <<latched, row, executing, adapter, tx, task, todo, last, missed>>
      /\ Drains \subseteq consumers'
      /\ consumers' \subseteq Consumers
      /\ c \in Consumers /\ c \notin Drains
  <2>1. c \in Consumers /\ c \notin Drains
    BY DrainFacts
  <2>2. consumers \subseteq Consumers /\ Drains \subseteq consumers
    BY DEF IInv, Shape, TypeOK
  <2> QED BY <2>1, <2>2 DEF ClientSubscribes, ClientReceives, ClientLeaves, Subscribe, Take,
             Unsubscribe, factVars, projectorVars
<1>2. /\ scheduled \in [Consumers -> Seq(Events)] /\ queue \in [Consumers -> Seq(Events)]
      /\ latched \in [Topics -> Robots \cup StatusValues \cup BatteryValues \cup {NoValue}]
      /\ view \in [Clients -> Robots \cup StatusValues \cup BatteryValues \cup {NoValue}]
      /\ count \in [Counted -> Nat]
  BY DEF IInv, Shape, TypeOK
<1>3. /\ queue' \in [Consumers -> Seq(Events)] /\ scheduled' \in [Consumers -> Seq(Events)]
      /\ \A k \in Consumers : k # c => queue'[k] = queue[k] /\ scheduled'[k] = scheduled[k]
      /\ view' \in [Clients -> Robots \cup StatusValues \cup BatteryValues \cup {NoValue}]
      /\ count' \in [Counted -> Nat]
  <2>1. CASE ClientReceives(c)
    <3>1. /\ queue[c] # <<>> /\ queue' = [queue EXCEPT ![c] = Tail(@)] /\ UNCHANGED <<scheduled, count>>
          /\ view' = [view EXCEPT ![c] = Head(queue[c]).payload]
      BY <2>1 DEF ClientReceives, Take
    <3>2. Head(queue[c]) \in Events /\ Tail(queue[c]) \in Seq(Events)
      BY <3>1, <1>1, <1>2
    <3>3. Head(queue[c]).payload \in Robots \cup StatusValues \cup BatteryValues \cup {NoValue}
      BY <3>2 DEF Events
    <3> QED BY <3>1, <3>2, <3>3, <1>1, <1>2
  <2>2. CASE ClientLeaves(c)
    <3>1. /\ queue' = [queue EXCEPT ![c] = <<>>] /\ scheduled' = [scheduled EXCEPT ![c] = <<>>]
          /\ view' = [view EXCEPT ![c] = NoValue] /\ UNCHANGED count
      BY <2>2 DEF ClientLeaves, Unsubscribe
    <3>2. <<>> \in Seq(Events)
      OBVIOUS
    <3> QED BY <3>1, <3>2, <1>1, <1>2
  <2>3. CASE ClientSubscribes(c)
    <3>1. /\ UNCHANGED <<scheduled, view>> /\ count' \in [Counted -> Nat]
      BY <2>3, <1>2 DEF ClientSubscribes, Subscribe, Counts, Counted
    <3>2. Subscription[c] \subseteq Topics /\ Subscription[c] \subseteq {Status(r) : r \in Robots}
      BY DrainFacts, BusAssumption, <1>1
    <3>3. Snapshot(c) \subseteq Events
      <4> SUFFICES ASSUME NEW u \in Subscription[c], latched[u] # NoValue
                   PROVE  Event(u, latched[u], TRUE) \in Events
        BY DEF Snapshot
      <4>1. PICK r \in Robots : u = Status(r)
        BY <3>2
      <4>2. u \in Topics /\ u \notin {Registry, Lifecycle}
        BY <3>2, <4>1, TopicsDiffer DEF FactTopics
      <4>3. latched[u] \in Robots \cup StatusValues \cup BatteryValues
        BY <4>2, <1>2
      <4> QED BY <4>2, <4>3 DEF Events, Event
    <3>4. Cardinality(Snapshot(c)) \in Nat
      <4> DEFINE set == {u \in Subscription[c] : latched[u] # NoValue}
                 F == [t \in set |-> Event(t, latched[t], TRUE)]
      <4>1. IsFiniteSet(set)
        <5>1. set \subseteq Topics
          BY <3>2
        <5> QED BY <5>1, BusAssumption, FS_Subset
      <4>2. F \in Surjection(set, Snapshot(c))
        <5>1. /\ DOMAIN F = set
              /\ \A x \in set : F[x] = Event(x, latched[x], TRUE)
          OBVIOUS
        <5>2. Snapshot(c) = {F[x] : x \in set}
          BY DEF Snapshot
        <5> QED BY <5>1, <5>2 DEF Surjection
      <4>3. IsFiniteSet(Snapshot(c))
        BY <4>1, <4>2, FS_Surjection
      <4> QED BY <4>3, FS_CardinalityType
    <3>5. PICK s \in [1..Cardinality(Snapshot(c)) -> Snapshot(c)] :
             queue' = [queue EXCEPT ![c] = IF Len(s) <= QueueSize THEN s ELSE SubSeq(s, 1, QueueSize)]
      BY <2>3 DEF ClientSubscribes, Subscribe
    <3>6. s \in Seq(Events)
      <4>1. s \in [1..Cardinality(Snapshot(c)) -> Events]
        BY <3>3, <3>5
      <4> QED BY <4>1, <3>4
    <3>7. ~(Len(s) <= QueueSize) => SubSeq(s, 1, QueueSize) \in Seq(Events)
      <4> SUFFICES ASSUME ~(Len(s) <= QueueSize) PROVE SubSeq(s, 1, QueueSize) \in Seq(Events)
        OBVIOUS
      <4>1. QueueSize \in Int /\ 1 \in Int /\ \A i \in 1 .. QueueSize : s[i] \in Events
        <5>1. QueueSize \in Nat /\ Len(s) \in Nat /\ QueueSize < Len(s)
          BY <3>6, BusAssumption
        <5>2. \A i \in 1 .. Len(s) : s[i] \in Events
          BY <3>6, ElementOfSeq
        <5>3. \A i \in 1 .. QueueSize : i \in 1 .. Len(s)
          BY <5>1
        <5> QED BY <5>1, <5>2, <5>3
      <4> QED BY <4>1, SubSeqProperties
    <3> QED BY <3>1, <3>5, <3>6, <3>7, <1>1, <1>2
  <2> QED BY <2>1, <2>2, <2>3
<1>4. TypeOK'
  BY <1>1, <1>3 DEF IInv, Shape, TypeOK
<1>5. TaskShape' /\ OneRecompute' /\ LastIsLatched'
  BY <1>1 DEF IInv, Shape, TaskShape, OneRecompute, LastIsLatched, Recomputing, Known
<1>6. ASSUME NEW r \in Robots PROVE Fresh(r)'
  <2>1. EventOwed(r) => EventOwed(r)'
    BY <1>1, <1>3, DrainFacts DEF EventOwed
  <2>2. Derived(r)' = Derived(r)
    BY <1>1 DEF Derived, Charging
  <2>3. Fresh(r)
    BY DEF IInv
  <2> QED BY <2>1, <2>2, <2>3, <1>1 DEF Fresh, Recomputing, Known
<1> QED BY <1>1, <1>4, <1>5, <1>6, TxKept DEF IInv, Shape

-----------------------------------------------------------------------------
(* The projector's steps                                                   *)

\* What a step of one projector task keeps of the tasks' shape.
LEMMA TaskStep ==
  ASSUME IInv, NEW k \in Tasks, NEW new \in TaskRows,
         task' = [task EXCEPT ![k] = new], row' = row,
         new.at = "idle" => new.robot = NoValue,
         new.at # "idle" => new.robot \in Robots,
         new.at \in {"robot_read", "derived"} => Known(new.robot),
         new.at = "derived" => new.status \in StatusValues,
         new.at \in {"robot_read", "derived"} =>
            \A j \in Tasks \ {k} : ~Recomputing(j)
  PROVE  /\ task' \in [Tasks -> TaskRows]
         /\ task'[k] = new
         /\ \A j \in Tasks \ {k} : task'[j] = task[j]
         /\ TaskShape' /\ OneRecompute'
<1>1. task \in [Tasks -> TaskRows]
  BY DEF IInv, Shape, TypeOK
<1>2. /\ task' \in [Tasks -> TaskRows]
      /\ task'[k] = new
      /\ \A j \in Tasks \ {k} : task'[j] = task[j]
  BY <1>1
<1>3. TaskShape'
  BY <1>2 DEF IInv, Shape, TaskShape, Recomputing, Known
<1>4. OneRecompute'
  BY <1>2 DEF IInv, Shape, OneRecompute, Recomputing
<1> QED BY <1>2, <1>3, <1>4

LEMMA IdleTask ==
    /\ NoTask \in TaskRows /\ NoTask.at = "idle" /\ NoTask.robot = NoValue
    /\ \A r \in Robots :
        LET w == [NoTask EXCEPT !.at = "waiting", !.robot = r]
        IN  w \in TaskRows /\ w.at = "waiting" /\ w.robot = r
  BY DEF NoTask, TaskRows

LEMMA TakeEventKeeps ==
  ASSUME IInv, NEW k \in Drains, TakeEvent(k)
  PROVE  IInv'
<1> DEFINE e == Head(queue[k])
           new == IF Affected(e) = {} THEN NoTask
                  ELSE [NoTask EXCEPT !.at = "waiting", !.robot = e.payload]
<1>1. /\ k \in Tasks /\ k \in Consumers
      /\ task[k].at = "idle" /\ task[k].robot = NoValue
      /\ queue \in [Consumers -> Seq(Events)]
      /\ queue[k] # <<>> /\ queue' = [queue EXCEPT ![k] = Tail(@)]
      /\ task' = [task EXCEPT ![k] = new]
      /\ UNCHANGED <<latched, consumers, scheduled, row, executing, adapter, tx, todo, last, view,
                     missed, count>>
  BY DrainFacts DEF TakeEvent, Take, factVars, IInv, Shape, TaskShape, TypeOK
<1>2. /\ e \in Events /\ Tail(queue[k]) \in Seq(Events)
      /\ Announcing(queue[k]) = Affected(e) \cup Announcing(Tail(queue[k]))
  BY <1>1, AnnouncingTail
<1>3. /\ queue' \in [Consumers -> Seq(Events)]
      /\ queue'[k] = Tail(queue[k])
      /\ \A c \in Consumers : c # k => queue'[c] = queue[c]
  BY <1>1, <1>2
<1>4. Affected(e) # {} => Affected(e) = {e.payload} /\ e.payload \in Robots
  BY <1>2, AffectedIsHeard DEF Affected
<1>5. /\ new \in TaskRows
      /\ new.at = "idle" => new.robot = NoValue
      /\ new.at # "idle" => new.robot \in Robots
      /\ new.at \in {"idle", "waiting"}
      /\ \A r \in Affected(e) : new.at = "waiting" /\ new.robot = r
  <2> HIDE DEF e
  <2>1. CASE Affected(e) = {}
    BY <2>1, IdleTask
  <2>2. CASE Affected(e) # {}
    BY <2>2, <1>4, IdleTask
  <2> QED BY <2>1, <2>2
<1> HIDE DEF new
<1>6. /\ task' \in [Tasks -> TaskRows]
      /\ task'[k] = new
      /\ \A j \in Tasks \ {k} : task'[j] = task[j]
      /\ TaskShape' /\ OneRecompute'
  BY <1>1, <1>5, TaskStep
<1>7. TypeOK'
  BY <1>1, <1>3, <1>6 DEF IInv, Shape, TypeOK
<1>8. LastIsLatched' /\ (Drains \subseteq consumers)'
  BY <1>1 DEF IInv, Shape, LastIsLatched
<1>9. ASSUME NEW r \in Robots PROVE Fresh(r)'
  <2>1. EventOwed(r) => EventOwed(r)'
    <3> SUFFICES ASSUME EventOwed(r) PROVE EventOwed(r)'
      OBVIOUS
    <3>1. CASE r \in Affected(e)
      <4>1. task'[k].at = "waiting" /\ task'[k].robot = r
        BY <3>1, <1>5, <1>6
      <4> QED BY <4>1, <1>1 DEF EventOwed
    <3>2. CASE r \notin Affected(e)
      <4>1. \A j \in Drains : r \in Announcing(queue[j]) => r \in Announcing(queue'[j])
        <5> HIDE DEF e
        <5> QED BY <3>2, <1>2, <1>3, DrainFacts
      <4>2. \A j \in Tasks : task[j].at = "waiting" => task'[j] = task[j]
        BY <1>1, <1>6
      <4> QED BY <4>1, <4>2, <1>1 DEF EventOwed
    <3> QED BY <3>1, <3>2
  <2>2. Derived(r)' = Derived(r)
    BY <1>1 DEF Derived, Charging
  <2>3. Fresh(r)
    BY DEF IInv
  <2>4. \A j \in Tasks : /\ Recomputing(j) => task'[j] = task[j]
                         /\ Recomputing(j)' => task'[j] = task[j]
    BY <1>1, <1>5, <1>6 DEF Recomputing
  <2>5. \A j \in Tasks : task'[j].at \in {"robot_read", "derived"} => task'[j] = task[j]
    BY <2>4 DEF Recomputing
  <2> QED BY <2>1, <2>2, <2>3, <2>4, <2>5, <1>1 DEF Fresh, Recomputing, Known
<1> QED BY <1>1, <1>6, <1>7, <1>8, <1>9, TxKept DEF IInv, Shape

LEMMA SweepKeeps ==
  ASSUME IInv, BeginSweep \/ (\E r \in Robots : SweepNext(r))
  PROVE  IInv'
<1>1. CASE BeginSweep
  <2>1. UNCHANGED <<latched, consumers, scheduled, queue, row, executing, adapter, tx, task, last,
                    view, missed, count>>
        /\ todo' \subseteq Robots
    BY <1>1 DEF BeginSweep, busVars, factVars
  <2>2. TypeOK'
    BY <2>1 DEF IInv, Shape, TypeOK
  <2>3. TaskShape' /\ OneRecompute' /\ LastIsLatched' /\ (Drains \subseteq consumers)'
    BY <2>1 DEF IInv, Shape, TaskShape, OneRecompute, LastIsLatched, Recomputing, Known
  <2>4. ASSUME NEW r \in Robots PROVE Fresh(r)'
    BY <2>1 DEF IInv, Fresh, EventOwed, Derived, Charging, Recomputing, Known
  <2> QED BY <2>1, <2>2, <2>3, <2>4, TxKept DEF IInv, Shape
<1>2. ASSUME NEW q \in Robots, SweepNext(q) PROVE IInv'
  <2> DEFINE new == [NoTask EXCEPT !.at = "waiting", !.robot = q]
  <2>1. /\ "sweep" \in Tasks /\ task["sweep"].at = "idle"
        /\ task' = [task EXCEPT !["sweep"] = new]
        /\ UNCHANGED <<latched, consumers, scheduled, queue, row, executing, adapter, tx, last,
                       view, missed, count>>
        /\ todo' \subseteq Robots
    BY <1>2, DrainFacts DEF SweepNext, busVars, factVars, IInv, Shape, TypeOK
  <2>2. new \in TaskRows /\ new.at = "waiting" /\ new.robot = q
    BY IdleTask
  <2> HIDE DEF new
  <2>3. /\ task' \in [Tasks -> TaskRows]
        /\ task'["sweep"] = new
        /\ \A j \in Tasks \ {"sweep"} : task'[j] = task[j]
        /\ TaskShape' /\ OneRecompute'
    BY <2>1, <2>2, TaskStep
  <2>4. TypeOK'
    BY <2>1, <2>3 DEF IInv, Shape, TypeOK
  <2>5. LastIsLatched' /\ (Drains \subseteq consumers)'
    BY <2>1 DEF IInv, Shape, LastIsLatched
  <2>6. ASSUME NEW r \in Robots PROVE Fresh(r)'
    <3>1. \A j \in Tasks : task[j].at # "idle" => task'[j] = task[j]
      BY <2>1, <2>3
    <3>2. EventOwed(r) => EventOwed(r)'
      BY <3>1, <2>1 DEF EventOwed
    <3>3. Derived(r)' = Derived(r)
      BY <2>1 DEF Derived, Charging
    <3>4. Fresh(r)
      BY DEF IInv
    <3>5. \A j \in Tasks : task'[j].at \in {"robot_read", "derived"} => task'[j] = task[j]
      BY <2>2, <2>3
    <3> QED BY <3>1, <3>2, <3>3, <3>4, <3>5, <2>1 DEF Fresh, Recomputing, Known
  <2> QED BY <2>1, <2>3, <2>4, <2>5, <2>6, TxKept DEF IInv, Shape
<1> QED BY <1>1, <1>2

LEMMA ReadRobotKeeps ==
  ASSUME IInv, NEW k \in Tasks, ReadRobot(k)
  PROVE  IInv'
<1> DEFINE r == task[k].robot
           new == IF Known(r) THEN [task[k] EXCEPT !.at = "robot_read", !.online = (row[r] = "online")]
                  ELSE NoTask
<1>1. /\ task[k] \in TaskRows /\ task[k].at = "waiting" /\ r \in Robots
      /\ \A j \in Tasks : ~Recomputing(j)
      /\ task' = [task EXCEPT ![k] = new]
      /\ missed' = missed \ {r}
      /\ UNCHANGED <<latched, consumers, scheduled, queue, row, executing, adapter, tx, todo, last,
                     view, count>>
  BY DEF ReadRobot, LockFree, busVars, factVars, IInv, Shape, TaskShape, TypeOK
<1>2. /\ new \in TaskRows
      /\ new.at = "idle" => new.robot = NoValue
      /\ new.at # "idle" => new.robot = r /\ Known(r)
      /\ new.at \in {"idle", "robot_read"}
      /\ new.at = "robot_read" => new.online = (row[r] = "online")
      /\ Known(r) => new.at = "robot_read"
  <2> HIDE DEF r
  <2>1. CASE Known(r)
    <3>1. new = [task[k] EXCEPT !.at = "robot_read", !.online = (row[r] = "online")]
      BY <2>1
    <3> HIDE DEF new
    <3>2. (row[r] = "online") \in BOOLEAN
      OBVIOUS
    <3>3. new \in TaskRows /\ new.at = "robot_read" /\ new.online = (row[r] = "online")
          /\ new.robot = task[k].robot
      BY <3>1, <3>2, <1>1 DEF TaskRows
    <3> QED BY <3>3, <2>1 DEF r
  <2>2. CASE ~Known(r)
    BY <2>2, IdleTask
  <2> QED BY <2>1, <2>2
<1> HIDE DEF new, r
<1>3. /\ task' \in [Tasks -> TaskRows]
      /\ task'[k] = new
      /\ \A j \in Tasks \ {k} : task'[j] = task[j]
      /\ TaskShape' /\ OneRecompute'
  BY <1>1, <1>2, TaskStep
<1>4. TypeOK'
  BY <1>1, <1>3 DEF IInv, Shape, TypeOK
<1>5. LastIsLatched' /\ (Drains \subseteq consumers)'
  BY <1>1 DEF IInv, Shape, LastIsLatched
<1>6. ASSUME NEW q \in Robots PROVE Fresh(q)'
  <2>1. Derived(q)' = Derived(q) /\ (Known(q)' <=> Known(q))
    BY <1>1 DEF Derived, Charging, Known
  <2>2. \A j \in Tasks \ {k} : task'[j].at \notin {"robot_read", "derived"}
    BY <1>1, <1>3 DEF Recomputing
  <2>3. CASE q = r
    <3>1. \A j \in Tasks : task'[j].robot = q =>
            /\ task'[j].at = "robot_read" => task'[j].online = (row'[q] = "online")
            /\ task'[j].at = "derived" => task'[j].status = Derived(q)'
      BY <2>2, <2>3, <1>1, <1>2, <1>3
    <3>2. Known(q) => Recomputing(k)' /\ task'[k].robot = q
      BY <2>3, <1>2, <1>3 DEF Recomputing
    <3> QED BY <3>1, <3>2, <2>1 DEF Fresh
  <2>4. CASE q # r
    <3>1. EventOwed(q) => EventOwed(q)'
      <4>1. \A j \in Tasks : task[j].robot = q => task'[j] = task[j]
        BY <2>4, <1>1, <1>3 DEF r
      <4> QED BY <4>1, <2>4, <1>1 DEF EventOwed
    <3>2. Fresh(q)
      BY DEF IInv
    <3>3. \A j \in Tasks : task'[j].robot = q => task'[j].at \notin {"robot_read", "derived"}
      BY <2>2, <2>4, <1>2, <1>3
    <3>4. ~\E j \in Tasks : Recomputing(j)
      BY <1>1
    <3> QED BY <3>1, <3>2, <3>3, <3>4, <2>1, <1>1 DEF Fresh
  <2> QED BY <2>3, <2>4
<1> QED BY <1>1, <1>3, <1>4, <1>5, <1>6, TxKept DEF IInv, Shape

LEMMA DeriveType ==
  ASSUME NEW online \in BOOLEAN, NEW active \in BOOLEAN, NEW charging \in BOOLEAN
  PROVE  Derive(online, active, charging) \in StatusValues
  BY DEF Derive, StatusValues

LEMMA ReadRunsKeeps ==
  ASSUME IInv, NEW k \in Tasks, ReadRuns(k)
  PROVE  IInv'
<1> DEFINE r == task[k].robot
           status == Derive(task[k].online, executing[r], Charging(r))
           new == [task[k] EXCEPT !.at = "derived", !.status = status]
<1>1. /\ task[k] \in TaskRows /\ task[k].at = "robot_read" /\ Recomputing(k)
      /\ r \in Robots /\ Known(r)
      /\ \A j \in Tasks \ {k} : ~Recomputing(j)
      /\ task' = [task EXCEPT ![k] = new]
      /\ UNCHANGED <<latched, consumers, scheduled, queue, row, executing, adapter, tx, todo, last,
                     view, missed, count>>
  BY DEF ReadRuns, Recomputing, busVars, factVars, IInv, Shape, TaskShape, TypeOK,
         OneRecompute
<1>2. status \in StatusValues
  <2>1. task[k].online \in BOOLEAN /\ executing[r] \in BOOLEAN
    BY <1>1 DEF TaskRows, IInv, Shape, TypeOK
  <2>2. Charging(r) \in BOOLEAN
    BY DEF Charging
  <2> QED BY <2>1, <2>2, DeriveType
<1>3. task[k].online = (row[r] = "online") => status = Derived(r)
  BY DEF Derived
<1> HIDE DEF status
<1>4. new \in TaskRows /\ new.at = "derived" /\ new.robot = r /\ new.status = status
  BY <1>1, <1>2 DEF TaskRows
<1> HIDE DEF new, r
<1>5. /\ task' \in [Tasks -> TaskRows]
      /\ task'[k] = new
      /\ \A j \in Tasks \ {k} : task'[j] = task[j]
      /\ TaskShape' /\ OneRecompute'
  BY <1>1, <1>2, <1>4, TaskStep
<1>6. TypeOK'
  BY <1>1, <1>5 DEF IInv, Shape, TypeOK
<1>7. LastIsLatched' /\ (Drains \subseteq consumers)'
  BY <1>1 DEF IInv, Shape, LastIsLatched
<1>8. ASSUME NEW q \in Robots PROVE Fresh(q)'
  <2>1. Derived(q)' = Derived(q) /\ (Known(q)' <=> Known(q))
    BY <1>1 DEF Derived, Charging, Known
  <2>2. EventOwed(q) => EventOwed(q)'
    <3>1. \A j \in Tasks : task[j].at = "waiting" => task'[j] = task[j]
      BY <1>1, <1>5
    <3> QED BY <3>1, <1>1 DEF EventOwed
  <2>3. Fresh(q)
    BY DEF IInv
  <2>4. \A j \in Tasks \ {k} : task'[j].at \notin {"robot_read", "derived"}
    BY <1>1, <1>5 DEF Recomputing
  <2>5. CASE EventOwed(q)
    BY <2>5, <2>2 DEF Fresh
  <2>6. CASE ~EventOwed(q) /\ q = r
    <3>1. task[k].online = (row[r] = "online")
      BY <2>3, <2>6, <1>1 DEF Fresh, r
    <3>2. status = Derived(r)
      BY <3>1, <1>3
    <3>3. Recomputing(k)' /\ task'[k].robot = q
      BY <2>6, <1>4, <1>5 DEF Recomputing
    <3> QED BY <3>2, <3>3, <2>1, <2>4, <2>6, <1>4, <1>5 DEF Fresh
  <2>7. CASE ~EventOwed(q) /\ q # r
    <3>1. Known(q) => latched[Status(q)] = Derived(q)
      BY <2>3, <2>7, <1>1 DEF Fresh, r
    <3> QED BY <3>1, <2>1, <2>4, <2>7, <1>1, <1>4, <1>5 DEF Fresh
  <2> QED BY <2>5, <2>6, <2>7
<1> QED BY <1>1, <1>5, <1>6, <1>7, <1>8, TxKept DEF IInv, Shape

LEMMA PublishStatusKeeps ==
  ASSUME IInv, NEW k \in Tasks, PublishStatus(k)
  PROVE  IInv'
<1> DEFINE r == task[k].robot
           s == task[k].status
           e == Event(Status(r), s, TRUE)
<1>1. /\ task[k].at = "derived" /\ Recomputing(k) /\ r \in Robots /\ s \in StatusValues
      /\ \A j \in Tasks \ {k} : ~Recomputing(j)
      /\ task' = [task EXCEPT ![k] = NoTask]
      /\ UNCHANGED <<consumers, queue, row, executing, adapter, tx, todo, view, missed, count>>
      /\ last[r] = latched[Status(r)]
      /\ last \in [Robots -> StatusValues \cup {NoValue}]
  BY DEF PublishStatus, Recomputing, factVars, IInv, Shape, TaskShape, TypeOK,
         OneRecompute, LastIsLatched
<1> HIDE DEF r, s
<1>2. e \in Events /\ e.topic = Status(r) /\ e.payload = s /\ e.latch
  BY <1>1, TopicsDiffer, ConstantFacts DEF Events, Event, FactTopics
<1>3. /\ latched' \in [Topics -> Robots \cup StatusValues \cup BatteryValues \cup {NoValue}]
      /\ scheduled' \in [Consumers -> Seq(Events)]
      /\ last' \in [Robots -> StatusValues \cup {NoValue}]
      /\ last'[r] = s /\ latched'[Status(r)] = s
      /\ \A q \in Robots \ {r} : latched'[Status(q)] = latched[Status(q)] /\ last'[q] = last[q]
      /\ \A q \in Robots : latched'[Battery(q)] = latched[Battery(q)]
      /\ \A j \in Drains : Announcing(scheduled[j]) \subseteq Announcing(scheduled'[j])
  <2>1. CASE last[r] = s
    <3>1. UNCHANGED <<latched, scheduled, last>>
      BY <2>1 DEF PublishStatus, r, s
    <3> QED BY <3>1, <2>1, <1>1 DEF IInv, Shape, TypeOK
  <2>2. CASE last[r] # s
    <3>1. last' = [last EXCEPT ![r] = s] /\ Publish(e)
      BY <2>2 DEF PublishStatus, r, s
    <3>2. TypeOK /\ Drains \subseteq consumers
      BY DEF IInv, Shape
    <3>3. \A q \in Robots : /\ q # r => Status(q) # e.topic
                            /\ Battery(q) # e.topic
                            /\ Status(q) \in Topics /\ Battery(q) \in Topics
      BY <1>1, <1>2, TopicsDiffer
    <3> HIDE DEF e
    <3>4. /\ latched' \in [Topics -> Robots \cup StatusValues \cup BatteryValues \cup {NoValue}]
          /\ scheduled' \in [Consumers -> Seq(Events)]
          /\ \A t \in Topics : t # e.topic => latched'[t] = latched[t]
          /\ latched'[Status(r)] = s
          /\ \A j \in Drains : Announcing(scheduled[j]) \subseteq Announcing(scheduled'[j])
      BY <3>1, <3>2, <1>2, PublishFacts
    <3> QED BY <3>1, <3>3, <3>4, <1>1
  <2> QED BY <2>1, <2>2
<1>4. /\ task' \in [Tasks -> TaskRows]
      /\ task'[k] = NoTask
      /\ \A j \in Tasks \ {k} : task'[j] = task[j]
      /\ TaskShape' /\ OneRecompute'
  BY <1>1, IdleTask, TaskStep
<1>5. TypeOK'
  BY <1>1, <1>3, <1>4 DEF IInv, Shape, TypeOK
<1>6. LastIsLatched' /\ (Drains \subseteq consumers)'
  BY <1>1, <1>3 DEF IInv, Shape, LastIsLatched
<1>7. ASSUME NEW q \in Robots PROVE Fresh(q)'
  <2>1. Derived(q)' = Derived(q) /\ (Known(q)' <=> Known(q))
    BY <1>1, <1>3 DEF Derived, Charging, Known
  <2>2. EventOwed(q) => EventOwed(q)'
    <3>1. \A j \in Tasks : task[j].at = "waiting" => task'[j] = task[j]
      BY <1>1, <1>4
    <3> QED BY <3>1, <1>1, <1>3 DEF EventOwed
  <2>3. Fresh(q)
    BY DEF IInv
  <2>4. \A j \in Tasks : task'[j].at \notin {"robot_read", "derived"}
    BY <1>1, <1>4, IdleTask DEF Recomputing
  <2>5. CASE EventOwed(q)
    BY <2>5, <2>2 DEF Fresh
  <2>6. CASE ~EventOwed(q) /\ q = r
    <3>1. s = Derived(r)
      BY <2>3, <2>6, <1>1 DEF Fresh, r, s
    <3> QED BY <3>1, <2>1, <2>4, <2>6, <1>3 DEF Fresh
  <2>7. CASE ~EventOwed(q) /\ q # r
    <3>1. Known(q) => latched[Status(q)] = Derived(q)
      BY <2>3, <2>7, <1>1 DEF Fresh, r
    <3> QED BY <3>1, <2>1, <2>4, <2>7, <1>3 DEF Fresh
  <2> QED BY <2>5, <2>6, <2>7
<1> QED BY <1>1, <1>4, <1>5, <1>6, <1>7, TxKept DEF IInv, Shape

LEMMA FailKeeps ==
  ASSUME IInv, NEW k \in Tasks, FailRecompute(k)
  PROVE  IInv'
<1> DEFINE r == task[k].robot
<1>1. /\ r \in Robots
      /\ task' = [task EXCEPT ![k] = NoTask]
      /\ missed' = missed \cup {r}
      /\ todo' \subseteq Robots
      /\ Counts("others")
      /\ UNCHANGED <<latched, consumers, scheduled, queue, row, executing, adapter, tx, last, view>>
  BY DEF FailRecompute, busVars, factVars, IInv, Shape, TaskShape, TypeOK
<1>2. count' \in [Counted -> Nat]
  BY <1>1 DEF Counts, Counted, IInv, Shape, TypeOK
<1>3. /\ task' \in [Tasks -> TaskRows]
      /\ task'[k] = NoTask
      /\ \A j \in Tasks \ {k} : task'[j] = task[j]
      /\ TaskShape' /\ OneRecompute'
  BY <1>1, IdleTask, TaskStep
<1>4. TypeOK'
  BY <1>1, <1>2, <1>3 DEF IInv, Shape, TypeOK
<1>5. LastIsLatched' /\ (Drains \subseteq consumers)'
  BY <1>1 DEF IInv, Shape, LastIsLatched
<1>6. ASSUME NEW q \in Robots PROVE Fresh(q)'
  <2>1. CASE q = r
    BY <2>1, <1>1 DEF Fresh, EventOwed
  <2>2. CASE q # r
    <3>1. Derived(q)' = Derived(q) /\ (Known(q)' <=> Known(q))
      BY <1>1 DEF Derived, Charging, Known
    <3>2. \A j \in Tasks : task[j].robot = q => task'[j] = task[j]
      BY <2>2, <1>3
    <3>3. EventOwed(q) => EventOwed(q)'
      BY <3>2, <1>1 DEF EventOwed
    <3>4. Fresh(q)
      BY DEF IInv
    <3>5. \A j \in Tasks : task'[j].robot = q => task'[j] = task[j]
      <4>1. task'[k].robot # q
        BY <1>3, IdleTask, FleetAssumption
      <4> QED BY <4>1, <1>3
    <3> QED BY <3>1, <3>2, <3>3, <3>4, <3>5, <1>1 DEF Fresh, Recomputing
  <2> QED BY <2>1, <2>2
<1> QED BY <1>1, <1>3, <1>4, <1>5, <1>6, TxKept DEF IInv, Shape

-----------------------------------------------------------------------------
(* The theorems                                                            *)

LEMMA InitHolds == Init => IInv
<1> SUFFICES ASSUME Init PROVE IInv
  OBVIOUS
<1>1. <<>> \in Seq(Events) /\ <<>> \in Seq(FactEvents)
  OBVIOUS
<1>2. /\ row \in [Robots -> {"unknown", "offline"}]
      /\ latched = [t \in Topics |->
                      IF t \in {Status(r) : r \in {q \in Robots : row[q] = "offline"}}
                      THEN "offline" ELSE NoValue]
      /\ last = [r \in Robots |-> IF row[r] = "offline" THEN "offline" ELSE NoValue]
      /\ \A t \in Txs : tx[t] = NoTx
      /\ \A k \in Tasks : task[k] = NoTask
      /\ consumers = Drains
  BY DEF Init
<1>3. \A r \in Robots : latched[Status(r)] = IF row[r] = "offline" THEN "offline" ELSE NoValue
  BY <1>2, TopicsDiffer
<1>4. TypeOK
  BY <1>1, <1>2, ConstantFacts, DrainFacts DEF Init, TypeOK, StatusValues, Counted
<1>5. TxShape /\ OneOpen /\ OpenAnnounces
  <2>1. NoTx.phase = "none" /\ NoTx.callbacks = <<>>
    BY DEF NoTx
  <2>2. \A t \in Txs : tx[t] = NoTx /\ tx[t].phase = "none" /\ tx[t].callbacks = <<>>
    BY <1>2, <2>1
  <2>3. TxShape
    BY <1>1, <2>2 DEF TxShape
  <2>4. OneOpen /\ OpenAnnounces
    BY <2>2 DEF OneOpen, OpenAnnounces
  <2> QED BY <2>3, <2>4
<1>6. TaskShape /\ OneRecompute
  BY <1>2 DEF TaskShape, OneRecompute, Recomputing, NoTask
<1>7. LastIsLatched
  BY <1>2, <1>3 DEF LastIsLatched
<1>8. ASSUME NEW r \in Robots PROVE Fresh(r)
  <2>1. Known(r) => row[r] = "offline"
    BY <1>2 DEF Known
  <2>2. row[r] = "offline" => Derived(r) = "offline"
    BY DEF Derived, Derive
  <2>3. Known(r) => latched[Status(r)] = Derived(r)
    BY <2>1, <2>2, <1>3
  <2>4. \A k \in Tasks : task[k].at = "idle"
    BY <1>2 DEF NoTask
  <2> QED BY <2>3, <2>4 DEF Fresh
<1> QED BY <1>2, <1>4, <1>5, <1>6, <1>7, <1>8 DEF IInv, Shape

LEMMA StepHolds == IInv /\ [Next]_vars => IInv'
<1> SUFFICES ASSUME IInv, [Next]_vars PROVE IInv'
  OBVIOUS
<1>1. CASE UNCHANGED vars
  BY <1>1 DEF vars, busVars, factVars, projectorVars, IInv, Shape, TypeOK, TxShape,
     TaskShape, OneRecompute, LastIsLatched, OneOpen, OpenAnnounces, Fresh, EventOwed, Callbacks,
     Derived, Charging, Recomputing, Known, Busy
<1>2. CASE Transacting
  <2>1. ASSUME NEW t \in Txs, NEW r \in Robots, NEW kind \in ConnectivityKinds,
               OpenConnectivity(t, kind, r)
        PROVE  IInv'
    <3>1. kind \in ConnectivityKinds \cup RunKinds
      OBVIOUS
    <3>2. \/ OpenConnectivity(t, kind, r) /\ kind \in ConnectivityKinds
          \/ OpenRun(t, kind, r) /\ kind \in RunKinds
      BY <2>1
    <3> QED BY <3>1, <3>2, OpenKeeps
  <2>2. ASSUME NEW t \in Txs, NEW r \in Robots, NEW kind \in RunKinds, OpenRun(t, kind, r)
        PROVE  IInv'
    <3>1. kind \in ConnectivityKinds \cup RunKinds
      OBVIOUS
    <3>2. \/ OpenConnectivity(t, kind, r) /\ kind \in ConnectivityKinds
          \/ OpenRun(t, kind, r) /\ kind \in RunKinds
      BY <2>2
    <3> QED BY <3>1, <3>2, OpenKeeps
  <2>3. ASSUME NEW t \in Txs, TxStep(t) PROVE IInv'
    BY <2>3, CommitKeeps, EndKeeps, CallbackKeeps DEF TxStep
  <2>4. ASSUME NEW t \in Txs, LeaveScopeFails(t) PROVE IInv'
    BY <2>4, EndKeeps
  <2> QED BY <1>2, <2>1, <2>2, <2>3, <2>4 DEF Transacting
<1>3. CASE \E r \in Robots, battery \in BatteryValues : RecordBattery(r, battery)
  BY <1>3, BatteryKeeps
<1>4. CASE \E c \in Consumers : Deliver(c)
  BY <1>4, DeliverKeeps
<1>5. CASE Projecting
  <2>1. \A k \in Drains : k \in Tasks
    BY DrainFacts
  <2>2. "sweep" \in Tasks
    BY DrainFacts
  <2>3. CASE \E k \in Drains : DrainStep(k)
    BY <2>1, <2>3, TakeEventKeeps, ReadRobotKeeps, ReadRunsKeeps, PublishStatusKeeps DEF DrainStep
  <2>4. CASE SweepStep
    BY <2>2, <2>4, SweepKeeps, ReadRobotKeeps, ReadRunsKeeps, PublishStatusKeeps DEF SweepStep
  <2>5. CASE \E k \in Tasks : FailRecompute(k)
    BY <2>5, FailKeeps
  <2> QED BY <1>5, <2>3, <2>4, <2>5 DEF Projecting
<1>6. CASE Receiving
  BY <1>6, ClientKeeps DEF Receiving
<1> QED BY <1>1, <1>2, <1>3, <1>4, <1>5, <1>6 DEF Next

LEMMA Invariance == Spec => []IInv
  BY InitHolds, StepHolds, PTL DEF Spec

\* Every reachable state is well typed, for any robots, clients, transactions
\* and queue size (the bus, the projector and the handlers that feed them).
THEOREM TypeCorrect == Spec => []TypeOK
<1>1. IInv => TypeOK
  BY DEF IInv, Shape
<1> QED BY <1>1, Invariance, PTL

\* A robot's latched status differs from its facts only while a recompute of it
\* is owed (robot_status_projector.py, db.py, event_bus.py).
THEOREM StaleIsOwed == Spec => []StaleOnlyWhileOwed
<1>1. IInv => StaleOnlyWhileOwed
  <2> SUFFICES ASSUME IInv, NEW r \in Robots, Known(r), latched[Status(r)] # Derived(r)
               PROVE  Owed(r)
    BY DEF StaleOnlyWhileOwed
  <2>1. Fresh(r)
    BY DEF IInv
  <2> QED BY <2>1 DEF Fresh, EventOwed, Owed
<1> QED BY <1>1, Invariance, PTL

-----------------------------------------------------------------------------
(* What the clients are shown                                              *)

LEMMA LenOfFunction ==
  ASSUME NEW S, NEW n \in Nat, NEW s \in [1..n -> S]
  PROVE  s \in Seq(S) /\ Len(s) = n
<1>1. s \in Seq(S)
  BY SeqDef
<1>2. Len(s) \in Nat /\ 1..Len(s) = 1..n
  BY <1>1, LenProperties
<1>3. \A a, b \in Nat : 1..a = 1..b => a <= b
  <2> SUFFICES ASSUME NEW a \in Nat, NEW b \in Nat, 1..a = 1..b, a > b PROVE FALSE
    OBVIOUS
  <2>1. a \in 1..a /\ a \notin 1..b
    OBVIOUS
  <2> QED BY <2>1
<1>4. Len(s) <= n /\ n <= Len(s)
  BY <1>2, <1>3
<1> QED BY <1>1, <1>2, <1>4

LastOf(s) == s[Len(s)]

\* The last event on its way to a client is the latched value; all of them
\* are latched ones, so none is dropped for an older one.
Latest(c, r) ==
    /\ \A i \in DOMAIN scheduled[c] : scheduled[c][i].latch
    /\ c \notin consumers => queue[c] = <<>> /\ scheduled[c] = <<>> /\ view[c] = NoValue
    /\ c \in consumers =>
        /\ scheduled[c] # <<>> => LastOf(scheduled[c]).payload = latched[Status(r)]
        /\ scheduled[c] = <<>> /\ queue[c] # <<>> => LastOf(queue[c]).payload = latched[Status(r)]
        /\ scheduled[c] = <<>> /\ queue[c] = <<>> => view[c] = latched[Status(r)]

LatestInv == \A c \in Clients, r \in Robots : Subscription[c] = {Status(r)} => Latest(c, r)

LEMMA LastFacts ==
  ASSUME NEW s \in Seq(Events)
  PROVE  /\ \A e \in Events : Append(s, e) # <<>> /\ LastOf(Append(s, e)) = e
         /\ s # <<>> /\ Tail(s) # <<>> => LastOf(Tail(s)) = LastOf(s)
         /\ s # <<>> /\ Tail(s) = <<>> => LastOf(s) = Head(s)
         /\ s # <<>> => \A i \in DOMAIN Tail(s) : \E j \in DOMAIN s : Tail(s)[i] = s[j]
<1>1. \A e \in Events : Append(s, e) # <<>> /\ LastOf(Append(s, e)) = e
  BY DEF LastOf
<1>2. s # <<>> /\ Tail(s) # <<>> => LastOf(Tail(s)) = LastOf(s)
  BY DEF LastOf
<1>3. s # <<>> /\ Tail(s) = <<>> => LastOf(s) = Head(s)
  <2> SUFFICES ASSUME s # <<>>, Tail(s) = <<>> PROVE LastOf(s) = Head(s)
    OBVIOUS
  <2>1. Len(Tail(s)) = Len(s) - 1
    <3>1. s \in Seq(Events) /\ s # <<>>
      OBVIOUS
    <3> QED BY <3>1, HeadTailProperties, Zenon
  <2>2. Len(s) = 1
    <3>1. Len(Tail(s)) = 0
      BY EmptySeq, Zenon
    <3>2. Len(s) \in Nat
      OBVIOUS
    <3> HIDE DEF LastOf
    <3> QED BY <2>1, <3>1, <3>2
  <2> QED BY <2>2 DEF LastOf
<1>4. s # <<>> => \A i \in DOMAIN Tail(s) : i + 1 \in DOMAIN s /\ Tail(s)[i] = s[i + 1]
  OBVIOUS
<1> QED BY <1>1, <1>2, <1>3, <1>4

\* A publish on another topic is not for the client; one on its topic is last.
LEMMA LatestPublish ==
  ASSUME IInv, NEW c \in Clients, NEW r \in Robots, Subscription[c] = {Status(r)}, Latest(c, r),
         NEW e \in Events, Publish(e), e.topic = Status(r) => e.latch,
         UNCHANGED <<consumers, queue, view>>
  PROVE  Latest(c, r)'
<1>1. /\ c \in Consumers /\ scheduled \in [Consumers -> Seq(Events)]
      /\ latched \in [Topics -> Robots \cup StatusValues \cup BatteryValues \cup {NoValue}]
      /\ Status(r) \in Topics
  BY DrainFacts, TopicsDiffer DEF IInv, Shape, TypeOK
<1>2. CASE e.topic = Status(r) /\ c \in consumers
  <2>1. latched'[Status(r)] = e.payload /\ scheduled'[c] = Append(scheduled[c], e)
    BY <1>1, <1>2 DEF Publish, Matches
  <2>2. scheduled'[c] # <<>> /\ LastOf(scheduled'[c]) = e
    BY <1>1, <2>1, LastFacts
  <2>3. \A i \in DOMAIN scheduled'[c] : scheduled'[c][i].latch
    BY <1>1, <1>2, <2>1 DEF Latest
  <2> QED BY <1>2, <2>1, <2>2, <2>3 DEF Latest
<1>3. CASE ~(e.topic = Status(r) /\ c \in consumers)
  <2>1. scheduled'[c] = scheduled[c]
    BY <1>1, <1>3 DEF Publish, Matches
  <2>2. c \in consumers => latched'[Status(r)] = latched[Status(r)]
    BY <1>1, <1>3 DEF Publish
  <2> QED BY <2>1, <2>2 DEF Latest
<1> QED BY <1>2, <1>3

LEMMA LatestStep == IInv /\ LatestInv /\ [Next]_vars => LatestInv'
<1> SUFFICES ASSUME IInv, LatestInv, [Next]_vars, NEW c \in Clients, NEW r \in Robots,
                    Subscription[c] = {Status(r)}
             PROVE  Latest(c, r)'
  BY DEF LatestInv
<1>1. /\ Latest(c, r) /\ c \in Consumers /\ c \notin Drains
      /\ scheduled \in [Consumers -> Seq(Events)] /\ queue \in [Consumers -> Seq(Events)]
      /\ scheduled[c] \in Seq(Events) /\ queue[c] \in Seq(Events)
      /\ view \in [Clients -> Robots \cup StatusValues \cup BatteryValues \cup {NoValue}]
      /\ latched \in [Topics -> Robots \cup StatusValues \cup BatteryValues \cup {NoValue}]
      /\ consumers \subseteq Consumers
  BY DrainFacts DEF LatestInv, IInv, Shape, TypeOK
<1>2. CASE /\ UNCHANGED <<latched, consumers>> /\ scheduled'[c] = scheduled[c]
           /\ queue'[c] = queue[c] /\ view'[c] = view[c]
  BY <1>1, <1>2 DEF Latest
<1>3. ASSUME NEW t \in Txs, RunCallback(t) PROVE Latest(c, r)'
  <2>1. /\ Publish(Head(tx[t].callbacks)) /\ tx[t].callbacks \in Seq(FactEvents)
        /\ tx[t].callbacks # <<>> /\ UNCHANGED <<consumers, queue, view>>
    BY <1>3 DEF RunCallback, IInv, Shape, TxShape
  <2>2. Head(tx[t].callbacks) \in FactEvents
    BY <2>1
  <2>3. Head(tx[t].callbacks) \in Events /\ Head(tx[t].callbacks).topic # Status(r)
    BY <2>2, TopicsDiffer DEF FactEvents
  <2> QED BY <1>1, <2>1, <2>3, LatestPublish
<1>4. ASSUME NEW q \in Robots, NEW battery \in BatteryValues, RecordBattery(q, battery)
      PROVE  Latest(c, r)'
  <2>1. /\ Event(Battery(q), battery, TRUE) \in Events
        /\ Event(Battery(q), battery, TRUE).topic # Status(r)
    BY TopicsDiffer, ConstantFacts DEF Events, Event, FactTopics
  <2>2. Publish(Event(Battery(q), battery, TRUE)) /\ UNCHANGED <<consumers, queue, view>>
    BY <1>4 DEF RecordBattery
  <2> QED BY <1>1, <2>1, <2>2, LatestPublish
<1>5. ASSUME NEW k \in Tasks, PublishStatus(k) PROVE Latest(c, r)'
  <2> DEFINE q == task[k].robot
             e == Event(Status(q), task[k].status, TRUE)
  <2>1. q \in Robots /\ task[k].status \in StatusValues
    BY <1>5 DEF PublishStatus, IInv, Shape, TaskShape
  <2>2. e \in Events /\ e.latch
    BY <2>1, TopicsDiffer, ConstantFacts DEF Events, Event, FactTopics
  <2>3. UNCHANGED <<consumers, queue, view>>
        /\ (Publish(e) \/ UNCHANGED <<latched, scheduled>>)
    BY <1>5 DEF PublishStatus
  <2> HIDE DEF e
  <2>4. CASE Publish(e)
    BY <1>1, <2>2, <2>3, <2>4, LatestPublish
  <2>5. CASE UNCHANGED <<latched, scheduled>>
    BY <1>2, <2>3, <2>5
  <2> QED BY <2>3, <2>4, <2>5
<1>6. ASSUME NEW d \in Consumers, Deliver(d) PROVE Latest(c, r)'
  <2>1. /\ scheduled[d] # <<>>
        /\ queue' = [queue EXCEPT ![d] = IF Len(@) < QueueSize THEN Append(@, Head(scheduled[d]))
                                                               ELSE Overflow(@, Head(scheduled[d]))]
        /\ scheduled' = [scheduled EXCEPT ![d] = Tail(@)]
        /\ UNCHANGED <<latched, consumers, view>>
    BY <1>6 DEF Deliver, Enqueue
  <2>2. CASE d # c
    BY <1>1, <1>2, <2>1, <2>2
  <2>3. CASE d = c
    <3> DEFINE s == scheduled[c]
               e == Head(s)
    <3>1. s # <<>> /\ s \in Seq(Events) /\ e \in Events /\ Tail(s) \in Seq(Events)
          /\ scheduled'[c] = Tail(s) /\ e.latch /\ c \in consumers
      BY <1>1, <2>1, <2>3 DEF Latest
    <3>2. queue'[c] # <<>> /\ LastOf(queue'[c]) = e
      <4>1. queue'[c] = IF Len(queue[c]) < QueueSize THEN Append(queue[c], e)
                        ELSE Append(Tail(queue[c]), e)
        BY <1>1, <2>1, <2>3, <3>1 DEF Overflow
      <4>2. ~(Len(queue[c]) < QueueSize) => Tail(queue[c]) \in Seq(Events)
        <5> SUFFICES ASSUME ~(Len(queue[c]) < QueueSize) PROVE Tail(queue[c]) \in Seq(Events)
          OBVIOUS
        <5>1. queue[c] # <<>>
          BY <1>1, BusAssumption
        <5> QED BY <1>1, <5>1
      <4> HIDE DEF e
      <4>3. CASE Len(queue[c]) < QueueSize
        <5>1. queue'[c] = Append(queue[c], e)
          BY <4>1, <4>3
        <5> QED BY <1>1, <3>1, <5>1, LastFacts
      <4>4. CASE ~(Len(queue[c]) < QueueSize)
        <5>1. queue'[c] = Append(Tail(queue[c]), e)
          BY <4>1, <4>4
        <5>2. /\ Append(Tail(queue[c]), e) # <<>>
              /\ LastOf(Append(Tail(queue[c]), e)) = e
          BY <3>1, <4>2, <4>4, LastFacts, Zenon
        <5> QED BY <5>1, <5>2
      <4> QED BY <4>3, <4>4
    <3>3. \A i \in DOMAIN scheduled'[c] : scheduled'[c][i].latch
      BY <1>1, <3>1, LastFacts DEF Latest
    <3>4. LastOf(s).payload = latched[Status(r)]
      BY <1>1, <3>1 DEF Latest
    <3>5. Tail(s) # <<>> => LastOf(Tail(s)).payload = latched[Status(r)]
      BY <3>1, <3>4, LastFacts
    <3>6. Tail(s) = <<>> => LastOf(queue'[c]).payload = latched[Status(r)]
      BY <3>1, <3>2, <3>4, LastFacts
    <3> HIDE DEF s, e
    <3> QED BY <2>1, <3>1, <3>2, <3>3, <3>5, <3>6 DEF Latest
  <2> QED BY <2>2, <2>3
<1>7. ASSUME NEW d \in Clients, ClientReceives(d) PROVE Latest(c, r)'
  <2>1. /\ queue[d] # <<>> /\ queue' = [queue EXCEPT ![d] = Tail(@)]
        /\ view' = [view EXCEPT ![d] = Head(queue[d]).payload]
        /\ UNCHANGED <<latched, consumers, scheduled>>
    BY <1>7 DEF ClientReceives, Take
  <2>2. CASE d # c
    BY <1>1, <1>2, <2>1, <2>2
  <2>3. CASE d = c
    <3>1. /\ queue'[c] = Tail(queue[c]) /\ view'[c] = Head(queue[c]).payload
          /\ queue[c] # <<>> /\ c \in consumers
      BY <1>1, <2>1, <2>3 DEF Latest
    <3>2. Tail(queue[c]) # <<>> => LastOf(Tail(queue[c])) = LastOf(queue[c])
      BY <1>1, <3>1, LastFacts
    <3>3. Tail(queue[c]) = <<>> => LastOf(queue[c]) = Head(queue[c])
      BY <1>1, <3>1, LastFacts
    <3> QED BY <1>1, <2>1, <3>1, <3>2, <3>3 DEF Latest
  <2> QED BY <2>2, <2>3
<1>8. ASSUME NEW d \in Clients, ClientLeaves(d) PROVE Latest(c, r)'
  <2>1. /\ queue' = [queue EXCEPT ![d] = <<>>] /\ scheduled' = [scheduled EXCEPT ![d] = <<>>]
        /\ view' = [view EXCEPT ![d] = NoValue] /\ consumers' = consumers \ {d}
        /\ UNCHANGED latched
    BY <1>8 DEF ClientLeaves, Unsubscribe
  <2>2. CASE d # c
    <3>1. queue'[c] = queue[c] /\ scheduled'[c] = scheduled[c] /\ view'[c] = view[c]
          /\ (c \in consumers' <=> c \in consumers)
      BY <1>1, <2>1, <2>2
    <3> QED BY <1>1, <2>1, <3>1 DEF Latest
  <2>3. CASE d = c
    <3>1. queue'[c] = <<>> /\ scheduled'[c] = <<>> /\ view'[c] = NoValue /\ c \notin consumers'
      BY <1>1, <2>1, <2>3
    <3> QED BY <3>1 DEF Latest
  <2> QED BY <2>2, <2>3
<1>9. ASSUME NEW d \in Clients, ClientSubscribes(d) PROVE Latest(c, r)'
  <2>1. /\ d \notin consumers /\ consumers' = consumers \cup {d}
        /\ UNCHANGED <<latched, scheduled, view>>
    BY <1>9 DEF ClientSubscribes, Subscribe
  <2>2. PICK s \in [1..Cardinality(Snapshot(d)) -> Snapshot(d)] :
           queue' = [queue EXCEPT ![d] = IF Len(s) <= QueueSize THEN s ELSE SubSeq(s, 1, QueueSize)]
    BY <1>9 DEF ClientSubscribes, Subscribe
  <2>3. CASE d # c
    <3>1. queue'[c] = queue[c] /\ (c \in consumers' <=> c \in consumers)
      BY <1>1, <2>1, <2>2, <2>3
    <3> QED BY <1>1, <2>1, <3>1 DEF Latest
  <2>4. CASE d = c
    <3>1. /\ scheduled'[c] = <<>> /\ view'[c] = NoValue /\ c \in consumers'
          /\ queue'[c] = IF Len(s) <= QueueSize THEN s ELSE SubSeq(s, 1, QueueSize)
          /\ \A i \in DOMAIN scheduled'[c] : scheduled'[c][i].latch
      BY <1>1, <2>1, <2>2, <2>4 DEF Latest
    <3>2. CASE latched[Status(r)] = NoValue
      <4>1. Snapshot(d) = {}
        BY <2>4, <3>2 DEF Snapshot
      <4>2. Cardinality(Snapshot(d)) = 0
        BY <4>1, FS_EmptySet
      <4>3. s = <<>>
        BY <2>2, <4>1, <4>2
      <4>4. queue'[c] = <<>>
        BY <3>1, <4>3, BusAssumption
      <4> QED BY <2>1, <3>1, <3>2, <4>4 DEF Latest
    <3>3. CASE latched[Status(r)] # NoValue
      <4> DEFINE e == Event(Status(r), latched[Status(r)], TRUE)
      <4>1. Snapshot(d) = {e}
        BY <2>4, <3>3 DEF Snapshot
      <4> HIDE DEF e
      <4>2. Cardinality(Snapshot(d)) = 1
        BY <4>1, FS_Singleton
      <4>3. PICK n \in Nat : n = 1 /\ s \in [1..n -> {e}]
        BY <2>2, <4>1, <4>2
      <4>4. Len(s) = 1 /\ s[1] = e /\ s # <<>>
        <5>1. s \in Seq({e}) /\ Len(s) = n
          BY <4>3, LenOfFunction
        <5>2. 1 \in 1..n
          BY <4>3
        <5>3. s[1] \in {e}
          BY <4>3, <5>2, Zenon
        <5> QED BY <4>3, <5>1, <5>3
      <4>5. queue'[c] = s
        BY <3>1, <4>4, BusAssumption
      <4>6. LastOf(s).payload = latched[Status(r)]
        BY <4>4 DEF LastOf, e, Event
      <4> QED BY <2>1, <3>1, <4>4, <4>5, <4>6 DEF Latest
    <3> QED BY <3>2, <3>3
  <2> QED BY <2>3, <2>4
<1>10. CASE UNCHANGED vars
  BY <1>2, <1>10 DEF vars, busVars
<1>11. CASE Transacting
  <2>1. CASE \E t \in Txs : RunCallback(t)
    BY <1>3, <2>1
  <2>2. CASE ~\E t \in Txs : RunCallback(t)
    <3>1. UNCHANGED <<latched, consumers, scheduled, queue, view>>
      BY <1>11, <2>2 DEF Transacting, TxStep, OpenConnectivity, OpenRun, Commit, Rollback,
         LeaveScope, LeaveScopeFails, busVars
    <3> QED BY <1>2, <3>1
  <2> QED BY <2>1, <2>2
<1>12. CASE Projecting
  <2>1. CASE \E k \in Tasks : PublishStatus(k)
    BY <1>5, <2>1
  <2>2. CASE ~\E k \in Tasks : PublishStatus(k)
    <3>1. /\ UNCHANGED <<latched, consumers, scheduled, view>>
          /\ queue' = queue \/ \E k \in Drains : queue' = [queue EXCEPT ![k] = Tail(@)]
      BY <1>12, <2>2, DrainFacts DEF Projecting, DrainStep, SweepStep, TakeEvent, Take, BeginSweep,
         SweepNext, ReadRobot, ReadRuns, FailRecompute, busVars
    <3>2. queue'[c] = queue[c]
      BY <1>1, <3>1
    <3> QED BY <1>2, <3>1, <3>2
  <2> QED BY <2>1, <2>2
<1>13. CASE Receiving
  BY <1>7, <1>8, <1>9, <1>13 DEF Receiving
<1> QED BY <1>4, <1>6, <1>10, <1>11, <1>12, <1>13 DEF Next

\* The events a client has yet to be sent end in the latched value, and one
\* with none to come was shown it (event_bus.py, web/ws/routes.py).
THEOREM ClientsFollow == Spec => []ClientsAreUpToDate
<1>1. Init => LatestInv
  <2> SUFFICES ASSUME Init, NEW c \in Clients, NEW r \in Robots PROVE Latest(c, r)
    BY DEF LatestInv
  <2>1. /\ scheduled[c] = <<>> /\ queue[c] = <<>> /\ view[c] = NoValue /\ c \notin consumers
    BY DrainFacts DEF Init
  <2> QED BY <2>1 DEF Latest
<1>2. IInv /\ LatestInv => ClientsAreUpToDate
  <2> SUFFICES ASSUME IInv, LatestInv, NEW c \in Clients \cap consumers, NEW r \in Robots,
                      Subscription[c] = {Status(r)}
               PROVE  LET coming == queue[c] \o scheduled[c]
                      IN  latched[Status(r)] =
                            IF coming = <<>> THEN view[c] ELSE coming[Len(coming)].payload
    BY DEF ClientsAreUpToDate
  <2>1. Latest(c, r) /\ queue[c] \in Seq(Events) /\ scheduled[c] \in Seq(Events)
    BY DrainFacts DEF LatestInv, IInv, Shape, TypeOK
  <2> DEFINE coming == queue[c] \o scheduled[c]
  <2>2. CASE scheduled[c] # <<>>
    <3>1. coming # <<>> /\ coming[Len(coming)] = LastOf(scheduled[c])
      <4>1. PICK q, s : q = queue[c] /\ s = scheduled[c]
        OBVIOUS
      <4>2. q \in Seq(Events) /\ s \in Seq(Events) /\ s # <<>> /\ Len(s) \in Nat \ {0}
            /\ Len(q) \in Nat
        BY <2>1, <2>2, <4>1
      <4>3. /\ Len(q \o s) = Len(q) + Len(s)
            /\ (q \o s)[Len(q) + Len(s)] = s[Len(s)]
        BY <4>2
      <4>4. q \o s # <<>>
        BY <4>2, <4>3
      <4> QED BY <4>1, <4>3, <4>4 DEF LastOf
    <3> HIDE DEF coming
    <3>2. latched[Status(r)] = IF coming = <<>> THEN view[c] ELSE coming[Len(coming)].payload
      BY <2>1, <2>2, <3>1 DEF Latest
    <3> QED BY <3>2 DEF coming
  <2>3. CASE scheduled[c] = <<>>
    <3>1. coming = queue[c]
      BY <2>1, <2>3
    <3> HIDE DEF coming
    <3>2. latched[Status(r)] = IF coming = <<>> THEN view[c] ELSE coming[Len(coming)].payload
      BY <2>1, <2>3, <3>1 DEF Latest, LastOf
    <3> QED BY <3>2 DEF coming
  <2> QED BY <2>2, <2>3
<1> QED BY <1>1, <1>2, LatestStep, Invariance, PTL DEF Spec
=============================================================================
