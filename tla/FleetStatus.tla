----------------------------- MODULE FleetStatus -----------------------------
(***************************************************************************)
(* The operational status of the robots, as it is pushed to user           *)
(* interfaces.  Use cases write the facts in transactions and publish their*)
(* events after the commit (infrastructure/db.py, transactional_events.py);*)
(* record_online and record_offline attach and detach a robot's telemetry  *)
(* afterwards (infrastructure/factory.py).  The projector                  *)
(* (robot_status_projector.py) recomputes a robot's status for each event, *)
(* and for all robots in a periodic sweep, and latches what changed; a     *)
(* WebSocket client (web/ws/routes.py) forwards the topics it subscribed.  *)
(***************************************************************************)
EXTENDS EventBus

CONSTANTS
    Robots,
    Clients,        \* subscriptions of WebSocket clients
    Txs,            \* transactions that can be in progress at once
    Bounds          \* bound: how many transactions there are, and how many others:
                    \* battery frames, subscriptions and
                    \* failures of a recompute or of what follows a commit

Registry == <<"registry", NoValue>>
Lifecycle == <<"lifecycle", NoValue>>      \* of some mission; the payload names the robot
RunState == <<"state", NoValue>>           \* the latched stage view of some mission
Status(r) == <<"status", r>>
Battery(r) == <<"battery", r>>

FleetTopics == {Registry, Lifecycle, RunState} \cup {Status(r) : r \in Robots}
                                               \cup {Battery(r) : r \in Robots}

\* The projector's two queues; a third task of it sweeps.
Drains == {"registry", "mission"}
Tasks == Drains \cup {"sweep"}

\* What Bounds bounds.
Counted == {"transactions", "others"}

ASSUME FleetAssumption ==
    /\ Topics = FleetTopics
    /\ Consumers = Drains \cup Clients
    /\ Drains \cap Clients = {}
    /\ NoValue \notin Robots
    /\ Subscription["registry"] = {Registry}
    /\ Subscription["mission"] = {Lifecycle, RunState}
    /\ \A c \in Clients : Subscription[c] \subseteq {Status(r) : r \in Robots}
    /\ Bounds \in [Counted -> Nat]

VARIABLES
    row,            \* robot -> "unknown", "online" or "offline", as committed
    executing,      \* robot -> it has an executing run, as committed
    tx,             \* the transactions and handlers in progress
    adapter,        \* robots whose telemetry is subscribed
    task,           \* projector task -> the recompute it is in
    todo,           \* robots the sweep has not come to
    last,           \* robot -> the status published last (_last)
    view,           \* client -> what it was shown last
    missed,         \* history: robots with a change no event announces any more
    count           \* how many there were so far of what Bounds bounds

factVars == <<row, executing, adapter>>
projectorVars == <<task, todo, last>>
vars == <<busVars, factVars, tx, projectorVars, view, missed, count>>

StatusValues == {"offline", "charging", "active", "idle"}
BatteryValues == {"charging", "discharging"}

\* Slip: an idle robot has no status.
SlipDerive(online, active, charging) ==
    CASE ~online -> "offline"
      [] online /\ charging -> "charging"
      [] online /\ ~charging /\ active -> "active"
      [] OTHER -> NoValue

\* derive_robot_status: offline > charging > active > idle.
Derive(online, active, charging) ==
    CASE ~online -> "offline"
      [] online /\ charging -> "charging"
      [] online /\ ~charging /\ active -> "active"
      [] OTHER -> "idle"

Known(r) == row[r] # "unknown"
Charging(r) == latched[Battery(r)] = "charging"

\* What the REST fleet view derives for the robot now.
Derived(r) == Derive(row[r] = "online", executing[r], Charging(r))

NoTx == [phase |-> "none", kind |-> "none", robot |-> NoValue, callbacks |-> <<>>]
NoTask == [at |-> "idle", robot |-> NoValue, online |-> FALSE, status |-> NoValue]

ConnectivityKinds == {"online", "offline"}
RunKinds == {"move", "frame"}

\* After startup: every robot was marked offline, the projector subscribed
\* and recomputed all, then connectivity starts.
Init ==
    /\ row \in [Robots -> {"unknown", "offline"}]
    /\ executing \in [Robots -> BOOLEAN]
    /\ latched = [t \in Topics |->
                    IF t \in {Status(r) : r \in {q \in Robots : row[q] = "offline"}}
                    THEN "offline" ELSE NoValue]
    /\ consumers = Drains
    /\ scheduled = [c \in Consumers |-> <<>>]
    /\ queue = [c \in Consumers |-> <<>>]
    /\ last = [r \in Robots |-> IF row[r] = "offline" THEN "offline" ELSE NoValue]
    /\ tx = [t \in Txs |-> NoTx]
    /\ adapter = {}
    /\ task = [k \in Tasks |-> NoTask]
    /\ todo = {}
    /\ view = [c \in Clients |-> NoValue]
    /\ missed = {}
    /\ count = [n \in Counted |-> 0]

Counts(n) == count[n] < Bounds[n] /\ count' = [count EXCEPT ![n] = @ + 1]

-----------------------------------------------------------------------------
(* Transactions and their callbacks                                        *)

Busy(t, kinds, r) == tx[t].kind \in kinds /\ tx[t].robot = r

\* The row a transaction updates is locked until it commits.
RowLocked(kinds, r) == \E t \in Txs : tx[t].phase = "open" /\ Busy(t, kinds, r)

\* The event of a use case.
EventOf(kind, r) ==
    CASE kind \in ConnectivityKinds -> Event(Registry, r, FALSE)
      [] kind = "move" -> Event(Lifecycle, r, FALSE)
      [] kind = "frame" -> Event(RunState, r, TRUE)

\* What a use case publishes through its TransactionBoundEventPublisher.
Callbacks(kind, r) == IF kind = "offline" /\ ~Known(r) THEN <<>> ELSE <<EventOf(kind, r)>>

Begin(t, kind, r) ==
    tx' = [tx EXCEPT ![t] = [phase |-> "open", kind |-> kind, robot |-> r,
                             callbacks |-> Callbacks(kind, r)]]

\* record_online or record_offline writes the robot's row.
OpenConnectivity(t, kind, r) ==
    /\ tx[t].phase = "none"
    /\ ~RowLocked(ConnectivityKinds, r)
    /\ Counts("transactions")
    /\ Begin(t, kind, r)
    /\ UNCHANGED <<busVars, factVars, projectorVars, view, missed>>

\* Slip: the events go out when they are emitted, before the commit.
SlipOpenRun(t, kind, r) ==
    /\ tx[t].phase = "none"
    /\ ~RowLocked(RunKinds, r)
    /\ Counts("transactions")
    /\ tx' = [tx EXCEPT ![t] = [phase |-> "open", kind |-> kind, robot |-> r,
                                callbacks |-> <<>>]]
    /\ Publish(Head(Callbacks(kind, r)))
    /\ UNCHANGED <<consumers, queue, factVars, projectorVars, view, missed>>

\* A run of the robot moves into or out of execution, or a frame of it updates
\* its stage rows; the run's row is locked.
OpenRun(t, kind, r) ==
    /\ tx[t].phase = "none"
    /\ ~RowLocked(RunKinds, r)
    /\ Counts("transactions")
    /\ Begin(t, kind, r)
    /\ UNCHANGED <<busVars, factVars, projectorVars, view, missed>>

\* transactional_scope: the writes become visible, the callbacks are still to run.
Commit(t) ==
    /\ tx[t].phase = "open"
    /\ tx' = [tx EXCEPT ![t].phase = "committed"]
    /\ LET r == tx[t].robot
       IN  /\ row' = [row EXCEPT ![r] = CASE tx[t].kind = "online" -> "online"
                                          [] tx[t].kind = "offline" /\ Known(r) -> "offline"
                                          [] OTHER -> @]
           /\ executing' = [executing EXCEPT ![r] = IF tx[t].kind = "move" THEN ~@ ELSE @]
    /\ UNCHANGED <<busVars, adapter, projectorVars, view, missed, count>>

\* An exception in the use case: its events are discarded with its writes.
Rollback(t) ==
    /\ tx[t].phase = "open"
    /\ tx' = [tx EXCEPT ![t] = NoTx]
    /\ UNCHANGED <<busVars, factVars, projectorVars, view, missed, count>>

\* run_after_commit_callbacks, one publish at a time.
RunCallback(t) ==
    /\ tx[t].phase = "committed"
    /\ tx[t].callbacks # <<>>
    /\ Publish(Head(tx[t].callbacks))
    /\ tx' = [tx EXCEPT ![t].callbacks = Tail(@)]
    /\ UNCHANGED <<consumers, queue, factVars, projectorVars, view, missed, count>>

\* The scope is left.  A connectivity handler then starts the robot's
\* telemetry adapter unless there is one, or, after looking at the robot's
\* runs in a transaction of its own, takes it out and closes it.
LeaveScope(t) ==
    /\ tx[t].phase = "committed"
    /\ tx[t].callbacks = <<>>
    /\ tx' = [tx EXCEPT ![t] = NoTx]
    /\ adapter' = CASE tx[t].kind = "online" -> adapter \cup {tx[t].robot}
                    [] tx[t].kind = "offline" -> adapter \ {tx[t].robot}
                    [] OTHER -> adapter
    /\ UNCHANGED <<busVars, row, executing, projectorVars, view, missed, count>>

\* What follows the commit of a connectivity handler fails: the adapter does
\* not start, or the database fails the look at the robot's runs and the
\* adapter is not taken out.
LeaveScopeFails(t) ==
    /\ tx[t].phase = "committed"
    /\ tx[t].callbacks = <<>>
    /\ tx[t].kind \in ConnectivityKinds
    /\ Counts("others")
    /\ tx' = [tx EXCEPT ![t] = NoTx]
    /\ UNCHANGED <<busVars, factVars, projectorVars, view, missed>>

\* record_battery: a frame of a subscribed robot is latched at once; the
\* projector hears nothing of it.
RecordBattery(r, battery) ==
    /\ r \in adapter
    /\ latched[Battery(r)] # battery
    /\ Counts("others")
    /\ Publish(Event(Battery(r), battery, TRUE))
    /\ missed' = missed \cup {r}
    /\ UNCHANGED <<consumers, queue, factVars, tx, projectorVars, view>>

-----------------------------------------------------------------------------
(* The projector                                                           *)

\* _affected_robot: the robot an event concerns; a state frame concerns none.
Affected(e) == IF e.topic \in {Registry, Lifecycle} THEN {e.payload} ELSE {}

\* A callback of the loop reaches a queue; what the queue loses is missed.
Deliver(c) ==
    /\ Enqueue(c)
    /\ missed' = missed \cup UNION {Affected(e) : e \in IF c \in Drains THEN LostBy(c) ELSE {}}
    /\ UNCHANGED <<factVars, tx, projectorVars, view, count>>

\* _drain takes an event and goes for the lock if it concerns a robot.
TakeEvent(k) ==
    /\ task[k].at = "idle"
    /\ Take(k)
    /\ task' = [task EXCEPT ![k] =
                    IF Affected(Head(queue[k])) = {} THEN NoTask
                    ELSE [NoTask EXCEPT !.at = "waiting", !.robot = Head(queue[k]).payload]]
    /\ UNCHANGED <<factVars, tx, todo, last, view, missed, count>>

\* Slip: a sweep leaves out the robots it has published a status of.
SlipBeginSweep ==
    /\ task["sweep"].at = "idle"
    /\ todo = {}
    /\ todo' = {r \in Robots : Known(r) /\ last[r] = NoValue}
    /\ UNCHANGED <<busVars, factVars, tx, task, last, view, missed, count>>

\* _reconcile_loop wakes, and reads the robots there are.
BeginSweep ==
    /\ task["sweep"].at = "idle"
    /\ todo = {}
    /\ todo' = {r \in Robots : Known(r)}
    /\ UNCHANGED <<busVars, factVars, tx, task, last, view, missed, count>>

SweepNext(r) ==
    /\ task["sweep"].at = "idle"
    /\ r \in todo
    /\ todo' = todo \ {r}
    /\ task' = [task EXCEPT !["sweep"] = [NoTask EXCEPT !.at = "waiting", !.robot = r]]
    /\ UNCHANGED <<busVars, factVars, tx, last, view, missed, count>>

Recomputing(k) == task[k].at \in {"robot_read", "derived"}

LockFree == \A k \in Tasks : ~Recomputing(k)

\* _recompute gets the lock; compute reads the robot's row, which may be gone.
ReadRobot(k) ==
    LET r == task[k].robot
    IN  /\ task[k].at = "waiting"
        /\ LockFree
        /\ task' = [task EXCEPT ![k] =
                        IF Known(r) THEN [@ EXCEPT !.at = "robot_read",
                                                   !.online = (row[r] = "online")]
                                    ELSE NoTask]
        /\ missed' = missed \ {r}
        /\ UNCHANGED <<busVars, factVars, tx, todo, last, view, count>>

\* It reads the robot's runs and the latched battery, and derives.
ReadRuns(k) ==
    LET r == task[k].robot
    IN  /\ task[k].at = "robot_read"
        /\ task' = [task EXCEPT ![k] =
                        [@ EXCEPT !.at = "derived",
                                  !.status = Derive(task[k].online, executing[r], Charging(r))]]
        /\ UNCHANGED <<busVars, factVars, tx, todo, last, view, missed, count>>

\* The read transaction is over: publish on change.
PublishStatus(k) ==
    LET r == task[k].robot
        s == task[k].status
    IN  /\ task[k].at = "derived"
        /\ task' = [task EXCEPT ![k] = NoTask]
        /\ IF last[r] = s
           THEN UNCHANGED <<latched, scheduled, last>>
           ELSE /\ last' = [last EXCEPT ![r] = s]
                /\ Publish(Event(Status(r), s, TRUE))
        /\ UNCHANGED <<consumers, queue, factVars, tx, todo, view, missed, count>>

\* The database fails the recompute: a drain has lost its event, the sweep
\* gives up until the next one.
FailRecompute(k) ==
    /\ task[k].at # "idle"
    /\ Counts("others")
    /\ task' = [task EXCEPT ![k] = NoTask]
    /\ todo' = IF k = "sweep" THEN {} ELSE todo
    /\ missed' = missed \cup {task[k].robot}
    /\ UNCHANGED <<busVars, factVars, tx, last, view>>

-----------------------------------------------------------------------------
(* WebSocket clients                                                       *)

ClientSubscribes(c) ==
    /\ Counts("others")
    /\ Subscribe(c)
    /\ UNCHANGED <<factVars, tx, projectorVars, view, missed>>

\* pump_subscription sends the next event.
ClientReceives(c) ==
    /\ Take(c)
    /\ view' = [view EXCEPT ![c] = Head(queue[c]).payload]
    /\ UNCHANGED <<factVars, tx, projectorVars, missed, count>>

\* An unsubscribe frame, a closed socket or a missed heartbeat.
ClientLeaves(c) ==
    /\ Unsubscribe(c)
    /\ view' = [view EXCEPT ![c] = NoValue]
    /\ UNCHANGED <<factVars, tx, projectorVars, missed, count>>

-----------------------------------------------------------------------------
TxStep(t) == Commit(t) \/ Rollback(t) \/ RunCallback(t) \/ LeaveScope(t)

Transacting ==
    \E t \in Txs :
        \/ \E r \in Robots, kind \in ConnectivityKinds : OpenConnectivity(t, kind, r)
        \/ \E r \in Robots, kind \in RunKinds : OpenRun(t, kind, r)
        \/ TxStep(t)
        \/ LeaveScopeFails(t)

DrainStep(k) == TakeEvent(k) \/ ReadRobot(k) \/ ReadRuns(k) \/ PublishStatus(k)

SweepStep ==
    \/ BeginSweep
    \/ \E r \in Robots : SweepNext(r)
    \/ ReadRobot("sweep")
    \/ ReadRuns("sweep")
    \/ PublishStatus("sweep")

Projecting == (\E k \in Drains : DrainStep(k)) \/ SweepStep \/ (\E k \in Tasks : FailRecompute(k))

Receiving ==
    \E c \in Clients : \/ ClientSubscribes(c)
                       \/ ClientReceives(c)
                       \/ ClientLeaves(c)

Next ==
    \/ Transacting
    \/ \E r \in Robots, battery \in BatteryValues : RecordBattery(r, battery)
    \/ \E c \in Consumers : Deliver(c)
    \/ Projecting
    \/ Receiving

Spec == Init /\ [][Next]_vars

\* Every coroutine that can go on does: the database answers, the loop runs
\* its callbacks, the sweep's sleep ends.  Nothing makes a use case start, a
\* client subscribe or a step fail.
Fairness ==
    /\ \A t \in Txs : WF_vars(TxStep(t))
    /\ WF_vars(\E c \in Consumers : Deliver(c))
    /\ \A k \in Drains : WF_vars(DrainStep(k))
    /\ WF_vars(SweepStep)
    /\ \A c \in Clients : WF_vars(ClientReceives(c))

FairSpec == Spec /\ Fairness

-----------------------------------------------------------------------------
(* Properties                                                              *)

Events ==
    {e \in [topic : Topics, payload : Robots \cup StatusValues \cup BatteryValues, latch : BOOLEAN] :
        e.topic \in {Registry, Lifecycle} => e.payload \in Robots}

TxRows ==
    [phase : {"none", "open", "committed"}, kind : ConnectivityKinds \cup RunKinds \cup {"none"},
     robot : Robots \cup {NoValue}, callbacks : Seq(Events)]

TaskRows ==
    [at : {"idle", "waiting", "robot_read", "derived"}, robot : Robots \cup {NoValue},
     online : BOOLEAN, status : StatusValues \cup {NoValue}]

TypeOK ==
    /\ latched \in [Topics -> Robots \cup StatusValues \cup BatteryValues \cup {NoValue}]
    /\ consumers \subseteq Consumers
    /\ scheduled \in [Consumers -> Seq(Events)]
    /\ queue \in [Consumers -> Seq(Events)]
    /\ row \in [Robots -> {"unknown", "online", "offline"}]
    /\ executing \in [Robots -> BOOLEAN]
    /\ tx \in [Txs -> TxRows]
    /\ adapter \subseteq Robots
    /\ task \in [Tasks -> TaskRows]
    /\ todo \subseteq Robots
    /\ last \in [Robots -> StatusValues \cup {NoValue}]
    /\ view \in [Clients -> Robots \cup StatusValues \cup BatteryValues \cup {NoValue}]
    /\ missed \subseteq Robots
    /\ count \in [Counted -> Nat]

Announcing(s) == UNION {Affected(s[i]) : i \in DOMAIN s}

\* A recompute of the robot is under way or still to be caused by an event, or
\* a change of it was missed and awaits the next recompute.
Owed(r) ==
    \/ \E t \in Txs : tx[t].phase = "committed" /\ r \in Announcing(tx[t].callbacks)
    \/ \E k \in Drains : r \in Announcing(queue[k]) \cup Announcing(scheduled[k])
    \/ \E k \in Tasks : task[k].robot = r
    \/ r \in missed

\* The status that is latched for a robot differs from the one its facts give
\* only while a recompute of it is owed: no order of commits, callbacks, queue
\* losses and recomputes leaves a wrong status that nothing will correct.
StaleOnlyWhileOwed ==
    \A r \in Robots : Known(r) /\ latched[Status(r)] # Derived(r) => Owed(r)

\* The events a client has yet to be sent end in the value that is latched,
\* and a client with none to come was shown that value: a queue that overflows
\* loses only what is out of date (event_bus.py:97).
ClientsAreUpToDate ==
    \A c \in Clients \cap consumers, r \in Robots :
        Subscription[c] = {Status(r)} =>
            LET coming == queue[c] \o scheduled[c]
            IN  latched[Status(r)] = IF coming = <<>> THEN view[c] ELSE coming[Len(coming)].payload

\* A robot that is online has its telemetry subscribed once its connectivity
\* handlers are done: "One instance per online robot"
\* (robot_telemetry_adapter.py:3).
OnlineRobotIsHeard ==
    \A r \in Robots :
        (\A t \in Txs : ~Busy(t, ConnectivityKinds, r)) /\ row[r] = "online" => r \in adapter

\* When the facts of a robot stop changing, the latched status becomes the one
\* they give and stays so, whatever events were dropped: the sweep makes the
\* read model eventually consistent (robot_status_projector.py:16).
StatusSettles ==
    \A r \in Robots :
        <>[][FALSE]_<<row[r], executing[r], Charging(r)>>
            => <>[](Known(r) => latched[Status(r)] = Derived(r))

\* A client that stays is shown the status that stays.
ClientsCatchUp ==
    \A c \in Clients, r \in Robots :
        Subscription[c] = {Status(r)} =>
            (<>[][FALSE]_<<consumers, latched[Status(r)]>>
                => <>[](c \in consumers => view[c] = latched[Status(r)]))
=============================================================================
