# Formal models of the Leitstand backend

The Leitstand backend is the fleet controller of a set of field robots: an
operator dispatches missions over HTTP (or through a chat agent), the backend
sends each run to its robot over Zenoh, follows the robot's state frames, keeps
the runs in PostgreSQL and tells user interfaces what happened.  This directory
holds TLA+ models of the parts where order, concurrency and failure matter, the
TLC configurations that check them on small instances, and TLAPS proofs of the
results that should hold for every fleet.

Paths below are relative to `src/leitstand_backend/`.


## 1. The system

The process is one asyncio event loop, with Zenoh callback threads that hand
their work to it.  Every use case runs in one database transaction
(`infrastructure/db.py`, `infrastructure/deps.py`), and what orders two use cases
is only what the database orders: row locks (`SELECT ... FOR UPDATE`), one
partial unique index and compare-and-set updates.  Everything that is awaited
between two statements is a point where another use case may run.

| component | state it keeps | operations | talks to |
|---|---|---|---|
| Run lifecycle (`domain/model/mission/run_lifecycle.py`) | none; a table of transitions | `try_next_state`, `trigger_for_report` | called by all that move a run |
| Stage records (`stage_state_record.py`, run repository) | one versioned row per stage of a run | upsert, overlay, projection at the end of a run | run use cases, frames |
| Run use cases (`application/run_service.py`, `infrastructure/deps.py`) | the rows `mission_runs`, their transition log, the locks | prepare, dispatch, settle, cancel, pause, resume, close, delete, annotate | dispatcher (await inside and between transactions), repositories, events |
| Robot state frames (`application/mission_state_service.py`) | none of its own | `record`, one coroutine per frame | the run rows under their lock |
| Run reconciliation (`application/run_reconciliation.py`) | none of its own | judge the runs of a returning robot, by its claim or by its silence | dispatcher, run rows by compare-and-set |
| Robot connectivity (`robot_connectivity_adapter.py`, `robot_connectivity_service.py`, `factory.py`) | the fleet's `online` flag, the known-robot set, one delayed sweep per return | liveliness PUT and DELETE samples, `record_online`, `record_offline`, `mark_all_offline` | metadata query to the robot, reconciliation |
| Mission dispatcher (`mission_dispatcher_adapter.py`) | none | dispatch, cancel, pause, resume with their time limits | the robot |
| Event bus (`infrastructure/event_bus.py`, `transactional_events.py`, `db.py`) | latched values, one bounded queue per subscriber, callbacks that wait for a commit | publish, subscribe with a snapshot, unlatch | every use case; projector, WebSocket hub |
| Robot status projector (`robot_status_projector.py`, `robot_status_service.py`) | the last status it published per robot | recompute on an event and on a periodic sweep | event bus, database |
| Telemetry adapters (`robot_telemetry_adapter.py`, attached by `factory.py`) | one per online robot | attach after `record_online`, detach after `record_offline` | event bus |
| Tool-call approvals (`tool_call_approval_service.py`, `tool_call_repository_adapter.py`) | tool-call rows; per chat turn, the decisions it settled | record a proposal, settle a decision, prune the history, record an outcome | chat agent (external), which runs the tools |
| Mission management (`mission_management_service.py`, coverage, site and field services) | missions, their stages, the coverage plans in them, assigned robots; sites and fields | create, update, re-plan, assign, unassign, delete or archive, restore; edits of sites and fields | an external coverage planner, awaited without the mission's lock; the runs that copy the stages |
| WebSocket hub, factsheets, fleet view | subscriptions and latched values | forward | event bus |
| HTTP routes, settings, authentication, LLM and MCP adapters | none, or configuration | translate | everything above |

### Which behaviours are hard

* **A dispatch is three steps.**  `prepare` inserts a PENDING row and commits, the
  robot is asked outside any transaction, `settle` writes the answer in a second
  transaction.  The robot's first frames, the operator's cancel, a close, a
  delete and a robot that goes away can all come between.  No answer means
  *unknown*, never *refused*.
* **A control call awaits the robot with the row lock held.**  The status read
  before the await must be the status that is replaced after it.
* **A frame is one coroutine.**  Two frames of one robot may be handled in either
  order, frames are dropped under load, and nothing is retransmitted.
* **The reconciliation reads runs without a lock**, awaits a cancel of up to five
  seconds and then writes by compare-and-set.  What it judges by, the claim or
  the reports since the return, was collected earlier.
* **Robots leave, reboot and return**, the backend restarts, and both forget.
* **Events leave after the commit**, when the coroutine that awaited it goes on, so two
  transactions can publish in the other order.  Queues are bounded: a
  latched event evicts the oldest entry, another one is dropped.  The projector
  reads the facts with awaits of its own while new events arrive.
* **`record_online` and `record_offline` go on after their commit**: a telemetry adapter is
  attached or detached, and the runs' views are published, while the next
  handler of the same robot may already run.
* **Coverage is planned for seconds without a lock.**  The mission, its field, its sites
  and its runs may change meanwhile; what was read before has to be compared again
  under the mission's row lock.
* **A chat turn holds no transaction.**  It reads proposals, settles them, waits for
  a model and runs tools while other turns, resent or late, do the same; it can die
  after a tool has acted and before that is recorded.

### What makes each component correct

* *Lifecycle*: the table is a function, live and ended statuses are disjoint, an
  outcome ends a run from any live status, nothing leaves an ended one.
* *Stage records*: a row never goes back to an older report; when a run has
  ended, each stage of its plan has.
* *Run control as a whole*: a robot has one active run; two active runs of one
  mission were asked for; every move is one of the table and is logged; a pause
  is confirmed only by a report that came after it; an ended run is final; a run
  is never recorded as ended *on the robot's word* while it can still be driven;
  a cancel ends the run; a run that the returned robot does not hold is ended.
* *Event bus*: what is published is committed; the latest latched value survives
  a full queue, so that a subscriber ends up with what is latched.
* *Status projector*: a published status that differs from the facts is one that
  something will still correct, and once the facts stop changing it is corrected.
* *Telemetry adapters*: an online robot has one, an offline robot none.
* *Approvals*: a proposal is decided once and carried out once, with the arguments
  the operator saw; a replay reaches no other proposal; an outcome closes its own
  row.
* *Mission management*: a stored path belongs to the boundary and the inputs
  recorded with it; a run copies one whole definition, current and driveable by
  its robot; runs keep their mission and missions their sites; what is archived
  stands.

`PROJECT.json` lists each hazard at its line with the property that covers it.


## 2. The modules

```
RunLifecycle      StageRecords        RobotReservation
      \              /                       |
       \            /                        | (refined by)
        RunControl --------------------------+
        /        \
MCRunControl    RunControlProofs -- EXTENDS RunLifecycleProofs, StageRecordsProofs
                      |
                RunRecordsProofs
                      |
                RunProgressProofs

MCToolApprovals, ToolApprovalsProofs --> ToolApprovals -- refines --> ApprovalGate

MCFleetStatus,   FleetStatusProofs   --> FleetStatus  --> EventBus
MCMissionPlans,  MissionPlansProofs  --> MissionPlans --> MissionStages
```

The four groups share no variable.  Run control, the fleet status and the mission
plans meet in the database: `FleetStatus` sees of a run whether its robot executes
one, `MissionPlans` sees that it is active and which stages it copied, and each
lets the other's facts change at any time.

**RunLifecycle** is `run_lifecycle.py`, `run_status.py` and the meaning of a
report.  The table is a set of triples `<<from, trigger, to>>` made of one set per
source of transitions (the answer to a dispatch, a request, progress, close,
reconciliation, outcome).  `Allowed` is `next_state`; `try_next_state` returning
`None` is the absence of a triple.

**StageRecords** is the stage table of a run and `final_stage_statuses`.  `Upsert` is
the conditional `ON CONFLICT ... WHERE header_id < excluded.header_id`,
`Overlay` the frame that ends a run, `Closed` and `Projected` the projection of
`stage_state_record.py`.

**RunControl** is run use cases, frames, reconciliation, connectivity and the
dispatcher together, because each of them writes the same rows.

| state in the code | variable |
|---|---|
| `mission_runs` row: status, mission, robot, `allow_concurrent`, last report, `dispatched_at`, errors | `status`, `mission`, `robot`, `consent`, `report`, `dispatched`, `failure` |
| newest row of the transition log, with the report counter and acknowledgement of a request | `last` |
| stage rows | `stageRows` |
| `robots.online` | `online` |
| a `prepare` transaction that has passed its checks and holds the mission's lock | `starting[r]` |
| the background dispatch between its commit and `settle` | `start[r]` |
| a cancel, pause or resume that awaits the robot with the locks held | `call[r]` |
| metadata query, `record_online`, the grace window and the reconciliation of one return | `reconnect[b]` |
| a liveliness DELETE not handled yet | `departed` |
| (external) tokens, the robots' goals, modes and report counters | `alive`, `holds`, `mode`, `header` |
| (external) frames, dispatches and cancels on the wire | `frames`, `queries`, `stops` |

A transaction that awaits the robot while it holds a lock is a *Begin* and an
*End* action; its writes appear at *End*, where it commits, and the lock is what
`call`, `starting` and `reconnect` stand for in between.  Every other transaction
is one action.  `RunUnlocked` and `MissionUnlocked` are the row locks, and
`RobotIndexFree` is the partial unique index `uq_run_robot_active`: its
violation is the action `InsertRefused`, the `RobotBusy` of the code.

| code | actions |
|---|---|
| `prepare`, the insert, a rollback | `BeginDispatch`, `InsertRun`, `InsertRefused`, `PrepareFails` |
| `dispatch_run_in_background` (`deps.py`) and the query | `DispatchUnanswered`, `RobotTakes`, `RobotRejects` |
| `settle`, one disjunct per answer and status; its rollback, after which nobody settles | `Settle`, `SettleFails` |
| `cancel`, `_steer`; a call that cannot be sent or is rolled back | `CancelDeferred`, `BeginCall`, `CallUnanswered`, `EndCancel`, `EndSteer`, `CallFails` |
| `close`, `delete` | `CloseRun`, `DeleteRun` |
| `MissionStateService.record` | `Record` (dropped, outcome, progress, repeat) |
| liveliness samples, metadata query | `RecordOffline`, `FetchClaim`, `FetchFails` |
| `record_online`, `reconcile_robot_runs` | `RecordOnline`, `JudgeSpares`, `JudgeCancels`, `CloseUnclaimed` |
| their exceptions: swallowed with the robot online, or rolled back | `ReconnectFails` |
| start of the process | `Restart` |

**RobotReservation** is the abstract specification: a robot is reserved for one run
at a time and a run that ended is never reserved again.  `RunControl` names the
refinement mapping (`HolderOf`, `SpentRuns`) and the property `ReservesRobots`.

**MCRunControl** holds the values, stage reports and symmetry for TLC.

**ToolApprovals** is the gate between what the chat assistant proposes and what it
does.  It shares no state with run control: an approved tool calls the same use
cases as an HTTP request.

| state in the code | variable |
|---|---|
| `tool_calls` rows: status, the model's id, verb and arguments, order of creation | `status`, `id`, `content`, `older` |
| progress of a `POST /chat` turn | `phase` |
| the history in its request, the decisions it has still to settle | `history`, `todo` |
| the row `record_decision` found, across its await | `found` |
| `settled` (approvals and metadata by the model's id) | `settled` |
| tool results the stream has not handled | `owing` |
| (external) what tools did | `ran` |
| (history, for properties) calls decided when a turn arrived | `before` |

| code | actions |
|---|---|
| `chat` up to `_settle_approvals` | `Arrive` |
| `record_decision`, the read | `FindProposal`, `FindNothing` |
| `settle_tool_call`, the compare-and-set | `SettleDecision` |
| `pruned`, `run_stream_native` | `StartRun`, then `RunTool` (external) |
| `recording_outcomes`, `record_tool_call_outcome` | `RecordOutcome`, `OutcomeUnrecorded` |
| `record`, `record_pending_tool_call` | `Propose` |
| the end of the stream, or of the process | `EndTurn` |

**ApprovalGate** is its abstract specification: a proposal is opened, decided once and
carried out by one turn once approved.  `DecidedAndDoneOnce` is the refinement, with
the mapping beside it.  **MCToolApprovals** holds the histories clients send.

**EventBus** is `event_bus.py`: latched values, subscriptions with their snapshot, the
hand-over to the event loop and the bounded queues.  **FleetStatus** extends it with
everything that writes to the bus and reads from it on the way from a fact in the
database to what a user interface shows as the robot's status.

| state in the code | variable |
|---|---|
| latched values; subscribers, what `call_soon` has scheduled for them, their queues | `latched`; `consumers`, `scheduled`, `queue` |
| the `robots` row and the robot's executing runs, as committed | `row`, `executing` |
| a use case's transaction, its registered callbacks, and what its handler does after the commit | `tx` |
| `_data_adapters` | `adapter` |
| the projector's two drain tasks and its sweep; robots the sweep has not reached; `_last` | `task`, `todo`, `last` |
| what a WebSocket client was sent last | `view` |
| (history) robots with a change no event announces | `missed` |

| code | actions |
|---|---|
| `record_online`, `record_offline` in their transaction | `OpenConnectivity` |
| use cases that move a run or record a frame | `OpenRun` |
| `transactional_scope`, `run_after_commit_callbacks` | `Commit`, `Rollback`, `RunCallback` |
| the rest of `record_online` and `record_offline` (`factory.py`); its failure, which skips the attach or the detach | `LeaveScope`, `LeaveScopeFails` |
| battery frames | `RecordBattery` |
| `_enqueue` on the event loop | `Deliver` |
| `_drain`, `_reconcile_loop` | `TakeEvent`, `BeginSweep`, `SweepNext` |
| `_recompute`: the robot, its runs, the publication; its failure | `ReadRobot`, `ReadRuns`, `PublishStatus`, `FailRecompute` |
| `/ws`: subscribe, pump, disconnect | `ClientSubscribes`, `ClientReceives`, `ClientLeaves` |

**MissionStages** is the tree of stages of a mission as a function from stage ids, what
requests say of stages and how `_with_ids` makes a definition of both.
**MissionPlans** is every request that writes missions, the planner, and the edits of
fields and sites that come between.

| state in the code | variable |
|---|---|
| `missions` and `mission_stages` rows; `mission_runs` with their copy of the stages and sites | `missions`, `runs` |
| fields with their boundary, sites | `fields`, `sites` |
| `SELECT ... FOR UPDATE` on a mission | `holder` |
| a request: its inputs, the rows it read, the inputs not planned yet, what is with the planner, what was planned | `request` |
| (history) fields changed since the lock was taken; the inputs of the last save | `edited`, `asked` |

| code | actions |
|---|---|
| `create`, `create_generated`, `update`, `plan` of the coverage service | `BeginCreate`, `BeginUpdate`, `BeginReplan` |
| assign, unassign, dispatch, delete, restore; delete of a site | `BeginLocked`, `BeginSiteDelete` |
| `_plan_inputs`, `_plan_if_changed`, `plan_coverage_stage`, the planner's answer | `PlanOrKeep`, `PlannerAnswers`, `FinishPlanning` |
| `get_for_update` and the checks that follow it; `_replan_changed_meanwhile` | `Lock`, `TodoUnderLock`, `RowsUnderLock` |
| `require_current_boundary`, one stage at a time | `CompareBoundary` |
| the writes | `SaveNew`, `SaveUpdate`, `SaveReplacement`, `SaveAssignment`, `CreateRun`, `Delete`, `Restore`, `DeleteSite` |
| every refusal, planner error and lost connection | `Abort` |
| edits from elsewhere | `SetField`, `CreateSite`, `RunEnds`, `DeleteRun` |

Operators named `Slip...` stand before the operator they alter.  Each is that
operator with one plausible mistake (a check left out, a silence taken for a
refusal, an older frame accepted); none is used by the specification.  Put in the
place of the original, it makes TLC find a counterexample to the property named
beside it in `PROJECT.json` (`mutants`), which shows that the property would have
noticed the mistake.

### Abstractions

* **Time.**  There is no clock.  The ten seconds a PENDING run is spared by the
  reconciliation and the thirty seconds before a client without a claim is judged
  are nondeterministic choices; time limits of calls expire only under the faults
  `lost_call` and `lost_dispatch` or when the robot is not connected.  *Created since*
  is the set `known` of the runs that existed at the return; *reported since* is
  the set `heard`.  Start and end times of runs and stages are left out.
* **Cancels whose answer nobody uses** (in `settle`, and in the reconciliation) are
  messages in `stops` that arrive at any later time or are lost.  The code awaits
  them; the model allows every timing of that and more.
* **Dispatch outcomes.**  A timeout and a transport error are one outcome, since
  `settle` treats them alike.  A lost query may be gone or arrive later
  (`late_dispatch`).
* **Handlers that fail.**  Under `failed_handler` a transaction of run control may roll back
  at any of its awaits, a query may not be sent, and a reconciliation may end with an
  exception: with a claim `record_online` swallows it and commits the robot online with
  its runs unjudged (`factory.py:326`), without one the sweep gives up.  A PUT or DELETE
  sample whose transaction fails is not handled again.  The window between the commit
  and the answer to the caller changes nothing and is left out.
* **Requests.**  `Requests` names what the operator does: `cancel`, `pause` and `resume` of a
  robot that is shown online, `cancel_offline` and `close` of one shown offline, `delete`.
  A client of `Claiming` answers the claim; under `old_client` its answer may lack it.
* **Data.**  Progress, results, positions, error texts, notes and factsheets are
  left out; `failure` keeps which use case wrote an error.  The validations of
  `prepare` that only refuse (unknown mission, factsheet, boundary) change nothing
  and are left out.
* **Events** of run control are in `FleetStatus`, which keeps of each use case what it
  changes of a robot's status and what it announces.  All producers run on the event
  loop.  The robot's aggregate topic, other telemetry (forwarded like the battery),
  the seeding of latched telemetry at the start and `unlatch`, which only the deletion
  of a run calls, are left out.  The payload of a latched run state is left out as well
  (section 5).
* **Connectivity.**  In `RunControl` one PUT and one DELETE sample of a robot are in
  handling at a time.  In `FleetStatus` any number of handlers of a robot overlap once
  their transactions have committed; the reconciliation inside `record_online` is in
  `RunControl`.
* **Definitions.**  A path stands for the boundary it was laid out in, a width for all
  planning inputs but the field, a digest for the boundary it digests (no collisions).
  The order of stages, names, waypoint frames and the update of a site are left out;
  an update that gives no stages saves the same ones.  A robot's factsheet is constant.
  A field or site id the database does not know is a refusal (`Abort`).
* **Reads before a lock.**  A session keeps the rows it has read, so a read under the lock
  may return stages as they were read without it (`_nest` keeps them alive);
  `RowsUnderLock` leaves both outcomes open.
* **Approvals.**  The operator is one, as in the code.  Parts of a history that carry
  their result are left out: they decide nothing and nothing runs them.  Rows are
  created in the order they are inserted; the code orders them by the time it
  stamped, which differs when two turns propose at the same instant.  What the agent
  framework does with the results it is given, or with a history alone, is external
  (`Approved`, `RunTool`); a tool that raises is a failed execution.
* **Robots** take a goal only when free, answer, report and end it.  Their report
  counter never starts again, also after a reboot, as the protocol requires of a
  client.  A robot that reboots comes back without its run.

### Bounds and deadlock

A run id is used once, so `Runs` bounds the dispatches; `MaxHeader` bounds the
progress reports of a robot (a report that ends a run is not counted, so a run
always can end).  When all run ids are used and all runs have ended, the model has
nothing left to do, hence `CHECK_DEADLOCK FALSE`; that a run does not hang is
what `CancelEndsRun` says.  `MissionPlans` stops in the same way when its requests are
used up.  `FleetStatus` never stops, since its sweep goes on, and its run checks for
deadlock; `Bounds` limits the transactions and, together, the battery frames,
subscriptions and failures of a recompute or of what follows a commit.


## 3. The runs

| run | instance | faults | what it shows |
|---|---|---|---|
| `dispatch_race` | 2 missions, 2 robots, 2 runs, cancels | none | `OneRunPerRobot`, `ConcurrencyIsConsented`; `ReservesRobots`, the refinement of `RobotReservation` |
| `run_frames` | 1 run, two plan stages and a cleanup stage, 3 kinds of report, 2 progress reports and an outcome; cancel, pause, resume, delete | frames lost and reordered, calls and dispatches lost, dispatches late, refusals, handlers that fail | `TypeOK`, `CalledRunStandsStill`, `EndedRunIsNotDriven`, `SucceededRunIsClean`, `AcknowledgedCancelStops`, `UnansweredRunIsMarked`; `StageHeadersNeverFall`, `MovesAreAllowedAndLogged`, `AcceptedRunHasDispatchTime` |
| `reconnect` | 1 run, a plan stage and a cleanup stage, a client that may make its claim or not; cancels and closes while it is offline; with fairness | robot offline, reboot, restart of the backend, handlers that fail | `EndedRunHasEndedStages`, `EndedRunIsFinal`; liveness: `UnheldRunIsSettled` |
| `cancel_ends` | 1 run, cancel, pause, resume, with fairness | frames reordered | `CancelEndsRun` |
| `approvals` | 2 proposals, 3 turns, 2 ids, 2 actions, 8 histories | turns race, resend, replay and die; outcomes unrecorded | `RunsAsApproved`, `OutcomeIsItsOwn`, `StrandedProposalsStay`; `DecidedAndDoneOnce`, the refinement of `ApprovalGate` |
| `fleet_status` | 1 robot, 1 client, 2 transactions, 1 battery frame, subscription or failure; queues of one entry; with fairness | rollbacks, events out of order and dropped, failing recomputes and connectivity handlers, clients that leave | `TypeOK`, `StaleOnlyWhileOwed`, `ClientsAreUpToDate`; liveness: `StatusSettles`, `ClientsCatchUp` |
| `mission_plans` | 1 mission, 2 stages, 2 runs, 1 robot, 1 field with 2 boundaries, 2 widths, 1 site; 2 requests, 1 field edit | requests interleave at every await; refusals, planner errors, aborts | `TypeOK`, `PathsAreOfTheirBoundary`, `PlansAreAsAsked`, `RunsHaveTheirMission`, `RunsFitTheirRobot`, `SitesAreKept`, `RunIsTheDefinition`, `HandedPathsWereCurrent`, `ArchivedStands` |
| `deferred_cancel`, `closed_run`, `cancel_in_dispatch`, `report_order` | 1 run | as needed | statements of the source that do not hold, section 5 |
| `telemetry` | 1 robot, 1 client, 2 transactions, nothing that fails | handlers that overlap | a statement of the source that does not hold, section 5 |

Why these bounds are enough.  The rules that relate runs to each other
(robot index, mission lock) are about pairs, so two runs, two missions and two
robots meet every combination; everything else happens to one run and one robot,
whose histories the other runs explore.  Two progress reports and the outcome let one
overtake another on either side of a request, overwrite a stage row by an older report
and send an outcome over both.  A return is judged by its own claim and its own reports,
so one run and one report before it are enough for `reconnect`; `UnheldRunIsSettled` also
holds in a larger instance, with the calls of a connected robot (1.1 million states),
which takes too long for a run.  `CalledRunStandsStill` is checked where a call
races frames, answers and rollbacks; that a reconciliation keeps to the row lock as well is
proved (section 4).  Every rule of the approvals relates
two proposals that may share an id or an action, or two turns that settle one
proposal; the third turn is the one that proposed them, and may die first.  A queue
of one entry overflows with the second event, and two transactions publish in either
order; a third would repeat one of the two.  The rules of the mission plans relate two
requests on one mission, or one request and an edit of its field; two stages are
enough for a parent with a cleanup stage and for one stage kept beside one re-planned.  All values a run can take are
present: each configuration's faults are those its question is about, and
together the runs take every action and every disjunct.

**Fairness** (`cancel_ends`).  The event loop runs every coroutine that can run, so
`Settle`, the end of a control call and the handling of a frame are weakly fair;
a connected robot answers what reaches it and ends a run it was told to cancel,
which is the client's part of the protocol.  Nothing is assumed of the operator,
of the robot's progress or of new dispatches.  `CancelEndsRun` is checked without
lost dispatches: after a lost one, a run with a cancel stays CANCELLING until the
operator cancels again or the robot reconnects, and the code leaves it there on
purpose (`run_service.py`, `settle`).

**Fairness** (`reconnect`).  `UnheldRunIsSettled` needs the steps of a reconciliation that has a reply
to its metadata query: `RecordOnline`, the judging of each run, whose cancel returns
after five seconds at the latest, and the write, which waits for the row lock while a
control call holds it.  A call ends, since it is answered or times out, and another may
take the lock after it; the database grants a lock in the order it was asked for, hence strong
fairness of `CloseUnclaimed`.  Nothing is assumed of the robot, of frames or of the operator,
and a robot may leave again at any moment: the sweep runs whether or not it is there.

`UnheldRunIsSettled` says how a run that was orphaned, by the death of the process after
its commit, a rolled-back `settle`, a reboot or a cancel that waited for the return, comes to its
end: once a reply that does not name the run is there, or one without a claim while the
run is neither held, nor on its way, nor reported by a frame still to be handled, the run
ends.  Three exceptions are the code's: the run moves while its cancel is awaited and the compare-and-set
spares it (`MovedUnder`), the reconciliation fails, or the process restarts and
fetches again.  A run that is still PENDING may be within its ten seconds and is left out: of the
runs whose process died in the dispatch, the property speaks once a frame or a cancel has
moved them on.

**Fairness** (`fleet_status`).  Coroutines that can go on do, each of them weakly fair: an
open transaction commits or rolls back, its callbacks run, what is scheduled is
delivered, the drain tasks, the sweep (whose sleep ends) and the pump of each client
proceed.  Nothing makes a use case begin, a client subscribe or a recompute fail.
`StatusSettles` and `ClientsCatchUp` are conditional on the facts, or the latched status,
no longer changing.


## 4. The proofs

`RunControlProofs` proves, for any number of runs, missions, robots, stages and
reports, with the assumption `RunControlAssumption` on the constants only:

| theorem | says |
|---|---|
| `TypeCorrect` | `Spec => []TypeOK` |
| `RobotHasOneRun` | `Spec => []OneRunPerRobot` |
| `MissionsAreShared` | `Spec => []ConcurrencyIsConsented` |
| `CalledRunsStandStill` | `Spec => []CalledRunStandsStill` |
| `EndedRunsAreFinal` | `Spec => EndedRunIsFinal` |
| `EndedRunsAreClosed` | `Spec => []EndedRunHasEndedStages` |
| `RobotsAreReserved` | `Spec => ReservesRobots`: run control implements `RobotReservation` |

The argument is one inductive invariant, `IInv`:

* `TypeOK`;
* `RowsAreWhole`: a run with a row has its mission and its robot.  Needed because
  the index and the cancels speak of `robot[r]`, which is `None` without a row;
* `StartsAreAbsent`: what `prepare` is about to insert is not there yet, so an
  insert never overwrites a row;
* `StartsAreAlone`: the mission's lock admits one dispatch to its insert at a time;
* `StartsHaveConsent`: while a dispatch without consent is between its check and
  its insert, its mission has no active run.  This carries the check of `prepare`
  to the insert, and the mission's lock is what makes it inductive;
* `CallsAreLive`: a control call in flight finds its run live and in the status it
  read.  This is where the row lock enters: each action that writes a row asks
  `RunUnlocked` first;
* `ClosingsAreLive`: the compare-and-set of the reconciliation expects a live
  status, so it can never move an ended run;
* `OneRunPerRobot` and `ConcurrencyIsConsented`, which are inductive with these;
* `EndedRunHasEndedStages`: each action that ends a run closes its stages.

The lemma `RowSteps` says what any step other than an insert does to a row: it
leaves it, moves a live and unlocked run, or deletes an ended one, and moves no
two runs at once.  Most of the preservation proofs and `EndedRunsAreFinal` need
nothing else of the actions.  The refinement follows from it as well: by
`OneRunPerRobot` a robot's active run is the only one, so an insert maps to
`Reserve` (`InsertReserves`), the step that ends a run to `Release`, and all others
to a stutter (`OthersRelease`).
`RunLifecycleProofs` shows that the transition table is typed and functional;
`StageRecordsProofs` what upsert, overlay and projection return for every set of
stages.

`ToolApprovalsProofs` proves every property of `ToolApprovals` for any number of
calls and turns and any histories, with `ToolApprovalsAssumption` only:

| theorem | says |
|---|---|
| `TypeCorrect` | `Spec => []TypeOK` |
| `WorkIsApproved` | `Spec => []RunsAsApproved` |
| `OutcomesAreTheirOwn` | `Spec => []OutcomeIsItsOwn` |
| `StrandedStay` | `Spec => StrandedProposalsStay` |
| `ApprovalsAreAGate` | `Spec => DecidedAndDoneOnce`: the turns implement `ApprovalGate` |

Its `IInv` follows a decision through a turn: the request is coherent
(`RequestsAreCoherent`), what was found fits the decision and has no newer twin that
was decided earlier (`FindingsFit`), what was settled stands as it was decided
(`SettlementsFit`).  Two conjuncts carry the *once*: `SettledOnce`, two turns never
hold one proposal as settled, which the compare-and-set gives since a settled row
awaits nothing; and `ExecutionsAreOwned`, what was carried out under a proposal a
turn holds was carried out by that turn, so that a second turn cannot repeat it.
The two together with the agent's rule that an id runs once in a turn make `RunTool`
the gate's `CarryOut`.  Coherence is what `reject_repeated_tool_call_ids` is for: it
makes the part that runs the part that was settled (`ApprovedIsSettled`).

`RunRecordsProofs` proves, on top of `RunControlProofs!IInv`, that what rows record is true of
the robots:

| theorem | says |
|---|---|
| `EndedRunsAreNotDriven` | `Spec => []EndedRunIsNotDriven` |
| `SucceededRunsAreClean` | `Spec => []SucceededRunIsClean` |
| `MovesAreLogged` | `Spec => MovesAreAllowedAndLogged` |
| `AcceptedRunsAreDated` | `Spec => AcceptedRunHasDispatchTime` |
| `StageHeadersRise` | `Spec => StageHeadersNeverFall` |

`RowWriters` says which actions write a run's row, and `RunsAreWritten` what a write is: the
run stands, is created, is dropped, moves along the table, or makes the two moves of
a cancel at once.  `EndedRunIsNotDriven` needs a second invariant, `DInv`, about the way from a
dispatch to its end: a run without a row is nowhere (`UnbornAreGone`), a dispatch is on
the wire once or has become one robot's run (`DispatchedOnce`), and a robot's word, an
outcome or a refusal, is only ever spoken of a run that is gone (`OutcomesAreTrue`,
`RefusalsAreTrue`); a run that is gone stays so (`GoneStays`).  `StageHeadersNeverFall` needs
a third, `HInv`: the frame of an outcome is the newest of its run, which is why the
overlay that ignores versions never takes a row back.

`RunProgressProofs` proves, on top of both, what the row of a run in trouble says:

| theorem | says |
|---|---|
| `AcknowledgedCancelsStop` | `Spec => []AcknowledgedCancelStops` |
| `UnansweredRunsAreMarked` | `Spec => []UnansweredRunIsMarked` |

`AcknowledgedCancelsStop` follows from `AckedAreStopping`, which adds the calls in flight: once the
robot has answered a cancel, no dispatch of the run is on the wire (`DispatchedOnce`) and
whoever executes it is in STOPPING, which only the end of the run leaves.
`UnansweredRunsAreMarked` is inductive with `IInv`, since only `settle` of a timeout makes
a dispatch *unanswered*, only of a row that is PENDING under its lock does it write the
warning, and nothing that leaves a run PENDING takes the warning away.

`FleetStatusProofs` proves the invariants of `FleetStatus` for any robots, clients,
transactions, bounds and queue size, with `BusAssumption` and `FleetAssumption`:

| theorem | says |
|---|---|
| `TypeCorrect` | `Spec => []TypeOK` |
| `StaleIsOwed` | `Spec => []StaleOnlyWhileOwed` |
| `ClientsFollow` | `Spec => []ClientsAreUpToDate` |

`StaleOnlyWhileOwed` becomes inductive with what a recompute has read so far: either it is
still true of the robot, or another recompute is owed.  A commit changes the facts and
leaves its callbacks, which owe one; a callback that is run hands the debt to a queue, a
queue to a task, and what a full queue loses is in `missed`, which the next recompute of
the robot pays.  `ClientsAreUpToDate` follows from one fact about a queue: an event
of a topic that is appended, or that evicts the oldest, is its last one.

`MissionPlansProofs` proves the properties of `MissionPlans` for any missions, stages, runs,
robots, fields, sites, factsheets, inputs and requests, with `MissionPlansAssumption`:

| theorem | says |
|---|---|
| `TypeCorrect` | `Spec => []TypeOK` |
| `PathsAreSound` | `Spec => []PathsAreOfTheirBoundary` |
| `PlansAnswer` | `Spec => []PlansAreAsAsked` |
| `RunsKeepTheirMission` | `Spec => []RunsHaveTheirMission` |
| `RunsFit` | `Spec => []RunsFitTheirRobot` |
| `SitesStay` | `Spec => []SitesAreKept` |
| `CopiesAreWhole` | `Spec => RunIsTheDefinition` |
| `HandedWereCurrent` | `Spec => HandedPathsWereCurrent` |
| `ArchiveStands` | `Spec => ArchivedStands` |

Its `IInv` follows a request: `Asking`, what it has planned answers its inputs and what is
still to plan covers the rest; `Locking`, what it read under the lock is what is stored
while it holds it; `Creating`, nobody else knows a mission that is being created.  For a
request that keeps a stage it compared without the lock, `Asking` holds only once
`TodoUnderLock` has compared again, which is what `_replan_changed_meanwhile` is for.

Only model-checked: the liveness properties `CancelEndsRun`, `UnheldRunIsSettled`,
`StatusSettles` and `ClientsCatchUp`, out of this prover's reach.


## 5. Where the source says something else

Each is a run that TLC finds violated, and a finding of `PROJECT.json` with the line
it quotes.

1. `deferred_cancel`.  A cancel of an offline robot's run is left to the reconnect
   reconciliation, which skips the run the robot claims before it would cancel it.  With
   the dispatch settled and the robot online again, the robot executes the run and
   nothing is left that sends the cancel.
2. `closed_run`.  A closed run is cancelled on the robot's return only when it is
   the claim that was read before the reconciliation; a dispatch taken after that,
   a closed run that was then deleted, and a client without a claim are missed.
3. `cancel_in_dispatch`.  A second cancel during one dispatch finds CANCELLING instead
   of PENDING and takes the robot's *not executing* for the end of the run; the goal
   then lands, and `settle` sends no cancel for an ended run.
4. `report_order`.  A frame that was overtaken overwrites the run's last report with
   a lower counter.
5. `telemetry`.  `record_offline` commits, awaits the run views, and then takes out the robot's
   telemetry adapter, whoever attached it.  A `record_online` that completes in between
   leaves the robot online without telemetry until it leaves and returns.

Differences met while modelling that are no run, either because no property that
is checked states them or because the models leave their detail out:

* `infrastructure/factory.py:391`: when the transaction of `handle_robot_offline` fails, the detach
  behind it is skipped, and an adapter of a robot that is offline stays until its next
  departure (`LeaveScopeFails`).
* `application/mission_state_service.py:76`, "True when a report could not yet reflect the
  operator's pending pause or resume": the report is compared with the last one
  *recorded* when the request was.  One that left before the robot received the request
  and is recorded after it can still confirm it.  It does so early rather than wrongly: a request is
  recorded once the robot has applied it.
* `application/coverage_planning_service.py:98`: "only this field's own generated stage may be
  re-planned; another field's plan or a hand-written stage is refused" is checked
  before planning; `replace_generated_stage` does not check it again under the lock.
* `application/mission_management_service.py:203`, "leaving the mission's other stages alone":
  the replacement carries no `on_cancel`, so the cleanup stages of the re-planned stage go.
* `domain/model/mission/robot_fit.py:32` looks for undeclared kinds in the mission's stages and not
  in their cleanup stages.
* `application/mission_state_service.py:191`, "must not regress the latched view": publications of
  two transactions on one run are not ordered by its row lock, so the latched run state
  can go back to an older view.
* `infrastructure/event_bus.py:97`: a latched event evicts the oldest entry whatever its topic,
  so a subscriber of several topics can lose a discrete event it had not been told.
  `ClientsAreUpToDate` is about subscribers of one status.
* `application/run_reconciliation.py:85`: a run that moves while its cancel is awaited (the operator
  cancels it, or a late frame reports it) is skipped and stays live until the robot's next return,
  although the reconciliation is to close every live run but the claimed one
  (`MovedUnder`, an exception of `UnheldRunIsSettled`).
* `infrastructure/factory.py:335`: a reconciliation that fails is logged and not tried again; the
  runs it had to judge wait for the robot's next return (`ReconnectFails`).
* `allow_concurrent` is a parameter of the dispatch use case that no route sets.


## 6. Plan

Done: run control with its lifecycle and stages, its abstract specification and
theorems, and what a reconciliation settles; the approvals with theirs; the event bus with the projector, telemetry and
WebSocket clients; mission definitions, coverage plans and their runs.  What is left, in
order of importance:

1. **Connectivity**: two PUT samples of a robot, or a PUT and a DELETE, that overtake each
   other before their transactions, the cancelled sweep; what the `online` flag then
   promises.
2. **Run views**: the latched run state with its payload and version, `unlatch`, and the
   order of publications of one run (section 5); an abstract register per topic.
3. **Replays of an answer** to a proposal that was made again: an identity for answers.
4. Run control and mission plans composed, so that consent to concurrent runs and the
   archive meet in one model.

### Not modelled

HTTP translation, settings, authentication, the LLM and MCP adapters: configuration and
translation without state that a property is about.  The coverage geometry, which the
planner computes.  Persistence of telemetry, listings, the audit log, notes of a run, names.
Progress, results and error attribution of stages.
