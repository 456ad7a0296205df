----------------------------- MODULE RunControl -----------------------------
(***************************************************************************)
(* Run control: the mission-run rows of the database, the use cases that   *)
(* move them (dispatch, settle, cancel, pause, resume, close, delete, the  *)
(* robots' state frames, the reconciliation of a reconnecting robot), and  *)
(* the robots and the network they talk to.                                *)
(*                                                                         *)
(* One use case is one database transaction.  A transaction that asks a    *)
(* robot something while it holds a row lock is two actions, Begin and     *)
(* End; its writes appear at End, where it commits, and the lock is what   *)
(* the variables call, starting and reconnect hold in between.  Every      *)
(* other transaction is one action.  State frames are handled by one       *)
(* coroutine each, so the undelivered frames are a set.                    *)
(*                                                                         *)
(* The robots (holds, mode, header), the wire (queries, stops, frames) and *)
(* the liveliness tokens (alive) are external: they do what the code under *)
(* leitstand_backend/ expects of them, and what it defends against.        *)
(***************************************************************************)
EXTENDS Naturals, FiniteSets, RunLifecycle, StageRecords

CONSTANTS
    Runs,          \* the run ids that may be created, each at most once
    Missions,
    Robots,
    Stages,        \* the stages of a run, its plan and the plan's cleanup stages
    Cleanup,       \* the cleanup stages among them
    StageReports,  \* what a frame may say of the stages: partial functions
    Claiming,      \* the robots whose client may answer which run it holds
    Requests,      \* bound: the requests the operator makes of the runs
    Faults,        \* which of the faults below the environment may commit
    MaxHeader,     \* bound: a robot sends this many progress reports at most
    None           \* no run, no robot, no mission

AllRequests ==
    {"cancel", "pause", "resume",  \* the robot is shown online
     "cancel_offline", "close",    \* it is shown offline
     "delete"}

AllFaults ==
    {"lost_frame",      \* a state frame is dropped
     "reordered_frame", \* a frame overtakes an older one of the same robot
     "lost_call",       \* a control call or its answer is lost
     "lost_dispatch",   \* a dispatch or its answer is lost
     "late_dispatch",   \* a dispatch reaches the robot after its timeout
     "refusal",         \* a robot refuses what it is asked
     "offline",         \* a robot loses its liveliness token and gets it back
     "reboot",          \* a robot comes back without the run it held
     "old_client",      \* a client that may answer the claim leaves it out
     "failed_handler",  \* a database error, or a query that cannot be sent
     "restart"}         \* the backend process dies and starts again

ASSUME RunControlAssumption ==
    /\ None \notin Runs \cup Missions \cup Robots
    /\ "unsaid" \notin Runs \cup {None}
    /\ Cleanup \subseteq Stages
    /\ \A report \in StageReports :
          /\ DOMAIN report \subseteq Stages
          /\ \A s \in DOMAIN report : report[s] \in StageStatuses
    /\ Claiming \subseteq Robots
    /\ Requests \subseteq AllRequests
    /\ Faults \subseteq AllFaults
    /\ MaxHeader \in Nat

VARIABLES
    \* the database
    status,      \* run -> its status, "absent" before and "deleted" after the row
    mission,     \* run -> its mission
    robot,       \* run -> its robot
    consent,     \* run -> it was started with allow_concurrent
    report,      \* run -> header of its last report, 0 when there is none
    dispatched,  \* run -> it has a dispatch time
    failure,     \* run -> the kinds of error on its row
    last,        \* run -> the latest row of its transition log
    stageRows,   \* run -> stage -> the stage's row
    online,      \* robot -> the fleet shows it online
    \* the transactions and calls in progress in the backend process
    starting,    \* run -> what the dispatch about to insert it asks for
    start,       \* run -> where the dispatch that created it stands
    call,        \* run -> the control call that holds its row lock
    reconnect,   \* robot -> where its record_online and reconciliation stand
    departed,    \* robots whose liveliness DELETE has not been handled yet
    \* the robots and the wire
    alive,       \* robots whose liveliness token is present
    holds,       \* robot -> the run it executes
    mode,        \* robot -> how it executes it
    header,      \* robot -> header of its latest report
    frames,      \* undelivered state frames
    queries,     \* dispatches on their way: <<robot, run>>
    stops        \* cancels on their way whose answer nobody uses: <<robot, run>>

rowVars == <<status, mission, robot, consent, report, dispatched, failure, last, stageRows>>
taskVars == <<starting, start, call, reconnect, departed>>
robotVars == <<alive, holds, mode, header>>
wireVars == <<frames, queries, stops>>
vars == <<rowVars, online, taskVars, robotVars, wireVars>>

-----------------------------------------------------------------------------
(* Types and empty records                                                 *)

Plan == Stages \ Cleanup

Acks == {"unset", "yes", "no", "deferred"}
Transition == [trigger : Triggers, header : Nat, ack : Acks]
NoTransition == [trigger |-> "none", header |-> 0, ack |-> "unset"]

Start == [mission : Missions, robot : Robots, consent : BOOLEAN]
NoStart == [mission |-> None, robot |-> None, consent |-> FALSE]
StartPhases ==
    {"idle", "asking", "ACCEPTED", "REJECTED", "TIMEOUT", "over", "unanswered", "lost"}
SettledPhases == {"over", "unanswered"}

CallOps == {"cancel", "pause", "resume"}
Answers == {"awaited", "applied", "not_held", "refused", "silence"}
Call == [op : CallOps, seen : Statuses, answer : Answers]
NoCall == [op |-> "none", seen |-> "absent", answer |-> "silence"]

\* A claim is the run a robot says it holds, None, or "unsaid".
Claims == Runs \cup {None, "unsaid"}
ReconnectPhases == {"idle", "fetching", "fetched", "judging", "closing", "failed"}
Reconnect ==
    [phase : ReconnectPhases, claim : Claims, known : SUBSET Runs,
     heard : SUBSET Runs, run : Runs \cup {None}, seen : Statuses \cup {"absent"}]
NoReconnect ==
    [phase |-> "idle", claim |-> None, known |-> {}, heard |-> {},
     run |-> None, seen |-> "absent"]
\* The last return was not handled to its end.
FailedReconnect == [NoReconnect EXCEPT !.phase = "failed"]

Frame == [robot : Robots, run : Runs, header : Nat, exec : ExecStatuses,
          stages : StageReports]

Errors == {"dispatch", "robot", "reconcile"}

RowsOK ==
    /\ status \in [Runs -> Statuses \cup {"absent", "deleted"}]
    /\ mission \in [Runs -> Missions \cup {None}]
    /\ robot \in [Runs -> Robots \cup {None}]
    /\ consent \in [Runs -> BOOLEAN]
    /\ report \in [Runs -> Nat]
    /\ dispatched \in [Runs -> BOOLEAN]
    /\ failure \in [Runs -> SUBSET Errors]
    /\ last \in [Runs -> Transition \cup {NoTransition}]
    /\ stageRows \in [Runs -> [Stages -> StageRow]]
    /\ online \in [Robots -> BOOLEAN]

TasksOK ==
    /\ starting \in [Runs -> Start \cup {NoStart}]
    /\ start \in [Runs -> StartPhases]
    /\ call \in [Runs -> Call \cup {NoCall}]
    /\ reconnect \in [Robots -> Reconnect]
    /\ departed \in SUBSET Robots

RobotsOK ==
    /\ alive \in SUBSET Robots
    /\ holds \in [Robots -> Runs \cup {None}]
    /\ mode \in [Robots -> {"RUNNING", "PAUSED", "STOPPING"}]
    /\ header \in [Robots -> Nat]

WireOK ==
    /\ frames \in SUBSET Frame
    /\ queries \in SUBSET (Robots \X Runs)
    /\ stops \in SUBSET (Robots \X Runs)

TypeOK == RowsOK /\ TasksOK /\ RobotsOK /\ WireOK

\* The process has just started and every robot has come back without a run.
Init ==
    /\ status = [r \in Runs |-> "absent"]
    /\ mission = [r \in Runs |-> None]
    /\ robot = [r \in Runs |-> None]
    /\ consent = [r \in Runs |-> FALSE]
    /\ report = [r \in Runs |-> 0]
    /\ dispatched = [r \in Runs |-> FALSE]
    /\ failure = [r \in Runs |-> {}]
    /\ last = [r \in Runs |-> NoTransition]
    /\ stageRows = [r \in Runs |-> [s \in Stages |-> NoRow]]
    /\ online = [b \in Robots |-> TRUE]
    /\ starting = [r \in Runs |-> NoStart]
    /\ start = [r \in Runs |-> "idle"]
    /\ call = [r \in Runs |-> NoCall]
    /\ reconnect = [b \in Robots |-> NoReconnect]
    /\ departed = {}
    /\ alive = Robots
    /\ holds = [b \in Robots |-> None]
    /\ mode = [b \in Robots |-> "RUNNING"]
    /\ header = [b \in Robots |-> 0]
    /\ frames = {}
    /\ queries = {}
    /\ stops = {}

-----------------------------------------------------------------------------
(* Rows and locks                                                          *)

Active(r) == status[r] \in ActiveStatuses
Terminal(r) == status[r] \in TerminalStatuses

\* Slip: a row read without its lock.
SlipRunUnlocked(r) == r \in Runs

\* A control call holds its run's row lock and its mission's; a dispatch holds
\* its mission's until the run is inserted.
RunUnlocked(r) == call[r] = NoCall
MissionUnlocked(m) ==
    /\ \A r \in Runs : starting[r].mission # m
    /\ \A r \in Runs : mission[r] = m => RunUnlocked(r)

\* _offline: the flag of the fleet, not the token.
Offline(b) == ~online[b]

\* The reconnect transaction of a claiming robot has written its robot row.
RobotRowLocked(b) ==
    /\ reconnect[b].phase \in {"judging", "closing"}
    /\ reconnect[b].claim # "unsaid"

\* update_status when its WHERE clause holds: the row is in the expected,
\* non-terminal status.  The transition is logged with the write.
Move(r, trigger, to, hdr, ack) ==
    /\ status' = [status EXCEPT ![r] = to]
    /\ last' = [last EXCEPT ![r] = [trigger |-> trigger, header |-> hdr, ack |-> ack]]

\* settle_stage_state without an overlay, for a run ended by the backend.
CloseStages(r, to) ==
    stageRows' = [stageRows EXCEPT ![r] = Closed(@, Plan, to)]

-----------------------------------------------------------------------------
(* Dispatch: prepare, the query to the robot, settle                       *)

\* The two checks of prepare and the index behind the first of them: no active
\* run of the robot, none of the mission unless a concurrent one is allowed.
RobotFree(b) == ~ \E q \in Runs : Active(q) /\ robot[q] = b

\* Slips: an index and a check that leave PENDING runs out.
SlipRobotIndexFree(b) ==
    ~ \E q \in Runs : status[q] \in ExecutingStatuses /\ robot[q] = b
SlipMissionFree(m) ==
    ~ \E q \in Runs : status[q] \in ExecutingStatuses /\ mission[q] = m

RobotIndexFree(b) == RobotFree(b)
MissionFree(m) == ~ \E q \in Runs : Active(q) /\ mission[q] = m

\* prepare up to its insert, under the mission's lock; the robot's runs are read
\* without one.
BeginDispatch(m, r, b, allowConcurrent) ==
    /\ MissionUnlocked(m)
    /\ status[r] = "absent"
    /\ starting[r] = NoStart
    /\ RobotFree(b)
    /\ MissionFree(m) \/ allowConcurrent
    /\ ~Offline(b)
    /\ starting' = [starting EXCEPT ![r] =
                       [mission |-> m, robot |-> b, consent |-> allowConcurrent]]
    /\ UNCHANGED <<rowVars, online, start, call, reconnect, departed, robotVars, wireVars>>

\* The insert passes the partial unique index on the robot of an active run: the
\* run is PENDING, the transaction commits and the dispatch is sent.
InsertRun(r) ==
    LET b == starting[r].robot
    IN  /\ starting[r] # NoStart
        /\ RobotIndexFree(b)
        /\ status' = [status EXCEPT ![r] = "PENDING"]
        /\ mission' = [mission EXCEPT ![r] = starting[r].mission]
        /\ robot' = [robot EXCEPT ![r] = b]
        /\ consent' = [consent EXCEPT ![r] = starting[r].consent]
        /\ starting' = [starting EXCEPT ![r] = NoStart]
        /\ start' = [start EXCEPT ![r] = "asking"]
        /\ queries' = queries \cup {<<b, r>>}
        /\ UNCHANGED <<report, dispatched, failure, last, stageRows, online, call, reconnect,
                       departed, robotVars, frames, stops>>

\* The index refuses: RobotBusy, the transaction rolls back.
InsertRefused(r) ==
    /\ starting[r] # NoStart
    /\ ~RobotIndexFree(starting[r].robot)
    /\ starting' = [starting EXCEPT ![r] = NoStart]
    /\ UNCHANGED <<rowVars, online, start, call, reconnect, departed, robotVars, wireVars>>

\* prepare raises: the transaction rolls back before the commit.
PrepareFails(r) ==
    /\ "failed_handler" \in Faults
    /\ starting[r] # NoStart
    /\ starting' = [starting EXCEPT ![r] = NoStart]
    /\ UNCHANGED <<rowVars, online, start, call, reconnect, departed, robotVars, wireVars>>

\* The dispatch call ends without the robot's answer: it timed out, or could
\* not be sent.  The query may still be on its way, and the robot may have
\* taken the goal already.
DispatchUnanswered(r) ==
    /\ start[r] \in {"asking", "ACCEPTED", "REJECTED"}
    /\ "lost_dispatch" \in Faults \/ robot[r] \notin alive
    /\ start' = [start EXCEPT ![r] = "TIMEOUT"]
    /\ \/ queries' = {q \in queries : q[2] # r}
       \/ "late_dispatch" \in Faults /\ queries' = queries
    /\ UNCHANGED <<rowVars, online, starting, call, reconnect, departed, robotVars, frames,
                   stops>>

\* settle, by the run's status when its row lock is granted.
SettleMissing(r) ==
    /\ status[r] = "deleted"
    /\ UNCHANGED <<rowVars, stops>>

\* Slip: the expected status is not in the WHERE clause.
SlipSettleAccepted(r) ==
    /\ start[r] = "ACCEPTED"
    /\ status[r] # "deleted"
    /\ Move(r, "ACCEPT", "DISPATCHED", 0, "unset")
    /\ dispatched' = [dispatched EXCEPT ![r] = TRUE]
    /\ UNCHANGED <<mission, robot, consent, report, failure, stageRows, stops>>

SettleAccepted(r) ==
    /\ start[r] = "ACCEPTED"
    /\ status[r] = "PENDING"
    /\ Move(r, "ACCEPT", "DISPATCHED", 0, "unset")
    /\ dispatched' = [dispatched EXCEPT ![r] = TRUE]
    /\ UNCHANGED <<mission, robot, consent, report, failure, stageRows, stops>>

\* Slip: the warning is left out.
SlipSettleUnconfirmed(r) ==
    /\ start[r] = "TIMEOUT"
    /\ status[r] = "PENDING"
    /\ Move(r, "DISPATCH_UNCONFIRMED", "PENDING", 0, "unset")
    /\ UNCHANGED <<mission, robot, consent, report, dispatched, failure, stageRows, stops>>

\* No answer is not a refusal: the run stays PENDING, with a warning.
SettleUnconfirmed(r) ==
    /\ start[r] = "TIMEOUT"
    /\ status[r] = "PENDING"
    /\ Move(r, "DISPATCH_UNCONFIRMED", "PENDING", 0, "unset")
    /\ failure' = [failure EXCEPT ![r] = {"dispatch"}]
    /\ UNCHANGED <<mission, robot, consent, report, dispatched, stageRows, stops>>

\* Slips: the dispatch time, or the second cancel, is forgotten.
SlipSettleOvertakenUndated(r) ==
    /\ start[r] \in {"ACCEPTED", "TIMEOUT"}
    /\ status[r] \notin {"PENDING", "deleted"}
    /\ stops' = IF status[r] = "CANCELLING" THEN stops \cup {<<robot[r], r>>} ELSE stops
    /\ UNCHANGED rowVars

SlipSettleOvertakenUncancelled(r) ==
    /\ start[r] \in {"ACCEPTED", "TIMEOUT"}
    /\ status[r] \notin {"PENDING", "deleted"}
    /\ dispatched' = [dispatched EXCEPT ![r] = TRUE]
    /\ UNCHANGED <<status, mission, robot, consent, report, failure, last, stageRows, stops>>

\* A frame or a cancel moved the run while the answer was in flight: only the
\* dispatch time is recorded, and a run being cancelled is cancelled again.
SettleOvertaken(r) ==
    /\ start[r] \in {"ACCEPTED", "TIMEOUT"}
    /\ status[r] \notin {"PENDING", "deleted"}
    /\ dispatched' = [dispatched EXCEPT ![r] = TRUE]
    /\ stops' = IF status[r] = "CANCELLING" THEN stops \cup {<<robot[r], r>>} ELSE stops
    /\ UNCHANGED <<status, mission, robot, consent, report, failure, last, stageRows>>

\* Slips: silence taken for a refusal, and one target for both statuses.
SlipSettleSilenceRejects(r) ==
    /\ start[r] \in {"REJECTED", "TIMEOUT"}
    /\ status[r] = "PENDING"
    /\ Move(r, "REJECT", "REJECTED", 0, "unset")
    /\ CloseStages(r, "REJECTED")
    /\ failure' = [failure EXCEPT ![r] = {"dispatch"}]
    /\ UNCHANGED <<mission, robot, consent, report, dispatched, stops>>

SlipSettleOneTarget(r) ==
    /\ start[r] = "REJECTED"
    /\ status[r] \in {"PENDING", "CANCELLING"}
    /\ Move(r, "REJECT", "REJECTED", 0, "unset")
    /\ CloseStages(r, "REJECTED")
    /\ failure' = [failure EXCEPT ![r] = {"dispatch"}]
    /\ UNCHANGED <<mission, robot, consent, report, dispatched, stops>>

SettleRejected(r) ==
    /\ start[r] = "REJECTED"
    /\ status[r] \in {"PENDING", "CANCELLING"}
    /\ LET to == IF status[r] = "CANCELLING" THEN "CANCELLED" ELSE "REJECTED"
       IN  /\ Move(r, "REJECT", to, 0, "unset")
           /\ CloseStages(r, to)
    /\ failure' = [failure EXCEPT ![r] = {"dispatch"}]
    /\ UNCHANGED <<mission, robot, consent, report, dispatched, stops>>

SettleStands(r) ==
    /\ start[r] = "REJECTED"
    /\ status[r] \notin {"PENDING", "CANCELLING", "deleted"}
    /\ UNCHANGED <<rowVars, stops>>

Settle(r) ==
    /\ start[r] \in {"ACCEPTED", "REJECTED", "TIMEOUT"}
    /\ RunUnlocked(r)
    /\ start' = [start EXCEPT ![r] = IF @ = "TIMEOUT" THEN "unanswered" ELSE "over"]
    /\ \/ SettleMissing(r)
       \/ SettleAccepted(r)
       \/ SettleUnconfirmed(r)
       \/ SettleOvertaken(r)
       \/ SettleRejected(r)
       \/ SettleStands(r)
    /\ UNCHANGED <<online, starting, call, reconnect, departed, robotVars, frames, queries>>

\* settle raises: it rolls back and nobody settles the answer again.
SettleFails(r) ==
    /\ "failed_handler" \in Faults
    /\ start[r] \in {"ACCEPTED", "REJECTED", "TIMEOUT"}
    /\ start' = [start EXCEPT ![r] = "lost"]
    /\ UNCHANGED <<rowVars, online, starting, call, reconnect, departed, robotVars, wireVars>>

-----------------------------------------------------------------------------
(* Control: cancel, pause, resume, close, delete                           *)

\* _target: the run is active and both locks are granted.
Targets(r) ==
    /\ Active(r)
    /\ RunUnlocked(r)
    /\ MissionUnlocked(mission[r])

\* cancel of a run whose robot is offline: the request is recorded and the
\* cancel itself is left to the reconnect reconciliation.
CancelDeferred(r) ==
    /\ "cancel_offline" \in Requests
    /\ Targets(r)
    /\ Offline(robot[r])
    /\ Move(r, "CANCEL_REQUEST", "CANCELLING", report[r], "deferred")
    /\ UNCHANGED <<mission, robot, consent, report, dispatched, failure, stageRows, online,
                   taskVars, robotVars, wireVars>>

\* The request the operation writes for a run in its present status.
RequestOf(op) ==
    CASE op = "cancel" -> "CANCEL_REQUEST"
      [] op = "pause"  -> "PAUSE_REQUEST"
      [] op = "resume" -> "RESUME_REQUEST"

\* cancel, and pause and resume (_steer): the robot is asked with the locks
\* held and nothing committed.
BeginCall(r, op) ==
    /\ op \in Requests
    /\ Targets(r)
    /\ Enables(status[r], RequestOf(op))
    /\ ~Offline(robot[r])
    /\ call' = [call EXCEPT ![r] = [op |-> op, seen |-> status[r], answer |-> "awaited"]]
    /\ UNCHANGED <<rowVars, online, starting, start, reconnect, departed, robotVars, wireVars>>

\* The call times out: it, or the robot's answer, was lost.
CallUnanswered(r) ==
    /\ "lost_call" \in Faults \/ robot[r] \notin alive
    /\ call[r].op # "none"
    /\ call[r].answer # "silence"
    /\ call' = [call EXCEPT ![r].answer = "silence"]
    /\ UNCHANGED <<rowVars, online, starting, start, reconnect, departed, robotVars, wireVars>>

\* Slip: a request that was sent counts as acknowledged.
SlipCancelRecorded(r) ==
    /\ call[r].answer = "not_held" => status[r] = "PENDING"
    /\ Move(r, "CANCEL_REQUEST", "CANCELLING", report[r], "yes")
    /\ UNCHANGED stageRows

\* A cancel that the robot took, did not answer, or refused while the dispatch
\* may still be on its way, commits CANCELLING.
CancelRecorded(r) ==
    /\ call[r].answer = "not_held" => status[r] = "PENDING"
    /\ Move(r, "CANCEL_REQUEST", "CANCELLING", report[r],
            IF call[r].answer = "applied" THEN "yes" ELSE "no")
    /\ UNCHANGED stageRows

\* A cancel answered "I do not hold this run" ends a run the robot had: the
\* request and the end commit together.
CancelSettled(r) ==
    /\ call[r].answer = "not_held"
    /\ status[r] # "PENDING"
    /\ Move(r, "RECONCILE", "CANCELLED", 0, "unset")
    /\ CloseStages(r, "CANCELLED")

EndCancel(r) ==
    /\ call[r].op = "cancel"
    /\ call[r].answer # "awaited"
    /\ CancelRecorded(r) \/ CancelSettled(r)
    /\ call' = [call EXCEPT ![r] = NoCall]
    /\ UNCHANGED <<mission, robot, consent, report, dispatched, failure, online, starting,
                   start, reconnect, departed, robotVars, wireVars>>

\* A pause or resume is recorded only when the robot took it; the request
\* remembers the robot's report counter.
SteerApplied(r, to) ==
    /\ call[r].answer = "applied"
    /\ Allowed(call[r].seen, RequestOf(call[r].op), to)
    /\ Move(r, RequestOf(call[r].op), to, report[r], "yes")

SteerDropped(r) ==
    /\ call[r].answer \in {"not_held", "refused", "silence"}
    /\ UNCHANGED <<status, last>>

EndSteer(r) ==
    /\ call[r].op \in {"pause", "resume"}
    /\ SteerDropped(r) \/ \E to \in Statuses : SteerApplied(r, to)
    /\ call' = [call EXCEPT ![r] = NoCall]
    /\ UNCHANGED <<mission, robot, consent, report, dispatched, failure, stageRows, online,
                   starting, start, reconnect, departed, robotVars, wireVars>>

\* The call cannot be sent or its transaction fails: whatever the robot was
\* told, nothing is written.
CallFails(r) ==
    /\ "failed_handler" \in Faults
    /\ call[r] # NoCall
    /\ call' = [call EXCEPT ![r] = NoCall]
    /\ UNCHANGED <<rowVars, online, starting, start, reconnect, departed, robotVars, wireVars>>

\* close: the operator ends the run of a robot the fleet shows offline.
CloseRun(r) ==
    /\ "close" \in Requests
    /\ Targets(r)
    /\ Offline(robot[r])
    /\ Move(r, "CLOSE", "CANCELLED", 0, "unset")
    /\ CloseStages(r, "CANCELLED")
    /\ UNCHANGED <<mission, robot, consent, report, dispatched, failure, online, taskVars,
                   robotVars, wireVars>>

\* delete: the row goes with its stage rows and its transition log.
DeleteRun(r) ==
    /\ "delete" \in Requests
    /\ Terminal(r)
    /\ RunUnlocked(r)
    /\ status' = [status EXCEPT ![r] = "deleted"]
    /\ mission' = [mission EXCEPT ![r] = None]
    /\ robot' = [robot EXCEPT ![r] = None]
    /\ consent' = [consent EXCEPT ![r] = FALSE]
    /\ report' = [report EXCEPT ![r] = 0]
    /\ dispatched' = [dispatched EXCEPT ![r] = FALSE]
    /\ failure' = [failure EXCEPT ![r] = {}]
    /\ last' = [last EXCEPT ![r] = NoTransition]
    /\ stageRows' = [stageRows EXCEPT ![r] = [s \in Stages |-> NoRow]]
    /\ UNCHANGED <<online, taskVars, robotVars, wireVars>>

-----------------------------------------------------------------------------
(* State frames: MissionStateService.record                                *)

\* A frame may be handled once it is there; without the reordering fault only
\* the oldest of its robot's.
Deliverable(f) ==
    "reordered_frame" \in Faults
        \/ \A g \in frames : g.robot = f.robot => f.header <= g.header

\* _predates_request: a report no newer than the last one recorded when the
\* pending pause or resume was written confirms nothing.
PredatesRequest(r, hdr, trigger) ==
    /\ status[r] \in {"PAUSING", "RESUMING"}
    /\ trigger \in {"PAUSE", "ACK"}
    /\ hdr <= last[r].header

Applies(f, trigger, to) ==
    /\ Allowed(status[f.run], trigger, to)
    /\ ~PredatesRequest(f.run, f.header, trigger)

\* A frame for a run that is gone, of another robot, or already ended leaves
\* no trace.
RecordDropped(f) ==
    /\ ~Active(f.run) \/ robot[f.run] # f.robot
    /\ UNCHANGED <<status, report, failure, last, stageRows, reconnect>>

\* A frame of a live run's robot is the run's last report.
Touch(f) ==
    /\ Active(f.run)
    /\ robot[f.run] = f.robot
    /\ report' = [report EXCEPT ![f.run] = f.header]
    /\ reconnect' = IF reconnect[f.robot].phase = "judging"
                    THEN [reconnect EXCEPT ![f.robot].heard = @ \cup {f.run}]
                    ELSE reconnect

\* Slip: the errors of a run that did not fail are kept.
SlipRecordOutcome(f, trigger, to) ==
    /\ Applies(f, trigger, to)
    /\ to \in TerminalStatuses
    /\ Move(f.run, trigger, to, f.header, "unset")
    /\ failure' = [failure EXCEPT ![f.run] = IF to = "FAILED" THEN @ \cup {"robot"} ELSE @]
    /\ stageRows' = [stageRows EXCEPT ![f.run] =
                        Closed(Overlay(@, f.header, f.stages), Plan, to)]

\* It moves the run to a terminal status: the frame overlays the stored stage
\* rows, which are then closed out.  Only a failure keeps earlier errors.
RecordOutcome(f, trigger, to) ==
    /\ Applies(f, trigger, to)
    /\ to \in TerminalStatuses
    /\ Move(f.run, trigger, to, f.header, "unset")
    /\ failure' = [failure EXCEPT ![f.run] =
                      IF to = "FAILED" THEN @ \cup {"robot"} ELSE {}]
    /\ stageRows' = [stageRows EXCEPT ![f.run] =
                        Closed(Overlay(@, f.header, f.stages), Plan, to)]

\* It moves the run to another live status; its stages are upserted.
RecordProgress(f, trigger, to) ==
    /\ Applies(f, trigger, to)
    /\ to \in ExecutingStatuses
    /\ Move(f.run, trigger, to, f.header, "unset")
    /\ failure' = [failure EXCEPT ![f.run] = {}]
    /\ stageRows' = [stageRows EXCEPT ![f.run] = Upsert(@, f.header, f.stages)]

\* It moves nothing; its stages are upserted while the run is executing.
RecordRepeat(f, trigger) ==
    /\ ~ \E to \in Statuses : Applies(f, trigger, to)
    /\ stageRows' = IF status[f.run] \in ExecutingStatuses
                    THEN [stageRows EXCEPT ![f.run] = Upsert(@, f.header, f.stages)]
                    ELSE stageRows
    /\ UNCHANGED <<status, failure, last>>

RecordLive(f) ==
    LET trigger == TriggerForReport(status[f.run], f.exec)
    IN  /\ Touch(f)
        /\ \/ \E to \in TerminalStatuses : RecordOutcome(f, trigger, to)
           \/ \E to \in ExecutingStatuses : RecordProgress(f, trigger, to)
           \/ RecordRepeat(f, trigger)

Record(f) ==
    /\ Deliverable(f)
    /\ RunUnlocked(f.run)
    /\ frames' = frames \ {f}
    /\ RecordDropped(f) \/ RecordLive(f)
    /\ UNCHANGED <<mission, robot, consent, dispatched, online, starting, start, call, departed,
                   robotVars, queries, stops>>

\* A frame is lost on the way, the strict parser rejects it, or its transaction
\* fails.
LoseFrame(f) ==
    /\ "lost_frame" \in Faults
    /\ frames' = frames \ {f}
    /\ UNCHANGED <<rowVars, online, taskVars, robotVars, queries, stops>>

-----------------------------------------------------------------------------
(* Connectivity: liveliness samples, record_online, reconciliation         *)

\* A DELETE sample: the robot is offline, unless the transaction fails; its runs
\* are left as they are.
RecordOffline(b) ==
    /\ b \in departed
    /\ ~RobotRowLocked(b)
    /\ departed' = departed \ {b}
    /\ \/ online' = [online EXCEPT ![b] = FALSE]
       \/ "failed_handler" \in Faults /\ UNCHANGED online
    /\ UNCHANGED <<rowVars, starting, start, call, reconnect, robotVars, wireVars>>

\* What a reply to the metadata query says of the run the robot holds.
ClaimsOf(b) ==
    {claim \in {holds[b], "unsaid"} :
        IF claim = "unsaid" THEN b \notin Claiming \/ "old_client" \in Faults
                            ELSE b \in Claiming}

\* A PUT sample: the metadata query is answered, with a claim or without, or it
\* is not and the robot stays as it was.
FetchClaim(b) ==
    /\ reconnect[b].phase = "fetching"
    /\ b \in alive
    /\ \E claim \in ClaimsOf(b) :
          reconnect' = [reconnect EXCEPT ![b].phase = "fetched", ![b].claim = claim]
    /\ UNCHANGED <<rowVars, online, starting, start, call, departed, robotVars, wireVars>>

FetchFails(b) ==
    /\ reconnect[b].phase = "fetching"
    /\ b \notin alive \/ "lost_call" \in Faults
    /\ reconnect' = [reconnect EXCEPT ![b] = FailedReconnect]
    /\ UNCHANGED <<rowVars, online, starting, start, call, departed, robotVars, wireVars>>

\* record_online: "since" is taken, which is the set of runs that exist now.
\* Without a claim the robot is online at once and its runs are judged after
\* the grace window; with one they are judged in the same transaction.
RecordOnline(b) ==
    /\ reconnect[b].phase = "fetched"
    /\ reconnect' = [reconnect EXCEPT ![b].phase = "judging",
                        ![b].known = {r \in Runs : status[r] # "absent"},
                        ![b].heard = {}]
    /\ online' = [online EXCEPT ![b] = @ \/ reconnect[b].claim = "unsaid"]
    /\ UNCHANGED <<rowVars, starting, start, call, departed, robotVars, wireVars>>

\* Slip: a report counts for a robot that makes a claim, too.
SlipSpared(b, r) ==
    \/ r \notin reconnect[b].known
    \/ reconnect[b].claim = r
    \/ r \in reconnect[b].heard

\* A run the reconciliation leaves alone: created since, claimed, reported
\* since by a robot that makes no claim, or PENDING and young enough for its
\* dispatch to be in flight.
Spared(b, r) ==
    \/ r \notin reconnect[b].known
    \/ reconnect[b].claim = r
    \/ reconnect[b].claim = "unsaid" /\ r \in reconnect[b].heard

\* _stop_a_closed_claim: a claimed run of this robot that has ended is cancelled.
StopClosedClaim(b) ==
    {<<b, r>> : r \in {q \in Runs : /\ reconnect[b].claim = q
                                    /\ Terminal(q)
                                    /\ robot[q] = b}}

\* The transaction commits: with a claim it is now that the robot is online.
Conclude(b) ==
    /\ reconnect' = [reconnect EXCEPT ![b] = NoReconnect]
    /\ online' = [online EXCEPT ![b] = @ \/ reconnect[b].claim # "unsaid"]

\* Nothing to close.
JudgeSpares(b) ==
    /\ reconnect[b].phase = "judging"
    /\ \A r \in Runs : (Active(r) /\ robot[r] = b) => (Spared(b, r) \/ status[r] = "PENDING")
    /\ Conclude(b)
    /\ stops' = stops \cup StopClosedClaim(b)
    /\ UNCHANGED <<rowVars, starting, start, call, departed, robotVars, frames, queries>>

\* A live run the robot does not hold: read without its lock, and cancelled.
JudgeCancels(b, r) ==
    /\ reconnect[b].phase = "judging"
    /\ Active(r)
    /\ robot[r] = b
    /\ ~Spared(b, r)
    /\ reconnect' = [reconnect EXCEPT ![b].phase = "closing", ![b].run = r,
                                      ![b].seen = status[r]]
    /\ stops' = stops \cup {<<b, r>>}
    /\ UNCHANGED <<rowVars, online, starting, start, call, departed, robotVars, frames, queries>>

\* Slip: the run is closed whatever became of it during the cancel.
SlipUnclaimed(b, r) ==
    /\ status[r] \in Statuses
    /\ Move(r, "RECONCILE", "FAILED", 0, "unset")
    /\ CloseStages(r, "FAILED")
    /\ failure' = [failure EXCEPT ![r] = {"reconcile"}]

\* The compare-and-set after the cancel's answer or timeout: the run ends if
\* it is still in the status that was read.
Unclaimed(b, r) ==
    /\ status[r] = reconnect[b].seen
    /\ LET to == IF reconnect[b].seen = "CANCELLING" THEN "CANCELLED" ELSE "FAILED"
       IN  /\ Move(r, "RECONCILE", to, 0, "unset")
           /\ CloseStages(r, to)
    /\ failure' = [failure EXCEPT ![r] = {"reconcile"}]

MovedOn(b, r) ==
    /\ status[r] # reconnect[b].seen
    /\ UNCHANGED <<status, last, failure, stageRows>>

CloseUnclaimed(b, r) ==
    /\ reconnect[b].phase = "closing"
    /\ reconnect[b].run = r
    /\ RunUnlocked(r)
    /\ Unclaimed(b, r) \/ MovedOn(b, r)
    /\ Conclude(b)
    /\ \/ stops' = stops \cup StopClosedClaim(b)
       \/ "failed_handler" \in Faults /\ UNCHANGED stops
    /\ UNCHANGED <<mission, robot, consent, report, dispatched, starting, start, call, departed,
                   robotVars, frames, queries>>

\* It ends before its time: an exception of the reconciliation is swallowed, so
\* that with a claim the robot is online and its runs are left unjudged, or the
\* transaction fails and rolls back.
ReconnectFails(b) ==
    /\ "failed_handler" \in Faults
    /\ reconnect[b].phase \in {"fetched", "judging", "closing"}
    /\ reconnect' = [reconnect EXCEPT ![b] = FailedReconnect]
    /\ \/ UNCHANGED online
       \/ RobotRowLocked(b) /\ online' = [online EXCEPT ![b] = TRUE]
    /\ UNCHANGED <<rowVars, starting, start, call, departed, robotVars, wireVars>>

\* The backend process dies: transactions in progress roll back, samples and
\* replies in flight are lost.  The new process marks every robot offline and
\* is told of the tokens that are present.
Restart ==
    /\ "restart" \in Faults
    /\ online' = [b \in Robots |-> FALSE]
    /\ starting' = [r \in Runs |-> NoStart]
    /\ start' = [r \in Runs |-> IF start[r] \in {"idle"} \cup SettledPhases THEN start[r] ELSE "lost"]
    /\ call' = [r \in Runs |-> NoCall]
    /\ reconnect' = [b \in Robots |->
                        IF b \in alive THEN [NoReconnect EXCEPT !.phase = "fetching"]
                                       ELSE FailedReconnect]
    /\ departed' = {}
    /\ frames' = {}
    /\ UNCHANGED <<rowVars, robotVars, queries, stops>>

-----------------------------------------------------------------------------
(* The robots (external): what the code expects of them                    *)

Goes(b, how) == mode' = [mode EXCEPT ![b] = how]

\* A free robot takes the goal and starts before it answers.
RobotTakes(b, r) ==
    /\ <<b, r>> \in queries
    /\ b \in alive
    /\ holds[b] = None
    /\ queries' = queries \ {<<b, r>>}
    /\ holds' = [holds EXCEPT ![b] = r]
    /\ Goes(b, "RUNNING")
    /\ start' = IF start[r] = "asking" THEN [start EXCEPT ![r] = "ACCEPTED"] ELSE start
    /\ UNCHANGED <<rowVars, online, starting, call, reconnect, departed, alive, header, frames,
                   stops>>

\* A busy robot refuses it, and a free one may.
RobotRejects(b, r) ==
    /\ <<b, r>> \in queries
    /\ b \in alive
    /\ holds[b] # None \/ "refusal" \in Faults
    /\ queries' = queries \ {<<b, r>>}
    /\ start' = IF start[r] = "asking" THEN [start EXCEPT ![r] = "REJECTED"] ELSE start
    /\ UNCHANGED <<rowVars, online, starting, call, reconnect, departed, robotVars, frames, stops>>

\* The robot answers a control call.
Obeys(b, op) ==
    CASE op = "cancel" -> Goes(b, "STOPPING")
      [] op = "pause"  -> Goes(b, "PAUSED")
      [] op = "resume" -> Goes(b, "RUNNING")

RobotAnswers(r) ==
    LET b == robot[r]
        Reply(answer) == call' = [call EXCEPT ![r].answer = answer]
    IN  /\ call[r].answer = "awaited"
        /\ b \in alive
        /\ \/ holds[b] # r /\ Reply("not_held") /\ UNCHANGED mode
           \/ /\ holds[b] = r
              /\ mode[b] = "STOPPING" => call[r].op = "cancel"
              /\ Reply("applied") /\ Obeys(b, call[r].op)
           \/ /\ holds[b] = r
              /\ (mode[b] = "STOPPING" /\ call[r].op # "cancel") \/ "refusal" \in Faults
              /\ Reply("refused") /\ UNCHANGED mode
        /\ UNCHANGED <<rowVars, online, starting, start, reconnect, departed, alive, holds,
                       header, wireVars>>

\* A cancel whose answer nobody uses arrives, or is lost.
RobotStops(b, r) ==
    /\ <<b, r>> \in stops
    /\ \/ b \in alive /\ IF holds[b] = r THEN Goes(b, "STOPPING") ELSE UNCHANGED mode
       \/ ("lost_call" \in Faults \/ b \notin alive) /\ UNCHANGED mode
    /\ stops' = stops \ {<<b, r>>}
    /\ UNCHANGED <<rowVars, online, taskVars, alive, holds, header, frames, queries>>

\* A frame leaves only while the robot is connected.
Sends(b, r, exec) ==
    /\ header' = [header EXCEPT ![b] = @ + 1]
    /\ \E stages \in StageReports :
          frames' = IF b \in alive
                    THEN frames \cup {[robot |-> b, run |-> r, header |-> header[b] + 1,
                                       exec |-> exec, stages |-> stages]}
                    ELSE frames

RobotReports(b) ==
    /\ holds[b] # None
    /\ header[b] < MaxHeader
    /\ b \in alive
    /\ Sends(b, holds[b], IF mode[b] = "PAUSED" THEN "PAUSED" ELSE "RUNNING")
    /\ UNCHANGED <<rowVars, online, taskVars, alive, holds, mode, queries, stops>>

\* The robot's run ends: a stopped one as CANCELLED, another as it went.
RobotEnds(b, exec) ==
    /\ holds[b] # None
    /\ exec = "CANCELLED" <=> mode[b] = "STOPPING"
    /\ mode[b] # "PAUSED"
    /\ Sends(b, holds[b], exec)
    /\ holds' = [holds EXCEPT ![b] = None]
    /\ UNCHANGED <<rowVars, online, taskVars, alive, mode, queries, stops>>

\* The token goes, and comes back with or without the run (the reboot).  Bounds:
\* per robot, one DELETE sample and one PUT sample are being handled at a time.
RobotLeaves(b) ==
    /\ "offline" \in Faults
    /\ b \in alive
    /\ b \notin departed
    /\ alive' = alive \ {b}
    /\ departed' = departed \cup {b}
    /\ UNCHANGED <<rowVars, online, starting, start, call, reconnect, holds, mode, header,
                   wireVars>>

RobotReturns(b) ==
    /\ b \notin alive
    /\ reconnect[b].phase \in {"idle", "failed"}
    /\ alive' = alive \cup {b}
    /\ reconnect' = [reconnect EXCEPT ![b].phase = "fetching"]
    /\ UNCHANGED <<rowVars, online, starting, start, call, departed, holds, mode, header,
                   wireVars>>

RobotReboots(b) ==
    /\ "reboot" \in Faults
    /\ b \notin alive
    /\ holds[b] # None
    /\ holds' = [holds EXCEPT ![b] = None]
    /\ UNCHANGED <<rowVars, online, taskVars, alive, mode, header, wireVars>>

-----------------------------------------------------------------------------

Dispatching ==
    \/ \E m \in Missions, r \in Runs, b \in Robots, allowConcurrent \in BOOLEAN :
          BeginDispatch(m, r, b, allowConcurrent)
    \/ \E r \in Runs :
          \/ InsertRun(r) \/ InsertRefused(r) \/ PrepareFails(r)
          \/ DispatchUnanswered(r)
          \/ Settle(r) \/ SettleFails(r)

Controlling ==
    \E r \in Runs :
        \/ CancelDeferred(r)
        \/ \E op \in CallOps : BeginCall(r, op)
        \/ CallUnanswered(r)
        \/ EndCancel(r)
        \/ EndSteer(r)
        \/ CallFails(r)
        \/ CloseRun(r)
        \/ DeleteRun(r)

Recording == \E f \in frames : Record(f) \/ LoseFrame(f)

Connecting ==
    \E b \in Robots :
        \/ RecordOffline(b)
        \/ FetchClaim(b)
        \/ FetchFails(b)
        \/ RecordOnline(b)
        \/ JudgeSpares(b)
        \/ \E r \in Runs : JudgeCancels(b, r) \/ CloseUnclaimed(b, r)
        \/ ReconnectFails(b)

RobotStep ==
    \/ \E r \in Runs : RobotAnswers(r)
    \/ \E b \in Robots :
          \/ \E r \in Runs : RobotTakes(b, r) \/ RobotRejects(b, r) \/ RobotStops(b, r)
          \/ RobotReports(b)
          \/ \E exec \in OutcomeReports : RobotEnds(b, exec)
          \/ RobotLeaves(b) \/ RobotReturns(b) \/ RobotReboots(b)

Next == Dispatching \/ Controlling \/ Recording \/ Connecting \/ Restart \/ RobotStep

Spec == Init /\ [][Next]_vars

-----------------------------------------------------------------------------
(* Safety                                                                  *)

\* A robot never has two active runs: whatever dispatches, frames, closes and
\* reconciliations interleave, one run holds the robot until it ends.
OneRunPerRobot ==
    \A q, r \in Runs :
        (Active(q) /\ Active(r) /\ robot[q] = robot[r]) => q = r

\* Two active runs of one mission were asked for: at least one of the two
\* dispatches allowed a concurrent run.
ConcurrencyIsConsented ==
    \A q, r \in Runs :
        (Active(q) /\ Active(r) /\ mission[q] = mission[r] /\ q # r)
            => (consent[q] \/ consent[r])

\* A run with a control call in flight stays in the status the call has read:
\* no frame, no answer to its dispatch and no reconciliation gets between the
\* request to the robot and the write that records it.
CalledRunStandsStill ==
    \A r \in Runs : call[r] # NoCall => status[r] = call[r].seen

\* A run that ended on its robot's word, a refusal or an outcome, is not driven,
\* and no dispatch that could still start it is on the wire: silence never counts
\* as the robot's word.
EndedRunIsNotDriven ==
    \A r \in Runs : (Terminal(r) /\ last[r].trigger \notin {"CLOSE", "RECONCILE"}) =>
        \A b \in Robots : holds[b] # r /\ <<b, r>> \notin queries

\* A cancel the log records as acknowledged stops the robot: whatever calls, late
\* dispatches and stops arrive after it, a robot that still executes the run is
\* stopping it.
AcknowledgedCancelStops ==
    \A r \in Runs, b \in Robots :
        (status[r] = "CANCELLING" /\ last[r].ack = "yes" /\ holds[b] = r)
            => mode[b] = "STOPPING"

\* A PENDING run says what it waits for: its dispatch is being asked or settled,
\* or its row carries the warning that nobody answered; only a dispatch cut off by
\* the end of the process, or whose settling failed, leaves it without either.
UnansweredRunIsMarked ==
    \A r \in Runs : status[r] = "PENDING" =>
        \/ start[r] \in {"asking", "ACCEPTED", "REJECTED", "TIMEOUT", "lost"}
        \/ start[r] = "unanswered" /\ failure[r] = {"dispatch"}

\* The row of a run that succeeded carries no error: the warning of an
\* unconfirmed dispatch is gone by then, in whichever order the answer and the
\* robot's frames were recorded.
SucceededRunIsClean ==
    \A r \in Runs : status[r] = "SUCCEEDED" => failure[r] = {}

\* An ended run stays as it ended: its status, its log and its stages do not
\* change again until the row is deleted.
EndedRunIsFinal ==
    [][\A r \in Runs : Terminal(r) =>
          \/ status'[r] = "deleted"
          \/ <<status[r], last[r], stageRows[r]>>' = <<status[r], last[r], stageRows[r]>>]_vars

\* A status changes along the transition table only, and the log's latest row
\* names the trigger that moved it; a cancel the robot answers with "not held"
\* makes its two transitions in one commit.
MovesAreAllowedAndLogged ==
    [][\A r \in Runs : (status'[r] # status[r] /\ status[r] # "absent" /\ status'[r] # "deleted")
          => \/ Allowed(status[r], last'[r].trigger, status'[r])
             \/ /\ last'[r].trigger = "RECONCILE"
                /\ Allowed(status[r], "CANCEL_REQUEST", "CANCELLING")
                /\ Allowed("CANCELLING", "RECONCILE", status'[r])]_vars

\* A dispatch the robot accepted leaves a dispatch time on the row, whichever of
\* the answer, the first frame, a cancel or the end of the run came first.
AcceptedRunHasDispatchTime ==
    [][\A r \in Runs :
          (start[r] = "ACCEPTED" /\ start'[r] = "over" /\ status[r] # "deleted")
              => dispatched'[r]]_vars

\* Once a run has ended, every stage of its plan has, those the robot never
\* reported included, whichever of the use cases ended it.
EndedRunHasEndedStages ==
    \A r \in Runs : Terminal(r) =>
        \A s \in Plan : stageRows[r][s].status \in EndedStageStatuses

\* A stage row is never overwritten by an older report, in whichever order the
\* frames are handled.
StageHeadersNeverFall ==
    [][\A r \in Runs, s \in Stages :
          status'[r] # "deleted" => stageRows'[r][s].header >= stageRows[r][s].header]_vars

-----------------------------------------------------------------------------
(* Refinement                                                              *)

\* The reservation a run control state stands for: a robot's active run.
RunsOf(b) == {r \in Runs : Active(r) /\ robot[r] = b}

HolderOf(b) == IF RunsOf(b) = {} THEN None ELSE CHOOSE r \in RunsOf(b) : TRUE

SpentRuns == {r \in Runs : Terminal(r) \/ status[r] = "deleted"}

Reservation == INSTANCE RobotReservation
    WITH holder <- [b \in Robots |-> HolderOf(b)], spent <- SpentRuns

\* Run control implements the reservation of robots: every interleaving of its
\* steps reserves and releases robots one run at a time.
ReservesRobots == Reservation!Spec

-----------------------------------------------------------------------------
(* Liveness                                                                *)

\* The event loop runs every coroutine that can run, and what is awaited comes or
\* times out; a connected robot answers what reaches it and ends a run it has been
\* told to cancel.
CallFairness ==
    \A r \in Runs :
        /\ WF_vars(EndCancel(r) \/ EndSteer(r))
        /\ WF_vars(RobotAnswers(r) \/ CallUnanswered(r))

RunFairness ==
    /\ CallFairness
    /\ \A r \in Runs : WF_vars(Settle(r))
    /\ \A b \in Robots :
          /\ \A r \in Runs :
                /\ WF_vars(RobotTakes(b, r) \/ RobotRejects(b, r))
                /\ WF_vars(RobotStops(b, r))
          /\ WF_vars(RobotEnds(b, "CANCELLED"))
    /\ WF_vars(\E f \in frames : Record(f))

FairSpec == Spec /\ RunFairness

\* The steps of a reconciliation are fair too; its last one waits for the row
\* lock, which the database grants in the order it is asked for.
ReturnFairness ==
    /\ CallFairness
    /\ \A b \in Robots :
          /\ WF_vars(RecordOnline(b))
          /\ WF_vars(JudgeSpares(b) \/ \E r \in Runs : JudgeCancels(b, r))
          /\ SF_vars(\E r \in Runs : CloseUnclaimed(b, r))

ReturnSpec == Spec /\ ReturnFairness

\* A requested cancel ends the run, whatever it overtakes: the dispatch still on
\* its way, its answer, the robot's reports, a pause or a resume.
CancelEndsRun ==
    \A r \in Runs : (status[r] = "CANCELLING") ~> ~Active(r)

\* The metadata of a returned robot is in, and a live run of it is none that the
\* reconciliation may leave to the robot or to its dispatch: the robot claims
\* another or none, or makes no claim and has nothing left to report on it.
Unheld(b, r) ==
    /\ Active(r)
    /\ robot[r] = b
    /\ status[r] # "PENDING"
    /\ reconnect[b].phase = "fetched"
    /\ reconnect[b].claim # r
    /\ reconnect[b].claim = "unsaid" =>
          /\ holds[b] # r
          /\ <<b, r>> \notin queries
          /\ \A f \in frames : f.run # r

\* The reconciliation has read the run and cancels it, and the run moves meanwhile.
MovedUnder(b, r) ==
    /\ reconnect[b].phase = "closing"
    /\ reconnect[b].run = r
    /\ reconnect[b].seen # status[r]

\* A run the returned robot does not hold is not forgotten: it ends, unless it
\* moves during its last cancel, the reconciliation fails, or the process dies
\* under it.  Frames, departures and requests that come between do not spare it,
\* whether the claim or the grace window judges it (run_reconciliation.py:51,
\* factory.py:361).
UnheldRunIsSettled ==
    \A b \in Robots, r \in Runs :
        Unheld(b, r) ~> (\/ ~Active(r)
                        \/ MovedUnder(b, r)
                        \/ reconnect[b].phase \in {"failed", "fetching"})

-----------------------------------------------------------------------------
(* What the source says of the program, checked as it says it              *)

\* run_service.py, cancel, of a robot that is offline: "the reconnect
\* reconciliation sends the cancel and settles the run".  Once the robot is
\* online, its reconciliation over and no dispatch left that would send it, the
\* cancel is on its way, or the robot is stopping, or its frames are to end the run.
DeferredCancelIsSent ==
    \A r \in Runs :
        (/\ status[r] = "CANCELLING"
         /\ last[r].ack = "deferred"
         /\ start[r] \in SettledPhases
         /\ online[robot[r]]
         /\ reconnect[robot[r]].phase = "idle")
        => \/ <<robot[r], r>> \in stops
           \/ holds[robot[r]] = r /\ mode[robot[r]] = "STOPPING"
           \/ \E f \in frames : f.run = r

\* run_service.py, close: "the reconnect reconciliation then sends it a cancel,
\* so closing here never leaves a machine driving unnoticed".
ClosedRunIsStopped ==
    \A b \in Robots, r \in Runs :
        (/\ holds[b] = r
         /\ Terminal(r) \/ status[r] = "deleted"
         /\ b \in alive
         /\ online[b]
         /\ reconnect[b].phase = "idle")
        => <<b, r>> \in stops \/ mode[b] = "STOPPING"

\* run_service.py, cancel: "a cancel that lands while the dispatch is still in
\* flight is not lost: settle re-sends it if the goal landed after all".
CancelInDispatchIsNotLost ==
    \A b \in Robots, r \in Runs :
        (holds[b] = r /\ status[r] = "CANCELLED" /\ start[r] \in SettledPhases)
            => <<b, r>> \in stops \/ mode[b] = "STOPPING"

\* mission_state_service.py, MissionStateService: "Frames are ordered by the
\* robot's header_id".
ReportsAreOrdered ==
    [][\A r \in Runs :
          (Active(r) /\ report'[r] # report[r]) => report'[r] > report[r]]_vars

=============================================================================
