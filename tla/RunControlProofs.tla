-------------------------- MODULE RunControlProofs --------------------------
(***************************************************************************)
(* Theorems about RunControl, for every value of its constants.            *)
(***************************************************************************)
EXTENDS RunControl, RunLifecycleProofs, StageRecordsProofs, TLAPS

-----------------------------------------------------------------------------
(* The inductive invariant                                                 *)

\* A run with a row has its mission and its robot.
RowsAreWhole ==
    \A r \in Runs : status[r] \in Statuses => mission[r] \in Missions /\ robot[r] \in Robots

\* A run about to be inserted has no row yet.
StartsAreAbsent ==
    \A r \in Runs : starting[r] # NoStart => status[r] = "absent"

\* The mission's lock lets one dispatch at a time reach its insert.
StartsAreAlone ==
    \A q, r \in Runs :
        (starting[q] # NoStart /\ starting[r] # NoStart
            /\ starting[q].mission = starting[r].mission) => q = r

\* What prepare has checked for a dispatch without consent holds until its insert:
\* the mission has no active run.
StartsHaveConsent ==
    \A q, r \in Runs :
        (starting[r] # NoStart /\ Active(q) /\ mission[q] = starting[r].mission)
            => starting[r].consent

\* A control call is made of a live run and holds it where it found it.
CallsAreLive ==
    \A r \in Runs : call[r] # NoCall => status[r] = call[r].seen /\ Active(r)

\* A reconciliation closes a run it has read as live.
ClosingsAreLive ==
    \A b \in Robots : reconnect[b].phase = "closing" =>
        reconnect[b].run \in Runs /\ reconnect[b].seen \in ActiveStatuses

IInv ==
    /\ TypeOK
    /\ RowsAreWhole
    /\ StartsAreAbsent
    /\ StartsAreAlone
    /\ StartsHaveConsent
    /\ CallsAreLive
    /\ ClosingsAreLive
    /\ OneRunPerRobot
    /\ ConcurrencyIsConsented
    /\ EndedRunHasEndedStages

-----------------------------------------------------------------------------
(* What the helpers of the actions write                                   *)

\* Every stage of the run's plan has ended.
StagesEnded(r) == \A s \in Plan : stageRows[r][s].status \in EndedStageStatuses

\* A move writes a status and a transition.
LEMMA MoveTypes ==
    ASSUME RowsOK, NEW r \in Runs, NEW trigger \in Triggers, NEW to \in Statuses,
           NEW hdr \in Nat, NEW ack \in Acks, Move(r, trigger, to, hdr, ack)
    PROVE  /\ status' \in [Runs -> Statuses \cup {"absent", "deleted"}]
           /\ last' \in [Runs -> Transition \cup {NoTransition}]
BY DEF RowsOK, Move, Transition

\* A row is moved and no other.
LEMMA MoveIsLocal ==
    ASSUME RowsOK, NEW r \in Runs, NEW trigger, NEW to, NEW hdr, NEW ack,
           Move(r, trigger, to, hdr, ack)
    PROVE  /\ status'[r] = to
           /\ \A q \in Runs \ {r} : status'[q] = status[q] /\ last'[q] = last[q]
BY DEF RowsOK, Move

LEMMA CloseStagesTypes ==
    ASSUME RunControlAssumption, RowsOK, NEW r \in Runs, NEW to, CloseStages(r, to)
    PROVE  /\ stageRows' \in [Runs -> [Stages -> StageRow]]
           /\ StagesEnded(r)'
           /\ \A q \in Runs \ {r} : stageRows'[q] = stageRows[q]
<1>1. stageRows[r] \in [Stages -> StageRow] /\ Plan \in SUBSET Stages
    BY DEF RowsOK, Plan
<1>2. /\ Closed(stageRows[r], Plan, to) \in [Stages -> StageRow]
      /\ \A s \in Plan : Closed(stageRows[r], Plan, to)[s].status \in EndedStageStatuses
    BY <1>1, ClosedRows
<1>3. /\ stageRows'[r] = Closed(stageRows[r], Plan, to)
      /\ \A q \in Runs \ {r} : stageRows'[q] = stageRows[q]
      /\ stageRows' \in [Runs -> [Stages -> StageRow]]
    BY <1>2 DEF RowsOK, CloseStages
<1>. QED  BY <1>2, <1>3 DEF StagesEnded

LEMMA ConstantsAreTyped ==
    /\ TerminalStatuses \subseteq Statuses
    /\ ActiveStatuses \subseteq Statuses
    /\ ExecutingStatuses \subseteq ActiveStatuses
    /\ NoCall \notin Call
    /\ NoTransition \notin Transition
BY DEF Statuses, ActiveStatuses, TerminalStatuses, ExecutingStatuses, NoCall, Call, CallOps,
       NoTransition, Transition, Triggers

-----------------------------------------------------------------------------
(* Type correctness                                                        *)

LEMMA InitTypes == RunControlAssumption /\ Init => TypeOK
BY DEF RunControlAssumption, Init, TypeOK, RowsOK, TasksOK, RobotsOK, WireOK, StartPhases,
       NoReconnect, Reconnect, ReconnectPhases, Claims, StageRow

LEMMA DispatchingTypes ==
    ASSUME RunControlAssumption, IInv, Dispatching
    PROVE  TypeOK'
<1>. USE DEF vars, rowVars, taskVars, robotVars, wireVars
<1>1. ASSUME NEW m \in Missions, NEW r \in Runs, NEW b \in Robots, NEW c \in BOOLEAN,
             BeginDispatch(m, r, b, c)
      PROVE  TypeOK'
    BY <1>1 DEF IInv, TypeOK, RowsOK, TasksOK, RobotsOK, WireOK, BeginDispatch, Start
<1>2. ASSUME NEW r \in Runs, InsertRun(r)
      PROVE  TypeOK'
  <2>1. starting[r] \in Start
      BY <1>2 DEF IInv, TypeOK, TasksOK, InsertRun
  <2>. QED
      BY <1>2, <2>1 DEF IInv, TypeOK, RowsOK, TasksOK, RobotsOK, WireOK, InsertRun, Start,
         Statuses, ActiveStatuses, StartPhases
<1>3. ASSUME NEW r \in Runs, InsertRefused(r)
      PROVE  TypeOK'
    BY <1>3 DEF IInv, TypeOK, RowsOK, TasksOK, RobotsOK, WireOK, InsertRefused
<1>6. ASSUME NEW r \in Runs, PrepareFails(r)
      PROVE  TypeOK'
    BY <1>6 DEF IInv, TypeOK, RowsOK, TasksOK, RobotsOK, WireOK, PrepareFails
<1>7. ASSUME NEW r \in Runs, SettleFails(r)
      PROVE  TypeOK'
    BY <1>7 DEF IInv, TypeOK, RowsOK, TasksOK, RobotsOK, WireOK, SettleFails, StartPhases
<1>4. ASSUME NEW r \in Runs, DispatchUnanswered(r)
      PROVE  TypeOK'
    BY <1>4 DEF IInv, TypeOK, RowsOK, TasksOK, RobotsOK, WireOK, DispatchUnanswered, StartPhases
<1>5. ASSUME NEW r \in Runs, Settle(r)
      PROVE  TypeOK'
  <2>. USE <1>5 DEF IInv, TypeOK
  <2>1. TasksOK' /\ RobotsOK'
      BY DEF TasksOK, RobotsOK, Settle, StartPhases
  <2>2. CASE SettleMissing(r) \/ SettleStands(r)
      BY <2>1, <2>2 DEF RowsOK, WireOK, Settle, SettleMissing, SettleStands
  <2>3. CASE SettleAccepted(r)
    <3>1. /\ status' \in [Runs -> Statuses \cup {"absent", "deleted"}]
          /\ last' \in [Runs -> Transition \cup {NoTransition}]
        BY <2>3, MoveTypes DEF SettleAccepted, Triggers, Acks, Statuses, ActiveStatuses,
           ExecutingStatuses
    <3>. QED  BY <2>1, <2>3, <3>1 DEF RowsOK, WireOK, Settle, SettleAccepted
  <2>4. CASE SettleUnconfirmed(r)
    <3>1. /\ status' \in [Runs -> Statuses \cup {"absent", "deleted"}]
          /\ last' \in [Runs -> Transition \cup {NoTransition}]
        BY <2>4, MoveTypes DEF SettleUnconfirmed, Triggers, Acks, Statuses, ActiveStatuses
    <3>. QED  BY <2>1, <2>4, <3>1 DEF RowsOK, WireOK, Settle, SettleUnconfirmed, Errors
  <2>5. CASE SettleOvertaken(r)
    <3>1. stops' \in SUBSET (Robots \X Runs)
      <4>1. CASE status[r] = "CANCELLING"
        <5>1. robot[r] \in Robots
            BY <4>1 DEF RowsAreWhole, Statuses, ActiveStatuses, ExecutingStatuses
        <5>. QED  BY <2>5, <4>1, <5>1 DEF SettleOvertaken, WireOK
      <4>2. CASE status[r] # "CANCELLING"
          BY <2>5, <4>2 DEF SettleOvertaken, WireOK
      <4>. QED  BY <4>1, <4>2
    <3>. QED  BY <2>1, <2>5, <3>1 DEF RowsOK, WireOK, Settle, SettleOvertaken
  <2>6. CASE SettleRejected(r)
    <3>1. PICK to \in {"CANCELLED", "REJECTED"} :
             Move(r, "REJECT", to, 0, "unset") /\ CloseStages(r, to)
        BY <2>6 DEF SettleRejected
    <3>2. /\ status' \in [Runs -> Statuses \cup {"absent", "deleted"}]
          /\ last' \in [Runs -> Transition \cup {NoTransition}]
        BY <3>1, MoveTypes DEF Triggers, Acks, Statuses, TerminalStatuses
    <3>3. stageRows' \in [Runs -> [Stages -> StageRow]]
        BY <3>1, CloseStagesTypes
    <3>. QED  BY <2>1, <2>6, <3>2, <3>3 DEF RowsOK, WireOK, Settle, SettleRejected, Errors
  <2>. QED  BY <2>2, <2>3, <2>4, <2>5, <2>6 DEF Settle
<1>. QED  BY <1>1, <1>2, <1>3, <1>4, <1>5, <1>6, <1>7 DEF Dispatching

LEMMA ControllingTypes ==
    ASSUME RunControlAssumption, IInv, Controlling
    PROVE  TypeOK'
<1>. USE DEF vars, rowVars, taskVars, robotVars, wireVars
<1>. PICK r \in Runs :
        \/ CancelDeferred(r)
        \/ \E op \in CallOps : BeginCall(r, op)
        \/ CallUnanswered(r)
        \/ EndCancel(r)
        \/ EndSteer(r)
        \/ CallFails(r)
        \/ CloseRun(r)
        \/ DeleteRun(r)
    BY DEF Controlling
<1>. DEFINE Written == /\ status' \in [Runs -> Statuses \cup {"absent", "deleted"}]
                       /\ last' \in [Runs -> Transition \cup {NoTransition}]
<1>a. /\ report[r] \in Nat
      /\ call[r] # NoCall => call[r] \in Call
    BY DEF IInv, TypeOK, RowsOK, TasksOK
<1>1. CASE CancelDeferred(r)
  <2>1. Written
      BY <1>1, <1>a, MoveTypes DEF CancelDeferred, IInv, TypeOK, Triggers, Acks, Statuses,
         ActiveStatuses, ExecutingStatuses
  <2>. QED  BY <1>1, <2>1 DEF IInv, TypeOK, RowsOK, TasksOK, RobotsOK, WireOK, CancelDeferred
<1>2. ASSUME NEW op \in CallOps, BeginCall(r, op)
      PROVE  TypeOK'
  <2>1. [op |-> op, seen |-> status[r], answer |-> "awaited"] \in Call
      BY <1>2, ConstantsAreTyped DEF BeginCall, Targets, Active, Call, Answers
  <2>. QED  BY <1>2, <2>1 DEF IInv, TypeOK, RowsOK, TasksOK, RobotsOK, WireOK, BeginCall
<1>3. CASE CallUnanswered(r)
  <2>1. [call[r] EXCEPT !.answer = "silence"] \in Call
      BY <1>3, <1>a DEF CallUnanswered, Call, Answers, NoCall
  <2>. QED  BY <1>3, <2>1 DEF IInv, TypeOK, RowsOK, TasksOK, RobotsOK, WireOK, CallUnanswered
<1>4. CASE EndCancel(r)
  <2>1. /\ RowsOK'
        /\ TasksOK'
    <3>1. CASE CancelRecorded(r)
      <4>1. Written
          BY <3>1, <1>a, MoveTypes DEF CancelRecorded, IInv, TypeOK, Triggers, Acks, Statuses,
             ActiveStatuses, ExecutingStatuses
      <4>. QED  BY <1>4, <3>1, <4>1 DEF IInv, TypeOK, RowsOK, TasksOK, EndCancel, CancelRecorded
    <3>2. CASE CancelSettled(r)
      <4>1. Written
          BY <3>2, <1>a, MoveTypes DEF CancelSettled, IInv, TypeOK, Triggers, Acks, Statuses,
             TerminalStatuses
      <4>2. stageRows' \in [Runs -> [Stages -> StageRow]]
          BY <3>2, CloseStagesTypes DEF CancelSettled, IInv, TypeOK
      <4>. QED  BY <1>4, <3>2, <4>1, <4>2 DEF IInv, TypeOK, RowsOK, TasksOK, EndCancel
    <3>. QED  BY <1>4, <3>1, <3>2 DEF EndCancel
  <2>. QED  BY <1>4, <2>1 DEF IInv, TypeOK, RobotsOK, WireOK, EndCancel
<1>5. CASE EndSteer(r)
  <2>1. CASE SteerDropped(r)
      BY <1>5, <2>1 DEF IInv, TypeOK, RowsOK, TasksOK, RobotsOK, WireOK, EndSteer, SteerDropped
  <2>2. ASSUME NEW to \in Statuses, SteerApplied(r, to)
        PROVE  TypeOK'
    <3>1. RequestOf(call[r].op) \in Triggers
        BY <1>5 DEF EndSteer, RequestOf, Triggers
    <3>2. Written
        BY <2>2, <1>a, <3>1, MoveTypes DEF SteerApplied, IInv, TypeOK, Acks
    <3>. QED  BY <1>5, <3>2 DEF IInv, TypeOK, RowsOK, TasksOK, RobotsOK, WireOK, EndSteer
  <2>. QED  BY <1>5, <2>1, <2>2 DEF EndSteer
<1>6. CASE CloseRun(r)
  <2>1. Written
      BY <1>6, MoveTypes DEF CloseRun, IInv, TypeOK, Triggers, Acks, Statuses, TerminalStatuses
  <2>2. stageRows' \in [Runs -> [Stages -> StageRow]]
      BY <1>6, CloseStagesTypes DEF CloseRun, IInv, TypeOK
  <2>. QED  BY <1>6, <2>1, <2>2 DEF IInv, TypeOK, RowsOK, TasksOK, RobotsOK, WireOK, CloseRun
<1>7. CASE DeleteRun(r)
  <2>1. [s \in Stages |-> NoRow] \in [Stages -> StageRow]
      BY DEF StageRow
  <2>. QED  BY <1>7, <2>1 DEF IInv, TypeOK, RowsOK, TasksOK, RobotsOK, WireOK, DeleteRun
<1>8. CASE CallFails(r)
    BY <1>8 DEF IInv, TypeOK, RowsOK, TasksOK, RobotsOK, WireOK, CallFails
<1>. QED  BY <1>1, <1>2, <1>3, <1>4, <1>5, <1>6, <1>7, <1>8

LEMMA RecordingTypes ==
    ASSUME RunControlAssumption, IInv, Recording
    PROVE  TypeOK'
<1>. USE DEF vars, rowVars, taskVars, robotVars, wireVars
<1>. PICK f \in frames : Record(f) \/ LoseFrame(f)
    BY DEF Recording
<1>. DEFINE Written == /\ status' \in [Runs -> Statuses \cup {"absent", "deleted"}]
                       /\ last' \in [Runs -> Transition \cup {NoTransition}]
<1>a. /\ f.run \in Runs /\ f.robot \in Robots /\ f.header \in Nat
      /\ f.stages \in StageReports /\ f.exec \in ExecStatuses
    BY DEF IInv, TypeOK, WireOK, Frame
<1>b. \A s \in DOMAIN f.stages : f.stages[s] \in StageStatuses
    BY <1>a DEF RunControlAssumption
<1>c. stageRows[f.run] \in [Stages -> StageRow] /\ Plan \in SUBSET Stages
    BY <1>a DEF IInv, TypeOK, RowsOK, Plan
<1>d. ASSUME NEW rows \in [Stages -> StageRow],
             stageRows' = [stageRows EXCEPT ![f.run] = rows]
      PROVE  stageRows' \in [Runs -> [Stages -> StageRow]]
    BY <1>a, <1>d DEF IInv, TypeOK, RowsOK
<1>e. Upsert(stageRows[f.run], f.header, f.stages) \in [Stages -> StageRow]
    BY <1>a, <1>b, <1>c, UpsertRows
<1>1. CASE LoseFrame(f)
    BY <1>1 DEF IInv, TypeOK, RowsOK, TasksOK, RobotsOK, WireOK, LoseFrame
<1>2. CASE Record(f) /\ RecordDropped(f)
    BY <1>2 DEF IInv, TypeOK, RowsOK, TasksOK, RobotsOK, WireOK, Record, RecordDropped
<1>3. CASE Record(f) /\ RecordLive(f)
  <2>. DEFINE trigger == TriggerForReport(status[f.run], f.exec)
  <2>1. /\ report' \in [Runs -> Nat]
        /\ reconnect' \in [Robots -> Reconnect]
    <3>1. Touch(f)
        BY <1>3 DEF RecordLive
    <3>2. \A b \in Robots : [reconnect[b] EXCEPT !.heard = @ \cup {f.run}] \in Reconnect
        BY <1>a DEF IInv, TypeOK, TasksOK, Reconnect
    <3>. QED  BY <1>a, <3>1, <3>2 DEF IInv, TypeOK, RowsOK, TasksOK, Touch
  <2>2. trigger \in Triggers
      BY <1>a DEF TriggerForReport, Triggers, ExecStatuses, OutcomeReports, ProgressReports
  <2>3. /\ Written
        /\ failure' \in [Runs -> SUBSET Errors]
        /\ stageRows' \in [Runs -> [Stages -> StageRow]]
    <3>1. ASSUME NEW to \in TerminalStatuses, RecordOutcome(f, trigger, to)
          PROVE  <2>3!1 /\ <2>3!2 /\ <2>3!3
      <4>1. Written
          BY <1>a, <2>2, <3>1, MoveTypes, ConstantsAreTyped
             DEF RecordOutcome, IInv, TypeOK, Acks
      <4>2. Closed(Overlay(stageRows[f.run], f.header, f.stages), Plan, to)
                \in [Stages -> StageRow]
          BY <1>a, <1>b, <1>c, OverlayRows, ClosedRows
      <4>3. stageRows' \in [Runs -> [Stages -> StageRow]]
          BY <3>1, <4>2, <1>d DEF RecordOutcome
      <4>4. failure' \in [Runs -> SUBSET Errors]
          BY <1>a, <3>1 DEF RecordOutcome, IInv, TypeOK, RowsOK, Errors
      <4>. QED  BY <4>1, <4>3, <4>4
    <3>2. ASSUME NEW to \in ExecutingStatuses, RecordProgress(f, trigger, to)
          PROVE  <2>3!1 /\ <2>3!2 /\ <2>3!3
      <4>1. Written
          BY <1>a, <2>2, <3>2, MoveTypes, ConstantsAreTyped
             DEF RecordProgress, IInv, TypeOK, Acks
      <4>2. stageRows' \in [Runs -> [Stages -> StageRow]]
          BY <3>2, <1>e, <1>d DEF RecordProgress
      <4>3. failure' \in [Runs -> SUBSET Errors]
          BY <1>a, <3>2 DEF RecordProgress, IInv, TypeOK, RowsOK
      <4>. QED  BY <4>1, <4>2, <4>3
    <3>3. CASE RecordRepeat(f, trigger)
      <4>1. stageRows' \in [Runs -> [Stages -> StageRow]]
          BY <3>3, <1>e, <1>d DEF RecordRepeat, IInv, TypeOK, RowsOK
      <4>. QED  BY <3>3, <4>1 DEF RecordRepeat, IInv, TypeOK, RowsOK
    <3>. QED  BY <1>3, <3>1, <3>2, <3>3 DEF RecordLive
  <2>. QED  BY <1>3, <2>1, <2>3 DEF IInv, TypeOK, RowsOK, TasksOK, RobotsOK, WireOK, Record
<1>. QED  BY <1>1, <1>2, <1>3 DEF Record

LEMMA ConnectingTypes ==
    ASSUME RunControlAssumption, IInv, Connecting
    PROVE  TypeOK'
<1>. USE DEF vars, rowVars, taskVars, robotVars, wireVars
<1>. PICK b \in Robots :
        \/ RecordOffline(b)
        \/ FetchClaim(b)
        \/ FetchFails(b)
        \/ RecordOnline(b)
        \/ JudgeSpares(b)
        \/ \E r \in Runs : JudgeCancels(b, r) \/ CloseUnclaimed(b, r)
        \/ ReconnectFails(b)
    BY DEF Connecting
<1>a. /\ reconnect[b] \in Reconnect
      /\ NoReconnect \in Reconnect
      /\ FailedReconnect \in Reconnect
    BY DEF IInv, TypeOK, TasksOK, Reconnect, NoReconnect, FailedReconnect, ReconnectPhases, Claims
<1>b. StopClosedClaim(b) \subseteq Robots \X Runs
    BY DEF StopClosedClaim
<1>c. Conclude(b) => /\ reconnect' \in [Robots -> Reconnect]
                     /\ online' \in [Robots -> BOOLEAN]
    BY <1>a DEF Conclude, IInv, TypeOK, RowsOK, TasksOK
<1>1. CASE RecordOffline(b)
    BY <1>1 DEF IInv, TypeOK, RowsOK, TasksOK, RobotsOK, WireOK, RecordOffline
<1>2. CASE FetchClaim(b)
  <2>1. ClaimsOf(b) \subseteq Claims
      BY DEF ClaimsOf, IInv, TypeOK, RobotsOK, Claims
  <2>2. reconnect' \in [Robots -> Reconnect]
    <3>1. PICK claim \in ClaimsOf(b) :
             reconnect' = [reconnect EXCEPT ![b].phase = "fetched", ![b].claim = claim]
        BY <1>2 DEF FetchClaim
    <3>2. claim \in Claims
        BY <2>1
    <3>. QED  BY <3>1, <3>2, <1>a DEF IInv, TypeOK, TasksOK, Reconnect, ReconnectPhases
  <2>. QED  BY <1>2, <2>2 DEF IInv, TypeOK, RowsOK, TasksOK, RobotsOK, WireOK, FetchClaim
<1>3. CASE FetchFails(b)
    BY <1>3, <1>a DEF IInv, TypeOK, RowsOK, TasksOK, RobotsOK, WireOK, FetchFails
<1>4. CASE RecordOnline(b)
  <2>1. reconnect' \in [Robots -> Reconnect]
      BY <1>4, <1>a DEF RecordOnline, IInv, TypeOK, TasksOK, Reconnect, ReconnectPhases
  <2>. QED  BY <1>4, <2>1 DEF IInv, TypeOK, RowsOK, TasksOK, RobotsOK, WireOK, RecordOnline
<1>5. CASE JudgeSpares(b)
    BY <1>5, <1>b, <1>c DEF IInv, TypeOK, RowsOK, TasksOK, RobotsOK, WireOK, JudgeSpares
<1>6. ASSUME NEW r \in Runs, JudgeCancels(b, r)
      PROVE  TypeOK'
  <2>1. status[r] \in Statuses \cup {"absent"}
      BY <1>6, ConstantsAreTyped DEF JudgeCancels, Active
  <2>2. reconnect' \in [Robots -> Reconnect]
      BY <1>6, <1>a, <2>1 DEF JudgeCancels, IInv, TypeOK, TasksOK, Reconnect, ReconnectPhases
  <2>3. stops' \in SUBSET (Robots \X Runs)
    <3>1. stops' = stops \cup {<<b, r>>}
        BY <1>6 DEF JudgeCancels
    <3>. QED  BY <3>1 DEF IInv, TypeOK, WireOK
  <2>4. TasksOK' /\ WireOK'
      BY <1>6, <2>2, <2>3 DEF IInv, TypeOK, TasksOK, WireOK, JudgeCancels
  <2>. QED  BY <1>6, <2>4 DEF IInv, TypeOK, RowsOK, RobotsOK, JudgeCancels
<1>7. ASSUME NEW r \in Runs, CloseUnclaimed(b, r)
      PROVE  TypeOK'
  <2>1. CASE Unclaimed(b, r)
    <3>1. PICK to \in {"CANCELLED", "FAILED"} :
             Move(r, "RECONCILE", to, 0, "unset") /\ CloseStages(r, to)
        BY <2>1 DEF Unclaimed
    <3>2. /\ status' \in [Runs -> Statuses \cup {"absent", "deleted"}]
          /\ last' \in [Runs -> Transition \cup {NoTransition}]
        BY <3>1, MoveTypes DEF IInv, TypeOK, Triggers, Acks, Statuses, TerminalStatuses
    <3>3. stageRows' \in [Runs -> [Stages -> StageRow]]
        BY <3>1, CloseStagesTypes DEF IInv, TypeOK
    <3>. QED
        BY <1>7, <1>b, <1>c, <2>1, <3>2, <3>3
           DEF IInv, TypeOK, RowsOK, TasksOK, RobotsOK, WireOK, CloseUnclaimed, Unclaimed, Errors
  <2>2. CASE MovedOn(b, r)
      BY <1>7, <1>b, <1>c, <2>2
         DEF IInv, TypeOK, RowsOK, TasksOK, RobotsOK, WireOK, CloseUnclaimed, MovedOn
  <2>. QED  BY <1>7, <2>1, <2>2 DEF CloseUnclaimed
<1>8. CASE ReconnectFails(b)
    BY <1>8, <1>a DEF IInv, TypeOK, RowsOK, TasksOK, RobotsOK, WireOK, ReconnectFails
<1>. QED  BY <1>1, <1>2, <1>3, <1>4, <1>5, <1>6, <1>7, <1>8

LEMMA RestartTypes ==
    ASSUME RunControlAssumption, IInv, Restart
    PROVE  TypeOK'
<1>1. /\ NoReconnect \in Reconnect
      /\ [NoReconnect EXCEPT !.phase = "fetching"] \in Reconnect
      /\ FailedReconnect \in Reconnect
    BY DEF Reconnect, NoReconnect, FailedReconnect, ReconnectPhases, Claims
<1>. QED
    BY <1>1 DEF IInv, TypeOK, RowsOK, TasksOK, RobotsOK, WireOK, Restart, StartPhases,
       rowVars, robotVars

LEMMA RobotStepTypes ==
    ASSUME RunControlAssumption, IInv, RobotStep
    PROVE  TypeOK'
<1>. USE DEF vars, rowVars, taskVars, robotVars, wireVars
<1>1. ASSUME NEW r \in Runs, RobotAnswers(r)
      PROVE  TypeOK'
  <2>1. robot[r] \in Robots /\ call[r] \in Call
    <3>1. call[r] # NoCall
        BY <1>1 DEF RobotAnswers, NoCall
    <3>. QED
        BY <3>1, ConstantsAreTyped DEF IInv, TypeOK, TasksOK, CallsAreLive, RowsAreWhole, Active
  <2>2. mode' \in [Robots -> {"RUNNING", "PAUSED", "STOPPING"}]
    <3>1. call[r].op \in {"cancel", "pause", "resume"}
        BY <2>1 DEF Call, CallOps
    <3>2. UNCHANGED mode \/ Obeys(robot[r], call[r].op)
        BY <1>1 DEF RobotAnswers
    <3>3. \/ UNCHANGED mode
          \/ \E how \in {"RUNNING", "PAUSED", "STOPPING"} : mode' = [mode EXCEPT ![robot[r]] = how]
        BY <3>1, <3>2 DEF Obeys, Goes
    <3>. QED  BY <3>3 DEF IInv, TypeOK, RobotsOK
  <2>3. call' \in [Runs -> Call \cup {NoCall}]
    <3>1. \A answer \in Answers : [call[r] EXCEPT !.answer = answer] \in Call
        BY <2>1 DEF Call
    <3>2. \E answer \in {"applied", "not_held", "refused"} :
             call' = [call EXCEPT ![r].answer = answer]
        BY <1>1 DEF RobotAnswers
    <3>. QED  BY <3>1, <3>2 DEF IInv, TypeOK, TasksOK, Answers
  <2>. QED  BY <1>1, <2>2, <2>3 DEF IInv, TypeOK, RowsOK, TasksOK, RobotsOK, WireOK, RobotAnswers
<1>. SUFFICES ASSUME NEW b \in Robots,
                     \/ \E r \in Runs : RobotTakes(b, r) \/ RobotRejects(b, r) \/ RobotStops(b, r)
                     \/ RobotReports(b)
                     \/ \E exec \in OutcomeReports : RobotEnds(b, exec)
                     \/ RobotLeaves(b) \/ RobotReturns(b) \/ RobotReboots(b)
              PROVE  TypeOK'
    BY <1>1 DEF RobotStep
<1>2. ASSUME NEW r \in Runs, RobotTakes(b, r)
      PROVE  TypeOK'
    BY <1>2 DEF IInv, TypeOK, RowsOK, TasksOK, RobotsOK, WireOK, RobotTakes, Goes, StartPhases
<1>3. ASSUME NEW r \in Runs, RobotRejects(b, r)
      PROVE  TypeOK'
    BY <1>3 DEF IInv, TypeOK, RowsOK, TasksOK, RobotsOK, WireOK, RobotRejects, StartPhases
<1>4. ASSUME NEW r \in Runs, RobotStops(b, r)
      PROVE  TypeOK'
    BY <1>4 DEF IInv, TypeOK, RowsOK, TasksOK, RobotsOK, WireOK, RobotStops, Goes
<1>5. ASSUME NEW exec \in ExecStatuses, holds[b] # None, Sends(b, holds[b], exec)
      PROVE  header' \in [Robots -> Nat] /\ frames' \in SUBSET Frame
  <2>1. holds[b] \in Runs /\ header[b] + 1 \in Nat
      BY <1>5 DEF IInv, TypeOK, RobotsOK
  <2>2. \A stages \in StageReports :
           [robot |-> b, run |-> holds[b], header |-> header[b] + 1, exec |-> exec,
            stages |-> stages] \in Frame
      BY <1>5, <2>1 DEF Frame
  <2>. QED  BY <1>5, <2>1, <2>2 DEF Sends, IInv, TypeOK, RobotsOK, WireOK
<1>6. CASE RobotReports(b)
  <2>1. header' \in [Robots -> Nat] /\ frames' \in SUBSET Frame
      BY <1>6, <1>5 DEF RobotReports, ExecStatuses, ProgressReports
  <2>. QED  BY <1>6, <2>1 DEF IInv, TypeOK, RowsOK, TasksOK, RobotsOK, WireOK, RobotReports
<1>7. ASSUME NEW exec \in OutcomeReports, RobotEnds(b, exec)
      PROVE  TypeOK'
  <2>1. header' \in [Robots -> Nat] /\ frames' \in SUBSET Frame
      BY <1>7, <1>5 DEF RobotEnds, ExecStatuses
  <2>. QED  BY <1>7, <2>1 DEF IInv, TypeOK, RowsOK, TasksOK, RobotsOK, WireOK, RobotEnds
<1>8. CASE RobotLeaves(b)
    BY <1>8 DEF IInv, TypeOK, RowsOK, TasksOK, RobotsOK, WireOK, RobotLeaves
<1>9. CASE RobotReturns(b)
  <2>1. reconnect' \in [Robots -> Reconnect]
      BY <1>9 DEF RobotReturns, IInv, TypeOK, TasksOK, Reconnect, ReconnectPhases
  <2>. QED  BY <1>9, <2>1 DEF IInv, TypeOK, RowsOK, TasksOK, RobotsOK, WireOK, RobotReturns
<1>10. CASE RobotReboots(b)
    BY <1>10 DEF IInv, TypeOK, RowsOK, TasksOK, RobotsOK, WireOK, RobotReboots
<1>. QED  BY <1>2, <1>3, <1>4, <1>6, <1>7, <1>8, <1>9, <1>10

-----------------------------------------------------------------------------
(* What a step may do to a run                                             *)

\* The run's row as far as the lifecycle goes is left as it is.
Untouched(r) ==
    /\ status'[r] = status[r]
    /\ last'[r] = last[r]
    /\ stageRows'[r] = stageRows[r]
    /\ mission'[r] = mission[r] /\ robot'[r] = robot[r] /\ consent'[r] = consent[r]

\* A live run lives on, or ends with all its stages; its mission, robot and
\* consent stay.
Lives(r) ==
    /\ status[r] \in ActiveStatuses
    /\ status'[r] \in Statuses
    /\ status'[r] \in TerminalStatuses => StagesEnded(r)'
    /\ mission'[r] = mission[r] /\ robot'[r] = robot[r] /\ consent'[r] = consent[r]

Deleted(r) == status[r] \in TerminalStatuses /\ status'[r] = "deleted"

\* Every step but an insert leaves a run as it is, or moves it while it is live,
\* or deletes it once it has ended; a run with a control call in progress moves
\* only as that call ends, and no two runs move in one step.
RowStep(r) ==
    \/ Untouched(r)
    \/ /\ Lives(r) \/ Deleted(r)
       /\ call[r] = NoCall \/ call'[r] = NoCall

RunsStep ==
    /\ \A r \in Runs : RowStep(r)
    /\ \A q, r \in Runs : q = r \/ Untouched(q) \/ Untouched(r)

\* A pause or a resume never ends a run.
LEMMA SteersLeadOn ==
    ASSUME NEW op \in {"pause", "resume"}, NEW from, NEW to,
           Allowed(from, RequestOf(op), to)
    PROVE  to \notin TerminalStatuses
BY DEF RequestOf, Allowed, AllowedTransitions, ReplyTransitions, RequestTransitions,
       ProgressTransitions, CloseTransitions, ReconcileTransitions, OutcomeTransitions,
       TerminalStatuses

LEMMA RowSteps ==
    ASSUME RunControlAssumption, IInv, [Next]_vars, ~ \E q \in Runs : InsertRun(q)
    PROVE  RunsStep
<1>. USE DEF vars, rowVars, taskVars, robotVars, wireVars
<1>m. ASSUME NEW r \in Runs, Active(r), NEW trigger, NEW to \in Statuses, NEW hdr, NEW ack,
             Move(r, trigger, to, hdr, ack), UNCHANGED <<mission, robot, consent>>,
             RunUnlocked(r) \/ call'[r] = NoCall,
             to \in TerminalStatuses => StagesEnded(r)',
             \A q \in Runs \ {r} : stageRows'[q] = stageRows[q]
      PROVE  RunsStep
    BY <1>m, MoveIsLocal DEF IInv, TypeOK, RunsStep, RowStep, Untouched, Lives, Active, RunUnlocked
<1>u. UNCHANGED <<status, last, stageRows, mission, robot, consent>> => RunsStep
    BY DEF RunsStep, RowStep, Untouched
<1>c. ASSUME NEW r \in Runs, NEW to, CloseStages(r, to)
      PROVE  StagesEnded(r)' /\ \A q \in Runs \ {r} : stageRows'[q] = stageRows[q]
    BY <1>c, CloseStagesTypes DEF IInv, TypeOK
<1>e. "DISPATCHED" \in Statuses /\ "PENDING" \in Statuses /\ "CANCELLING" \in Statuses
      /\ "CANCELLED" \in Statuses /\ "REJECTED" \in Statuses /\ "FAILED" \in Statuses
      /\ "PENDING" \in ActiveStatuses /\ "CANCELLING" \in ActiveStatuses
      /\ "PENDING" \notin TerminalStatuses /\ "CANCELLING" \notin TerminalStatuses
      /\ "DISPATCHED" \notin TerminalStatuses
    BY DEF Statuses, ActiveStatuses, ExecutingStatuses, TerminalStatuses
<1>1. CASE Dispatching
  <2>1. CASE \E m \in Missions, r \in Runs, b \in Robots, c \in BOOLEAN : BeginDispatch(m, r, b, c)
      BY <2>1, <1>u DEF BeginDispatch
  <2>2. CASE \E r \in Runs : \/ InsertRefused(r) \/ PrepareFails(r)
                             \/ DispatchUnanswered(r) \/ SettleFails(r)
      BY <2>2, <1>u DEF InsertRefused, PrepareFails, SettleFails, DispatchUnanswered
  <2>3. ASSUME NEW r \in Runs, Settle(r)
        PROVE  RunsStep
    <3>1. CASE SettleMissing(r) \/ SettleOvertaken(r) \/ SettleStands(r)
        BY <3>1, <1>u DEF SettleMissing, SettleOvertaken, SettleStands
    <3>2. CASE SettleAccepted(r) \/ SettleUnconfirmed(r)
        BY <2>3, <3>2, <1>m, <1>e DEF Settle, SettleAccepted, SettleUnconfirmed, Active
    <3>3. CASE SettleRejected(r)
      <4>1. PICK to \in {"CANCELLED", "REJECTED"} :
               Move(r, "REJECT", to, 0, "unset") /\ CloseStages(r, to)
          BY <3>3 DEF SettleRejected
      <4>. QED  BY <2>3, <3>3, <4>1, <1>m, <1>c, <1>e DEF Settle, SettleRejected, Active
    <3>. QED  BY <2>3, <3>1, <3>2, <3>3 DEF Settle
  <2>. QED  BY <1>1, <2>1, <2>2, <2>3 DEF Dispatching
<1>2. CASE Controlling
  <2>. PICK r \in Runs :
          \/ CancelDeferred(r)
          \/ \E op \in CallOps : BeginCall(r, op)
          \/ CallUnanswered(r)
          \/ EndCancel(r)
          \/ EndSteer(r)
          \/ CallFails(r)
          \/ CloseRun(r)
          \/ DeleteRun(r)
      BY <1>2 DEF Controlling
  <2>1. CASE CancelDeferred(r)
      BY <2>1, <1>m, <1>e DEF CancelDeferred, Targets
  <2>2. CASE CallUnanswered(r) \/ CallFails(r) \/ \E op \in CallOps : BeginCall(r, op)
      BY <2>2, <1>u DEF CallUnanswered, CallFails, BeginCall
  <2>3. CASE EndCancel(r)
    <3>1. Active(r) /\ call'[r] = NoCall
        BY <2>3 DEF EndCancel, NoCall, IInv, CallsAreLive, TypeOK, TasksOK
    <3>2. CASE CancelRecorded(r)
        BY <2>3, <3>1, <3>2, <1>m, <1>e DEF EndCancel, CancelRecorded
    <3>3. CASE CancelSettled(r)
        BY <2>3, <3>1, <3>3, <1>m, <1>c, <1>e DEF EndCancel, CancelSettled
    <3>. QED  BY <2>3, <3>2, <3>3 DEF EndCancel
  <2>4. CASE EndSteer(r)
    <3>1. Active(r) /\ call'[r] = NoCall
        BY <2>4 DEF EndSteer, NoCall, IInv, CallsAreLive, TypeOK, TasksOK
    <3>2. CASE SteerDropped(r)
        BY <2>4, <3>2, <1>u DEF EndSteer, SteerDropped
    <3>3. ASSUME NEW to \in Statuses, SteerApplied(r, to)
          PROVE  RunsStep
      <4>1. to \notin TerminalStatuses
          BY <2>4, <3>3, SteersLeadOn DEF EndSteer, SteerApplied
      <4>. QED  BY <2>4, <3>1, <3>3, <4>1, <1>m DEF EndSteer, SteerApplied
    <3>. QED  BY <2>4, <3>2, <3>3 DEF EndSteer
  <2>5. CASE CloseRun(r)
      BY <2>5, <1>m, <1>c, <1>e DEF CloseRun, Targets
  <2>6. CASE DeleteRun(r)
    <3>1. Deleted(r) /\ call[r] = NoCall
        BY <2>6 DEF DeleteRun, Terminal, RunUnlocked, Deleted, IInv, TypeOK, RowsOK
    <3>2. \A q \in Runs \ {r} : Untouched(q)
        BY <2>6 DEF DeleteRun, Untouched, IInv, TypeOK, RowsOK
    <3>. QED  BY <3>1, <3>2 DEF RunsStep, RowStep
  <2>. QED  BY <2>1, <2>2, <2>3, <2>4, <2>5, <2>6
<1>3. CASE Recording
  <2>. PICK f \in frames : Record(f) \/ LoseFrame(f)
      BY <1>3 DEF Recording
  <2>. DEFINE trigger == TriggerForReport(status[f.run], f.exec)
  <2>1. f.run \in Runs
      BY DEF IInv, TypeOK, WireOK, Frame
  <2>2. CASE LoseFrame(f)
      BY <2>2, <1>u DEF LoseFrame
  <2>3. CASE Record(f) /\ RecordDropped(f)
      BY <2>3, <1>u DEF Record, RecordDropped
  <2>4. CASE Record(f) /\ RecordLive(f)
    <3>1. /\ Active(f.run)
          /\ RunUnlocked(f.run)
          /\ UNCHANGED <<mission, robot, consent>>
        BY <2>4 DEF Record, RecordLive, Touch
    <3>2. ASSUME NEW to \in TerminalStatuses, RecordOutcome(f, trigger, to)
          PROVE  RunsStep
      <4>1. /\ \A q \in Runs \ {f.run} : stageRows'[q] = stageRows[q]
            /\ stageRows'[f.run] = Closed(Overlay(stageRows[f.run], f.header, f.stages), Plan, to)
          BY <2>1, <3>2 DEF RecordOutcome, IInv, TypeOK, RowsOK
      <4>2. StagesEnded(f.run)'
        <5>1. /\ stageRows[f.run] \in [Stages -> StageRow] /\ f.header \in Nat
              /\ \A s \in DOMAIN f.stages : f.stages[s] \in StageStatuses
              /\ Plan \in SUBSET Stages
            BY <2>1 DEF IInv, TypeOK, RowsOK, WireOK, Frame, RunControlAssumption, Plan
        <5>. DEFINE shown == Overlay(stageRows[f.run], f.header, f.stages)
        <5>2. shown \in [Stages -> StageRow]
            BY <5>1, OverlayRows
        <5>3. \A s \in Plan : Closed(shown, Plan, to)[s].status \in EndedStageStatuses
          <6>. HIDE DEF shown
          <6>. QED  BY <5>1, <5>2, ClosedRows
        <5>. QED  BY <4>1, <5>3 DEF StagesEnded
      <4>. QED  BY <2>1, <3>1, <3>2, <4>1, <4>2, <1>m, ConstantsAreTyped DEF RecordOutcome
    <3>3. ASSUME NEW to \in ExecutingStatuses, RecordProgress(f, trigger, to)
          PROVE  RunsStep
      <4>1. \A q \in Runs \ {f.run} : stageRows'[q] = stageRows[q]
          BY <3>3 DEF RecordProgress, IInv, TypeOK, RowsOK
      <4>. QED
          BY <2>1, <3>1, <3>3, <4>1, <1>m, ConstantsAreTyped, StatusesAreSplit
             DEF RecordProgress
    <3>4. CASE RecordRepeat(f, trigger)
      <4>1. \A q \in Runs \ {f.run} : stageRows'[q] = stageRows[q]
          BY <3>4 DEF RecordRepeat, IInv, TypeOK, RowsOK
      <4>. QED
          BY <2>1, <3>1, <3>4, <4>1, ConstantsAreTyped, StatusesAreSplit
             DEF RecordRepeat, RunsStep, RowStep, Untouched, Lives, Active, RunUnlocked
    <3>. QED  BY <2>4, <3>2, <3>3, <3>4 DEF RecordLive
  <2>. QED  BY <2>2, <2>3, <2>4 DEF Record
<1>4. CASE Connecting
  <2>. PICK b \in Robots :
          \/ RecordOffline(b)
          \/ FetchClaim(b)
          \/ FetchFails(b)
          \/ RecordOnline(b)
          \/ JudgeSpares(b)
          \/ \E r \in Runs : JudgeCancels(b, r) \/ CloseUnclaimed(b, r)
          \/ ReconnectFails(b)
      BY <1>4 DEF Connecting
  <2>1. CASE \/ RecordOffline(b) \/ FetchClaim(b) \/ FetchFails(b) \/ RecordOnline(b)
             \/ JudgeSpares(b) \/ \E r \in Runs : JudgeCancels(b, r)
             \/ ReconnectFails(b)
      BY <2>1, <1>u DEF RecordOffline, FetchClaim, FetchFails, RecordOnline, JudgeSpares,
         JudgeCancels, ReconnectFails
  <2>2. ASSUME NEW r \in Runs, CloseUnclaimed(b, r)
        PROVE  RunsStep
    <3>1. CASE MovedOn(b, r)
        BY <2>2, <3>1, <1>u DEF CloseUnclaimed, MovedOn
    <3>2. CASE Unclaimed(b, r)
      <4>1. PICK to \in {"CANCELLED", "FAILED"} :
               Move(r, "RECONCILE", to, 0, "unset") /\ CloseStages(r, to)
          BY <3>2 DEF Unclaimed
      <4>2. Active(r)
          BY <2>2, <3>2 DEF CloseUnclaimed, Unclaimed, IInv, ClosingsAreLive, Active
      <4>. QED  BY <2>2, <4>1, <4>2, <1>m, <1>c, <1>e DEF CloseUnclaimed
    <3>. QED  BY <2>2, <3>1, <3>2 DEF CloseUnclaimed
  <2>. QED  BY <2>1, <2>2
<1>5. CASE Restart
    BY <1>5, <1>u DEF Restart
<1>6. CASE RobotStep
    BY <1>6, <1>u DEF RobotStep, RobotAnswers, RobotTakes, RobotRejects, RobotStops, RobotReports,
       RobotEnds, RobotLeaves, RobotReturns, RobotReboots
<1>7. CASE UNCHANGED vars
    BY <1>7, <1>u
<1>. QED  BY <1>1, <1>2, <1>3, <1>4, <1>5, <1>6, <1>7 DEF Next

-----------------------------------------------------------------------------
(* The other parts of the invariant                                        *)

\* What an insert writes: a whole row, of a robot no active run has.
LEMMA InsertStep ==
    ASSUME RunControlAssumption, IInv, NEW r \in Runs, InsertRun(r)
    PROVE  /\ status[r] = "absent" /\ call[r] = NoCall
           /\ status'[r] = "PENDING"
           /\ mission'[r] \in Missions /\ robot'[r] \in Robots
           /\ starting[r] # NoStart
           /\ mission'[r] = starting[r].mission /\ consent'[r] = starting[r].consent
           /\ \A q \in Runs : Active(q) => robot[q] # robot'[r]
           /\ starting'[r] = NoStart
           /\ \A q \in Runs \ {r} :
                 /\ Untouched(q)
                 /\ starting'[q] = starting[q]
           /\ UNCHANGED <<call, reconnect>>
<1>. USE DEF IInv, TypeOK, RowsOK, TasksOK
<1>1. starting[r] \in Start /\ status[r] = "absent"
    BY DEF InsertRun, StartsAreAbsent
<1>2. call[r] = NoCall
    BY <1>1 DEF CallsAreLive, Active, ActiveStatuses, ExecutingStatuses
<1>. QED  BY <1>1, <1>2 DEF InsertRun, Start, Untouched, RobotIndexFree, RobotFree

LEMMA RowsStayWhole ==
    ASSUME RunControlAssumption, IInv, [Next]_vars
    PROVE  RowsAreWhole'
<1>1. CASE \E r \in Runs : InsertRun(r)
    BY <1>1, InsertStep DEF RowsAreWhole, Untouched, IInv
<1>2. CASE ~ \E r \in Runs : InsertRun(r)
    BY <1>2, RowSteps, ConstantsAreTyped, StatusesAreSplit
       DEF RunsStep, RowStep, Untouched, Lives, Deleted, RowsAreWhole, IInv
<1>. QED  BY <1>1, <1>2

\* A run is active after a step that inserts none only if it was before, and it
\* keeps its mission, its robot and its consent.
LEMMA ActiveRowsStay ==
    ASSUME RunControlAssumption, IInv, [Next]_vars, ~ \E q \in Runs : InsertRun(q),
           NEW r \in Runs, Active(r)'
    PROVE  /\ Active(r)
           /\ mission'[r] = mission[r] /\ robot'[r] = robot[r] /\ consent'[r] = consent[r]
BY RowSteps, StatusesAreSplit DEF RunsStep, RowStep, Untouched, Lives, Deleted, Active

LEMMA RobotsStaySingle ==
    ASSUME RunControlAssumption, IInv, [Next]_vars
    PROVE  OneRunPerRobot'
<1>1. CASE \E r \in Runs : InsertRun(r)
    BY <1>1, InsertStep DEF OneRunPerRobot, Untouched, Active, IInv
<1>2. CASE ~ \E r \in Runs : InsertRun(r)
    BY <1>2, ActiveRowsStay DEF OneRunPerRobot, IInv
<1>. QED  BY <1>1, <1>2

LEMMA StagesStayEnded ==
    ASSUME RunControlAssumption, IInv, [Next]_vars
    PROVE  EndedRunHasEndedStages'
<1>. SUFFICES ASSUME NEW r \in Runs, Terminal(r)'
              PROVE  StagesEnded(r)'
    BY DEF EndedRunHasEndedStages, StagesEnded
<1>1. CASE Untouched(r)
    BY <1>1 DEF Untouched, Terminal, IInv, EndedRunHasEndedStages, StagesEnded
<1>2. CASE \E q \in Runs : InsertRun(q)
    BY <1>1, <1>2, InsertStep DEF Terminal, TerminalStatuses
<1>3. CASE ~ \E q \in Runs : InsertRun(q)
    BY <1>1, <1>3, RowSteps DEF RunsStep, RowStep, Lives, Deleted, Terminal, TerminalStatuses
<1>. QED  BY <1>2, <1>3

-----------------------------------------------------------------------------
(* Dispatches on their way to the insert                                   *)

\* Only prepare adds to the dispatches on their way to their insert.
LEMMA StartSteps ==
    ASSUME IInv, [Next]_vars,
           ~ \E m \in Missions, r \in Runs, b \in Robots, c \in BOOLEAN :
                BeginDispatch(m, r, b, c)
    PROVE  \A q \in Runs : starting'[q] = starting[q] \/ starting'[q] = NoStart
<1>. USE DEF vars, rowVars, taskVars, robotVars, wireVars
<1>1. CASE Dispatching
    BY <1>1 DEF Dispatching, InsertRun, InsertRefused, PrepareFails, SettleFails,
       DispatchUnanswered, Settle, IInv, TypeOK, TasksOK
<1>2. CASE Controlling
    BY <1>2 DEF Controlling, CancelDeferred, BeginCall, CallUnanswered, EndCancel, EndSteer,
       CallFails, CloseRun, DeleteRun
<1>3. CASE Recording
    BY <1>3 DEF Recording, Record, LoseFrame
<1>4. CASE Connecting
    BY <1>4 DEF Connecting, RecordOffline, FetchClaim, FetchFails, RecordOnline, JudgeSpares,
       JudgeCancels, CloseUnclaimed, ReconnectFails
<1>5. CASE Restart
    BY <1>5 DEF Restart
<1>6. CASE RobotStep
    BY <1>6 DEF RobotStep, RobotAnswers, RobotTakes, RobotRejects, RobotStops, RobotReports,
       RobotEnds, RobotLeaves, RobotReturns, RobotReboots
<1>. QED  BY <1>1, <1>2, <1>3, <1>4, <1>5, <1>6 DEF Next

\* What prepare has checked when it is about to insert.
LEMMA BeginStep ==
    ASSUME IInv, NEW m \in Missions, NEW r \in Runs, NEW b \in Robots, NEW c \in BOOLEAN,
           BeginDispatch(m, r, b, c)
    PROVE  /\ status[r] = "absent"
           /\ starting'[r].mission = m /\ starting'[r].consent = c
           /\ \A q \in Runs : starting[q].mission # m
           /\ c \/ \A q \in Runs : Active(q) => mission[q] # m
           /\ \A q \in Runs \ {r} : starting'[q] = starting[q]
           /\ UNCHANGED <<status, mission>>
BY DEF BeginDispatch, MissionUnlocked, MissionFree, IInv, TypeOK, TasksOK, rowVars

LEMMA StartsStayAbsent ==
    ASSUME RunControlAssumption, IInv, [Next]_vars
    PROVE  StartsAreAbsent'
<1>1. CASE \E r \in Runs : InsertRun(r)
    BY <1>1, InsertStep DEF StartsAreAbsent, Untouched, IInv
<1>2. CASE \E m \in Missions, r \in Runs, b \in Robots, c \in BOOLEAN : BeginDispatch(m, r, b, c)
    BY <1>2, BeginStep DEF StartsAreAbsent, IInv
<1>3. CASE /\ ~ \E r \in Runs : InsertRun(r)
           /\ ~ \E m \in Missions, r \in Runs, b \in Robots, c \in BOOLEAN :
                    BeginDispatch(m, r, b, c)
  <2>1. \A r \in Runs : status[r] = "absent" => status'[r] = "absent"
      BY <1>3, RowSteps, StatusesAreSplit DEF RunsStep, RowStep, Untouched, Lives, Deleted
  <2>. QED  BY <1>3, <2>1, StartSteps DEF StartsAreAbsent, IInv
<1>. QED  BY <1>1, <1>2, <1>3

LEMMA StartsStayAlone ==
    ASSUME RunControlAssumption, IInv, [Next]_vars
    PROVE  StartsAreAlone'
<1>1. CASE \E m \in Missions, r \in Runs, b \in Robots, c \in BOOLEAN : BeginDispatch(m, r, b, c)
    BY <1>1, BeginStep DEF StartsAreAlone, IInv
<1>2. CASE ~ \E m \in Missions, r \in Runs, b \in Robots, c \in BOOLEAN :
                BeginDispatch(m, r, b, c)
    BY <1>2, StartSteps DEF StartsAreAlone, IInv
<1>. QED  BY <1>1, <1>2

LEMMA StartsKeepConsent ==
    ASSUME RunControlAssumption, IInv, [Next]_vars
    PROVE  StartsHaveConsent'
<1>1. ASSUME NEW x \in Runs, InsertRun(x)
      PROVE  StartsHaveConsent'
  <2>. SUFFICES ASSUME NEW q \in Runs, NEW r \in Runs, starting'[r] # NoStart, Active(q)',
                       mission'[q] = starting'[r].mission
                PROVE  starting'[r].consent
      BY DEF StartsHaveConsent
  <2>1. r # x /\ starting'[r] = starting[r]
      BY <1>1, InsertStep
  <2>2. CASE q = x
      BY <1>1, <2>1, <2>2, InsertStep DEF StartsAreAlone, IInv
  <2>3. CASE q # x
      BY <1>1, <2>1, <2>3, InsertStep DEF Untouched, Active, StartsHaveConsent, IInv
  <2>. QED  BY <2>2, <2>3
<1>2. CASE \E m \in Missions, r \in Runs, b \in Robots, c \in BOOLEAN : BeginDispatch(m, r, b, c)
    BY <1>2, BeginStep DEF StartsHaveConsent, Active, IInv
<1>3. CASE /\ ~ \E r \in Runs : InsertRun(r)
           /\ ~ \E m \in Missions, r \in Runs, b \in Robots, c \in BOOLEAN :
                    BeginDispatch(m, r, b, c)
    BY <1>3, ActiveRowsStay, StartSteps DEF StartsHaveConsent, IInv
<1>. QED  BY <1>1, <1>2, <1>3

LEMMA ConcurrencyStaysConsented ==
    ASSUME RunControlAssumption, IInv, [Next]_vars
    PROVE  ConcurrencyIsConsented'
<1>1. ASSUME NEW x \in Runs, InsertRun(x)
      PROVE  ConcurrencyIsConsented'
  <2>. SUFFICES ASSUME NEW q \in Runs, NEW r \in Runs, Active(q)', Active(r)',
                       mission'[q] = mission'[r], q # r
                PROVE  consent'[q] \/ consent'[r]
      BY DEF ConcurrencyIsConsented
  <2>1. ASSUME NEW p \in Runs \ {x}, Active(p)', mission'[p] = mission'[x]
        PROVE  consent'[x]
      BY <1>1, <2>1, InsertStep DEF Untouched, Active, StartsHaveConsent, IInv
  <2>2. CASE q # x /\ r # x
      BY <1>1, <2>2, InsertStep DEF Untouched, Active, ConcurrencyIsConsented, IInv
  <2>. QED  BY <2>1, <2>2
<1>2. CASE ~ \E r \in Runs : InsertRun(r)
    BY <1>2, ActiveRowsStay DEF ConcurrencyIsConsented, IInv
<1>. QED  BY <1>1, <1>2

-----------------------------------------------------------------------------
(* Calls and closings in progress                                          *)

\* A step of Next keeps a call, begins it on the status of a live run that it
\* leaves as it is, changes its answer, or ends it.
LEMMA CallSteps ==
    ASSUME RunControlAssumption, IInv, [Next]_vars, NEW r \in Runs, call'[r] # NoCall
    PROVE  \/ call[r] # NoCall /\ call'[r].seen = call[r].seen
           \/ Active(r) /\ status' = status /\ call'[r].seen = status[r]
<1>. USE DEF vars, rowVars, taskVars, robotVars, wireVars
<1>1. CASE UNCHANGED call
    BY <1>1
<1>2. CASE Controlling
  <2>. PICK q \in Runs :
          \/ CancelDeferred(q)
          \/ \E op \in CallOps : BeginCall(q, op)
          \/ CallUnanswered(q)
          \/ EndCancel(q)
          \/ EndSteer(q)
          \/ CallFails(q)
          \/ CloseRun(q)
          \/ DeleteRun(q)
      BY <1>2 DEF Controlling
  <2>1. CASE CancelDeferred(q) \/ CloseRun(q) \/ DeleteRun(q)
      BY <2>1, <1>1 DEF CancelDeferred, CloseRun, DeleteRun
  <2>2. ASSUME NEW op \in CallOps, BeginCall(q, op)
        PROVE  \/ call[r] # NoCall /\ call'[r].seen = call[r].seen
               \/ Active(r) /\ status' = status /\ call'[r].seen = status[r]
      BY <2>2 DEF BeginCall, Targets, IInv, TypeOK, TasksOK
  <2>3. CASE CallUnanswered(q)
      BY <2>3 DEF CallUnanswered, NoCall, Call, IInv, TypeOK, TasksOK
  <2>4. CASE EndCancel(q) \/ EndSteer(q) \/ CallFails(q)
      BY <2>4 DEF EndCancel, EndSteer, CallFails, IInv, TypeOK, TasksOK
  <2>. QED  BY <2>1, <2>2, <2>3, <2>4
<1>3. CASE Dispatching
    BY <1>1, <1>3 DEF Dispatching, BeginDispatch, InsertRun, InsertRefused, PrepareFails,
       SettleFails, DispatchUnanswered, Settle
<1>4. CASE Recording
    BY <1>1, <1>4 DEF Recording, Record, LoseFrame
<1>5. CASE Connecting
    BY <1>1, <1>5 DEF Connecting, RecordOffline, FetchClaim, FetchFails, RecordOnline,
       JudgeSpares, JudgeCancels, CloseUnclaimed, ReconnectFails
<1>6. CASE Restart
    BY <1>6 DEF Restart
<1>7. CASE RobotStep
  <2>1. ASSUME NEW q \in Runs, RobotAnswers(q)
        PROVE  call[r] # NoCall /\ call'[r].seen = call[r].seen
    <3>1. PICK answer : call' = [call EXCEPT ![q].answer = answer]
        BY <2>1 DEF RobotAnswers
    <3>2. call[q] # NoCall
        BY <2>1 DEF RobotAnswers, NoCall
    <3>. QED  BY <3>1, <3>2 DEF IInv, TypeOK, TasksOK, Call
  <2>2. CASE \E b \in Robots :
                \/ \E q \in Runs : RobotTakes(b, q) \/ RobotRejects(b, q) \/ RobotStops(b, q)
                \/ RobotReports(b)
                \/ \E exec \in OutcomeReports : RobotEnds(b, exec)
                \/ RobotLeaves(b) \/ RobotReturns(b) \/ RobotReboots(b)
      BY <1>1, <2>2 DEF RobotTakes, RobotRejects, RobotStops, RobotReports, RobotEnds,
         RobotLeaves, RobotReturns, RobotReboots
  <2>. QED  BY <1>7, <2>1, <2>2 DEF RobotStep
<1>. QED  BY <1>1, <1>2, <1>3, <1>4, <1>5, <1>6, <1>7 DEF Next

LEMMA CallsStayLive ==
    ASSUME RunControlAssumption, IInv, [Next]_vars
    PROVE  CallsAreLive'
<1>. SUFFICES ASSUME NEW r \in Runs, call'[r] # NoCall
              PROVE  status'[r] = call'[r].seen /\ Active(r)'
    BY DEF CallsAreLive
<1>1. CASE call[r] # NoCall /\ call'[r].seen = call[r].seen
  <2>1. status'[r] = status[r]
    <3>1. CASE \E q \in Runs : InsertRun(q)
        BY <1>1, <3>1, InsertStep DEF Untouched
    <3>2. CASE ~ \E q \in Runs : InsertRun(q)
        BY <1>1, <3>2, RowSteps DEF RunsStep, RowStep, Untouched
    <3>. QED  BY <3>1, <3>2
  <2>. QED  BY <1>1, <2>1 DEF CallsAreLive, Active, IInv
<1>2. CASE Active(r) /\ status' = status /\ call'[r].seen = status[r]
    BY <1>2 DEF Active
<1>. QED  BY <1>1, <1>2, CallSteps

LEMMA ClosingsStayLive ==
    ASSUME RunControlAssumption, IInv, [Next]_vars
    PROVE  ClosingsAreLive'
<1>. USE DEF vars, rowVars, taskVars, robotVars, wireVars
<1>0. CASE UNCHANGED reconnect
    BY <1>0 DEF IInv, ClosingsAreLive
<1>1. CASE Connecting
  <2>. PICK b \in Robots :
          \/ RecordOffline(b)
          \/ FetchClaim(b)
          \/ FetchFails(b)
          \/ RecordOnline(b)
          \/ JudgeSpares(b)
          \/ \E r \in Runs : JudgeCancels(b, r) \/ CloseUnclaimed(b, r)
          \/ ReconnectFails(b)
      BY <1>1 DEF Connecting
  <2>a. reconnect[b] \in Reconnect
      BY DEF IInv, TypeOK, TasksOK
  <2>1. CASE RecordOffline(b)
      BY <2>1, <1>0 DEF RecordOffline
  <2>2. CASE FetchClaim(b)
    <3>1. /\ reconnect'[b].phase = "fetched"
          /\ \A c \in Robots \ {b} : reconnect'[c] = reconnect[c]
      <4>1. PICK claim : reconnect' = [reconnect EXCEPT ![b].phase = "fetched", ![b].claim = claim]
          BY <2>2 DEF FetchClaim
      <4>. QED  BY <4>1, <2>a DEF IInv, TypeOK, TasksOK, Reconnect
    <3>2. UNCHANGED status
        BY <2>2 DEF FetchClaim
    <3>. QED  BY <3>1, <3>2 DEF IInv, ClosingsAreLive
  <2>3. CASE RecordOnline(b)
    <3>1. /\ reconnect'[b].phase = "judging"
          /\ \A c \in Robots \ {b} : reconnect'[c] = reconnect[c]
        BY <2>3, <2>a DEF RecordOnline, IInv, TypeOK, TasksOK, Reconnect
    <3>. QED  BY <3>1 DEF IInv, ClosingsAreLive
  <2>4. CASE reconnect' = [reconnect EXCEPT ![b] = NoReconnect]
      BY <2>4 DEF NoReconnect, IInv, TypeOK, TasksOK, ClosingsAreLive
  <2>6. CASE reconnect' = [reconnect EXCEPT ![b] = FailedReconnect]
      BY <2>6 DEF FailedReconnect, NoReconnect, IInv, TypeOK, TasksOK, ClosingsAreLive
  <2>5. ASSUME NEW r \in Runs, JudgeCancels(b, r)
        PROVE  ClosingsAreLive'
    <3>1. /\ reconnect'[b].run = r /\ reconnect'[b].seen = status[r]
          /\ \A c \in Robots \ {b} : reconnect'[c] = reconnect[c]
        BY <2>5, <2>a DEF JudgeCancels, IInv, TypeOK, TasksOK, Reconnect
    <3>. QED  BY <2>5, <3>1 DEF JudgeCancels, Active, IInv, ClosingsAreLive
  <2>. QED
      BY <2>1, <2>2, <2>3, <2>4, <2>5, <2>6 DEF FetchFails, JudgeSpares, CloseUnclaimed, Conclude,
         ReconnectFails
<1>2. CASE Recording
  <2>1. UNCHANGED reconnect \/ \E f \in frames : Touch(f)
      BY <1>2 DEF Recording, Record, LoseFrame, RecordDropped, RecordLive
  <2>2. ASSUME NEW f \in frames, Touch(f)
        PROVE  ClosingsAreLive'
      BY <2>2 DEF Touch, IInv, TypeOK, TasksOK, Reconnect, ClosingsAreLive
  <2>. QED  BY <2>1, <2>2, <1>0
<1>3. CASE Restart
    BY <1>3 DEF Restart, NoReconnect, FailedReconnect, ClosingsAreLive
<1>4. CASE RobotStep
  <2>1. ASSUME NEW b \in Robots, RobotReturns(b)
        PROVE  ClosingsAreLive'
      BY <2>1 DEF RobotReturns, IInv, TypeOK, TasksOK, Reconnect, ClosingsAreLive
  <2>. QED
      BY <1>0, <1>4, <2>1 DEF RobotStep, RobotAnswers, RobotTakes, RobotRejects, RobotStops,
         RobotReports, RobotEnds, RobotLeaves, RobotReboots
<1>5. CASE Dispatching \/ Controlling
    BY <1>0, <1>5 DEF Dispatching, BeginDispatch, InsertRun, InsertRefused, PrepareFails,
       SettleFails, DispatchUnanswered, Settle, Controlling, CancelDeferred, BeginCall,
       CallUnanswered, EndCancel, EndSteer, CallFails, CloseRun, DeleteRun
<1>. QED  BY <1>0, <1>1, <1>2, <1>3, <1>4, <1>5 DEF Next

-----------------------------------------------------------------------------
(* The refinement of RobotReservation                                      *)

\* A robot with one active run is reserved for it, and with none for none.
LEMMA HolderIs ==
    ASSUME NEW b \in Robots
    PROVE  /\ RunsOf(b) = {} => HolderOf(b) = None
           /\ \A r : RunsOf(b) = {r} => HolderOf(b) = r
BY DEF HolderOf

LEMMA HolderWillBe ==
    ASSUME NEW b \in Robots
    PROVE  /\ RunsOf(b)' = {} => HolderOf(b)' = None
           /\ \A r : RunsOf(b)' = {r} => HolderOf(b)' = r
<1>. DEFINE next == RunsOf(b)'
<1>1. HolderOf(b)' = IF next = {} THEN None ELSE CHOOSE r \in next : TRUE
    BY DEF HolderOf
<1>. HIDE DEF next
<1>2. next = {} => HolderOf(b)' = None
    BY <1>1
<1>3. ASSUME NEW r, next = {r}
      PROVE  HolderOf(b)' = r
    BY <1>1, <1>3
<1>. QED  BY <1>2, <1>3 DEF next

\* A robot's active run is its only one.
LEMMA RunsOfIsSingle ==
    ASSUME IInv, NEW r \in Runs, Active(r)
    PROVE  RunsOf(robot[r]) = {r} /\ robot[r] \in Robots
BY DEF IInv, OneRunPerRobot, RunsOf, RowsAreWhole, Active, Statuses

LEMMA HolderStays ==
    ASSUME IInv, NEW b \in Robots, RunsOf(b)' = RunsOf(b)
    PROVE  HolderOf(b)' = HolderOf(b)
<1>1. CASE RunsOf(b) = {}
    BY <1>1, HolderIs, HolderWillBe
<1>2. CASE RunsOf(b) # {}
  <2>1. PICK r \in Runs : Active(r) /\ robot[r] = b
      BY <1>2 DEF RunsOf
  <2>2. RunsOf(b) = {r}
      BY <2>1, RunsOfIsSingle
  <2>. QED  BY <2>2, HolderIs, HolderWillBe
<1>. QED  BY <1>1, <1>2

\* An insert reserves its robot.
LEMMA InsertReserves ==
    ASSUME RunControlAssumption, IInv, NEW r \in Runs, InsertRun(r)
    PROVE  \E b \in Robots : Reservation!Reserve(b, r)
<1>. PICK b \in Robots : b = robot'[r]
    BY InsertStep
<1>1. /\ status[r] = "absent" /\ status'[r] = "PENDING"
      /\ \A q \in Runs : Active(q) => robot[q] # b
      /\ \A q \in Runs \ {r} : status'[q] = status[q] /\ robot'[q] = robot[q]
    BY InsertStep DEF Untouched
<1>2. ~Active(r) /\ Active(r)' /\ ~Terminal(r) /\ ~Terminal(r)'
    BY <1>1 DEF Active, Terminal, ActiveStatuses, ExecutingStatuses, TerminalStatuses
<1>3. \A q \in Runs \ {r} : (Active(q)' <=> Active(q)) /\ (Terminal(q)' <=> Terminal(q))
    BY <1>1 DEF Active, Terminal
<1>4. RunsOf(b) = {} /\ RunsOf(b)' = {r} /\ \A c \in Robots \ {b} : RunsOf(c)' = RunsOf(c)
    BY <1>1, <1>2, <1>3 DEF RunsOf
<1>5. HolderOf(b) = None /\ HolderOf(b)' = r /\ \A c \in Robots \ {b} : HolderOf(c)' = HolderOf(c)
    BY <1>1, <1>4, HolderIs, HolderWillBe, HolderStays
<1>6. \A c \in Robots : HolderOf(c) # r
  <2>. SUFFICES ASSUME NEW c \in Robots
                PROVE  HolderOf(c) # r
      OBVIOUS
  <2>1. CASE RunsOf(c) = {}
      BY <2>1, HolderIs DEF RunControlAssumption
  <2>2. CASE RunsOf(c) # {}
    <3>1. PICK q \in Runs : Active(q) /\ robot[q] = c
        BY <2>2 DEF RunsOf
    <3>. QED  BY <3>1, <1>2, RunsOfIsSingle, HolderIs
  <2>. QED  BY <2>1, <2>2
<1>7. r \notin SpentRuns /\ SpentRuns' = SpentRuns
    BY <1>1, <1>2, <1>3 DEF SpentRuns
<1>8. [c \in Robots |-> HolderOf(c)]' = [[c \in Robots |-> HolderOf(c)] EXCEPT ![b] = r]
    BY <1>1, <1>5
<1>. QED  BY <1>1, <1>5, <1>6, <1>7, <1>8 DEF Reservation!Reserve

\* Any other step releases the robot of the run that ends, or none.
LEMMA OthersRelease ==
    ASSUME RunControlAssumption, IInv, [Next]_vars, ~ \E q \in Runs : InsertRun(q)
    PROVE  \/ \E b \in Robots : Reservation!Release(b)
           \/ UNCHANGED <<[b \in Robots |-> HolderOf(b)], SpentRuns>>
<1>1. CASE \E r \in Runs : Active(r) /\ Terminal(r)'
  <2>1. PICK r \in Runs : Active(r) /\ Terminal(r)'
      BY <1>1
  <2>2. /\ ~Active(r)' /\ ~Terminal(r) /\ status[r] # "deleted"
        /\ \A q \in Runs \ {r} : status'[q] = status[q] /\ robot'[q] = robot[q]
      BY <2>1, RowSteps, StatusesAreSplit DEF RunsStep, Untouched, Active, Terminal
  <2>. PICK b \in Robots : b = robot[r]
      BY <2>1, RunsOfIsSingle
  <2>3. RunsOf(b) = {r}
      BY <2>1, RunsOfIsSingle
  <2>4. \A q \in Runs \ {r} : (Active(q)' <=> Active(q)) /\ (Terminal(q)' <=> Terminal(q))
      BY <2>2 DEF Active, Terminal
  <2>5. RunsOf(b)' = {} /\ \A c \in Robots \ {b} : RunsOf(c)' = RunsOf(c)
      BY <2>1, <2>2, <2>3, <2>4 DEF RunsOf
  <2>6. /\ HolderOf(b) = r /\ HolderOf(b)' = None
        /\ \A c \in Robots \ {b} : HolderOf(c)' = HolderOf(c)
      BY <2>3, <2>5, HolderIs, HolderWillBe, HolderStays
  <2>7. SpentRuns' = SpentRuns \cup {r}
      BY <2>1, <2>2, <2>4 DEF SpentRuns
  <2>8. [c \in Robots |-> HolderOf(c)]' = [[c \in Robots |-> HolderOf(c)] EXCEPT ![b] = None]
      BY <2>3, <2>6
  <2>9. /\ [c \in Robots |-> HolderOf(c)][b] = r
        /\ r # None
      BY <2>6 DEF RunControlAssumption
  <2>10. Reservation!Release(b)
      BY <2>7, <2>8, <2>9 DEF Reservation!Release
  <2>. QED  BY <2>10
<1>2. CASE ~ \E r \in Runs : Active(r) /\ Terminal(r)'
  <2>1. \A r \in Runs : /\ Active(r)' <=> Active(r)
                        /\ Active(r) => robot'[r] = robot[r]
                        /\ r \in SpentRuns' <=> r \in SpentRuns
    <3>. SUFFICES ASSUME NEW r \in Runs
                  PROVE  /\ Active(r)' <=> Active(r)
                         /\ Active(r) => robot'[r] = robot[r]
                         /\ r \in SpentRuns' <=> r \in SpentRuns
        OBVIOUS
    <3>1. CASE Untouched(r)
        BY <3>1 DEF Untouched, Active, Terminal, SpentRuns
    <3>2. CASE Lives(r)
        BY <1>2, <3>2, StatusesAreSplit DEF Lives, Active, Terminal, SpentRuns, Statuses
    <3>3. CASE Deleted(r)
        BY <3>3, StatusesAreSplit DEF Deleted, Active, Terminal, SpentRuns
    <3>. QED  BY <3>1, <3>2, <3>3, RowSteps DEF RunsStep, RowStep
  <2>2. SpentRuns' = SpentRuns
      BY <2>1 DEF SpentRuns
  <2>3. \A b \in Robots : RunsOf(b)' = RunsOf(b)
      BY <2>1 DEF RunsOf
  <2>. QED  BY <2>2, <2>3, HolderStays
<1>. QED  BY <1>1, <1>2

-----------------------------------------------------------------------------
(* The theorems                                                            *)

LEMMA InitInvariant == RunControlAssumption /\ Init => IInv
<1>. SUFFICES ASSUME RunControlAssumption, Init
              PROVE  IInv
    OBVIOUS
<1>1. TypeOK
    BY InitTypes
<1>. QED
    BY <1>1, StatusesAreSplit
       DEF Init, IInv, RowsAreWhole, StartsAreAbsent, CallsAreLive, ClosingsAreLive,
           OneRunPerRobot, StartsAreAlone, StartsHaveConsent, ConcurrencyIsConsented,
           EndedRunHasEndedStages, Active, Terminal, NoReconnect, NoStart, NoCall

LEMMA NextInvariant == RunControlAssumption /\ IInv /\ [Next]_vars => IInv'
<1>. SUFFICES ASSUME RunControlAssumption, IInv, [Next]_vars
              PROVE  IInv'
    OBVIOUS
<1>1. TypeOK'
  <2>1. CASE UNCHANGED vars
      BY <2>1 DEF vars, rowVars, taskVars, robotVars, wireVars, IInv, TypeOK, RowsOK, TasksOK,
         RobotsOK, WireOK
  <2>. QED
      BY <2>1, DispatchingTypes, ControllingTypes, RecordingTypes, ConnectingTypes, RestartTypes,
         RobotStepTypes DEF Next
<1>. QED
    BY <1>1, RowsStayWhole, StartsStayAbsent, StartsStayAlone, StartsKeepConsent, CallsStayLive,
       ClosingsStayLive, RobotsStaySingle, ConcurrencyStaysConsented, StagesStayEnded
       DEF IInv

\* The invariant holds in every behaviour of run control.
THEOREM Invariance == Spec => []IInv
BY InitInvariant, NextInvariant, RunControlAssumption, PTL DEF Spec

\* Type correctness: the rows, the calls in progress, the robots and the wire stay
\* in the sets declared for them, whatever the robots and the operator do.
THEOREM TypeCorrect == Spec => []TypeOK
<1>1. IInv => TypeOK
    BY DEF IInv
<1>. QED  BY <1>1, Invariance, PTL

\* The robot index: whatever dispatches, answers, frames, closes, reconciliations
\* and restarts interleave, a robot never has two active runs.
THEOREM RobotHasOneRun == Spec => []OneRunPerRobot
<1>1. IInv => OneRunPerRobot
    BY DEF IInv
<1>. QED  BY <1>1, Invariance, PTL

\* The mission's lock: two active runs of one mission are there because a dispatch
\* allowed it, although prepare looks and inserts at different times.
THEOREM MissionsAreShared == Spec => []ConcurrencyIsConsented
<1>1. IInv => ConcurrencyIsConsented
    BY DEF IInv
<1>. QED  BY <1>1, Invariance, PTL

\* Whichever use case ends a run closes every stage of its plan.
THEOREM EndedRunsAreClosed == Spec => []EndedRunHasEndedStages
<1>1. IInv => EndedRunHasEndedStages
    BY DEF IInv
<1>. QED  BY <1>1, Invariance, PTL

\* The row lock of a control call: the status the call has read is the status its
\* write replaces, although the robot is asked in between.
THEOREM CalledRunsStandStill == Spec => []CalledRunStandsStill
<1>1. IInv => CalledRunStandsStill
    BY DEF IInv, CallsAreLive, CalledRunStandsStill
<1>. QED  BY <1>1, Invariance, PTL

\* An ended run is final: no frame, late answer, second cancel or reconciliation
\* changes its status, its log or its stages; only its deletion ends it.
THEOREM EndedRunsAreFinal == Spec => EndedRunIsFinal
<1>. DEFINE Final == \A r \in Runs : Terminal(r) =>
                        \/ status'[r] = "deleted"
                        \/ <<status[r], last[r], stageRows[r]>>'
                              = <<status[r], last[r], stageRows[r]>>
<1>1. RunControlAssumption /\ IInv /\ [Next]_vars => [Final]_vars
  <2>. SUFFICES ASSUME RunControlAssumption, IInv, [Next]_vars
                PROVE  Final
      OBVIOUS
  <2>1. CASE \E q \in Runs : InsertRun(q)
      BY <2>1, InsertStep DEF Terminal, TerminalStatuses, Untouched
  <2>2. CASE ~ \E q \in Runs : InsertRun(q)
      BY <2>2, RowSteps, StatusesAreSplit DEF Terminal, RunsStep, RowStep, Untouched, Lives, Deleted
  <2>. QED  BY <2>1, <2>2
<1>. QED  BY <1>1, Invariance, RunControlAssumption, PTL DEF Spec, EndedRunIsFinal

\* Run control implements the reservation of robots: an insert reserves the robot,
\* the step that ends the run releases it, and every other step stutters.
THEOREM RobotsAreReserved == Spec => ReservesRobots
<1>. DEFINE holder == [b \in Robots |-> HolderOf(b)]
<1>1. RunControlAssumption /\ Init => Reservation!Init
  <2>. SUFFICES ASSUME RunControlAssumption, Init
                PROVE  Reservation!Init
      OBVIOUS
  <2>1. \A r \in Runs : ~Active(r) /\ r \notin SpentRuns
      BY DEF Init, Active, Terminal, SpentRuns, ActiveStatuses, ExecutingStatuses,
             TerminalStatuses
  <2>2. \A b \in Robots : HolderOf(b) = None
      BY <2>1, HolderIs DEF RunsOf
  <2>3. SpentRuns = {}
      BY <2>1 DEF SpentRuns
  <2>. QED  BY <2>2, <2>3 DEF Reservation!Init
<1>2. RunControlAssumption /\ IInv /\ [Next]_vars
         => [Reservation!Next]_<<holder, SpentRuns>>
  <2>. SUFFICES ASSUME RunControlAssumption, IInv, [Next]_vars
                PROVE  [Reservation!Next]_<<holder, SpentRuns>>
      OBVIOUS
  <2>1. CASE \E r \in Runs : InsertRun(r)
      BY <2>1, InsertReserves DEF Reservation!Next
  <2>2. CASE ~ \E r \in Runs : InsertRun(r)
      BY <2>2, OthersRelease DEF Reservation!Next
  <2>. QED  BY <2>1, <2>2
<1>. QED
    BY <1>1, <1>2, Invariance, RunControlAssumption, PTL DEF Spec, ReservesRobots, Reservation!Spec

=============================================================================
