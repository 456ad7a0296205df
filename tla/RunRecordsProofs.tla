--------------------------- MODULE RunRecordsProofs ---------------------------
(***************************************************************************)
(* Theorems about RunControl: what the rows record is true of the robots,  *)
(* whatever the order in which answers, frames and requests are recorded.  *)
(* They rest on the invariant of RunControlProofs.                         *)
(***************************************************************************)
EXTENDS RunControlProofs

-----------------------------------------------------------------------------
(* Which actions write a run's row                                         *)

SameRow(r) ==
    /\ status'[r] = status[r]
    /\ last'[r] = last[r]
    /\ failure'[r] = failure[r]
    /\ report'[r] = report[r]
    /\ dispatched'[r] = dispatched[r]
    /\ stageRows'[r] = stageRows[r]

\* The action of a step that writes the row of run r.
Writing(r) ==
    \/ InsertRun(r)
    \/ Settle(r)
    \/ CancelDeferred(r) \/ EndCancel(r) \/ EndSteer(r) \/ CloseRun(r) \/ DeleteRun(r)
    \/ \E f \in frames : f.run = r /\ Record(f)
    \/ \E b \in Robots : CloseUnclaimed(b, r)

\* A move writes one run's status and transition.
LEMMA MoveWrites ==
    ASSUME RowsOK, NEW q \in Runs, NEW r \in Runs, NEW trigger, NEW to, NEW hdr, NEW ack,
           Move(q, trigger, to, hdr, ack)
    PROVE  /\ r # q => status'[r] = status[r] /\ last'[r] = last[r]
           /\ r = q => /\ status'[r] = to
                       /\ last'[r] = [trigger |-> trigger, header |-> hdr, ack |-> ack]
BY DEF RowsOK, Move

LEMMA CloseStagesIsLocal ==
    ASSUME RowsOK, NEW q \in Runs, NEW to, CloseStages(q, to), NEW r \in Runs \ {q}
    PROVE  stageRows'[r] = stageRows[r]
BY DEF RowsOK, CloseStages

\* What moves and closes one run leaves the status, log and stages of another.
LEMMA MoveAndClose ==
    ASSUME IInv, NEW q \in Runs, NEW r \in Runs, q # r
    PROVE  /\ \A trigger, to, hdr, ack : Move(q, trigger, to, hdr, ack) =>
                status'[r] = status[r] /\ last'[r] = last[r]
           /\ \A to : CloseStages(q, to) => stageRows'[r] = stageRows[r]
<1>1. RowsOK
    BY DEF IInv, TypeOK
<1>2. \A trigger, to, hdr, ack : Move(q, trigger, to, hdr, ack) =>
          status'[r] = status[r] /\ last'[r] = last[r]
    BY <1>1, q # r DEF RowsOK, Move
<1>3. \A to : CloseStages(q, to) => stageRows'[r] = stageRows[r]
    BY <1>1, q # r DEF RowsOK, CloseStages
<1>. QED  BY <1>2, <1>3

LEMMA SettleIsLocal ==
    ASSUME IInv, NEW q \in Runs, Settle(q), NEW r \in Runs \ {q}
    PROVE  SameRow(r)
<1>. USE DEF IInv, TypeOK, rowVars
<1>1. CASE SettleMissing(q) \/ SettleStands(q)
    BY <1>1 DEF SettleMissing, SettleStands, SameRow
<1>2. CASE SettleAccepted(q)
    BY <1>2, MoveWrites DEF SettleAccepted, SameRow, RowsOK
<1>3. CASE SettleUnconfirmed(q)
    BY <1>3, MoveWrites DEF SettleUnconfirmed, SameRow, RowsOK
<1>4. CASE SettleOvertaken(q)
    BY <1>4 DEF SettleOvertaken, SameRow, RowsOK
<1>5. CASE SettleRejected(q)
  <2>1. PICK to : Move(q, "REJECT", to, 0, "unset") /\ CloseStages(q, to)
      BY <1>5 DEF SettleRejected
  <2>. QED  BY <1>5, <2>1, MoveWrites, CloseStagesIsLocal DEF SettleRejected, SameRow, RowsOK
<1>. QED  BY <1>1, <1>2, <1>3, <1>4, <1>5 DEF Settle

LEMMA RecordIsLocal ==
    ASSUME IInv, NEW f \in frames, Record(f), NEW r \in Runs, f.run # r
    PROVE  SameRow(r)
<1>. USE DEF IInv, TypeOK
<1>. DEFINE trigger == TriggerForReport(status[f.run], f.exec)
<1>1. f.run \in Runs
    BY DEF WireOK, Frame
<1>2. CASE RecordDropped(f)
    BY <1>2 DEF Record, RecordDropped, SameRow
<1>3. CASE RecordLive(f)
  <2>1. report'[r] = report[r] /\ dispatched'[r] = dispatched[r]
      BY <1>3 DEF Record, RecordLive, Touch, RowsOK
  <2>2. ASSUME NEW to, RecordOutcome(f, trigger, to)
        PROVE  SameRow(r)
    <3>1. \E t : Move(f.run, t, to, f.header, "unset")
        BY <2>2 DEF RecordOutcome
    <3>2. status'[r] = status[r] /\ last'[r] = last[r]
        BY ONLY IInv, <1>1, <3>1, MoveAndClose, f.run # r, r \in Runs
    <3>3. failure'[r] = failure[r] /\ stageRows'[r] = stageRows[r]
        BY <1>1, <2>2 DEF RecordOutcome, RowsOK
    <3>. QED  BY <2>1, <3>2, <3>3 DEF SameRow
  <2>3. ASSUME NEW to, RecordProgress(f, trigger, to)
        PROVE  SameRow(r)
    <3>1. \E t : Move(f.run, t, to, f.header, "unset")
        BY <2>3 DEF RecordProgress
    <3>2. status'[r] = status[r] /\ last'[r] = last[r]
        BY ONLY IInv, <1>1, <3>1, MoveAndClose, f.run # r, r \in Runs
    <3>3. failure'[r] = failure[r] /\ stageRows'[r] = stageRows[r]
        BY <1>1, <2>3 DEF RecordProgress, RowsOK
    <3>. QED  BY <2>1, <3>2, <3>3 DEF SameRow
  <2>4. CASE RecordRepeat(f, trigger)
      BY <1>1, <2>1, <2>4 DEF RecordRepeat, SameRow, RowsOK
  <2>. QED  BY <1>3, <2>2, <2>3, <2>4 DEF RecordLive
<1>. QED  BY <1>2, <1>3 DEF Record

\* A run's row is written by an action of that run, or not at all.
LEMMA RowWriters ==
    ASSUME IInv, [Next]_vars, NEW r \in Runs
    PROVE  SameRow(r) \/ Writing(r)
<1>. USE DEF vars, rowVars, taskVars, robotVars, wireVars
<1>u. UNCHANGED rowVars => SameRow(r)
    BY DEF SameRow
<1>1. CASE Dispatching
  <2>1. ASSUME NEW q \in Runs, InsertRun(q)
        PROVE  SameRow(r) \/ Writing(r)
      BY <2>1 DEF InsertRun, SameRow, Writing, IInv, TypeOK, RowsOK
  <2>2. ASSUME NEW q \in Runs, Settle(q)
        PROVE  SameRow(r) \/ Writing(r)
      BY <2>2, SettleIsLocal DEF Writing
  <2>. QED
      BY <1>1, <1>u, <2>1, <2>2 DEF Dispatching, BeginDispatch, InsertRefused, PrepareFails,
         SettleFails, DispatchUnanswered
<1>2. CASE Controlling
  <2>. PICK q \in Runs :
          \/ CancelDeferred(q)
          \/ \E op \in CallOps : BeginCall(q, op)
          \/ CallUnanswered(q)
          \/ EndCancel(q)
          \/ EndSteer(q)
          \/ CallFails(q)
          \/ CloseRun(q)
          \/ DeleteRun(q)
      BY <1>2 DEF Controlling
  <2>1. CASE q = r
      BY <1>u, <2>1 DEF Writing, BeginCall, CallUnanswered, CallFails
  <2>2. CASE q # r
    <3>. USE <2>2 DEF SameRow
    <3>1. CASE CancelDeferred(q)
        BY <3>1, MoveAndClose DEF CancelDeferred
    <3>2. CASE CallUnanswered(q) \/ CallFails(q) \/ \E op \in CallOps : BeginCall(q, op)
        BY <3>2 DEF CallUnanswered, CallFails, BeginCall
    <3>3. CASE EndCancel(q)
      <4>1. CASE CancelRecorded(q)
          BY <3>3, <4>1, MoveAndClose DEF EndCancel, CancelRecorded
      <4>2. CASE CancelSettled(q)
        <5>1. status'[r] = status[r] /\ last'[r] = last[r] /\ stageRows'[r] = stageRows[r]
            BY <4>2, MoveAndClose DEF CancelSettled
        <5>. QED  BY <3>3, <5>1 DEF EndCancel
      <4>. QED  BY <3>3, <4>1, <4>2 DEF EndCancel
    <3>4. CASE EndSteer(q)
      <4>1. CASE SteerDropped(q)
          BY <3>4, <4>1 DEF EndSteer, SteerDropped
      <4>2. ASSUME NEW to, SteerApplied(q, to)
            PROVE  SameRow(r)
        <5>1. status'[r] = status[r] /\ last'[r] = last[r]
            BY <4>2, MoveAndClose DEF SteerApplied
        <5>. QED  BY <3>4, <5>1 DEF EndSteer
      <4>. QED  BY <3>4, <4>1, <4>2 DEF EndSteer
    <3>5. CASE CloseRun(q)
      <4>1. status'[r] = status[r] /\ last'[r] = last[r] /\ stageRows'[r] = stageRows[r]
          BY <3>5, MoveAndClose DEF CloseRun
      <4>. QED  BY <3>5, <4>1 DEF CloseRun
    <3>6. CASE DeleteRun(q)
        BY <3>6 DEF DeleteRun, IInv, TypeOK, RowsOK
    <3>. QED  BY <3>1, <3>2, <3>3, <3>4, <3>5, <3>6
  <2>. QED  BY <2>1, <2>2
<1>3. CASE Recording
  <2>. PICK f \in frames : Record(f) \/ LoseFrame(f)
      BY <1>3 DEF Recording
  <2>. QED  BY <1>u, RecordIsLocal DEF Writing, LoseFrame
<1>4. CASE Connecting
  <2>. PICK b \in Robots :
          \/ RecordOffline(b)
          \/ FetchClaim(b)
          \/ FetchFails(b)
          \/ RecordOnline(b)
          \/ JudgeSpares(b)
          \/ \E q \in Runs : JudgeCancels(b, q) \/ CloseUnclaimed(b, q)
          \/ ReconnectFails(b)
      BY <1>4 DEF Connecting
  <2>1. ASSUME NEW q \in Runs, q # r, CloseUnclaimed(b, q)
        PROVE  SameRow(r)
    <3>. USE <2>1 DEF SameRow
    <3>1. CASE MovedOn(b, q)
        BY <3>1 DEF CloseUnclaimed, MovedOn
    <3>2. CASE Unclaimed(b, q)
      <4>1. PICK to : Move(q, "RECONCILE", to, 0, "unset") /\ CloseStages(q, to)
          BY <3>2 DEF Unclaimed
      <4>2. status'[r] = status[r] /\ last'[r] = last[r] /\ stageRows'[r] = stageRows[r]
          BY <4>1, <2>1, MoveAndClose
      <4>3. failure'[r] = failure[r]
          BY <3>2 DEF Unclaimed, IInv, TypeOK, RowsOK
      <4>. QED  BY <4>2, <4>3 DEF CloseUnclaimed
    <3>. QED  BY <3>1, <3>2 DEF CloseUnclaimed
  <2>. QED
      BY <1>u, <2>1 DEF Writing, RecordOffline, FetchClaim, FetchFails, RecordOnline, JudgeSpares,
         JudgeCancels, ReconnectFails
<1>5. CASE Restart
    BY <1>5, <1>u DEF Restart
<1>6. CASE RobotStep
    BY <1>6, <1>u DEF RobotStep, RobotAnswers, RobotTakes, RobotRejects, RobotStops, RobotReports,
       RobotEnds, RobotLeaves, RobotReturns, RobotReboots
<1>. QED  BY <1>1, <1>2, <1>3, <1>4, <1>5, <1>6, <1>u DEF Next

-----------------------------------------------------------------------------
(* What a step does to one run                                             *)

Stands(r) ==
    status'[r] = status[r] /\ (status[r] = "SUCCEEDED" => failure'[r] = failure[r])

Created(r) == status[r] = "absent" /\ status'[r] = "PENDING"

Dropped(r) == status'[r] = "deleted"

Moved(r) ==
    /\ Allowed(status[r], last'[r].trigger, status'[r])
    /\ status'[r] = "SUCCEEDED" => failure'[r] = {}

\* The two transitions of a cancel answered "I do not hold this run".
SettledAtOnce(r) ==
    status[r] \in ActiveStatuses /\ last'[r].trigger = "RECONCILE" /\ status'[r] = "CANCELLED"

Written(r) == Stands(r) \/ Created(r) \/ Dropped(r) \/ Moved(r) \/ SettledAtOnce(r)

\* The moves the backend makes of its own accord are in the table, from every
\* active status.
LEMMA RequestsAreAllowed ==
    /\ Allowed("PENDING", "ACCEPT", "DISPATCHED")
    /\ Allowed("PENDING", "REJECT", "REJECTED")
    /\ Allowed("CANCELLING", "REJECT", "CANCELLED")
    /\ \A s \in ActiveStatuses :
          /\ Allowed(s, "CANCEL_REQUEST", "CANCELLING")
          /\ Allowed(s, "CLOSE", "CANCELLED")
          /\ Allowed(s, "RECONCILE", IF s = "CANCELLING" THEN "CANCELLED" ELSE "FAILED")
BY DEF Allowed, AllowedTransitions, ReplyTransitions, RequestTransitions, CloseTransitions,
       ReconcileTransitions

\* A request leads to the status that waits for its confirmation.
LEMMA SteersRequest ==
    ASSUME NEW from, NEW trigger \in {"PAUSE_REQUEST", "RESUME_REQUEST"}, NEW to,
           Allowed(from, trigger, to)
    PROVE  to \in {"PAUSING", "RESUMING"}
BY DEF Allowed, AllowedTransitions, ReplyTransitions, RequestTransitions, ProgressTransitions,
       CloseTransitions, ReconcileTransitions, OutcomeTransitions

LEMMA SettleWrites ==
    ASSUME IInv, NEW r \in Runs, Settle(r)
    PROVE  Written(r)
<1>. USE DEF IInv, TypeOK
<1>1. CASE SettleMissing(r) \/ SettleStands(r) \/ SettleOvertaken(r)
    BY <1>1 DEF SettleMissing, SettleStands, SettleOvertaken, rowVars, Written, Stands
<1>2. CASE SettleAccepted(r)
    BY <1>2, RequestsAreAllowed DEF SettleAccepted, Move, RowsOK, Written, Moved
<1>3. CASE SettleUnconfirmed(r)
    BY <1>3 DEF SettleUnconfirmed, Move, RowsOK, Written, Stands
<1>4. CASE SettleRejected(r)
  <2>1. PICK to : /\ to = IF status[r] = "CANCELLING" THEN "CANCELLED" ELSE "REJECTED"
                  /\ Move(r, "REJECT", to, 0, "unset")
      BY <1>4 DEF SettleRejected
  <2>2. status'[r] = to /\ last'[r].trigger = "REJECT"
      BY <2>1 DEF Move, RowsOK
  <2>. QED  BY <1>4, <2>1, <2>2, RequestsAreAllowed DEF SettleRejected, Written, Moved
<1>. QED  BY <1>1, <1>2, <1>3, <1>4 DEF Settle

LEMMA RecordWrites ==
    ASSUME IInv, NEW f \in frames, Record(f)
    PROVE  Written(f.run)
<1>. USE DEF IInv, TypeOK
<1>. DEFINE r == f.run
            trigger == TriggerForReport(status[r], f.exec)
<1>1. r \in Runs
    BY DEF WireOK, Frame
<1>2. CASE RecordDropped(f)
    BY <1>2 DEF RecordDropped, Written, Stands
<1>3. CASE RecordLive(f)
  <2>1. ASSUME NEW to, Move(r, trigger, to, f.header, "unset"), Applies(f, trigger, to),
               to = "SUCCEEDED" => failure'[r] = {}
        PROVE  Moved(r)
    <3>1. status'[r] = to /\ last'[r].trigger = trigger
        BY <1>1, <2>1 DEF Move, RowsOK
    <3>. QED  BY <2>1, <3>1 DEF Applies, Moved
  <2>2. ASSUME NEW to \in TerminalStatuses, RecordOutcome(f, trigger, to)
        PROVE  Moved(r)
    <3>1. to = "SUCCEEDED" => failure'[r] = {}
        BY <1>1, <2>2 DEF RecordOutcome, RowsOK
    <3>. QED  BY <2>1, <2>2, <3>1 DEF RecordOutcome
  <2>3. ASSUME NEW to \in ExecutingStatuses, RecordProgress(f, trigger, to)
        PROVE  Moved(r)
    <3>1. failure'[r] = {}
        BY <1>1, <2>3 DEF RecordProgress, RowsOK
    <3>. QED  BY <2>1, <2>3, <3>1 DEF RecordProgress
  <2>4. CASE RecordRepeat(f, trigger)
      BY <2>4 DEF RecordRepeat, Written, Stands
  <2>. QED  BY <1>3, <2>2, <2>3, <2>4 DEF RecordLive, Written
<1>. QED  BY <1>2, <1>3 DEF Record

LEMMA ControlWrites ==
    ASSUME IInv, NEW r \in Runs,
           CancelDeferred(r) \/ EndCancel(r) \/ EndSteer(r) \/ CloseRun(r) \/ DeleteRun(r)
    PROVE  Written(r)
<1>. USE DEF IInv, TypeOK
<1>1. CASE CancelDeferred(r)
    BY <1>1, RequestsAreAllowed DEF CancelDeferred, Move, RowsOK, Targets, Active, Written, Moved
<1>2. CASE EndCancel(r)
  <2>1. status[r] \in ActiveStatuses
      BY <1>2 DEF EndCancel, CallsAreLive, Active, NoCall
  <2>2. CASE CancelRecorded(r)
    <3>1. \E ack : Move(r, "CANCEL_REQUEST", "CANCELLING", report[r], ack)
        BY <2>2 DEF CancelRecorded
    <3>. QED  BY <2>1, <3>1, RequestsAreAllowed DEF Move, RowsOK, Written, Moved
  <2>3. CASE CancelSettled(r)
      BY <2>1, <2>3 DEF CancelSettled, Move, RowsOK, Written, SettledAtOnce
  <2>. QED  BY <1>2, <2>2, <2>3 DEF EndCancel
<1>3. CASE EndSteer(r)
  <2>1. CASE SteerDropped(r)
      BY <1>3, <2>1 DEF EndSteer, SteerDropped, Written, Stands
  <2>2. ASSUME NEW to \in Statuses, SteerApplied(r, to)
        PROVE  Moved(r)
    <3>1. status[r] = call[r].seen
        BY <1>3 DEF EndSteer, CallsAreLive, NoCall
    <3>2. Allowed(status[r], RequestOf(call[r].op), to)
        BY <2>2, <3>1 DEF SteerApplied
    <3>3. RequestOf(call[r].op) \in {"PAUSE_REQUEST", "RESUME_REQUEST"}
        BY <1>3 DEF EndSteer, RequestOf
    <3>4. to \in {"PAUSING", "RESUMING"}
        BY <3>2, <3>3, SteersRequest
    <3>5. status'[r] = to /\ last'[r].trigger = RequestOf(call[r].op)
        BY <2>2 DEF SteerApplied, Move, RowsOK
    <3>. QED  BY <3>2, <3>4, <3>5 DEF Moved
  <2>. QED  BY <1>3, <2>1, <2>2 DEF EndSteer, Written
<1>4. CASE CloseRun(r)
    BY <1>4, RequestsAreAllowed DEF CloseRun, Move, RowsOK, Targets, Active, Written, Moved
<1>5. CASE DeleteRun(r)
    BY <1>5 DEF DeleteRun, RowsOK, Written, Dropped
<1>. QED  BY <1>1, <1>2, <1>3, <1>4, <1>5

LEMMA ReconcileWrites ==
    ASSUME IInv, NEW b \in Robots, NEW r \in Runs, CloseUnclaimed(b, r)
    PROVE  Written(r)
<1>. USE DEF IInv, TypeOK
<1>1. CASE MovedOn(b, r)
    BY <1>1 DEF MovedOn, Written, Stands
<1>2. CASE Unclaimed(b, r)
  <2>1. status[r] \in ActiveStatuses
      BY <1>2 DEF CloseUnclaimed, Unclaimed, ClosingsAreLive
  <2>2. PICK to : /\ to = IF status[r] = "CANCELLING" THEN "CANCELLED" ELSE "FAILED"
                  /\ Move(r, "RECONCILE", to, 0, "unset")
      BY <1>2 DEF Unclaimed
  <2>3. status'[r] = to /\ last'[r].trigger = "RECONCILE"
      BY <2>2 DEF Move, RowsOK
  <2>. QED  BY <2>1, <2>2, <2>3, RequestsAreAllowed DEF Written, Moved
<1>. QED  BY <1>1, <1>2 DEF CloseUnclaimed

\* Every step leaves a run where it stands, creates or deletes it, or moves it
\* along the table.
LEMMA RunsAreWritten ==
    ASSUME IInv, [Next]_vars, NEW r \in Runs
    PROVE  Written(r)
<1>1. CASE SameRow(r)
    BY <1>1 DEF SameRow, Written, Stands
<1>2. CASE InsertRun(r)
    BY <1>2 DEF InsertRun, IInv, TypeOK, RowsOK, StartsAreAbsent, Written, Created
<1>3. CASE Settle(r)
    BY <1>3, SettleWrites
<1>4. CASE CancelDeferred(r) \/ EndCancel(r) \/ EndSteer(r) \/ CloseRun(r) \/ DeleteRun(r)
    BY <1>4, ControlWrites
<1>5. CASE \E f \in frames : f.run = r /\ Record(f)
    BY <1>5, RecordWrites
<1>6. CASE \E b \in Robots : CloseUnclaimed(b, r)
    BY <1>6, ReconcileWrites
<1>. QED  BY <1>1, <1>2, <1>3, <1>4, <1>5, <1>6, RowWriters DEF Writing

-----------------------------------------------------------------------------
(* What the rows record                                                    *)

\* MissionStateService.record clears the errors of a run it does not see fail: a
\* SUCCEEDED row never keeps the warning of its unconfirmed dispatch.
THEOREM SucceededRunsAreClean == Spec => []SucceededRunIsClean
<1>1. RunControlAssumption /\ Init => SucceededRunIsClean
    BY DEF Init, SucceededRunIsClean
<1>2. ASSUME IInv, SucceededRunIsClean, [Next]_vars
      PROVE  SucceededRunIsClean'
  <2>. SUFFICES ASSUME NEW r \in Runs, status'[r] = "SUCCEEDED"
                PROVE  failure'[r] = {}
      BY DEF SucceededRunIsClean
  <2>1. Stands(r) \/ Moved(r)
      BY <1>2, RunsAreWritten DEF Written, Created, Dropped, SettledAtOnce
  <2>2. CASE Stands(r)
      BY <1>2, <2>2 DEF Stands, SucceededRunIsClean
  <2>3. CASE Moved(r)
      BY <2>3 DEF Moved
  <2>. QED  BY <2>1, <2>2, <2>3
<1>. QED  BY <1>1, <1>2, Invariance, RunControlAssumption, PTL DEF Spec

\* Every write of a status goes through the transition table, with the trigger the
\* log names; the one exception is the cancel that commits two transitions at once.
THEOREM MovesAreLogged == Spec => MovesAreAllowedAndLogged
<1>. DEFINE Logged(r) ==
        (status'[r] # status[r] /\ status[r] # "absent" /\ status'[r] # "deleted")
          => \/ Allowed(status[r], last'[r].trigger, status'[r])
             \/ /\ last'[r].trigger = "RECONCILE"
                /\ Allowed(status[r], "CANCEL_REQUEST", "CANCELLING")
                /\ Allowed("CANCELLING", "RECONCILE", status'[r])
<1>1. ASSUME IInv, [Next]_vars
      PROVE  \A r \in Runs : Logged(r)
  <2>. SUFFICES ASSUME NEW r \in Runs
                PROVE  Logged(r)
      OBVIOUS
  <2>1. CASE Stands(r) \/ Created(r) \/ Dropped(r) \/ Moved(r)
      BY <2>1 DEF Stands, Created, Dropped, Moved
  <2>2. CASE SettledAtOnce(r)
    <3>1. /\ Allowed(status[r], "CANCEL_REQUEST", "CANCELLING")
          /\ Allowed("CANCELLING", "RECONCILE", "CANCELLED")
        BY <2>2, RequestsAreAllowed DEF SettledAtOnce, ActiveStatuses, ExecutingStatuses
    <3>. QED  BY <2>2, <3>1 DEF SettledAtOnce
  <2>. QED  BY <1>1, <2>1, <2>2, RunsAreWritten DEF Written
<1>. QED  BY <1>1, Invariance, PTL DEF Spec, MovesAreAllowedAndLogged

-----------------------------------------------------------------------------
(* What becomes of a dispatch                                              *)

\* An accepted dispatch is over only when it is settled.
LEMMA AcceptedIsSettled ==
    ASSUME IInv, [Next]_vars, NEW r \in Runs, start[r] = "ACCEPTED", start'[r] = "over"
    PROVE  Settle(r)
<1>. USE DEF vars, rowVars, taskVars, robotVars, wireVars, IInv, TypeOK, TasksOK
<1>1. CASE Dispatching
  <2>1. ASSUME NEW q \in Runs, InsertRun(q) \/ DispatchUnanswered(q) \/ Settle(q)
        PROVE  q = r /\ Settle(q)
      BY <2>1 DEF InsertRun, DispatchUnanswered, Settle
  <2>. QED  BY <1>1, <2>1 DEF Dispatching, BeginDispatch, InsertRefused, PrepareFails, SettleFails
<1>2. CASE Controlling
    BY <1>2 DEF Controlling, CancelDeferred, BeginCall, CallUnanswered, EndCancel, EndSteer,
       CallFails, CloseRun, DeleteRun
<1>3. CASE Recording
    BY <1>3 DEF Recording, Record, LoseFrame
<1>4. CASE Connecting
    BY <1>4 DEF Connecting, RecordOffline, FetchClaim, FetchFails, RecordOnline, JudgeSpares,
       JudgeCancels, CloseUnclaimed, ReconnectFails
<1>5. CASE Restart
    BY <1>5 DEF Restart
<1>6. CASE RobotStep
    BY <1>6 DEF RobotStep, RobotAnswers, RobotTakes, RobotRejects, RobotStops, RobotReports,
       RobotEnds, RobotLeaves, RobotReturns, RobotReboots
<1>. QED  BY <1>1, <1>2, <1>3, <1>4, <1>5, <1>6 DEF Next

\* Every branch of settle that sees the robot accept writes the dispatch time.
THEOREM AcceptedRunsAreDated == Spec => AcceptedRunHasDispatchTime
<1>1. ASSUME IInv, [Next]_vars
      PROVE  \A r \in Runs :
                (start[r] = "ACCEPTED" /\ start'[r] = "over" /\ status[r] # "deleted")
                    => dispatched'[r]
  <2>. SUFFICES ASSUME NEW r \in Runs, start[r] = "ACCEPTED", start'[r] = "over",
                       status[r] # "deleted"
                PROVE  dispatched'[r]
      OBVIOUS
  <2>1. Settle(r)
      BY <1>1, AcceptedIsSettled
  <2>2. SettleAccepted(r) \/ SettleOvertaken(r)
      BY <2>1 DEF Settle, SettleMissing, SettleUnconfirmed, SettleRejected, SettleStands
  <2>. QED  BY <1>1, <2>2 DEF SettleAccepted, SettleOvertaken, IInv, TypeOK, RowsOK
<1>. QED  BY <1>1, Invariance, PTL DEF Spec, AcceptedRunHasDispatchTime

-----------------------------------------------------------------------------
(* What drives, and what may still start                                   *)

Gone(r) == \A b \in Robots : holds[b] # r /\ <<b, r>> \notin queries

\* A run that has no row is nowhere.
UnbornAreGone == \A r \in Runs : status[r] = "absent" => Gone(r)

\* A dispatch is on the wire once, or it has become a robot's run.
DispatchedOnce ==
    \A r \in Runs, b, c \in Robots :
        /\ holds[b] = r => <<c, r>> \notin queries
        /\ (holds[b] = r /\ holds[c] = r) => b = c
        /\ (<<b, r>> \in queries /\ <<c, r>> \in queries) => b = c

\* The robot's word that a run has ended, or that it never began.
OutcomesAreTrue ==
    \A f \in frames : f.exec \in OutcomeReports => Gone(f.run) /\ status[f.run] # "absent"

RefusalsAreTrue ==
    \A r \in Runs : start[r] = "REJECTED" => Gone(r) /\ status[r] # "absent"

DInv == UnbornAreGone /\ DispatchedOnce /\ OutcomesAreTrue /\ RefusalsAreTrue /\ EndedRunIsNotDriven

\* Nothing is added to what robots hold and to what is on its way to them.
Fewer == queries' \subseteq queries /\ \A b \in Robots : holds'[b] \in {holds[b], None}

LEMMA CarrySteps ==
    ASSUME IInv, [Next]_vars
    PROVE  \/ \E r \in Runs : InsertRun(r)
           \/ \E b \in Robots, r \in Runs : RobotTakes(b, r)
           \/ Fewer
<1>. USE DEF vars, rowVars, taskVars, robotVars, wireVars, Fewer
<1>1. CASE Dispatching
    BY <1>1 DEF Dispatching, BeginDispatch, InsertRefused, PrepareFails, SettleFails,
       DispatchUnanswered, Settle
<1>2. CASE Controlling
    BY <1>2 DEF Controlling, CancelDeferred, BeginCall, CallUnanswered, EndCancel, EndSteer,
       CallFails, CloseRun, DeleteRun
<1>3. CASE Recording
    BY <1>3 DEF Recording, Record, LoseFrame
<1>4. CASE Connecting
  <2>. PICK b \in Robots :
          \/ RecordOffline(b)
          \/ FetchClaim(b)
          \/ FetchFails(b)
          \/ RecordOnline(b)
          \/ JudgeSpares(b)
          \/ \E r \in Runs : JudgeCancels(b, r) \/ CloseUnclaimed(b, r)
          \/ ReconnectFails(b)
      BY <1>4 DEF Connecting
  <2>1. UNCHANGED <<holds, queries>>
      BY DEF RecordOffline, FetchClaim, FetchFails, RecordOnline, JudgeSpares, JudgeCancels,
         CloseUnclaimed, ReconnectFails
  <2>. QED  BY <2>1
<1>5. CASE Restart
    BY <1>5 DEF Restart
<1>6. CASE RobotStep
    BY <1>6 DEF RobotStep, RobotAnswers, RobotRejects, RobotStops, RobotReports, RobotEnds,
       RobotLeaves, RobotReturns, RobotReboots, IInv, TypeOK, RobotsOK
<1>. QED  BY <1>1, <1>2, <1>3, <1>4, <1>5, <1>6 DEF Next

LEMMA RunsAreNotNone == RunControlAssumption => None \notin Runs
BY DEF RunControlAssumption

\* A run without a row had none.
LEMMA UnbornBefore ==
    ASSUME IInv, [Next]_vars, NEW r \in Runs, status'[r] = "absent"
    PROVE  status[r] = "absent"
<1>1. Moved(r) => status'[r] # "absent"
    BY AllowedTypes, StatusesAreSplit DEF Moved
<1>. QED  BY <1>1, RunsAreWritten DEF Written, Stands, Created, Dropped, SettledAtOnce

\* A run that was created and is gone stays so.
LEMMA GoneStays ==
    ASSUME RunControlAssumption, IInv, [Next]_vars, NEW r \in Runs, Gone(r), status[r] # "absent"
    PROVE  Gone(r)' /\ status'[r] # "absent"
<1>1. status'[r] # "absent"
    BY UnbornBefore
<1>2. ASSUME NEW q \in Runs, InsertRun(q)
      PROVE  Gone(r)'
  <2>1. q # r
      BY <1>2 DEF InsertRun, IInv, StartsAreAbsent
  <2>. QED  BY <1>2, <2>1 DEF InsertRun, Gone, robotVars
<1>3. ASSUME NEW b \in Robots, NEW q \in Runs, RobotTakes(b, q)
      PROVE  Gone(r)'
  <2>1. q # r
      BY <1>3 DEF RobotTakes, Gone
  <2>. QED  BY <1>3, <2>1 DEF RobotTakes, Gone, IInv, TypeOK, RobotsOK
<1>4. CASE Fewer
    BY <1>1, <1>4, RunsAreNotNone DEF Fewer, Gone
<1>. QED  BY <1>1, <1>2, <1>3, <1>4, CarrySteps

LEMMA UnbornStayGone ==
    ASSUME RunControlAssumption, IInv, DInv, [Next]_vars
    PROVE  UnbornAreGone'
<1>. SUFFICES ASSUME NEW r \in Runs, status'[r] = "absent"
              PROVE  Gone(r)'
    BY DEF UnbornAreGone
<1>1. status[r] = "absent"
    BY UnbornBefore
<1>2. Gone(r)
    BY <1>1 DEF DInv, UnbornAreGone
<1>3. ASSUME NEW q \in Runs, InsertRun(q)
      PROVE  Gone(r)'
  <2>1. q # r
      BY <1>3 DEF InsertRun, IInv, TypeOK, RowsOK
  <2>. QED  BY <1>2, <1>3, <2>1 DEF InsertRun, Gone, robotVars
<1>4. ASSUME NEW b \in Robots, NEW q \in Runs, RobotTakes(b, q)
      PROVE  Gone(r)'
  <2>1. q # r
      BY <1>2, <1>4 DEF RobotTakes, Gone
  <2>. QED  BY <1>2, <1>4, <2>1 DEF RobotTakes, Gone, IInv, TypeOK, RobotsOK
<1>5. CASE Fewer
    BY <1>2, <1>5, RunsAreNotNone DEF Fewer, Gone
<1>. QED  BY <1>3, <1>4, <1>5, CarrySteps

LEMMA DispatchedStaysOnce ==
    ASSUME RunControlAssumption, IInv, DInv, [Next]_vars
    PROVE  DispatchedOnce'
<1>1. ASSUME NEW q \in Runs, InsertRun(q)
      PROVE  DispatchedOnce'
  <2>1. Gone(q)
      BY <1>1 DEF InsertRun, IInv, StartsAreAbsent, DInv, UnbornAreGone
  <2>2. holds' = holds /\ queries' = queries \cup {<<starting[q].robot, q>>}
      BY <1>1 DEF InsertRun, robotVars
  <2>. QED  BY <2>1, <2>2 DEF Gone, DInv, DispatchedOnce
<1>2. ASSUME NEW b \in Robots, NEW q \in Runs, RobotTakes(b, q)
      PROVE  DispatchedOnce'
  <2>1. /\ <<b, q>> \in queries
        /\ queries' = queries \ {<<b, q>>}
        /\ \A c \in Robots : holds'[c] = IF c = b THEN q ELSE holds[c]
      BY <1>2 DEF RobotTakes, IInv, TypeOK, RobotsOK
  <2>. QED  BY <2>1 DEF DInv, DispatchedOnce
<1>3. CASE Fewer
    BY <1>3, RunsAreNotNone DEF Fewer, DInv, DispatchedOnce
<1>. QED  BY <1>1, <1>2, <1>3, CarrySteps

LEMMA FrameSteps ==
    ASSUME IInv, [Next]_vars
    PROVE  \/ frames' \subseteq frames /\ header' = header
           \/ \E b \in Robots : RobotReports(b)
           \/ \E b \in Robots, exec \in OutcomeReports : RobotEnds(b, exec)
<1>. USE DEF vars, rowVars, taskVars, robotVars, wireVars
<1>1. CASE Dispatching
    BY <1>1 DEF Dispatching, BeginDispatch, InsertRun, InsertRefused, PrepareFails, SettleFails,
       DispatchUnanswered, Settle
<1>2. CASE Controlling
    BY <1>2 DEF Controlling, CancelDeferred, BeginCall, CallUnanswered, EndCancel, EndSteer,
       CallFails, CloseRun, DeleteRun
<1>3. CASE Recording
    BY <1>3 DEF Recording, Record, LoseFrame
<1>4. CASE Connecting
  <2>. PICK b \in Robots :
          \/ RecordOffline(b)
          \/ FetchClaim(b)
          \/ FetchFails(b)
          \/ RecordOnline(b)
          \/ JudgeSpares(b)
          \/ \E r \in Runs : JudgeCancels(b, r) \/ CloseUnclaimed(b, r)
          \/ ReconnectFails(b)
      BY <1>4 DEF Connecting
  <2>1. UNCHANGED <<frames, header>>
      BY DEF RecordOffline, FetchClaim, FetchFails, RecordOnline, JudgeSpares, JudgeCancels,
         CloseUnclaimed, ReconnectFails
  <2>. QED  BY <2>1
<1>5. CASE Restart
    BY <1>5 DEF Restart
<1>6. CASE RobotStep
    BY <1>6 DEF RobotStep, RobotAnswers, RobotTakes, RobotRejects, RobotStops, RobotLeaves,
       RobotReturns, RobotReboots
<1>. QED  BY <1>1, <1>2, <1>3, <1>4, <1>5, <1>6 DEF Next

LEMMA OutcomesStayTrue ==
    ASSUME RunControlAssumption, IInv, DInv, [Next]_vars
    PROVE  OutcomesAreTrue'
<1>. SUFFICES ASSUME NEW f \in frames', f.exec \in OutcomeReports
              PROVE  Gone(f.run)' /\ status'[f.run] # "absent"
    BY DEF OutcomesAreTrue
<1>1. CASE f \in frames
  <2>1. f.run \in Runs
      BY <1>1 DEF IInv, TypeOK, WireOK, Frame
  <2>2. Gone(f.run) /\ status[f.run] # "absent"
      BY <1>1 DEF DInv, OutcomesAreTrue
  <2>. QED  BY <2>1, <2>2, GoneStays
<1>2. CASE f \notin frames
  <2>1. ASSUME NEW b \in Robots, RobotReports(b)
        PROVE  FALSE
      BY <1>2, <2>1 DEF RobotReports, Sends, OutcomeReports
  <2>2. ASSUME NEW b \in Robots, NEW exec \in OutcomeReports, RobotEnds(b, exec)
        PROVE  Gone(f.run)' /\ status'[f.run] # "absent"
    <3>1. f.run = holds[b]
        BY <1>2, <2>2 DEF RobotEnds, Sends
    <3>2. holds[b] \in Runs
        BY <2>2 DEF RobotEnds, IInv, TypeOK, RobotsOK
    <3>3. /\ queries' = queries /\ status' = status
          /\ \A c \in Robots : holds'[c] = IF c = b THEN None ELSE holds[c]
        BY <2>2 DEF RobotEnds, rowVars, IInv, TypeOK, RobotsOK
    <3>4. status[holds[b]] # "absent"
        BY <3>2 DEF DInv, UnbornAreGone, Gone
    <3>5. \A c \in Robots : holds'[c] # holds[b] /\ <<c, holds[b]>> \notin queries
        BY <3>2, <3>3, RunsAreNotNone DEF DInv, DispatchedOnce
    <3>. QED  BY <3>1, <3>3, <3>4, <3>5 DEF Gone
  <2>. QED  BY <1>2, <2>1, <2>2, FrameSteps
<1>. QED  BY <1>1, <1>2

LEMMA RejectSteps ==
    ASSUME IInv, [Next]_vars, NEW r \in Runs, start'[r] = "REJECTED", start[r] # "REJECTED"
    PROVE  \E b \in Robots : RobotRejects(b, r)
<1>. USE DEF vars, rowVars, taskVars, robotVars, wireVars, IInv, TypeOK, TasksOK
<1>1. CASE Dispatching
  <2>1. ASSUME NEW q \in Runs, InsertRun(q) \/ DispatchUnanswered(q) \/ Settle(q)
        PROVE  FALSE
      BY <2>1 DEF InsertRun, DispatchUnanswered, Settle
  <2>. QED  BY <1>1, <2>1 DEF Dispatching, BeginDispatch, InsertRefused, PrepareFails, SettleFails
<1>2. CASE Controlling
    BY <1>2 DEF Controlling, CancelDeferred, BeginCall, CallUnanswered, EndCancel, EndSteer,
       CallFails, CloseRun, DeleteRun
<1>3. CASE Recording
    BY <1>3 DEF Recording, Record, LoseFrame
<1>4. CASE Connecting
    BY <1>4 DEF Connecting, RecordOffline, FetchClaim, FetchFails, RecordOnline, JudgeSpares,
       JudgeCancels, CloseUnclaimed, ReconnectFails
<1>5. CASE Restart
    BY <1>5 DEF Restart
<1>6. CASE RobotStep
  <2>1. ASSUME NEW b \in Robots, NEW q \in Runs, RobotRejects(b, q)
        PROVE  q = r
      BY <2>1 DEF RobotRejects
  <2>2. ASSUME NEW b \in Robots, NEW q \in Runs, RobotTakes(b, q)
        PROVE  FALSE
      BY <2>2 DEF RobotTakes
  <2>. QED
      BY <1>6, <2>1, <2>2 DEF RobotStep, RobotAnswers, RobotStops, RobotReports, RobotEnds,
         RobotLeaves, RobotReturns, RobotReboots
<1>. QED  BY <1>1, <1>2, <1>3, <1>4, <1>5, <1>6 DEF Next

LEMMA RefusalsStayTrue ==
    ASSUME RunControlAssumption, IInv, DInv, [Next]_vars
    PROVE  RefusalsAreTrue'
<1>. SUFFICES ASSUME NEW r \in Runs, start'[r] = "REJECTED"
              PROVE  Gone(r)' /\ status'[r] # "absent"
    BY DEF RefusalsAreTrue
<1>1. CASE start[r] = "REJECTED"
    BY <1>1, GoneStays DEF DInv, RefusalsAreTrue
<1>2. ASSUME NEW b \in Robots, RobotRejects(b, r)
      PROVE  Gone(r)' /\ status'[r] # "absent"
  <2>1. /\ <<b, r>> \in queries
        /\ queries' = queries \ {<<b, r>>}
        /\ holds' = holds /\ status' = status
      BY <1>2 DEF RobotRejects, robotVars, rowVars
  <2>2. status[r] # "absent"
      BY <2>1 DEF DInv, UnbornAreGone, Gone
  <2>. QED  BY <2>1, <2>2 DEF DInv, DispatchedOnce, Gone
<1>. QED  BY <1>1, <1>2, RejectSteps

\* What a robot reports while it goes on does not end a run.
LEMMA ProgressLeadsOn ==
    ASSUME NEW from, NEW trigger \in {"PAUSE", "RESUME", "ACK"}, NEW to,
           Allowed(from, trigger, to)
    PROVE  to \notin TerminalStatuses
BY DEF Allowed, AllowedTransitions, ReplyTransitions, RequestTransitions, ProgressTransitions,
       CloseTransitions, ReconcileTransitions, OutcomeTransitions, TerminalStatuses

\* The step of an ended run: it stays as it is or is deleted.
LEMMA EndedStands ==
    ASSUME RunControlAssumption, IInv, [Next]_vars, NEW r \in Runs, Terminal(r),
           status'[r] # "deleted"
    PROVE  last'[r] = last[r]
<1>1. CASE \E q \in Runs : InsertRun(q)
    BY <1>1, InsertStep DEF Terminal, TerminalStatuses, Untouched
<1>2. CASE ~ \E q \in Runs : InsertRun(q)
    BY <1>2, RowSteps, StatusesAreSplit DEF Terminal, RunsStep, RowStep, Untouched, Lives, Deleted
<1>. QED  BY <1>1, <1>2

\* A run ends on a refusal, on an outcome, or by the backend's own decision.
LEMMA EndingSteps ==
    ASSUME IInv, [Next]_vars, NEW r \in Runs, ~Terminal(r), Terminal(r)',
           last'[r].trigger \notin {"CLOSE", "RECONCILE"}
    PROVE  \/ start[r] = "REJECTED"
           \/ \E f \in frames : f.run = r /\ f.exec \in OutcomeReports
<1>. USE DEF IInv, TypeOK, Terminal
<1>. DEFINE Ends == \/ start[r] = "REJECTED"
                    \/ \E f \in frames : f.run = r /\ f.exec \in OutcomeReports
<1>1. status'[r] # status[r] /\ status'[r] \in TerminalStatuses
    OBVIOUS
<1>2. CASE SameRow(r)
    BY <1>1, <1>2 DEF SameRow
<1>3. CASE InsertRun(r)
    BY <1>1, <1>3 DEF InsertRun, RowsOK, TerminalStatuses
<1>4. CASE Settle(r)
  <2>1. CASE SettleMissing(r) \/ SettleStands(r) \/ SettleOvertaken(r)
      BY <1>1, <2>1 DEF SettleMissing, SettleStands, SettleOvertaken, rowVars
  <2>2. CASE SettleAccepted(r) \/ SettleUnconfirmed(r)
      BY <1>1, <2>2 DEF SettleAccepted, SettleUnconfirmed, Move, RowsOK, TerminalStatuses
  <2>3. CASE SettleRejected(r)
      BY <2>3 DEF SettleRejected
  <2>. QED  BY <1>4, <2>1, <2>2, <2>3 DEF Settle
<1>5. CASE CancelDeferred(r)
    BY <1>1, <1>5 DEF CancelDeferred, Move, RowsOK, TerminalStatuses
<1>6. CASE EndCancel(r)
  <2>1. CASE CancelRecorded(r)
      BY <1>1, <2>1 DEF CancelRecorded, Move, RowsOK, TerminalStatuses
  <2>2. CASE CancelSettled(r)
      BY <2>2 DEF CancelSettled, Move, RowsOK
  <2>. QED  BY <1>6, <2>1, <2>2 DEF EndCancel
<1>7. CASE EndSteer(r)
  <2>1. CASE SteerDropped(r)
      BY <1>1, <2>1 DEF SteerDropped
  <2>2. ASSUME NEW to \in Statuses, SteerApplied(r, to)
        PROVE  FALSE
    <3>1. to \notin TerminalStatuses
        BY <1>7, <2>2, SteersLeadOn DEF EndSteer, SteerApplied
    <3>. QED  BY <1>1, <2>2, <3>1 DEF SteerApplied, Move, RowsOK
  <2>. QED  BY <1>7, <2>1, <2>2 DEF EndSteer
<1>8. CASE CloseRun(r)
    BY <1>8 DEF CloseRun, Move, RowsOK
<1>9. CASE DeleteRun(r)
    BY <1>1, <1>9 DEF DeleteRun, RowsOK, TerminalStatuses
<1>10. ASSUME NEW f \in frames, f.run = r, Record(f)
       PROVE  Ends
  <2>. DEFINE trigger == TriggerForReport(status[r], f.exec)
  <2>1. f.exec \in ExecStatuses
      BY DEF WireOK, Frame
  <2>2. f.exec \notin OutcomeReports => trigger \in {"PAUSE", "RESUME", "ACK"}
      BY <2>1 DEF TriggerForReport, ExecStatuses, OutcomeReports, ProgressReports
  <2>3. ASSUME NEW to \in TerminalStatuses, RecordOutcome(f, trigger, to)
        PROVE  Ends
    <3>1. Allowed(status[r], trigger, to)
        BY <1>10, <2>3 DEF RecordOutcome, Applies
    <3>2. f.exec \in OutcomeReports
        BY <2>2, <3>1, ProgressLeadsOn
    <3>. QED  BY <1>10, <3>2
  <2>4. ASSUME NEW to \in ExecutingStatuses, RecordProgress(f, trigger, to)
        PROVE  FALSE
      BY <1>1, <1>10, <2>4, StatusesAreSplit DEF RecordProgress, Move, RowsOK, ActiveStatuses
  <2>5. CASE RecordDropped(f) \/ RecordRepeat(f, trigger)
      BY <1>1, <2>5 DEF RecordDropped, RecordRepeat
  <2>. QED  BY <1>10, <2>3, <2>4, <2>5 DEF Record, RecordLive
<1>11. ASSUME NEW b \in Robots, CloseUnclaimed(b, r)
       PROVE  FALSE
  <2>1. CASE MovedOn(b, r)
      BY <1>1, <2>1 DEF MovedOn
  <2>2. CASE Unclaimed(b, r)
    <3>1. \E to : Move(r, "RECONCILE", to, 0, "unset")
        BY <2>2 DEF Unclaimed
    <3>. QED  BY <3>1 DEF Move, RowsOK
  <2>. QED  BY <1>11, <2>1, <2>2 DEF CloseUnclaimed
<1>. QED
    BY <1>2, <1>3, <1>4, <1>5, <1>6, <1>7, <1>8, <1>9, <1>10, <1>11, RowWriters DEF Writing

LEMMA EndedStayUndriven ==
    ASSUME RunControlAssumption, IInv, DInv, [Next]_vars
    PROVE  EndedRunIsNotDriven'
<1>. SUFFICES ASSUME NEW r \in Runs, Terminal(r)', last'[r].trigger \notin {"CLOSE", "RECONCILE"}
              PROVE  Gone(r)'
    BY DEF EndedRunIsNotDriven, Gone
<1>1. CASE Terminal(r)
  <2>1. last'[r] = last[r]
      BY <1>1, EndedStands, StatusesAreSplit DEF Terminal
  <2>2. Gone(r)
      BY <1>1, <2>1 DEF DInv, EndedRunIsNotDriven, Gone
  <2>. QED  BY <1>1, <2>2, GoneStays, StatusesAreSplit DEF Terminal
<1>2. CASE ~Terminal(r)
  <2>1. CASE start[r] = "REJECTED"
      BY <2>1, GoneStays DEF DInv, RefusalsAreTrue
  <2>2. ASSUME NEW f \in frames, f.run = r, f.exec \in OutcomeReports
        PROVE  Gone(r)'
      BY <2>2, GoneStays DEF DInv, OutcomesAreTrue
  <2>. QED  BY <1>2, <2>1, <2>2, EndingSteps
<1>. QED  BY <1>1, <1>2

\* A run that ended on its robot's word, a refusal or an outcome, is driven by no
\* robot, and no dispatch that could start it is under way: a late dispatch can
\* only find a run the robot was never asked about, or one still open.
THEOREM EndedRunsAreNotDriven == Spec => []EndedRunIsNotDriven
<1>1. RunControlAssumption /\ Init => DInv
    BY DEF RunControlAssumption, Init, DInv, UnbornAreGone, DispatchedOnce, OutcomesAreTrue,
       RefusalsAreTrue, EndedRunIsNotDriven, Gone, Terminal, TerminalStatuses
<1>2. RunControlAssumption /\ IInv /\ DInv /\ [Next]_vars => DInv'
    BY UnbornStayGone, DispatchedStaysOnce, OutcomesStayTrue, RefusalsStayTrue, EndedStayUndriven
       DEF DInv
<1>3. DInv => EndedRunIsNotDriven
    BY DEF DInv
<1>. QED  BY <1>1, <1>2, <1>3, Invariance, RunControlAssumption, PTL DEF Spec

-----------------------------------------------------------------------------
(* The versions of the stage rows                                          *)

HeadersKept(r) == \A s \in Stages : stageRows'[r][s].header = stageRows[r][s].header

HeadersGone(r) ==
    status'[r] = "deleted" /\ \A s \in Stages : stageRows'[r][s].header = 0

\* A frame writes its own version; a lower one only if it carries the outcome.
HeadersFrom(f) ==
    \A s \in Stages :
        /\ stageRows'[f.run][s].header \in {f.header, stageRows[f.run][s].header}
        /\ f.exec \notin OutcomeReports =>
              stageRows'[f.run][s].header >= stageRows[f.run][s].header

LEMMA HeadersAreNat ==
    ASSUME IInv, NEW r \in Runs, NEW s \in Stages
    PROVE  stageRows[r][s].header \in Nat
BY DEF IInv, TypeOK, RowsOK, StageRow, NoRow

LEMMA CloseKeepsHeaders ==
    ASSUME RunControlAssumption, IInv, NEW r \in Runs, NEW to, CloseStages(r, to)
    PROVE  HeadersKept(r)
<1>1. stageRows[r] \in [Stages -> StageRow] /\ Plan \in SUBSET Stages
    BY DEF IInv, TypeOK, RowsOK, Plan
<1>2. stageRows'[r] = Closed(stageRows[r], Plan, to)
    BY DEF CloseStages, IInv, TypeOK, RowsOK
<1>3. \A s \in Stages : Closed(stageRows[r], Plan, to)[s].header = stageRows[r][s].header
    BY <1>1, ClosedRows
<1>. QED  BY <1>2, <1>3 DEF HeadersKept

LEMMA FrameWritesHeaders ==
    ASSUME RunControlAssumption, IInv, NEW f \in frames, Record(f)
    PROVE  HeadersFrom(f)
<1>. USE DEF IInv, TypeOK
<1>. DEFINE r == f.run
            rows == stageRows[r]
            trigger == TriggerForReport(status[r], f.exec)
<1>1. /\ r \in Runs /\ f.header \in Nat /\ f.exec \in ExecStatuses
      /\ \A s \in DOMAIN f.stages : f.stages[s] \in StageStatuses
    BY DEF WireOK, Frame, RunControlAssumption
<1>2. rows \in [Stages -> StageRow] /\ Plan \in SUBSET Stages
    BY <1>1 DEF RowsOK, Plan
<1>3. \A s \in Stages : rows[s].header \in Nat
    BY <1>1, HeadersAreNat
<1>4. CASE stageRows'[r] = rows
    BY <1>3, <1>4 DEF HeadersFrom
<1>5. CASE stageRows'[r] = Upsert(rows, f.header, f.stages)
  <2>1. \A s \in Stages : Upsert(rows, f.header, f.stages)[s].header >= rows[s].header
      BY <1>1, <1>2, UpsertRows
  <2>2. \A s \in Stages : Upsert(rows, f.header, f.stages)[s].header \in {f.header, rows[s].header}
      BY <1>2 DEF Upsert
  <2>. QED  BY <1>5, <2>1, <2>2 DEF HeadersFrom
<1>6. ASSUME NEW to \in TerminalStatuses, RecordOutcome(f, trigger, to)
      PROVE  HeadersFrom(f)
  <2>. DEFINE over == Overlay(rows, f.header, f.stages)
  <2>1. over \in [Stages -> StageRow]
      BY <1>1, <1>2, OverlayRows
  <2>2. \A s \in Stages : over[s].header \in {f.header, rows[s].header}
      BY <1>2 DEF Overlay
  <2>3. stageRows'[r] = Closed(over, Plan, to)
      BY <1>1, <1>6 DEF RecordOutcome, RowsOK
  <2>4. \A s \in Stages : Closed(over, Plan, to)[s].header = over[s].header
      BY <1>2, <2>1, ClosedRows
  <2>5. f.exec \in OutcomeReports
    <3>1. Allowed(status[r], trigger, to)
        BY <1>6 DEF RecordOutcome, Applies
    <3>2. f.exec \notin OutcomeReports => trigger \in {"PAUSE", "RESUME", "ACK"}
        BY <1>1 DEF TriggerForReport, ExecStatuses, OutcomeReports, ProgressReports
    <3>. QED  BY <3>1, <3>2, ProgressLeadsOn
  <2>. QED  BY <2>2, <2>3, <2>4, <2>5 DEF HeadersFrom
<1>7. ASSUME NEW to \in ExecutingStatuses, RecordProgress(f, trigger, to)
      PROVE  stageRows'[r] = Upsert(rows, f.header, f.stages)
    BY <1>1, <1>7 DEF RecordProgress, RowsOK
<1>8. CASE RecordDropped(f) \/ RecordRepeat(f, trigger)
    BY <1>1, <1>4, <1>5, <1>8 DEF RecordDropped, RecordRepeat, RowsOK
<1>. QED  BY <1>5, <1>6, <1>7, <1>8 DEF Record, RecordLive

LEMMA HeaderWrites ==
    ASSUME RunControlAssumption, IInv, [Next]_vars, NEW r \in Runs
    PROVE  \/ HeadersKept(r)
           \/ HeadersGone(r)
           \/ \E f \in frames : f.run = r /\ HeadersFrom(f)
<1>1. CASE SameRow(r)
    BY <1>1 DEF SameRow, HeadersKept
<1>2. CASE InsertRun(r) \/ CancelDeferred(r) \/ EndSteer(r)
    BY <1>2 DEF InsertRun, CancelDeferred, EndSteer, HeadersKept
<1>3. CASE Settle(r)
  <2>1. CASE SettleRejected(r)
      BY <2>1, CloseKeepsHeaders DEF SettleRejected
  <2>. QED
      BY <1>3, <2>1 DEF Settle, SettleMissing, SettleAccepted, SettleUnconfirmed, SettleOvertaken,
         SettleStands, rowVars, HeadersKept
<1>4. CASE EndCancel(r)
  <2>1. CASE CancelSettled(r)
      BY <2>1, CloseKeepsHeaders DEF CancelSettled
  <2>. QED  BY <1>4, <2>1 DEF EndCancel, CancelRecorded, HeadersKept
<1>5. CASE CloseRun(r)
    BY <1>5, CloseKeepsHeaders DEF CloseRun
<1>6. CASE DeleteRun(r)
    BY <1>6 DEF DeleteRun, HeadersGone, NoRow, IInv, TypeOK, RowsOK
<1>7. ASSUME NEW f \in frames, f.run = r, Record(f)
      PROVE  HeadersFrom(f)
    BY <1>7, FrameWritesHeaders
<1>8. ASSUME NEW b \in Robots, CloseUnclaimed(b, r)
      PROVE  HeadersKept(r)
  <2>1. CASE Unclaimed(b, r)
      BY <2>1, CloseKeepsHeaders DEF Unclaimed
  <2>. QED  BY <1>8, <2>1 DEF CloseUnclaimed, MovedOn, HeadersKept
<1>. QED  BY <1>1, <1>2, <1>3, <1>4, <1>5, <1>6, <1>7, <1>8, RowWriters DEF Writing

-----------------------------------------------------------------------------
(* The versions of the frames                                              *)

Carries(b, r) == holds[b] = r \/ <<b, r>> \in queries

FramesAreCounted == \A f \in frames : f.header <= header[f.robot]

UnbornAreBlank ==
    \A r \in Runs : status[r] = "absent" =>
        /\ \A f \in frames : f.run # r
        /\ \A s \in Stages : stageRows[r][s].header = 0

\* The reports on a run come from the robot that has it, and count up.
CarriersAreAhead ==
    \A b \in Robots, r \in Runs : Carries(b, r) =>
        /\ \A f \in frames : f.run = r => f.robot = b
        /\ \A s \in Stages : stageRows[r][s].header <= header[b]

\* No report on a run is newer than the one of its outcome.
OutcomesAreLast ==
    \A f \in frames : f.exec \in OutcomeReports =>
        /\ \A g \in frames : g.run = f.run => g.header <= f.header
        /\ \A s \in Stages : stageRows[f.run][s].header <= f.header

HInv == FramesAreCounted /\ UnbornAreBlank /\ CarriersAreAhead /\ OutcomesAreLast

\* A robot's next report, on the run it holds.
LEMMA ReportSteps ==
    ASSUME IInv, NEW b \in Robots,
           RobotReports(b) \/ \E exec \in OutcomeReports : RobotEnds(b, exec)
    PROVE  /\ holds[b] \in Runs
           /\ UNCHANGED <<stageRows, status, queries>>
           /\ header[b] \in Nat /\ header'[b] = header[b] + 1
           /\ \A c \in Robots \ {b} : header'[c] = header[c]
           /\ \A f \in frames' \ frames :
                 f.robot = b /\ f.run = holds[b] /\ f.header = header'[b]
<1>. USE DEF IInv, TypeOK, RobotsOK, rowVars, wireVars
<1>1. PICK exec : Sends(b, holds[b], exec)
    BY DEF RobotReports, RobotEnds
<1>2. holds[b] \in Runs /\ UNCHANGED <<stageRows, status, queries>>
    BY DEF RobotReports, RobotEnds
<1>3. /\ header[b] \in Nat /\ header'[b] = header[b] + 1
      /\ \A c \in Robots \ {b} : header'[c] = header[c]
    BY <1>1 DEF Sends
<1>4. \A f \in frames' \ frames : f.robot = b /\ f.run = holds[b] /\ f.header = header[b] + 1
    BY <1>1 DEF Sends
<1>. QED  BY <1>2, <1>3, <1>4

LEMMA HeadersOfFrames ==
    ASSUME IInv, NEW f \in frames
    PROVE  f.run \in Runs /\ f.robot \in Robots /\ f.header \in Nat
BY DEF IInv, TypeOK, WireOK, Frame

LEMMA FramesStayCounted ==
    ASSUME IInv, HInv, [Next]_vars
    PROVE  FramesAreCounted'
<1>1. CASE frames' \subseteq frames /\ header' = header
    BY <1>1 DEF HInv, FramesAreCounted
<1>2. ASSUME NEW b \in Robots,
             RobotReports(b) \/ \E exec \in OutcomeReports : RobotEnds(b, exec)
      PROVE  FramesAreCounted'
  <2>. SUFFICES ASSUME NEW f \in frames'
                PROVE  f.header <= header'[f.robot]
      BY DEF FramesAreCounted
  <2>1. CASE f \in frames
    <3>1. f.header <= header[f.robot] /\ f.robot \in Robots /\ f.header \in Nat
        BY <2>1, HeadersOfFrames DEF HInv, FramesAreCounted
    <3>. QED  BY <1>2, <3>1, ReportSteps
  <2>2. CASE f \notin frames
    <3>1. f.robot = b /\ f.header = header'[b] /\ header[b] \in Nat /\ header'[b] = header[b] + 1
        BY <1>2, <2>2, ReportSteps
    <3>. QED  BY <3>1
  <2>. QED  BY <2>1, <2>2
<1>. QED  BY <1>1, <1>2, FrameSteps

LEMMA UnbornStayBlank ==
    ASSUME RunControlAssumption, IInv, DInv, HInv, [Next]_vars
    PROVE  UnbornAreBlank'
<1>. SUFFICES ASSUME NEW r \in Runs, status'[r] = "absent"
              PROVE  /\ \A f \in frames' : f.run # r
                     /\ \A s \in Stages : stageRows'[r][s].header = 0
    BY DEF UnbornAreBlank
<1>1. /\ status[r] = "absent" /\ Gone(r)
      /\ \A f \in frames : f.run # r
      /\ \A s \in Stages : stageRows[r][s].header = 0
    BY UnbornBefore DEF HInv, UnbornAreBlank, DInv, UnbornAreGone
<1>2. \A s \in Stages : stageRows'[r][s].header = 0
    BY <1>1, HeaderWrites DEF HeadersKept, HeadersGone
<1>3. \A f \in frames' : f.run # r
  <2>1. ASSUME NEW b \in Robots,
               RobotReports(b) \/ \E exec \in OutcomeReports : RobotEnds(b, exec)
        PROVE  \A f \in frames' : f.run # r
    <3>1. \A f \in frames' \ frames : f.run = holds[b]
        BY <2>1, ReportSteps
    <3>. QED  BY <1>1, <3>1 DEF Gone
  <2>. QED  BY <1>1, <2>1, FrameSteps
<1>. QED  BY <1>2, <1>3

\* Only its insertion puts a run on its way.
LEMMA CarriedBefore ==
    ASSUME RunControlAssumption, IInv, [Next]_vars, NEW b \in Robots, NEW r \in Runs,
           Carries(b, r)', ~InsertRun(r)
    PROVE  Carries(b, r)
<1>1. ASSUME NEW q \in Runs, InsertRun(q)
      PROVE  Carries(b, r)
    BY <1>1 DEF InsertRun, Carries, robotVars
<1>2. ASSUME NEW c \in Robots, NEW q \in Runs, RobotTakes(c, q)
      PROVE  Carries(b, r)
    BY <1>2 DEF RobotTakes, Carries, IInv, TypeOK, RobotsOK
<1>3. CASE Fewer
    BY <1>3, RunsAreNotNone DEF Fewer, Carries
<1>. QED  BY <1>1, <1>2, <1>3, CarrySteps

LEMMA CarriersStayAhead ==
    ASSUME RunControlAssumption, IInv, DInv, HInv, [Next]_vars
    PROVE  CarriersAreAhead'
<1>. SUFFICES ASSUME NEW b \in Robots, NEW r \in Runs, Carries(b, r)'
              PROVE  /\ \A f \in frames' : f.run = r => f.robot = b
                     /\ \A s \in Stages : stageRows'[r][s].header <= header'[b]
    BY DEF CarriersAreAhead
<1>1. CASE InsertRun(r)
  <2>1. /\ \A f \in frames : f.run # r
        /\ \A s \in Stages : stageRows[r][s].header = 0
      BY <1>1 DEF InsertRun, IInv, StartsAreAbsent, HInv, UnbornAreBlank
  <2>2. UNCHANGED <<frames, stageRows, header>> /\ header[b] \in Nat
      BY <1>1 DEF InsertRun, robotVars, IInv, TypeOK, RobotsOK
  <2>. QED  BY <2>1, <2>2
<1>2. CASE ~InsertRun(r)
  <2>1. Carries(b, r)
      BY <1>2, CarriedBefore
  <2>2. /\ \A f \in frames : f.run = r => f.robot = b
        /\ \A s \in Stages : stageRows[r][s].header <= header[b]
      BY <2>1 DEF HInv, CarriersAreAhead
  <2>3. \A f \in frames' : f.run = r => f.robot = b
    <3>1. ASSUME NEW c \in Robots,
                 RobotReports(c) \/ \E exec \in OutcomeReports : RobotEnds(c, exec)
          PROVE  \A f \in frames' : f.run = r => f.robot = b
      <4>1. \A f \in frames' \ frames : f.run = holds[c] /\ f.robot = c
          BY <3>1, ReportSteps
      <4>2. holds[c] = r => c = b
          BY <2>1 DEF Carries, DInv, DispatchedOnce
      <4>. QED  BY <2>2, <4>1, <4>2
    <3>. QED  BY <2>2, <3>1, FrameSteps
  <2>4. header[b] \in Nat /\ header'[b] \in Nat /\ header[b] <= header'[b]
    <3>1. header[b] \in Nat
        BY DEF IInv, TypeOK, RobotsOK
    <3>2. ASSUME NEW c \in Robots,
                 RobotReports(c) \/ \E exec \in OutcomeReports : RobotEnds(c, exec)
          PROVE  header'[b] \in {header[b], header[b] + 1}
        BY <3>2, ReportSteps
    <3>. QED  BY <3>1, <3>2, FrameSteps
  <2>5. \A s \in Stages : stageRows'[r][s].header \in Nat
    <3>1. IInv'
        BY NextInvariant
    <3>. QED  BY <3>1 DEF IInv, TypeOK, RowsOK, StageRow, NoRow
  <2>6. \A s \in Stages : stageRows'[r][s].header <= header[b]
    <3>1. CASE HeadersKept(r) \/ HeadersGone(r)
        BY <2>2, <2>4, <3>1 DEF HeadersKept, HeadersGone
    <3>2. ASSUME NEW f \in frames, f.run = r, HeadersFrom(f)
          PROVE  \A s \in Stages : stageRows'[r][s].header <= header[b]
      <4>1. f.header <= header[b]
          BY <2>2, <3>2 DEF HInv, FramesAreCounted
      <4>. QED  BY <2>2, <3>2, <4>1 DEF HeadersFrom
    <3>. QED  BY <3>1, <3>2, HeaderWrites
  <2>7. \A s \in Stages : stageRows'[r][s].header <= header'[b]
      BY <2>4, <2>5, <2>6
  <2>. QED  BY <2>3, <2>7
<1>. QED  BY <1>1, <1>2

LEMMA OutcomesStayLast ==
    ASSUME RunControlAssumption, IInv, DInv, HInv, [Next]_vars
    PROVE  OutcomesAreLast'
<1>. SUFFICES ASSUME NEW f \in frames', f.exec \in OutcomeReports
              PROVE  /\ \A g \in frames' : g.run = f.run => g.header <= f.header
                     /\ \A s \in Stages : stageRows'[f.run][s].header <= f.header
    BY DEF OutcomesAreLast
<1>1. CASE f \in frames
  <2>1. /\ Gone(f.run)
        /\ \A g \in frames : g.run = f.run => g.header <= f.header
        /\ \A s \in Stages : stageRows[f.run][s].header <= f.header
        /\ f.run \in Runs /\ f.header \in Nat
      BY <1>1, HeadersOfFrames DEF DInv, OutcomesAreTrue, HInv, OutcomesAreLast
  <2>2. \A g \in frames' : g.run = f.run => g.header <= f.header
    <3>1. ASSUME NEW b \in Robots,
                 RobotReports(b) \/ \E exec \in OutcomeReports : RobotEnds(b, exec)
          PROVE  \A g \in frames' \ frames : g.run # f.run
        BY <2>1, <3>1, ReportSteps DEF Gone
    <3>. QED  BY <2>1, <3>1, FrameSteps
  <2>3. \A s \in Stages : stageRows'[f.run][s].header <= f.header
    <3>1. CASE HeadersKept(f.run) \/ HeadersGone(f.run)
        BY <2>1, <3>1 DEF HeadersKept, HeadersGone
    <3>2. ASSUME NEW g \in frames, g.run = f.run, HeadersFrom(g)
          PROVE  \A s \in Stages : stageRows'[f.run][s].header <= f.header
        BY <2>1, <3>2 DEF HeadersFrom
    <3>. QED  BY <2>1, <3>1, <3>2, HeaderWrites
  <2>. QED  BY <2>2, <2>3
<1>2. CASE f \notin frames
  <2>1. PICK b \in Robots :
            RobotReports(b) \/ \E exec \in OutcomeReports : RobotEnds(b, exec)
      BY <1>2, FrameSteps
  <2>2. /\ holds[b] \in Runs
        /\ stageRows' = stageRows
        /\ header[b] \in Nat /\ header'[b] = header[b] + 1
        /\ \A g \in frames' \ frames : g.run = holds[b] /\ g.header = header'[b]
      BY <2>1, ReportSteps
  <2>3. /\ \A g \in frames : g.run = holds[b] => g.robot = b
        /\ \A s \in Stages : stageRows[holds[b]][s].header <= header[b]
      BY <2>2 DEF Carries, HInv, CarriersAreAhead
  <2>4. \A g \in frames : g.run = holds[b] => g.header <= header[b] /\ g.header \in Nat
      BY <2>3, HeadersOfFrames DEF HInv, FramesAreCounted
  <2>5. \A s \in Stages : stageRows[holds[b]][s].header \in Nat
      BY <2>2, HeadersAreNat
  <2>6. f.run = holds[b] /\ f.header = header[b] + 1
      BY <1>2, <2>2
  <2>7. \A g \in frames' : g.run = f.run => g.header <= f.header
      BY <2>2, <2>4, <2>6
  <2>8. \A s \in Stages : stageRows'[f.run][s].header <= f.header
      BY <2>2, <2>3, <2>5, <2>6
  <2>. QED  BY <2>7, <2>8
<1>. QED  BY <1>1, <1>2

\* What drives and what has been reported, in every reachable state.
LEMMA RecordsInvariance == Spec => [](DInv /\ HInv)
<1>1. RunControlAssumption /\ Init => DInv /\ HInv
    BY DEF RunControlAssumption, Init, DInv, UnbornAreGone, DispatchedOnce, OutcomesAreTrue,
       RefusalsAreTrue, EndedRunIsNotDriven, Gone, Terminal, TerminalStatuses, HInv,
       FramesAreCounted, UnbornAreBlank, CarriersAreAhead, OutcomesAreLast, Carries, NoRow
<1>2. RunControlAssumption /\ IInv /\ DInv /\ HInv /\ [Next]_vars => DInv' /\ HInv'
    BY UnbornStayGone, DispatchedStaysOnce, OutcomesStayTrue, RefusalsStayTrue, EndedStayUndriven,
       FramesStayCounted, UnbornStayBlank, CarriersStayAhead, OutcomesStayLast
       DEF DInv, HInv
<1>. QED  BY <1>1, <1>2, Invariance, RunControlAssumption, PTL DEF Spec

\* The upsert's version guard, and the overlay of the outcome that has none: the
\* outcome is the last the robot reports of the run, so that no version falls.
THEOREM StageHeadersRise == Spec => StageHeadersNeverFall
<1>1. ASSUME RunControlAssumption, IInv, HInv, [Next]_vars
      PROVE  \A r \in Runs, s \in Stages :
                status'[r] # "deleted" => stageRows'[r][s].header >= stageRows[r][s].header
  <2>. SUFFICES ASSUME NEW r \in Runs, NEW s \in Stages, status'[r] # "deleted"
                PROVE  stageRows'[r][s].header >= stageRows[r][s].header
      OBVIOUS
  <2>1. stageRows[r][s].header \in Nat
      BY <1>1, HeadersAreNat
  <2>2. CASE HeadersKept(r)
      BY <2>1, <2>2 DEF HeadersKept
  <2>3. ASSUME NEW f \in frames, f.run = r, HeadersFrom(f)
        PROVE  stageRows'[r][s].header >= stageRows[r][s].header
    <3>1. f.exec \in OutcomeReports => stageRows[r][s].header <= f.header
        BY <1>1, <2>3 DEF HInv, OutcomesAreLast
    <3>2. f.header \in Nat
        BY <1>1, HeadersOfFrames
    <3>. QED  BY <1>1, <2>1, <2>3, <3>1, <3>2 DEF HeadersFrom
  <2>. QED  BY <1>1, <2>2, <2>3, HeaderWrites DEF HeadersGone
<1>. QED
    BY <1>1, Invariance, RecordsInvariance, RunControlAssumption, PTL DEF Spec,
       StageHeadersNeverFall

=============================================================================
