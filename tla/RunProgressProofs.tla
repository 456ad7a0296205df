--------------------------- MODULE RunProgressProofs ---------------------------
(***************************************************************************)
(* Theorems about RunControl: what becomes of a dispatch nobody answered   *)
(* and of a cancel the robot acknowledged.  They rest on the invariants of *)
(* RunControlProofs and of RunRecordsProofs.                               *)
(***************************************************************************)
EXTENDS RunRecordsProofs

-----------------------------------------------------------------------------
(* Which steps move a dispatch and a robot                                 *)

\* Where a dispatch stands after a step that is about it.
LEMMA DispatchSteps ==
    ASSUME IInv, [Next]_vars, NEW r \in Runs
    PROVE  \/ start'[r] = start[r]
           \/ InsertRun(r) /\ start'[r] = "asking"
           \/ DispatchUnanswered(r) /\ start'[r] = "TIMEOUT"
           \/ /\ Settle(r)
              /\ start'[r] = IF start[r] = "TIMEOUT" THEN "unanswered" ELSE "over"
           \/ Restart /\ start'[r] = "lost" /\ start[r] # "unanswered"
           \/ SettleFails(r) /\ start'[r] = "lost"
           \/ /\ start[r] = "asking" /\ start'[r] = "ACCEPTED"
              /\ \E b \in Robots : RobotTakes(b, r)
           \/ /\ start[r] = "asking" /\ start'[r] = "REJECTED"
              /\ \E b \in Robots : RobotRejects(b, r)
<1>. USE DEF vars, rowVars, taskVars, robotVars, wireVars, IInv, TypeOK, TasksOK
<1>1. CASE Dispatching
    BY <1>1 DEF Dispatching, BeginDispatch, InsertRun, InsertRefused, PrepareFails, SettleFails,
       DispatchUnanswered, Settle
<1>2. CASE Controlling
    BY <1>2 DEF Controlling, CancelDeferred, BeginCall, CallUnanswered, EndCancel, EndSteer,
       CallFails, CloseRun, DeleteRun
<1>3. CASE Recording
    BY <1>3 DEF Recording, Record, LoseFrame
<1>4. CASE Connecting
    BY <1>4 DEF Connecting, RecordOffline, FetchClaim, FetchFails, RecordOnline, JudgeSpares,
       JudgeCancels, CloseUnclaimed, ReconnectFails
<1>5. CASE Restart
    BY <1>5 DEF Restart, SettledPhases
<1>6. CASE RobotStep
  <2>1. ASSUME NEW b \in Robots, NEW q \in Runs, RobotTakes(b, q)
        PROVE  \/ start'[r] = start[r]
               \/ start[r] = "asking" /\ start'[r] = "ACCEPTED" /\ q = r
      BY <2>1 DEF RobotTakes
  <2>2. ASSUME NEW b \in Robots, NEW q \in Runs, RobotRejects(b, q)
        PROVE  \/ start'[r] = start[r]
               \/ start[r] = "asking" /\ start'[r] = "REJECTED" /\ q = r
      BY <2>2 DEF RobotRejects
  <2>. QED
      BY <1>6, <2>1, <2>2 DEF RobotStep, RobotAnswers, RobotStops, RobotReports, RobotEnds,
         RobotLeaves, RobotReturns, RobotReboots
<1>. QED  BY <1>1, <1>2, <1>3, <1>4, <1>5, <1>6 DEF Next

\* What a robot holds changes when it takes, ends or forgets a run.
LEMMA HoldSteps ==
    ASSUME IInv, [Next]_vars, NEW b \in Robots
    PROVE  \/ holds'[b] = holds[b]
           \/ \E r \in Runs : RobotTakes(b, r)
           \/ \E exec \in OutcomeReports : RobotEnds(b, exec)
           \/ RobotReboots(b)
<1>. USE DEF vars, rowVars, taskVars, robotVars, wireVars, IInv, TypeOK, RobotsOK
<1>1. CASE Dispatching \/ Controlling \/ Recording \/ Connecting \/ Restart
  <2>1. CASE Connecting
      BY <2>1 DEF Connecting, RecordOffline, FetchClaim, FetchFails, RecordOnline, JudgeSpares,
         JudgeCancels, CloseUnclaimed, ReconnectFails
  <2>2. CASE Controlling
      BY <2>2 DEF Controlling, CancelDeferred, BeginCall, CallUnanswered, EndCancel, EndSteer,
         CallFails, CloseRun, DeleteRun
  <2>. QED
      BY <1>1, <2>1, <2>2 DEF Dispatching, BeginDispatch, InsertRun, InsertRefused, PrepareFails,
         SettleFails, DispatchUnanswered, Settle, Recording, Record, LoseFrame, Restart
<1>2. CASE RobotStep
  <2>1. ASSUME NEW c \in Robots, NEW r \in Runs, RobotTakes(c, r)
        PROVE  holds'[b] = holds[b] \/ b = c
      BY <2>1 DEF RobotTakes
  <2>2. ASSUME NEW c \in Robots, NEW exec \in OutcomeReports, RobotEnds(c, exec)
        PROVE  holds'[b] = holds[b] \/ b = c
      BY <2>2 DEF RobotEnds
  <2>3. ASSUME NEW c \in Robots, RobotReboots(c)
        PROVE  holds'[b] = holds[b] \/ b = c
      BY <2>3 DEF RobotReboots
  <2>. QED
      BY <1>2, <2>1, <2>2, <2>3 DEF RobotStep, RobotAnswers, RobotRejects, RobotStops,
         RobotReports, RobotLeaves, RobotReturns
<1>. QED  BY <1>1, <1>2 DEF Next

\* How a robot executes its run changes when it takes one, answers a call on the
\* one it holds, or a stop reaches it.
LEMMA ModeSteps ==
    ASSUME IInv, [Next]_vars, NEW b \in Robots
    PROVE  \/ mode'[b] = mode[b]
           \/ mode'[b] = "STOPPING"
           \/ \E r \in Runs : RobotTakes(b, r)
           \/ \E r \in Runs : RobotAnswers(r) /\ holds[b] = r /\ mode[b] # "STOPPING"
<1>. USE DEF vars, rowVars, taskVars, robotVars, wireVars, IInv, TypeOK, RobotsOK
<1>1. CASE Dispatching \/ Controlling \/ Recording \/ Connecting \/ Restart
  <2>1. CASE Connecting
      BY <2>1 DEF Connecting, RecordOffline, FetchClaim, FetchFails, RecordOnline, JudgeSpares,
         JudgeCancels, CloseUnclaimed, ReconnectFails
  <2>2. CASE Controlling
      BY <2>2 DEF Controlling, CancelDeferred, BeginCall, CallUnanswered, EndCancel, EndSteer,
         CallFails, CloseRun, DeleteRun
  <2>. QED
      BY <1>1, <2>1, <2>2 DEF Dispatching, BeginDispatch, InsertRun, InsertRefused, PrepareFails,
         SettleFails, DispatchUnanswered, Settle, Recording, Record, LoseFrame, Restart
<1>2. CASE RobotStep
  <2>1. ASSUME NEW c \in Robots, NEW r \in Runs, RobotTakes(c, r)
        PROVE  mode'[b] = mode[b] \/ b = c
      BY <2>1 DEF RobotTakes, Goes
  <2>2. ASSUME NEW c \in Robots, NEW r \in Runs, RobotStops(c, r)
        PROVE  mode'[b] \in {mode[b], "STOPPING"}
      BY <2>2 DEF RobotStops, Goes
  <2>3. ASSUME NEW r \in Runs, RobotAnswers(r)
        PROVE  \/ mode'[b] \in {mode[b], "STOPPING"}
               \/ holds[b] = r /\ mode[b] # "STOPPING"
    <3>1. CASE UNCHANGED mode
        BY <3>1
    <3>2. CASE /\ holds[robot[r]] = r
               /\ mode[robot[r]] = "STOPPING" => call[r].op = "cancel"
               /\ Obeys(robot[r], call[r].op)
      <4>1. call[r].op \in CallOps
        <5>1. call[r] # NoCall
            BY <2>3 DEF RobotAnswers, NoCall
        <5>. QED  BY <5>1 DEF TasksOK, Call
      <4>2. CASE call[r].op = "cancel"
          BY <3>2, <4>2 DEF Obeys, Goes
      <4>3. CASE call[r].op # "cancel"
          BY <3>2, <4>1, <4>3 DEF Obeys, Goes, CallOps
      <4>. QED  BY <4>2, <4>3
    <3>. QED  BY <2>3, <3>1, <3>2 DEF RobotAnswers
  <2>. QED
      BY <1>2, <2>1, <2>2, <2>3 DEF RobotStep, RobotRejects, RobotReports, RobotEnds, RobotLeaves,
         RobotReturns, RobotReboots
<1>. QED  BY <1>1, <1>2 DEF Next

-----------------------------------------------------------------------------
(* A dispatch without an answer                                            *)

\* A run that is PENDING after a step was so before, or is new.
LEMMA PendingBefore ==
    ASSUME IInv, [Next]_vars, NEW r \in Runs, status'[r] = "PENDING"
    PROVE  status[r] = "PENDING" \/ status[r] = "absent"
<1>1. Moved(r) => status'[r] # "PENDING"
    BY DEF Moved, Allowed, AllowedTransitions, ReplyTransitions, RequestTransitions,
       ProgressTransitions, CloseTransitions, ReconcileTransitions, OutcomeTransitions
<1>. QED  BY <1>1, RunsAreWritten DEF Written, Stands, Created, Dropped, SettledAtOnce

\* A PENDING run that stands keeps its warning.
LEMMA PendingKeepsWarning ==
    ASSUME IInv, [Next]_vars, NEW r \in Runs, status[r] = "PENDING", status'[r] = "PENDING",
           failure[r] = {"dispatch"}
    PROVE  failure'[r] = {"dispatch"}
<1>. USE DEF IInv, TypeOK, RowsOK
<1>1. CASE SameRow(r)
    BY <1>1 DEF SameRow
<1>2. CASE InsertRun(r)
    BY <1>2 DEF InsertRun
<1>3. CASE Settle(r)
    BY <1>3 DEF Settle, SettleMissing, SettleAccepted, SettleUnconfirmed, SettleOvertaken,
       SettleRejected, SettleStands, rowVars
<1>4. CASE CancelDeferred(r) \/ EndCancel(r) \/ EndSteer(r) \/ CloseRun(r)
    BY <1>4 DEF CancelDeferred, EndCancel, EndSteer, CallFails, CloseRun
<1>5. CASE DeleteRun(r)
    BY <1>5 DEF DeleteRun
<1>6. ASSUME NEW f \in frames, f.run = r, Record(f)
      PROVE  failure'[r] = {"dispatch"}
  <2>. DEFINE trigger == TriggerForReport(status[r], f.exec)
  <2>1. CASE RecordDropped(f) \/ RecordRepeat(f, trigger)
      BY <2>1 DEF RecordDropped, RecordRepeat
  <2>2. ASSUME NEW to, RecordOutcome(f, trigger, to) \/ RecordProgress(f, trigger, to)
        PROVE  FALSE
    <3>1. /\ to \in TerminalStatuses \cup ExecutingStatuses
          /\ Move(r, trigger, to, f.header, "unset")
        BY <1>6, <2>2 DEF RecordOutcome, RecordProgress
    <3>. QED  BY <3>1 DEF Move, TerminalStatuses, ExecutingStatuses
  <2>. QED  BY <1>6, <2>1, <2>2 DEF Record, RecordLive
<1>7. ASSUME NEW b \in Robots, CloseUnclaimed(b, r)
      PROVE  failure'[r] = {"dispatch"}
  <2>1. CASE MovedOn(b, r)
      BY <2>1 DEF MovedOn
  <2>2. CASE Unclaimed(b, r)
    <3>1. PICK to \in {"CANCELLED", "FAILED"} : Move(r, "RECONCILE", to, 0, "unset")
        BY <2>2 DEF Unclaimed
    <3>. QED  BY <3>1 DEF Move
  <2>. QED  BY <1>7, <2>1, <2>2 DEF CloseUnclaimed
<1>. QED  BY <1>1, <1>2, <1>3, <1>4, <1>5, <1>6, <1>7, RowWriters DEF Writing

\* settle writes the warning of a dispatch that timed out, and nothing takes it away
\* while the run is PENDING; only a restart, or a settling that fails, leaves a
\* PENDING run without either a dispatch in progress or the warning.
THEOREM UnansweredRunsAreMarked == Spec => []UnansweredRunIsMarked
<1>1. Init => UnansweredRunIsMarked
    BY DEF Init, UnansweredRunIsMarked
<1>2. ASSUME IInv, UnansweredRunIsMarked, [Next]_vars
      PROVE  UnansweredRunIsMarked'
  <2>. DEFINE Marked(r) ==
          \/ start[r] \in {"asking", "ACCEPTED", "REJECTED", "TIMEOUT", "lost"}
          \/ start[r] = "unanswered" /\ failure[r] = {"dispatch"}
  <2>. SUFFICES ASSUME NEW r \in Runs, status'[r] = "PENDING"
                PROVE  Marked(r)'
      BY DEF UnansweredRunIsMarked
  <2>1. CASE InsertRun(r)
      BY <1>2, <2>1 DEF InsertRun, IInv, TypeOK, TasksOK
  <2>2. CASE Settle(r)
    <3>1. status[r] = "PENDING"
        BY <1>2, <2>2, PendingBefore DEF Settle, SettleMissing, SettleAccepted, SettleUnconfirmed,
           SettleOvertaken, SettleRejected, SettleStands, Move, IInv, TypeOK, RowsOK, rowVars
    <3>2. SettleUnconfirmed(r)
      <4>1. ~SettleAccepted(r)
          BY <1>2 DEF SettleAccepted, Move, IInv, TypeOK, RowsOK
      <4>2. ~SettleRejected(r)
          BY <1>2 DEF SettleRejected, Move, IInv, TypeOK, RowsOK
      <4>. QED
          BY <2>2, <3>1, <4>1, <4>2 DEF Settle, SettleMissing, SettleOvertaken, SettleStands
    <3>. QED  BY <1>2, <2>2, <3>2 DEF Settle, SettleUnconfirmed, IInv, TypeOK, RowsOK, TasksOK
  <2>3. CASE ~InsertRun(r) /\ ~Settle(r)
    <3>1. status[r] = "PENDING"
      <4>1. status'[r] # status[r] => Writing(r)
          BY <1>2, RowWriters DEF SameRow
      <4>2. status[r] # "absent"
        <5>1. CASE CancelDeferred(r) \/ EndCancel(r) \/ EndSteer(r) \/ CloseRun(r) \/ DeleteRun(r)
            BY <1>2, <5>1 DEF CancelDeferred, EndCancel, EndSteer, CallFails, CloseRun, DeleteRun,
               Targets, Active, Terminal, TerminalStatuses, ActiveStatuses, ExecutingStatuses, IInv,
               CallsAreLive, NoCall
        <5>2. ASSUME NEW f \in frames, f.run = r, Record(f), status[r] = "absent"
              PROVE  FALSE
            BY <2>3, <5>2 DEF Record, RecordDropped, RecordLive, Touch, Active, ActiveStatuses,
               ExecutingStatuses
        <5>3. ASSUME NEW b \in Robots, CloseUnclaimed(b, r), status[r] = "absent"
              PROVE  FALSE
            BY <1>2, <5>3 DEF CloseUnclaimed, Unclaimed, MovedOn, IInv, ClosingsAreLive,
               ActiveStatuses, ExecutingStatuses
        <5>. QED  BY <2>3, <4>1, <5>1, <5>2, <5>3 DEF Writing
      <4>. QED  BY <1>2, <4>2, PendingBefore
    <3>2. Marked(r)
        BY <1>2, <3>1 DEF UnansweredRunIsMarked
    <3>3. failure[r] = {"dispatch"} => failure'[r] = {"dispatch"}
        BY <1>2, <3>1, PendingKeepsWarning
    <3>. QED
        BY <1>2, <2>3, <3>2, <3>3, DispatchSteps DEF DispatchUnanswered
  <2>. QED  BY <2>1, <2>2, <2>3
<1>. QED  BY <1>1, <1>2, Invariance, PTL DEF Spec

-----------------------------------------------------------------------------
(* A cancel the robot acknowledged                                         *)

\* The log records the robot's yes to a cancel, or is about to.
Acknowledged(r) ==
    \/ status[r] = "CANCELLING" /\ last[r].ack = "yes"
    \/ call[r].op = "cancel" /\ call[r].answer = "applied"

\* No dispatch can start it again, and who executes it is stopping it.
Stopping(r) ==
    \A b \in Robots : <<b, r>> \notin queries /\ (holds[b] = r => mode[b] = "STOPPING")

AckedAreStopping == \A r \in Runs : Acknowledged(r) => Stopping(r)

\* The log says yes after a step only if it did before, or the call was answered so.
LEMMA AckSteps ==
    ASSUME IInv, [Next]_vars, NEW r \in Runs, status'[r] = "CANCELLING", last'[r].ack = "yes"
    PROVE  Acknowledged(r)
<1>. USE DEF IInv, TypeOK, RowsOK, Acknowledged
<1>1. CASE SameRow(r)
    BY <1>1 DEF SameRow
<1>2. CASE InsertRun(r)
    BY <1>2 DEF InsertRun
<1>3. CASE Settle(r)
  <2>1. CASE SettleMissing(r) \/ SettleStands(r) \/ SettleOvertaken(r)
      BY <2>1 DEF SettleMissing, SettleStands, SettleOvertaken, rowVars
  <2>2. CASE SettleAccepted(r) \/ SettleUnconfirmed(r)
      BY <2>2 DEF SettleAccepted, SettleUnconfirmed, Move
  <2>3. CASE SettleRejected(r)
      BY <2>3 DEF SettleRejected, Move
  <2>. QED  BY <1>3, <2>1, <2>2, <2>3 DEF Settle
<1>4. CASE CancelDeferred(r)
    BY <1>4 DEF CancelDeferred, Move
<1>5. CASE EndCancel(r)
    BY <1>5 DEF EndCancel, CancelRecorded, CancelSettled, Move
<1>6. CASE EndSteer(r)
  <2>1. CASE SteerDropped(r)
      BY <2>1 DEF SteerDropped
  <2>2. ASSUME NEW to \in Statuses, SteerApplied(r, to)
        PROVE  FALSE
    <3>1. RequestOf(call[r].op) \in {"PAUSE_REQUEST", "RESUME_REQUEST"}
        BY <1>6 DEF EndSteer, RequestOf
    <3>2. to \in {"PAUSING", "RESUMING"}
        BY <2>2, <3>1, SteersRequest DEF SteerApplied
    <3>. QED  BY <2>2, <3>2 DEF SteerApplied, Move
  <2>. QED  BY <1>6, <2>1, <2>2 DEF EndSteer
<1>7. CASE CloseRun(r)
    BY <1>7 DEF CloseRun, Move
<1>8. CASE DeleteRun(r)
    BY <1>8 DEF DeleteRun
<1>9. ASSUME NEW f \in frames, f.run = r, Record(f)
      PROVE  Acknowledged(r)
  <2>. DEFINE trigger == TriggerForReport(status[r], f.exec)
  <2>1. CASE RecordDropped(f) \/ RecordRepeat(f, trigger)
      BY <2>1 DEF RecordDropped, RecordRepeat
  <2>2. ASSUME NEW to, RecordOutcome(f, trigger, to) \/ RecordProgress(f, trigger, to)
        PROVE  FALSE
    <3>1. Move(r, trigger, to, f.header, "unset")
        BY <1>9, <2>2 DEF RecordOutcome, RecordProgress
    <3>. QED  BY <3>1 DEF Move
  <2>. QED  BY <1>9, <2>1, <2>2 DEF Record, RecordLive
<1>10. ASSUME NEW b \in Robots, CloseUnclaimed(b, r)
       PROVE  Acknowledged(r)
  <2>1. CASE MovedOn(b, r)
      BY <2>1 DEF MovedOn
  <2>2. CASE Unclaimed(b, r)
    <3>1. \E to : Move(r, "RECONCILE", to, 0, "unset")
        BY <2>2 DEF Unclaimed
    <3>. QED  BY <3>1 DEF Move
  <2>. QED  BY <1>10, <2>1, <2>2 DEF CloseUnclaimed
<1>. QED
    BY <1>1, <1>2, <1>3, <1>4, <1>5, <1>6, <1>7, <1>8, <1>9, <1>10, RowWriters DEF Writing

\* A cancel is applied by the robot's answer.
LEMMA AppliedSteps ==
    ASSUME IInv, [Next]_vars, NEW r \in Runs,
           call'[r].op = "cancel", call'[r].answer = "applied"
    PROVE  \/ call[r].op = "cancel" /\ call[r].answer = "applied"
           \/ /\ RobotAnswers(r) /\ holds[robot[r]] = r /\ robot[r] \in Robots
              /\ mode' = [mode EXCEPT ![robot[r]] = "STOPPING"]
<1>. USE DEF vars, rowVars, taskVars, robotVars, wireVars, IInv, TypeOK, TasksOK, NoCall, Call
<1>1. CASE call'[r] = call[r]
    BY <1>1
<1>2. CASE Dispatching
    BY <1>1, <1>2 DEF Dispatching, BeginDispatch, InsertRun, InsertRefused, PrepareFails,
       SettleFails, DispatchUnanswered, Settle
<1>3. CASE Controlling
    BY <1>1, <1>3 DEF Controlling, CancelDeferred, BeginCall, CallUnanswered, EndCancel, EndSteer,
       CallFails, CloseRun, DeleteRun
<1>4. CASE Recording
    BY <1>1, <1>4 DEF Recording, Record, LoseFrame
<1>5. CASE Connecting
    BY <1>1, <1>5 DEF Connecting, RecordOffline, FetchClaim, FetchFails, RecordOnline, JudgeSpares,
       JudgeCancels, CloseUnclaimed, ReconnectFails
<1>6. CASE Restart
    BY <1>6 DEF Restart
<1>7. CASE RobotStep
  <2>1. ASSUME NEW q \in Runs, q # r, RobotAnswers(q)
        PROVE  call'[r] = call[r]
      BY <2>1 DEF RobotAnswers
  <2>2. ASSUME RobotAnswers(r), call'[r] # call[r]
        PROVE  /\ holds[robot[r]] = r /\ robot[r] \in Robots
               /\ mode' = [mode EXCEPT ![robot[r]] = "STOPPING"]
    <3>1. call[r] # NoCall
        BY <2>2 DEF RobotAnswers
    <3>2. robot[r] \in Robots
        BY <3>1, ConstantsAreTyped DEF CallsAreLive, RowsAreWhole, Active
    <3>3. \E answer \in {"applied", "not_held", "refused"} :
             call'[r] = [call[r] EXCEPT !.answer = answer]
        BY <2>2 DEF RobotAnswers
    <3>4. call[r].op = "cancel"
        BY <3>1, <3>3
    <3>. QED  BY <2>2, <3>1, <3>2, <3>4 DEF RobotAnswers, Obeys, Goes
  <2>3. CASE \E b \in Robots :
                \/ \E q \in Runs : RobotTakes(b, q) \/ RobotRejects(b, q) \/ RobotStops(b, q)
                \/ RobotReports(b)
                \/ \E exec \in OutcomeReports : RobotEnds(b, exec)
                \/ RobotLeaves(b) \/ RobotReturns(b) \/ RobotReboots(b)
      BY <1>1, <2>3 DEF RobotTakes, RobotRejects, RobotStops, RobotReports, RobotEnds,
         RobotLeaves, RobotReturns, RobotReboots
  <2>. QED  BY <1>1, <1>7, <2>1, <2>2, <2>3 DEF RobotStep
<1>. QED  BY <1>1, <1>2, <1>3, <1>4, <1>5, <1>6, <1>7 DEF Next

\* A run that is being stopped is not started again, and no answer or late call
\* makes the robot go on with it.
LEMMA StoppingStays ==
    ASSUME RunControlAssumption, IInv, DInv, [Next]_vars, NEW r \in Runs, Stopping(r),
           Acknowledged(r)
    PROVE  Stopping(r)'
<1>. SUFFICES ASSUME NEW b \in Robots
              PROVE  <<b, r>> \notin queries' /\ (holds'[b] = r => mode'[b] = "STOPPING")
    BY DEF Stopping
<1>1. status[r] # "absent"
    BY DEF Acknowledged, IInv, CallsAreLive, Active, ActiveStatuses, ExecutingStatuses, NoCall
<1>2. ~InsertRun(r)
    BY <1>1 DEF InsertRun, IInv, StartsAreAbsent
<1>3. <<b, r>> \notin queries'
  <2>1. ASSUME NEW q \in Runs, InsertRun(q)
        PROVE  <<b, r>> \notin queries'
      BY <1>2, <2>1 DEF InsertRun, Stopping
  <2>2. ASSUME NEW c \in Robots, NEW q \in Runs, RobotTakes(c, q)
        PROVE  <<b, r>> \notin queries'
      BY <2>2 DEF RobotTakes, Stopping
  <2>. QED  BY <2>1, <2>2, CarrySteps DEF Fewer, Stopping
<1>4. ASSUME holds'[b] = r
      PROVE  mode'[b] = "STOPPING"
  <2>1. ASSUME NEW q \in Runs, RobotTakes(b, q)
        PROVE  FALSE
      BY <1>4, <2>1 DEF RobotTakes, Stopping, IInv, TypeOK, RobotsOK
  <2>2. holds[b] = r
      BY <1>4, <2>1, HoldSteps, RunsAreNotNone DEF RobotEnds, RobotReboots, IInv, TypeOK, RobotsOK
  <2>. QED  BY <2>1, <2>2, ModeSteps DEF Stopping
<1>. QED  BY <1>3, <1>4

LEMMA AckedStayStopping ==
    ASSUME RunControlAssumption, IInv, DInv, AckedAreStopping, [Next]_vars
    PROVE  AckedAreStopping'
<1>. SUFFICES ASSUME NEW r \in Runs, Acknowledged(r)'
              PROVE  Stopping(r)'
    BY DEF AckedAreStopping
<1>1. CASE Acknowledged(r)
    BY <1>1, StoppingStays DEF AckedAreStopping
<1>2. CASE ~Acknowledged(r)
  <2>1. call'[r].op = "cancel" /\ call'[r].answer = "applied"
      BY <1>2, AckSteps DEF Acknowledged
  <2>2. /\ RobotAnswers(r) /\ holds[robot[r]] = r /\ robot[r] \in Robots
        /\ mode' = [mode EXCEPT ![robot[r]] = "STOPPING"]
      BY <1>2, <2>1, AppliedSteps DEF Acknowledged
  <2>3. UNCHANGED <<holds, queries>> /\ mode'[robot[r]] = "STOPPING"
      BY <2>2 DEF RobotAnswers, wireVars, IInv, TypeOK, RobotsOK
  <2>. QED  BY <2>2, <2>3 DEF Stopping, DInv, DispatchedOnce
<1>. QED  BY <1>1, <1>2

\* The acknowledgement that the transition log keeps of a cancel is true of the
\* robot for as long as the run is CANCELLING: the robot has let the run go, or is
\* stopping it, and no late dispatch or pause or resume changes that.
THEOREM AcknowledgedCancelsStop == Spec => []AcknowledgedCancelStops
<1>1. Init => AckedAreStopping
    BY DEF Init, AckedAreStopping, Acknowledged, NoCall
<1>2. RunControlAssumption /\ IInv /\ DInv /\ AckedAreStopping /\ [Next]_vars => AckedAreStopping'
    BY AckedStayStopping
<1>3. AckedAreStopping => AcknowledgedCancelStops
    BY DEF AckedAreStopping, Acknowledged, Stopping, AcknowledgedCancelStops
<1>. QED
    BY <1>1, <1>2, <1>3, Invariance, RecordsInvariance, RunControlAssumption, PTL DEF Spec

=============================================================================
