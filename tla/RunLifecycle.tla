---------------------------- MODULE RunLifecycle ----------------------------
(***************************************************************************)
(* The lifecycle of a mission run: its statuses, the triggers that move it *)
(* and the table of allowed transitions.  The table is a set of triples    *)
(* <<from, trigger, to>>, so that "the transition is allowed" is           *)
(* membership and "no transition applies" is the absence of a triple.      *)
(***************************************************************************)

TerminalStatuses == {"SUCCEEDED", "FAILED", "CANCELLED", "REJECTED"}

\* The robot has, or may have, the goal.
ExecutingStatuses ==
    {"DISPATCHED", "RUNNING", "PAUSED", "PAUSING", "RESUMING", "CANCELLING"}

ActiveStatuses == ExecutingStatuses \cup {"PENDING"}

Statuses == ActiveStatuses \cup TerminalStatuses

Triggers ==
    {"ACCEPT", "REJECT", "DISPATCH_UNCONFIRMED",
     "PAUSE_REQUEST", "RESUME_REQUEST", "CANCEL_REQUEST",
     "ACK", "PAUSE", "RESUME",
     "COMPLETE", "FAIL", "CANCEL", "TIMEOUT",
     "CLOSE", "RECONCILE"}

-----------------------------------------------------------------------------

\* What the robot's answer to the dispatch does.
ReplyTransitions ==
    {<<"PENDING", "ACCEPT", "DISPATCHED">>,
     <<"PENDING", "REJECT", "REJECTED">>,
     <<"CANCELLING", "REJECT", "CANCELLED">>}

\* What an operator's request does; a cancel applies to every active run, a
\* run already cancelling included.
RequestTransitions ==
    {<<"DISPATCHED", "PAUSE_REQUEST", "PAUSING">>,
     <<"RUNNING", "PAUSE_REQUEST", "PAUSING">>,
     <<"RESUMING", "PAUSE_REQUEST", "PAUSING">>,
     <<"PAUSED", "RESUME_REQUEST", "RESUMING">>,
     <<"PAUSING", "RESUME_REQUEST", "RESUMING">>}
    \cup {<<s, "CANCEL_REQUEST", "CANCELLING">> : s \in ActiveStatuses}

\* What the robot's progress reports do.
ProgressTransitions ==
    {<<s, "ACK", "RUNNING">> : s \in {"PENDING", "DISPATCHED", "RESUMING"}}
    \cup {<<s, "PAUSE", "PAUSED">> : s \in {"DISPATCHED", "RUNNING", "PAUSING"}}
    \cup {<<"PAUSED", "RESUME", "RUNNING">>}

\* The backend ends a run whose robot is offline, or came back without it.
CloseTransitions == {<<s, "CLOSE", "CANCELLED">> : s \in ActiveStatuses}

ReconcileTransitions ==
    {<<"CANCELLING", "RECONCILE", "CANCELLED">>}
    \cup {<<s, "RECONCILE", "FAILED">> : s \in ActiveStatuses \ {"CANCELLING"}}

\* The robot's outcome ends a run from any active status.
OutcomeTransitions ==
    UNION {{<<s, "COMPLETE", "SUCCEEDED">>, <<s, "FAIL", "FAILED">>,
            <<s, "CANCEL", "CANCELLED">>, <<s, "TIMEOUT", "FAILED">>}
           : s \in ActiveStatuses}

AllowedTransitions ==
    ReplyTransitions \cup RequestTransitions \cup ProgressTransitions
    \cup CloseTransitions \cup ReconcileTransitions \cup OutcomeTransitions

\* next_state / try_next_state as a relation.
Allowed(from, trigger, to) == <<from, trigger, to>> \in AllowedTransitions

Enables(from, trigger) == \E to \in Statuses : Allowed(from, trigger, to)

-----------------------------------------------------------------------------

\* The robot's execution statuses, and those that end a run.
OutcomeReports == {"SUCCEEDED", "FAILED", "CANCELLED"}
ProgressReports == {"RUNNING", "PAUSED"}
ExecStatuses == OutcomeReports \cup ProgressReports

\* The trigger a report means for a run that is now in status current.
TriggerForReport(current, exec) ==
    CASE exec = "SUCCEEDED" -> "COMPLETE"
      [] exec = "FAILED"    -> "FAIL"
      [] exec = "CANCELLED" -> "CANCEL"
      [] exec = "PAUSED"    -> "PAUSE"
      [] exec = "RUNNING"   -> IF current = "PAUSED" THEN "RESUME" ELSE "ACK"

=============================================================================
