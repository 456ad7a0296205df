---------------------------- MODULE StageRecords ----------------------------
(***************************************************************************)
(* The runtime rows of a run's stages: one row per stage, versioned by the *)
(* header of the report that wrote it, and the projection that closes them *)
(* out when the run ends.  Progress, results and times of a stage are      *)
(* payload and are left out; the identity, the version and the status stay.*)
(***************************************************************************)
EXTENDS Naturals

StageStatuses ==
    {"WAITING", "INITIALIZING", "RUNNING", "PAUSED",
     "FINISHED", "FAILED", "CANCELLED", "SKIPPED"}

EndedStageStatuses == {"FINISHED", "FAILED", "CANCELLED", "SKIPPED"}

\* A stage the table holds no row for.
NoRow == [header |-> 0, status |-> "none"]

StageRow == [header : Nat, status : StageStatuses] \cup {NoRow}

HasRow(row) == row.status # "none"

-----------------------------------------------------------------------------

\* Slip: an upsert that does not look at the version.
SlipUpsert(rows, header, reported) ==
    [s \in DOMAIN rows |->
        IF s \in DOMAIN reported THEN [header |-> header, status |-> reported[s]] ELSE rows[s]]

\* upsert_stage_runs: a report (a partial function from stages to statuses)
\* writes a row it is the first to name, and otherwise only a row written by a
\* report with a strictly lower header.
Upsert(rows, header, reported) ==
    [s \in DOMAIN rows |->
        IF s \in DOMAIN reported /\ (HasRow(rows[s]) => rows[s].header < header)
        THEN [header |-> header, status |-> reported[s]]
        ELSE rows[s]]

\* The report that ends a run replaces what is stored, whatever its header.
Overlay(rows, header, reported) ==
    [s \in DOMAIN rows |->
        IF s \in DOMAIN reported
        THEN [header |-> header, status |-> reported[s]]
        ELSE rows[s]]

\* Slip: every open stage is given the status of the run.
SlipProjected(stageStatus, runStatus) ==
    IF stageStatus \in EndedStageStatuses THEN stageStatus ELSE runStatus

\* The final status of a stage last seen in the given status.
Projected(stageStatus, runStatus) ==
    CASE stageStatus \in {"CANCELLED", "SKIPPED"} -> stageStatus
      [] stageStatus \notin {"CANCELLED", "SKIPPED"} /\ runStatus = "SUCCEEDED" -> "FINISHED"
      [] stageStatus \in {"FINISHED", "FAILED"} /\ runStatus # "SUCCEEDED" -> stageStatus
      [] stageStatus = "WAITING" /\ runStatus # "SUCCEEDED" -> "SKIPPED"
      [] OTHER -> IF runStatus = "CANCELLED" THEN "CANCELLED" ELSE "FAILED"

\* Slip: only the stages the robot has reported are closed.
SlipClosed(rows, plan, runStatus) ==
    [s \in DOMAIN rows |->
        IF s \in plan /\ HasRow(rows[s])
        THEN [header |-> rows[s].header, status |-> Projected(rows[s].status, runStatus)]
        ELSE rows[s]]

\* final_stage_statuses: every stage of the plan gets a final status, reported
\* or not; a cleanup stage keeps what the robot last said of it.
Closed(rows, plan, runStatus) ==
    [s \in DOMAIN rows |->
        IF s \in plan
        THEN [header |-> rows[s].header,
              status |-> Projected(IF HasRow(rows[s]) THEN rows[s].status ELSE "WAITING",
                                   runStatus)]
        ELSE rows[s]]

=============================================================================
