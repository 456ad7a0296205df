----------------------------- MODULE MissionPlans -----------------------------
(***************************************************************************)
(* Mission definitions, the coverage plans in them and the runs that copy  *)
(* them (application/mission_management_service.py,                        *)
(* coverage_planning_service.py, coverage_stage_planner.py).  Each request *)
(* is one transaction; a coverage stage is planned for seconds without the *)
(* mission's row lock while fields, sites and the mission itself change,   *)
(* and what was planned is reconciled with the definition under the lock.  *)
(***************************************************************************)
EXTENDS Naturals, MissionStages

CONSTANTS
    Missions,
    Stages,         \* stage ids
    Runs,
    Robots,
    Fields,
    Boundaries,     \* the boundaries a field can have
    Widths,         \* working width, standing for all planning inputs but the field
    Sites,
    Factsheets,     \* robot -> NoValue or what it has declared it can drive
    Requests,       \* requests that can be in progress at once
    Stored,         \* the definitions that can be in the database at startup
    Inputs,         \* bound: the stage inputs that requests are made of
    Bounds          \* bound: how many requests and how many field edits there are

Counted == {"requests", "edits"}

Input ==
    [kind : {"navigation"}, field : {NoValue}, width : {NoValue},
     site : Sites \cup {NoValue}, parent : Stages \cup {NoValue}]
    \cup [kind : {"cover"}, field : Fields, width : Widths,
          site : {NoValue}, parent : Stages \cup {NoValue}]
    \cup [kind : {"carry", "carry_whole"}, field : {NoValue}, width : {NoValue},
          site : {NoValue}, parent : Stages \cup {NoValue}]

PlanOf == [field : Fields, width : Widths, path : Boundaries, digest : Boundaries]
Stage == [plan : PlanOf \cup {NoValue}, site : Sites \cup {NoValue},
          parent : Stages \cup {NoValue}]
Definition == UNION {[ids -> Stage] : ids \in SUBSET Stages}

\* The widths a robot can work at, none without physical parameters, and the
\* kinds of stage it can drive.
StageKinds == {"navigation", "coverage"}
Factsheet == [kinds : SUBSET StageKinds, widths : SUBSET Widths]

Rows == [stages : Definition, archived : BOOLEAN, robot : Robots \cup {NoValue}]
RunRows == [mission : Missions, robot : Robots, active : BOOLEAN, stages : Definition,
            anchors : SUBSET Sites]

ASSUME MissionPlansAssumption ==
    /\ NoValue \notin Missions \cup Stages \cup Robots \cup Sites \cup Requests
    /\ NoValue \notin PlanOf \cup Rows \cup RunRows
    /\ Boundaries \cap {"none", "deleted"} = {}
    /\ Stored \subseteq Definition
    /\ \A d \in Stored : \A s \in CoverageStages(d) : d[s].plan.path = d[s].plan.digest
    /\ Inputs \subseteq Input
    /\ Factsheets \in [Robots -> Factsheet \cup {NoValue}]
    /\ Bounds \in [Counted -> Nat]

VARIABLES
    missions,       \* mission -> NoValue or its row with its stages, as committed
    runs,           \* run -> NoValue or its row, as committed
    fields,         \* field -> "none", its boundary or "deleted"
    sites,          \* site -> "none", "present" or "deleted"
    holder,         \* mission -> the request that has its row locked
    request,        \* the requests in progress
    edited,         \* history: mission -> fields changed since its row was locked
    asked,          \* history: mission -> the planning inputs of its last save
    count           \* how many there were so far of what Bounds bounds

catalogVars == <<fields, sites>>
vars == <<missions, runs, catalogVars, holder, request, edited, asked, count>>

PlanningInputs(f, w) == [kind |-> "cover", field |-> f, width |-> w, site |-> NoValue,
                         parent |-> NoValue]

Idle == [kind |-> "none", phase |-> "none", mission |-> NoValue, robot |-> NoValue,
         site |-> NoValue, inputs |-> NoStages, named |-> {}, stored |-> NoStages,
         todo |-> {}, pending |-> NoValue, planned |-> NoStages]

SitesPresent(d) == \A a \in ReferencedSites(d) : sites[a] = "present"

Exists(m) == missions[m] # NoValue

PastRuns(m) ==
    LET d == missions[m].stages
    IN  [mission : {m}, robot : Robots, active : {FALSE}, stages : {d}, anchors : {ReferencedSites(d)}]

\* The database of an earlier process, whose requests are gone.
Init ==
    /\ missions \in [Missions -> {NoValue} \cup
            {[stages |-> d, archived |-> FALSE, robot |-> NoValue] : d \in Stored}]
    /\ runs \in [Runs -> {NoValue} \cup UNION {PastRuns(m) : m \in {n \in Missions : Exists(n)}}]
    /\ fields \in [Fields -> Boundaries \cup {"none"}]
    /\ sites \in [Sites -> {"none", "present"}]
    /\ \A m \in Missions : Exists(m) =>
        /\ SitesPresent(missions[m].stages)
        /\ \A s \in CoverageStages(missions[m].stages) :
              fields[missions[m].stages[s].plan.field] # "none"
    /\ holder = [m \in Missions |-> NoValue]
    /\ request = [c \in Requests |-> Idle]
    /\ edited = [m \in Missions |-> {}]
    /\ asked = [m \in Missions |-> NoStages]
    /\ count = [n \in Counted |-> 0]

ActiveRuns(m) == {r \in Runs : runs[r] # NoValue /\ runs[r].mission = m /\ runs[r].active}
RunsOf(m) == {r \in Runs : runs[r] # NoValue /\ runs[r].mission = m}
Counts(n) == count[n] < Bounds[n] /\ count' = [count EXCEPT ![n] = @ + 1]

\* Ids are drawn by uuid4, so a new one is in no definition, run or request.
StagesInUse ==
    UNION ({DOMAIN missions[m].stages : m \in {n \in Missions : Exists(n)}}
        \cup {DOMAIN runs[r].stages : r \in {q \in Runs : runs[q] # NoValue}}
        \cup {DOMAIN request[c].inputs \cup DOMAIN request[c].stored : c \in Requests})
NewMission(m) == ~Exists(m) /\ \A c \in Requests : request[c].mission # m

\* The request ends: its transaction commits or rolls back and its lock is released.
End(c) ==
    /\ request' = [request EXCEPT ![c] = Idle]
    /\ holder' = [m \in Missions |-> IF holder[m] = c THEN NoValue ELSE holder[m]]
    /\ edited' = [m \in Missions |-> IF holder[m] = c THEN {} ELSE edited[m]]

Begins(c, r) ==
    /\ request[c] = Idle
    /\ Counts("requests")
    /\ request' = [request EXCEPT ![c] = r]
    /\ UNCHANGED <<missions, runs, catalogVars, holder, edited, asked>>

-----------------------------------------------------------------------------
(* Requests                                                                *)

\* The stages of a request, of which named keep the id of a stage of d; a
\* stage's place in the request is its parent.
\* Ids that name no coverage stage of the mission are refused before planning.
StageInputs(d, named, ids) ==
    {inputs \in [ids -> Inputs] :
        /\ Below(inputs, NoValue) = ids
        /\ \A s \in CoverageInputs(inputs) : s \in named => IsCoverage(d, s)
        /\ \A s \in ids : inputs[s].kind \in {"carry", "carry_whole"} => s \in named
        /\ \A s \in ids : inputs[s].kind = "carry_whole" => Children(inputs, s) = {}}

\* create, and create_generated for a single planned stage.
BeginCreate(c) ==
    \E m \in Missions, ids \in SUBSET Stages \ {{}} :
        /\ NewMission(m)
        /\ ids \cap StagesInUse = {}
        /\ \E inputs \in StageInputs(NoStages, {}, ids) :
            Begins(c, [Idle EXCEPT !.kind = "create", !.phase = "planning", !.mission = m,
                                   !.inputs = inputs, !.todo = InputsToPlan(inputs)])

\* update reads the definition without its lock.
BeginUpdate(c) ==
    \E m \in Missions, ids \in SUBSET Stages \ {{}} :
        /\ Exists(m)
        /\ ~missions[m].archived
        /\ LET d == missions[m].stages
               named == ids \cap DOMAIN d
           IN  /\ (ids \ named) \cap StagesInUse = {}
               /\ \E inputs \in StageInputs(d, named, ids) :
                    Begins(c, [Idle EXCEPT !.kind = "update", !.phase = "planning",
                                           !.mission = m, !.inputs = inputs, !.named = named,
                                           !.stored = d, !.todo = InputsToPlan(inputs)])

\* CoveragePlanningService.plan with the id of the stage to re-plan.
BeginReplan(c) ==
    \E s \in StagesInUse, f \in Fields, w \in Widths :
        Begins(c, [Idle EXCEPT !.kind = "replan", !.phase = "planning", !.named = {s},
                               !.inputs = [t \in {s} |-> PlanningInputs(f, w)], !.todo = {s}])

\* The requests that need nothing but the lock: dispatch (prepare), assign,
\* unassign, delete and restore.
BeginLocked(c, kind) ==
    \E m \in Missions, b \in (IF kind = "assign" THEN Robots
                              ELSE IF kind = "dispatch" THEN Robots \cup {NoValue}
                              ELSE {NoValue}) :
        /\ Exists(m)
        /\ Begins(c, [Idle EXCEPT !.kind = kind, !.phase = "planned", !.mission = m, !.robot = b])

\* SiteManagementService.delete, which looks for missions that use the site.
BeginSiteDelete(c) ==
    \E a \in Sites :
        /\ sites[a] = "present"
        /\ \A m \in Missions : Exists(m) => a \notin ReferencedSites(missions[m].stages)
        /\ Begins(c, [Idle EXCEPT !.kind = "site", !.phase = "planned", !.site = a])

-----------------------------------------------------------------------------
(* Planning                                                                *)

Boundary(f) == fields[f]
Plannable(f) == fields[f] \in Boundaries

\* The planner is sent the boundary as it was read, and the planning inputs.
AskPlanner(r, s) ==
    [r EXCEPT !.pending = [stage |-> s, boundary |-> Boundary(r.inputs[s].field)]]

\* _plan_if_changed: the field is read; the stage is kept when it would be
\* reproduced, otherwise the planner is asked with what was read.
PlanOrKeep(c, s) ==
    LET r == request[c]
        f == r.inputs[s].field
    IN  /\ r.phase \in {"planning", "locked"}
        /\ r.kind \in {"create", "update", "replan"}
        /\ s \in r.todo
        /\ r.pending = NoValue
        /\ Plannable(f)
        /\ r.phase = "locked" => IsCoverage(r.stored, s)
        /\ request' = [request EXCEPT ![c] =
              IF r.kind = "update" /\ Unchanged(r.inputs[s], r.stored, s, Boundary(f))
              THEN [r EXCEPT !.todo = @ \ {s}]
              ELSE AskPlanner(r, s)]
        /\ UNCHANGED <<missions, runs, catalogVars, holder, edited, asked, count>>

Plan(input, path, digest) ==
    [field |-> input.field, width |-> input.width, path |-> path, digest |-> digest]

\* Slip: the digest is of the field as it is when the planner answers.
SlipPlannerAnswers(c) ==
    LET r == request[c]
        s == r.pending.stage
    IN  /\ r.pending # NoValue
        /\ request' = [request EXCEPT ![c] =
              [r EXCEPT !.pending = NoValue, !.todo = @ \ {s},
                        !.planned = [t \in DOMAIN r.planned \cup {s} |->
                            IF t = s
                            THEN Plan(r.inputs[s], r.pending.boundary, fields[r.inputs[s].field])
                            ELSE r.planned[t]]]]
        /\ UNCHANGED <<missions, runs, catalogVars, holder, edited, asked, count>>

\* The planner answers with a path, which stands for the boundary it was laid
\* out in, and the digest recorded is of the boundary it was sent.
PlannerAnswers(c) ==
    LET r == request[c]
        s == r.pending.stage
    IN  /\ r.pending # NoValue
        /\ request' = [request EXCEPT ![c] =
              [r EXCEPT !.pending = NoValue, !.todo = @ \ {s},
                        !.planned = [t \in DOMAIN r.planned \cup {s} |->
                            IF t = s THEN Plan(r.inputs[s], r.pending.boundary, r.pending.boundary)
                            ELSE r.planned[t]]]]
        /\ UNCHANGED <<missions, runs, catalogVars, holder, edited, asked, count>>

Planned(c) == request[c].todo = {} /\ request[c].pending = NoValue

\* update goes on to the lock; plan first finds the mission of the stage, which
\* must be a coverage stage of the same field (_stage_to_replan).
FinishPlanning(c) ==
    LET r == request[c]
    IN  /\ r.phase = "planning"
        /\ Planned(c)
        /\ \/ /\ r.kind = "update"
              /\ request' = [request EXCEPT ![c].phase = "planned"]
           \/ /\ r.kind = "replan"
              /\ \E s \in r.named, m \in Missions :
                    /\ Exists(m)
                    /\ ~missions[m].archived
                    /\ IsCoverage(missions[m].stages, s)
                    /\ missions[m].stages[s].plan.field = r.inputs[s].field
                    /\ request' = [request EXCEPT ![c] =
                          [r EXCEPT !.phase = "planned", !.mission = m,
                                    !.stored = missions[m].stages]]
        /\ UNCHANGED <<missions, runs, catalogVars, holder, edited, asked, count>>

-----------------------------------------------------------------------------
(* Under the row lock                                                      *)

\* get_for_update reads the stage rows again.  Rows of the session's earlier
\* read that Python still holds (the recursive closure of _nest keeps them
\* until a collection) are returned as they were read then, as the query asks
\* for no populate_existing.
RowsUnderLock(c, m) ==
    LET now == missions[m].stages
        before == request[c].stored
    IN  {now} \cup
        (IF request[c].kind \in {"update", "replan"}
         THEN {Tree([s \in DOMAIN now |-> IF s \in DOMAIN before THEN before[s] ELSE now[s]])}
         ELSE {})

\* Slip: what was kept before the lock is not compared again.
SlipTodoUnderLock(r, d) ==
    IF r.kind \in {"assign", "dispatch"} THEN CoverageStages(d) ELSE {}

\* What is still to be done under the lock: inputs that were kept are compared
\* again (_replan_changed_meanwhile), and a robot is given no coverage plan
\* whose boundary was not compared (require_current_boundary).
TodoUnderLock(r, d) ==
    CASE r.kind = "update" -> InputsToPlan(r.inputs) \ DOMAIN r.planned
      [] r.kind \in {"assign", "dispatch"} -> CoverageStages(d)
      [] OTHER -> {}

\* Slip: the archived mark is checked only before the planning.
SlipAdmissible(r, m) ==
    /\ Exists(m)
    /\ r.kind \notin {"delete", "update", "replan"} => (missions[m].archived <=> r.kind = "restore")
    /\ r.kind = "dispatch" => r.robot # NoValue \/ missions[m].robot # NoValue

\* get_for_update and the checks that follow it; a request that is refused aborts.
Admissible(r, m) ==
    /\ Exists(m)
    /\ r.kind # "delete" => (missions[m].archived <=> r.kind = "restore")
    /\ r.kind = "dispatch" => r.robot # NoValue \/ missions[m].robot # NoValue

\* Slip: a dispatch reads the mission with get, without the lock.
SlipLock(c) ==
    LET r == request[c]
        m == r.mission
    IN  /\ r.phase = "planned"
        /\ r.kind # "site"
        /\ Admissible(r, m)
        /\ r.kind # "dispatch" => holder[m] = NoValue
        /\ holder' = IF r.kind = "dispatch" THEN holder ELSE [holder EXCEPT ![m] = c]
        /\ \E d \in RowsUnderLock(c, m) :
            request' = [request EXCEPT ![c] =
                [r EXCEPT !.phase = "locked", !.stored = d, !.todo = TodoUnderLock(r, d),
                          !.robot = IF r.kind = "dispatch" /\ @ = NoValue
                                    THEN missions[m].robot ELSE @]]
        /\ UNCHANGED <<missions, runs, catalogVars, edited, asked, count>>

Lock(c) ==
    LET r == request[c]
        m == r.mission
    IN  /\ r.phase = "planned"
        /\ r.kind # "site"
        /\ holder[m] = NoValue
        /\ Admissible(r, m)
        /\ holder' = [holder EXCEPT ![m] = c]
        /\ \E d \in RowsUnderLock(c, m) :
            request' = [request EXCEPT ![c] =
                [r EXCEPT !.phase = "locked", !.stored = d, !.todo = TodoUnderLock(r, d),
                          !.robot = IF r.kind = "dispatch" /\ @ = NoValue
                                    THEN missions[m].robot ELSE @]]
        /\ UNCHANGED <<missions, runs, catalogVars, edited, asked, count>>

\* Slip: the field is only looked up, its boundary is not compared.
SlipCompareBoundary(c, s) ==
    LET r == request[c]
    IN  /\ r.phase = "locked"
        /\ r.kind \in {"assign", "dispatch"}
        /\ s \in r.todo
        /\ Plannable(r.stored[s].plan.field)
        /\ request' = [request EXCEPT ![c].todo = @ \ {s}]
        /\ UNCHANGED <<missions, runs, catalogVars, holder, edited, asked, count>>

\* require_current_boundary reads the fields one after another.
CompareBoundary(c, s) ==
    LET r == request[c]
    IN  /\ r.phase = "locked"
        /\ r.kind \in {"assign", "dispatch"}
        /\ s \in r.todo
        /\ fields[r.stored[s].plan.field] = r.stored[s].plan.digest
        /\ request' = [request EXCEPT ![c].todo = @ \ {s}]
        /\ UNCHANGED <<missions, runs, catalogVars, holder, edited, asked, count>>

StageKind(stage) == IF stage.plan = NoValue THEN "navigation" ELSE "coverage"

\* Slip: a plan is not compared with the robot's physical parameters.
SlipFits(b, d) ==
    /\ Factsheets[b] # NoValue
    /\ \A s \in Children(d, NoValue) : StageKind(d[s]) \in Factsheets[b].kinds

\* validate_against_factsheet, which looks at no cleanup stage, and
\* validate_plan_fits_robot, which looks at every coverage stage.
Fits(b, d) ==
    /\ Factsheets[b] # NoValue
    /\ \A s \in Children(d, NoValue) : StageKind(d[s]) \in Factsheets[b].kinds
    /\ \A s \in CoverageStages(d) : d[s].plan.width \in Factsheets[b].widths

\* The robot is in no active run, or only in runs of the given missions.
FreeBut(b, allowed) ==
    \A q \in Runs : runs[q] # NoValue /\ runs[q].active /\ runs[q].robot = b
                        => runs[q].mission \in allowed

Ready(c, kind) == request[c].kind = kind /\ request[c].phase = "locked" /\ Planned(c)

Writes(c, m, row) == missions' = [missions EXCEPT ![m] = row] /\ End(c)

\* The planning inputs a save is answerable for.
AskedIn(r) == [s \in InputsToPlan(r.inputs) |-> r.inputs[s]]

SaveNew(c) ==
    LET r == request[c]
        d == WithIds(r.inputs, r.planned, NoStages)
    IN  /\ r.kind = "create"
        /\ Planned(c)
        /\ SitesPresent(d)
        /\ Writes(c, r.mission, [stages |-> d, archived |-> FALSE, robot |-> NoValue])
        /\ asked' = [asked EXCEPT ![r.mission] = AskedIn(r)]
        /\ UNCHANGED <<runs, catalogVars, count>>

\* save leaves archived_at and the assigned robot as they are.
SaveUpdate(c) ==
    LET r == request[c]
        d == WithIds(r.inputs, r.planned, r.stored)
    IN  /\ Ready(c, "update")
        /\ Resolvable(r.inputs, r.named, r.planned, r.stored)
        /\ SitesPresent(d)
        /\ Writes(c, r.mission, [missions[r.mission] EXCEPT !.stages = d])
        /\ asked' = [asked EXCEPT ![r.mission] = AskedIn(r)]
        /\ UNCHANGED <<runs, catalogVars, count>>

\* replace_generated_stage
SaveReplacement(c) ==
    LET r == request[c]
    IN  /\ Ready(c, "replan")
        /\ \E s \in r.named :
            /\ s \in DOMAIN r.stored
            /\ SitesPresent(ReplaceStage(r.stored, s, r.planned[s]))
            /\ Writes(c, r.mission, [missions[r.mission] EXCEPT
                    !.stages = ReplaceStage(r.stored, s, r.planned[s])])
        /\ asked' = [asked EXCEPT ![r.mission] = AskedIn(r)]
        /\ UNCHANGED <<runs, catalogVars, count>>

SaveAssignment(c) ==
    LET r == request[c]
    IN  /\ Ready(c, "assign") \/ Ready(c, "unassign")
        /\ r.kind = "assign" => Fits(r.robot, r.stored) /\ FreeBut(r.robot, {r.mission})
        /\ Writes(c, r.mission, [missions[r.mission] EXCEPT !.robot = r.robot])
        /\ UNCHANGED <<runs, catalogVars, asked, count>>

\* prepare records the run with a copy of the stages and of their sites; the
\* index on active runs refuses a robot that has one.
CreateRun(c) ==
    LET r == request[c]
    IN  /\ Ready(c, "dispatch")
        /\ FreeBut(r.robot, {})
        /\ Fits(r.robot, r.stored)
        /\ \E q \in Runs :
            /\ runs[q] = NoValue
            /\ runs' = [runs EXCEPT ![q] =
                  [mission |-> r.mission, robot |-> r.robot, active |-> TRUE,
                   stages |-> r.stored, anchors |-> ReferencedSites(r.stored)]]
        /\ SitesPresent(r.stored)
        /\ End(c)
        /\ UNCHANGED <<missions, catalogVars, asked, count>>

\* Slip: the stages of a mission go with it also when it is only archived.
SlipDelete(c) ==
    LET m == request[c].mission
    IN  /\ Ready(c, "delete")
        /\ ActiveRuns(m) = {}
        /\ Writes(c, m, IF RunsOf(m) = {} THEN NoValue
                        ELSE [missions[m] EXCEPT !.archived = TRUE, !.stages = NoValue])
        /\ asked' = [asked EXCEPT ![m] = NoStages]
        /\ UNCHANGED <<runs, catalogVars, count>>

\* A mission that never ran is deleted, one that did is archived, and one with
\* an active run is left alone.
Delete(c) ==
    LET m == request[c].mission
    IN  /\ Ready(c, "delete")
        /\ ActiveRuns(m) = {}
        /\ Writes(c, m, IF RunsOf(m) = {} THEN NoValue
                        ELSE [missions[m] EXCEPT !.archived = TRUE])
        /\ asked' = IF RunsOf(m) = {} THEN [asked EXCEPT ![m] = NoStages] ELSE asked
        /\ UNCHANGED <<runs, catalogVars, count>>

Restore(c) ==
    LET m == request[c].mission
    IN  /\ Ready(c, "restore")
        /\ Writes(c, m, [missions[m] EXCEPT !.archived = FALSE])
        /\ UNCHANGED <<runs, catalogVars, asked, count>>

\* Slip: no foreign key, only the look for missions at the beginning.
SlipDeleteSite(c) ==
    LET a == request[c].site
    IN  /\ request[c].kind = "site"
        /\ sites[a] = "present"
        /\ sites' = [sites EXCEPT ![a] = "deleted"]
        /\ End(c)
        /\ UNCHANGED <<missions, runs, fields, asked, count>>

\* The foreign key restricts the delete of a site that a stage names.
DeleteSite(c) ==
    LET a == request[c].site
    IN  /\ request[c].kind = "site"
        /\ sites[a] = "present"
        /\ \A m \in Missions : Exists(m) => a \notin ReferencedSites(missions[m].stages)
        /\ sites' = [sites EXCEPT ![a] = "deleted"]
        /\ End(c)
        /\ UNCHANGED <<missions, runs, fields, asked, count>>

\* Every other end of a request writes nothing: a refusal, a planner that is
\* down or rejects, a robot without a fitting factsheet, a lost connection.
Abort(c) ==
    /\ request[c] # Idle
    /\ End(c)
    /\ UNCHANGED <<missions, runs, catalogVars, asked, count>>

-----------------------------------------------------------------------------
(* Requests of a single statement, and the runs                            *)

\* The field's row is written, whatever missions are locked by others.
WriteField(f, b) ==
    /\ fields' = [fields EXCEPT ![f] = b]
    /\ edited' = [m \in Missions |-> IF holder[m] = NoValue THEN {} ELSE edited[m] \cup {f}]

\* A field is created, redrawn or deleted.
SetField(f, b) ==
    /\ fields[f] # "deleted"
    /\ fields[f] # b
    /\ WriteField(f, b)
    /\ IF fields[f] = "none" THEN b # "deleted" /\ UNCHANGED count ELSE Counts("edits")
    /\ UNCHANGED <<missions, runs, sites, holder, request, asked>>

CreateSite(a) ==
    /\ sites[a] = "none"
    /\ sites' = [sites EXCEPT ![a] = "present"]
    /\ UNCHANGED <<missions, runs, fields, holder, request, edited, asked, count>>

RunEnds(r) ==
    /\ runs[r] # NoValue
    /\ runs[r].active
    /\ runs' = [runs EXCEPT ![r].active = FALSE]
    /\ UNCHANGED <<missions, catalogVars, holder, request, edited, asked, count>>

DeleteRun(r) ==
    /\ runs[r] # NoValue
    /\ ~runs[r].active
    /\ runs' = [runs EXCEPT ![r] = NoValue]
    /\ UNCHANGED <<missions, catalogVars, holder, request, edited, asked, count>>

LockedKinds == {"assign", "unassign", "dispatch", "delete", "restore"}

Begin(c) ==
    \/ BeginCreate(c)
    \/ BeginUpdate(c)
    \/ BeginReplan(c)
    \/ \E kind \in LockedKinds : BeginLocked(c, kind)
    \/ BeginSiteDelete(c)

Step(c) ==
    \/ \E s \in Stages : PlanOrKeep(c, s) \/ CompareBoundary(c, s)
    \/ PlannerAnswers(c)
    \/ FinishPlanning(c)
    \/ Lock(c)
    \/ SaveNew(c)
    \/ SaveUpdate(c)
    \/ SaveReplacement(c)
    \/ SaveAssignment(c)
    \/ CreateRun(c)
    \/ Delete(c)
    \/ Restore(c)
    \/ DeleteSite(c)
    \/ Abort(c)

Next ==
    \/ \E c \in Requests : Begin(c) \/ Step(c)
    \/ \E f \in Fields, b \in Boundaries \cup {"deleted"} : SetField(f, b)
    \/ \E a \in Sites : CreateSite(a)
    \/ \E r \in Runs : RunEnds(r) \/ DeleteRun(r)

Spec == Init /\ [][Next]_vars

-----------------------------------------------------------------------------
(* Properties                                                              *)

Definitions == {missions[m].stages : m \in {n \in Missions : Exists(n)}}
               \cup {runs[r].stages : r \in {q \in Runs : runs[q] # NoValue}}

RequestKinds == {"none", "create", "update", "replan", "site"} \cup LockedKinds
RequestRows ==
    [kind : RequestKinds, phase : {"none", "planning", "planned", "locked"},
     mission : Missions \cup {NoValue}, robot : Robots \cup {NoValue},
     site : Sites \cup {NoValue}, inputs : UNION {[ids -> Input] : ids \in SUBSET Stages},
     named : SUBSET Stages, stored : Definition, todo : SUBSET Stages,
     pending : [stage : Stages, boundary : Boundaries] \cup {NoValue},
     planned : UNION {[ids -> PlanOf] : ids \in SUBSET Stages}]

TypeOK ==
    /\ missions \in [Missions -> Rows \cup {NoValue}]
    /\ runs \in [Runs -> RunRows \cup {NoValue}]
    /\ fields \in [Fields -> Boundaries \cup {"none", "deleted"}]
    /\ sites \in [Sites -> {"none", "present", "deleted"}]
    /\ holder \in [Missions -> Requests \cup {NoValue}]
    /\ request \in [Requests -> RequestRows]
    /\ edited \in [Missions -> SUBSET Fields]
    /\ asked \in [Missions -> UNION {[ids -> Input] : ids \in SUBSET Stages}]
    /\ count \in [Counted -> Nat]

\* Every path was laid out in the boundary whose digest is recorded with it,
\* however the field is edited while the planner works and whichever copies of
\* the stage are carried, re-planned or dispatched: what require_current_boundary
\* compares is the path's own boundary.
PathsAreOfTheirBoundary ==
    \A d \in Definitions : \A s \in CoverageStages(d) : d[s].plan.path = d[s].plan.digest

\* The coverage stages that the last save of a mission gave inputs for are
\* planned from these inputs, also those that the unlocked comparison kept and
\* that were changed before the lock was had (mission_management_service.py:341).
PlansAreAsAsked ==
    \A m \in Missions : Exists(m) =>
        \A s \in DOMAIN asked[m] :
            /\ IsCoverage(missions[m].stages, s)
            /\ missions[m].stages[s].plan.field = asked[m][s].field
            /\ missions[m].stages[s].plan.width = asked[m][s].width

\* A run is of a mission that is still there, and no archived mission has an
\* active run: delete and dispatch exclude each other (mission_management_service.py:264).
RunsHaveTheirMission ==
    \A r \in Runs : runs[r] # NoValue =>
        /\ Exists(runs[r].mission)
        /\ runs[r].active => ~missions[runs[r].mission].archived

\* No robot is in an active run with a coverage stage it cannot drive, whatever
\* was re-planned after the robot became the mission's default
\* (mission_management_service.py:225, run_service.py:153).
RunsFitTheirRobot ==
    \A r \in Runs : runs[r] # NoValue /\ runs[r].active =>
        LET sheet == Factsheets[runs[r].robot]
        IN  /\ sheet # NoValue
            /\ \A s \in CoverageStages(runs[r].stages) :
                  runs[r].stages[s].plan.width \in sheet.widths

\* The sites a mission is driven in are never deleted under it, though a site's
\* delete and a mission's save look at each other's rows without a lock.
SitesAreKept ==
    \A m \in Missions : Exists(m) => SitesPresent(missions[m].stages)

\* A dispatch copies the definition that is stored at that moment, never a mix
\* of an old and a new one (mission_management_service.py:133).
RunIsTheDefinition ==
    [][\A r \in Runs : runs[r] = NoValue /\ runs'[r] # NoValue =>
          /\ Exists(runs'[r].mission)
          /\ runs'[r].stages = missions[runs'[r].mission].stages]_vars

\* A robot is handed a coverage path, by a dispatch or as a mission's default,
\* only if its boundary is the field's or the field changed after the check had begun.
HandedPathsWereCurrent ==
    [][\A m \in Missions :
          (/\ Exists(m)
           /\ \/ \E r \in Runs : runs[r] = NoValue /\ runs'[r] # NoValue /\ runs'[r].mission = m
              \/ missions'[m] # NoValue /\ missions'[m].robot \notin {NoValue, missions[m].robot})
          => \A s \in CoverageStages(missions[m].stages) :
                LET plan == missions[m].stages[s].plan
                IN  fields[plan.field] = plan.digest \/ plan.field \in edited[m]]_vars

\* An archived mission keeps its stages and its robot: an edit that began
\* before the archival does not come through after it.
ArchivedStands ==
    [][\A m \in Missions :
          Exists(m) /\ missions[m].archived /\ missions'[m] # NoValue =>
              /\ missions'[m].stages = missions[m].stages
              /\ missions'[m].robot = missions[m].robot]_vars
=============================================================================
