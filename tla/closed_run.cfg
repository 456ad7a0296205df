SPECIFICATION Spec
CONSTANTS
    Runs = {r1}
    Missions = {m1}
    Robots = {b1}
    s1 = s1
    s2 = s2
    c1 = c1
    Stages = {}
    Cleanup = {}
    StageReports <- NoStageReports
    Claiming = {b1}
    Requests = {"close", "delete"}
    Faults = {"offline"}
    MaxHeader = 1
    None = None
INVARIANTS
    ClosedRunIsStopped
CHECK_DEADLOCK FALSE
