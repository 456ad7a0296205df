SPECIFICATION Spec
CONSTANTS
    Runs = {r1}
    Missions = {m1}
    Robots = {b1}
    s1 = s1
    s2 = s2
    c1 = c1
    Stages = {}
    Cleanup = {}
    StageReports <- NoStageReports
    Claiming = {b1}
    Requests = {"cancel"}
    Faults = {"reordered_frame"}
    MaxHeader = 2
    None = None
PROPERTIES
    ReportsAreOrdered
CHECK_DEADLOCK FALSE
