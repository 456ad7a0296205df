SPECIFICATION FairSpec
CONSTANTS
    Runs = {r1}
    Missions = {m1}
    Robots = {b1}
    s1 = s1
    s2 = s2
    c1 = c1
    Stages = {}
    Cleanup = {}
    StageReports <- NoStageReports
    Claiming = {b1}
    Requests = {"cancel", "pause", "resume"}
    Faults = {"reordered_frame"}
    MaxHeader = 2
    None = None
PROPERTIES
    CancelEndsRun
CHECK_DEADLOCK FALSE
