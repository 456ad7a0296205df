SPECIFICATION ReturnSpec
CONSTANTS
    Runs = {r1}
    Missions = {m1}
    Robots = {b1}
    s1 = s1
    s2 = s2
    c1 = c1
    Stages = {s1, c1}
    Cleanup = {c1}
    StageReports <- NoStageReports
    Claiming = {b1}
    Requests = {"cancel_offline", "close"}
    Faults = {"offline", "reboot", "restart", "old_client", "failed_handler"}
    MaxHeader = 1
    None = None
INVARIANTS
    EndedRunHasEndedStages
PROPERTIES
    EndedRunIsFinal
    UnheldRunIsSettled
CHECK_DEADLOCK FALSE
