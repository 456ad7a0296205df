SPECIFICATION Spec
CONSTANTS
    Runs = {r1}
    Missions = {m1}
    Robots = {b1}
    s1 = s1
    s2 = s2
    c1 = c1
    Stages <- MCStages
    Cleanup <- MCCleanup
    StageReports <- MCStageReports
    Claiming = {b1}
    Requests = {"cancel", "pause", "resume", "delete"}
    Faults = {"reordered_frame", "lost_frame", "lost_call", "lost_dispatch", "late_dispatch", "refusal", "failed_handler"}
    MaxHeader = 2
    None = None
INVARIANTS
    TypeOK
    CalledRunStandsStill
    EndedRunIsNotDriven
    SucceededRunIsClean
    AcknowledgedCancelStops
    UnansweredRunIsMarked
PROPERTIES
    StageHeadersNeverFall
    MovesAreAllowedAndLogged
    AcceptedRunHasDispatchTime
CHECK_DEADLOCK FALSE
