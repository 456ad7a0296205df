SPECIFICATION Spec
CONSTANTS
    Runs = {r1, r2}
    Missions = {m1, m2}
    Robots = {b1, b2}
    s1 = s1
    s2 = s2
    c1 = c1
    Stages = {}
    Cleanup = {}
    StageReports <- NoStageReports
    Claiming = {b1}
    Requests = {"cancel"}
    Faults = {}
    MaxHeader = 0
    None = None
SYMMETRY Symmetry
INVARIANTS
    OneRunPerRobot
    ConcurrencyIsConsented
PROPERTIES
    ReservesRobots
CHECK_DEADLOCK FALSE
