SPECIFICATION Spec
CONSTANTS
    Missions = {m1}
    Stages = {s1, s2}
    Runs = {r1, r2}
    Robots = {b1}
    Fields = {f1}
    Boundaries = {p1, p2}
    Widths = {w1, w2}
    Sites = {a1}
    Requests = {q1, q2}
    NoValue = NoValue
    s1 = s1
    s2 = s2
    f1 = f1
    p1 = p1
    w1 = w1
    w2 = w2
    a1 = a1
    Stored <- MCStored
    Inputs <- MCInputs
    Factsheets <- MCFactsheets
    requests = 2
    edits = 1
    Bounds <- MCBounds
SYMMETRY Symmetry
CHECK_DEADLOCK FALSE
INVARIANTS
    TypeOK
    PathsAreOfTheirBoundary
    PlansAreAsAsked
    RunsHaveTheirMission
    RunsFitTheirRobot
    SitesAreKept
PROPERTIES
    RunIsTheDefinition
    HandedPathsWereCurrent
    ArchivedStands
