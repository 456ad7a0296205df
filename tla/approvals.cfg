SPECIFICATION Spec
CONSTANTS
    Calls = {k1, k2}
    Turns = {t1, t2, t3}
    i1 = i1
    i2 = i2
    a = a
    b = b
    Ids <- MCIds
    Contents <- MCContents
    Histories <- MCHistories
    None = None
SYMMETRY Symmetry
INVARIANTS
    RunsAsApproved
    OutcomeIsItsOwn
PROPERTIES
    StrandedProposalsStay
    DecidedAndDoneOnce
CHECK_DEADLOCK FALSE
