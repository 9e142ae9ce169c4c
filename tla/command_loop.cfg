SPECIFICATION FairSpec
CONSTANTS
    Processes = {p1, p2, p3}
    NoProcess = none
    Steps = 2
    MaxCrashes = 1
    MaxOther = 1
INVARIANTS StepsAreSerial AdvanceIsNoticed
PROPERTIES StateOnlyMovesForward EventuallyStops
