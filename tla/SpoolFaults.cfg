SPECIFICATION SpoolSpec
CONSTANTS
    r1 = r1
    r2 = r2
    r3 = r3
    None = None
    Records <- MCPair
    Times <- MCTimes
    Windows <- MCWindows
    Poison <- MCNoPoison
    Every = 2
    MaxRecords = 2
    Names = {"live", "dir"}
    Name = "live"
    Hint = "live"
    Durable = TRUE
    StoreErrors = TRUE
    TornBytes = TRUE
    Rejections = TRUE
    LostReplies = TRUE
    ClockSteps = TRUE
    MaxCrashes = 1
SYMMETRY MCSymmetry
INVARIANTS
    Custody
    CountCovers
    ShipsClosedWindows
    OkMeansDrained
PROPERTIES
    KeepsPromise
