SPECIFICATION SpoolSpec
CONSTANTS
    r1 = r1
    r2 = r2
    r3 = r3
    None = None
    Records <- MCRecords
    Times <- MCLongTimes
    Windows <- MCLongWindows
    Poison <- MCNoPoison
    Every = 2
    MaxRecords = 2
    Names = {"live", "dir"}
    Name = "live"
    Hint = "dir"
    Durable = TRUE
    StoreErrors = FALSE
    TornBytes = FALSE
    Rejections = TRUE
    LostReplies = TRUE
    ClockSteps = FALSE
    MaxCrashes = 1
SYMMETRY MCSymmetry
INVARIANTS
    CountExact
    ValveFires
    ClosedWindowIsOneObject
