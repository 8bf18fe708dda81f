SPECIFICATION StackSpec
CONSTANTS
    r1 = r1
    r2 = r2
    None = None
    Records <- MCRecords
    Times <- MCTimes
    Windows <- MCWindows
    Every = 1
    MaxRecords = 2
    Names = {"live"}
    Name = "live"
    Hint = "live"
    Durable = FALSE
    StoreErrors = FALSE
    TornBytes = FALSE
    InnerTimes <- MCInnerTimes
    InnerWindows <- MCInnerWindows
    InnerEvery = 2
    InnerMax = 2
    InnerErrors = FALSE
    LostReplies = FALSE
    MaxFaults = 1
    MaxCrashes = 0
SYMMETRY MCSymmetry
INVARIANTS
    SegmentsKeepTheirHour
