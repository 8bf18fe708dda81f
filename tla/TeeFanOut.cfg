SPECIFICATION FairTeeSpec
CONSTANTS
    r1 = r1
    r2 = r2
    None = None
    Records <- MCRecords
    Times <- MCTurns
    Windows <- MCTurns
    Every = 2
    MaxRecords = 2
    Names = {"live"}
    Name = "live"
    Hint = "live"
    Durable = TRUE
    StoreErrors = FALSE
    TornBytes = FALSE
    MaxCrashes = 1
INVARIANTS
    TeeCustody
    BranchesAreIndependent
    CopiesOnlyAfterFailure
PROPERTIES
    SecondIsServed
CHECK_DEADLOCK FALSE
