SPECIFICATION FairPollSpec
CONSTANTS
    a1 = a1
    a2 = a2
    ka = ka
    here = here
    None = None
    Readings <- MCReadings
    Records <- MCRecords
    KeyOf <- MCKeyOf
    Stations <- MCStations
    StationOf <- MCStationOf
    Keyed = TRUE
    Policies = {"FlushAll", "PreserveActiveWindow"}
    Times <- MCTurns
    Windows <- MCTurns
    Poison <- MCNoPoison
    Every = 2
    MaxRecords = 4
    Names = {"live"}
    Name = "live"
    Hint = "live"
    Durable = TRUE
    StoreErrors = FALSE
    TornBytes = TRUE
    Rejections = TRUE
    LostReplies = TRUE
    ClockSteps = FALSE
    MaxCrashes = 1
INVARIANTS
    RepeatsAreKept
    NoSilentLoss
    StopDeliversAll
    WindowsStayWhole
PROPERTIES
    NoRepeats
    SignalStopsRun
    ClosedWindowsShip
CHECK_DEADLOCK FALSE
