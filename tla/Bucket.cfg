SPECIFICATION FairBucketSpec
CONSTANTS
    s1 = s1
    s2 = s2
    p = p
    q = q
    few = few
    None = None
    Sinks <- MCSinks
    Windows <- MCWindows
    Attempts = 4
    MaxCrashes = 1
INVARIANTS
    EntriesHaveContent
PROPERTIES
    EntriesNeverChange
    KeepsTerminalPromise
    EveryWriteReturns
