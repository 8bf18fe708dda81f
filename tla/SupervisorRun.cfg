SPECIFICATION FairSupSpec
CONSTANTS
    p1 = p1
    p2 = p2
    None = None
    Pipelines <- MCPair
    MaxFailures = 2
    FactoryPanics = TRUE
INVARIANTS
    SupTypeOK
    GivesUpOnStreaks
    ReturnsAccounted
PROPERTIES
    PanicsAreAnswered
    SignalStops
