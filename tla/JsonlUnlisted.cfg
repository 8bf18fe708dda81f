SPECIFICATION JsonlSpec
CONSTANTS
    r1 = r1
    r2 = r2
    r3 = r3
    None = None
    Newline = Newline
    Torn = Torn
    TornUtf8 = TornUtf8
    Records <- MCRecords
    Batches <- MCBatches
    Windows = {0}
    Ascii = TRUE
    IoErrors = FALSE
    RootListed = {TRUE}
    MaxKills = 1
    MaxOutages = 1
SYMMETRY MCSymmetry
INVARIANTS
    AckedIsDurable
