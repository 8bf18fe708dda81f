SPECIFICATION JsonlSpec
CONSTANTS
    r1 = r1
    r2 = r2
    r3 = r3
    None = None
    Newline = Newline
    Torn = Torn
    TornUtf8 = TornUtf8
    Records <- MCRecords
    Batches <- MCBatches
    Windows = {0, 60}
    Ascii = FALSE
    IoErrors = TRUE
    RootListed = {TRUE, FALSE}
    MaxKills = 2
    MaxOutages = 2
SYMMETRY MCSymmetry
INVARIANTS
    JsonlTypeOK
    AckedIsReadBack
PROPERTIES
    ImplementsStore
