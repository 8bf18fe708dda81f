SPECIFICATION FairHfSpec
CONSTANTS
    s1 = s1
    s2 = s2
    o1 = o1
    o2 = o2
    None = None
    Sinks <- MCPair
    Objects <- MCObjects
    Attempts = 3
    Gated = TRUE
INVARIANTS
    OneSendPerGate
    GateIsHeldToSend
PROPERTIES
    KeepsTerminalPromise
    EveryIngestReturns
