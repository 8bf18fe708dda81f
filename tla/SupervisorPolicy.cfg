SPECIFICATION SupSpec
CONSTANTS
    p1 = p1
    p2 = p2
    None = None
    Pipelines <- MCPair
    MaxFailures = 1
    FactoryPanics = FALSE
INVARIANT
    EveryPipelineSettles
