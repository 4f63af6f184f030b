SPECIFICATION PipelineSpec
CONSTANTS
    readiness = readiness
    liveness = liveness
    node = node
    Objects <- MCObjects
    RawEvent <- MCRawEvent
    OwnerChains <- MCChains
    Incoming <- MCIncoming
    PipelineBuffer = 2
    MaxRestarts = 1
    RequestedSize = 2
    DefaultMaxSize = 3
    MaxBurstsPerKey = 2
    BurstGap = 2
INVARIANTS
    BurstsNotSplit
CHECK_DEADLOCK FALSE
