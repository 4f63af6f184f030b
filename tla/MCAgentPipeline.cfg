SPECIFICATION PipelineSpec
CONSTANTS
    readiness = readiness
    liveness = liveness
    node = node
    Objects <- MCObjects
    RawEvent <- MCRawEvent
    OwnerChains <- MCChains
    Incoming <- MCIncoming
    PipelineBuffer = 2
    MaxRestarts = 1
    RequestedSize = 2
    DefaultMaxSize = 3
    MaxBurstsPerKey = 2
    BurstGap = 2
INVARIANTS
    PipelineTypeOK
    NothingVanishes
    VersionsInOrder
    StoredIsRepresented
PROPERTIES
    CatchesUp
\* Once the cluster is quiet and the pipeline is drained, nothing is left to do.
CHECK_DEADLOCK FALSE
