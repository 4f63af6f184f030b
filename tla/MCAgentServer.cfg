SPECIFICATION MCSpec
CONSTANTS
    Incoming <- MCIncoming
    Filters = {}
    Questions <- MCQuestions
    RequestedSize = 0
    DefaultMaxSize = 3
    MaxBurstsPerKey = 1
    BurstGap = 2
    MaxInt32 = 7
    MaxInserts = 4
INVARIANTS
    CollectedOnce
    CollectedGenuine
    SummaryCovered
\* A cluster may stop reporting events.
CHECK_DEADLOCK FALSE
