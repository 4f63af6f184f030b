SPECIFICATION MCSpec
CONSTANTS
    Incoming <- MCIncoming
    Filters <- MCFilters
    MaxInt32 = 3
    RequestedSize = 4
    DefaultMaxSize = 2
    MaxBurstsPerKey = 2
    BurstGap = 2
    MaxInserts = 8
INVARIANTS
    TypeOK
    RingWindow
    IndexesExact
    DedupTracksLatest
    QueryCorrect
    SummaryCorrect
PROPERTIES
    EpisodeMonotone
    ImplementsEventLog
\* A cluster may stop reporting events.
CHECK_DEADLOCK FALSE
