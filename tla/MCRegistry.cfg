SPECIFICATION Spec
CONSTANTS
    Clusters = {prod, dev}
    Endpoints = {e1, e2}
    Queries = {q1, q2}
    Persistent = TRUE
    MaxConns = 2
    MaxCrashes = 1
    None = None
INVARIANTS
    TypeOK
    OpenConnsCurrent
    CallsReachRegistered
    FileIsWhole
PROPERTIES
    LockReleased
