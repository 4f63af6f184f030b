SPECIFICATION Spec
\* Correlate returns: a state without successor is the end of the call.
CHECK_DEADLOCK FALSE
CONSTANTS
    Events <- MCNamesakes
    MaxEvents = 3
    StableLimit = 2
INVARIANT
    GroupsAreWorkloads
