SPECIFICATION Spec
\* Correlate returns: a state without successor is the end of the call.
CHECK_DEADLOCK FALSE
CONSTANTS
    Events <- MCEvents
    MaxEvents = 3
    StableLimit = 2
INVARIANTS
    TimelineComplete
    CausesJustified
    EveryWorkloadHasRoot
    ModesAgree
    PromptGrounded
