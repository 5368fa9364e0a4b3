\* Three calls, two in flight, another session's change, stops, network
\* retries, failing appends and failing hooks.
SPECIFICATION FairSpec
CONSTANTS
    N = 3
    Rounds <- MCRounds
    MaxParallel = 2
    LogFails = TRUE
    Retries = TRUE
    HookFails = TRUE
INVARIANTS
    ResultsInCallOrder
    ReplayAgrees
    MemoryAgrees
    AnnouncedBeforeEffect
    
PROPERTIES
    RoundSettles
    CancelSettles
CHECK_DEADLOCK FALSE
