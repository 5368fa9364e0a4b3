\* Appends fail and turns are force-stopped; four messages, two at a time.
SPECIFICATION FairSpec
CONSTANTS
    Message = {m1, m2, m3, m4}
    MaxSteers = 2
    Faults = {"append", "abort"}
INVARIANTS
    SteersAreAccountedFor
    ReadOnce
    ReadInOrder
PROPERTIES
    EveryMessageIsSettled
CHECK_DEADLOCK FALSE
