\* Ceilings of 20 tokens (19 for the work) and a cost of 30, both priced.
SPECIFICATION FairSpec
CONSTANTS
    parent = parent
    child = child
    judge = judge
    Session = {parent, child}
    Auxiliary = {judge}
    MaxTurns <- MCMaxTurns
    Capped = {"tokens", "cost"}
    Ceiling <- MCCeiling
    PriceIn = 1
    PriceOut = 2
    Prompt = {3}
    AuxOutput = 2
    Usage <- MCUsage
    ModelOutput = 8
    OneReply = 2
    FinishCap = 1
    Slack = 0
INVARIANTS
    PoolAccounting
    NeverOverAdmitted
    WorkLeavesTheFinish
PROPERTY
    EveryReservationSettles
CHECK_DEADLOCK FALSE
