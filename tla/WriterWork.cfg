SPECIFICATION Spec
CONSTANTS
    Process = {p1, p2}
    Conversation = {s1, s2}
    Agent = {a1, a2}
    Run <- TwoRuns
    Retained = 1
    MaxFaults = 2
    None = None
SYMMETRY Symmetry
INVARIANTS
    TypeOK
    WorkKept
    CheckoutIsItsOwn
    OneHandoutPerAgent
CHECK_DEADLOCK FALSE
