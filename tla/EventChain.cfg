SPECIFICATION Spec
CONSTANTS
    Handle = {h1, h2}
    Body = {x, y}
    MaxRows = 3
    MaxOutside = 2
    Waiting = Waiting
    Failed = Failed
    None = None
SYMMETRY Symmetry
INVARIANTS
    OneChain
    ProofIsCurrent
PROPERTIES
    ReadsAreTheLog
CHECK_DEADLOCK FALSE
