SPECIFICATION Spec
CONSTANTS
    a = a  b = b  c = c
    s1 = s1  s2 = s2
    None = None
    Call = {a, b, c}
    Session = {s1, s2}
    MaxActive = 2
    MaxSettled = 1
    MaxDepth = 2
    NameTries = 2
    Waits = FALSE
INVARIANTS
    OneRunPerSession
    RosterAgrees
    OneOwnerTree
    CancelReachesDescendants
    SettledIsCollectable
SYMMETRY Symmetry
CHECK_DEADLOCK FALSE
