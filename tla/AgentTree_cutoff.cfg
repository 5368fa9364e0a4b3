SPECIFICATION Spec
CONSTANTS
    a = a  b = b  c = c
    s1 = s1  s2 = s2
    None = None
    Call = {a, b}
    Session = {s1, s2}
    MaxActive = 2
    MaxSettled = 1
    MaxDepth = 2
    NameTries = 1
    Waits = FALSE
INVARIANTS
    EveryLiveRowHasATask
CHECK_DEADLOCK FALSE
