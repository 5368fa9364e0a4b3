SPECIFICATION Spec
CONSTANTS
    a = a  b = b  c = c
    s1 = s1  s2 = s2
    None = None
    Call = {a, b}
    Session = {s1, s2}
    MaxActive = 1
    MaxSettled = 1
    MaxDepth = 2
    NameTries = 2
    Waits = TRUE
INVARIANTS
    NoLostWakeup

    
CHECK_DEADLOCK FALSE
