SPECIFICATION Spec
CONSTANTS
    i1 = i1  i2 = i2  i3 = i3
    d1 = d1  d2 = d2
    None = None
    Instance = {i1, i2, i3}
    Dispatch = {d1, d2}
    MaxFaults = 2
INVARIANTS
    NoOrphanAfterOpening
PROPERTIES
    DeliveryHolds
    
CHECK_DEADLOCK FALSE
