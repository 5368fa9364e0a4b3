\* Three writers of one process: order, exclusion and progress in the line.
SPECIFICATION FairSpec
CONSTANTS
    p1 = p1
    p2 = p2
    w1 = w1
    w2 = w2
    w3 = w3
    ws = ws
    global = global
    nobody = nobody
    Proc = {p1}
    Writer = {w1, w2, w3}
    procOf <- MCThreeInOne
    workspaceOf <- MCOneWorkspace
    GlobalLock = global
    Key <- MCKeys
    NoOne = nobody
INVARIANTS
    OverlappingWritersExclude
    NoOvertaking
PROPERTY
    EveryWriterSettles
