\* Two processes on one workspace: the lease they share with each other.
SPECIFICATION FairSpec
CONSTANTS
    p1 = p1
    p2 = p2
    w1 = w1
    w2 = w2
    w3 = w3
    ws = ws
    global = global
    nobody = nobody
    Proc = {p1, p2}
    Writer = {w1, w2, w3}
    procOf <- MCProcOf
    workspaceOf <- MCWorkspaceOf
    GlobalLock = global
    Key <- MCLockKeys
    NoOne = nobody
INVARIANTS
    ProcessesExclude
    LeaseAccounting
PROPERTY
    EveryWriterSettles
