SPECIFICATION FairSpec

CONSTANTS
    r1 = r1
    r2 = r2
    v1 = v1
    a1 = a1
    w1 = w1
    l1 = l1
    Nothing = Nothing
    Row = {r1, r2}
    Vmid = {v1}
    VmOf <- SameMachine
    Api = {a1}
    Worker = {w1}
    Loop = {l1}
    MaxRetries = 1
    Fault = {"refuse", "database", "reload", "crash"}
    MaxFault = 2

CHECK_DEADLOCK FALSE
INVARIANT TypeOK
INVARIANT CompletedIsGone
PROPERTY PendingIsTaken
