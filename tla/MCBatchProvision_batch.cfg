SPECIFICATION Spec
CONSTANTS
    j1 = j1
    j2 = j2
    u1 = u1
    u2 = u2
    Nothing = Nothing
    Job = {j1, j2}
    Worker = {1, 2}
    Members <- MembersOfJob
    User = {u1, u2}
    Owner <- OwnerOfTask
    Vmid = {1, 2}
    Ip = {1, 2}
    Doomed = {j1}
    Departing = {u1, u2}
    Perishing = {2}
    MaxFault = 1
CHECK_DEADLOCK FALSE
INVARIANT TypeOK
INVARIANT OneQueue
INVARIANT CountsAreRight
INVARIANT NoOrphan
INVARIANT AddressKept
INVARIANT NamesOwnMachine
PROPERTY ServedOnce
PROPERTY JobEnds
