SPECIFICATION Spec
CONSTANTS
    r1 = r1
    n1 = n1
    n2 = n2
    p1 = p1
    p2 = p2
    w1 = w1
    w3 = w3
    Nobody = Nobody
    NoJob = NoJob
    NoNode = NoNode
    NoRow = NoRow
    Request = {r1}
    Node = {n1, n2}
    Home <- HomeN1
    Loop = {p1, p2}
    Worker = {w1, w3}
    PoolOf <- Pools
    MaxJobs = 2
    Pinned = {}
    Barred = {}
    RetryLimit = 1
    Budget = 1
    MaxEpoch = 2
    MaxTries = 3
    Fault = {"query", "move", "slow", "crash", "loss", "admin", "end"}
    MaxFault = 1
CHECK_DEADLOCK FALSE
PROPERTY ComesToRest
INVARIANT TypeOK
INVARIANT OneWorkerPerJob
INVARIANT TriesBounded
PROPERTY OutcomeIsFinal
