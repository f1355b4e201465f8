SPECIFICATION Spec
CONSTANTS
    a = a
    b = b
    h1 = h1
    h2 = h2
    h3 = h3
    NoId = NoId
    NoTask = NoTask
    Id = {a, b}
    Handler = {h1, h2, h3}
    InLoop = {h3}
    MaxTask = 2
    MaxConcurrency = 1
    PoolSize = 2
    Retries <- RetriesOfA
CHECK_DEADLOCK FALSE
INVARIANT TypeOK
INVARIANT Tracked
INVARIANT ConcurrencyBounded
INVARIANT NothingLeftBehind
PROPERTY AcceptedRuns
PROPERTY IdIsGivenBack
PROPERTY ShutdownReturns
