SPECIFICATION FairSpec
CONSTANTS
    Callers = {c1, c2}
    Impatient = {c2}
    Keys = {k1, k2}
    PoolClasses = {"dedicated", "shared"}
    PoolSize = 1
    PerKey <- MCPerKey
    MaxConnections = 6
    MaxContainers = 3
    MaxCalls <- MCMaxCalls
INVARIANTS
    TypeOK
    ExclusiveUse
    SlotsAccounted
PROPERTIES
    RemovalKeepsTurn
    WaiterServed
CHECK_DEADLOCK FALSE
