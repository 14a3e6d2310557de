SPECIFICATION Spec
CONSTANTS
    Callers = {c1, c2}
    Impatient = {c2}
    Keys = {k1, k2}
    PoolClasses = {"dedicated", "shared"}
    PoolSize = 1
    PerKey <- MCPerKey
    MaxConnections = 6
    MaxContainers = 3
    MaxCalls <- MCMaxCalls
INVARIANTS
    KeysKeepTheirConnections
CHECK_DEADLOCK FALSE
