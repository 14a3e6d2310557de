SPECIFICATION Spec
CONSTANTS
    Threads = {t1}
    MaxConnections = 2
    Concurrency = 2
    MaxPeers = 2
    MaxRequests = 2
    Plans <- MCBusyPlans
PROPERTIES
    ScanClosesIdle
CHECK_DEADLOCK FALSE
