SPECIFICATION FairSpec
CONSTANTS
    Threads = {t1, t2}
    MaxConnections = 2
    Concurrency = 2
    MaxPeers = 3
    MaxRequests = 3
    Plans <- MCPlans
INVARIANTS
    TypeOK
    ConnectionsCounted
    ConcurrencyMatches
    WaitingIsNotified
    QuietWhenClosed
    StartedMeansServing
PROPERTIES
    PeersServed
    SilentPeersLeave
    RequestsSettled
    CloseCompletes
CHECK_DEADLOCK FALSE
