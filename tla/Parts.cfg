\* The parts one at a time, in behaviours that exhaust their bounds.
SPECIFICATION Spec
CONSTANTS
    Elements = {w1, w2}
    MaxSize = 3
    Keys = {k1, k2, k3, k4}
    Values = {v1, v2}
    Capacity = 3
    Hash <- MCHash
    BucketCapacity = 2
    Rates <- MCRates
    Epoch = 100
    MaxElapsed = 8
    MaxBack = 1
    MaxGranted = 4
    ChunkSize = 4
    MaxHeaderCount = 4
    Messages <- MCMessages
    Znodes = {z1, z2}
    MaxSessions = 2
    MaxLosses = 2
    Settings = {s1, s2}
    MaxVersion = 2
    MaxCuts = 1
    Callers = {c1, c2, c3}
    Remotes = {r1}
    MaxInt = 3
    MaxWire = 2
INVARIANTS
    NodesPartitioned
    RingMatchesMap
    GrantedWithinRate
    RefusedWhenSpent
    MessageUnderstood
    AnnouncedWhenConnected
    VersionCovers
    VersionSettles
    NothingLeftOver
PROPERTIES
    ImplementsStack
    ImplementsCache
    ReadReturns
    DiscoveryFollows
    ConnectionReturns
\* A read ends, and a server whose sessions are used up has nothing to do.
CHECK_DEADLOCK FALSE
