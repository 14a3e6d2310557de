\* Does is_full answer True when the last node is taken?
SPECIFICATION Spec
CONSTANTS
    Elements = {w1, w2}
    MaxSize = 3
    Keys = {k1, k2}
    Values = {v1}
    Capacity = 2
    Hash <- MCHash
    BucketCapacity = 2
    Rates <- MCRates
    Epoch = 100
    MaxElapsed = 8
    MaxBack = 1
    MaxGranted = 4
    ChunkSize = 4
    MaxHeaderCount = 4
    Messages <- MCMessages
    Znodes = {z1}
    MaxSessions = 1
    MaxLosses = 0
    Settings = {s1}
    MaxVersion = 2
    MaxCuts = 1
    Callers = {c1, c2}
    Remotes = {r1, r2}
    MaxInt = 2
    MaxWire = 1
INVARIANT FullWhenNoRoom
CHECK_DEADLOCK FALSE
