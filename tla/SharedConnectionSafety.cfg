\* Callers, heartbeats and answers in every order, over a peer that answers,
\* drops a request or hangs up.
SPECIFICATION Spec
CONSTANTS
    Clients = {c1, c2}
    Closers = {}
    MaxTid = 3
    MaxPendingWrites = 2
    MaxPendingReads = 1
    MaxPoolingReads = 1
    MaxHeartbeats = 1
    HeartbeatOn = TRUE
    Peer = "lossy"
SYMMETRY Symmetry
INVARIANTS OwnAnswer PooledUnclaimed ReaderAwakeForAnswers
PROPERTIES SentWhilePending ImplementsCalls
\* An open connection with nothing to do waits for ever.
CHECK_DEADLOCK FALSE
