\* Nobody is left waiting: a peer that answers or hangs up, room for every
\* early answer.  Heartbeats are off: their timer would
\* hide a wake-up that write() forgets.
SPECIFICATION FairSpec
CONSTANTS
    Clients = {c1, c2}
    Closers = {k1}
    MaxTid = 2
    MaxPendingWrites = 2
    MaxPendingReads = 1
    MaxPoolingReads = 2
    MaxHeartbeats = 1
    HeartbeatOn = FALSE
    Peer = "answering"
INVARIANTS TypeOK NoStranded
PROPERTIES CallsComplete ThreadsExit HeldFutureFinal
\* An open connection with nothing to do waits for ever.
CHECK_DEADLOCK FALSE
