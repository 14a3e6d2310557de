\* A peer that neither answers nor hangs up is found out by its heartbeats.
SPECIFICATION FairSpec
CONSTANTS
    Clients = {c1, c2}
    Closers = {}
    MaxTid = 4
    MaxPendingWrites = 2
    MaxPendingReads = 1
    MaxPoolingReads = 1
    MaxHeartbeats = 2
    HeartbeatOn = TRUE
    Peer = "silent"
PROPERTIES DeadPeerClosed
CHECK_DEADLOCK FALSE
