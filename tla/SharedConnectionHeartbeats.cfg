\* Too many lost heartbeat answers end a connection; were those heartbeats sent?
SPECIFICATION Spec
CONSTANTS
    Clients = {c1}
    Closers = {}
    MaxTid = 2
    MaxPendingWrites = 1
    MaxPendingReads = 1
    MaxPoolingReads = 1
    MaxHeartbeats = 1
    HeartbeatOn = TRUE
    Peer = "lossy"
INVARIANT LostHeartbeatsWereSent
CHECK_DEADLOCK FALSE
