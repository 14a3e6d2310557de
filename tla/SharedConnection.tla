-------------------------- MODULE SharedConnection --------------------------
(***************************************************************************)
(* SharedBlockingConnection of summerrpc/connection.py: one socket shared  *)
(* by many callers, with a thread that writes, a thread that reads and any *)
(* number of threads that close it, and the callers that go through        *)
(* RpcInvoker.invoke (invoker.py) on top of it.                            *)
(*                                                                         *)
(* A region under _write_condition, _read_condition or _heartbeat_lock is  *)
(* one step: what runs outside the region's lock between its test of       *)
(* _closing and its end touches nothing the region reads.  The unlocked    *)
(* reads and writes of the two flags in close() are steps of their own.    *)
(*                                                                         *)
(* A definition whose name has a suffix, such as Aborting_ClosedOnly, is a *)
(* slip of the definition it precedes, used to see that the properties     *)
(* notice it.                                                              *)
(***************************************************************************)
EXTENDS Naturals, FiniteSets, Sequences, LRUCache

CONSTANTS
    Clients,          \* callers; each makes one call
    Closers,          \* threads outside the connection that call close()
    MaxTid,           \* bound: transaction ids handed out in a behaviour
    MaxPendingWrites, \* max_pending_writes
    MaxPendingReads,  \* max_pending_reads
    MaxPoolingReads,  \* max_pooling_reads
    MaxHeartbeats,    \* size of _heartbeats, 4 in the code
    HeartbeatOn,      \* heartbeat_interval and heartbeat_func are given
    Peer              \* what the far end does, see PeerModes

\* "answering": replies to every request until it closes the connection;
\* "lossy": may also drop a request; "silent": neither replies nor closes.
PeerModes == {"answering", "lossy", "silent"}

Tids       == 1..MaxTid
Heartbeat  == "heartbeat"
Body       == Clients \cup {Heartbeat}
Frame      == [tid : Tids, body : Body]
NoFrame    == [tid |-> 0, body |-> Heartbeat]
Failures   == {"abort", "kicked"}
Resolved   == Failures \cup Body
Threads    == {"writer", "reader"} \cup Closers
ClosePcs   == {"c_enter", "c_enter2", "c_lock", "c_test", "c_sock", "c_write",
               "c_read", "c_closed", "c_closing"}
WriterPcs  == {"w_top", "w_wait", "w_woken", "w_wake", "w_missing", "w_send", "w_sent"}
ReaderPcs  == {"r_top", "r_wait", "r_recv", "r_dispatch", "r_deliver"}
CallStates == {"idle", "writing", "sent", "reading", "answered", "failed"}

ASSUME ConnectionAssumption ==
    /\ Clients \cap ({Heartbeat, "none", "pending"} \cup Failures) = {}
    /\ Closers \cap {"writer", "reader"} = {}
    /\ MaxTid \in Nat /\ MaxPendingWrites \in Nat \ {0}
    /\ MaxPendingReads \in Nat \ {0} /\ MaxPoolingReads \in Nat \ {0}
    /\ MaxHeartbeats \in Nat \ {0}
    /\ HeartbeatOn \in BOOLEAN /\ Peer \in PeerModes

VARIABLES
    idgen,         \* _id_generator: the last id it returned
    pendingWrites, \* _pending_writes: ids, the one popped next first
    buff,          \* the body queued under an id
    wfut,          \* the future write() returned for an id
    pendingReads,  \* _pending_reads: an LRUCache of ids
    poolingReads,  \* _pooling_reads: an LRUCache of ids
    pooled,        \* the answers of the ids in poolingReads
    rfut,          \* the future read() returned for an id
    heartbeats,    \* _heartbeats: ids of heartbeats without an answer
    closing,       \* _closing
    closed,        \* _closed
    sockOpen,      \* the socket is not closed on this side
    pc,            \* where each thread of Threads is
    wcur,          \* the id the writer popped, 0 if none
    rbuf,          \* the frame the reader received
    call,          \* where each caller's invoke() is
    tid,           \* the id of each caller's call
    requests,      \* frames the peer has and did not answer yet
    responses,     \* frames on their way back
    peerOpen       \* the peer keeps the connection open

writeVars == <<idgen, pendingWrites, buff, wfut>>
readVars  == <<pendingReads, poolingReads, pooled, rfut>>
flagVars  == <<closing, closed, sockOpen>>
callVars  == <<call, tid>>
netVars   == <<requests, responses, peerOpen>>
vars == <<writeVars, readVars, heartbeats, flagVars, pc, wcur, rbuf, callVars,
          netVars>>

Init ==
    /\ idgen = 0
    /\ pendingWrites = <<>>
    /\ buff = [t \in Tids |-> Heartbeat]
    /\ wfut = [t \in Tids |-> "none"]
    /\ pendingReads = <<>>
    /\ poolingReads = <<>>
    /\ pooled = [t \in Tids |-> "none"]
    /\ rfut = [t \in Tids |-> "none"]
    /\ heartbeats = {}
    /\ closing = FALSE
    /\ closed = FALSE
    /\ sockOpen = TRUE
    /\ pc = [th \in Threads |->
               CASE th = "writer" -> "w_top"
                 [] th = "reader" -> "r_top"
                 [] OTHER         -> "idle"]
    /\ wcur = 0
    /\ rbuf = NoFrame
    /\ call = [c \in Clients |-> "idle"]
    /\ tid = [c \in Clients |-> 0]
    /\ requests = {}
    /\ responses = <<>>
    /\ peerOpen = TRUE

Aborting_ClosedOnly == closed
Aborting == closing \/ closed

\* notify_all on a condition: the thread waiting on it goes on.
Notify(th, from, to) ==
    pc' = [pc EXCEPT ![th] = IF @ = from THEN to ELSE @]

-----------------------------------------------------------------------------
(* The callers.                                                            *)

\* _update_pending_writes for an id that has just been generated.
Queue(t, body) ==
    /\ pendingWrites' = Cons(t, pendingWrites)
    /\ buff' = [buff EXCEPT ![t] = body]
    /\ wfut' = [wfut EXCEPT ![t] = "pending"]

\* write(): refused while the connection is closing or closed.  is_full never
\* answers True (see StaticList), so a full list is only noticed by
\* insert_left, after an id has been generated.
Write(c) ==
    /\ call[c] = "idle"
    /\ UNCHANGED <<readVars, heartbeats, flagVars, wcur, rbuf, netVars>>
    /\ \/ /\ Aborting
          /\ call' = [call EXCEPT ![c] = "failed"]
          /\ UNCHANGED <<writeVars, pc, tid>>
       \/ /\ ~Aborting
          /\ idgen < MaxTid
          /\ idgen' = idgen + 1
          /\ \/ /\ Len(pendingWrites) = MaxPendingWrites
                /\ call' = [call EXCEPT ![c] = "failed"]
                /\ UNCHANGED <<pendingWrites, buff, wfut, pc, tid>>
             \/ /\ Len(pendingWrites) < MaxPendingWrites
                /\ Queue(idgen + 1, c)
                /\ call' = [call EXCEPT ![c] = "writing"]
                /\ tid' = [tid EXCEPT ![c] = idgen + 1]
                /\ Notify("writer", "w_wait", "w_woken")

\* write_future.result(): the write went through or it failed.
AwaitWrite(c) ==
    /\ call[c] = "writing"
    /\ wfut[tid[c]] # "pending"
    /\ call' = [call EXCEPT ![c] = IF wfut[tid[c]] = "ok" THEN "sent" ELSE "failed"]
    /\ UNCHANGED <<writeVars, readVars, heartbeats, flagVars, pc, wcur, rbuf, tid,
                   netVars>>

\* read(): takes an answer that came early, or leaves a future for the reader;
\* a full cache of pending reads gives up its oldest one.
ReadEarlyAnswer(t) ==
    /\ Hit(poolingReads, t)
    /\ poolingReads' = Del(poolingReads, t)
    /\ pooled' = [pooled EXCEPT ![t] = "none"]
    /\ rfut' = [rfut EXCEPT ![t] = pooled[t]]
    /\ UNCHANGED <<pendingReads, pc>>

ReadPending_NoNotify(t) ==
    /\ ~Hit(poolingReads, t)
    /\ rfut' = [rfut EXCEPT ![t] = "pending"]
    /\ pendingReads' = Set(pendingReads, t, MaxPendingReads)
    /\ UNCHANGED <<poolingReads, pooled, pc>>

ReadPending_NotPooled(t) ==
    /\ rfut' = [rfut EXCEPT ![t] = "pending"]
    /\ pendingReads' = Set(pendingReads, t, MaxPendingReads)
    /\ UNCHANGED <<poolingReads, pooled>>
    /\ Notify("reader", "r_wait", "r_top")

ReadPending_Unbounded(t) ==
    /\ ~Hit(poolingReads, t)
    /\ rfut' = [rfut EXCEPT ![t] = "pending"]
    /\ pendingReads' = Cons(t, pendingReads)
    /\ UNCHANGED <<poolingReads, pooled>>
    /\ Notify("reader", "r_wait", "r_top")

ReadPending(t) ==
    /\ ~Hit(poolingReads, t)
    /\ rfut' = [x \in Tids |->
                  IF x = t THEN "pending"
                  ELSE IF KicksOut(pendingReads, MaxPendingReads)
                          /\ x = Oldest(pendingReads)
                  THEN "kicked" ELSE rfut[x]]
    /\ pendingReads' = Set(pendingReads, t, MaxPendingReads)
    /\ UNCHANGED <<poolingReads, pooled>>
    /\ Notify("reader", "r_wait", "r_top")

Read(c) ==
    /\ call[c] = "sent"
    /\ UNCHANGED <<writeVars, heartbeats, flagVars, wcur, rbuf, tid, netVars>>
    /\ \/ /\ Aborting
          /\ call' = [call EXCEPT ![c] = "failed"]
          /\ UNCHANGED <<readVars, pc>>
       \/ /\ ~Aborting
          /\ call' = [call EXCEPT ![c] = "reading"]
          /\ ReadEarlyAnswer(tid[c]) \/ ReadPending(tid[c])

\* read_future.result(): an answer, or the exception the future was given.
AwaitRead(c) ==
    /\ call[c] = "reading"
    /\ rfut[tid[c]] # "pending"
    /\ call' = [call EXCEPT ![c] = IF rfut[tid[c]] \in Failures THEN "failed"
                                   ELSE "answered"]
    /\ UNCHANGED <<writeVars, readVars, heartbeats, flagVars, pc, wcur, rbuf, tid,
                   netVars>>

\* result(timeout) gave up: the future stays where it is.
GiveUp(c) ==
    /\ \/ call[c] = "writing" /\ wfut[tid[c]] = "pending"
       \/ call[c] = "reading" /\ rfut[tid[c]] = "pending"
    /\ call' = [call EXCEPT ![c] = "failed"]
    /\ UNCHANGED <<writeVars, readVars, heartbeats, flagVars, pc, wcur, rbuf, tid,
                   netVars>>

-----------------------------------------------------------------------------
(* The writing thread, _async_write.                                       *)

\* _precheck_before_writing up to the wait: leave, wait, or pop a write.
WriterTop ==
    /\ pc["writer"] = "w_top"
    /\ UNCHANGED <<idgen, buff, wfut, readVars, heartbeats, flagVars, rbuf, callVars,
                   netVars>>
    /\ \/ /\ Aborting
          /\ pc' = [pc EXCEPT !["writer"] = "done"]
          /\ UNCHANGED <<pendingWrites, wcur>>
       \/ /\ ~Aborting /\ pendingWrites = <<>>
          /\ pc' = [pc EXCEPT !["writer"] = "w_wait"]
          /\ UNCHANGED <<pendingWrites, wcur>>
       \/ /\ ~Aborting /\ pendingWrites # <<>>
          /\ wcur' = Head(pendingWrites)
          /\ pendingWrites' = Tail(pendingWrites)
          /\ pc' = [pc EXCEPT !["writer"] = "w_send"]

\* wait(interval / 2) comes back by itself.
WriterTimer ==
    /\ HeartbeatOn
    /\ pc["writer"] = "w_wait"
    /\ pc' = [pc EXCEPT !["writer"] = "w_woken"]
    /\ UNCHANGED <<writeVars, readVars, heartbeats, flagVars, wcur, rbuf, callVars,
                   netVars>>

HeartbeatDue == HeartbeatOn /\ ~Aborting /\ pendingWrites = <<>>
TooManyMissing == Cardinality(heartbeats) >= MaxHeartbeats

WriterWoken_Unregistered ==
    /\ pc["writer"] = "w_woken"
    /\ IF HeartbeatDue /\ ~TooManyMissing /\ idgen < MaxTid
       THEN /\ idgen' = idgen + 1
            /\ Queue(idgen + 1, Heartbeat)
            /\ pc' = [pc EXCEPT !["writer"] = "w_wake"]
       ELSE /\ pc' = [pc EXCEPT !["writer"] = "w_top"]
            /\ UNCHANGED writeVars
    /\ UNCHANGED <<readVars, heartbeats, flagVars, wcur, rbuf, callVars, netVars>>

\* After the wait: nothing, one more heartbeat, or one too many unanswered.
WriterWoken ==
    /\ pc["writer"] = "w_woken"
    /\ UNCHANGED <<readVars, flagVars, wcur, rbuf, callVars, netVars>>
    /\ \/ /\ ~HeartbeatDue \/ (idgen = MaxTid /\ ~TooManyMissing)  \* bound
          /\ pc' = [pc EXCEPT !["writer"] = "w_top"]
          /\ UNCHANGED <<writeVars, heartbeats>>
       \/ /\ HeartbeatDue /\ TooManyMissing
          /\ pc' = [pc EXCEPT !["writer"] = "w_missing"]
          /\ UNCHANGED <<writeVars, heartbeats>>
       \/ /\ HeartbeatDue /\ ~TooManyMissing
          /\ idgen < MaxTid
          /\ idgen' = idgen + 1
          /\ Queue(idgen + 1, Heartbeat)
          /\ heartbeats' = heartbeats \cup {idgen + 1}
          /\ pc' = [pc EXCEPT !["writer"] = "w_wake"]

WriterWakesReader_NoNotify ==
    /\ pc["writer"] = "w_wake"
    /\ pc' = [pc EXCEPT !["writer"] = "w_top"]
    /\ UNCHANGED <<writeVars, readVars, heartbeats, flagVars, wcur, rbuf, callVars,
                   netVars>>

\* After a heartbeat was queued the reader must not sleep any longer.
WriterWakesReader ==
    /\ pc["writer"] = "w_wake"
    /\ pc' = [pc EXCEPT !["writer"] = "w_top",
                        !["reader"] = IF @ = "r_wait" THEN "r_top" ELSE @]
    /\ UNCHANGED <<writeVars, readVars, heartbeats, flagVars, wcur, rbuf, callVars,
                   netVars>>

WriterMissing ==
    /\ pc["writer"] = "w_missing"
    /\ pc' = [pc EXCEPT !["writer"] = "c_enter"]
    /\ UNCHANGED <<writeVars, readVars, heartbeats, flagVars, wcur, rbuf, callVars,
                   netVars>>

Expire_StillSent ==
    /\ pc["writer"] = "w_send"
    /\ wfut' = [wfut EXCEPT ![wcur] = "timeout"]
    /\ UNCHANGED <<idgen, pendingWrites, buff, readVars, heartbeats, flagVars, pc, wcur,
                   rbuf, callVars, netVars>>

\* The write in hand waited longer than its timeout: it is not sent.
Expire ==
    /\ pc["writer"] = "w_send"
    /\ wfut' = [wfut EXCEPT ![wcur] = "timeout"]
    /\ wcur' = 0
    /\ pc' = [pc EXCEPT !["writer"] = "w_top"]
    /\ UNCHANGED <<idgen, pendingWrites, buff, readVars, heartbeats, flagVars, rbuf,
                   callVars, netVars>>

\* transport.write returned: the frame left, to a peer that is there or not.
Transmit ==
    /\ pc["writer"] = "w_send"
    /\ sockOpen
    /\ requests' = IF peerOpen THEN requests \cup {[tid |-> wcur, body |-> buff[wcur]]}
                   ELSE requests
    /\ pc' = [pc EXCEPT !["writer"] = "w_sent"]
    /\ UNCHANGED <<writeVars, readVars, heartbeats, flagVars, wcur, rbuf, callVars,
                   responses, peerOpen>>

WriteResult ==
    /\ pc["writer"] = "w_sent"
    /\ wfut' = [wfut EXCEPT ![wcur] = "ok"]
    /\ wcur' = 0
    /\ pc' = [pc EXCEPT !["writer"] = "w_top"]
    /\ UNCHANGED <<idgen, pendingWrites, buff, readVars, heartbeats, flagVars, rbuf,
                   callVars, netVars>>

\* socket.timeout or socket.error: the future fails, the connection closes.
SendFails ==
    /\ pc["writer"] = "w_send"
    /\ \E failure \in {"timeout", "abort"} :
          /\ failure = "timeout" => sockOpen
          /\ failure = "abort" => ~(sockOpen /\ peerOpen)
          /\ wfut' = [wfut EXCEPT ![wcur] = failure]
    /\ wcur' = 0
    /\ pc' = [pc EXCEPT !["writer"] = "c_enter"]
    /\ UNCHANGED <<idgen, pendingWrites, buff, readVars, heartbeats, flagVars, rbuf,
                   callVars, netVars>>

WriterStep ==
    \/ WriterTop \/ WriterTimer \/ WriterWoken \/ WriterWakesReader \/ WriterMissing
    \/ Expire \/ Transmit \/ WriteResult \/ SendFails

-----------------------------------------------------------------------------
(* The reading thread, _async_read.                                        *)

ReaderTop ==
    /\ pc["reader"] = "r_top"
    /\ pc' = [pc EXCEPT !["reader"] =
                IF Aborting THEN "done"
                ELSE IF pendingReads = <<>> /\ heartbeats = {} THEN "r_wait"
                ELSE "r_recv"]
    /\ UNCHANGED <<writeVars, readVars, heartbeats, flagVars, wcur, rbuf, callVars,
                   netVars>>

\* transport.read returned a frame.  (A recv() that completes although close()
\* has closed the socket meanwhile ends as ReceiveFails does: closing is set, so
\* Dispatch drops the frame and the thread exits.)
Receive ==
    /\ pc["reader"] = "r_recv"
    /\ sockOpen /\ responses # <<>>
    /\ rbuf' = Head(responses)
    /\ responses' = Tail(responses)
    /\ pc' = [pc EXCEPT !["reader"] = "r_dispatch"]
    /\ UNCHANGED <<writeVars, readVars, heartbeats, flagVars, wcur, callVars, requests,
                   peerOpen>>

\* End of stream, reset, or EBADF on a socket that close() closed.
ReceiveFails ==
    /\ pc["reader"] = "r_recv"
    /\ ~(sockOpen /\ peerOpen)
    /\ pc' = [pc EXCEPT !["reader"] = "c_enter"]
    /\ UNCHANGED <<writeVars, readVars, heartbeats, flagVars, wcur, rbuf, callVars,
                   netVars>>

\* Under _heartbeat_lock: is it the answer to a heartbeat?  Its future is the
\* one the writer also resolves.
Dispatch ==
    /\ pc["reader"] = "r_dispatch"
    /\ UNCHANGED <<idgen, pendingWrites, buff, readVars, flagVars, wcur, callVars,
                   netVars>>
    /\ \/ /\ Aborting
          /\ pc' = [pc EXCEPT !["reader"] = "done"]
          /\ rbuf' = NoFrame
          /\ UNCHANGED <<heartbeats, wfut>>
       \/ /\ ~Aborting /\ rbuf.tid \in heartbeats
          /\ wfut' = [wfut EXCEPT ![rbuf.tid] = "ok"]
          /\ heartbeats' = heartbeats \ {rbuf.tid}
          /\ pc' = [pc EXCEPT !["reader"] = "r_top"]
          /\ rbuf' = NoFrame
       \/ /\ ~Aborting /\ rbuf.tid \notin heartbeats
          /\ pc' = [pc EXCEPT !["reader"] = "r_deliver"]
          /\ UNCHANGED <<heartbeats, wfut, rbuf>>

Hand_InOrder(t, body) ==
    /\ pendingReads # <<>>
    /\ pendingReads' = Front(pendingReads)
    /\ rfut' = [rfut EXCEPT ![Oldest(pendingReads)] = body]
    /\ UNCHANGED <<poolingReads, pooled>>

Hand_NotRemoved(t, body) ==
    /\ Hit(pendingReads, t)
    /\ rfut' = [rfut EXCEPT ![t] = body]
    /\ UNCHANGED <<pendingReads, poolingReads, pooled>>

\* Somebody waits for this answer.
Hand(t, body) ==
    /\ Hit(pendingReads, t)
    /\ pendingReads' = Del(pendingReads, t)
    /\ rfut' = [rfut EXCEPT ![t] = body]
    /\ UNCHANGED <<poolingReads, pooled>>

\* Nobody does: it is pooled, in place of the oldest pooled one when full.
Pool(t, body) ==
    /\ ~Hit(pendingReads, t)
    /\ poolingReads' = Set(poolingReads, t, MaxPoolingReads)
    /\ pooled' = [x \in Tids |->
                  IF x = t THEN body
                  ELSE IF ~Hit(poolingReads, t) /\ KicksOut(poolingReads, MaxPoolingReads)
                          /\ x = Oldest(poolingReads)
                  THEN "none" ELSE pooled[x]]
    /\ UNCHANGED <<pendingReads, rfut>>

\* Under _read_condition.
Deliver ==
    /\ pc["reader"] = "r_deliver"
    /\ rbuf' = NoFrame
    /\ UNCHANGED <<writeVars, heartbeats, flagVars, wcur, callVars, netVars>>
    /\ \/ /\ Aborting
          /\ pc' = [pc EXCEPT !["reader"] = "done"]
          /\ UNCHANGED readVars
       \/ /\ ~Aborting
          /\ pc' = [pc EXCEPT !["reader"] = "r_top"]
          /\ Hand(rbuf.tid, rbuf.body) \/ Pool(rbuf.tid, rbuf.body)

ReaderStep == ReaderTop \/ Receive \/ ReceiveFails \/ Dispatch \/ Deliver

-----------------------------------------------------------------------------
(* close(), by either thread of the connection or from outside.            *)

Goto(th, from, to) ==
    /\ pc[th] = from
    /\ pc' = [pc EXCEPT ![th] = to]

StartClose(th) ==
    /\ Goto(th, "idle", "c_enter")
    /\ UNCHANGED <<writeVars, readVars, heartbeats, flagVars, wcur, rbuf, callVars,
                   netVars>>

\* "if self._closed or self._closing", twice: each flag is read on its own,
\* and the second time under _close_lock.
CloseTest(th) ==
    /\ \/ Goto(th, "c_enter",  IF closed THEN "done" ELSE "c_enter2")
       \/ Goto(th, "c_enter2", IF closing THEN "done" ELSE "c_lock")
       \/ /\ \A o \in Threads : pc[o] # "c_test"        \* _close_lock is free
          /\ Goto(th, "c_lock", IF closed THEN "done" ELSE "c_test")
    /\ UNCHANGED <<writeVars, readVars, heartbeats, flagVars, wcur, rbuf, callVars,
                   netVars>>

CloseClaim(th) ==
    /\ Goto(th, "c_test", IF closing THEN "done" ELSE "c_sock")
    /\ closing' = TRUE
    /\ UNCHANGED <<writeVars, readVars, heartbeats, closed, sockOpen, wcur, rbuf,
                   callVars, netVars>>

\* What is still on its way to or from the peer is lost to this side.
CloseSocket(th) ==
    /\ Goto(th, "c_sock", "c_write")
    /\ sockOpen' = FALSE
    /\ requests' = {}
    /\ responses' = <<>>
    /\ UNCHANGED <<writeVars, readVars, heartbeats, closing, closed, wcur, rbuf,
                   callVars, peerOpen>>

CloseWrite_NoNotify(th) ==
    /\ wfut' = [t \in Tids |-> IF t \in ToSet(pendingWrites) THEN "abort" ELSE wfut[t]]
    /\ pendingWrites' = <<>>
    /\ Goto(th, "c_write", "c_read")
    /\ UNCHANGED <<idgen, buff, readVars, heartbeats, flagVars, wcur, rbuf, callVars,
                   netVars>>

\* _close_write: every queued write fails, the writer wakes up.
CloseWrite(th) ==
    /\ pc[th] = "c_write"
    /\ wfut' = [t \in Tids |-> IF t \in ToSet(pendingWrites) THEN "abort" ELSE wfut[t]]
    /\ pendingWrites' = <<>>
    /\ pc' = [x \in Threads |->
                IF x = th THEN "c_read"
                ELSE IF x = "writer" /\ pc[x] = "w_wait" THEN "w_woken" ELSE pc[x]]
    /\ UNCHANGED <<idgen, buff, readVars, heartbeats, flagVars, wcur, rbuf, callVars,
                   netVars>>

\* _close_read: every pending read fails and stays listed, pooled answers are
\* dropped, the reader wakes up.
CloseRead(th) ==
    /\ pc[th] = "c_read"
    /\ rfut' = [t \in Tids |-> IF t \in ToSet(pendingReads) THEN "abort" ELSE rfut[t]]
    /\ poolingReads' = <<>>
    /\ pooled' = [t \in Tids |-> "none"]
    /\ pc' = [x \in Threads |->
                IF x = th THEN "c_closed"
                ELSE IF x = "reader" /\ pc[x] = "r_wait" THEN "r_top" ELSE pc[x]]
    /\ UNCHANGED <<writeVars, pendingReads, heartbeats, flagVars, wcur, rbuf, callVars,
                   netVars>>

CloseFlags(th) ==
    /\ \/ Goto(th, "c_closed", "c_closing") /\ closed' = TRUE /\ UNCHANGED closing
       \/ Goto(th, "c_closing", "done") /\ closing' = FALSE /\ UNCHANGED closed
    /\ UNCHANGED <<writeVars, readVars, heartbeats, sockOpen, wcur, rbuf, callVars,
                   netVars>>

CloseStep(th) ==
    \/ CloseTest(th) \/ CloseClaim(th) \/ CloseSocket(th) \/ CloseWrite(th)
    \/ CloseRead(th) \/ CloseFlags(th)

-----------------------------------------------------------------------------
(* The far end of the socket.                                              *)

PeerReply(m) ==
    /\ Peer # "silent" /\ peerOpen
    /\ m \in requests
    /\ requests' = requests \ {m}
    /\ responses' = Append(responses, m)
    /\ UNCHANGED <<writeVars, readVars, heartbeats, flagVars, pc, wcur, rbuf, callVars,
                   peerOpen>>

PeerDrop(m) ==
    /\ Peer = "lossy" /\ peerOpen
    /\ m \in requests
    /\ requests' = requests \ {m}
    /\ UNCHANGED <<writeVars, readVars, heartbeats, flagVars, pc, wcur, rbuf, callVars,
                   responses, peerOpen>>

PeerClose ==
    /\ Peer # "silent" /\ peerOpen /\ sockOpen
    /\ peerOpen' = FALSE
    /\ requests' = {}
    /\ UNCHANGED <<writeVars, readVars, heartbeats, flagVars, pc, wcur, rbuf, callVars,
                   responses>>

-----------------------------------------------------------------------------
(* The specification, and the fairness of its threads.                     *)

CallStep(c) == Write(c) \/ AwaitWrite(c) \/ Read(c) \/ AwaitRead(c) \/ GiveUp(c)
PeerStep == PeerClose \/ \E m \in requests : PeerReply(m) \/ PeerDrop(m)

Next ==
    \/ \E c \in Clients : CallStep(c)
    \/ WriterStep
    \/ ReaderStep
    \/ \E th \in Closers : StartClose(th)
    \/ \E th \in Threads : CloseStep(th)
    \/ PeerStep

Spec == Init /\ [][Next]_vars

\* Every thread goes on whenever it can: callers and closers once they have
\* begun, the two threads of the connection always (the timer of the writer's
\* wait included).  A peer that answers does so in the end.  Nobody has to
\* give up on a call, to start one, to start closing or to hang up.
Fairness ==
    /\ \A c \in Clients : WF_vars(AwaitWrite(c) \/ Read(c) \/ AwaitRead(c))
    /\ WF_vars(WriterStep \/ CloseStep("writer"))
    /\ WF_vars(ReaderStep \/ CloseStep("reader"))
    /\ \A th \in Closers : WF_vars(CloseStep(th))
    /\ Peer = "answering" => WF_vars(\E m \in requests : PeerReply(m))

FairSpec == Spec /\ Fairness

-----------------------------------------------------------------------------
(* What makes the connection correct.                                      *)

\* Every variable holds what its declaration says, and the three bounded
\* containers of SharedBlockingConnection.__init__ stay within their sizes.
TypeOK ==
    /\ idgen \in 0..MaxTid
    /\ pendingWrites \in Seq(Tids) /\ Len(pendingWrites) <= MaxPendingWrites
    /\ buff \in [Tids -> Body]
    /\ wfut \in [Tids -> {"none", "pending", "ok", "timeout", "abort"}]
    /\ pendingReads \in Seq(Tids) /\ Len(pendingReads) <= MaxPendingReads
    /\ poolingReads \in Seq(Tids) /\ Len(poolingReads) <= MaxPoolingReads
    /\ pooled \in [Tids -> Body \cup {"none"}]
    /\ rfut \in [Tids -> {"none", "pending"} \cup Resolved]
    /\ heartbeats \in SUBSET Tids
    /\ closing \in BOOLEAN /\ closed \in BOOLEAN /\ sockOpen \in BOOLEAN
    /\ pc \in [Threads -> {"idle", "done"} \cup WriterPcs \cup ReaderPcs \cup ClosePcs]
    /\ wcur \in 0..MaxTid
    /\ rbuf \in Frame \cup {NoFrame}
    /\ call \in [Clients -> CallStates]
    /\ tid \in [Clients -> 0..MaxTid]
    /\ requests \in SUBSET Frame
    /\ responses \in Seq(Frame)
    /\ peerOpen \in BOOLEAN

\* A caller that invoke() gave an answer to holds the answer to its own
\* request, whatever the order in which answers come back (_async_read).
OwnAnswer == \A c \in Clients : call[c] = "answered" => rfut[tid[c]] = c

\* Once close() is through, no future is left for somebody to wait on for
\* ever, except the write the writing thread still has in its hands.
NoStranded ==
    closed => \A t \in Tids :
                /\ rfut[t] # "pending"
                /\ wfut[t] = "pending" => wcur = t /\ pc["writer"] \in {"w_send", "w_sent"}

\* An answer is pooled only while nobody waits for it: its future is not
\* pending, and it is no heartbeat's.
PooledUnclaimed ==
    \A t \in ToSet(poolingReads) :
        t \notin ToSet(pendingReads) \cup heartbeats /\ pooled[t] \in Clients
        /\ rfut[t] # "pending"

\* A heartbeat whose answer is awaited wakes the reader up: the reader never
\* sleeps while an answer is due, unless the writer is about to notify it or
\* the connection is being closed.
ReaderAwakeForAnswers ==
    pc["reader"] = "r_wait" /\ (pendingReads # <<>> \/ heartbeats # {})
        => pc["writer"] = "w_wake" \/ closing

\* A future that a caller waits on is resolved once: no later step, whatever
\* it comes from, replaces the outcome (futures allow it to be set again).
HeldFutureFinal ==
    [][\A c \in Clients :
         /\ call[c] = "writing" /\ wfut[tid[c]] # "pending"
               => wfut'[tid[c]] = wfut[tid[c]]
         /\ call[c] = "reading" /\ rfut[tid[c]] # "pending"
               => rfut'[tid[c]] = rfut[tid[c]]]_vars

\* A frame leaves only for a write that nobody was told the outcome of: one
\* that expired or was aborted is never sent, and none is sent twice.
SentWhilePending ==
    [][\A m \in requests' \ requests : wfut[m.tid] = "pending"]_vars

\* The connection implements the calls of RpcCalls.
CallPhase(c) ==
    CASE call[c] = "writing" /\ (wfut[tid[c]] = "ok" \/
                                 (wcur = tid[c] /\ pc["writer"] = "w_sent")) -> "sent"
      [] call[c] = "writing" /\ ~(wfut[tid[c]] = "ok" \/
                                 (wcur = tid[c] /\ pc["writer"] = "w_sent")) -> "queued"
      [] call[c] \in {"sent", "reading"} -> "sent"
      [] OTHER -> call[c]

Calls == INSTANCE RpcCalls WITH
    phase  <- [c \in Clients |-> CallPhase(c)],
    result <- [c \in Clients |-> IF call[c] = "answered" THEN rfut[tid[c]] ELSE "none"],
    open   <- ~(closing \/ closed)

ImplementsCalls == Calls!Spec

\* A call that was queued comes to an end: the read is answered or fails, even
\* if nobody gives up, as long as the peer answers or hangs up.
CallsComplete ==
    \A c \in Clients : call[c] = "writing" ~> call[c] \in {"answered", "failed"}

\* Once a close() is under way both threads exit; they are no daemons, so the
\* process could not end otherwise.
ThreadsExit == closing ~> (closed /\ pc["writer"] = "done" /\ pc["reader"] = "done")

\* A peer that has gone silent is noticed by its missing heartbeats.
DeadPeerClosed == <>closed

\* What the comments of _precheck_before_writing say ends a connection: too
\* many lost heartbeat ANSWERS; so each counted heartbeat must have been sent.
LostHeartbeatsWereSent ==
    pc["writer"] = "w_missing" => \A t \in heartbeats : wfut[t] = "ok"

-----------------------------------------------------------------------------
(* The inductive invariant behind the proofs of SharedConnectionProofs.    *)

Teardown == {"c_sock", "c_write", "c_read", "c_closed", "c_closing"}
InHand   == {"w_send", "w_sent"}

\* Each thread is where its own code can take it, with what it needs there.
ThreadsInPlace ==
    /\ pc["writer"] \in WriterPcs \cup ClosePcs \cup {"done"}
    /\ pc["reader"] \in ReaderPcs \cup ClosePcs \cup {"done"}
    /\ pc["writer"] \in InHand => wcur \in Tids
    /\ pc["reader"] \in {"r_dispatch", "r_deliver"} => rbuf \in Frame
    /\ \A c \in Clients : call[c] \in {"writing", "sent", "reading", "answered"}
                             => tid[c] \in Tids

\* closing is the claim of exactly one thread that is tearing down.
OneTeardown ==
    /\ \A a, b \in Threads : pc[a] \in Teardown /\ pc[b] \in Teardown => a = b
    /\ closing <=> \E a \in Threads : pc[a] \in Teardown

\* After _close_write nothing is queued, after _close_read nothing is pending.
Drained ==
    /\ closed \/ (\E th \in Threads : pc[th] \in {"c_read", "c_closed", "c_closing"})
          => pendingWrites = <<>>
    /\ closed \/ (\E th \in Threads : pc[th] \in {"c_closed", "c_closing"})
          => \A t \in Tids : rfut[t] # "pending"

\* A pending future is where somebody will find it.
PendingFound ==
    \A t \in Tids :
        /\ wfut[t] = "pending" => \/ t \in ToSet(pendingWrites)
                                  \/ wcur = t /\ pc["writer"] \in InHand
        /\ rfut[t] = "pending" => t \in ToSet(pendingReads)

IndInv == TypeOK /\ ThreadsInPlace /\ OneTeardown /\ Drained /\ PendingFound
=============================================================================
