----------------------------- MODULE RpcServer -----------------------------
(***************************************************************************)
(* The server of summerrpc/rpc_server.py: RpcServer and the Runner of each *)
(* connection, with connection_information.py.                             *)
(*                                                                         *)
(* What the IOLoop runs between two yields is one step.  The threads that  *)
(* call start() and close(), and the workers of the pools, interleave with *)
(* it.  A connection is its id, the position in which it was accepted.     *)
(*                                                                         *)
(* A timestamp is kept as its age, capped at maxIdle: the code only asks   *)
(* how much of max_idle_time is left.                                      *)
(***************************************************************************)
EXTENDS Naturals, FiniteSets, Sequences, LRUCache

CONSTANTS
    Threads,         \* threads that call start() and close()
    MaxConnections,  \* max_connections
    Concurrency,     \* concurrent_request_per_connection
    MaxPeers,        \* bound: peers that connect in a behaviour
    MaxRequests,     \* bound: packets a peer sends
    Plans            \* configurations, and what the outside does: see below

Ids     == 1..MaxPeers
Numbers == 1..MaxRequests
Pools   == {"thread", "process"}
Nobody  == "nobody"

(* A packet is a request for a method, which says how it runs, or:          *)
(*   "unknown"  a request for a method that is not exported                 *)
(*   "garbage"  bytes that read() or loads() refuse, or not a Request       *)
(*   "raising"  bytes on which read() raises what _run does not catch       *)
Packets == Pools \cup {"coroutine", "unknown", "garbage", "raising"}

(* asks: the packets of each peer; calls: how often a thread calls start()  *)
(* or close(); pools: the pools whose size is given to the builder;         *)
(* maxIdle: max_idle_time.                                                  *)
ASSUME ServerAssumption ==
    /\ Nobody \notin Threads
    /\ MaxConnections \in Nat \ {0} /\ Concurrency \in Nat \ {0}
    /\ MaxPeers \in Nat /\ MaxRequests \in Nat
    /\ \A plan \in Plans :
          /\ plan.asks \in Seq(Seq(Packets)) /\ Len(plan.asks) <= MaxPeers
          /\ \A c \in DOMAIN plan.asks : Len(plan.asks[c]) <= MaxRequests
          /\ plan.calls \in [Threads -> Nat]
          /\ plan.pools \subseteq Pools /\ plan.maxIdle \in Nat \ {0}

VARIABLES
    plan,        \* the plan of this behaviour
    arrived,     \* peers that connected, accepted or in the backlog
    accepted,    \* connections accepted: the value of _id_generator
    current,     \* _current_connections
    cache,       \* the ids in _connection_lru_cache, most recent first
    stream,      \* "none", "open", "closed", or "reported": callback has run
    told,        \* stream_closed of each connection
    idle,        \* the age of its timestamp
    offered,     \* the pools its Runner was given: "none", "up" or "down"
    runner,      \* where its _run is
    concurrency, \* _current_concurrency
    sent,        \* packets its peer has sent
    taken,       \* packets its _run has read
    job,         \* how far each of its requests is
    pc,          \* where each thread is
    calls,       \* calls each thread has made
    lock,        \* who holds _start_stop_lock between steps
    starting, started, closing, closed,
    pool,        \* the attributes: "none", "up", "detached" (None), "down"
    shutting,    \* the pool a closing thread is at
    looper,      \* the thread in start()
    loop,        \* "new", "running", "ended" or "closed"
    stopAsked,   \* IOLoop.stop was called
    queued,      \* the callback change_status is queued on the loop
    announced,   \* the registry has the server's methods, and keeps them
    scanTimer    \* time until the next _close_inactive_connections

serverVars == <<current, cache, accepted>>
connVars   == <<stream, told, idle, offered, runner, concurrency, taken, job>>
flags      == <<starting, started, closing, closed>>
threadVars == <<pc, calls, lock, pool, shutting, looper>>
loopVars   == <<loop, stopAsked, queued, announced>>
lifeVars   == <<threadVars, flags, loopVars>>
peerVars   == <<plan, arrived, sent>>
serving    == <<peerVars, serverVars, connVars, scanTimer>>
vars == <<serving, lifeVars>>

Init ==
    /\ plan \in Plans
    /\ arrived = 0 /\ accepted = 0 /\ current = 0 /\ cache = <<>>
    /\ stream = [c \in Ids |-> "none"]
    /\ told = [c \in Ids |-> FALSE]
    /\ idle = [c \in Ids |-> 0]
    /\ offered = [c \in Ids |-> [k \in Pools |-> "none"]]
    /\ runner = [c \in Ids |-> "none"]
    /\ concurrency = [c \in Ids |-> 0]
    /\ sent = [c \in Ids |-> 0]
    /\ taken = [c \in Ids |-> 0]
    /\ job = [c \in Ids |-> [n \in Numbers |-> "none"]]
    /\ pc = [t \in Threads |-> "idle"]
    /\ calls = [t \in Threads |-> 0]
    /\ lock = Nobody
    /\ starting = FALSE /\ started = FALSE /\ closing = FALSE /\ closed = FALSE
    /\ pool = [k \in Pools |-> "none"]
    /\ shutting = "thread"
    /\ looper = Nobody
    /\ loop = "new" /\ stopAsked = FALSE /\ queued = FALSE /\ announced = FALSE
    /\ scanTimer = 0

maxIdle == plan.maxIdle
Running == loop = "running"
IsClosed(c) == stream[c] \in {"closed", "reported"}
InPool(c, n) == job[c][n] \in Pools

-----------------------------------------------------------------------------
(* The peers, and the time.                                                *)

PeerConnects ==
    /\ loop # "closed" /\ arrived < Len(plan.asks)
    /\ arrived' = arrived + 1
    /\ UNCHANGED <<plan, sent, serverVars, connVars, lifeVars, scanTimer>>

PeerSends(c) ==
    /\ stream[c] = "open" /\ sent[c] < Len(plan.asks[c])
    /\ sent' = [sent EXCEPT ![c] = @ + 1]
    /\ UNCHANGED <<plan, arrived, serverVars, connVars, lifeVars, scanTimer>>

PeerHangsUp(c) ==
    /\ Running /\ stream[c] = "open"
    /\ stream' = [stream EXCEPT ![c] = "closed"]
    /\ UNCHANGED <<peerVars, serverVars, told, idle, offered, runner,
                   concurrency, taken, job, lifeVars, scanTimer>>

Tick ==
    /\ Running
    /\ idle' = [c \in Ids |-> IF Hit(cache, c) /\ idle[c] < maxIdle
                              THEN idle[c] + 1 ELSE idle[c]]
    /\ scanTimer' = IF scanTimer > 0 THEN scanTimer - 1 ELSE 0
    /\ UNCHANGED <<peerVars, serverVars, stream, told, offered, runner,
                   concurrency, taken, job, lifeVars>>

-----------------------------------------------------------------------------
(* The handlers of the server.                                             *)

MayAccept_OneMore == current <= MaxConnections

MayAccept == current < MaxConnections

\* One turn of the loop of _accept_connection, with the start of the Runner,
\* whose _run gets to its first read().
Accept ==
    LET c == accepted + 1 IN
    /\ Running /\ accepted < arrived /\ MayAccept
    /\ accepted' = c
    /\ current' = current + 1
    /\ cache' = Set(cache, c, MaxConnections)
    /\ stream' = [stream EXCEPT ![c] = "open"]
    /\ idle' = [idle EXCEPT ![c] = 0]
    /\ offered' = [offered EXCEPT ![c] =
                     [k \in Pools |-> IF pool[k] = "up" THEN "up" ELSE "none"]]
    /\ runner' = [runner EXCEPT ![c] = "reading"]
    /\ UNCHANGED <<peerVars, told, concurrency, taken, job, lifeVars, scanTimer>>

Notified_Never(c) == runner[c]

\* read_condition.notify_all: the waiting _run is scheduled.
Notified(c) == IF runner[c] = "waiting" THEN "woken" ELSE runner[c]

CountOut_Forgotten == UNCHANGED current

CountOut == current' = IF current > 0 THEN current - 1 ELSE 0

\* _on_connection_close.  It raises when the cache has lost the connection.
OnClose(c) ==
    /\ Running /\ stream[c] = "closed"
    /\ stream' = [stream EXCEPT ![c] = "reported"]
    /\ CountOut
    /\ IF Hit(cache, c)
         THEN /\ told' = [told EXCEPT ![c] = TRUE]
              /\ runner' = [runner EXCEPT ![c] = Notified(c)]
              /\ cache' = Del(Touch(cache, c), c)
         ELSE UNCHANGED <<told, runner, cache>>
    /\ UNCHANGED <<peerVars, accepted, idle, offered, concurrency, taken, job,
                   lifeVars, scanTimer>>

\* The connections _close_inactive_connections gets to: from the oldest one up
\* to the first whose timestamp is recent.
Scanned ==
    {cache[i] : i \in {j \in DOMAIN cache :
                         \A k \in j..Len(cache) : idle[cache[k]] >= maxIdle}}

FirstActive == cache[Len(cache) - Cardinality(Scanned)]

\* _close_inactive_connections
Scan ==
    /\ Running /\ scanTimer = 0
    /\ stream' = [c \in Ids |-> IF c \in Scanned /\ ~IsClosed(c)
                                THEN "closed" ELSE stream[c]]
    /\ runner' = [c \in Ids |-> IF c \in Scanned THEN Notified(c) ELSE runner[c]]
    /\ scanTimer' = IF Scanned = ToSet(cache) THEN maxIdle
                    ELSE maxIdle - idle[FirstActive]
    /\ UNCHANGED <<peerVars, serverVars, told, idle, offered, concurrency,
                   taken, job, lifeVars>>

-----------------------------------------------------------------------------
(* The Runner of a connection.                                             *)

\* Where a method runs: a marked one in the process pool, if there is one.
Place(c, packet) ==
    IF packet = "process" /\ offered[c]["process"] = "none" THEN "thread" ELSE packet

\* What becomes of a packet: _run refuses it, an exception ends _run, or the
\* request runs somewhere, or its future is there at once.
Outcome(c, packet) ==
    LET place == Place(c, packet) IN
    CASE place = "garbage"   -> "refused"
      [] place = "raising"   -> "raised"
      [] place = "unknown"   -> "ready"
      [] place = "coroutine" -> "coroutine"
      [] place \in Pools     ->
           CASE offered[c][place] = "up"   -> place
             [] offered[c][place] = "none" -> "ready"
             [] offered[c][place] = "down" ->
                  IF place = "process" THEN "ready" ELSE "raised"

Top_NoLimit(c, busy) == IF told[c] \/ IsClosed(c) THEN "done" ELSE "reading"

\* The top of the loop of _run, with that many requests being served.
Top(c, busy) ==
    IF told[c] \/ IsClosed(c) THEN "done"
    ELSE IF busy >= Concurrency THEN "waiting" ELSE "reading"

Refuse(c) ==
    /\ stream' = [stream EXCEPT ![c] = "closed"]
    /\ runner' = [runner EXCEPT ![c] = "done"]
    /\ UNCHANGED <<concurrency, job>>

\* The exception ends _run and leaves the stream open.
Raise(c) ==
    /\ runner' = [runner EXCEPT ![c] = "dead"]
    /\ UNCHANGED <<stream, concurrency, job>>

\* The end of _invoke, after which _run goes on.
Invoke(c, state) ==
    /\ job' = [job EXCEPT ![c][taken[c] + 1] = state]
    /\ concurrency' = [concurrency EXCEPT ![c] = @ + 1]
    /\ runner' = [runner EXCEPT ![c] = Top(c, concurrency[c] + 1)]
    /\ UNCHANGED stream

\* read() has a packet.
RunnerReads(c) ==
    /\ Running /\ runner[c] = "reading" /\ stream[c] = "open"
    /\ taken[c] < sent[c]
    /\ taken' = [taken EXCEPT ![c] = @ + 1]
    /\ idle' = [idle EXCEPT ![c] = 0]
    /\ LET outcome == Outcome(c, plan.asks[c][taken[c] + 1])
       IN  \/ outcome = "refused" /\ Refuse(c)
           \/ outcome = "raised" /\ Raise(c)
           \/ outcome \notin {"refused", "raised"} /\ Invoke(c, outcome)
    /\ UNCHANGED <<peerVars, serverVars, told, offered, lifeVars, scanTimer>>

\* read() raises StreamClosedError.
RunnerStreamClosed(c) ==
    /\ Running /\ runner[c] = "reading" /\ IsClosed(c)
    /\ runner' = [runner EXCEPT ![c] = "done"]
    /\ idle' = [idle EXCEPT ![c] = 0]
    /\ UNCHANGED <<peerVars, serverVars, stream, told, offered, concurrency,
                   taken, job, lifeVars, scanTimer>>

\* wait() returns to _run.
RunnerResumes(c) ==
    /\ Running /\ runner[c] = "woken"
    /\ runner' = [runner EXCEPT ![c] = Top(c, concurrency[c])]
    /\ idle' = [idle EXCEPT ![c] = IF runner'[c] = "reading" THEN 0 ELSE @]
    /\ UNCHANGED <<peerVars, serverVars, stream, told, offered, concurrency,
                   taken, job, lifeVars, scanTimer>>

\* The method of a request returns or raises; add_future schedules
\* _send_response.
JobFinishes(c, n) ==
    /\ InPool(c, n) \/ (Running /\ job[c][n] = "coroutine")
    /\ job' = [job EXCEPT ![c][n] = "ready"]
    /\ UNCHANGED <<peerVars, serverVars, stream, told, idle, offered, runner,
                   concurrency, taken, lifeVars, scanTimer>>

Settle_NotCountedOut(c, n) ==
    /\ job' = [job EXCEPT ![c][n] = "over"]
    /\ idle' = [idle EXCEPT ![c] = 0]
    /\ runner' = [runner EXCEPT ![c] = Notified(c)]
    /\ UNCHANGED concurrency

\* The finally clause of _send_response.
Settle(c, n) ==
    /\ job' = [job EXCEPT ![c][n] = "over"]
    /\ concurrency' = [concurrency EXCEPT ![c] = IF @ > 0 THEN @ - 1 ELSE 0]
    /\ idle' = [idle EXCEPT ![c] = 0]
    /\ runner' = [runner EXCEPT ![c] = Notified(c)]

\* _send_response up to its yield: it returns early, it waits in write(), or
\* dumps() or write() raises.
SendResponse(c, n) ==
    /\ Running /\ job[c][n] = "ready"
    /\ \/ /\ told[c]
          /\ job' = [job EXCEPT ![c][n] = "dropped"]
          /\ UNCHANGED <<idle, runner, concurrency>>
       \/ /\ ~told[c] /\ stream[c] = "open"
          /\ job' = [job EXCEPT ![c][n] = "writing"]
          /\ idle' = [idle EXCEPT ![c] = 0]
          /\ UNCHANGED <<runner, concurrency>>
       \/ /\ ~told[c]
          /\ Settle(c, n)
    /\ UNCHANGED <<peerVars, serverVars, stream, told, offered, taken, lifeVars,
                   scanTimer>>

WriteEnds_OnlyRead(c, n) ==
    /\ Running /\ job[c][n] = "writing" /\ stream[c] = "open"
    /\ Settle(c, n)
    /\ UNCHANGED <<peerVars, serverVars, stream, told, offered, taken, lifeVars,
                   scanTimer>>

\* write() ends: the peer has read the response, or the stream was closed.
WriteEnds(c, n) ==
    /\ Running /\ job[c][n] = "writing"
    /\ Settle(c, n)
    /\ UNCHANGED <<peerVars, serverVars, stream, told, offered, taken, lifeVars,
                   scanTimer>>

-----------------------------------------------------------------------------
(* start() and close().                                                    *)

CanStart == ~starting /\ ~started /\ ~closing
CanClose == started /\ ~starting /\ ~closing /\ ~closed

GoTo(t, place) == pc' = [pc EXCEPT ![t] = place]

AfterClose_LoopLeft(t) == "idle"

\* Where _close_if_necessary returns to.
AfterClose(t) == IF looper = t THEN "closeLoop" ELSE "idle"

Calls(t) ==
    /\ pc[t] = "idle" /\ calls[t] < plan.calls[t]
    /\ calls' = [calls EXCEPT ![t] = @ + 1]

StartCall(t) ==
    /\ Calls(t)
    /\ GoTo(t, IF CanStart THEN "startLock" ELSE "idle")
    /\ UNCHANGED <<serving, lock, pool, shutting, looper, flags, loopVars>>

StartLocked(t) ==
    /\ pc[t] = "startLock" /\ lock = Nobody
    /\ IF CanStart
         THEN /\ starting' = TRUE /\ started' = FALSE /\ closed' = FALSE
              /\ GoTo(t, "setUp")
         ELSE /\ UNCHANGED <<starting, started, closed>>
              /\ GoTo(t, "idle")
    /\ UNCHANGED <<serving, calls, lock, pool, shutting, looper, closing,
                   loopVars>>

\* start() up to IOLoop.start, with _register_if_necessary.  It raises when
\* register() does, and always once the loop has the server socket or was closed.
SetUp(t) ==
    /\ pc[t] = "setUp"
    /\ pool' = [k \in Pools |-> IF k \in plan.pools THEN "up" ELSE "none"]
    /\ \/ /\ loop = "new"
          /\ loop' = "running"
          /\ looper' = t
          /\ scanTimer' = maxIdle
          /\ queued' = TRUE
          /\ announced' = TRUE
          /\ GoTo(t, "loop")
       \/ /\ GoTo(t, "idle")
          /\ UNCHANGED <<loop, looper, scanTimer, queued, announced>>
    /\ UNCHANGED <<peerVars, serverVars, connVars, calls, lock, shutting,
                   flags, stopAsked>>

ChangeStatus_StillStarting ==
    /\ Running /\ queued
    /\ queued' = FALSE
    /\ started' = TRUE
    /\ UNCHANGED <<serving, threadVars, starting, closing, closed, loop,
                   stopAsked, announced>>

\* The callback change_status.
ChangeStatus ==
    /\ Running /\ queued
    /\ queued' = FALSE
    /\ started' = TRUE /\ starting' = FALSE
    /\ UNCHANGED <<serving, threadVars, closing, closed, loop, stopAsked,
                   announced>>

LeaveLoop(t) ==
    /\ pc[t] = "loop"
    /\ loop' = "ended"
    /\ GoTo(t, "close")
    /\ UNCHANGED <<serving, calls, lock, pool, shutting, looper, flags,
                   stopAsked, queued, announced>>

LoopStops(t) == stopAsked /\ LeaveLoop(t)

\* KeyboardInterrupt
Interrupted(t) == ~stopAsked /\ LeaveLoop(t)

\* close(), or the finally clause of start().
CloseIfNecessary(t) ==
    /\ \/ Calls(t)
       \/ pc[t] = "close" /\ UNCHANGED calls
    /\ GoTo(t, IF CanClose THEN "closeLock" ELSE AfterClose(t))
    /\ UNCHANGED <<serving, lock, pool, shutting, looper, flags, loopVars>>

CloseLocked(t) ==
    /\ pc[t] = "closeLock" /\ lock = Nobody
    /\ IF CanClose
         THEN /\ lock' = t
              /\ closing' = TRUE /\ closed' = FALSE
              /\ GoTo(t, "stop")
         ELSE /\ UNCHANGED <<lock, closing, closed>>
              /\ GoTo(t, AfterClose(t))
    /\ UNCHANGED <<serving, calls, pool, shutting, looper, starting, started,
                   loopVars>>

\* The registry is closed, the loop is asked to stop.
Stop(t) ==
    /\ pc[t] = "stop"
    /\ announced' = FALSE
    /\ stopAsked' = TRUE
    /\ shutting' = "thread"
    /\ GoTo(t, "detach")
    /\ UNCHANGED <<serving, calls, lock, pool, looper, flags, loop, queued>>

\* The attribute becomes None.
Detach(t) ==
    /\ pc[t] = "detach"
    /\ pool' = [pool EXCEPT ![shutting] = IF @ = "up" THEN "detached" ELSE @]
    /\ GoTo(t, "shutDown")
    /\ UNCHANGED <<serving, calls, lock, shutting, looper, flags, loopVars>>

\* shutdown(): the pool refuses further jobs,
ShutDown(t) ==
    /\ pc[t] = "shutDown"
    /\ pool' = [pool EXCEPT ![shutting] = IF @ = "detached" THEN "down" ELSE @]
    /\ offered' = [c \in Ids |-> [offered[c] EXCEPT ![shutting] =
                                    IF @ = "up" THEN "down" ELSE @]]
    /\ GoTo(t, "join")
    /\ UNCHANGED <<peerVars, serverVars, stream, told, idle, runner, concurrency,
                   taken, job, calls, lock, shutting, looper, flags, loopVars,
                   scanTimer>>

Joined_AtOnce == TRUE

\* No job of the pool is queued or running.
Joined == \A c \in Ids, n \in Numbers : job[c][n] # shutting

\* and waits until those it has are finished.
Join(t) ==
    /\ pc[t] = "join"
    /\ Joined
    /\ IF shutting = "thread"
         THEN shutting' = "process" /\ GoTo(t, "detach")
         ELSE GoTo(t, "setFlags") /\ UNCHANGED shutting
    /\ UNCHANGED <<serving, calls, lock, pool, looper, flags, loopVars>>

SetFlags(t) ==
    /\ pc[t] = "setFlags"
    /\ closed' = TRUE
    /\ closing' = FALSE /\ started' = FALSE /\ starting' = FALSE
    /\ lock' = Nobody
    /\ GoTo(t, AfterClose(t))
    /\ UNCHANGED <<serving, calls, pool, shutting, looper, loopVars>>

\* IOLoop.close(all_fds=True): the sockets are closed, no callback runs any more.
CloseLoop(t) ==
    /\ pc[t] = "closeLoop"
    /\ loop' = "closed"
    /\ stream' = [c \in Ids |-> IF stream[c] = "open" THEN "closed" ELSE stream[c]]
    /\ looper' = Nobody
    /\ GoTo(t, "idle")
    /\ UNCHANGED <<peerVars, serverVars, told, idle, offered, runner,
                   concurrency, taken, job, calls, lock, pool, shutting, flags,
                   stopAsked, queued, announced, scanTimer>>

-----------------------------------------------------------------------------
Life(t) ==
    \/ StartLocked(t) \/ SetUp(t) \/ LoopStops(t) \/ CloseLocked(t) \/ Stop(t)
    \/ Detach(t) \/ ShutDown(t) \/ Join(t) \/ SetFlags(t) \/ CloseLoop(t)

\* What the loop has to do for one connection, or one of its requests.
Serve(c) == OnClose(c) \/ RunnerReads(c) \/ RunnerStreamClosed(c) \/ RunnerResumes(c)

Respond(c, n) == SendResponse(c, n) \/ WriteEnds(c, n)

Next ==
    \/ PeerConnects \/ Tick \/ Accept \/ Scan \/ ChangeStatus
    \/ \E c \in Ids :
          \/ PeerSends(c) \/ PeerHangsUp(c) \/ Serve(c)
          \/ \E n \in Numbers : JobFinishes(c, n) \/ Respond(c, n)
    \/ \E t \in Threads :
          StartCall(t) \/ CloseIfNecessary(t) \/ Interrupted(t) \/ Life(t)

Spec == Init /\ [][Next]_vars

\* What the loop does as soon as it gets to it.  A write ends when its peer
\* reads, which nobody promises, or when the stream is closed.
Due ==
    \/ Accept \/ ChangeStatus
    \/ \E c \in Ids :
          \/ Serve(c)
          \/ \E n \in Numbers :
                SendResponse(c, n) \/ (IsClosed(c) /\ WriteEnds(c, n))

(* The loop goes on running what is due, time passes, the methods return    *)
(* and the threads take their next step.  Nothing is assumed of the peers,  *)
(* and nobody has to call start() or close().                               *)
Fairness ==
    /\ WF_vars(Tick) /\ WF_vars(Scan) /\ WF_vars(Due)
    /\ WF_vars(\E c \in Ids, n \in Numbers : JobFinishes(c, n))
    /\ \A t \in Threads :
          WF_vars(Life(t) \/ (pc[t] = "close" /\ CloseIfNecessary(t)))

FairSpec == Spec /\ Fairness

-----------------------------------------------------------------------------
(* What must hold.                                                         *)

\* A request that counts for the limit of its connection: it was invoked and
\* its finally clause has not run.
Unsettled == Pools \cup {"coroutine", "ready", "writing", "dropped"}

\* One whose finally clause is still to come.
Underway == Unsettled \ {"dropped"}

\* Each variable has its values; no connection serves more requests than
\* concurrent_request_per_connection.
TypeOK ==
    /\ arrived \in 0..MaxPeers /\ accepted \in 0..arrived
    /\ current \in 0..MaxPeers
    /\ cache \in Seq(Ids)
    /\ stream \in [Ids -> {"none", "open", "closed", "reported"}]
    /\ told \in [Ids -> BOOLEAN]
    /\ idle \in [Ids -> 0..maxIdle]
    /\ offered \in [Ids -> [Pools -> {"none", "up", "down"}]]
    /\ runner \in [Ids -> {"none", "reading", "waiting", "woken", "done", "dead"}]
    /\ concurrency \in [Ids -> 0..Concurrency]
    /\ sent \in [Ids -> 0..MaxRequests] /\ taken \in [Ids -> 0..MaxRequests]
    /\ job \in [Ids -> [Numbers -> Unsettled \cup {"none", "over"}]]
    /\ pc \in [Threads -> {"idle", "startLock", "setUp", "loop", "close", "closeLock",
                           "stop", "detach", "shutDown", "join", "setFlags",
                           "closeLoop"}]
    /\ lock \in Threads \cup {Nobody} /\ looper \in Threads \cup {Nobody}
    /\ {starting, started, closing, closed, stopAsked, queued, announced} \subseteq BOOLEAN
    /\ pool \in [Pools -> {"none", "up", "detached", "down"}]
    /\ loop \in {"new", "running", "ended", "closed"}
    /\ scanTimer \in 0..maxIdle

\* _current_connections is the number of connections whose close callback has
\* not run, these are the ones the cache has, and they are at most
\* max_connections: no path counts one twice, loses one, or evicts one.
ConnectionsCounted ==
    /\ current = Len(cache) /\ current <= MaxConnections
    /\ ToSet(cache) = {c \in Ids : stream[c] \in {"open", "closed"}}

\* _current_concurrency is the number of requests of the connection that were
\* invoked and not settled, whichever way their responses went.
ConcurrencyMatches ==
    \A c \in Ids :
        concurrency[c] = Cardinality({n \in Numbers : job[c][n] \in Unsettled})

\* A _run that waits on read_condition is at the limit, and a notification
\* is still to come: from a request, or from the close callback.
WaitingIsNotified ==
    \A c \in Ids : runner[c] = "waiting" =>
        /\ concurrency[c] >= Concurrency /\ stream[c] # "reported"
        /\ \/ \E n \in Numbers : job[c][n] \in Underway
           \/ stream[c] = "closed"

\* When the server says it is closed, no method runs in a pool, none can be
\* submitted any more, and no client is sent to it: close() has waited for them,
\* whatever the loop did meanwhile.
QuietWhenClosed ==
    closed => /\ ~announced
              /\ \A c \in Ids, n \in Numbers : ~InPool(c, n)
              /\ \A k \in Pools : pool[k] \notin {"up", "detached"}

\* While the server says it is started and is not closing, its loop has not
\* been closed, nor have its pools: the thread in start() leaves by way of
\* _close_if_necessary, or because another thread is in there.
StartedMeansServing ==
    started /\ ~closing =>
        /\ loop \in {"running", "ended"} /\ ~stopAsked
        /\ \A k \in plan.pools : pool[k] = "up"

\* A peer in the backlog is accepted as long as the loop runs: the places of
\* connections that fell silent or never sent anything come free.
PeersServed == (accepted < arrived) ~> (accepted = arrived \/ ~Running)

\* The connections of peers that have nothing more to say are closed and
\* counted out, also those whose Runner died or waits for a slow method, or
\* whose peer does not read.
SilentPeersLeave == (current > 0) ~> (current = 0 \/ ~Running)

\* Every request that was invoked is answered, or fails, or is dropped with its
\* connection.
RequestsSettled ==
    (\E c \in Ids, n \in Numbers : job[c][n] \in Underway) ~>
        (~Running \/ \A c \in Ids, n \in Numbers : job[c][n] \notin Underway)

\* A close() that got through stops the loop and ends, also when the thread in
\* start() or another close() comes in between.
CloseCompletes == closing ~> (loop = "closed" /\ ~closing)

\* A scan leaves no open connection that was idle for max_idle_time: "close
\* inactive connections" (rpc_server.py:299).
ScanClosesIdle ==
    [][Running /\ scanTimer = 0 /\ scanTimer' > 0 =>
         \A c \in Ids : idle[c] >= maxIdle => stream'[c] # "open"]_vars
=============================================================================
