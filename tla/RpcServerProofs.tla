-------------------------- MODULE RpcServerProofs --------------------------
(***************************************************************************)
(* For any number of peers, requests and threads, any limits and any plan  *)
(* of RpcServer: connections and requests are counted right, a Runner that *)
(* waits is woken, and a server that says it is closed, or started, is.    *)
(***************************************************************************)
EXTENDS RpcServer, LRUCacheTheorems, FiniteSetTheorems, TLAPS

USE DEF serverVars, connVars, flags, threadVars, loopVars, lifeVars, peerVars, serving

-----------------------------------------------------------------------------
(* The inductive invariant: the connections.                               *)

\* Only peers that were accepted have sent anything, and a Runner reads what
\* was sent.
PeersTyped ==
    /\ plan \in Plans
    /\ arrived \in 0..Len(plan.asks) /\ accepted \in 0..arrived
    /\ sent \in [Ids -> Nat] /\ taken \in [Ids -> Nat]
    /\ \A c \in Ids :
          /\ taken[c] <= sent[c]
          /\ c <= accepted => sent[c] <= Len(plan.asks[c])
          /\ c > accepted => sent[c] = 0

\* The close callback tells the Runner, whatever else has happened.
StreamsTyped ==
    /\ stream \in [Ids -> {"none", "open", "closed", "reported"}]
    /\ told \in [Ids -> BOOLEAN]
    /\ idle \in [Ids -> 0..maxIdle] /\ scanTimer \in 0..maxIdle
    /\ offered \in [Ids -> [Pools -> {"none", "up", "down"}]]
    /\ runner \in [Ids -> {"none", "reading", "waiting", "woken", "done", "dead"}]
    /\ \A c \in Ids :
          /\ stream[c] = "none" <=> c > accepted
          /\ told[c] <=> stream[c] = "reported"

\* The cache has the connections whose close callback has not run.
CacheCounted ==
    /\ cache \in Seq(Ids) /\ IsInjective(cache)
    /\ ConnectionsCounted

\* Requests that count for the limit of their connection.
Counting(c) == {n \in Numbers : job[c][n] \in Unsettled}

\* A request is invoked when it is read, and dropped when the connection is.
JobsCounted ==
    /\ job \in [Ids -> [Numbers -> Unsettled \cup {"none", "over"}]]
    /\ concurrency \in [Ids -> Nat]
    /\ \A c \in Ids :
          /\ \A n \in Numbers : n > taken[c] => job[c][n] = "none"
          /\ \A n \in Numbers : job[c][n] = "dropped" => told[c]
          /\ concurrency[c] = Cardinality(Counting(c))

\* A Runner only reads below the limit, and waits at it.
LimitKept ==
    /\ \A c \in Ids :
          /\ concurrency[c] <= Concurrency
          /\ runner[c] = "reading" => concurrency[c] < Concurrency
    /\ WaitingIsNotified

ServingInv == PeersTyped /\ StreamsTyped /\ CacheCounted /\ JobsCounted /\ LimitKept

-----------------------------------------------------------------------------
(* The inductive invariant: the life of the server.                        *)

Places == {"idle", "startLock", "setUp", "loop", "close", "closeLock", "stop", "detach",
           "shutDown", "join", "setFlags", "closeLoop"}

LifeTyped ==
    /\ pc \in [Threads -> Places] /\ calls \in [Threads -> Nat]
    /\ lock \in Threads \cup {Nobody} /\ looper \in Threads \cup {Nobody}
    /\ {starting, started, closing, closed, stopAsked, queued, announced} \subseteq BOOLEAN
    /\ pool \in [Pools -> {"none", "up", "detached", "down"}]
    /\ loop \in {"new", "running", "ended", "closed"}
    /\ shutting \in Pools

\* The places of a thread that closes the server.
ClosingAt == {"stop", "detach", "shutDown", "join", "setFlags"}

\* One thread at a time closes the server, the one that holds the lock.
OneCloses ==
    /\ \A t \in Threads : pc[t] \in ClosingAt <=> lock = t
    /\ closing <=> lock # Nobody

\* Nobody starts a server that is started, closes one that is being started, or
\* sets one up that another thread is setting up.
FlagsAgree ==
    /\ closing => started
    /\ started => ~starting /\ ~closed /\ loop # "new"
    /\ closed => ~starting
    /\ queued => starting /\ loop # "new"
    /\ stopAsked => loop # "new"
    /\ \A t \in Threads : pc[t] = "setUp" =>
          /\ starting /\ ~queued
          /\ \A u \in Threads : pc[u] = "setUp" => u = t

\* The loop is left, and closed, by the thread in start().
LooperLeaves ==
    /\ \A t \in Threads :
          /\ pc[t] \in {"loop", "closeLoop"} => looper = t
          /\ pc[t] = "loop" => Running
          /\ looper = t => pc[t] \notin {"idle", "startLock", "setUp"}
    /\ Running => \E t \in Threads : pc[t] = "loop"
    /\ loop = "new" => looper = Nobody

\* What a started server needs is there from the moment it is set up.
ServesOnceStarted ==
    /\ queued \/ (started /\ ~closing) =>
          ~stopAsked /\ \A k \in plan.pools : pool[k] = "up"
    /\ started /\ ~closing =>
          loop \in {"running", "ended"} /\ \A t \in Threads : pc[t] # "closeLoop"

\* The closing of pool k is over.
Shut(k) ==
    \/ closed
    \/ \E t \in Threads :
          \/ pc[t] = "setFlags"
          \/ pc[t] \in {"detach", "shutDown", "join"} /\ shutting = "process" /\ k = "thread"

\* From the moment a pool is shut down no request gets into it.
PoolsShut ==
    /\ closed \/ (\E t \in Threads : pc[t] \in ClosingAt \ {"stop"}) => ~announced
    /\ \A t \in Threads :
          /\ pc[t] = "shutDown" => pool[shutting] # "up"
          /\ pc[t] = "join" => /\ pool[shutting] \notin {"up", "detached"}
                               /\ \A c \in Ids : offered[c][shutting] # "up"
    /\ \A k \in Pools : Shut(k) =>
          /\ pool[k] \notin {"up", "detached"}
          /\ \A c \in Ids : offered[c][k] # "up" /\ \A n \in Numbers : job[c][n] # k

LifeInv ==
    /\ LifeTyped /\ OneCloses /\ FlagsAgree /\ LooperLeaves /\ ServesOnceStarted
    /\ PoolsShut

ServerInv == ServingInv /\ LifeInv

-----------------------------------------------------------------------------
(* The threads that start and close the server.                            *)

\* A thread calls start(), or finds that it may not.
LEMMA StartCallKeepsLife ==
    ASSUME LifeInv, NEW t \in Threads, StartCall(t)
    PROVE  LifeInv'
  <1> USE ServerAssumption DEF ServerAssumption
  <1>0. /\ plan' = plan
        /\ pc[t] = "idle"
        /\ pc' = [pc EXCEPT ![t] = IF CanStart THEN "startLock" ELSE "idle"]
        /\ calls' = [calls EXCEPT ![t] = calls[t] + 1]
        /\ UNCHANGED <<lock, pool, shutting, looper, starting, started, closing, closed, loop, stopAsked, queued, announced, offered, job>>
    BY DEF StartCall, Calls, GoTo
  <1>1. LifeTyped'
    BY <1>0 DEF LifeInv, LifeTyped, Places
  <1>2. OneCloses'
    BY <1>0 DEF LifeInv, OneCloses, ClosingAt
  <1>3. FlagsAgree'
    BY <1>0 DEF LifeInv, FlagsAgree
  <1>4. LooperLeaves'
    BY <1>0 DEF LifeInv, LooperLeaves, Running
  <1>5. ServesOnceStarted'
    BY <1>0 DEF LifeInv, ServesOnceStarted
  <1>6. PoolsShut'
    BY <1>0 DEF LifeInv, PoolsShut, Shut, ClosingAt
  <1> QED BY <1>1, <1>2, <1>3, <1>4, <1>5, <1>6 DEF LifeInv

\* The flags are looked at again under the lock.
LEMMA StartLockedKeepsLife ==
    ASSUME LifeInv, NEW t \in Threads, StartLocked(t)
    PROVE  LifeInv'
  <1> USE ServerAssumption DEF ServerAssumption
  <1>0. /\ plan' = plan
        /\ pc[t] = "startLock"
        /\ lock = Nobody
        /\ \/ /\ CanStart /\ starting' = TRUE /\ started' = FALSE /\ closed' = FALSE
              /\ pc' = [pc EXCEPT ![t] = "setUp"]
           \/ /\ UNCHANGED <<starting, started, closed>>
              /\ pc' = [pc EXCEPT ![t] = "idle"]
        /\ UNCHANGED <<calls, lock, pool, shutting, looper, closing, loop, stopAsked, queued, announced, offered, job>>
    BY DEF StartLocked, GoTo
  <1>1. LifeTyped'
    BY <1>0 DEF LifeInv, LifeTyped, Places
  <1>2. OneCloses'
    BY <1>0 DEF LifeInv, LifeTyped, OneCloses, ClosingAt
  <1>3. FlagsAgree'
    BY <1>0 DEF LifeInv, LifeTyped, FlagsAgree, CanStart
  <1>4. LooperLeaves'
    BY <1>0 DEF LifeInv, LifeTyped, LooperLeaves, Running
  <1>5. ServesOnceStarted'
    BY <1>0 DEF LifeInv, LifeTyped, ServesOnceStarted
  <1>6. PoolsShut'
    BY <1>0 DEF LifeInv, LifeTyped, PoolsShut, Shut, ClosingAt
  <1> QED BY <1>1, <1>2, <1>3, <1>4, <1>5, <1>6 DEF LifeInv

\* The pools are made, and the loop runs unless it has before.
LEMMA SetUpKeepsLife ==
    ASSUME LifeInv, PeersTyped, NEW t \in Threads, SetUp(t)
    PROVE  LifeInv'
  <1> USE ServerAssumption DEF ServerAssumption
  <1>0. /\ plan' = plan
        /\ pc[t] = "setUp"
        /\ pool' = [k \in Pools |-> IF k \in plan.pools THEN "up" ELSE "none"]
        /\ \/ /\ loop = "new" /\ loop' = "running" /\ looper' = t /\ queued' = TRUE
              /\ announced' = TRUE /\ pc' = [pc EXCEPT ![t] = "loop"]
           \/ /\ UNCHANGED <<loop, looper, queued, announced>>
              /\ pc' = [pc EXCEPT ![t] = "idle"]
        /\ UNCHANGED <<calls, lock, shutting, starting, started, closing, closed, stopAsked, offered, job>>
    BY DEF SetUp, GoTo
  <1>1. LifeTyped'
    BY <1>0 DEF LifeInv, LifeTyped, Places
  <1>2. OneCloses'
    BY <1>0 DEF LifeInv, LifeTyped, OneCloses, ClosingAt
  <1>3. FlagsAgree'
    BY <1>0, SMTT(30) DEF LifeInv, LifeTyped, OneCloses, FlagsAgree
  <1>4. LooperLeaves'
    BY <1>0 DEF LifeInv, LifeTyped, LooperLeaves, Running
  <1>5. /\ ~queued /\ ~started /\ ~closing /\ ~closed
        /\ \A u \in Threads : pc'[u] \notin ClosingAt
    BY <1>0 DEF LifeInv, LifeTyped, OneCloses, FlagsAgree, ClosingAt
  <1>6. ServesOnceStarted'
    <2>1. plan.pools \subseteq Pools
      BY DEF PeersTyped
    <2>2. ~stopAsked \/ loop # "new"
      BY DEF LifeInv, FlagsAgree
    <2>3. \A k \in plan.pools : pool'[k] = "up"
      BY <1>0, <2>1
    <2> QED BY <1>0, <1>5, <2>2, <2>3 DEF ServesOnceStarted
  <1>7. PoolsShut'
    BY <1>0, <1>5 DEF PoolsShut, Shut, ClosingAt
  <1> QED BY <1>1, <1>2, <1>3, <1>4, <1>5, <1>6, <1>7 DEF LifeInv

\* The loop stops, or is interrupted.
LEMMA LeaveLoopKeepsLife ==
    ASSUME LifeInv, NEW t \in Threads, LeaveLoop(t)
    PROVE  LifeInv'
  <1> USE ServerAssumption DEF ServerAssumption
  <1>0. /\ plan' = plan
        /\ pc[t] = "loop"
        /\ loop' = "ended"
        /\ pc' = [pc EXCEPT ![t] = "close"]
        /\ UNCHANGED <<calls, lock, pool, shutting, looper, starting, started, closing, closed, stopAsked, queued, announced, offered, job>>
    BY DEF LeaveLoop, GoTo
  <1>1. LifeTyped'
    BY <1>0 DEF LifeInv, LifeTyped, Places
  <1>2. OneCloses'
    BY <1>0 DEF LifeInv, OneCloses, ClosingAt
  <1>3. FlagsAgree'
    BY <1>0 DEF LifeInv, FlagsAgree
  <1>4. LooperLeaves'
    BY <1>0 DEF LifeInv, LifeTyped, LooperLeaves, Running
  <1>5. ServesOnceStarted'
    BY <1>0 DEF LifeInv, ServesOnceStarted
  <1>6. PoolsShut'
    BY <1>0 DEF LifeInv, PoolsShut, Shut, ClosingAt
  <1> QED BY <1>1, <1>2, <1>3, <1>4, <1>5, <1>6 DEF LifeInv

\* A thread calls close(), or gets there from start().
LEMMA CloseIfNecessaryKeepsLife ==
    ASSUME LifeInv, NEW t \in Threads, CloseIfNecessary(t)
    PROVE  LifeInv'
  <1> USE ServerAssumption DEF ServerAssumption
  <1>0. /\ plan' = plan
        /\ pc[t] \in {"idle", "close"}
        /\ pc' = [pc EXCEPT ![t] = IF CanClose THEN "closeLock" ELSE AfterClose(t)]
        /\ calls' = calls \/ calls' = [calls EXCEPT ![t] = calls[t] + 1]
        /\ UNCHANGED <<lock, pool, shutting, looper, starting, started, closing, closed, loop, stopAsked, queued, announced, offered, job>>
    BY DEF CloseIfNecessary, Calls, GoTo
  <1>1. LifeTyped'
    BY <1>0 DEF LifeInv, LifeTyped, AfterClose, Places
  <1>2. OneCloses'
    BY <1>0 DEF LifeInv, OneCloses, ClosingAt, AfterClose
  <1>3. FlagsAgree'
    BY <1>0 DEF LifeInv, FlagsAgree, AfterClose
  <1>4. LooperLeaves'
    BY <1>0 DEF LifeInv, LooperLeaves, AfterClose, Running
  <1>5. ServesOnceStarted'
    BY <1>0 DEF LifeInv, FlagsAgree, ServesOnceStarted, CanClose
  <1>6. PoolsShut'
    BY <1>0 DEF LifeInv, PoolsShut, Shut, ClosingAt, AfterClose
  <1> QED BY <1>1, <1>2, <1>3, <1>4, <1>5, <1>6 DEF LifeInv

\* Whoever gets the lock first closes the server, and keeps the lock.
LEMMA CloseLockedKeepsLife ==
    ASSUME LifeInv, NEW t \in Threads, CloseLocked(t)
    PROVE  LifeInv'
  <1> USE ServerAssumption DEF ServerAssumption
  <1>0. /\ plan' = plan
        /\ pc[t] = "closeLock"
        /\ lock = Nobody
        /\ \/ /\ CanClose /\ lock' = t /\ closing' = TRUE /\ closed' = FALSE
              /\ pc' = [pc EXCEPT ![t] = "stop"]
           \/ /\ ~CanClose /\ UNCHANGED <<lock, closing, closed>>
              /\ pc' = [pc EXCEPT ![t] = AfterClose(t)]
        /\ UNCHANGED <<calls, pool, shutting, looper, starting, started, loop, stopAsked, queued, announced, offered, job>>
    BY DEF CloseLocked, GoTo
  <1>1. LifeTyped'
    BY <1>0 DEF LifeInv, LifeTyped, AfterClose, Places
  <1>2. OneCloses'
    BY <1>0 DEF LifeInv, LifeTyped, OneCloses, ClosingAt, AfterClose
  <1>3. FlagsAgree'
    BY <1>0 DEF LifeInv, LifeTyped, FlagsAgree, AfterClose, CanClose
  <1>4. LooperLeaves'
    BY <1>0 DEF LifeInv, LifeTyped, LooperLeaves, AfterClose, Running
  <1>5. ServesOnceStarted'
    BY <1>0 DEF LifeInv, FlagsAgree, ServesOnceStarted, CanClose
  <1>6. PoolsShut'
    BY <1>0 DEF LifeInv, LifeTyped, PoolsShut, Shut, ClosingAt, AfterClose, Pools
  <1> QED BY <1>1, <1>2, <1>3, <1>4, <1>5, <1>6 DEF LifeInv

\* The registry is closed before the pools are.
LEMMA StopKeepsLife ==
    ASSUME LifeInv, NEW t \in Threads, Stop(t)
    PROVE  LifeInv'
  <1> USE ServerAssumption DEF ServerAssumption
  <1>0. /\ plan' = plan
        /\ pc[t] = "stop"
        /\ announced' = FALSE
        /\ stopAsked' = TRUE
        /\ shutting' = "thread"
        /\ pc' = [pc EXCEPT ![t] = "detach"]
        /\ UNCHANGED <<calls, lock, pool, looper, starting, started, closing, closed, loop, queued, offered, job>>
    BY DEF Stop, GoTo
  <1>1. LifeTyped'
    BY <1>0 DEF LifeInv, LifeTyped, Places, Pools
  <1>2. OneCloses'
    BY <1>0 DEF LifeInv, OneCloses, ClosingAt
  <1>3. FlagsAgree'
    BY <1>0 DEF LifeInv, OneCloses, FlagsAgree, ClosingAt
  <1>4. LooperLeaves'
    BY <1>0 DEF LifeInv, LooperLeaves, Running
  <1>5. ServesOnceStarted'
    BY <1>0 DEF LifeInv, OneCloses, FlagsAgree, ServesOnceStarted, ClosingAt
  <1>6. PoolsShut'
    BY <1>0 DEF LifeInv, LifeTyped, PoolsShut, Shut, Pools
  <1> QED BY <1>1, <1>2, <1>3, <1>4, <1>5, <1>6 DEF LifeInv

\* A connection accepted from now on is not given the pool.
LEMMA DetachKeepsLife ==
    ASSUME LifeInv, NEW t \in Threads, Detach(t)
    PROVE  LifeInv'
  <1> USE ServerAssumption DEF ServerAssumption
  <1>0. /\ plan' = plan
        /\ pc[t] = "detach"
        /\ pool' = [pool EXCEPT ![shutting] = IF pool[shutting] = "up" THEN "detached" ELSE pool[shutting]]
        /\ pc' = [pc EXCEPT ![t] = "shutDown"]
        /\ UNCHANGED <<calls, lock, shutting, looper, starting, started, closing, closed, loop, stopAsked, queued, announced, offered, job>>
    BY DEF Detach, GoTo
  <1>1. LifeTyped'
    BY <1>0 DEF LifeInv, LifeTyped, Places
  <1>2. OneCloses'
    BY <1>0 DEF LifeInv, OneCloses, ClosingAt
  <1>3. FlagsAgree'
    BY <1>0 DEF LifeInv, FlagsAgree
  <1>4. LooperLeaves'
    BY <1>0 DEF LifeInv, LooperLeaves, Running
  <1>5. ServesOnceStarted'
    BY <1>0 DEF LifeInv, OneCloses, FlagsAgree, ServesOnceStarted, ClosingAt
  <1>6. PoolsShut'
    BY <1>0 DEF LifeInv, LifeTyped, PoolsShut, Shut, ClosingAt
  <1> QED BY <1>1, <1>2, <1>3, <1>4, <1>5, <1>6 DEF LifeInv

\* The Runners that have the pool cannot use it any more.
LEMMA ShutDownKeepsLife ==
    ASSUME LifeInv, StreamsTyped, NEW t \in Threads, ShutDown(t)
    PROVE  LifeInv'
  <1> USE ServerAssumption DEF ServerAssumption
  <1>0. /\ plan' = plan
        /\ pc[t] = "shutDown"
        /\ pool' = [pool EXCEPT ![shutting] = IF pool[shutting] = "detached" THEN "down" ELSE pool[shutting]]
        /\ pc' = [pc EXCEPT ![t] = "join"]
        /\ offered' = [c \in Ids |-> [offered[c] EXCEPT ![shutting] =
                            IF offered[c][shutting] = "up" THEN "down" ELSE offered[c][shutting]]]
        /\ UNCHANGED <<calls, lock, shutting, looper, starting, started, closing, closed, loop, stopAsked, queued, announced, job>>
    BY DEF ShutDown, GoTo
  <1>1. LifeTyped'
    BY <1>0 DEF LifeInv, LifeTyped, Places
  <1>2. OneCloses'
    BY <1>0 DEF LifeInv, OneCloses, ClosingAt
  <1>3. FlagsAgree'
    BY <1>0 DEF LifeInv, FlagsAgree
  <1>4. LooperLeaves'
    BY <1>0 DEF LifeInv, LooperLeaves, Running
  <1>5. ServesOnceStarted'
    BY <1>0 DEF LifeInv, ServesOnceStarted
  <1>6. PoolsShut'
    <2>1. /\ pc'[t] = "join" /\ ~closed /\ shutting \in Pools
          /\ \A u \in Threads : u # t => pc'[u] = pc[u] /\ pc[u] \notin ClosingAt
      BY <1>0 DEF LifeInv, LifeTyped, OneCloses, FlagsAgree, ClosingAt
    <2>2. ~announced /\ pool[shutting] # "up"
      BY <1>0 DEF LifeInv, PoolsShut, ClosingAt
    <2>3. /\ pool'[shutting] \notin {"up", "detached"}
          /\ \A k \in Pools : k # shutting => pool'[k] = pool[k]
      BY <1>0, <2>1, <2>2 DEF LifeInv, LifeTyped
    <2>4. \A c \in Ids : /\ offered'[c][shutting] # "up"
                         /\ \A k \in Pools : k # shutting => offered'[c][k] = offered[c][k]
      BY <1>0, <2>1 DEF StreamsTyped
    <2>5. \A k \in Pools : Shut(k)' => Shut(k) /\ k # shutting
      BY <1>0, <2>1 DEF Shut, ClosingAt
    <2>6. \A k \in Pools : Shut(k) =>
            /\ pool[k] \notin {"up", "detached"}
            /\ \A c \in Ids : offered[c][k] # "up" /\ \A n \in Numbers : job[c][n] # k
      BY DEF LifeInv, PoolsShut
    <2>7. \A k \in Pools : Shut(k)' =>
            /\ pool'[k] \notin {"up", "detached"}
            /\ \A c \in Ids : offered'[c][k] # "up" /\ \A n \in Numbers : job'[c][n] # k
      BY <1>0, <2>3, <2>4, <2>5, <2>6
    <2> QED BY <1>0, <2>1, <2>2, <2>3, <2>4, <2>7 DEF PoolsShut, ClosingAt
  <1> QED BY <1>1, <1>2, <1>3, <1>4, <1>5, <1>6 DEF LifeInv

\* The jobs of a pool are finished before the next one is closed.
LEMMA JoinKeepsLife ==
    ASSUME LifeInv, NEW t \in Threads, Join(t)
    PROVE  LifeInv'
  <1> USE ServerAssumption DEF ServerAssumption
  <1>0. /\ plan' = plan
        /\ pc[t] = "join"
        /\ Joined
        /\ \/ shutting = "thread" /\ shutting' = "process" /\ pc' = [pc EXCEPT ![t] = "detach"]
           \/ shutting # "thread" /\ shutting' = shutting /\ pc' = [pc EXCEPT ![t] = "setFlags"]
        /\ UNCHANGED <<calls, lock, pool, looper, starting, started, closing, closed, loop, stopAsked, queued, announced, offered, job>>
    BY DEF Join, GoTo
  <1>1. LifeTyped'
    BY <1>0 DEF LifeInv, LifeTyped, Places, Pools
  <1>2. OneCloses'
    BY <1>0 DEF LifeInv, LifeTyped, OneCloses, ClosingAt
  <1>3. FlagsAgree'
    BY <1>0 DEF LifeInv, LifeTyped, FlagsAgree
  <1>4. LooperLeaves'
    BY <1>0 DEF LifeInv, LifeTyped, LooperLeaves, Running
  <1>5. ServesOnceStarted'
    BY <1>0 DEF LifeInv, LifeTyped, ServesOnceStarted
  <1>6. PoolsShut'
    <2>1. /\ pc'[t] \in {"detach", "setFlags"} /\ ~closed /\ shutting \in Pools
          /\ \A u \in Threads : u # t => pc'[u] = pc[u] /\ pc[u] \notin ClosingAt
      BY <1>0 DEF LifeInv, LifeTyped, OneCloses, FlagsAgree, ClosingAt
    <2>2. /\ ~announced /\ pool[shutting] \notin {"up", "detached"}
          /\ \A c \in Ids : offered[c][shutting] # "up" /\ \A n \in Numbers : job[c][n] # shutting
      BY <1>0 DEF LifeInv, PoolsShut, ClosingAt, Joined
    <2>3. \A k \in Pools : Shut(k)' => Shut(k) \/ k = shutting
      <3>1. CASE shutting = "thread"
        <4>1. pc'[t] = "detach"
          BY <1>0, <3>1 DEF LifeInv, LifeTyped
        <4>2. \A k : Shut(k)' => k = "thread"
          BY <1>0, <2>1, <4>1 DEF Shut, ClosingAt
        <4> QED BY <3>1, <4>2
      <3>2. CASE shutting = "process"
        <4>1. Shut("thread")
          BY <1>0, <3>2 DEF Shut
        <4> QED BY <3>2, <4>1 DEF Pools
      <3> QED BY <2>1, <3>1, <3>2 DEF Pools
    <2>4. \A k \in Pools : Shut(k) =>
            /\ pool[k] \notin {"up", "detached"}
            /\ \A c \in Ids : offered[c][k] # "up" /\ \A n \in Numbers : job[c][n] # k
      BY DEF LifeInv, PoolsShut
    <2>5. \A k \in Pools : Shut(k)' =>
            /\ pool'[k] \notin {"up", "detached"}
            /\ \A c \in Ids : offered'[c][k] # "up" /\ \A n \in Numbers : job'[c][n] # k
      BY <1>0, <2>2, <2>3, <2>4
    <2> QED BY <1>0, <2>1, <2>2, <2>5 DEF PoolsShut, ClosingAt
  <1> QED BY <1>1, <1>2, <1>3, <1>4, <1>5, <1>6 DEF LifeInv

\* The server is closed, and may be started again.
LEMMA SetFlagsKeepsLife ==
    ASSUME LifeInv, NEW t \in Threads, SetFlags(t)
    PROVE  LifeInv'
  <1> USE ServerAssumption DEF ServerAssumption
  <1>0. /\ plan' = plan
        /\ pc[t] = "setFlags"
        /\ closed' = TRUE
        /\ closing' = FALSE
        /\ started' = FALSE
        /\ starting' = FALSE
        /\ lock' = Nobody
        /\ pc' = [pc EXCEPT ![t] = AfterClose(t)]
        /\ UNCHANGED <<calls, pool, shutting, looper, loop, stopAsked, queued, announced, offered, job>>
    BY DEF SetFlags, GoTo
  <1>1. LifeTyped'
    BY <1>0 DEF LifeInv, LifeTyped, AfterClose, Places
  <1>2. OneCloses'
    BY <1>0 DEF LifeInv, LifeTyped, OneCloses, ClosingAt, AfterClose
  <1>3. FlagsAgree'
    BY <1>0 DEF LifeInv, OneCloses, FlagsAgree, ClosingAt, AfterClose
  <1>4. LooperLeaves'
    BY <1>0 DEF LifeInv, LooperLeaves, AfterClose, Running
  <1>5. ServesOnceStarted'
    BY <1>0 DEF LifeInv, ServesOnceStarted
  <1>6. PoolsShut'
    BY <1>0 DEF LifeInv, LifeTyped, PoolsShut, Shut, ClosingAt
  <1> QED BY <1>1, <1>2, <1>3, <1>4, <1>5, <1>6 DEF LifeInv

\* start() ends with its loop.
LEMMA CloseLoopKeepsLife ==
    ASSUME LifeInv, NEW t \in Threads, CloseLoop(t)
    PROVE  LifeInv'
  <1> USE ServerAssumption DEF ServerAssumption
  <1>0. /\ plan' = plan
        /\ pc[t] = "closeLoop"
        /\ loop' = "closed"
        /\ looper' = Nobody
        /\ pc' = [pc EXCEPT ![t] = "idle"]
        /\ UNCHANGED <<calls, lock, pool, shutting, starting, started, closing, closed, stopAsked, queued, announced, offered, job>>
    BY DEF CloseLoop, GoTo
  <1>1. LifeTyped'
    BY <1>0 DEF LifeInv, LifeTyped, Places
  <1>2. OneCloses'
    BY <1>0 DEF LifeInv, OneCloses, ClosingAt
  <1>3. FlagsAgree'
    BY <1>0 DEF LifeInv, FlagsAgree
  <1>4. LooperLeaves'
    BY <1>0 DEF LifeInv, LifeTyped, LooperLeaves, Running
  <1>5. ServesOnceStarted'
    BY <1>0 DEF LifeInv, ServesOnceStarted
  <1>6. PoolsShut'
    BY <1>0 DEF LifeInv, PoolsShut, Shut, ClosingAt
  <1> QED BY <1>1, <1>2, <1>3, <1>4, <1>5, <1>6 DEF LifeInv

-----------------------------------------------------------------------------
(* What the loop does for connections, and the life of the server.         *)

\* Serving connections takes no flag, and brings no job into a pool but one
\* that the connection was given.
LEMMA ServingKeepsLife ==
    ASSUME LifeInv, UNCHANGED lifeVars, plan' = plan,
           \A c \in Ids, k \in Pools : offered'[c][k] = "up" => offered[c][k] = "up" \/ pool[k] = "up",
           \A c \in Ids, n \in Numbers, k \in Pools :
               job'[c][n] = k => job[c][n] = k \/ offered[c][k] = "up"
    PROVE  LifeInv'
  <1>1. LifeTyped' /\ OneCloses' /\ FlagsAgree' /\ LooperLeaves' /\ ServesOnceStarted'
    BY DEF LifeInv, LifeTyped, OneCloses, FlagsAgree, LooperLeaves, ServesOnceStarted, Running
  <1>2. PoolsShut'
    <2>1. shutting \in Pools
      BY DEF LifeInv, LifeTyped
    <2>2. \A k : Shut(k)' <=> Shut(k)
      BY DEF Shut
    <2> QED BY <2>1, <2>2 DEF LifeInv, PoolsShut
  <1> QED BY <1>1, <1>2 DEF LifeInv

\* The callback change_status finds what the server needs in place.
LEMMA ChangeStatusKeepsLife ==
    ASSUME LifeInv, ChangeStatus
    PROVE  LifeInv'
  <1>0. /\ plan' = plan /\ Running /\ queued /\ queued' = FALSE
        /\ started' = TRUE /\ starting' = FALSE
        /\ UNCHANGED <<pc, calls, lock, pool, shutting, looper, closing, closed, loop, stopAsked,
                       announced, offered, job>>
    BY DEF ChangeStatus
  <1>1. LifeTyped'
    BY <1>0 DEF LifeInv, LifeTyped
  <1>2. OneCloses'
    BY <1>0 DEF LifeInv, OneCloses
  <1>3. ~closed /\ starting /\ ~closing /\ \A t \in Threads : pc[t] # "setUp"
    BY <1>0 DEF LifeInv, FlagsAgree
  <1>4. FlagsAgree'
    BY <1>0, <1>3 DEF LifeInv, FlagsAgree, Running
  <1>5. LooperLeaves'
    BY <1>0 DEF LifeInv, LooperLeaves, Running
  <1>6. ServesOnceStarted'
    <2>1. PICK u \in Threads : pc[u] = "loop"
      BY <1>0 DEF LifeInv, LooperLeaves
    <2>2. \A t \in Threads : pc[t] # "closeLoop"
      BY <2>1 DEF LifeInv, LooperLeaves
    <2> QED BY <1>0, <1>3, <2>2 DEF LifeInv, ServesOnceStarted, Running
  <1>7. PoolsShut'
    <2>1. \A k : Shut(k)' <=> Shut(k)
      BY <1>0 DEF Shut
    <2> QED BY <1>0, <2>1 DEF LifeInv, PoolsShut
  <1> QED BY <1>1, <1>2, <1>4, <1>5, <1>6, <1>7 DEF LifeInv

-----------------------------------------------------------------------------
(* Counting requests.                                                      *)

\* What the plan of a behaviour says is within the bounds.
LEMMA PlanTyped ==
    ASSUME PeersTyped
    PROVE  /\ Len(plan.asks) \in 0..MaxPeers /\ maxIdle \in Nat \ {0}
           /\ accepted \in Nat /\ arrived \in Nat /\ accepted <= arrived
           /\ arrived <= Len(plan.asks)
           /\ \A c \in 1..Len(plan.asks) : Len(plan.asks[c]) \in 0..MaxRequests
           /\ 1..accepted \subseteq Ids
  <1> USE ServerAssumption DEF ServerAssumption, PeersTyped
  <1>1. plan.asks \in Seq(Seq(Packets)) /\ Len(plan.asks) <= MaxPeers /\ maxIdle \in Nat \ {0}
    BY DEF maxIdle
  <1>2. Len(plan.asks) \in 0..MaxPeers /\ DOMAIN plan.asks = 1..Len(plan.asks)
    BY <1>1
  <1>3. \A c \in 1..Len(plan.asks) : plan.asks[c] \in Seq(Packets) /\ Len(plan.asks[c]) <= MaxRequests
    BY <1>1, <1>2
  <1>4. \A c \in 1..Len(plan.asks) : Len(plan.asks[c]) \in 0..MaxRequests
    BY <1>3
  <1>5. accepted \in Nat /\ arrived \in Nat /\ accepted <= arrived /\ arrived <= Len(plan.asks)
    BY <1>2
  <1>6. 1..accepted \subseteq Ids
    BY <1>2, <1>5 DEF Ids
  <1> QED BY <1>1, <1>2, <1>4, <1>5, <1>6

\* One request of a connection changes; what counts changes by it alone.
LEMMA OneJob ==
    ASSUME JobsCounted, NEW c \in Ids, NEW n \in Numbers,
           NEW v \in Unsettled \cup {"none", "over"},
           job' = [job EXCEPT ![c][n] = v]
    PROVE  /\ job' \in [Ids -> [Numbers -> Unsettled \cup {"none", "over"}]]
           /\ \A d \in Ids : d # c => job'[d] = job[d] /\ Counting(d)' = Counting(d)
           /\ job'[c][n] = v /\ \A m \in Numbers : m # n => job'[c][m] = job[c][m]
           /\ Cardinality(Counting(c)) \in Nat /\ Cardinality(Counting(c)') \in Nat
           /\ Cardinality(Counting(c)') + (IF job[c][n] \in Unsettled THEN 1 ELSE 0)
                 = Cardinality(Counting(c)) + (IF v \in Unsettled THEN 1 ELSE 0)
  <1> USE ServerAssumption DEF ServerAssumption
  <1>1. job \in [Ids -> [Numbers -> Unsettled \cup {"none", "over"}]]
    BY DEF JobsCounted
  <1>2. /\ job' \in [Ids -> [Numbers -> Unsettled \cup {"none", "over"}]]
        /\ \A d \in Ids : d # c => job'[d] = job[d]
        /\ job'[c][n] = v /\ \A m \in Numbers : m # n => job'[c][m] = job[c][m]
    BY <1>1
  <1>3. \A d \in Ids : d # c => Counting(d)' = Counting(d)
    BY <1>2 DEF Counting
  <1> DEFINE A == Counting(c)
             B == Counting(c)'
  <1>4. A \ {n} = B \ {n}
    BY <1>2 DEF Counting
  <1>5. IsFiniteSet(A)
    <2>1. IsFiniteSet(Numbers)
      <3>1. 1 \in Int /\ MaxRequests \in Int
        OBVIOUS
      <3> QED BY <3>1, FS_Interval DEF Numbers
    <2>2. A \subseteq Numbers
      BY DEF Counting
    <2> QED BY <2>1, <2>2, FS_Subset
  <1>6. (n \in A <=> job[c][n] \in Unsettled) /\ (n \in B <=> v \in Unsettled)
    BY <1>2 DEF Counting
  <1> HIDE DEF A, B
  <1>7. /\ Cardinality(A) \in Nat /\ Cardinality(B) \in Nat
        /\ Cardinality(B) + (IF n \in A THEN 1 ELSE 0) = Cardinality(A) + (IF n \in B THEN 1 ELSE 0)
    BY <1>4, <1>5, OneApart
  <1> QED BY <1>2, <1>3, <1>6, <1>7 DEF A, B

\* A Runner at its limit, whose connection is there, has a request that will
\* notify it.
LEMMA SomeUnderway ==
    ASSUME JobsCounted, NEW c \in Ids, concurrency[c] > 0, ~told[c]
    PROVE  \E n \in Numbers : job[c][n] \in Underway
  <1>1. Counting(c) # {}
    <2>1. concurrency[c] = Cardinality(Counting(c)) /\ Cardinality({}) = 0
      BY FS_EmptySet DEF JobsCounted
    <2>2. Cardinality(Counting(c)) # 0
      BY <2>1
    <2> QED BY <2>1, <2>2
  <1>2. PICK n \in Numbers : job[c][n] \in Unsettled
    BY <1>1 DEF Counting
  <1>3. job[c][n] # "dropped"
    BY DEF JobsCounted
  <1> QED BY <1>2, <1>3 DEF Underway

\* A request that is settled counts no more.
LEMMA SettleCounts ==
    ASSUME JobsCounted, NEW c \in Ids, NEW n \in Numbers, job[c][n] \in Unsettled, Settle(c, n),
           UNCHANGED <<told, taken>>
    PROVE  /\ JobsCounted'
           /\ \A d \in Ids : concurrency'[d] <= concurrency[d]
           /\ \A d \in Ids : d # c => job'[d] = job[d] /\ concurrency'[d] = concurrency[d]
  <1>1. "over" \in Unsettled \cup {"none", "over"} /\ "over" \notin Unsettled
    BY DEF Unsettled, Pools
  <1>2. job' = [job EXCEPT ![c][n] = "over"]
        /\ concurrency' = [concurrency EXCEPT ![c] = IF concurrency[c] > 0 THEN concurrency[c] - 1 ELSE 0]
    BY DEF Settle
  <1>3. /\ job' \in [Ids -> [Numbers -> Unsettled \cup {"none", "over"}]]
        /\ \A d \in Ids : d # c => job'[d] = job[d] /\ Counting(d)' = Counting(d)
        /\ job'[c][n] = "over" /\ \A m \in Numbers : m # n => job'[c][m] = job[c][m]
        /\ Cardinality(Counting(c)) \in Nat /\ Cardinality(Counting(c)') \in Nat
        /\ Cardinality(Counting(c)') + 1 = Cardinality(Counting(c))
    <2> DEFINE v == "over"
    <2>1. v \in Unsettled \cup {"none", "over"} /\ job' = [job EXCEPT ![c][n] = v]
      BY <1>2
    <2> HIDE DEF v
    <2>2. /\ job' \in [Ids -> [Numbers -> Unsettled \cup {"none", "over"}]]
          /\ \A d \in Ids : d # c => job'[d] = job[d] /\ Counting(d)' = Counting(d)
          /\ job'[c][n] = v /\ \A m \in Numbers : m # n => job'[c][m] = job[c][m]
          /\ Cardinality(Counting(c)) \in Nat /\ Cardinality(Counting(c)') \in Nat
          /\ Cardinality(Counting(c)') + (IF job[c][n] \in Unsettled THEN 1 ELSE 0)
                = Cardinality(Counting(c)) + (IF v \in Unsettled THEN 1 ELSE 0)
      BY <2>1, OneJob
    <2>3. v = "over" /\ v \notin Unsettled
      BY <1>1 DEF v
    <2> QED BY <2>2, <2>3
  <1>4. concurrency \in [Ids -> Nat] /\ concurrency[c] = Cardinality(Counting(c))
    BY DEF JobsCounted
  <1>5. /\ concurrency' \in [Ids -> Nat]
        /\ \A d \in Ids : d # c => concurrency'[d] = concurrency[d]
        /\ concurrency'[c] = Cardinality(Counting(c)') /\ concurrency'[c] <= concurrency[c]
    BY <1>2, <1>3, <1>4
  <1>6. \A d \in Ids : \A m \in Numbers :
           /\ m > taken'[d] => job'[d][m] = "none"
           /\ job'[d][m] = "dropped" => told'[d]
    <2>1. \A d \in Ids : \A m \in Numbers :
             job'[d][m] = job[d][m] \/ (d = c /\ m = n /\ job'[d][m] = "over")
      BY <1>3
    <2>2. ~(n > taken[c])
      BY <1>1 DEF JobsCounted, Unsettled, Pools
    <2> QED BY <2>1, <2>2 DEF JobsCounted
  <1>7. \A d \in Ids : concurrency'[d] = Cardinality(Counting(d)')
    BY <1>3, <1>5 DEF JobsCounted
  <1> QED BY <1>3, <1>4, <1>5, <1>6, <1>7 DEF JobsCounted

-----------------------------------------------------------------------------
(* The connections.                                                        *)

\* A peer that connects, or sends, changes nothing the server has.
LEMMA PeerKeepsServing ==
    ASSUME ServingInv, PeerConnects \/ \E c \in Ids : PeerSends(c)
    PROVE  ServingInv'
  <1>0. /\ UNCHANGED <<plan, accepted, current, cache, stream, told, idle, offered, runner,
                       concurrency, taken, job, scanTimer>>
        /\ \/ arrived' = arrived + 1 /\ arrived < Len(plan.asks) /\ UNCHANGED sent
           \/ /\ UNCHANGED arrived
              /\ \E c \in Ids : /\ stream[c] = "open" /\ sent[c] < Len(plan.asks[c])
                                /\ sent' = [sent EXCEPT ![c] = sent[c] + 1]
    BY DEF PeerConnects, PeerSends
  <1>1. PeersTyped'
    <2>1. CASE arrived' = arrived + 1 /\ arrived < Len(plan.asks) /\ UNCHANGED sent
      <3>1. arrived' \in 0..Len(plan.asks) /\ accepted \in 0..arrived'
        BY <2>1, PlanTyped DEF ServingInv
      <3> QED BY <1>0, <2>1, <3>1 DEF ServingInv, PeersTyped
    <2>2. ASSUME UNCHANGED arrived, NEW c \in Ids, stream[c] = "open",
                 sent[c] < Len(plan.asks[c]), sent' = [sent EXCEPT ![c] = sent[c] + 1]
          PROVE  PeersTyped'
      <3>1. sent \in [Ids -> Nat] /\ c <= accepted /\ taken[c] \in Nat /\ taken[c] <= sent[c]
            /\ sent[c] \in Nat /\ c \in Nat /\ accepted \in Nat
        BY <2>2, PlanTyped DEF ServingInv, PeersTyped, StreamsTyped, Ids
      <3>2. c \in 1..Len(plan.asks)
        BY <3>1, PlanTyped DEF Ids, ServingInv
      <3>3. Len(plan.asks[c]) \in Nat
        BY <3>2, PlanTyped DEF ServingInv
      <3>4. sent[c] + 1 <= Len(plan.asks[c]) /\ taken[c] <= sent[c] + 1 /\ sent[c] + 1 \in Nat
            /\ ~(c > accepted)
        BY <2>2, <3>1, <3>3
      <3>5. sent' \in [Ids -> Nat] /\ sent'[c] = sent[c] + 1 /\ \A d \in Ids : d # c => sent'[d] = sent[d]
        BY <2>2, <3>1, <3>4
      <3> QED BY <1>0, <2>2, <3>4, <3>5 DEF ServingInv, PeersTyped
    <2> QED BY <1>0, <2>1, <2>2
  <1>2. StreamsTyped' /\ CacheCounted' /\ JobsCounted' /\ LimitKept'
    <2>1. Counting(1)' = Counting(1) /\ \A c \in Ids : Counting(c)' = Counting(c)
      BY <1>0 DEF Counting
    <2> QED BY <1>0, <2>1 DEF ServingInv, StreamsTyped, CacheCounted, ConnectionsCounted, JobsCounted,
                              LimitKept, WaitingIsNotified, maxIdle
  <1> QED BY <1>1, <1>2 DEF ServingInv

\* What happens to a stream, or with the time, that leaves requests and cache
\* alone.
LEMMA StreamKeepsServing ==
    ASSUME ServingInv,
           UNCHANGED <<peerVars, serverVars, told, offered, concurrency, taken, job>>,
           stream' \in [Ids -> {"none", "open", "closed", "reported"}],
           \A c \in Ids : stream'[c] = stream[c] \/ (stream[c] = "open" /\ stream'[c] = "closed"),
           runner' \in [Ids -> {"none", "reading", "waiting", "woken", "done", "dead"}],
           \A c \in Ids : runner'[c] = runner[c] \/ runner'[c] \notin {"reading", "waiting"},
           idle' \in [Ids -> 0..maxIdle], scanTimer' \in 0..maxIdle
    PROVE  ServingInv'
  <1>1. PeersTyped'
    BY DEF ServingInv, PeersTyped
  <1>2. StreamsTyped'
    BY DEF ServingInv, StreamsTyped, maxIdle
  <1>3. CacheCounted'
    <2>1. {c \in Ids : stream'[c] \in {"open", "closed"}} = {c \in Ids : stream[c] \in {"open", "closed"}}
      OBVIOUS
    <2> QED BY <2>1 DEF ServingInv, CacheCounted, ConnectionsCounted
  <1>4. JobsCounted'
    <2>1. \A c \in Ids : Counting(c)' = Counting(c)
      BY DEF Counting
    <2> QED BY <2>1 DEF ServingInv, JobsCounted
  <1>5. LimitKept'
    BY DEF ServingInv, LimitKept, WaitingIsNotified
  <1> QED BY <1>1, <1>2, <1>3, <1>4, <1>5 DEF ServingInv

\* A peer hangs up.
LEMMA HangUpKeepsServing ==
    ASSUME ServingInv, NEW c \in Ids, PeerHangsUp(c)
    PROVE  ServingInv'
  <1>1. /\ UNCHANGED <<peerVars, serverVars, told, offered, concurrency, taken, job, runner, idle,
                       scanTimer>>
        /\ stream[c] = "open" /\ stream' = [stream EXCEPT ![c] = "closed"]
    BY DEF PeerHangsUp
  <1>2. StreamsTyped
    BY DEF ServingInv
  <1> QED BY <1>1, <1>2, StreamKeepsServing DEF StreamsTyped

\* Time passes.
LEMMA TickKeepsServing ==
    ASSUME ServingInv, Tick
    PROVE  ServingInv'
  <1>1. /\ UNCHANGED <<peerVars, serverVars, told, offered, concurrency, taken, job, runner, stream>>
        /\ idle' = [c \in Ids |-> IF Hit(cache, c) /\ idle[c] < maxIdle THEN idle[c] + 1 ELSE idle[c]]
        /\ scanTimer' = IF scanTimer > 0 THEN scanTimer - 1 ELSE 0
    BY DEF Tick
  <1>2. StreamsTyped /\ maxIdle \in Nat \ {0}
    BY PlanTyped DEF ServingInv
  <1>3. \A c \in Ids : idle[c] \in 0..maxIdle
    BY <1>2 DEF StreamsTyped
  <1>4. \A c \in Ids : (IF Hit(cache, c) /\ idle[c] < maxIdle THEN idle[c] + 1 ELSE idle[c]) \in 0..maxIdle
    BY <1>2, <1>3
  <1>5. idle' \in [Ids -> 0..maxIdle]
    BY <1>1, <1>4
  <1>6. scanTimer' \in 0..maxIdle
    BY <1>1, <1>2 DEF StreamsTyped
  <1> QED BY <1>1, <1>2, <1>5, <1>6, StreamKeepsServing DEF StreamsTyped

\* read() raises, and _run ends.
LEMMA StreamClosedKeepsServing ==
    ASSUME ServingInv, NEW c \in Ids, RunnerStreamClosed(c)
    PROVE  ServingInv'
  <1>1. /\ UNCHANGED <<peerVars, serverVars, told, offered, concurrency, taken, job, stream, scanTimer>>
        /\ runner' = [runner EXCEPT ![c] = "done"] /\ idle' = [idle EXCEPT ![c] = 0]
    BY DEF RunnerStreamClosed
  <1>2. StreamsTyped /\ maxIdle \in Nat \ {0} /\ 0 \in 0..maxIdle
    BY PlanTyped DEF ServingInv
  <1> QED BY <1>1, <1>2, StreamKeepsServing DEF StreamsTyped

\* The loop is closed, and with it every stream.
LEMMA CloseLoopKeepsServing ==
    ASSUME ServingInv, NEW t \in Threads, CloseLoop(t)
    PROVE  ServingInv'
  <1>1. /\ UNCHANGED <<peerVars, serverVars, told, offered, concurrency, taken, job, runner, idle,
                       scanTimer>>
        /\ stream' = [c \in Ids |-> IF stream[c] = "open" THEN "closed" ELSE stream[c]]
    BY DEF CloseLoop
  <1>2. StreamsTyped
    BY DEF ServingInv
  <1> QED BY <1>1, <1>2, StreamKeepsServing DEF StreamsTyped

\* What the scan gets to is in the cache; and if that is not all of it, the next
\* connection is.
LEMMA ScannedAreCached ==
    ASSUME CacheCounted
    PROVE  /\ Scanned \subseteq ToSet(cache)
           /\ Scanned # ToSet(cache) => FirstActive \in ToSet(cache)
  <1> DEFINE n == Len(cache)
  <1>1. cache \in Seq(Ids) /\ n \in Nat /\ DOMAIN cache = 1..n
    BY DEF CacheCounted
  <1>2. Scanned \subseteq ToSet(cache)
    BY DEF Scanned, ToSet
  <1>3. ASSUME Scanned # ToSet(cache)
        PROVE  FirstActive \in ToSet(cache)
    <2>1. IsFiniteSet(1..n) /\ Cardinality(1..n) = n
      <3>1. 1 \in Int /\ n \in Int
        BY <1>1
      <3>2. IsFiniteSet(1..n) /\ Cardinality(1..n) = IF 1 > n THEN 0 ELSE n - 1 + 1
        BY <3>1, FS_Interval
      <3> QED BY <1>1, <3>2
    <2> DEFINE J == {j \in 1..n : \A k \in j..n : idle[cache[k]] >= maxIdle}
    <2>2. J \subseteq 1..n
      OBVIOUS
    <2>3. Scanned = {cache[i] : i \in J}
      BY <1>1 DEF Scanned
    <2>4. J # 1..n
      <3>1. ToSet(cache) = {cache[i] : i \in 1..n}
        BY <1>1 DEF ToSet
      <3> QED BY <1>3, <2>3, <3>1
    <2> HIDE DEF J
    <2>5. IsFiniteSet(J) /\ Cardinality(J) < n /\ Cardinality(J) \in Nat
      <3>1. IsFiniteSet(J) /\ Cardinality(J) <= n /\ (Cardinality(J) = n => J = 1..n)
        BY <2>1, <2>2, FS_Subset
      <3>2. Cardinality(J) \in Nat
        BY <3>1, FS_CardinalityType
      <3> QED BY <1>1, <2>4, <3>1, <3>2
    <2>6. Cardinality(Scanned) <= Cardinality(J) /\ Cardinality(Scanned) \in Nat
      <3>1. IsFiniteSet(Scanned) /\ Cardinality(Scanned) <= Cardinality(J)
        <4> DEFINE f == [i \in J |-> cache[i]]
        <4>1. f \in Surjection(J, Scanned)
          BY <2>3 DEF Surjection
        <4> QED BY <2>5, <4>1, FS_Surjection
      <3> QED BY <3>1, FS_CardinalityType
    <2>7. n - Cardinality(Scanned) \in 1..n
      BY <1>1, <2>5, <2>6
    <2> QED BY <1>1, <2>7 DEF FirstActive, ToSet
  <1> QED BY <1>2, <1>3

\* The scan closes connections that the close callback then counts out.
LEMMA ScanKeepsServing ==
    ASSUME ServingInv, Scan
    PROVE  ServingInv'
  <1>1. /\ UNCHANGED <<peerVars, serverVars, told, offered, concurrency, taken, job, idle>>
        /\ stream' = [c \in Ids |-> IF c \in Scanned /\ ~IsClosed(c) THEN "closed" ELSE stream[c]]
        /\ runner' = [c \in Ids |-> IF c \in Scanned THEN Notified(c) ELSE runner[c]]
        /\ scanTimer' = IF Scanned = ToSet(cache) THEN maxIdle ELSE maxIdle - idle[FirstActive]
    BY DEF Scan
  <1>2. StreamsTyped /\ CacheCounted /\ maxIdle \in Nat \ {0}
    BY PlanTyped DEF ServingInv
  <1>3. \A c \in Scanned : c \in Ids /\ stream[c] \in {"open", "closed"}
    BY <1>2, ScannedAreCached DEF CacheCounted, ConnectionsCounted
  <1>4. /\ stream' \in [Ids -> {"none", "open", "closed", "reported"}]
        /\ \A c \in Ids : stream'[c] = stream[c] \/ (stream[c] = "open" /\ stream'[c] = "closed")
    BY <1>1, <1>2, <1>3 DEF StreamsTyped, IsClosed
  <1>5. /\ runner' \in [Ids -> {"none", "reading", "waiting", "woken", "done", "dead"}]
        /\ \A c \in Ids : runner'[c] = runner[c] \/ runner'[c] \notin {"reading", "waiting"}
    BY <1>1, <1>2 DEF StreamsTyped, Notified
  <1>6. scanTimer' \in 0..maxIdle
    <2>1. CASE Scanned = ToSet(cache)
      BY <1>1, <1>2, <2>1
    <2>2. CASE Scanned # ToSet(cache)
      <3>1. FirstActive \in Ids
        BY <1>2, <2>2, ScannedAreCached DEF CacheCounted, ConnectionsCounted
      <3>2. idle[FirstActive] \in 0..maxIdle
        BY <1>2, <3>1 DEF StreamsTyped
      <3> QED BY <1>1, <1>2, <2>2, <3>2
    <2> QED BY <2>1, <2>2
  <1>7. idle' \in [Ids -> 0..maxIdle]
    BY <1>1, <1>2 DEF StreamsTyped
  <1> QED BY <1>1, <1>4, <1>5, <1>6, <1>7, StreamKeepsServing

\* A connection that nothing was sent on serves no request.
LEMMA NothingCounts ==
    ASSUME PeersTyped, JobsCounted, NEW c \in Ids, sent[c] = 0
    PROVE  concurrency[c] = 0 /\ taken[c] = 0
  <1>1. taken[c] = 0
    BY DEF PeersTyped
  <1>2. Counting(c) = {}
    <2>1. \A n \in Numbers : n > taken[c]
      BY <1>1 DEF Numbers
    <2>2. \A n \in Numbers : job[c][n] = "none"
      BY <2>1 DEF JobsCounted
    <2> QED BY <2>2 DEF Counting, Unsettled, Pools
  <1>3. concurrency[c] = Cardinality({})
    BY <1>2 DEF JobsCounted
  <1> QED BY <1>1, <1>3, FS_EmptySet

\* A connection is accepted: there is room for it in the cache, and nothing has
\* been sent on it.
LEMMA AcceptKeepsServing ==
    ASSUME ServingInv, Accept
    PROVE  ServingInv'
  <1> USE ServerAssumption DEF ServerAssumption
  <1> DEFINE c == accepted + 1
  <1>0. /\ accepted < arrived /\ current < MaxConnections
        /\ accepted' = c /\ current' = current + 1
        /\ cache' = Set(cache, c, MaxConnections)
        /\ stream' = [stream EXCEPT ![c] = "open"]
        /\ idle' = [idle EXCEPT ![c] = 0]
        /\ offered' = [offered EXCEPT ![c] = [k \in Pools |-> IF pool[k] = "up" THEN "up" ELSE "none"]]
        /\ runner' = [runner EXCEPT ![c] = "reading"]
        /\ UNCHANGED <<plan, arrived, sent, told, concurrency, taken, job, scanTimer>>
    BY DEF Accept, MayAccept
  <1>1. PeersTyped /\ StreamsTyped /\ CacheCounted /\ JobsCounted /\ LimitKept
    BY DEF ServingInv
  <1>2. /\ Len(plan.asks) \in 0..MaxPeers /\ maxIdle \in Nat \ {0}
        /\ accepted \in Nat /\ arrived \in Nat /\ arrived <= Len(plan.asks)
        /\ \A d \in 1..Len(plan.asks) : Len(plan.asks[d]) \in 0..MaxRequests
    BY <1>1, PlanTyped
  <1>3. c \in Ids /\ c \in 1..Len(plan.asks) /\ c > accepted /\ c \in Nat /\ c <= arrived
        /\ \A d \in Ids : d \in Nat /\ (d <= c <=> d <= accepted \/ d = c)
                          /\ (d > c <=> d > accepted /\ d # c)
    BY <1>0, <1>2 DEF Ids
  <1> HIDE DEF c
  <1>4. sent[c] = 0 /\ stream[c] = "none" /\ ~told[c] /\ concurrency[c] = 0
    BY <1>1, <1>3, NothingCounts DEF PeersTyped, StreamsTyped
  <1>5. PeersTyped'
    <2>1. arrived' \in 0..Len(plan'.asks) /\ accepted' \in 0..arrived'
      BY <1>0, <1>2, <1>3
    <2>2. \A d \in Ids : /\ d <= accepted' => sent[d] <= Len(plan.asks[d])
                         /\ d > accepted' => sent[d] = 0
      <3>1. 0 <= Len(plan.asks[c])
        BY <1>2, <1>3
      <3> QED BY <1>0, <1>1, <1>3, <1>4, <3>1 DEF PeersTyped
    <2> QED BY <1>0, <1>1, <2>1, <2>2 DEF PeersTyped
  <1>6. StreamsTyped'
    <2>1. maxIdle' = maxIdle /\ 0 \in 0..maxIdle
      BY <1>0, <1>2 DEF maxIdle
    <2>2. [k \in Pools |-> IF pool[k] = "up" THEN "up" ELSE "none"] \in [Pools -> {"none", "up", "down"}]
      OBVIOUS
    <2>3. offered' \in [Ids -> [Pools -> {"none", "up", "down"}]]
      <3> DEFINE o == [k \in Pools |-> IF pool[k] = "up" THEN "up" ELSE "none"]
      <3>1. o \in [Pools -> {"none", "up", "down"}] /\ offered' = [offered EXCEPT ![c] = o]
        BY <1>0, <2>2
      <3> HIDE DEF o
      <3> QED BY <1>1, <3>1 DEF StreamsTyped
    <2>4. idle' \in [Ids -> 0..maxIdle] /\ scanTimer' \in 0..maxIdle
      BY <1>0, <1>1, <2>1 DEF StreamsTyped
    <2>5. /\ stream' \in [Ids -> {"none", "open", "closed", "reported"}]
          /\ told' \in [Ids -> BOOLEAN]
          /\ runner' \in [Ids -> {"none", "reading", "waiting", "woken", "done", "dead"}]
      BY <1>0, <1>1 DEF StreamsTyped
    <2>6. \A d \in Ids : (stream'[d] = "none" <=> d > accepted') /\ (told'[d] <=> stream'[d] = "reported")
      BY <1>0, <1>1, <1>3, <1>4 DEF StreamsTyped
    <2> QED BY <2>1, <2>3, <2>4, <2>5, <2>6 DEF StreamsTyped
  <1>7. CacheCounted'
    <2>1. cache \in Seq(Ids) /\ IsInjective(cache) /\ current = Len(cache) /\ Len(cache) \in Nat
          /\ ToSet(cache) = {d \in Ids : stream[d] \in {"open", "closed"}}
      BY <1>1 DEF CacheCounted, ConnectionsCounted
    <2>2. c \notin ToSet(cache)
      BY <1>4, <2>1
    <2>3. cache' = Cons(c, cache)
      BY <1>0, <2>1, <2>2 DEF Set, Hit, KicksOut
    <2>4. cache' \in Seq(Ids) /\ Len(cache') = Len(cache) + 1 /\ ToSet(cache') = ToSet(cache) \cup {c}
      <3>1. /\ Cons(c, cache) \in Seq(Ids)
            /\ Len(Cons(c, cache)) = Len(cache) + 1
            /\ ToSet(Cons(c, cache)) = ToSet(cache) \cup {c}
        <4>1. c \in Ids /\ cache \in Seq(Ids)
          BY <1>3, <2>1
        <4> QED BY ONLY <4>1, ConsAdds
      <3> QED BY <2>3, <3>1
    <2>5. IsInjective(cache')
      BY <1>3, <2>1, <2>2, <2>3, ConsDistinct
    <2>6. ToSet(cache') = {d \in Ids : stream'[d] \in {"open", "closed"}}
      BY <1>0, <1>1, <1>3, <2>1, <2>4 DEF StreamsTyped
    <2>7. current' = Len(cache') /\ current' <= MaxConnections
      BY <1>0, <2>1, <2>4
    <2> QED BY <2>4, <2>5, <2>6, <2>7 DEF CacheCounted, ConnectionsCounted
  <1>8. JobsCounted'
    <2>1. \A d \in Ids : Counting(d)' = Counting(d)
      BY <1>0 DEF Counting
    <2> QED BY <1>0, <1>1, <2>1 DEF JobsCounted
  <1>9. LimitKept'
    <2>1. \A d \in Ids : d # c => runner'[d] = runner[d] /\ stream'[d] = stream[d]
      BY <1>0, <1>1 DEF StreamsTyped
    <2>2. runner'[c] = "reading" /\ concurrency'[c] < Concurrency
      BY <1>0, <1>1, <1>3, <1>4 DEF StreamsTyped
    <2> QED BY <1>0, <1>1, <2>1, <2>2 DEF LimitKept, WaitingIsNotified
  <1> QED BY <1>5, <1>6, <1>7, <1>8, <1>9 DEF ServingInv

\* The close callback takes a connection out of the cache, and its Runner no
\* longer waits.
LEMMA OnCloseKeepsServing ==
    ASSUME ServingInv, NEW c \in Ids, OnClose(c)
    PROVE  ServingInv'
  <1>1. PeersTyped /\ StreamsTyped /\ CacheCounted /\ JobsCounted /\ LimitKept
    BY DEF ServingInv
  <1>2. cache \in Seq(Ids) /\ IsInjective(cache) /\ current = Len(cache) /\ Len(cache) \in Nat
        /\ current <= MaxConnections
        /\ ToSet(cache) = {d \in Ids : stream[d] \in {"open", "closed"}}
    BY <1>1 DEF CacheCounted, ConnectionsCounted
  <1>3. stream[c] = "closed" /\ Hit(cache, c)
    BY <1>2 DEF OnClose, Hit
  <1>0. /\ stream' = [stream EXCEPT ![c] = "reported"]
        /\ current' = IF current > 0 THEN current - 1 ELSE 0
        /\ told' = [told EXCEPT ![c] = TRUE]
        /\ runner' = [runner EXCEPT ![c] = Notified(c)]
        /\ cache' = Del(Touch(cache, c), c)
        /\ UNCHANGED <<peerVars, accepted, idle, offered, concurrency, taken, job, scanTimer>>
    BY <1>3 DEF OnClose, CountOut
  <1>4. Notified(c) \in {"none", "reading", "woken", "done", "dead"}
        /\ (Notified(c) = "reading" => runner[c] = "reading")
    BY <1>1 DEF Notified, StreamsTyped
  <1>5. /\ \A d \in Ids : d # c => runner'[d] = runner[d] /\ stream'[d] = stream[d] /\ told'[d] = told[d]
        /\ runner'[c] = Notified(c) /\ stream'[c] = "reported" /\ told'[c] = TRUE
    BY <1>0, <1>1 DEF StreamsTyped
  <1>6. PeersTyped'
    BY <1>0, <1>1 DEF PeersTyped
  <1>7. StreamsTyped'
    <2>1. /\ stream' \in [Ids -> {"none", "open", "closed", "reported"}]
          /\ told' \in [Ids -> BOOLEAN]
          /\ runner' \in [Ids -> {"none", "reading", "waiting", "woken", "done", "dead"}]
      BY <1>0, <1>1, <1>4 DEF StreamsTyped
    <2> QED BY <1>0, <1>1, <1>3, <1>5, <2>1 DEF StreamsTyped, maxIdle
  <1>8. CacheCounted'
    <2> DEFINE touched == Touch(cache, c)
    <2>1. touched \in Seq(Ids) /\ Len(touched) = Len(cache) /\ IsInjective(touched)
          /\ ToSet(touched) = ToSet(cache)
      BY <1>2, <1>3, TouchKeeps
    <2>2. Hit(touched, c)
      BY <1>3, <2>1 DEF Hit
    <2>3. cache' = Del(touched, c)
      BY <1>0
    <2> HIDE DEF touched
    <2>4. /\ cache' \in Seq(Ids) /\ Len(cache') = Len(cache) - 1
          /\ ToSet(cache') \subseteq ToSet(cache)
          /\ \A x \in ToSet(cache) : x # c => x \in ToSet(cache')
      BY <2>1, <2>2, <2>3, DelKeepsOthers
    <2>5. IsInjective(cache') /\ c \notin ToSet(cache')
      BY <2>1, <2>2, <2>3, DelForgets
    <2>6. Len(cache') \in Nat
      BY <2>4
    <2>7. current' = Len(cache') /\ current' <= MaxConnections
      BY <1>0, <1>2, <2>4, <2>6, ServerAssumption DEF ServerAssumption
    <2>8. ToSet(cache') = {d \in Ids : stream'[d] \in {"open", "closed"}}
      <3>1. ToSet(cache') = ToSet(cache) \ {c}
        BY <2>4, <2>5
      <3>2. {d \in Ids : stream'[d] \in {"open", "closed"}} = {d \in Ids : stream[d] \in {"open", "closed"}} \ {c}
        BY <1>5
      <3> QED BY <1>2, <3>1, <3>2
    <2> QED BY <2>4, <2>5, <2>7, <2>8 DEF CacheCounted, ConnectionsCounted
  <1>9. JobsCounted'
    <2>1. \A d \in Ids : Counting(d)' = Counting(d)
      BY <1>0 DEF Counting
    <2> QED BY <1>0, <1>1, <1>5, <2>1 DEF JobsCounted
  <1>10. LimitKept'
    BY <1>0, <1>1, <1>4, <1>5 DEF LimitKept, WaitingIsNotified
  <1> QED BY <1>6, <1>7, <1>8, <1>9, <1>10 DEF ServingInv

-----------------------------------------------------------------------------
(* The Runners.                                                            *)

\* What becomes of a packet.
LEMMA OutcomeTyped ==
    ASSUME StreamsTyped, NEW c \in Ids, NEW packet \in Packets
    PROVE  /\ Outcome(c, packet) \in {"refused", "raised", "ready", "coroutine"} \cup Pools
           /\ \A k \in Pools : Outcome(c, packet) = k => offered[c][k] = "up"
  <1> DEFINE place == Place(c, packet)
  <1>1. place \in Packets
    BY DEF Place, Packets, Pools
  <1>2. \A k \in Pools : offered[c][k] \in {"none", "up", "down"}
    BY DEF StreamsTyped
  <1>3. Outcome(c, packet) =
           CASE place = "garbage"   -> "refused"
             [] place = "raising"   -> "raised"
             [] place = "unknown"   -> "ready"
             [] place = "coroutine" -> "coroutine"
             [] place \in Pools     ->
                  CASE offered[c][place] = "up"   -> place
                    [] offered[c][place] = "none" -> "ready"
                    [] offered[c][place] = "down" ->
                         IF place = "process" THEN "ready" ELSE "raised"
    BY DEF Outcome
  <1> HIDE DEF place
  <1>4. CASE place \in Pools
    <2>1. place \in {"thread", "process"}
      BY <1>4 DEF Pools
    <2>2. CASE offered[c][place] = "up"
      BY <1>3, <1>4, <2>1, <2>2
    <2>3. CASE offered[c][place] = "none"
      BY <1>3, <1>4, <2>1, <2>3 DEF Pools
    <2>4. CASE offered[c][place] = "down"
      BY <1>3, <1>4, <2>1, <2>4 DEF Pools
    <2> QED BY <1>2, <1>4, <2>2, <2>3, <2>4
  <1>5. CASE place \notin Pools
    BY <1>1, <1>3, <1>5 DEF Packets, Pools
  <1> QED BY <1>4, <1>5

\* Where _run goes at the top of its loop.
LEMMA TopTyped ==
    ASSUME StreamsTyped, NEW c \in Ids, NEW busy \in Nat
    PROVE  /\ Top(c, busy) \in {"done", "waiting", "reading"}
           /\ Top(c, busy) = "reading" => busy < Concurrency
           /\ Top(c, busy) = "waiting" => busy >= Concurrency /\ ~told[c] /\ ~IsClosed(c)
  BY ServerAssumption DEF Top, ServerAssumption

\* The packet a Runner reads is one its peer sent, and no request has its
\* number yet.
LEMMA NextPacket ==
    ASSUME PeersTyped, StreamsTyped, JobsCounted, NEW c \in Ids, stream[c] = "open", taken[c] < sent[c]
    PROVE  /\ taken[c] + 1 \in Numbers /\ taken[c] \in Nat /\ taken[c] + 1 <= sent[c]
           /\ plan.asks[c][taken[c] + 1] \in Packets
           /\ job[c][taken[c] + 1] = "none"
  <1> USE ServerAssumption DEF ServerAssumption
  <1> DEFINE n == taken[c] + 1
  <1>1. taken[c] \in Nat /\ sent[c] \in Nat /\ c <= accepted /\ c \in Nat /\ c >= 1
    BY DEF PeersTyped, StreamsTyped, Ids
  <1>2. c \in 1..Len(plan.asks) /\ sent[c] <= Len(plan.asks[c])
    <2>1. accepted \in Nat /\ accepted <= Len(plan.asks) /\ Len(plan.asks) \in Nat
      <3>1. accepted \in Nat /\ arrived \in Nat /\ accepted <= arrived
            /\ arrived <= Len(plan.asks) /\ Len(plan.asks) \in 0..MaxPeers
        BY PlanTyped
      <3> QED BY <3>1
    <2> QED BY <1>1, <2>1 DEF PeersTyped
  <1>3. plan.asks[c] \in Seq(Packets) /\ Len(plan.asks[c]) \in 0..MaxRequests
    <2>1. plan.asks \in Seq(Seq(Packets))
      BY DEF PeersTyped
    <2> QED BY <1>2, <2>1, PlanTyped
  <1>4. n \in Nat /\ n >= 1 /\ n <= sent[c] /\ n > taken[c]
    BY <1>1
  <1>5. n \in 1..Len(plan.asks[c]) /\ n \in Numbers
    BY <1>1, <1>2, <1>3, <1>4 DEF Numbers
  <1>6. plan.asks[c][n] \in Packets
    BY <1>3, <1>5
  <1>7. job[c][n] = "none"
    BY <1>4, <1>5 DEF JobsCounted
  <1> QED BY <1>1, <1>4, <1>5, <1>6, <1>7

\* A step of a Runner that leaves the connections and the limits alone.
LEMMA ReadTyped ==
    ASSUME ServingInv, NEW c \in Ids, RunnerReads(c)
    PROVE  /\ PeersTyped' /\ CacheCounted'
           /\ taken' = [taken EXCEPT ![c] = taken[c] + 1] /\ taken' \in [Ids -> Nat]
           /\ idle' \in [Ids -> 0..maxIdle'] /\ maxIdle' = maxIdle
  <1>0. /\ stream[c] = "open" /\ taken[c] < sent[c]
        /\ taken' = [taken EXCEPT ![c] = taken[c] + 1]
        /\ idle' = [idle EXCEPT ![c] = 0]
        /\ UNCHANGED <<plan, arrived, accepted, sent, current, cache>>
        /\ stream' = stream \/ stream' = [stream EXCEPT ![c] = "closed"]
    BY DEF RunnerReads, Refuse, Raise, Invoke
  <1>1. PeersTyped /\ StreamsTyped /\ CacheCounted /\ JobsCounted
    BY DEF ServingInv
  <1>2. taken[c] + 1 \in Nat /\ taken[c] + 1 <= sent[c]
    <2>1. taken[c] \in Nat /\ taken[c] + 1 <= sent[c]
      BY <1>0, <1>1, NextPacket
    <2> QED BY <2>1
  <1>3. taken' \in [Ids -> Nat] /\ taken'[c] <= sent[c] /\ \A d \in Ids : d # c => taken'[d] = taken[d]
    BY <1>0, <1>1, <1>2 DEF PeersTyped
  <1>4. PeersTyped'
    BY <1>0, <1>1, <1>3 DEF PeersTyped
  <1>5. CacheCounted'
    <2>1. {d \in Ids : stream'[d] \in {"open", "closed"}} = {d \in Ids : stream[d] \in {"open", "closed"}}
      BY <1>0, <1>1 DEF StreamsTyped
    <2> QED BY <1>0, <1>1, <2>1 DEF CacheCounted, ConnectionsCounted
  <1>6. maxIdle' = maxIdle /\ 0 \in 0..maxIdle
    <2>1. maxIdle \in Nat \ {0}
      BY <1>1, PlanTyped
    <2> QED BY <1>0, <2>1 DEF maxIdle
  <1>7. idle' \in [Ids -> 0..maxIdle]
    BY <1>0, <1>1, <1>6 DEF StreamsTyped
  <1> QED BY <1>0, <1>3, <1>4, <1>5, <1>6, <1>7

\* A packet that is refused, or that ends _run with an exception, is no request.
LEMMA RefusedKeepsServing ==
    ASSUME ServingInv, NEW c \in Ids, RunnerReads(c), Refuse(c) \/ Raise(c)
    PROVE  ServingInv'
  <1>0. /\ stream[c] = "open"
        /\ UNCHANGED <<plan, arrived, accepted, sent, told, offered, scanTimer, concurrency, job>>
        /\ stream' = stream \/ stream' = [stream EXCEPT ![c] = "closed"]
        /\ runner' = [runner EXCEPT ![c] = "done"] \/ runner' = [runner EXCEPT ![c] = "dead"]
    BY DEF RunnerReads, Refuse, Raise
  <1>1. PeersTyped /\ StreamsTyped /\ JobsCounted /\ LimitKept
    BY DEF ServingInv
  <1>2. /\ PeersTyped' /\ CacheCounted'
        /\ taken' = [taken EXCEPT ![c] = taken[c] + 1] /\ taken' \in [Ids -> Nat]
        /\ idle' \in [Ids -> 0..maxIdle'] /\ maxIdle' = maxIdle
    BY ReadTyped
  <1>3. StreamsTyped'
    BY <1>0, <1>1, <1>2 DEF StreamsTyped
  <1>4. JobsCounted'
    <2>1. \A d \in Ids : Counting(d)' = Counting(d)
      BY <1>0 DEF Counting
    <2>2. \A d \in Ids : taken[d] \in Nat /\ taken'[d] \in Nat /\ taken'[d] >= taken[d]
      <3>1. \A d \in Ids : taken[d] \in Nat
        BY <1>1 DEF PeersTyped
      <3> QED BY <1>2, <3>1
    <2>3. \A d \in Ids, n \in Numbers : n > taken'[d] => job'[d][n] = "none"
      BY <1>0, <1>1, <2>2 DEF JobsCounted, Numbers
    <2> QED BY <1>0, <1>1, <2>1, <2>3 DEF JobsCounted
  <1>5. LimitKept'
    <2>1. \A d \in Ids : /\ runner'[d] \in {"reading", "waiting"} => runner'[d] = runner[d]
                         /\ stream[d] = "closed" => stream'[d] = "closed"
                         /\ stream'[d] = "reported" => stream[d] = "reported"
      BY <1>0, <1>1 DEF StreamsTyped
    <2> QED BY <1>0, <1>1, <2>1 DEF LimitKept, WaitingIsNotified
  <1> QED BY <1>2, <1>3, <1>4, <1>5 DEF ServingInv

\* A request that is invoked counts for the limit; at the limit, _run waits for
\* one of those that count.
LEMMA InvokeKeepsServing ==
    ASSUME ServingInv, NEW c \in Ids, RunnerReads(c),
           NEW v \in {"ready", "coroutine"} \cup Pools, Invoke(c, v)
    PROVE  ServingInv'
  <1> DEFINE n == taken[c] + 1
             busy == concurrency[c] + 1
  <1>0. /\ stream[c] = "open" /\ runner[c] = "reading" /\ taken[c] < sent[c]
        /\ UNCHANGED <<plan, arrived, accepted, sent, told, offered, scanTimer, stream>>
        /\ job' = [job EXCEPT ![c][n] = v]
        /\ concurrency' = [concurrency EXCEPT ![c] = busy]
        /\ runner' = [runner EXCEPT ![c] = Top(c, busy)]
    BY DEF RunnerReads, Invoke
  <1>1. PeersTyped /\ StreamsTyped /\ JobsCounted /\ LimitKept
    BY DEF ServingInv
  <1>2. /\ PeersTyped' /\ CacheCounted'
        /\ taken' = [taken EXCEPT ![c] = taken[c] + 1] /\ taken' \in [Ids -> Nat]
        /\ idle' \in [Ids -> 0..maxIdle'] /\ maxIdle' = maxIdle
    BY ReadTyped
  <1>3. n \in Numbers /\ job[c][n] = "none" /\ taken[c] \in Nat
    BY <1>0, <1>1, NextPacket
  <1>4. v \in Unsettled /\ v \in Underway /\ v \in Unsettled \cup {"none", "over"} /\ "none" \notin Unsettled
    BY DEF Unsettled, Underway, Pools
  <1>5. taken'[c] = n /\ \A d \in Ids : d # c => taken'[d] = taken[d]
    BY <1>1, <1>2 DEF PeersTyped
  <1>6. /\ job' \in [Ids -> [Numbers -> Unsettled \cup {"none", "over"}]]
        /\ \A d \in Ids : d # c => job'[d] = job[d] /\ Counting(d)' = Counting(d)
        /\ job'[c][n] = v /\ \A m \in Numbers : m # n => job'[c][m] = job[c][m]
        /\ Cardinality(Counting(c)) \in Nat /\ Cardinality(Counting(c)') \in Nat
        /\ Cardinality(Counting(c)') = Cardinality(Counting(c)) + 1
    <2> HIDE DEF n, busy
    <2>1. /\ job' \in [Ids -> [Numbers -> Unsettled \cup {"none", "over"}]]
          /\ \A d \in Ids : d # c => job'[d] = job[d] /\ Counting(d)' = Counting(d)
          /\ job'[c][n] = v /\ \A m \in Numbers : m # n => job'[c][m] = job[c][m]
          /\ Cardinality(Counting(c)) \in Nat /\ Cardinality(Counting(c)') \in Nat
          /\ Cardinality(Counting(c)') + (IF job[c][n] \in Unsettled THEN 1 ELSE 0)
                = Cardinality(Counting(c)) + (IF v \in Unsettled THEN 1 ELSE 0)
      BY <1>0, <1>1, <1>3, <1>4, OneJob
    <2>2. /\ (IF job[c][n] \in Unsettled THEN 1 ELSE 0) = 0
          /\ (IF v \in Unsettled THEN 1 ELSE 0) = 1
      BY <1>3, <1>4
    <2> QED BY <2>1, <2>2
  <1>7. concurrency[c] \in Nat /\ concurrency[c] < Concurrency /\ busy \in Nat
        /\ busy <= Concurrency /\ concurrency[c] = Cardinality(Counting(c))
    BY <1>0, <1>1, ServerAssumption DEF JobsCounted, LimitKept, ServerAssumption
  <1>8. /\ Top(c, busy) \in {"done", "waiting", "reading"}
        /\ Top(c, busy) = "reading" => busy < Concurrency
        /\ Top(c, busy) = "waiting" => busy >= Concurrency
    BY <1>1, <1>7, TopTyped
  <1> HIDE DEF n, busy
  <1>9. /\ concurrency' \in [Ids -> Nat] /\ concurrency'[c] = busy
        /\ \A d \in Ids : d # c => concurrency'[d] = concurrency[d]
        /\ runner' \in [Ids -> {"none", "reading", "waiting", "woken", "done", "dead"}]
        /\ runner'[c] = Top(c, busy) /\ \A d \in Ids : d # c => runner'[d] = runner[d]
    BY <1>0, <1>1, <1>7, <1>8 DEF StreamsTyped, JobsCounted
  <1>10. StreamsTyped'
    BY <1>0, <1>1, <1>2, <1>9 DEF StreamsTyped
  <1>11. JobsCounted'
    <2>1. \A d \in Ids, m \in Numbers : /\ m > taken'[d] => job'[d][m] = "none"
                                        /\ job'[d][m] = "dropped" => told'[d]
      <3>1. \A m \in Numbers : m > n => m > taken[c] /\ m # n
        BY <1>3 DEF Numbers, n
      <3>2. v # "dropped"
        BY DEF Pools
      <3> QED BY <1>0, <1>1, <1>5, <1>6, <3>1, <3>2 DEF JobsCounted
    <2>2. \A d \in Ids : concurrency'[d] = Cardinality(Counting(d)')
      <3>1. concurrency'[c] = Cardinality(Counting(c)')
        BY <1>6, <1>7, <1>9 DEF busy
      <3> QED BY <1>1, <1>6, <1>9, <3>1 DEF JobsCounted
    <2> QED BY <1>6, <1>9, <2>1, <2>2 DEF JobsCounted
  <1>12. LimitKept'
    <2>1. \A d \in Ids : /\ concurrency'[d] <= Concurrency
                         /\ runner'[d] = "reading" => concurrency'[d] < Concurrency
      BY <1>1, <1>7, <1>8, <1>9 DEF LimitKept
    <2>2. WaitingIsNotified'
      <3>1. ASSUME NEW d \in Ids, runner'[d] = "waiting", d # c
            PROVE  /\ concurrency'[d] >= Concurrency /\ stream'[d] # "reported"
                   /\ \/ \E m \in Numbers : job'[d][m] \in Underway
                      \/ stream'[d] = "closed"
        BY <1>0, <1>1, <1>6, <1>9, <3>1 DEF LimitKept, WaitingIsNotified
      <3>2. runner'[c] = "waiting" =>
              /\ concurrency'[c] >= Concurrency /\ stream'[c] # "reported"
              /\ \E m \in Numbers : job'[c][m] \in Underway
        BY <1>0, <1>3, <1>4, <1>6, <1>8, <1>9
      <3> QED BY <3>1, <3>2 DEF WaitingIsNotified
    <2> QED BY <2>1, <2>2 DEF LimitKept
  <1> QED BY <1>2, <1>10, <1>11, <1>12 DEF ServingInv

\* A Runner reads a packet.
LEMMA ReadsKeepsServing ==
    ASSUME ServingInv, NEW c \in Ids, RunnerReads(c)
    PROVE  ServingInv'
  <1> DEFINE packet == plan.asks[c][taken[c] + 1]
  <1>1. packet \in Packets
    <2>1. PeersTyped /\ StreamsTyped /\ JobsCounted /\ stream[c] = "open" /\ taken[c] < sent[c]
      BY DEF ServingInv, RunnerReads
    <2> QED BY <2>1, NextPacket
  <1>2. \/ Refuse(c) \/ Raise(c)
        \/ Outcome(c, packet) \notin {"refused", "raised"} /\ Invoke(c, Outcome(c, packet))
    BY DEF RunnerReads
  <1> HIDE DEF packet
  <1>3. Outcome(c, packet) \in {"refused", "raised", "ready", "coroutine"} \cup Pools
    BY <1>1, OutcomeTyped DEF ServingInv
  <1>4. CASE Refuse(c) \/ Raise(c)
    BY <1>4, RefusedKeepsServing
  <1>5. ASSUME Outcome(c, packet) \notin {"refused", "raised"}, Invoke(c, Outcome(c, packet))
        PROVE  ServingInv'
    <2>1. PICK v \in {"ready", "coroutine"} \cup Pools : Outcome(c, packet) = v
      BY <1>3, <1>5
    <2>2. Invoke(c, v)
      BY <1>5, <2>1
    <2> QED BY <2>2, InvokeKeepsServing
  <1> QED BY <1>2, <1>4, <1>5

\* A Runner that was woken looks at the limit again: if it waits again, there
\* is again a request that will wake it.
LEMMA ResumesKeepsServing ==
    ASSUME ServingInv, NEW c \in Ids, RunnerResumes(c)
    PROVE  ServingInv'
  <1> DEFINE busy == concurrency[c]
  <1>1. PeersTyped /\ StreamsTyped /\ CacheCounted /\ JobsCounted /\ LimitKept
    BY DEF ServingInv
  <1>2. maxIdle \in Nat \ {0} /\ 0 \in 0..maxIdle
    <2>1. maxIdle \in Nat \ {0}
      BY <1>1, PlanTyped
    <2> QED BY <2>1
  <1>3. busy \in Nat /\ busy <= Concurrency
    BY <1>1 DEF JobsCounted, LimitKept
  <1>4. /\ Top(c, busy) \in {"done", "waiting", "reading"}
        /\ Top(c, busy) = "reading" => busy < Concurrency
        /\ Top(c, busy) = "waiting" => busy >= Concurrency /\ ~told[c] /\ ~IsClosed(c)
    BY <1>1, <1>3, TopTyped
  <1>5. /\ runner' = [runner EXCEPT ![c] = Top(c, busy)]
        /\ idle' = [idle EXCEPT ![c] = IF runner'[c] = "reading" THEN 0 ELSE idle[c]]
        /\ UNCHANGED <<plan, arrived, accepted, sent, current, cache, stream, told, offered,
                       concurrency, taken, job, scanTimer>>
    BY DEF RunnerResumes
  <1>6. /\ runner' \in [Ids -> {"none", "reading", "waiting", "woken", "done", "dead"}]
        /\ runner'[c] = Top(c, busy) /\ \A d \in Ids : d # c => runner'[d] = runner[d]
    BY <1>1, <1>4, <1>5 DEF StreamsTyped
  <1>7. PeersTyped' /\ CacheCounted'
    BY <1>1, <1>5 DEF PeersTyped, CacheCounted, ConnectionsCounted
  <1>8. StreamsTyped'
    <2>1. idle' \in [Ids -> 0..maxIdle]
      BY <1>1, <1>2, <1>5 DEF StreamsTyped
    <2> QED BY <1>1, <1>5, <1>6, <2>1 DEF StreamsTyped, maxIdle
  <1>9. JobsCounted'
    <2>1. \A d \in Ids : Counting(d)' = Counting(d)
      BY <1>5 DEF Counting
    <2> QED BY <1>1, <1>5, <2>1 DEF JobsCounted
  <1>10. runner'[c] = "waiting" =>
            /\ concurrency[c] >= Concurrency /\ stream[c] # "reported"
            /\ \E n \in Numbers : job[c][n] \in Underway
    <2> SUFFICES ASSUME runner'[c] = "waiting"
                 PROVE  /\ concurrency[c] >= Concurrency /\ stream[c] # "reported"
                        /\ \E n \in Numbers : job[c][n] \in Underway
      OBVIOUS
    <2>1. busy >= Concurrency /\ ~told[c] /\ stream[c] # "reported"
      BY <1>4, <1>6 DEF IsClosed
    <2>2. concurrency[c] > 0
      BY <1>3, <2>1, ServerAssumption DEF ServerAssumption
    <2> QED BY <1>1, <2>1, <2>2, SomeUnderway
  <1>11. LimitKept'
    BY <1>1, <1>4, <1>5, <1>6, <1>10 DEF LimitKept, WaitingIsNotified
  <1> QED BY <1>7, <1>8, <1>9, <1>11 DEF ServingInv

\* A request goes on without being settled: nothing that counts changes.
LEMMA JobMoves ==
    ASSUME ServingInv, NEW c \in Ids, NEW n \in Numbers, NEW v \in Unsettled,
           job[c][n] \in Unsettled, job' = [job EXCEPT ![c][n] = v], v = "dropped" => told[c],
           UNCHANGED <<plan, arrived, accepted, sent, current, cache, stream, told, offered, runner,
                       concurrency, taken, scanTimer>>,
           idle' \in [Ids -> 0..maxIdle]
    PROVE  ServingInv'
  <1>1. PeersTyped /\ StreamsTyped /\ CacheCounted /\ JobsCounted /\ LimitKept
    BY DEF ServingInv
  <1>2. PeersTyped' /\ CacheCounted'
    BY <1>1 DEF PeersTyped, CacheCounted, ConnectionsCounted
  <1>3. StreamsTyped'
    BY <1>1 DEF StreamsTyped, maxIdle
  <1>4. /\ job' \in [Ids -> [Numbers -> Unsettled \cup {"none", "over"}]]
        /\ \A d \in Ids : d # c => job'[d] = job[d] /\ Counting(d)' = Counting(d)
        /\ job'[c][n] = v /\ \A m \in Numbers : m # n => job'[c][m] = job[c][m]
        /\ Cardinality(Counting(c)) \in Nat /\ Cardinality(Counting(c)') \in Nat
        /\ Cardinality(Counting(c)') + (IF job[c][n] \in Unsettled THEN 1 ELSE 0)
              = Cardinality(Counting(c)) + (IF v \in Unsettled THEN 1 ELSE 0)
    BY <1>1, OneJob
  <1>5. Cardinality(Counting(c)') = Cardinality(Counting(c))
    BY <1>4
  <1>6. JobsCounted'
    <2>1. ~(n > taken[c])
      BY <1>1 DEF JobsCounted, Unsettled, Pools
    <2>2. \A d \in Ids, m \in Numbers : /\ m > taken'[d] => job'[d][m] = "none"
                                        /\ job'[d][m] = "dropped" => told'[d]
      BY <1>1, <1>4, <2>1 DEF JobsCounted
    <2>3. \A d \in Ids : concurrency'[d] = Cardinality(Counting(d)')
      BY <1>1, <1>4, <1>5 DEF JobsCounted
    <2> QED BY <1>1, <1>4, <2>2, <2>3 DEF JobsCounted
  <1>7. LimitKept'
    <2>1. ASSUME NEW d \in Ids, runner[d] = "waiting"
          PROVE  /\ concurrency[d] >= Concurrency /\ stream[d] # "reported"
                 /\ \/ \E m \in Numbers : job'[d][m] \in Underway
                    \/ stream[d] = "closed"
      <3>1. /\ concurrency[d] >= Concurrency /\ stream[d] # "reported"
            /\ \/ \E m \in Numbers : job[d][m] \in Underway
               \/ stream[d] = "closed"
        BY <1>1, <2>1 DEF LimitKept, WaitingIsNotified
      <3>2. CASE d # c
        BY <1>4, <3>1, <3>2
      <3>3. CASE d = c
        <4>1. ~told[c]
          BY <1>1, <3>1, <3>3 DEF StreamsTyped
        <4>2. v \in Underway
          BY <4>1 DEF Underway
        <4> QED BY <1>4, <3>1, <3>3, <4>2
      <3> QED BY <3>2, <3>3
    <2> QED BY <1>1, <2>1 DEF LimitKept, WaitingIsNotified
  <1> QED BY <1>2, <1>3, <1>6, <1>7 DEF ServingInv

\* The method of a request returns.
LEMMA FinishesKeepsServing ==
    ASSUME ServingInv, NEW c \in Ids, NEW n \in Numbers, JobFinishes(c, n)
    PROVE  ServingInv'
  <1> DEFINE v == "ready"
  <1>1. v \in Unsettled /\ v # "dropped" /\ job[c][n] \in Unsettled
    BY DEF JobFinishes, InPool, Unsettled, Pools
  <1>2. /\ job' = [job EXCEPT ![c][n] = v]
        /\ UNCHANGED <<plan, arrived, accepted, sent, current, cache, stream, told, idle, offered,
                       runner, concurrency, taken, scanTimer>>
    BY DEF JobFinishes
  <1>3. idle' \in [Ids -> 0..maxIdle]
    BY <1>2 DEF ServingInv, StreamsTyped
  <1> HIDE DEF v
  <1> QED BY <1>1, <1>2, <1>3, JobMoves

\* A request is settled: one that waits at the limit is woken.
LEMMA SettleKeepsServing ==
    ASSUME ServingInv, NEW c \in Ids, NEW n \in Numbers, job[c][n] \in Unsettled, Settle(c, n),
           UNCHANGED <<plan, arrived, accepted, sent, current, cache, stream, told, offered, taken,
                       scanTimer>>
    PROVE  ServingInv'
  <1>1. PeersTyped /\ StreamsTyped /\ CacheCounted /\ JobsCounted /\ LimitKept
    BY DEF ServingInv
  <1>2. /\ idle' = [idle EXCEPT ![c] = 0]
        /\ runner' = [runner EXCEPT ![c] = Notified(c)]
    BY DEF Settle
  <1>3. /\ JobsCounted'
        /\ \A d \in Ids : concurrency'[d] <= concurrency[d]
        /\ \A d \in Ids : d # c => job'[d] = job[d] /\ concurrency'[d] = concurrency[d]
    BY <1>1, SettleCounts
  <1>4. maxIdle \in Nat \ {0} /\ 0 \in 0..maxIdle
    <2>1. maxIdle \in Nat \ {0}
      BY <1>1, PlanTyped
    <2> QED BY <2>1
  <1>5. PeersTyped' /\ CacheCounted'
    BY <1>1 DEF PeersTyped, CacheCounted, ConnectionsCounted
  <1>6. /\ runner' \in [Ids -> {"none", "reading", "waiting", "woken", "done", "dead"}]
        /\ \A d \in Ids : d # c => runner'[d] = runner[d]
        /\ runner'[c] # "waiting" /\ (runner'[c] = "reading" => runner[c] = "reading")
    BY <1>1, <1>2 DEF StreamsTyped, Notified
  <1>7. StreamsTyped'
    <2>1. idle' \in [Ids -> 0..maxIdle]
      BY <1>1, <1>2, <1>4 DEF StreamsTyped
    <2> QED BY <1>1, <1>6, <2>1 DEF StreamsTyped, maxIdle
  <1>8. LimitKept'
    <2>1. \A d \in Ids : concurrency[d] \in Nat /\ concurrency'[d] \in Nat
      BY <1>1, <1>3 DEF JobsCounted
    <2>2. \A d \in Ids : /\ concurrency'[d] <= Concurrency
                         /\ runner'[d] = "reading" => concurrency'[d] < Concurrency
      BY <1>1, <1>3, <1>6, <2>1, ServerAssumption DEF LimitKept, ServerAssumption
    <2>3. WaitingIsNotified'
      BY <1>1, <1>3, <1>6 DEF LimitKept, WaitingIsNotified
    <2> QED BY <2>2, <2>3 DEF LimitKept
  <1> QED BY <1>3, <1>5, <1>7, <1>8 DEF ServingInv

\* A response is dropped, written, or has failed; or its write ends.
LEMMA RespondKeepsServing ==
    ASSUME ServingInv, NEW c \in Ids, NEW n \in Numbers, Respond(c, n)
    PROVE  ServingInv'
  <1>1. job[c][n] \in Unsettled
    BY DEF Respond, SendResponse, WriteEnds, Unsettled
  <1>2. UNCHANGED <<plan, arrived, accepted, sent, current, cache, stream, told, offered, taken,
                    scanTimer>>
    BY DEF Respond, SendResponse, WriteEnds
  <1>3. idle \in [Ids -> 0..maxIdle] /\ 0 \in 0..maxIdle
    <2>1. maxIdle \in Nat \ {0}
      BY PlanTyped DEF ServingInv
    <2> QED BY <2>1 DEF ServingInv, StreamsTyped
  <1>4. \/ Settle(c, n)
        \/ /\ told[c] /\ job' = [job EXCEPT ![c][n] = "dropped"]
           /\ UNCHANGED <<idle, runner, concurrency>>
        \/ /\ job' = [job EXCEPT ![c][n] = "writing"] /\ idle' = [idle EXCEPT ![c] = 0]
           /\ UNCHANGED <<runner, concurrency>>
    BY DEF Respond, SendResponse, WriteEnds
  <1>5. CASE Settle(c, n)
    BY <1>1, <1>2, <1>5, SettleKeepsServing
  <1>6. CASE told[c] /\ job' = [job EXCEPT ![c][n] = "dropped"] /\ UNCHANGED <<idle, runner, concurrency>>
    <2> DEFINE v == "dropped"
    <2>1. v \in Unsettled /\ job' = [job EXCEPT ![c][n] = v] /\ told[c]
      BY <1>6 DEF Unsettled
    <2>2. idle' \in [Ids -> 0..maxIdle]
      BY <1>3, <1>6
    <2> HIDE DEF v
    <2> QED BY <1>1, <1>2, <1>6, <2>1, <2>2, JobMoves
  <1>7. CASE job' = [job EXCEPT ![c][n] = "writing"] /\ idle' = [idle EXCEPT ![c] = 0]
             /\ UNCHANGED <<runner, concurrency>>
    <2> DEFINE v == "writing"
    <2>1. v \in Unsettled /\ v # "dropped" /\ job' = [job EXCEPT ![c][n] = v]
      BY <1>7 DEF Unsettled
    <2>2. idle' \in [Ids -> 0..maxIdle]
      BY <1>3, <1>7
    <2> HIDE DEF v
    <2> QED BY <1>1, <1>2, <1>7, <2>1, <2>2, JobMoves
  <1> QED BY <1>4, <1>5, <1>6, <1>7

-----------------------------------------------------------------------------
(* Every step.                                                             *)

\* What the threads do to what is being served: the timer is set, the pools
\* are closed to the Runners.
LEMMA LifeKeepsServing ==
    ASSUME ServingInv, LifeInv, NEW t \in Threads,
           StartCall(t) \/ CloseIfNecessary(t) \/ Interrupted(t) \/ Life(t)
    PROVE  ServingInv'
  <1>1. PeersTyped /\ StreamsTyped /\ CacheCounted /\ JobsCounted /\ LimitKept
    BY DEF ServingInv
  <1>2. maxIdle \in Nat \ {0}
    BY <1>1, PlanTyped
  <1>3. ASSUME UNCHANGED <<peerVars, serverVars, stream, told, idle, offered, runner, concurrency,
                           taken, job>>,
               scanTimer' = scanTimer \/ scanTimer' = maxIdle
        PROVE  ServingInv'
    <2>1. scanTimer' \in 0..maxIdle
      BY <1>1, <1>2, <1>3 DEF StreamsTyped
    <2> QED BY <1>1, <1>3, <2>1, StreamKeepsServing DEF StreamsTyped
  <1>4. CASE CloseLoop(t)
    BY <1>4, CloseLoopKeepsServing
  <1>5. CASE ShutDown(t)
    <2>1. /\ offered' = [c \in Ids |-> [offered[c] EXCEPT ![shutting] =
                                          IF offered[c][shutting] = "up" THEN "down" ELSE offered[c][shutting]]]
          /\ UNCHANGED <<plan, arrived, accepted, sent, current, cache, stream, told, idle, runner,
                         concurrency, taken, job, scanTimer>>
      BY <1>5 DEF ShutDown
    <2>2. offered' \in [Ids -> [Pools -> {"none", "up", "down"}]]
      <3>1. shutting \in Pools
        BY DEF LifeInv, LifeTyped
      <3>2. \A c \in Ids : offered[c] \in [Pools -> {"none", "up", "down"}]
        BY <1>1 DEF StreamsTyped
      <3>3. \A c \in Ids :
               [offered[c] EXCEPT ![shutting] =
                   IF offered[c][shutting] = "up" THEN "down" ELSE offered[c][shutting]]
                     \in [Pools -> {"none", "up", "down"}]
        BY <3>1, <3>2
      <3> QED BY <2>1, <3>3
    <2>3. PeersTyped' /\ CacheCounted'
      BY <1>1, <2>1 DEF PeersTyped, CacheCounted, ConnectionsCounted
    <2>4. StreamsTyped'
      BY <1>1, <2>1, <2>2 DEF StreamsTyped, maxIdle
    <2>5. JobsCounted'
      <3>1. \A c \in Ids : Counting(c)' = Counting(c)
        BY <2>1 DEF Counting
      <3> QED BY <1>1, <2>1, <3>1 DEF JobsCounted
    <2>6. LimitKept'
      BY <1>1, <2>1 DEF LimitKept, WaitingIsNotified
    <2> QED BY <2>3, <2>4, <2>5, <2>6 DEF ServingInv
  <1>6. CASE SetUp(t)
    BY <1>3, <1>6 DEF SetUp
  <1>7. CASE StartCall(t) \/ CloseIfNecessary(t) \/ Interrupted(t) \/ LoopStops(t)
    BY <1>3, <1>7 DEF StartCall, CloseIfNecessary, Interrupted, LoopStops, LeaveLoop
  <1>8. CASE StartLocked(t) \/ CloseLocked(t) \/ Stop(t) \/ Detach(t) \/ Join(t) \/ SetFlags(t)
    BY <1>3, <1>8 DEF StartLocked, CloseLocked, Stop, Detach, Join, SetFlags
  <1> QED BY <1>4, <1>5, <1>6, <1>7, <1>8 DEF Life

\* What the loop does gives no connection, and no request, a pool that is shut.
LEMMA LoopKeepsLife ==
    ASSUME ServingInv, LifeInv,
           \/ PeerConnects \/ Tick \/ Accept \/ Scan
           \/ \E c \in Ids : \/ PeerSends(c) \/ PeerHangsUp(c) \/ Serve(c)
                             \/ \E n \in Numbers : JobFinishes(c, n) \/ Respond(c, n)
    PROVE  LifeInv'
  <1>1. PeersTyped /\ StreamsTyped /\ JobsCounted
    BY DEF ServingInv
  <1>2. offered \in [Ids -> [Pools -> {"none", "up", "down"}]]
        /\ job \in [Ids -> [Numbers -> Unsettled \cup {"none", "over"}]]
    BY <1>1 DEF StreamsTyped, JobsCounted
  <1>3. ASSUME UNCHANGED <<offered, job, plan, lifeVars>>
        PROVE  LifeInv'
    BY <1>3, ServingKeepsLife
  <1>4. ASSUME UNCHANGED <<offered, plan, lifeVars>>,
               NEW c \in Ids, NEW n \in Numbers, NEW v, job' = [job EXCEPT ![c][n] = v],
               \A k \in Pools : v = k => offered[c][k] = "up"
        PROVE  LifeInv'
    <2>1. \A d \in Ids, m \in Numbers, k \in Pools :
              job'[d][m] = k => job[d][m] = k \/ offered[d][k] = "up"
      <3>1. \A d \in Ids, m \in Numbers : job'[d][m] = job[d][m] \/ (d = c /\ job'[d][m] = v)
        BY <1>2, <1>4
      <3> QED BY <1>4, <3>1
    <2> QED BY <1>4, <2>1, ServingKeepsLife
  <1>5. CASE PeerConnects \/ Tick \/ Scan
    BY <1>3, <1>5 DEF PeerConnects, Tick, Scan
  <1>6. CASE Accept
    <2> DEFINE c == accepted + 1
               o == [k \in Pools |-> IF pool[k] = "up" THEN "up" ELSE "none"]
    <2>1. offered' = [offered EXCEPT ![c] = o] /\ UNCHANGED <<plan, job, lifeVars>>
      BY <1>6 DEF Accept
    <2>2. \A k \in Pools : o[k] = "up" => pool[k] = "up"
      OBVIOUS
    <2> HIDE DEF c, o
    <2>3. \A d \in Ids, k \in Pools : offered'[d][k] = "up" => offered[d][k] = "up" \/ pool[k] = "up"
      BY <1>2, <2>1, <2>2
    <2> QED BY <2>1, <2>3, ServingKeepsLife
  <1>7. ASSUME NEW c \in Ids, PeerSends(c) \/ PeerHangsUp(c) \/ OnClose(c) \/ RunnerStreamClosed(c)
                              \/ RunnerResumes(c)
        PROVE  LifeInv'
    BY <1>3, <1>7 DEF PeerSends, PeerHangsUp, OnClose, RunnerStreamClosed, RunnerResumes
  <1>8. ASSUME NEW c \in Ids, RunnerReads(c)
        PROVE  LifeInv'
    <2> DEFINE n == taken[c] + 1
               packet == plan.asks[c][n]
               v == Outcome(c, packet)
    <2>1. UNCHANGED <<offered, plan, lifeVars>>
      BY <1>8 DEF RunnerReads
    <2>2. n \in Numbers /\ packet \in Packets
      BY <1>1, <1>8, NextPacket DEF RunnerReads
    <2>3. Refuse(c) \/ Raise(c) \/ Invoke(c, v)
      BY <1>8 DEF RunnerReads
    <2>4. CASE Refuse(c) \/ Raise(c)
      BY <1>3, <2>1, <2>4 DEF Refuse, Raise
    <2>5. CASE Invoke(c, v)
      <3>1. job' = [job EXCEPT ![c][n] = v]
        BY <2>5 DEF Invoke
      <3>2. \A k \in Pools : v = k => offered[c][k] = "up"
        BY <1>1, <2>2, OutcomeTyped
      <3> HIDE DEF n, v
      <3> QED BY <1>4, <2>1, <2>2, <3>1, <3>2
    <2> QED BY <2>3, <2>4, <2>5
  <1>9. ASSUME NEW c \in Ids, NEW n \in Numbers, JobFinishes(c, n) \/ Respond(c, n)
        PROVE  LifeInv'
    <2>1. PICK v \in {"ready", "dropped", "writing", "over"} : job' = [job EXCEPT ![c][n] = v]
      BY <1>9 DEF JobFinishes, Respond, SendResponse, WriteEnds, Settle
    <2>2. UNCHANGED <<offered, plan, lifeVars>>
      BY <1>9 DEF JobFinishes, Respond, SendResponse, WriteEnds
    <2>3. \A k \in Pools : v # k
      BY DEF Pools
    <2> QED BY <1>4, <2>1, <2>2, <2>3
  <1> QED BY <1>5, <1>6, <1>7, <1>8, <1>9 DEF Serve

\* The invariant holds at first.
LEMMA InitServer ==
    ASSUME Init
    PROVE  ServerInv
  <1> USE ServerAssumption DEF ServerAssumption, Init
  <1>1. PeersTyped
    <2>1. Len(plan.asks) \in Nat
      <3>1. plan.asks \in Seq(Seq(Packets))
        OBVIOUS
      <3> QED BY <3>1
    <2>2. \A c \in Ids : c > accepted
      BY DEF Ids
    <2> QED BY <2>1, <2>2 DEF PeersTyped, Ids
  <1>2. maxIdle \in Nat \ {0}
    BY DEF maxIdle
  <1>3. StreamsTyped
    <2>1. \A c \in Ids : c > accepted
      BY DEF Ids
    <2> QED BY <1>2, <2>1 DEF StreamsTyped
  <1>4. CacheCounted
    <2>1. cache \in Seq(Ids) /\ IsInjective(cache) /\ Len(cache) = 0 /\ ToSet(cache) = {}
      BY DEF IsInjective, ToSet
    <2>2. {c \in Ids : stream[c] \in {"open", "closed"}} = {}
      OBVIOUS
    <2> QED BY <2>1, <2>2 DEF CacheCounted, ConnectionsCounted
  <1>5. JobsCounted
    <2>1. \A c \in Ids : Counting(c) = {}
      BY DEF Counting, Unsettled, Pools
    <2>2. Cardinality({}) = 0
      BY FS_EmptySet
    <2> QED BY <2>1, <2>2 DEF JobsCounted
  <1>6. LimitKept
    BY DEF LimitKept, WaitingIsNotified
  <1>7. LifeTyped
    BY DEF LifeTyped, Places, Pools
  <1>8. OneCloses /\ FlagsAgree /\ LooperLeaves /\ ServesOnceStarted
    BY DEF OneCloses, FlagsAgree, LooperLeaves, ServesOnceStarted, ClosingAt, Running
  <1>9. PoolsShut
    BY DEF PoolsShut, Shut, ClosingAt
  <1> QED BY <1>1, <1>3, <1>4, <1>5, <1>6, <1>7, <1>8, <1>9 DEF ServerInv, ServingInv, LifeInv

\* Every step keeps the invariant.
LEMMA NextKeepsServer ==
    ASSUME ServerInv, [Next]_vars
    PROVE  ServerInv'
  <1>1. ServingInv /\ LifeInv
    BY DEF ServerInv
  <1>2. CASE UNCHANGED vars
    <2>1. PeersTyped' /\ StreamsTyped' /\ CacheCounted'
      BY <1>1, <1>2 DEF vars, ServingInv, PeersTyped, StreamsTyped, CacheCounted, ConnectionsCounted,
                        maxIdle
    <2>2. JobsCounted' /\ LimitKept'
      <3>1. \A c \in Ids : Counting(c)' = Counting(c)
        BY <1>2 DEF Counting, vars
      <3> QED BY <1>1, <1>2, <3>1 DEF vars, ServingInv, JobsCounted, LimitKept, WaitingIsNotified
    <2>3. LifeInv'
      BY <1>1, <1>2, ServingKeepsLife DEF vars
    <2> QED BY <2>1, <2>2, <2>3 DEF ServerInv, ServingInv
  <1>3. CASE ChangeStatus
    <2>1. LifeInv'
      BY <1>1, <1>3, ChangeStatusKeepsLife
    <2>2. ServingInv'
      <3>1. UNCHANGED serving
        BY <1>3 DEF ChangeStatus
      <3> QED BY <1>1, <3>1, StreamKeepsServing DEF ServingInv, StreamsTyped
    <2> QED BY <2>1, <2>2 DEF ServerInv
  <1>4. ASSUME NEW t \in Threads, StartCall(t) \/ CloseIfNecessary(t) \/ Interrupted(t) \/ Life(t)
        PROVE  ServerInv'
    <2>1. ServingInv'
      BY <1>1, <1>4, LifeKeepsServing
    <2>2. PeersTyped /\ StreamsTyped
      BY <1>1 DEF ServingInv
    <2>3. LifeInv'
      BY <1>1, <1>4, <2>2, StartCallKeepsLife, StartLockedKeepsLife, SetUpKeepsLife, LeaveLoopKeepsLife,
         CloseIfNecessaryKeepsLife, CloseLockedKeepsLife, StopKeepsLife, DetachKeepsLife,
         ShutDownKeepsLife, JoinKeepsLife, SetFlagsKeepsLife, CloseLoopKeepsLife
         DEF Life, Interrupted, LoopStops
    <2> QED BY <2>1, <2>3 DEF ServerInv
  <1>5. CASE \/ PeerConnects \/ Tick \/ Accept \/ Scan
             \/ \E c \in Ids : \/ PeerSends(c) \/ PeerHangsUp(c) \/ Serve(c)
                               \/ \E n \in Numbers : JobFinishes(c, n) \/ Respond(c, n)
    <2>1. LifeInv'
      BY <1>1, <1>5, LoopKeepsLife
    <2>2. PeerConnects => ServingInv'
      BY <1>1, PeerKeepsServing
    <2>3. Tick => ServingInv'
      BY <1>1, TickKeepsServing
    <2>4. Accept => ServingInv'
      BY <1>1, AcceptKeepsServing
    <2>5. Scan => ServingInv'
      BY <1>1, ScanKeepsServing
    <2>6. ASSUME NEW c \in Ids, PeerSends(c) \/ PeerHangsUp(c) \/ Serve(c)
          PROVE  ServingInv'
      <3>1. CASE PeerSends(c)
        BY <1>1, <3>1, PeerKeepsServing
      <3>2. CASE PeerHangsUp(c)
        BY <1>1, <3>2, HangUpKeepsServing
      <3>3. CASE OnClose(c)
        BY <1>1, <3>3, OnCloseKeepsServing
      <3>4. CASE RunnerReads(c)
        BY <1>1, <3>4, ReadsKeepsServing
      <3>5. CASE RunnerStreamClosed(c)
        BY <1>1, <3>5, StreamClosedKeepsServing
      <3>6. CASE RunnerResumes(c)
        BY <1>1, <3>6, ResumesKeepsServing
      <3> QED BY <2>6, <3>1, <3>2, <3>3, <3>4, <3>5, <3>6 DEF Serve
    <2>7. ASSUME NEW c \in Ids, NEW n \in Numbers, JobFinishes(c, n) \/ Respond(c, n)
          PROVE  ServingInv'
      BY <1>1, <2>7, FinishesKeepsServing, RespondKeepsServing
    <2>8. ASSUME NEW c \in Ids,
                 \/ PeerSends(c) \/ PeerHangsUp(c) \/ Serve(c)
                 \/ \E n \in Numbers : JobFinishes(c, n) \/ Respond(c, n)
          PROVE  ServingInv'
      BY <2>6, <2>7, <2>8
    <2>9. ServingInv'
      BY <1>5, <2>2, <2>3, <2>4, <2>5, <2>8
    <2> QED BY <2>1, <2>9 DEF ServerInv
  <1> QED BY <1>2, <1>3, <1>4, <1>5 DEF Next

-----------------------------------------------------------------------------
(* What holds of every behaviour.                                          *)

\* The server counts its connections and requests right, wakes the Runners that
\* wait, and its flags say what it is.
THEOREM ServerInvariant == Spec => []ServerInv
  <1>1. Init => ServerInv
    BY InitServer
  <1>2. ServerInv /\ [Next]_vars => ServerInv'
    BY NextKeepsServer
  <1> QED BY <1>1, <1>2, PTL DEF Spec

\* The cache has every connection at most once, so there are no more than peers.
LEMMA CachedArePeers ==
    ASSUME CacheCounted
    PROVE  Len(cache) \in Nat /\ Len(cache) <= MaxPeers
  <1>1. cache \in Seq(Ids) /\ IsInjective(cache) /\ Len(cache) \in Nat /\ MaxPeers \in Nat
    BY ServerAssumption DEF CacheCounted, ServerAssumption
  <1>2. /\ IsFiniteSet(Ids) /\ Cardinality(Ids) = MaxPeers
        /\ IsFiniteSet(1..Len(cache)) /\ Cardinality(1..Len(cache)) = Len(cache)
    <2>1. 1 \in Int /\ MaxPeers \in Int /\ Len(cache) \in Int
      BY <1>1
    <2>2. /\ IsFiniteSet(1..MaxPeers)
          /\ Cardinality(1..MaxPeers) = IF 1 > MaxPeers THEN 0 ELSE MaxPeers - 1 + 1
      BY <2>1, FS_Interval
    <2>3. /\ IsFiniteSet(1..Len(cache))
          /\ Cardinality(1..Len(cache)) = IF 1 > Len(cache) THEN 0 ELSE Len(cache) - 1 + 1
      BY <2>1, FS_Interval
    <2> QED BY <1>1, <2>2, <2>3 DEF Ids
  <1>3. [i \in 1..Len(cache) |-> cache[i]] \in Injection(1..Len(cache), Ids)
    BY <1>1 DEF IsInjective, Injection
  <1>4. Cardinality(1..Len(cache)) <= Cardinality(Ids)
    <2> DEFINE S == 1..Len(cache)
               f == [i \in S |-> cache[i]]
    <2>1. f \in Injection(S, Ids)
      BY <1>3
    <2>2. IsFiniteSet(S) /\ IsFiniteSet(Ids)
      BY <1>2
    <2> HIDE DEF S, f
    <2>3. Cardinality(S) <= Cardinality(Ids)
      BY <2>1, <2>2, FS_Injection
    <2> QED BY <2>3 DEF S
  <1> QED BY <1>1, <1>2, <1>4

\* Every variable has its values, and no connection serves more requests than
\* concurrent_request_per_connection.
THEOREM ServerTyped == Spec => []TypeOK
  <1>1. ServerInv => TypeOK
    <2> SUFFICES ASSUME ServerInv
                 PROVE  TypeOK
      OBVIOUS
    <2> USE ServerAssumption DEF ServerAssumption
    <2>1. PeersTyped /\ StreamsTyped /\ CacheCounted /\ JobsCounted /\ LimitKept /\ LifeTyped
      BY DEF ServerInv, ServingInv, LifeInv
    <2>2. /\ Len(plan.asks) \in 0..MaxPeers /\ maxIdle \in Nat \ {0}
          /\ accepted \in Nat /\ arrived \in Nat /\ accepted <= arrived
          /\ arrived <= Len(plan.asks)
          /\ \A c \in 1..Len(plan.asks) : Len(plan.asks[c]) \in 0..MaxRequests
      BY <2>1, PlanTyped
    <2>3. arrived \in 0..MaxPeers /\ accepted \in 0..arrived
      BY <2>2
    <2>4. current \in 0..MaxPeers /\ cache \in Seq(Ids)
      BY <2>1, CachedArePeers DEF CacheCounted, ConnectionsCounted
    <2>5. sent \in [Ids -> 0..MaxRequests] /\ taken \in [Ids -> 0..MaxRequests]
      <3>1. \A c \in Ids : sent[c] \in 0..MaxRequests
        <4> SUFFICES ASSUME NEW c \in Ids
                     PROVE  sent[c] \in 0..MaxRequests
          OBVIOUS
        <4>1. c \in Nat /\ c >= 1 /\ sent[c] \in Nat
          BY <2>1 DEF Ids, PeersTyped
        <4>2. CASE c <= accepted
          <5>1. c \in 1..Len(plan.asks) /\ sent[c] <= Len(plan.asks[c])
            BY <2>1, <2>2, <4>1, <4>2 DEF PeersTyped
          <5>2. Len(plan.asks[c]) \in 0..MaxRequests
            BY <2>2, <5>1
          <5> QED BY <4>1, <5>1, <5>2
        <4>3. CASE c > accepted
          BY <2>1, <4>3 DEF PeersTyped
        <4> QED BY <2>2, <4>1, <4>2, <4>3
      <3>2. \A c \in Ids : taken[c] \in 0..MaxRequests
        BY <2>1, <3>1 DEF PeersTyped
      <3> QED BY <2>1, <3>1, <3>2 DEF PeersTyped
    <2>6. concurrency \in [Ids -> 0..Concurrency]
      BY <2>1 DEF JobsCounted, LimitKept
    <2>7. /\ stream \in [Ids -> {"none", "open", "closed", "reported"}]
          /\ told \in [Ids -> BOOLEAN]
          /\ idle \in [Ids -> 0..maxIdle]
          /\ offered \in [Ids -> [Pools -> {"none", "up", "down"}]]
          /\ runner \in [Ids -> {"none", "reading", "waiting", "woken", "done", "dead"}]
          /\ job \in [Ids -> [Numbers -> Unsettled \cup {"none", "over"}]]
          /\ scanTimer \in 0..maxIdle
      BY <2>1 DEF StreamsTyped, JobsCounted
    <2> QED BY <2>1, <2>3, <2>4, <2>5, <2>6, <2>7 DEF TypeOK, LifeTyped, Places
  <1> QED BY <1>1, ServerInvariant, PTL

\* _current_connections counts the connections that were accepted and not
\* counted out, at most max_connections, and the cache evicts none of them.
THEOREM ConnectionsAreCounted == Spec => []ConnectionsCounted
  <1>1. ServerInv => ConnectionsCounted
    BY DEF ServerInv, ServingInv, CacheCounted
  <1> QED BY <1>1, ServerInvariant, PTL

\* _current_concurrency counts the requests of a connection that were invoked
\* and not settled.
THEOREM RequestsAreCounted == Spec => []ConcurrencyMatches
  <1>1. ServerInv => ConcurrencyMatches
    BY DEF ServerInv, ServingInv, JobsCounted, ConcurrencyMatches, Counting
  <1> QED BY <1>1, ServerInvariant, PTL

\* A Runner that waits on read_condition is notified: no wake-up is lost.
THEOREM WaitersAreNotified == Spec => []WaitingIsNotified
  <1>1. ServerInv => WaitingIsNotified
    BY DEF ServerInv, ServingInv, LimitKept
  <1> QED BY <1>1, ServerInvariant, PTL

\* A server that says it is closed runs no method in a pool, and starts none.
THEOREM ClosedIsQuiet == Spec => []QuietWhenClosed
  <1>1. ServerInv => QuietWhenClosed
    <2>1. PoolsShut => QuietWhenClosed
      BY DEF PoolsShut, Shut, QuietWhenClosed, InPool
    <2> QED BY <2>1 DEF ServerInv, LifeInv
  <1> QED BY <1>1, ServerInvariant, PTL

\* A server that says it is started has its loop and its pools.
THEOREM StartedIsServing == Spec => []StartedMeansServing
  <1>1. ServerInv => StartedMeansServing
    BY DEF ServerInv, LifeInv, ServesOnceStarted, StartedMeansServing
  <1> QED BY <1>1, ServerInvariant, PTL
=============================================================================
