--------------------------- MODULE ConnectionPool ---------------------------
(***************************************************************************)
(* The LRUConnectionPool of summerrpc/connection_pool.py with both of its  *)
(* subclasses, used the way stub.py and invoker.py use it: callers get a   *)
(* connection of a key through get_connection_from_pool, use it, and       *)
(* release it.                                                             *)
(*                                                                         *)
(* The dedicated pool keeps the idle connections of a key in a Queue, the  *)
(* shared one all of them in a CyclicIterator (helper/iterator.py).  What  *)
(* runs under the pool's lock is one step, except the closing of a         *)
(* container, which takes its connections one by one while callers who     *)
(* got the container before still work on it without that lock.            *)
(***************************************************************************)
EXTENDS Naturals, FiniteSets, Sequences, LRUCache

CONSTANTS
    Callers,
    Impatient,      \* callers that give a timeout to get_connection
    Keys,
    PoolClasses,    \* the subclasses to look at
    PoolSize,       \* connection_pool_size
    PerKey,         \* connections_per_key, for each of them
    MaxConnections, \* bound: connections a factory makes in a behaviour
    MaxContainers,  \* bound: containers made in a behaviour
    MaxCalls        \* bound: calls of each caller

Connections == 1..MaxConnections
Containers  == 1..MaxContainers
Nobody      == "nobody"
AnyKey      == CHOOSE k \in Keys : TRUE
CallerPcs   == {"idle", "evict", "closing", "choose", "check", "replace",
                "using", "putback"}

ASSUME PoolAssumption ==
    /\ Nobody \notin Callers /\ Impatient \subseteq Callers /\ Keys # {}
    /\ PoolClasses \subseteq {"dedicated", "shared"}
    /\ PoolSize \in Nat \ {0} /\ PerKey \in [PoolClasses -> Nat \ {0}]
    /\ MaxConnections \in Nat /\ MaxContainers \in Nat
    /\ MaxCalls \in [Callers -> Nat]

VARIABLES
    poolClass,  \* the class of this pool
    order,      \* the keys of _pool, the most recently used one first
    pool,       \* the container _pool has for a key, 0 for none
    poolClosed, \* _closed
    lock,       \* who holds _lock between steps
    content,    \* the connections in each container
    cursor,     \* _cursor of each container of a shared pool
    containers, \* how many containers were made
    conn,       \* "unmade", "open" or "closed" for each connection
    pc,         \* where each caller is
    key,        \* the key of its call
    cont,       \* the container it works on
    held,       \* the connection it has, 0 for none
    todo,       \* the containers it still has to close
    calls,      \* how many calls it has made
    lost,       \* history: replacements that failed, by container
    retired     \* history: containers whose closing has begun

poolVars   == <<order, pool, poolClosed, lock>>
contVars   == <<content, cursor, containers>>
callerVars == <<pc, key, cont, held, todo, calls>>
history    == <<lost, retired>>
vars == <<poolClass, poolVars, contVars, conn, callerVars, history>>

Init ==
    /\ poolClass \in PoolClasses
    /\ order = <<>>
    /\ pool = [k \in Keys |-> 0]
    /\ poolClosed = FALSE
    /\ lock = Nobody
    /\ content = [c \in Containers |-> <<>>]
    /\ cursor = [c \in Containers |-> 0]
    /\ containers = 0
    /\ conn = [x \in Connections |-> "unmade"]
    /\ pc = [t \in Callers |-> "idle"]
    /\ key = [t \in Callers |-> AnyKey]
    /\ cont = [t \in Callers |-> 0]
    /\ held = [t \in Callers |-> 0]
    /\ todo = [t \in Callers |-> <<>>]
    /\ calls = [t \in Callers |-> 0]
    /\ lost = [c \in Containers |-> 0]
    /\ retired = {}

Dedicated == poolClass = "dedicated"
perKey    == PerKey[poolClass]

\* A shared container's condition is held while the container is closed.
Guarded(c) ==
    ~Dedicated /\ \E t \in Callers : todo[t] # <<>> /\ Head(todo[t]) = c

Made == Cardinality({x \in Connections : conn[x] # "unmade"})

\* The connections the next n calls of a factory make.
NextMade(n) == (Made + 1)..(Made + n)

Make(n) == conn' = [x \in Connections |->
                      IF x \in NextMade(n) THEN "open" ELSE conn[x]]

\* get_connection raises, or get_connection_from_pool ends; t's locals are gone.
Return(t) ==
    /\ pc' = [pc EXCEPT ![t] = "idle"]
    /\ key' = [key EXCEPT ![t] = AnyKey]
    /\ cont' = [cont EXCEPT ![t] = 0]
    /\ held' = [held EXCEPT ![t] = 0]

-----------------------------------------------------------------------------
(* _create_connections_if_necessary.                                       *)

GetClosed(t) ==
    /\ poolClosed
    /\ UNCHANGED <<poolVars, contVars, conn, pc, key, cont, held, todo, history>>

GetKnown(t, k) ==
    /\ ~poolClosed /\ Hit(order, k)
    /\ order' = Touch(order, k)
    /\ key' = [key EXCEPT ![t] = k]
    /\ cont' = [cont EXCEPT ![t] = pool[k]]
    /\ pc' = [pc EXCEPT ![t] = "choose"]
    /\ UNCHANGED <<pool, poolClosed, lock, contVars, conn, held, todo, history>>

\* _initialize_connections fails at the n-th connection: those made before
\* stay open, and the new container is dropped.
GetFails(t, k) ==
    /\ ~poolClosed /\ ~Hit(order, k)
    /\ \E n \in 0..(perKey - 1) : Made + n <= MaxConnections /\ Make(n)
    /\ UNCHANGED <<poolVars, contVars, pc, key, cont, held, todo, history>>

\* A new container; the one to be kicked out is closed before it is replaced.
GetNew(t, k) ==
    /\ ~poolClosed /\ ~Hit(order, k)
    /\ Made + perKey <= MaxConnections /\ containers < MaxContainers
    /\ containers' = containers + 1
    /\ Make(perKey)
    /\ content' = [content EXCEPT ![containers'] = [i \in 1..perKey |-> Made + i]]
    /\ key' = [key EXCEPT ![t] = k]
    /\ cont' = [cont EXCEPT ![t] = containers']
    /\ pc' = [pc EXCEPT ![t] = "evict"]
    /\ lock' = t
    /\ IF KicksOut(order, PoolSize)
       THEN /\ todo' = [todo EXCEPT ![t] = <<pool[Oldest(order)]>>]
            /\ retired' = retired \cup {pool[Oldest(order)]}
       ELSE UNCHANGED <<todo, retired>>
    /\ UNCHANGED <<order, pool, poolClosed, cursor, held, lost>>

Get(t, k) ==
    /\ pc[t] = "idle" /\ calls[t] < MaxCalls[t] /\ lock = Nobody
    /\ calls' = [calls EXCEPT ![t] = @ + 1]
    /\ UNCHANGED poolClass
    /\ GetClosed(t) \/ GetKnown(t, k) \/ GetFails(t, k) \/ GetNew(t, k)

Install_StillListed(t) ==
    /\ pc[t] = "evict" /\ todo[t] = <<>>
    /\ order' = Cons(key[t], order)
    /\ pool' = [pool EXCEPT ![key[t]] = cont[t]]
    /\ lock' = Nobody
    /\ pc' = [pc EXCEPT ![t] = "choose"]
    /\ UNCHANGED <<poolClass, poolClosed, contVars, conn, key, cont, held, todo,
                   calls, history>>

\* self._pool[key] = container
Install(t) ==
    /\ pc[t] = "evict" /\ todo[t] = <<>>
    /\ order' = Set(order, key[t], PoolSize)
    /\ pool' = [k \in Keys |->
                  IF k = key[t] THEN cont[t]
                  ELSE IF Hit(order', k) THEN pool[k] ELSE 0]
    /\ lock' = Nobody
    /\ pc' = [pc EXCEPT ![t] = "choose"]
    /\ UNCHANGED <<poolClass, poolClosed, contVars, conn, key, cont, held, todo,
                   calls, history>>

\* One round of the loop of _close_connections.
CloseNext(t) ==
    /\ todo[t] # <<>>
    /\ LET c == Head(todo[t])
       IN  \/ /\ content[c] # <<>>
              /\ conn' = [conn EXCEPT ![Head(content[c])] = "closed"]
              /\ content' = [content EXCEPT ![c] = Tail(@)]
              /\ cursor' = [cursor EXCEPT ![c] = 0]
              /\ UNCHANGED todo
           \/ /\ content[c] = <<>>
              /\ todo' = [todo EXCEPT ![t] = Tail(@)]
              /\ UNCHANGED <<conn, content, cursor>>
    /\ UNCHANGED <<poolClass, poolVars, containers, pc, key, cont, held, calls,
                   history>>

-----------------------------------------------------------------------------
(* The loop of get_connection.                                             *)

\* remove_element: the cursor follows the elements behind the removed one.
RemoveElement_NoShift(c, x) ==
    /\ content' = [content EXCEPT ![c] = IF Hit(@, x) THEN Del(@, x) ELSE @]
    /\ UNCHANGED cursor

RemoveElement(c, x) ==
    IF Hit(content[c], x)
    THEN /\ content' = [content EXCEPT ![c] = Del(@, x)]
         /\ cursor' = [cursor EXCEPT ![c] =
                         IF @ > Position(content[c], x) - 1 THEN @ - 1 ELSE @]
    ELSE UNCHANGED <<content, cursor>> \* the ValueError is ignored

\* The index cyclic_has_next leaves the cursor at.
Turn(c) == IF cursor[c] < Len(content[c]) THEN cursor[c] ELSE 0

TakeIdle_LeftInQueue(t) ==
    /\ Dedicated /\ content[cont[t]] # <<>>
    /\ held' = [held EXCEPT ![t] = Head(content[cont[t]])]
    /\ pc' = [pc EXCEPT ![t] = "check"]
    /\ UNCHANGED <<key, cont, content, cursor>>

\* Queue.get of a dedicated pool; without an element and a timeout it blocks.
TakeIdle(t) ==
    /\ Dedicated /\ content[cont[t]] # <<>>
    /\ held' = [held EXCEPT ![t] = Head(content[cont[t]])]
    /\ content' = [content EXCEPT ![cont[t]] = Tail(@)]
    /\ pc' = [pc EXCEPT ![t] = "check"]
    /\ UNCHANGED <<key, cont, cursor>>

\* NoAvailableConnectionError
GiveUp(t) ==
    /\ Dedicated /\ content[cont[t]] = <<>> /\ t \in Impatient
    /\ Return(t)
    /\ UNCHANGED <<content, cursor>>

\* The iterator of a shared pool hands out the next connection.
TakeTurn(t) ==
    /\ ~Dedicated /\ ~Guarded(cont[t])
    /\ content[cont[t]] # <<>>
    /\ held' = [held EXCEPT ![t] = content[cont[t]][Turn(cont[t]) + 1]]
    /\ cursor' = [cursor EXCEPT ![cont[t]] = Turn(cont[t]) + 1]
    /\ pc' = [pc EXCEPT ![t] = "check"]
    /\ UNCHANGED <<key, cont, content>>

\* RuntimeError("invalid connections_per_key")
TakeNothing(t) ==
    /\ ~Dedicated /\ ~Guarded(cont[t])
    /\ content[cont[t]] = <<>>
    /\ cursor' = [cursor EXCEPT ![cont[t]] = 0]
    /\ Return(t)
    /\ UNCHANGED content

Choose(t) ==
    /\ pc[t] = "choose"
    /\ TakeIdle(t) \/ GiveUp(t) \/ TakeTurn(t) \/ TakeNothing(t)
    /\ UNCHANGED <<poolClass, poolVars, containers, conn, todo, calls, history>>

\* A connection that is closed, or being closed, is taken out and replaced.
Check(t) ==
    /\ pc[t] = "check"
    /\ \/ /\ conn[held[t]] = "open"
          /\ pc' = [pc EXCEPT ![t] = "using"]
          /\ UNCHANGED <<content, cursor>>
       \/ /\ conn[held[t]] = "closed" /\ ~Guarded(cont[t])
          /\ pc' = [pc EXCEPT ![t] = "replace"]
          /\ IF Dedicated THEN UNCHANGED <<content, cursor>>
             ELSE RemoveElement(cont[t], held[t])
    /\ UNCHANGED <<poolClass, poolVars, containers, conn, key, cont, held, todo,
                   calls, history>>

\* CreateConnectionError: nothing is put back for the connection taken out.
ReplaceFails(t) ==
    /\ Return(t)
    /\ lost' = [lost EXCEPT ![cont[t]] = @ + 1]
    /\ UNCHANGED <<content, conn>>

Replaced_NotAdded(t) ==
    /\ Made < MaxConnections /\ ~Guarded(cont[t])
    /\ Make(1)
    /\ held' = [held EXCEPT ![t] = Made + 1]
    /\ pc' = [pc EXCEPT ![t] = "using"]
    /\ UNCHANGED <<content, key, cont, lost>>

\* The new connection is put into the container, and the loop starts over.
Replaced(t) ==
    /\ Made < MaxConnections /\ ~Guarded(cont[t])
    /\ Make(1)
    /\ content' = [content EXCEPT ![cont[t]] = Append(@, Made + 1)]
    /\ pc' = [pc EXCEPT ![t] = "choose"]
    /\ held' = [held EXCEPT ![t] = 0]
    /\ UNCHANGED <<key, cont, lost>>

Replace(t) ==
    /\ pc[t] = "replace"
    /\ ReplaceFails(t) \/ Replaced(t)
    /\ UNCHANGED <<poolClass, poolVars, cursor, containers, todo, calls, retired>>

-----------------------------------------------------------------------------
(* release_connection, close, and connections that break while idle or     *)
(* used.                                                                   *)

Release_OnlyOpen(t) ==
    /\ pc[t] = "using" /\ lock = Nobody
    /\ IF poolClosed \/ ~Hit(order, key[t]) \/ conn[held[t]] = "closed"
       THEN Return(t) /\ UNCHANGED order
       ELSE /\ order' = Touch(order, key[t])
            /\ IF Dedicated
               THEN /\ cont' = [cont EXCEPT ![t] = pool[key[t]]]
                    /\ pc' = [pc EXCEPT ![t] = "putback"]
                    /\ UNCHANGED <<key, held>>
               ELSE Return(t)
    /\ UNCHANGED <<poolClass, pool, poolClosed, lock, contVars, conn, todo, calls,
                   history>>

\* The container is looked up again, by the key.
Release(t) ==
    /\ pc[t] = "using" /\ lock = Nobody
    /\ IF poolClosed \/ ~Hit(order, key[t])
       THEN Return(t) /\ UNCHANGED order
       ELSE /\ order' = Touch(order, key[t])
            /\ IF Dedicated
               THEN /\ cont' = [cont EXCEPT ![t] = pool[key[t]]]
                    /\ pc' = [pc EXCEPT ![t] = "putback"]
                    /\ UNCHANGED <<key, held>>
               ELSE Return(t)
    /\ UNCHANGED <<poolClass, pool, poolClosed, lock, contVars, conn, todo, calls,
                   history>>

\* _release_connection_to_container, outside the lock.
PutBack(t) ==
    /\ pc[t] = "putback"
    /\ content' = [content EXCEPT ![cont[t]] = Append(@, held[t])]
    /\ Return(t)
    /\ UNCHANGED <<poolClass, poolVars, cursor, containers, conn, todo, calls,
                   history>>

\* close(): the containers in the order of iteritems.
ClosePool(t) ==
    /\ pc[t] = "idle" /\ ~poolClosed /\ lock = Nobody
    /\ lock' = t
    /\ pc' = [pc EXCEPT ![t] = "closing"]
    /\ todo' = [todo EXCEPT ![t] =
                  [i \in DOMAIN order |-> pool[Reverse(order)[i]]]]
    /\ retired' = retired \cup {pool[k] : k \in ToSet(order)}
    /\ UNCHANGED <<poolClass, order, pool, poolClosed, contVars, conn, key, cont,
                   held, calls, lost>>

PoolClosed(t) ==
    /\ pc[t] = "closing" /\ todo[t] = <<>>
    /\ poolClosed' = TRUE
    /\ lock' = Nobody
    /\ pc' = [pc EXCEPT ![t] = "idle"]
    /\ UNCHANGED <<poolClass, order, pool, contVars, conn, key, cont, held, todo,
                   calls, history>>

\* The peer goes away, or a call on the connection fails and closes it.  One
\* that nobody refers to any more breaks unseen.
Break(x) ==
    /\ conn[x] = "open"
    /\ \/ \E t \in Callers : held[t] = x
       \/ \E c \in Containers : Hit(content[c], x)
    /\ conn' = [conn EXCEPT ![x] = "closed"]
    /\ UNCHANGED <<poolClass, poolVars, contVars, callerVars, history>>

Proceed(t) ==
    \/ Install(t) \/ CloseNext(t) \/ Choose(t) \/ Check(t) \/ Replace(t)
    \/ Release(t) \/ PutBack(t) \/ PoolClosed(t)

Next ==
    \/ \E t \in Callers : Proceed(t) \/ ClosePool(t) \/ \E k \in Keys : Get(t, k)
    \/ \E x \in Connections : Break(x)

Spec == Init /\ [][Next]_vars

\* A caller that can go on does: it is a thread, and nothing it calls waits for
\* another one but the lock, a condition and the queue.
Fairness == \A t \in Callers : WF_vars(Proceed(t))
FairSpec == Spec /\ Fairness

-----------------------------------------------------------------------------
(* Properties.                                                             *)

TypeOK ==
    /\ poolClass \in PoolClasses
    /\ order \in SeqOf(Keys, PoolSize) /\ IsInjective(order)
    /\ pool \in [Keys -> 0..containers]
    /\ \A k \in Keys : Hit(order, k) <=> pool[k] # 0
    /\ poolClosed \in BOOLEAN
    /\ lock \in Callers \cup {Nobody}
    /\ content \in [Containers -> Seq({x \in Connections : conn[x] # "unmade"})]
    /\ \A c \in Containers : cursor[c] \in 0..Len(content[c])
    /\ containers \in 0..MaxContainers
    /\ conn \in [Connections -> {"unmade", "open", "closed"}]
    /\ pc \in [Callers -> CallerPcs]
    /\ key \in [Callers -> Keys]
    /\ cont \in [Callers -> 0..containers]
    /\ held \in [Callers -> {0} \cup Connections]
    /\ todo \in [Callers -> Seq(1..containers)]
    /\ \A t \in Callers : calls[t] \in 0..MaxCalls[t]
    /\ lost \in [Containers -> Nat]
    /\ retired \subseteq 1..containers

\* A connection of a dedicated pool is with one caller or in one queue, so no
\* two callers write on it at a time, and closing a container never closes a
\* connection under a caller; an iterator of a shared pool has it once.
ExclusiveUse ==
    /\ \A c, d \in Containers : \A i \in DOMAIN content[c], j \in DOMAIN content[d] :
          content[c][i] = content[d][j] => c = d /\ i = j
    /\ Dedicated => \A t \in Callers : held[t] # 0 =>
          /\ \A c \in Containers : ~Hit(content[c], held[t])
          /\ \A u \in Callers \ {t} : held[u] # held[t]

\* Callers that have taken a connection out of c and still owe one.
Owing(c) ==
    {t \in Callers : /\ cont[t] = c
                     /\ pc[t] \in IF Dedicated
                                  THEN {"check", "using", "replace", "putback"}
                                  ELSE {"replace"}}

\* While a key is cached, its container has connections_per_key connections, but
\* for those callers owe and those whose replacement failed: neither evictions
\* of other keys, nor two callers replacing the same connection, nor a release
\* to a container made anew loses one.
SlotsAccounted ==
    \A c \in (1..containers) \ retired :
        Len(content[c]) + Cardinality(Owing(c)) + lost[c] >= perKey

\* Taking a closed connection out of an iterator does not make another one miss
\* its turn.
RemovalKeepsTurn ==
    [][\A t \in Callers :
         LET c == cont[t]
             upcoming == content[c][Turn(c) + 1]
         IN  /\ pc[t] = "check" /\ pc'[t] = "replace" /\ ~Dedicated
             /\ content[c] # <<>> /\ upcoming # held[t]
             => content'[c][Turn(c)' + 1] = upcoming]_vars

\* A caller waits in get_connection for good only for a container that was closed, or one that
\* lost a connection to a failing factory.
WaiterServed ==
    \A t \in Callers :
        pc[t] = "choose" ~> \/ pc[t] # "choose"
                           \/ lost[cont[t]] > 0
                           \/ cont[t] \in retired

\* connection_pool.py:64 calls connections_per_key the number of connections of
\* each key.
KeysKeepTheirConnections ==
    (\A t \in Callers : pc[t] = "idle") /\ ~poolClosed =>
        \A k \in ToSet(order) : Len(content[pool[k]]) = perKey

\* connection_pool.py:55 calls close() the end of the pool and of all connections
\* it maintains; so none is left open once nobody has one any more.
NothingOpenWhenClosed ==
    (\A t \in Callers : pc[t] = "idle") /\ poolClosed =>
        \A x \in Connections : conn[x] # "open"
=============================================================================
