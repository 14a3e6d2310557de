# A TLA+ model of summerrpc

summerrpc is an RPC library for Python 2: a client keeps pools of shared
connections, a tornado server runs the requests of its connections in thread
and process pools, and both find each other through ZooKeeper.  This directory
models its concurrent parts, checks them with TLC, and proves what matters most
for every size of the system with TLAPS.

    tlc -workers 2 -config SharedConnectionSafety.cfg MCSharedConnection
    tlapm SharedConnectionProofs.tla

Paths below are relative to `src/summerrpc/`.

## 1. The system

| part | state | operations | who calls it |
|---|---|---|---|
| `SharedBlockingConnection` (connection.py) | two queues of pending work, a cache of early answers, futures, heartbeats, two flags, two threads | `write`, `read`, `close`, `_async_write`, `_async_read` | invoker, pool, its own threads |
| `SimpleBlockingConnection` (connection.py) | socket, two flags | `write`, `read`, `close` on the caller's thread | invoker, pool |
| `RpcInvoker` (invoker.py) | none | `invoke`: write, wait, read, wait | protocol |
| `StaticList` (helper/list.py) | nodes in an array, the list and the space | `insert_left`, `pop_left`, `is_full` | shared connection |
| `LRUCache` (helper/lru_cache.py) | a map and a ring of entries | get, set, delete, clear, iterate, `will_be_kicked_out` | connection, pool, server |
| `LRUConnectionPool` and its two subclasses (connection_pool.py), `CyclicIterator` (helper/iterator.py) | containers by key, a lock, `_closed` | `get_connection`, `release_connection`, eviction, `close` | `Refer` (stub.py) |
| `RpcServer`, `Runner` (rpc_server.py) | counters, connection cache, thread pools, life cycle flags | accept, run, respond, close idle, start, close | tornado's loop, the peer |
| `ZookeeperRegistry` (registry.py) | two handles, entries, local cache | register, discover, watchers, close | server, cluster |
| `ZookeeperConfigurationCenter` | handle, local cache, version | start, watchers, close | applications |
| `TokenBucketRateLimiter`, the redis one | tokens, last refresh | `acquire` | applications |
| HTTP transport (extension/http_transport.py) | parser stage and buffer | feed, get, read, write | connection, server |
| the rest (stub, cluster, protocol, exporter, serializers, sockets, builders) | configuration | lookups and conversions | |

How the parts interact.  A caller of a stub takes a connection of a remote from
the pool, hands its request to `write()`, waits for the write's future, calls
`read()` and waits for the read's future.  The writing thread pops the queued
writes and sends them; the reading thread reads frames and resolves the read
futures by transaction id, or keeps an answer nobody asked for yet.  Heartbeats
are writes of the writing thread whose answers the reading thread looks for.
Either thread, the pool and the stub may close the connection.

What is hard about it, and what makes each part correct:

* **Shared connection.**  Two conditions and one lock protect the queues; the
  two flags of `close()` are set and reset outside of them.  Answers come in
  any order, before or after `read()`.  A future can be resolved by the writer,
  the reader, the teardown or an evicting `read()`.  It is correct when every
  caller gets its own answer or an error, once; when nothing is sent whose
  caller was told it failed; when no wake-up is lost; when a close leaves
  nobody waiting and ends both threads; when a silent peer is noticed.
* **Static list and LRU cache.**  Chains of indexes and pointers that several
  assignments update.  They are correct when they behave as a bounded stack
  and as a cache that gives up the least recently used key.
* **Connection pool.**  Containers are used without the pool's lock, and may be
  closed, dropped and made anew meanwhile.  It is correct when a dedicated
  connection has one user, when a connection is lost only where the code says
  so, and when a waiting caller is served.
* **Server.**  Everything but the executors runs on one loop, so the hazards
  are what changes across a `yield`: the stream closes, the limit is reached,
  the server closes, a result arrives for a connection that is gone.
* **Registry and configuration centre.**  ZooKeeper's thread runs the watchers
  while the application starts and closes them; sessions end and come back.
* **Simple connection.**  A call runs on one thread, but fails anywhere: in the
  middle of a frame, or with its answer still on the way.  It is correct when the
  next call on that connection does not meet what is left of this one, and when
  every caller gives back what it took from the pool.
* **Rate limiters, HTTP transport.**  Arithmetic, in redis over state that
  expires, and readers whose input comes in arbitrary pieces.

The hazards, each at its line, are in `PROJECT.json`.

## 2. The modules

| module | models | kind |
|---|---|---|
| `SharedConnection` | connection.py:53-346 and its callers of invoker.py | component |
| `RpcCalls` | what a connection promises its callers | abstract specification of it |
| `MCSharedConnection` | instances for TLC | |
| `SharedConnectionProofs` | theorems about `SharedConnection`: types, nobody stranded, answers and outcomes, and that it implements `RpcCalls` | proofs |
| `LRUCache` | an LRU cache as operators over the sequence of its keys | helpers |
| `LRUCacheTheorems` | what those operators, and those of sequences, keep and bound | proofs |
| `StaticList`, `BoundedStack` | helper/list.py, and the stack it implements | component, abstract |
| `LinkedLRU`, `CacheSpec` | helper/lru_cache.py with its pointers, and the cache it implements (by the operators of `LRUCache`) | component, abstract |
| `TokenBucket` | rate_limiter/token_bucket.py, redis_token_bucket.py | component |
| `HttpParser` | extension/http_transport.py, `read()` of both sides | component |
| `SimpleClient` | a call over `SimpleBlockingConnection`: stub.py, cluster.py, protocol.py, invoker.py, connection.py:349-411, transport.py, helper/atomic_integer.py | composition |
| `Registry` | registry.py, the server's side and the client's | component |
| `ConfigurationCenter` | configuration_center/zookeeper_configuration_center.py | component |
| `MCParts` | one of the seven components above (list, cache, bucket, parser, registry, centre, client) at a time, for TLC | |
| `ConnectionPool` | connection_pool.py, helper/iterator.py | component |
| `MCConnectionPool` | instances for TLC | |
| `ConnectionPoolProofs` | theorems about `ConnectionPool` | proofs |
| `SimpleClientProofs` | theorems about `SimpleClient` | proofs |
| `RpcServer` | rpc_server.py:192-586, connection_information.py | component |
| `MCRpcServer` | instances for TLC | |
| `RpcServerProofs` | theorems about `RpcServer` | proofs |
| `ZookeeperProofs` | theorems about `Registry` and `ConfigurationCenter` | proofs |
| `HelperProofs` | theorems about `StaticList`, `LinkedLRU` and `TokenBucket` | proofs |
| `HttpProofs` | theorems about `HttpParser` | proofs |

`SharedConnection`, `ConnectionPool` and `RpcServer` use `LRUCache` for the
caches of the code.  That the pointer structure behaves like those operators is what
`ImplementsCache` checks, so the two levels meet in one module.

A definition with a suffix, such as `Hand_InOrder` or `Release_OnlyOpen`, is a
plausible slip of the definition named before the suffix.  The specification
does not use it; put in the place of the right one it makes a property fail,
which shows that the property watches that line.

### SharedConnection

State and code correspond one to one: `pendingWrites` is `_pending_writes` (top
first, as `insert_left` and `pop_left` make it a stack), `pendingReads` and
`poolingReads` are the two caches, `wfut` and `rfut` are the futures by
transaction id, `pooled` the answers inside pooled futures, `closing` and
`closed` the flags.  `pc` says where each thread is.  A step of a caller is a
step of `RpcInvoker.invoke`; `GiveUp` is the timeout of `result()`.

What a condition or the heartbeat lock protects is one step: the flags, read
there, can change in between, but nothing else the region reads can.  The
unlocked reads and writes of the two flags are steps of their own (`CloseTest`,
`CloseClaim`, `CloseFlags`), because `closed = True; closing = False` lets
another thread see both as False, read one after the other.  Sending is two
steps, the frame leaving (`Transmit`) and the future's result (`WriteResult`),
because an answer may come in between.

The writer that ran into too many lost heartbeats calls `close()` in its own
step, and a thread in `close()` is at one of the `c_` positions whichever thread
it is; after it the writer and the reader are done, as in the code: the writer
leaves because its first test finds the flags set.

Time is nondeterministic: a write may expire whenever it is in the writer's
hands, the writer's wait may end at any moment if there is a heartbeat
interval.  The far end is part of the model and `external` in the map: it
answers in any order, may lose a request, hang up, or be silent.

### StaticList and LinkedLRU

The lists are modelled with their indexes and pointers, one action per method.
`BoundedStack` and `CacheSpec` say what they are for.  `None` is not an index,
so `_space.next is None` compares with a value that never occurs; that is the
finding `FullWhenNoRoom`.  Keys in the run have distinct hashes.

### ConnectionPool

`poolClass` is chosen once and stands for the subclass.  `content` and `cursor`
are the containers, `order` and `pool` the LRU cache of containers.  A caller
runs `get_connection` (`Get`, `Install`, `Choose`, `Check`, `Replace`), uses the
connection, and releases it (`Release`, `PutBack`).  Everything under the pool's
lock is one step except closing a container: `CloseNext` closes one connection
at a time, as other callers work on that container without the lock; the
condition of a shared container, held for the whole loop, is `Guarded`.
`lost` and `retired` are history variables.  A factory may fail at any call.
Connections break at any time.  `close()` and an eviction close what a container
holds; what a caller of a dedicated pool has in its hands is in none.

### RpcServer

One `IOLoop` runs the accept handler, the close callbacks, the scan and the
coroutines of all Runners: what it does between two yields is one step, and it
may do any of the things that are due next.  `runner[c]` is where the `_run` of
connection `c` is: in `read()`, waiting on `read_condition`, notified and not
yet resumed, ended by a `break` or by its loop condition, or `dead` of an
exception that its `except` clauses do not list.  `job[c][n]` follows a request
from `_invoke` to the end of `_send_response`; a response found after
`stream_closed` was set is `dropped` and keeps its place in the count, as in the
code.  A stream that is closed is not known to be closed by the server until
its callback has run (`"reported"`).

`pc` is where the threads are that call `start()` and `close()`.  The one in
`start()` is `looper`; when its loop ends it goes through the steps of `close()`
too, then closes the loop.  The pools are attributes (`pool`) and what a Runner
was given when its connection was accepted (`offered`): `close()` takes them
apart in steps, in between which the loop still runs.  `KeyboardInterrupt`, a
registry that refuses, and a `start()` after `close()` are steps of the model.
`announced` says whether the entries of this server are in the registry.

Timestamps are ages up to `max_idle_time`, so that a run has no last moment in
time.  A `plan`, chosen once, says how the server is configured, what each peer
sends and how often each thread calls: one run looks at several, each small.

### TokenBucket

`acquire()` is one action, as it holds the lock.  `Since`, `Generated`,
`Refreshed` and `Left` are the four assignments.  The clock ticks, and may be set
back, which takes no time.  `window` is a history variable: from some call on it
counts the time, the tokens granted and the refills, the calls that turned time
into tokens.  `rate` is chosen once, as a fraction, `Tokens` in `Period`
milliseconds.  `long(new_generated_tokens / self._rate)` is exact if a token costs
a whole number of milliseconds, and if a millisecond makes a whole number of
tokens.  Otherwise a refill pays less time than it should: with 1.5 tokens a
millisecond a call that finds one millisecond makes one token and pays
`long(1 / 1.5) = 0` milliseconds for it, so that the next call makes one again;
with 0.75, polled every millisecond, a token costs one millisecond in place of
1.33.  `Rounding` is the most a refill gains by it, less than what one millisecond
makes, and `GrantedWithinRate` allows it once for each refill; without it, it
fails for 1.5 tokens a millisecond.  So who asks often may be granted more than
the rate: by less than the tokens of a millisecond with each refill, and no more.
`RefusedWhenSpent` needs no such term, as the error is never against the caller.
A float product that falls short of a whole number by its last bit makes its
token a millisecond later.

`limiter` is chosen once and stands for the class.  `AcquireInRedis` is the
script, which redis runs as a whole: `keys` are its two keys with the moment at
which both expire, when the bucket is full again as if it had never been used.
Its unit of time is the second; tokens are counted in parts of `1 / Period`, so
that nothing is rounded but the lifetime of the keys.  Clients read their own
clocks (redis_token_bucket.py:63), and the model has them agree: with clocks that
differ, every call of the client that is behind writes an older timestamp (line
47), from which the next call of the one ahead makes the tokens of the difference
again.  With `2 * capacity / rate` below one second the lifetime is 0, redis
refuses it, and every `acquire()` raises.

### HttpParser

`side` is chosen once: the client's `read()` with its parser, or the server's on
a tornado stream.  Both read lines and then a body, so they share the actions
for what they have in common; the loop over header lines is `GetHeader` on the
client and `ReadHeader`, with its limit and its `else`, on the server.  The text
of a line is one symbol, CR and LF are two, and the bytes of a body may be CR and
LF.  `Recv` takes any part of what has arrived, `chunk_size` at most.  On the
client each `Get...` action is one call of `get()` and `Uncomplete` its return to
`read()`; on the server it is a `read_until` or `read_bytes` that waits.
Content-Length is the length of the body that is sent.  The connection may end
anywhere.

### SimpleClient

A caller goes through `Calls`, `Makes` or `Takes`, perhaps `Replaces`, `Writes`,
`Reads` and back; `at` is where it is, and `got` what it has received of its
answer, which is three parts because a frame is three `read_bytes`.  `slot` is
the queue of a dedicated pool with one connection of a key (`"unmade"`, `"idle"`,
`"taken"`, or `"empty"` after a factory failed).  `peer`, `owed` and `wire` are
the far end, the requests it has and what it has sent.  `ReadFails` is the
timeout, which may come with anything under way, and the end of the connection;
both close it.  Ids count up to `sys.maxint` and the frame has 32 bits for them:
in the run two bits are too few, so `Writes` meets the `struct.error` that
nobody catches.

### Registry

One server and one client.  `owner` is ZooKeeper's tree: the session that owns
the node of each entry.  ZooKeeper, its client library and the publisher of a
configuration are external: sessions that connect, lose their connection, expire
or are closed, events that wait for the thread of their handle, watches that
fire once.  Each ZooKeeper call of a watcher is a step, since nodes change
between two of them; a call that is out when the connection is lost raises,
whether it took effect or not.  `regHandle` and `disHandle` say whether `init()`
has returned its handle to `self`: the watcher that runs earlier fails in
`set_watcher(None)` and the event is gone (`regDropped`, `disDropped`).
`register()` may be called again, by a new process, while the session of the old
one still has its nodes.

### ConfigurationCenter

A child is represented by the base version it was last written, or deleted, for;
so `VersionCovers` can say of a copy how old it is.  `_real_start` is the steps
`base`, `list`, `get` and the two assignments at its end, between which anything
may change.

## 3. The runs

| run | question | instance |
|---|---|---|
| `connection_safety` | answers, expiry, wake-ups, refinement of `RpcCalls` | 2 callers, 3 ids (so one heartbeat or a call that failed late), caches of 1, lossy peer |
| `connection_liveness` | types, bounds, futures under three concurrent closers; calls end, threads exit | 2 callers, 1 outside closer, 2 ids, room for both early answers but for one pending read, answering peer, no heartbeats |
| `connection_dead_peer` | a silent peer is noticed | 2 callers, 4 ids, 2 heartbeats |
| `connection_heartbeats` (violation) | are the heartbeats counted as lost ever sent? | 1 caller |
| `parts` | pointers and refinements of list and cache; rates of both limiters; messages and cuts; nodes and caches of the registry; versions of a configuration; what a failed call leaves to the next | list of 3, cache of 3 with 4 keys; bucket of 2, a token in 2 units of time, 2 in one or 3 in 2, 8 units of it; 36 messages, cut off anywhere, in chunks of 4; 2 nodes, 2 sessions of the server, 2 lost connections; 2 children, 2 versions, 1 lost connection; 3 callers of one remote, ids up to 3, of which 3 does not fit a frame |
| `static_list_full` (violation) | does `is_full` notice? | list of 3 |
| `http_end_of_stream` (violation) | does a read end when its connection does? | the messages of `parts` |
| `pool` | exclusive use, accounting, iterator, liveness | 2 callers, 2 keys in a pool of 1, 1 (dedicated) or 2 (shared) connections of a key, 6 connections, 3 containers |
| `pool_slots` (violation) | does each key keep its connections? | the same |
| `pool_closed` (violation) | does `close()` close all connections? | the same, dedicated |
| `server` | limits, counters, Runners, responses, idle connections, close | limit of 2 requests; 4 plans: 3 requests of a peer; 3 peers, one with a packet that kills its Runner, for 2 places; a packet that is refused; one thread that starts, one that closes and may start again |
| `server_scan` (violation) | does a scan close what is idle? | 2 peers, the older one busy |

Why the bounds are enough.  Two callers are what ordering, eviction and early
answers need; a cache of one makes every second entry an eviction; one
transaction id more than callers lets a heartbeat in between.  The races of
`close()` are between two threads and a third that comes late.  For the pool, a
cache of one key makes every other key an eviction and a third container lets a
key come back while a caller still holds a connection of its first container.
The server's limits are two, so that a connection can be at its limit
with one response sent and one not, and an order among connections exists; each
plan goes one beyond a limit.  The plan with two threads has every pair of
`start()`, `close()`, the end of the loop and an interrupt.
Two units of time a token leave a rest of one, and eight of them let the keys in
redis, which live for eight, expire; three tokens in two units is a rate whose
rounding is as large as `Rounding` says.  The messages have bodies that hold a
delimiter, are empty, or are followed by more, and lack each thing `read()` asks
for, or have one line too many.  Remotes share nothing in a pool that is not
full, so one is enough for the simple connection; of its three callers one holds
the connection, one can have failed before it and one waits.  Two sessions are a server and its next
run; two lost connections are one on either side, or two in a row.  Two children
can be read before and after a change, two versions follow each other.
Bounds on ids, connections, containers and calls are guards that say so
(`MaxTid`, `MaxConnections`, `MaxContainers`, `MaxCalls`, `MaxPeers`,
`MaxElapsed`, `MaxBack`, `MaxGranted`, `MaxSessions`, `MaxLosses`, `MaxVersion`,
`MaxCuts`,
`MaxRequests` and what a plan lists); at the bound a writer
makes no more heartbeats and a factory only fails.

`CHECK_DEADLOCK FALSE` stands in all runs: callers make a bounded number of
calls, a connection without work waits, a server that was closed stays so, a
read ends, sessions are used up, and a queue of the pool that a failed factory
has left empty keeps its callers.

**Fairness.**  Threads run: the writer, the reader, a closer that has begun, a
caller that can go on (`WF`).  Python's locks and conditions are released in
bounded time, and the only waits are those the model has as disabled steps.
The timer of the writer's wait fires when there is a heartbeat interval.  In
`connection_liveness` the peer answers what it has got; it may always hang up.
On the server, the loop gets
to whatever is due, its timers fire, and methods return; peers need not send or
read, so a write is only sure to end when its stream is closed.
In the registry the threads of the handles run, a lost connection comes back, and
ZooKeeper ends the sessions of the dead.  For a simple connection nothing is
asked of the peer: `client_socket_timeout` ends a read that waits for it
(`ReadFails`).
Nobody has to give up, to start, or to close.  Heartbeats are off in
`connection_liveness` since their timer would cover up for a wake-up that `write()` forgets.

What the violations show:

* `LostHeartbeatsWereSent`: a heartbeat that waits behind newer writes for
  longer than the interval expires (connection.py:222-225) and stays in
  `_heartbeats`.  Enough of them close a healthy connection, which the comment
  at line 192 reserves for lost answers.
* `FullWhenNoRoom`: `is_full` (helper/list.py:129) never answers True.
* `EndOfStreamNoticed`: `SimpleBlockingHTTPTransport.read` does not look at an
  empty `recv()`, which transport.py:67 takes for the end of the connection; a
  server that closes within a response leaves the caller in a busy loop.
* `ScanClosesIdle`: the scan stops at the first active connection
  (rpc_server.py:304), but the cache it goes through is in order of acceptance.
  An idle connection is closed only after every older one was idle as well.
* `KeysKeepTheirConnections`: a factory that fails while a closed connection is
  replaced costs its key that connection for good; with one connection of a
  key, the default, a dedicated pool blocks its callers and a shared one raises
  `RuntimeError`.  Two callers that replace one connection leave two.
* `NothingOpenWhenClosed`: a dedicated connection that is in use when `close()`
  runs is in no container, and `release_connection` returns without closing it
  (connection_pool.py:122-123).  The same happens when its key is kicked out, by
  the test at 124, or when the key came back with a container of its own, which
  then has one connection more.  Over a `SharedBlockingConnection` two threads,
  which are no daemons, run on.

## 4. The proofs

`SharedConnectionProofs` proves, for every number of callers, closers, ids and
heartbeats, all sizes of queues and caches and all kinds of peer the
assumption `ConnectionAssumption` admits:

* `TypeCorrect`: `Spec => []TypeOK`, the bounds of the three containers
  included;
* `NobodyStranded`: `Spec => []NoStranded`, once `_closed` is set no future is
  pending but the write in the writer's hands;
* `OneTeardownAtATime`: one thread at most tears down, and `_closing` is set
  exactly while one does.

`NoStranded` is not inductive.  That nothing is pending after the teardown needs
to know that the queues were empty when `_closed` was set, that they stay empty
because a `write()` or `read()` tests the flags in the step in which it queues,
that the flags do not both go down while a second teardown runs, and that each
pending future is listed where the teardown looks.  These are the parts of
`IndInv`:

* `ThreadsInPlace`, each thread at a position its code can reach, with what it
  holds there;
* `OneTeardown`, `_closing` is the claim of one thread;
* `Drained`, nothing queued after `_close_write` and nothing pending after
  `_close_read`, for as long as the connection is closed or closing;
* `PendingFound`, a pending write is queued or in the writer's hands, a pending
  read is listed.

One lemma per process (`CallKeeps`, `WriterKeeps`, `ReaderKeeps`, `CloseKeeps`,
`PeerKeeps`, `StartCloseKeeps`) shows that its steps keep all of them, one step
per action.  The facts about the caches, that setting or deleting a key keeps
the others, are lemmas of `LRUCacheTheorems`.

`SimpleClientProofs` proves, for every number of callers and remotes and every
range of ids (`SimpleAssumption`), that `NothingLeftOver` holds of `ClientSpec`
(`NothingIsLeftOver`).  It is not inductive either: that a caller finds its answer
at the head of the wire needs that nobody else reads from there (`OneHolder`, the
`"taken"` slot of the pool), that its request and the answer to it do not exist at
the same time and the answer is received in order (`Orderly`), and that a
connection that is handed over open carries nothing (`Untouched`).  Every failure
ends in `GivesBack`, one lemma for all: what is put back is closed or empty.

The second half of `SharedConnectionProofs` builds on `IndInv` and proves, under
the same assumption:

* `CallersGetTheirOwn`, `PooledIsUnclaimed` and `ReaderIsAwake`, the invariants
  `OwnAnswer`, `PooledUnclaimed` and `ReaderAwakeForAnswers` of the run;
* `OnlyPendingIsSent` and `OutcomeIsFinal`, the action properties
  `SentWhilePending` and `HeldFutureFinal`;
* `CallsAreImplemented`: `Spec => ImplementsCalls`, the refinement of `RpcCalls`,
  shown step by step: the initial states map to initial ones, and each action of
  a caller, the two threads, the teardown or the peer is a step of the abstract
  calls or a stutter.

What makes them inductive is `AnswerInv`: an id that was not drawn is nowhere
(`IdsAreFresh`) and one that was has one owner (`IdsHaveOwners`); a write is queued
once and has no frame before it left (`WritesOnce`); a frame carries what was
queued under its id and exists once (`FramesAreTrue`), heartbeats included
(`HeartbeatsAwaited`); a listed read is pending but for those `_close_read` left
(`ReadsListed`); what is answered or pooled is the answer to its id
(`AnswersAreTrue`); and the reader does not sleep while it is being closed
(`ReaderNotAsleep`).

`ConnectionPoolProofs` proves `TypeOK`, `ExclusiveUse`, `SlotsAccounted` and the
action property `RemovalKeepsTurn` for any callers, keys and sizes, dedicated or
shared (`PoolAssumption`; it asks for a key to exist, as `AnyKey` is one).
`PoolInv` adds to the types who holds the lock and what is left to close
(`Locked`), that no connection is in two places (`Apart`), that a container is
retired before its key loses it, so that a caller whose container is not retired
works on the one of its key (`RetiredInTime`), and that those who owe a connection
are finitely many, as they are counted (`SlotsCounted`).  The last is about
cardinalities: that a caller more or less changes a count by one is a lemma of
`LRUCacheTheorems`.  `RemovalKeepsTurn` is arithmetic of the index of an iterator,
for an iterator of any length.

`RpcServerProofs` proves the six invariants of the server's run for any number of
peers, requests and threads and every plan.  `ServerInv` has two halves.
`ServingInv` is about the connections: the close callback is the one place where
a connection is counted out, so that the cache has exactly the others
(`CacheCounted`); `_current_concurrency` is the number of unsettled requests
(`JobsCounted`); a Runner reads below its limit only, and is notified when it
waits and may go on (`LimitKept`).  `LifeInv` is about `start()` and `close()`:
one thread closes (`OneCloses`), the flags exclude each other and lag behind what
they stand for (`FlagsAgree`), the loop is left by the thread in `start()`
(`LooperLeaves`), and the pools are up while the server serves
(`ServesOnceStarted`) and take no request once they were shut down (`PoolsShut`).

`ZookeeperProofs` proves `VersionCovers` and `VersionSettles` of the configuration
centre and `AnnouncedWhenConnected` of the registry.  `CenterInv` says what a
reading in progress knows already (`ReadsCover`: the base node is read first, so
what is read later is not older) and where a client with no event to handle is
(`WatchStands`).  `RegistryInv` says that a watcher has created what it does not
have to do any more (`CreatedIsOwned`).  `RegistryAssumption`: "none" is not a
node.

`HelperProofs` proves the linked structures and the rate:

* the static list of any size keeps each node in one of two chains
  (`NodesPartitioned`), and implements `BoundedStack` (`ListIsAStack`);
* the ring of the LRU cache of any capacity is its map in the order of use
  (`RingMatchesMap`), also for keys with equal hashes, and the cache implements
  `CacheSpec` (`CacheIsLeastRecent`) if hashes tell keys apart: `HashesDiffer` is
  a hypothesis because the code needs it, see the hazards;
* `GrantedWithinRate` and `RefusedWhenSpent` for any capacity, any rate, lifetime
  of the keys and steps of the clock, of both limiters; what the rounding of the
  one in the process adds is part of the bound (see `TokenBucket` above), and of
  the inductive invariant.  `TokenBucketAssumption`
  has the clock stay above zero, which the script needs to find expired keys full.

The list and the cache are read by walking their pointers, and the walk is a
recursive function.  The proofs never compute it: `IsChain` and `IsRing` say what a
chain of n nodes is, without recursion, each operation is shown to make one chain
out of another (a node less at the front, one more, one unlinked in the middle),
and `WalkIsUnique`, by induction over the steps of the walk, says that a walk
follows the chain.  The library states induction with an operator as a parameter,
which the provers here cannot instantiate; `LeastNumber` is the same principle as a
statement about sets, that a nonempty set of naturals has a least element, and is
proved from `WFMin`.

For the rates, `Quotient`, `ProductGrows` and `ProductOfSum` are the only facts
about division and products that are needed.  `BucketInv` bounds the sum of
what was granted and what can still be by what the time of the window makes, from
above, and from below while nothing overflowed; `Unspent`, or the tokens in the
keys, change hands with `granted`, and the time with them, so the sum stays.  In
the process it grows at most by `Rounding` with a refill (`Refilled`): the cost is
a quotient, so it is paid but for less than `Tokens` parts of a token.

`HttpProofs` proves `MessageUnderstood` of both readers, for any chunk size, any
limit of header lines and any messages (`MessagesAreUnderstood`).
`HttpAssumption` has the messages well formed and none with both an id of digits
and one of letters, as both `generate_packet` write one; the client, which takes
the id it can read, would return such a message.  `HttpInv` says where a parser
is: buffer and stream hold the packet from the end of the lines read on
(`Follows`), the headers met are those of these lines (`HeadersRead`), and what
waits for more lacks something (`Lacking`), so that the end of a stream met by a
reader that waits means that the message did not come whole (`NothingLacks`).
A line is found because no line holds a CR or an LF: `LineAhead` says that the
first delimiter of a buffer, wherever it was cut, is the one of the line at its
head.  `Packet` is a recursion over the headers; `TextIs` shows, with `LeastNumber`
as above, that the only solution is the sequence that `IsText` describes, and the
other proofs use `PacketIs`, where the lines, the body and the rest are in it.

Only model-checked:

* liveness, which rests on fairness and `ENABLED`, for which TLAPS has no rules
  here: `CallsComplete`, `ThreadsExit`, `DeadPeerClosed`, `WaiterServed`,
  `PeersServed`, `SilentPeersLeave`, `RequestsSettled`, `CloseCompletes`,
  `ReadReturns`, `DiscoveryFollows` and `ConnectionReturns`;
* the expected violations: there TLC shows a behaviour.

## 5. Not modelled, and why

* Bytes: encoding and partial sends; an error in the middle is a failing send or
  receive.  What is received in parts is modelled where parts matter, in
  `SimpleClient` (a frame) and `HttpParser` (a message).
* `read()` twice with one id: no caller does it.
* `heartbeat_func` raising under the locks, and ids beyond 32 bits in the shared
  connection, whose writing thread dies of them; see the hazards.
* A `SimpleBlockingConnection` in a shared pool: its callers would read each
  other's answers and close it, as line 386 says (`write-read must appear in
  pairs`).  Over HTTP it reads through `HttpParser`, with `EndOfStreamNoticed`.
* Exporter and decorators.  They build a map before the server starts.
  `provide()` raises with or without a name: its inner function assigns `name`,
  which makes it a local that is read before it is set (decorator.py:54-67).
* Serializers, messages, URL building, builders: conversions and configuration
  without shared state.  Keys of the LRU cache with equal hashes share an entry
  (helper/lru_cache.py:89); the runs use keys whose hashes differ.
* A `start()` that is interrupted after the entries are in the registry and
  before `change_status` has run leaves them there, and its pools alive
  (rpc_server.py:403): `Interrupted` and `CloseIfNecessary` have this outcome.
* `registry.close()` raising inside `close()`, and a coroutine method that calls
  `close()` on the loop's own thread.
* Node names and their parsing: an entry is its node.  A port that is no number
  would end the reading of the children (registry.py:178), but only this code
  writes the names.
* Timeouts of a blocking HTTP read, and a Content-Length that differs from the
  length of the body.
* Clients of one bucket in redis whose clocks differ; see `TokenBucket`.

## 6. Plan

1. A registry and a server in one model: requests that reach a server which was
   announced and is gone.
