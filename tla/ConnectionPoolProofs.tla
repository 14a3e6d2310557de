------------------------ MODULE ConnectionPoolProofs ------------------------
(***************************************************************************)
(* For any callers and keys, any sizes of the pool and of its containers,  *)
(* dedicated or shared: who has a connection of ConnectionPool, that no    *)
(* connection of a cached key gets lost, and that taking one out of an     *)
(* iterator makes no other one miss its turn.                              *)
(***************************************************************************)
EXTENDS ConnectionPool, LRUCacheTheorems, FiniteSetTheorems, TLAPS

USE DEF poolVars, contVars, callerVars, history

-----------------------------------------------------------------------------
(* The inductive invariant.                                                *)

MadeSet == {x \in Connections : conn[x] # "unmade"}

\* The keys that are cached are told apart, and are the ones with a container.
OrderTyped ==
    /\ poolClass \in PoolClasses
    /\ containers \in 0..MaxContainers
    /\ order \in Seq(Keys) /\ Len(order) <= PoolSize /\ IsInjective(order)
    /\ pool \in [Keys -> 0..containers]
    /\ \A k \in Keys : Hit(order, k) <=> pool[k] # 0
    /\ poolClosed \in BOOLEAN

\* The connections were made in the order of their numbers.
ConnTyped ==
    /\ conn \in [Connections -> {"unmade", "open", "closed"}]
    /\ \E m \in 0..MaxConnections : MadeSet = 1..m

\* Containers hold connections that were made, and none before they were made
\* themselves; queues have no cursor.
ContentTyped ==
    /\ content \in [Containers -> Seq(Connections)]
    /\ cursor \in [Containers -> Nat]
    /\ \A c \in Containers :
          /\ ToSet(content[c]) \subseteq MadeSet
          /\ cursor[c] <= Len(content[c])
          /\ c > containers => content[c] = <<>>
          /\ Dedicated => cursor[c] = 0

Working == {"evict", "choose", "check", "replace", "using", "putback"}
Holding == {"check", "using", "replace", "putback"}

\* A caller has a container while it works on one, and a connection from the
\* moment it takes one until it gives it back.
CallersTyped ==
    /\ pc \in [Callers -> CallerPcs]
    /\ key \in [Callers -> Keys]
    /\ cont \in [Callers -> 0..containers]
    /\ held \in [Callers -> {0} \cup Connections]
    /\ calls \in [Callers -> Nat]
    /\ \A t \in Callers :
          /\ calls[t] <= MaxCalls[t]
          /\ pc[t] \in Working => cont[t] # 0
          /\ pc[t] \in Holding <=> held[t] # 0
          /\ held[t] # 0 => held[t] \in MadeSet
          /\ pc[t] = "putback" => Dedicated

\* What is closed was made before, and is in the history.
ClosingTyped ==
    /\ todo \in [Callers -> Seq(1..containers)]
    /\ retired \subseteq 1..containers
    /\ lost \in [Containers -> Nat]

\* The lock is held between steps by who installs a container or closes the
\* pool, and only such a caller closes containers.
Locked ==
    /\ lock \in Callers \cup {Nobody}
    /\ \A t \in Callers :
          /\ pc[t] \in {"evict", "closing"} <=> lock = t
          /\ todo[t] # <<>> => pc[t] \in {"evict", "closing"}

\* A connection is in one place of one container; one of a dedicated pool is
\* there or with one caller.
Apart ==
    /\ \A c \in Containers : IsInjective(content[c])
    /\ \A c, d \in Containers : c # d =>
          \A x \in ToSet(content[c]) : x \notin ToSet(content[d])
    /\ Dedicated => \A t \in Callers : held[t] # 0 =>
          /\ \A c \in Containers : held[t] \notin ToSet(content[c])
          /\ \A u \in Callers : u # t => held[u] # held[t]

\* A container that is being closed, was kicked out or belongs to a closed
\* pool is retired; any other that a caller works on is the one of its key.
RetiredInTime ==
    /\ \A t \in Callers :
          /\ ToSet(todo[t]) \subseteq retired
          /\ pc[t] = "evict" =>
                /\ ~Hit(order, key[t]) /\ ~poolClosed
                /\ KicksOut(order, PoolSize) => pool[Oldest(order)] \in retired
          /\ pc[t] = "closing" => \A k \in ToSet(order) : pool[k] \in retired
          /\ pc[t] \in {"choose", "check", "replace", "using"} /\ cont[t] \notin retired
                => pool[key[t]] = cont[t]
    /\ poolClosed => \A k \in ToSet(order) : pool[k] \in retired

\* Those who owe a connection can be counted, however many callers there are.
SlotsCounted ==
    /\ \A c \in Containers : IsFiniteSet(Owing(c))
    /\ SlotsAccounted

PoolInv ==
    /\ OrderTyped /\ ConnTyped /\ ContentTyped /\ CallersTyped /\ ClosingTyped
    /\ Locked /\ Apart /\ RetiredInTime /\ SlotsCounted

\* What one caller does.
Step(t) == Proceed(t) \/ ClosePool(t) \/ \E k \in Keys : Get(t, k)

-----------------------------------------------------------------------------
(* Helpers.                                                                *)

\* A sequence with elements of a subset is one over the subset.
LEMMA SeqOfSubset ==
    ASSUME NEW S, NEW T, NEW s \in Seq(S), ToSet(s) \subseteq T
    PROVE  s \in Seq(T)
  <1>1. \A i \in 1..Len(s) : s[i] \in T
    BY DEF ToSet
  <1> QED BY <1>1

\* What is taken from a sequence, and what is left of it, was in it.
LEMMA HeadAndTail ==
    ASSUME NEW K, NEW s \in Seq(K), s # <<>>
    PROVE  /\ Head(s) \in K /\ Head(s) \in ToSet(s)
           /\ Tail(s) \in Seq(K) /\ Len(Tail(s)) = Len(s) - 1
           /\ ToSet(Tail(s)) \subseteq ToSet(s) /\ Tail(s) # s
  <1> DEFINE r == Tail(s)
  <1>1. /\ r \in Seq(K) /\ Len(r) = Len(s) - 1 /\ Len(s) \in Nat \ {0}
        /\ \A i \in 1..(Len(s) - 1) : r[i] = s[i + 1] /\ i + 1 \in 1..Len(s)
        /\ Head(s) = s[1] /\ Head(s) \in K /\ 1 \in 1..Len(s)
    OBVIOUS
  <1> HIDE DEF r
  <1>2. DOMAIN r = 1..(Len(s) - 1) /\ DOMAIN s = 1..Len(s)
    BY <1>1
  <1>3. Head(s) \in ToSet(s)
    BY <1>1, <1>2 DEF ToSet
  <1>4. ToSet(r) \subseteq ToSet(s)
    BY <1>1, <1>2 DEF ToSet
  <1>5. r # s
    <2>1. Len(r) # Len(s)
      BY <1>1
    <2> QED BY <2>1
  <1> QED BY <1>1, <1>3, <1>4, <1>5 DEF r

\* A sequence of at most n elements is one of SeqOf.
LEMMA SeqOfBounded ==
    ASSUME NEW S, NEW n \in Nat, NEW s \in Seq(S), Len(s) <= n
    PROVE  s \in SeqOf(S, n)
  <1>1. Len(s) \in 0..n /\ s \in [1..Len(s) -> S]
    OBVIOUS
  <1> QED BY <1>1 DEF SeqOf

\* A step of a caller changes no other one's locals.
LEMMA OthersStay ==
    ASSUME CallersTyped, ClosingTyped, NEW t \in Callers, Step(t)
    PROVE  /\ poolClass' = poolClass
           /\ \A u \in Callers : u # t =>
                 /\ pc'[u] = pc[u] /\ key'[u] = key[u] /\ cont'[u] = cont[u]
                 /\ held'[u] = held[u] /\ todo'[u] = todo[u] /\ calls'[u] = calls[u]
  BY DEF CallersTyped, ClosingTyped, Step, Proceed, ClosePool, Get, GetClosed, GetKnown,
         GetFails, GetNew, Install, CloseNext, Choose, TakeIdle, GiveUp, TakeTurn,
         TakeNothing, Return, Check, RemoveElement, Replace, ReplaceFails, Replaced,
         Release, PutBack, PoolClosed

-----------------------------------------------------------------------------
(* The keys that are cached.                                               *)

\* Only three operations touch _pool; the others at most take its lock.
LEMMA OrderKept ==
    ASSUME PoolInv, NEW t \in Callers, Step(t)
    PROVE  OrderTyped'
  <1> USE PoolAssumption DEF PoolAssumption
  <1>0. poolClass' = poolClass
    BY OthersStay DEF PoolInv
  <1>1. CASE UNCHANGED <<order, pool>>
    <2>1. containers' \in 0..MaxContainers /\ containers' >= containers
      BY DEF PoolInv, OrderTyped, Step, Proceed, ClosePool, Get, GetClosed, GetKnown,
             GetFails, GetNew, Install, CloseNext, Choose, Check, Replace, Release,
             PutBack, PoolClosed
    <2>2. poolClosed' \in BOOLEAN
      BY DEF PoolInv, OrderTyped, Step, Proceed, ClosePool, Get, GetClosed, GetKnown,
             GetFails, GetNew, Install, CloseNext, Choose, Check, Replace, Release,
             PutBack, PoolClosed
    <2>3. pool \in [Keys -> 0..containers']
      BY <2>1 DEF PoolInv, OrderTyped
    <2> QED BY <1>0, <1>1, <2>1, <2>2, <2>3 DEF PoolInv, OrderTyped
  <1>2. ASSUME NEW k \in Keys, Hit(order, k), order' = Touch(order, k),
               UNCHANGED <<pool, containers, poolClosed>>
        PROVE  OrderTyped'
    <2>1. /\ order' \in Seq(Keys) /\ Len(order') = Len(order)
          /\ IsInjective(order') /\ ToSet(order') = ToSet(order)
      BY <1>2, TouchKeeps DEF PoolInv, OrderTyped
    <2> QED BY <1>0, <1>2, <2>1 DEF PoolInv, OrderTyped, Hit
  <1>3. CASE Install(t)
    <2>1. /\ order' \in Seq(Keys) /\ Len(order') <= PoolSize /\ IsInjective(order')
          /\ ToSet(order') \subseteq ToSet(order) \cup {key[t]}
          /\ key[t] \in ToSet(order') /\ key[t] \in Keys
      BY <1>3, SetKeepsOthers, SetForgets DEF Install, PoolInv, OrderTyped, CallersTyped
    <2>2. cont[t] \in 1..containers
      BY <1>3 DEF Install, PoolInv, CallersTyped, Working, OrderTyped
    <2>3. \A k \in Keys : pool'[k] = IF k = key[t] THEN cont[t]
                                     ELSE IF Hit(order', k) THEN pool[k] ELSE 0
      BY <1>3 DEF Install
    <2>4. pool' \in [Keys -> 0..containers]
      BY <1>3, <2>2 DEF Install, PoolInv, OrderTyped
    <2>5. \A k \in Keys : Hit(order', k) <=> pool'[k] # 0
      <3> SUFFICES ASSUME NEW k \in Keys
                   PROVE  k \in ToSet(order') <=> pool'[k] # 0
        BY DEF Hit
      <3>1. k \in ToSet(order) => pool[k] # 0
        BY DEF PoolInv, OrderTyped, Hit
      <3>2. cont[t] # 0
        BY <2>2
      <3> QED BY <2>1, <2>3, <3>1, <3>2 DEF Hit
    <2>6. UNCHANGED <<containers, poolClosed>>
      BY <1>3 DEF Install
    <2> QED BY <1>0, <2>1, <2>4, <2>5, <2>6 DEF PoolInv, OrderTyped
  <1>4. \/ UNCHANGED <<order, pool>>
        \/ \E k \in Keys : Hit(order, k) /\ order' = Touch(order, k)
                           /\ UNCHANGED <<pool, containers, poolClosed>>
        \/ Install(t)
    BY DEF PoolInv, CallersTyped, Step, Proceed, ClosePool, Get, GetClosed, GetKnown,
           GetFails, GetNew, CloseNext, Choose, Check, Replace, Release, PutBack, PoolClosed
  <1> QED BY <1>1, <1>2, <1>3, <1>4

-----------------------------------------------------------------------------
(* The connections that were made.                                         *)

\* How many were made tells which.
LEMMA MadeIs ==
    ASSUME ConnTyped
    PROVE  Made \in 0..MaxConnections /\ MadeSet = 1..Made
  <1> PICK m \in 0..MaxConnections : MadeSet = 1..m
    BY DEF ConnTyped
  <1>1. m \in Nat /\ Cardinality(1..m) = m
    <2>1. m \in Nat
      BY PoolAssumption DEF PoolAssumption
    <2>2. Cardinality(1..m) = IF 1 > m THEN 0 ELSE m - 1 + 1
      BY <2>1, FS_Interval
    <2> QED BY <2>1, <2>2
  <1>2. Made = m
    BY <1>1 DEF Made, MadeSet
  <1> QED BY <1>2

\* A factory that makes n connections makes the next n.
LEMMA MakeMakes ==
    ASSUME ConnTyped, NEW n \in Nat, Made + n <= MaxConnections, Make(n)
    PROVE  /\ ConnTyped' /\ MadeSet' = 1..(Made + n) /\ MadeSet \subseteq MadeSet'
           /\ Made' = Made + n
  <1> USE PoolAssumption DEF PoolAssumption
  <1>1. Made \in Nat /\ MadeSet = 1..Made /\ Made + n \in 0..MaxConnections
    BY MadeIs
  <1>2. \A x \in Connections : conn'[x] = IF x \in (Made + 1)..(Made + n) THEN "open" ELSE conn[x]
    BY DEF Make, NextMade
  <1>3. \A x \in Connections : conn[x] # "unmade" <=> x \in 1..Made
    BY <1>1 DEF MadeSet
  <1>4. \A x \in Connections : conn'[x] # "unmade" <=> x \in 1..(Made + n)
    BY <1>1, <1>2, <1>3 DEF Connections
  <1>5. 1..(Made + n) \subseteq Connections /\ MadeSet' = {x \in Connections : conn'[x] # "unmade"}
    BY <1>1 DEF Connections, MadeSet
  <1>6. MadeSet' = 1..(Made + n)
    BY <1>4, <1>5
  <1>7. conn' \in [Connections -> {"unmade", "open", "closed"}]
    BY DEF Make, ConnTyped
  <1>8. ConnTyped'
    BY <1>1, <1>6, <1>7 DEF ConnTyped
  <1>9. Made' = Made + n
    <2>1. Cardinality(1..(Made + n)) = IF 1 > Made + n THEN 0 ELSE Made + n - 1 + 1
      BY <1>1, FS_Interval
    <2>2. Made' = Cardinality(MadeSet')
      BY DEF Made, MadeSet
    <2> QED BY <1>1, <1>6, <2>1, <2>2
  <1> QED BY <1>1, <1>6, <1>8, <1>9

\* A connection that closes was made before.
LEMMA CloseOne ==
    ASSUME ConnTyped, NEW x \in MadeSet, conn' = [conn EXCEPT ![x] = "closed"]
    PROVE  ConnTyped' /\ MadeSet' = MadeSet
  <1>1. \A y \in Connections : conn'[y] # "unmade" <=> conn[y] # "unmade"
    BY DEF ConnTyped, MadeSet
  <1>2. MadeSet' = MadeSet
    BY <1>1 DEF MadeSet
  <1> QED BY <1>2 DEF ConnTyped, MadeSet

\* Every container a caller works on, or closes, is one that was made.
LEMMA ContainersMade ==
    ASSUME PoolInv, NEW t \in Callers
    PROVE  /\ 1..containers \subseteq Containers /\ containers \in Nat
           /\ pc[t] \in Working => cont[t] \in 1..containers
           /\ todo[t] # <<>> => Head(todo[t]) \in 1..containers
  <1> USE PoolAssumption DEF PoolAssumption
  <1>1. todo[t] \in Seq(1..containers)
    BY DEF PoolInv, ClosingTyped
  <1>2. todo[t] # <<>> => Head(todo[t]) \in 1..containers
    BY <1>1, HeadAndTail
  <1>3. 1..containers \subseteq Containers /\ containers \in Nat
    BY DEF PoolInv, OrderTyped, Containers
  <1>4. cont[t] \in 0..containers
    BY DEF PoolInv, CallersTyped
  <1> QED BY <1>2, <1>3, <1>4 DEF PoolInv, CallersTyped

\* Connections are made in order, and none is unmade again.
LEMMA ConnKept ==
    ASSUME PoolInv, NEW t \in Callers, Step(t)
    PROVE  ConnTyped' /\ MadeSet \subseteq MadeSet'
  <1> USE PoolAssumption DEF PoolAssumption
  <1>1. CASE UNCHANGED conn
    BY <1>1 DEF PoolInv, ConnTyped, MadeSet
  <1>2. ASSUME NEW n \in Nat, Made + n <= MaxConnections, Make(n)
        PROVE  ConnTyped' /\ MadeSet \subseteq MadeSet'
    BY <1>2, MakeMakes DEF PoolInv
  <1>3. CASE CloseNext(t)
    <2> DEFINE c == Head(todo[t])
    <2>1. CASE content[c] # <<>> /\ conn' = [conn EXCEPT ![Head(content[c])] = "closed"]
      <3>1. c \in Containers
        BY <1>3, ContainersMade DEF CloseNext
      <3>2. content[c] \in Seq(Connections) /\ ToSet(content[c]) \subseteq MadeSet
        BY <3>1 DEF PoolInv, ContentTyped
      <3> HIDE DEF c
      <3>3. Head(content[c]) \in ToSet(content[c])
        BY <2>1, <3>2 DEF ToSet
      <3> QED BY <2>1, <3>2, <3>3, CloseOne DEF PoolInv
    <2> QED BY <1>1, <1>3, <2>1 DEF CloseNext
  <1>4. \/ UNCHANGED conn \/ CloseNext(t)
        \/ \E n \in Nat : Made + n <= MaxConnections /\ Make(n)
    <2>1. perKey \in Nat
      BY DEF perKey, PoolInv, OrderTyped
    <2>2. \A n \in 0..(perKey - 1) : n \in Nat
      BY <2>1
    <2>3. ASSUME NEW k \in Keys, Get(t, k)
          PROVE  UNCHANGED conn \/ \E n \in Nat : Made + n <= MaxConnections /\ Make(n)
      BY <2>1, <2>2, <2>3 DEF Get, GetClosed, GetKnown, GetFails, GetNew
    <2>4. CASE Replace(t)
      <3>1. Replaced(t) => Made + 1 <= MaxConnections /\ Make(1)
        BY MadeIs DEF Replaced, PoolInv
      <3> QED BY <2>4, <3>1 DEF Replace, ReplaceFails
    <2> QED BY <2>3, <2>4 DEF Step, Proceed, Install, Choose, Check, Release, PutBack,
                              PoolClosed, ClosePool
  <1> QED BY <1>1, <1>2, <1>3, <1>4

-----------------------------------------------------------------------------
(* What is in the containers.                                              *)

\* One container changes; what it gets was made and is nowhere else.
LEMMA OneContainerChanges ==
    ASSUME PoolInv, NEW c \in Containers, NEW s \in Seq(Connections),
           content' = [content EXCEPT ![c] = s], containers' \in Nat, containers' >= containers,
           c <= containers', MadeSet \subseteq MadeSet', poolClass' = poolClass,
           cursor' \in [Containers -> Nat], cursor'[c] <= Len(s),
           \A d \in Containers : d # c => cursor'[d] = cursor[d],
           Dedicated => cursor'[c] = 0,
           IsInjective(s), ToSet(s) \subseteq MadeSet',
           \A d \in Containers : d # c =>
              \A x \in ToSet(s) : x \in ToSet(content[c]) \/ x \notin ToSet(content[d]),
           Dedicated => \A u \in Callers : held'[u] # 0 =>
              /\ held'[u] \notin ToSet(s)
              /\ \A d \in Containers : d # c => held'[u] \notin ToSet(content[d])
              /\ \A v \in Callers : v # u => held'[v] # held'[u]
    PROVE  ContentTyped' /\ Apart'
  <1>1. /\ content'[c] = s /\ \A d \in Containers : d # c => content'[d] = content[d]
        /\ content' \in [Containers -> Seq(Connections)]
    BY DEF PoolInv, ContentTyped
  <1>2. containers \in Nat /\ \A d \in Containers : d \in Nat
    BY PoolAssumption DEF PoolAssumption, PoolInv, OrderTyped, Containers
  <1>3. Dedicated' = Dedicated
    BY DEF Dedicated
  <1>4. ASSUME NEW d \in Containers
        PROVE  /\ ToSet(content'[d]) \subseteq MadeSet' /\ cursor'[d] <= Len(content'[d])
               /\ d > containers' => content'[d] = <<>>
               /\ Dedicated' => cursor'[d] = 0
    <2>1. CASE d = c
      BY <1>1, <1>2, <1>3, <2>1
    <2>2. CASE d # c
      <3>1. d > containers' => d > containers
        BY <1>2
      <3> QED BY <1>1, <1>3, <2>2, <3>1 DEF PoolInv, ContentTyped
    <2> QED BY <2>1, <2>2
  <1>5. ContentTyped'
    BY <1>1, <1>4 DEF ContentTyped
  <1>6. \A d \in Containers : IsInjective(content'[d])
    BY <1>1 DEF PoolInv, Apart
  <1>7. \A d \in Containers : d # c =>
           \A x \in ToSet(s) : x \notin ToSet(content[d])
    BY DEF PoolInv, Apart
  <1>8. \A d, e \in Containers : d # e =>
           \A x \in ToSet(content'[d]) : x \notin ToSet(content'[e])
    BY <1>1, <1>7 DEF PoolInv, Apart
  <1>9. Dedicated' => \A u \in Callers : held'[u] # 0 =>
           /\ \A d \in Containers : held'[u] \notin ToSet(content'[d])
           /\ \A v \in Callers : v # u => held'[v] # held'[u]
    BY <1>1, <1>3
  <1> QED BY <1>5, <1>6, <1>8, <1>9 DEF Apart

\* No container changes, and callers at most drop what they hold.
LEMMA NoContainerChanges ==
    ASSUME PoolInv, UNCHANGED <<content, containers, poolClass>>, MadeSet \subseteq MadeSet',
           cursor' \in [Containers -> Nat],
           \A c \in Containers : cursor'[c] <= Len(content[c]) /\ (Dedicated => cursor'[c] = 0),
           Dedicated => \A u \in Callers : held'[u] = held[u] \/ held'[u] = 0
    PROVE  ContentTyped' /\ Apart'
  <1>1. Dedicated' = Dedicated
    BY DEF Dedicated
  <1>2. ContentTyped'
    BY <1>1 DEF PoolInv, ContentTyped
  <1>3. Apart'
    BY <1>1 DEF PoolInv, Apart
  <1> QED BY <1>2, <1>3

\* A new container gets the connections made for it.
LEMMA GetNewKeepsContent ==
    ASSUME PoolInv, NEW t \in Callers, NEW k \in Keys, Get(t, k), GetNew(t, k)
    PROVE  ContentTyped' /\ Apart'
  <1> USE PoolAssumption DEF PoolAssumption
  <1> DEFINE c == containers + 1
             s == [i \in 1..perKey |-> Made + i]
  <1>1. perKey \in Nat \ {0} /\ Made \in Nat /\ MadeSet = 1..Made
    BY MadeIs DEF perKey, PoolInv, OrderTyped
  <1>2. c \in Containers /\ containers \in Nat /\ containers' = c
    BY DEF GetNew, PoolInv, OrderTyped, Containers
  <1>3. content' = [content EXCEPT ![c] = s] /\ UNCHANGED <<cursor, held, poolClass>>
        /\ Made + perKey <= MaxConnections /\ Make(perKey)
    BY <1>2 DEF GetNew, Get
  <1>4. MadeSet' = 1..(Made + perKey) /\ MadeSet \subseteq MadeSet'
    BY <1>1, <1>3, MakeMakes DEF PoolInv
  <1> HIDE DEF c
  <1>5. s \in Seq(Connections) /\ Len(s) = perKey /\ \A i \in 1..perKey : s[i] = Made + i
    <2>1. \A i \in 1..perKey : Made + i \in Connections
      BY <1>1, <1>3 DEF Connections
    <2> QED BY <1>1, <2>1
  <1> HIDE DEF s
  <1>6. IsInjective(s)
    BY <1>1, <1>5 DEF IsInjective
  <1>7. \A x \in ToSet(s) : x \in 1..(Made + perKey) /\ x \notin MadeSet
    <2>1. \A i \in 1..perKey : Made + i \in 1..(Made + perKey) /\ Made + i \notin 1..Made
      BY <1>1
    <2> QED BY <1>1, <1>5, <2>1 DEF ToSet
  <1>8. /\ \A d \in Containers : ToSet(content[d]) \subseteq MadeSet
        /\ \A u \in Callers : held[u] # 0 => held[u] \in MadeSet
    BY DEF PoolInv, ContentTyped, CallersTyped
  <1>9. cursor[c] <= Len(s) /\ (Dedicated => cursor[c] = 0)
    <2>1. content[c] = <<>>
      BY <1>2 DEF PoolInv, ContentTyped, c
    <2>2. cursor[c] \in Nat /\ cursor[c] <= 0 /\ (Dedicated => cursor[c] = 0)
      BY <1>2, <2>1 DEF PoolInv, ContentTyped
    <2> QED BY <1>1, <1>5, <2>2
  <1>10. Dedicated => \A u \in Callers : held[u] # 0 =>
              /\ \A d \in Containers : held[u] \notin ToSet(content[d])
              /\ \A v \in Callers : v # u => held[v] # held[u]
    BY DEF PoolInv, Apart
  <1>11. cursor \in [Containers -> Nat] /\ containers' \in Nat /\ containers' >= containers
    BY <1>2 DEF PoolInv, ContentTyped, c
  <1>12. /\ ToSet(s) \subseteq MadeSet' /\ c <= containers'
         /\ \A d \in Containers : \A x \in ToSet(s) : x \notin ToSet(content[d])
         /\ \A u \in Callers : held[u] # 0 => held[u] \notin ToSet(s)
    BY <1>2, <1>4, <1>7, <1>8, <1>11
  <1> QED BY <1>2, <1>3, <1>4, <1>5, <1>6, <1>9, <1>10, <1>11, <1>12, OneContainerChanges, ZenonT(60)

\* A container that is closed, or that a caller takes a connection out of, has
\* one less.
LEMMA TakingKeepsContent ==
    ASSUME PoolInv, NEW t \in Callers, CloseNext(t) \/ (Choose(t) /\ TakeIdle(t)),
           UNCHANGED content => FALSE
    PROVE  ContentTyped' /\ Apart'
  <1> USE PoolAssumption DEF PoolAssumption
  <1>1. PICK c \in Containers : /\ content[c] # <<>>
                                /\ content' = [content EXCEPT ![c] = Tail(@)]
                                /\ c <= containers
                                /\ \/ cursor' = [cursor EXCEPT ![c] = 0] /\ UNCHANGED held
                                   \/ /\ Dedicated /\ UNCHANGED cursor
                                      /\ held' = [held EXCEPT ![t] = Head(content[c])]
    <2>1. CASE CloseNext(t)
      <3>1. Head(todo[t]) \in Containers /\ Head(todo[t]) <= containers
        BY <2>1, ContainersMade DEF CloseNext
      <3> QED BY <2>1, <3>1 DEF CloseNext
    <2>2. CASE Choose(t) /\ TakeIdle(t)
      <3>1. cont[t] \in Containers /\ cont[t] <= containers
        BY <2>2, ContainersMade DEF Choose, Working
      <3> QED BY <2>2, <3>1 DEF Choose, TakeIdle
    <2> QED BY <2>1, <2>2
  <1> DEFINE s == Tail(content[c])
             x == Head(content[c])
  <1>2. /\ s \in Seq(Connections) /\ IsInjective(s) /\ x \notin ToSet(s)
        /\ ToSet(content[c]) = ToSet(s) \cup {x} /\ x \in Connections
    BY <1>1, HeadForgets DEF PoolInv, ContentTyped, Apart
  <1>3. /\ UNCHANGED <<containers, poolClass>> /\ MadeSet \subseteq MadeSet'
    <2>1. Step(t)
      BY DEF Step, Proceed
    <2>2. MadeSet \subseteq MadeSet'
      BY <2>1, ConnKept
    <2> QED BY <2>2 DEF CloseNext, Choose
  <1>4. content' = [content EXCEPT ![c] = s]
    BY <1>1
  <1> HIDE DEF s, x
  <1>5. /\ cursor' \in [Containers -> Nat] /\ cursor'[c] <= Len(s)
        /\ \A d \in Containers : d # c => cursor'[d] = cursor[d]
        /\ Dedicated => cursor'[c] = 0
    <2>1. cursor'[c] = 0
      BY <1>1 DEF PoolInv, ContentTyped
    <2>2. Len(s) \in Nat
      BY <1>2
    <2> QED BY <1>1, <2>1, <2>2 DEF PoolInv, ContentTyped
  <1>6. containers' \in Nat /\ containers' >= containers /\ c <= containers'
    BY <1>1, <1>3 DEF PoolInv, OrderTyped
  <1>7. ToSet(s) \subseteq MadeSet'
    BY <1>2, <1>3 DEF PoolInv, ContentTyped
  <1>8. Dedicated => \A u \in Callers : held'[u] # 0 =>
              /\ held'[u] \notin ToSet(s)
              /\ \A d \in Containers : d # c => held'[u] \notin ToSet(content[d])
              /\ \A v \in Callers : v # u => held'[v] # held'[u]
    <2> SUFFICES ASSUME Dedicated
                 PROVE  \A u \in Callers : held'[u] # 0 =>
                          /\ held'[u] \notin ToSet(s)
                          /\ \A d \in Containers : d # c => held'[u] \notin ToSet(content[d])
                          /\ \A v \in Callers : v # u => held'[v] # held'[u]
      OBVIOUS
    <2>1. \A u \in Callers : held[u] # 0 =>
              /\ \A d \in Containers : held[u] \notin ToSet(content[d])
              /\ \A v \in Callers : v # u => held[v] # held[u]
      BY DEF PoolInv, Apart
    <2>2. CASE UNCHANGED held
      BY <1>2, <2>1, <2>2
    <2>3. CASE held' = [held EXCEPT ![t] = x]
      <3>1. /\ held'[t] = x /\ \A u \in Callers : u # t => held'[u] = held[u]
        BY <2>3 DEF PoolInv, CallersTyped
      <3>2. \A d \in Containers : d # c => x \notin ToSet(content[d])
        BY <1>2 DEF PoolInv, Apart
      <3>3. \A u \in Callers : held[u] # x
        BY <1>2, <2>1 DEF Connections
      <3> QED BY <1>2, <2>1, <3>1, <3>2, <3>3
    <2> QED BY <1>1, <2>2, <2>3 DEF x
  <1> QED BY <1>2, <1>3, <1>4, <1>5, <1>6, <1>7, <1>8, OneContainerChanges

\* A step that changes no container and no cursor, and gives no caller another
\* connection, keeps what the containers have.
LEMMA ContainersStay ==
    ASSUME PoolInv, NEW t \in Callers, Step(t), UNCHANGED <<content, cursor, containers>>,
           \A u \in Callers : held'[u] = held[u] \/ held'[u] = 0
    PROVE  ContentTyped' /\ Apart'
  <1>1. MadeSet \subseteq MadeSet' /\ poolClass' = poolClass
    BY ConnKept, OthersStay DEF PoolInv
  <1>2. cursor' \in [Containers -> Nat]
        /\ \A c \in Containers : cursor'[c] <= Len(content[c]) /\ (Dedicated => cursor'[c] = 0)
    BY DEF PoolInv, ContentTyped
  <1> QED BY <1>1, <1>2, NoContainerChanges

\* A connection that is taken out of an iterator takes the cursor along.
LEMMA CheckKeepsContent ==
    ASSUME PoolInv, NEW t \in Callers, Check(t)
    PROVE  ContentTyped' /\ Apart'
  <1> USE PoolAssumption DEF PoolAssumption
  <1> DEFINE c == cont[t]
             x == held[t]
             s == Del(content[c], x)
             p == Position(content[c], x)
  <1>0. Step(t) /\ UNCHANGED <<held, containers, poolClass>>
    BY DEF Check, Step, Proceed
  <1>1. MadeSet \subseteq MadeSet'
    BY <1>0, ConnKept
  <1>2. CASE UNCHANGED <<content, cursor>>
    BY <1>0, <1>2, ContainersStay
  <1>3. CASE ~Dedicated /\ Hit(content[c], x) /\ RemoveElement(c, x)
    <2>1. c \in Containers /\ c <= containers
      BY ContainersMade DEF Check, Working
    <2>2. content' = [content EXCEPT ![c] = s]
          /\ cursor' = [cursor EXCEPT ![c] = IF cursor[c] > p - 1 THEN cursor[c] - 1 ELSE cursor[c]]
      BY <1>3 DEF RemoveElement
    <2> HIDE DEF c
    <2>3. content[c] \in Seq(Connections) /\ IsInjective(content[c])
          /\ ToSet(content[c]) \subseteq MadeSet /\ cursor[c] \in Nat /\ cursor[c] <= Len(content[c])
      BY <2>1 DEF PoolInv, ContentTyped, Apart
    <2>4. p \in 1..Len(content[c]) /\ s \in Seq(Connections) /\ Len(s) = Len(content[c]) - 1
      BY <1>3, <2>3, DelElements
    <2>5. IsInjective(s) /\ ToSet(s) \subseteq ToSet(content[c])
      BY <1>3, <2>3, DelForgets, DelKeepsOthers
    <2> HIDE DEF s, p, x
    <2>6. cursor' \in [Containers -> Nat] /\ cursor'[c] <= Len(s)
          /\ \A d \in Containers : d # c => cursor'[d] = cursor[d]
      <3>1. cursor \in [Containers -> Nat]
        BY DEF PoolInv, ContentTyped
      <3>2. (IF cursor[c] > p - 1 THEN cursor[c] - 1 ELSE cursor[c]) \in 0..Len(s)
        BY <2>3, <2>4
      <3> QED BY <2>1, <2>2, <3>1, <3>2
    <2>7. containers' \in Nat /\ containers' >= containers /\ c <= containers'
      BY <1>0, <2>1 DEF PoolInv, OrderTyped
    <2> QED BY <1>0, <1>1, <1>3, <2>1, <2>2, <2>3, <2>4, <2>5, <2>6, <2>7, OneContainerChanges
  <1> QED BY <1>2, <1>3 DEF Check, RemoveElement

\* The connection made in place of a closed one is the only one of its number.
LEMMA ReplaceKeepsContent ==
    ASSUME PoolInv, NEW t \in Callers, Replace(t)
    PROVE  ContentTyped' /\ Apart'
  <1> USE PoolAssumption DEF PoolAssumption
  <1> DEFINE c == cont[t]
             x == Made + 1
             s == Append(content[c], x)
  <1>0. Step(t) /\ UNCHANGED <<cursor, containers, poolClass>>
    BY DEF Replace, Step, Proceed
  <1>1. MadeSet \subseteq MadeSet'
    BY <1>0, ConnKept
  <1>2. CASE ReplaceFails(t)
    <2>1. UNCHANGED content /\ \A u \in Callers : held'[u] = held[u] \/ held'[u] = 0
      BY <1>2 DEF ReplaceFails, Return, PoolInv, CallersTyped
    <2> QED BY <1>0, <2>1, ContainersStay
  <1>3. CASE Replaced(t)
    <2>1. c \in Containers /\ c <= containers
      BY ContainersMade DEF Replace, Working
    <2>2. content' = [content EXCEPT ![c] = s] /\ held' = [held EXCEPT ![t] = 0]
          /\ Made < MaxConnections /\ Make(1)
      BY <1>3 DEF Replaced
    <2> HIDE DEF c
    <2>3. content[c] \in Seq(Connections) /\ IsInjective(content[c])
          /\ cursor[c] \in Nat /\ cursor[c] <= Len(content[c]) /\ (Dedicated => cursor[c] = 0)
      BY <2>1 DEF PoolInv, ContentTyped, Apart
    <2>4. Made \in Nat /\ MadeSet = 1..Made /\ x \in Connections /\ x \notin MadeSet
      BY <2>2, MadeIs DEF PoolInv, Connections
    <2>5. MadeSet' = 1..x
      BY <2>2, <2>4, MakeMakes DEF PoolInv
    <2> HIDE DEF x
    <2>6. /\ \A d \in Containers : x \notin ToSet(content[d])
          /\ \A u \in Callers : held[u] # x
          /\ ToSet(content[c]) \subseteq MadeSet
      <3>1. \A d \in Containers : ToSet(content[d]) \subseteq MadeSet
        BY DEF PoolInv, ContentTyped
      <3>2. \A u \in Callers : held[u] = 0 \/ held[u] \in MadeSet
        BY DEF PoolInv, CallersTyped
      <3>3. x # 0
        BY <2>4 DEF Connections
      <3> QED BY <2>1, <2>4, <3>1, <3>2, <3>3
    <2>7. s \in Seq(Connections) /\ Len(s) = Len(content[c]) + 1 /\ IsInjective(s)
          /\ ToSet(s) = ToSet(content[c]) \cup {x}
      BY <2>1, <2>3, <2>4, <2>6, AppendAdds
    <2>8. x \in MadeSet'
      BY <2>4, <2>5 DEF Connections
    <2> HIDE DEF s
    <2>9. cursor' \in [Containers -> Nat] /\ cursor'[c] <= Len(s)
          /\ (Dedicated => cursor'[c] = 0)
          /\ \A d \in Containers : d # c => cursor'[d] = cursor[d]
      BY <1>0, <2>3, <2>7 DEF PoolInv, ContentTyped
    <2>10. containers' \in Nat /\ containers' >= containers /\ c <= containers'
      BY <1>0, <2>1 DEF PoolInv, OrderTyped
    <2>11. ToSet(s) \subseteq MadeSet'
      BY <1>1, <2>6, <2>7, <2>8
    <2>12. Dedicated => \A u \in Callers : held'[u] # 0 =>
              /\ held'[u] \notin ToSet(s)
              /\ \A d \in Containers : d # c => held'[u] \notin ToSet(content[d])
              /\ \A v \in Callers : v # u => held'[v] # held'[u]
      <3>1. /\ held'[t] = 0 /\ \A u \in Callers : u # t => held'[u] = held[u]
        BY <2>2 DEF PoolInv, CallersTyped
      <3>2. Dedicated => \A u \in Callers : held[u] # 0 =>
              /\ \A d \in Containers : held[u] \notin ToSet(content[d])
              /\ \A v \in Callers : v # u => held[v] # held[u]
        BY DEF PoolInv, Apart
      <3> QED BY <2>1, <2>6, <2>7, <3>1, <3>2
    <2>13. \A d \in Containers : d # c =>
              \A y \in ToSet(s) : y \in ToSet(content[c]) \/ y \notin ToSet(content[d])
      BY <2>6, <2>7
    <2> QED BY <1>0, <1>1, <2>1, <2>2, <2>7, <2>9, <2>10, <2>11, <2>12, <2>13, OneContainerChanges
  <1> QED BY <1>2, <1>3 DEF Replace

\* A released connection goes from its caller to the queue.
LEMMA PutBackKeepsContent ==
    ASSUME PoolInv, NEW t \in Callers, PutBack(t)
    PROVE  ContentTyped' /\ Apart'
  <1> USE PoolAssumption DEF PoolAssumption
  <1> DEFINE c == cont[t]
             x == held[t]
             s == Append(content[c], x)
  <1>0. Step(t) /\ UNCHANGED <<cursor, containers, poolClass>>
    BY DEF PutBack, Step, Proceed
  <1>1. MadeSet \subseteq MadeSet'
    BY <1>0, ConnKept
  <1>2. c \in Containers /\ c <= containers
    BY ContainersMade DEF PutBack, Working
  <1>3. Dedicated /\ x # 0 /\ x \in MadeSet
    BY DEF PutBack, PoolInv, CallersTyped, Holding
  <1>4. content' = [content EXCEPT ![c] = s] /\ held' = [held EXCEPT ![t] = 0]
    BY DEF PutBack, Return
  <1>5. /\ held'[t] = 0 /\ \A u \in Callers : u # t => held'[u] = held[u]
    BY <1>4 DEF PoolInv, CallersTyped
  <1>6. \A u \in Callers : held[u] # 0 =>
              /\ \A d \in Containers : held[u] \notin ToSet(content[d])
              /\ \A v \in Callers : v # u => held[v] # held[u]
    BY <1>3 DEF PoolInv, Apart
  <1>7. /\ \A d \in Containers : x \notin ToSet(content[d])
        /\ \A u \in Callers : u # t => held[u] # x
    BY <1>3, <1>6
  <1> HIDE DEF c
  <1>8. content[c] \in Seq(Connections) /\ IsInjective(content[c])
        /\ ToSet(content[c]) \subseteq MadeSet
        /\ cursor[c] \in Nat /\ cursor[c] = 0
    BY <1>2, <1>3 DEF PoolInv, ContentTyped, Apart
  <1>9. x \in Connections
    BY <1>3 DEF MadeSet
  <1> HIDE DEF x
  <1>10. s \in Seq(Connections) /\ Len(s) = Len(content[c]) + 1 /\ IsInjective(s)
         /\ ToSet(s) = ToSet(content[c]) \cup {x}
    BY <1>2, <1>7, <1>8, <1>9, AppendAdds
  <1> HIDE DEF s
  <1>11. cursor' \in [Containers -> Nat] /\ cursor'[c] <= Len(s) /\ cursor'[c] = 0
         /\ \A d \in Containers : d # c => cursor'[d] = cursor[d]
    BY <1>0, <1>8, <1>10 DEF PoolInv, ContentTyped
  <1>12. containers' \in Nat /\ containers' >= containers /\ c <= containers'
    BY <1>0, <1>2 DEF PoolInv, OrderTyped
  <1>13. ToSet(s) \subseteq MadeSet'
    BY <1>1, <1>3, <1>8, <1>10
  <1>14. \A u \in Callers : held'[u] # 0 =>
              /\ held'[u] \notin ToSet(s)
              /\ \A d \in Containers : d # c => held'[u] \notin ToSet(content[d])
              /\ \A v \in Callers : v # u => held'[v] # held'[u]
    BY <1>2, <1>5, <1>6, <1>7, <1>10
  <1>15. \A d \in Containers : d # c =>
              \A y \in ToSet(s) : y \in ToSet(content[c]) \/ y \notin ToSet(content[d])
    BY <1>7, <1>10
  <1> QED BY <1>0, <1>1, <1>2, <1>4, <1>10, <1>11, <1>12, <1>13, <1>14, <1>15, OneContainerChanges

\* The cursor of an iterator stays within it, and queues have none.
LEMMA ChooseKeepsContent ==
    ASSUME PoolInv, NEW t \in Callers, Choose(t)
    PROVE  ContentTyped' /\ Apart'
  <1> USE PoolAssumption DEF PoolAssumption
  <1> DEFINE c == cont[t]
  <1>0. Step(t) /\ UNCHANGED <<containers, poolClass>>
    BY DEF Choose, Step, Proceed
  <1>1. MadeSet \subseteq MadeSet'
    BY <1>0, ConnKept
  <1>2. CASE TakeIdle(t)
    <2>1. content[c] \in Seq(Connections) /\ content[c] # <<>> /\ c \in Containers
          /\ content' = [content EXCEPT ![c] = Tail(content[c])]
      BY <1>2, ContainersMade DEF TakeIdle, Choose, Working, PoolInv, ContentTyped
    <2>2. Tail(content[c]) # content[c]
      BY <2>1, HeadAndTail
    <2>3. UNCHANGED content => FALSE
      <3>1. content'[c] = Tail(content[c])
        BY <2>1 DEF PoolInv, ContentTyped
      <3>2. UNCHANGED content => content'[c] = content[c]
        OBVIOUS
      <3> QED BY <2>2, <3>1, <3>2
    <2> QED BY <1>2, <2>3, TakingKeepsContent
  <1>3. CASE GiveUp(t)
    <2>1. UNCHANGED <<content, cursor>> /\ \A u \in Callers : held'[u] = held[u] \/ held'[u] = 0
      BY <1>3 DEF GiveUp, Return, PoolInv, CallersTyped
    <2> QED BY <1>0, <2>1, ContainersStay
  <1>4. CASE TakeTurn(t) \/ TakeNothing(t)
    <2>1. c \in Containers
      BY ContainersMade DEF Choose, Working
    <2>2. cursor \in [Containers -> Nat] /\ content[c] \in Seq(Connections)
      BY <2>1 DEF PoolInv, ContentTyped
    <2>3. \E n \in 0..Len(content[c]) : cursor' = [cursor EXCEPT ![c] = n]
      <3>1. CASE TakeTurn(t)
        <4>1. Len(content[c]) \in Nat \ {0}
          BY <2>2, <3>1 DEF TakeTurn
        <4>2. Turn(c) + 1 \in 0..Len(content[c])
          BY <2>1, <2>2, <4>1 DEF Turn
        <4> QED BY <3>1, <4>2 DEF TakeTurn
      <3>2. CASE TakeNothing(t)
        <4>1. 0 \in 0..Len(content[c]) /\ cursor' = [cursor EXCEPT ![c] = 0]
          BY <2>2, <3>2 DEF TakeNothing
        <4> QED BY <4>1
      <3> QED BY <1>4, <3>1, <3>2
    <2>4. UNCHANGED content /\ ~Dedicated
      BY <1>4 DEF TakeTurn, TakeNothing
    <2>5. cursor' \in [Containers -> Nat] /\ \A d \in Containers : cursor'[d] <= Len(content[d])
      <3> HIDE DEF c
      <3>1. \A d \in Containers : cursor[d] <= Len(content[d])
        BY DEF PoolInv, ContentTyped
      <3> QED BY <2>1, <2>2, <2>3, <3>1
    <2> QED BY <1>0, <1>1, <2>4, <2>5, NoContainerChanges
  <1> QED BY <1>2, <1>3, <1>4 DEF Choose

\* Every step of a caller keeps the containers apart.
LEMMA ContentKept ==
    ASSUME PoolInv, NEW t \in Callers, Step(t)
    PROVE  ContentTyped' /\ Apart'
  <1>1. CASE Choose(t)
    BY <1>1, ChooseKeepsContent
  <1>2. CASE Check(t)
    BY <1>2, CheckKeepsContent
  <1>3. CASE Replace(t)
    BY <1>3, ReplaceKeepsContent
  <1>4. CASE PutBack(t)
    BY <1>4, PutBackKeepsContent
  <1>5. CASE CloseNext(t) /\ (UNCHANGED content => FALSE)
    BY <1>5, TakingKeepsContent
  <1>6. ASSUME NEW k \in Keys, Get(t, k), GetNew(t, k)
        PROVE  ContentTyped' /\ Apart'
    BY <1>6, GetNewKeepsContent
  <1>7. CASE /\ UNCHANGED <<content, cursor, containers>>
             /\ \A u \in Callers : held'[u] = held[u] \/ held'[u] = 0
    BY <1>7, ContainersStay
  <1>8. CASE CloseNext(t) /\ UNCHANGED content
    <2> DEFINE c == Head(todo[t])
    <2>1. c \in Containers /\ UNCHANGED <<containers, held>>
      BY <1>8, ContainersMade DEF CloseNext
    <2>2. content[c] = <<>>
      <3>1. CASE content[c] # <<>> /\ content' = [content EXCEPT ![c] = Tail(content[c])]
        <4> HIDE DEF c
        <4>1. content[c] \in Seq(Connections) /\ content'[c] = Tail(content[c])
          BY <2>1, <3>1 DEF PoolInv, ContentTyped
        <4>2. Tail(content[c]) # content[c]
          BY <3>1, <4>1, HeadAndTail
        <4>3. content'[c] = content[c]
          BY <1>8
        <4> QED BY <4>1, <4>2, <4>3
      <3> QED BY <1>8, <3>1 DEF CloseNext
    <2>3. UNCHANGED cursor
      BY <1>8, <2>2 DEF CloseNext
    <2> QED BY <1>7, <1>8, <2>1, <2>3
  <1>9. \/ Choose(t) \/ Check(t) \/ Replace(t) \/ PutBack(t) \/ CloseNext(t)
        \/ \E k \in Keys : Get(t, k) /\ GetNew(t, k)
        \/ /\ UNCHANGED <<content, cursor, containers>>
           /\ \A u \in Callers : held'[u] = held[u] \/ held'[u] = 0
    BY DEF Step, Proceed, Install, Release, PoolClosed, ClosePool, Return,
           Get, GetClosed, GetKnown, GetFails, PoolInv, CallersTyped
  <1> QED BY <1>1, <1>2, <1>3, <1>4, <1>5, <1>6, <1>7, <1>8, <1>9

-----------------------------------------------------------------------------
(* The callers and the lock.                                               *)

\* The connection an iterator hands out, or a queue, is one of its own.
LEMMA TakenIsMade ==
    ASSUME PoolInv, NEW c \in Containers, content[c] # <<>>
    PROVE  /\ Head(content[c]) \in MadeSet
           /\ Turn(c) + 1 \in 1..Len(content[c]) /\ content[c][Turn(c) + 1] \in MadeSet
  <1>1. content[c] \in Seq(Connections) /\ ToSet(content[c]) \subseteq MadeSet /\ cursor[c] \in Nat
    BY DEF PoolInv, ContentTyped
  <1>2. Len(content[c]) \in Nat \ {0}
    BY <1>1
  <1>3. Turn(c) + 1 \in 1..Len(content[c])
    BY <1>1, <1>2 DEF Turn
  <1>4. content[c][Turn(c) + 1] \in ToSet(content[c])
    BY <1>1, <1>3 DEF ToSet
  <1> QED BY <1>1, <1>3, <1>4, HeadAndTail

\* A step keeps the locals of callers within their types.
LEMMA LocalsTyped ==
    ASSUME PoolInv, NEW t \in Callers, Step(t)
    PROVE  /\ pc' \in [Callers -> CallerPcs] /\ key' \in [Callers -> Keys]
           /\ cont' \in [Callers -> 0..containers']
           /\ held' \in [Callers -> {0} \cup Connections]
           /\ calls' \in [Callers -> Nat] /\ calls'[t] <= MaxCalls[t]
  <1> USE PoolAssumption DEF PoolAssumption
  <1>1. CallersTyped /\ containers \in Nat /\ pool \in [Keys -> 0..containers]
    BY DEF PoolInv, OrderTyped
  <1>2. pc' \in [Callers -> CallerPcs]
    BY <1>1, ZenonT(60) DEF CallersTyped, CallerPcs, Step, Proceed, ClosePool, Get, GetClosed, GetKnown,
         GetFails, GetNew, Install, CloseNext, Choose, TakeIdle, GiveUp, TakeTurn,
         TakeNothing, Return, Check, Replace, ReplaceFails, Replaced, Release, PutBack, PoolClosed
  <1>3. key' \in [Callers -> Keys]
    <2>1. AnyKey \in Keys
      BY DEF AnyKey
    <2>2. ASSUME NEW k \in Keys, Get(t, k)
          PROVE  key' = key \/ key' = [key EXCEPT ![t] = k]
      BY <2>2 DEF Get, GetClosed, GetKnown, GetFails, GetNew
    <2>3. CASE Proceed(t) \/ ClosePool(t)
      <3>1. key' = key \/ key' = [key EXCEPT ![t] = AnyKey]
        BY <2>3 DEF Proceed, ClosePool, Install, CloseNext, Choose, TakeIdle, GiveUp, TakeTurn,
           TakeNothing, Return, Check, Replace, ReplaceFails, Replaced, Release, PutBack, PoolClosed
      <3> QED BY <1>1, <2>1, <3>1 DEF CallersTyped
    <2> QED BY <1>1, <2>2, <2>3 DEF CallersTyped, Step
  <1>4. cont' \in [Callers -> 0..containers']
    <2>1. containers' = containers \/ containers' = containers + 1
      BY DEF Step, Proceed, ClosePool, Get, GetClosed, GetKnown, GetFails, GetNew, Install,
             CloseNext, Choose, Check, Replace, Release, PutBack, PoolClosed
    <2>2. ASSUME NEW k \in Keys, Get(t, k)
          PROVE  cont' \in [Callers -> 0..containers']
      <3>1. \E c \in 0..containers' : cont' = cont \/ cont' = [cont EXCEPT ![t] = c]
        <4>1. containers' \in 0..containers' /\ pool[k] \in 0..containers' /\ 0 \in 0..containers'
          BY <1>1, <2>1
        <4> QED BY <2>2, <4>1 DEF Get, GetClosed, GetKnown, GetFails, GetNew
      <3>2. cont \in [Callers -> 0..containers']
        BY <1>1, <2>1 DEF CallersTyped
      <3> QED BY <3>1, <3>2
    <2>3. CASE Proceed(t) \/ ClosePool(t)
      <3>1. containers' = containers
        BY <2>3 DEF Proceed, ClosePool, Install, CloseNext, Choose, Check, Replace, Release,
                    PutBack, PoolClosed
      <3>2. CASE Release(t)
        <4>1. key[t] \in Keys
          BY <1>1 DEF CallersTyped
        <4> QED BY <1>1, <3>1, <3>2, <4>1 DEF CallersTyped, Release, Return
      <3>3. CASE ~Release(t)
        <4>1. cont' = cont \/ cont' = [cont EXCEPT ![t] = 0]
          BY <2>3, <3>3 DEF Proceed, ClosePool, Install, CloseNext, Choose, TakeIdle, GiveUp,
             TakeTurn, TakeNothing, Return, Check, Replace, ReplaceFails, Replaced, PutBack,
             PoolClosed
        <4>2. cont \in [Callers -> 0..containers'] /\ 0 \in 0..containers'
          BY <1>1, <3>1 DEF CallersTyped
        <4> QED BY <4>1, <4>2
      <3> QED BY <3>2, <3>3
    <2> QED BY <2>2, <2>3 DEF Step
  <1>5. held' \in [Callers -> {0} \cup Connections]
    <2>1. Made < MaxConnections => Made + 1 \in Connections
      BY MadeIs DEF PoolInv, Connections
    <2>2. CASE Choose(t)
      <3>1. cont[t] \in Containers
        BY <2>2, ContainersMade DEF Choose, Working
      <3>2. content[cont[t]] # <<>> =>
               /\ Head(content[cont[t]]) \in Connections
               /\ content[cont[t]][Turn(cont[t]) + 1] \in Connections
        BY <3>1, TakenIsMade DEF MadeSet
      <3> QED BY <1>1, <2>2, <3>2, ZenonT(60) DEF CallersTyped, Choose, TakeIdle, GiveUp, TakeTurn,
                                     TakeNothing, Return
    <2> QED
      BY <1>1, <2>1, <2>2 DEF CallersTyped, Step, Proceed, ClosePool, Get, GetClosed, GetKnown,
         GetFails, GetNew, Install, CloseNext, Return, Check, Replace, ReplaceFails, Replaced,
         Release, PutBack, PoolClosed
  <1>6. calls' \in [Callers -> Nat] /\ calls'[t] <= MaxCalls[t]
    <2>1. calls[t] \in Nat /\ MaxCalls[t] \in Nat /\ calls[t] <= MaxCalls[t]
      BY <1>1 DEF CallersTyped
    <2>2. ASSUME NEW k \in Keys, Get(t, k)
          PROVE  calls' = [calls EXCEPT ![t] = @ + 1] /\ calls[t] < MaxCalls[t]
      BY <2>2 DEF Get
    <2>3. UNCHANGED calls \/ (calls' = [calls EXCEPT ![t] = @ + 1] /\ calls[t] < MaxCalls[t])
      BY <2>2 DEF Step, Proceed, ClosePool, Install, CloseNext, Choose, Check, Replace,
                  Release, PutBack, PoolClosed
    <2>4. calls \in [Callers -> Nat]
      BY <1>1 DEF CallersTyped
    <2> QED BY <2>1, <2>3, <2>4
  <1> QED BY <1>2, <1>3, <1>4, <1>5, <1>6

\* A caller has a connection, and a container, as long as it needs them.
LEMMA CallersKept ==
    ASSUME PoolInv, NEW t \in Callers, Step(t)
    PROVE  CallersTyped'
  <1> USE PoolAssumption DEF PoolAssumption
  <1> DEFINE Local(u) == /\ pc'[u] \in Working => cont'[u] # 0
                         /\ pc'[u] \in Holding <=> held'[u] # 0
                         /\ held'[u] # 0 => held'[u] \in MadeSet'
                         /\ pc'[u] = "putback" => Dedicated
  <1>1. CallersTyped /\ MadeSet \subseteq MadeSet' /\ Dedicated' = Dedicated
    BY ConnKept, OthersStay DEF PoolInv, Dedicated
  <1>2. ASSUME NEW u \in Callers, u # t
        PROVE  Local(u) /\ calls'[u] <= MaxCalls[u]
    BY <1>1, <1>2, OthersStay DEF PoolInv, CallersTyped
  <1>3. Local(t)
    <2>1. /\ pc[t] \in Working => cont[t] # 0
          /\ pc[t] \in Holding <=> held[t] # 0
          /\ held[t] # 0 => held[t] \in MadeSet
          /\ pc[t] = "putback" => Dedicated
          /\ pc \in [Callers -> CallerPcs] /\ cont \in [Callers -> 0..containers]
          /\ held \in [Callers -> {0} \cup Connections] /\ key[t] \in Keys
      BY <1>1 DEF CallersTyped
    <2>2. ASSUME NEW k \in Keys, Get(t, k)
          PROVE  Local(t)
      <3>1. containers + 1 # 0 /\ (Hit(order, k) => pool[k] # 0)
        BY DEF PoolInv, OrderTyped
      <3>2. \/ pc'[t] = pc[t] /\ cont'[t] = cont[t]
            \/ pc'[t] \in {"choose", "evict"} /\ cont'[t] # 0
        BY <2>1, <2>2, <3>1 DEF Get, GetClosed, GetKnown, GetFails, GetNew
      <3>3. pc[t] = "idle" /\ held'[t] = held[t]
        BY <2>2 DEF Get, GetClosed, GetKnown, GetFails, GetNew
      <3> QED BY <2>1, <3>2, <3>3 DEF Working, Holding
    <2>3. CASE Choose(t)
      <3>1. cont[t] \in Containers
        BY <2>3, ContainersMade DEF Choose, Working
      <3>2. content[cont[t]] # <<>> =>
               /\ Head(content[cont[t]]) \in MadeSet
               /\ content[cont[t]][Turn(cont[t]) + 1] \in MadeSet
        BY <3>1, TakenIsMade
      <3>3. \A x \in MadeSet : x # 0
        BY DEF MadeSet, Connections
      <3>4. \/ pc'[t] = "idle" /\ held'[t] = 0
            \/ pc'[t] = "check" /\ held'[t] \in MadeSet /\ cont'[t] = cont[t]
        BY <2>1, <2>3, <3>2 DEF Choose, TakeIdle, GiveUp, TakeTurn, TakeNothing, Return
      <3> QED BY <1>1, <2>1, <2>3, <3>3, <3>4 DEF Choose, Working, Holding
    <2>4. CASE Replace(t)
      <3>1. \/ pc'[t] = "idle" /\ held'[t] = 0
            \/ pc'[t] = "choose" /\ held'[t] = 0 /\ cont'[t] = cont[t]
        BY <2>1, <2>4 DEF Replace, ReplaceFails, Replaced, Return
      <3> QED BY <2>1, <2>4, <3>1 DEF Replace, Working, Holding
    <2>5. CASE Release(t)
      <3>1. Hit(order, key[t]) => pool[key[t]] # 0
        BY <2>1 DEF PoolInv, OrderTyped
      <3>2. \/ pc'[t] = "idle" /\ held'[t] = 0
            \/ pc'[t] = "putback" /\ held'[t] = held[t] /\ cont'[t] # 0 /\ Dedicated
        BY <2>1, <2>5, <3>1 DEF Release, Return
      <3> QED BY <1>1, <2>1, <2>5, <3>2 DEF Release, Working, Holding
    <2>6. CASE PutBack(t)
      BY <2>1, <2>6 DEF PutBack, Return, Working, Holding
    <2>7. CASE Check(t)
      <3>1. pc[t] = "check" /\ pc'[t] \in {"using", "replace"}
            /\ held'[t] = held[t] /\ cont'[t] = cont[t]
        BY <2>1, <2>7 DEF Check
      <3> QED BY <1>1, <2>1, <3>1 DEF Working, Holding
    <2>8. CASE Install(t) \/ CloseNext(t) \/ PoolClosed(t) \/ ClosePool(t)
      <3>1. /\ held'[t] = held[t] /\ cont'[t] = cont[t]
            /\ \/ pc'[t] = pc[t]
               \/ pc[t] = "evict" /\ pc'[t] = "choose"
               \/ pc[t] = "closing" /\ pc'[t] = "idle"
               \/ pc[t] = "idle" /\ pc'[t] = "closing"
        <4>1. UNCHANGED <<held, cont>>
          BY <2>8 DEF Install, CloseNext, PoolClosed, ClosePool
        <4>2. \/ UNCHANGED pc
              \/ pc[t] = "evict" /\ pc' = [pc EXCEPT ![t] = "choose"]
              \/ pc[t] = "closing" /\ pc' = [pc EXCEPT ![t] = "idle"]
              \/ pc[t] = "idle" /\ pc' = [pc EXCEPT ![t] = "closing"]
          BY <2>8 DEF Install, CloseNext, PoolClosed, ClosePool
        <4> QED BY <2>1, <4>1, <4>2
      <3> QED BY <1>1, <2>1, <3>1 DEF Working, Holding
    <2> QED BY <2>2, <2>3, <2>4, <2>5, <2>6, <2>7, <2>8 DEF Step, Proceed
  <1>4. \A u \in Callers : Local(u) /\ calls'[u] <= MaxCalls[u]
    BY <1>2, <1>3, LocalsTyped
  <1> QED BY <1>1, <1>4, LocalsTyped DEF CallersTyped

\* What is closed is what was cached.
LEMMA ClosingKept ==
    ASSUME PoolInv, NEW t \in Callers, Step(t)
    PROVE  ClosingTyped'
  <1> USE PoolAssumption DEF PoolAssumption
  <1>1. ClosingTyped /\ OrderTyped
    BY DEF PoolInv
  <1>2. CASE UNCHANGED <<todo, retired, lost, containers>>
    BY <1>1, <1>2 DEF ClosingTyped
  <1>3. \A k \in ToSet(order) : k \in Keys /\ pool[k] \in 1..containers
    <2>1. \A k \in ToSet(order) : k \in Keys
      BY <1>1 DEF OrderTyped, ToSet
    <2>2. \A k \in Keys : pool[k] \in 0..containers /\ (k \in ToSet(order) => pool[k] # 0)
      BY <1>1 DEF OrderTyped, Hit
    <2> QED BY <1>1, <2>1, <2>2 DEF OrderTyped
  <1>4. ASSUME NEW k \in Keys, Get(t, k), GetNew(t, k)
        PROVE  ClosingTyped'
    <2>1. containers \in Nat /\ containers' = containers + 1 /\ 1..containers \subseteq 1..containers'
      BY <1>1, <1>4 DEF OrderTyped, GetNew
    <2>2. KicksOut(order, PoolSize) => Oldest(order) \in ToSet(order)
      <3>1. KicksOut(order, PoolSize) => Len(order) \in 1..Len(order)
        BY <1>1 DEF KicksOut, OrderTyped
      <3> QED BY <1>1, <3>1 DEF Oldest, Last, ToSet, OrderTyped
    <2>3. todo' \in [Callers -> Seq(1..containers')] /\ retired' \subseteq 1..containers'
      <3>1. todo \in [Callers -> Seq(1..containers')]
        <4>1. Seq(1..containers) \subseteq Seq(1..containers')
          BY <2>1
        <4> QED BY <1>1, <4>1 DEF ClosingTyped
      <3>2. KicksOut(order, PoolSize) => <<pool[Oldest(order)]>> \in Seq(1..containers')
        BY <1>3, <2>1, <2>2
      <3>3. \/ UNCHANGED <<todo, retired>>
            \/ /\ KicksOut(order, PoolSize) /\ todo' = [todo EXCEPT ![t] = <<pool[Oldest(order)]>>]
               /\ retired' = retired \cup {pool[Oldest(order)]}
        BY <1>4 DEF GetNew
      <3>4. retired \subseteq 1..containers' /\ (KicksOut(order, PoolSize) => pool[Oldest(order)] \in 1..containers')
        BY <1>1, <1>3, <2>1, <2>2 DEF ClosingTyped
      <3> QED BY <3>1, <3>2, <3>3, <3>4
    <2>4. UNCHANGED lost
      BY <1>4 DEF GetNew
    <2> QED BY <1>1, <2>3, <2>4 DEF ClosingTyped
  <1>5. CASE CloseNext(t)
    <2>1. todo[t] \in Seq(1..containers) /\ todo[t] # <<>>
      BY <1>1, <1>5 DEF ClosingTyped, CloseNext
    <2>2. Tail(todo[t]) \in Seq(1..containers)
      BY <2>1, HeadAndTail
    <2>3. todo' \in [Callers -> Seq(1..containers)]
      BY <1>1, <1>5, <2>2 DEF ClosingTyped, CloseNext
    <2>4. UNCHANGED <<retired, lost, containers>>
      BY <1>5 DEF CloseNext
    <2> QED BY <1>1, <2>3, <2>4 DEF ClosingTyped
  <1>6. CASE ClosePool(t)
    <2> DEFINE s == [i \in DOMAIN order |-> pool[Reverse(order)[i]]]
    <2>1. s \in Seq(1..containers)
      <3>1. order \in Seq(Keys) /\ DOMAIN order = 1..Len(order) /\ Len(order) \in Nat
        BY <1>1 DEF OrderTyped
      <3>2. \A i \in 1..Len(order) : Reverse(order)[i] = order[Len(order) - i + 1]
                                     /\ Len(order) - i + 1 \in 1..Len(order)
        BY <3>1 DEF Reverse
      <3>3. \A i \in 1..Len(order) : Reverse(order)[i] \in ToSet(order)
        BY <3>1, <3>2 DEF ToSet
      <3>4. \A i \in 1..Len(order) : pool[Reverse(order)[i]] \in 1..containers
        BY <1>3, <3>3
      <3> QED BY <3>1, <3>4
    <2> HIDE DEF s
    <2>2. todo' \in [Callers -> Seq(1..containers)]
      BY <1>1, <1>6, <2>1 DEF ClosingTyped, ClosePool, s
    <2>3. retired' \subseteq 1..containers
      BY <1>1, <1>3, <1>6 DEF ClosingTyped, ClosePool
    <2>4. UNCHANGED <<lost, containers>>
      BY <1>6 DEF ClosePool
    <2> QED BY <1>1, <2>2, <2>3, <2>4 DEF ClosingTyped
  <1>7. CASE Replace(t)
    <2>1. UNCHANGED <<todo, retired, containers>>
      BY <1>7 DEF Replace
    <2>2. lost' = lost \/ lost' = [lost EXCEPT ![cont[t]] = lost[cont[t]] + 1]
      BY <1>7 DEF Replace, ReplaceFails, Replaced
    <2>3. cont[t] \in Containers
      BY <1>7, ContainersMade DEF Replace, Working
    <2>4. lost' \in [Containers -> Nat]
      <3>1. lost \in [Containers -> Nat] /\ lost[cont[t]] + 1 \in Nat
        BY <1>1, <2>3 DEF ClosingTyped
      <3> QED BY <2>2, <3>1
    <2> QED BY <1>1, <2>1, <2>4 DEF ClosingTyped
  <1>8. \/ UNCHANGED <<todo, retired, lost, containers>>
        \/ \E k \in Keys : Get(t, k) /\ GetNew(t, k)
        \/ CloseNext(t) \/ ClosePool(t) \/ Replace(t)
    BY DEF Step, Proceed, Install, Choose, Check, Release, PutBack, PoolClosed,
           Get, GetClosed, GetKnown, GetFails
  <1> QED BY <1>2, <1>4, <1>5, <1>6, <1>7, <1>8

\* The lock is taken when it is free, and given back by who took it.
LEMMA LockKept ==
    ASSUME PoolInv, NEW t \in Callers, Step(t)
    PROVE  Locked'
  <1> USE PoolAssumption DEF PoolAssumption
  <1>1. /\ lock \in Callers \cup {Nobody} /\ pc \in [Callers -> CallerPcs]
        /\ \A u \in Callers : /\ pc[u] \in {"evict", "closing"} <=> lock = u
                              /\ todo[u] # <<>> => pc[u] \in {"evict", "closing"}
        /\ todo \in [Callers -> Seq(1..containers)]
    BY DEF PoolInv, Locked, CallersTyped, ClosingTyped
  <1>2. \A u \in Callers : u # t => pc'[u] = pc[u] /\ todo'[u] = todo[u]
    BY OthersStay DEF PoolInv
  <1>3. CASE pc'[t] = pc[t] /\ lock' = lock /\ (todo'[t] = todo[t] \/ todo[t] # <<>>)
    BY <1>1, <1>2, <1>3 DEF Locked
  <1>4. CASE /\ pc[t] \notin {"evict", "closing"} /\ pc'[t] \notin {"evict", "closing"}
             /\ UNCHANGED <<lock, todo>>
    BY <1>1, <1>2, <1>4 DEF Locked
  <1>5. CASE lock = Nobody /\ lock' = t /\ pc'[t] \in {"evict", "closing"}
    BY <1>1, <1>2, <1>5 DEF Locked
  <1>6. CASE /\ pc[t] \in {"evict", "closing"} /\ todo[t] = <<>> /\ UNCHANGED todo
             /\ lock' = Nobody /\ pc'[t] \notin {"evict", "closing"}
    BY <1>1, <1>2, <1>6 DEF Locked
  <1>7. ASSUME NEW k \in Keys, Get(t, k)
        PROVE  \/ pc'[t] = pc[t] /\ lock' = lock /\ todo'[t] = todo[t]
               \/ /\ pc[t] \notin {"evict", "closing"} /\ pc'[t] \notin {"evict", "closing"}
                  /\ UNCHANGED <<lock, todo>>
               \/ lock = Nobody /\ lock' = t /\ pc'[t] \in {"evict", "closing"}
    BY <1>1, <1>7 DEF Get, GetClosed, GetKnown, GetFails, GetNew
  <1>8. CASE CloseNext(t)
    <2>1. pc'[t] = pc[t] /\ lock' = lock /\ todo[t] # <<>>
      BY <1>8 DEF CloseNext
    <2> QED BY <1>3, <2>1
  <1>9. CASE ClosePool(t)
    BY <1>1, <1>5, <1>9 DEF ClosePool
  <1>10. CASE Install(t) \/ PoolClosed(t)
    BY <1>1, <1>6, <1>10 DEF Install, PoolClosed
  <1>11. CASE Choose(t) \/ Check(t) \/ Replace(t) \/ Release(t) \/ PutBack(t)
    BY <1>1, <1>4, <1>11 DEF Choose, TakeIdle, GiveUp, TakeTurn, TakeNothing, Return, Check,
       Replace, ReplaceFails, Replaced, Release, PutBack
  <1> QED BY <1>3, <1>4, <1>5, <1>7, <1>8, <1>9, <1>10, <1>11 DEF Step, Proceed

-----------------------------------------------------------------------------
(* Which containers are retired.                                           *)

\* The operations that leave _pool and the history alone.
LEMMA RetiredUntouched ==
    ASSUME PoolInv, NEW t \in Callers, Step(t), UNCHANGED <<order, pool, poolClosed, retired>>,
           ToSet(todo'[t]) \subseteq ToSet(todo[t]),
           \/ pc'[t] \in {"idle", "putback"}
           \/ /\ key'[t] = key[t] /\ cont'[t] = cont[t]
              /\ \/ pc'[t] = pc[t]
                 \/ {pc[t], pc'[t]} \subseteq {"choose", "check", "replace", "using"}
    PROVE  RetiredInTime'
  <1>1. RetiredInTime
    BY DEF PoolInv
  <1>2. \A u \in Callers : u # t =>
                 /\ pc'[u] = pc[u] /\ key'[u] = key[u] /\ cont'[u] = cont[u] /\ todo'[u] = todo[u]
    BY OthersStay DEF PoolInv
  <1>3. Oldest(order') = Oldest(order) /\ KicksOut(order', PoolSize) = KicksOut(order, PoolSize)
    OBVIOUS
  <1>4. \A u \in Callers :
          /\ ToSet(todo'[u]) \subseteq retired
          /\ pc'[u] = "evict" => pc[u] = "evict" /\ key'[u] = key[u]
          /\ pc'[u] = "closing" => pc[u] = "closing"
          /\ pc'[u] \in {"choose", "check", "replace", "using"} =>
                /\ pc[u] \in {"choose", "check", "replace", "using"}
                /\ key'[u] = key[u] /\ cont'[u] = cont[u]
    <2>1. \A u \in Callers : ToSet(todo[u]) \subseteq retired
      BY <1>1 DEF RetiredInTime
    <2> QED BY <1>2, <2>1
  <1> QED BY <1>1, <1>3, <1>4 DEF RetiredInTime

\* A container is retired as soon as its closing begins, and a caller that has
\* the one of its key goes on having it until then.
LEMMA RetiredKept ==
    ASSUME PoolInv, NEW t \in Callers, Step(t)
    PROVE  RetiredInTime'
  <1> USE PoolAssumption DEF PoolAssumption
  <1>1. /\ RetiredInTime /\ OrderTyped /\ CallersTyped /\ ClosingTyped
        /\ lock = Nobody => \A u \in Callers : pc[u] \notin {"evict", "closing"}
        /\ \A u \in Callers : pc[u] \in {"evict", "closing"} => lock = u
        /\ \A u \in Callers : todo[u] # <<>> => pc[u] \in {"evict", "closing"}
    BY DEF PoolInv, Locked
  <1>2. \A u \in Callers : u # t =>
                 /\ pc'[u] = pc[u] /\ key'[u] = key[u] /\ cont'[u] = cont[u] /\ todo'[u] = todo[u]
    BY OthersStay DEF PoolInv
  <1>3. \A u \in Callers : ToSet(todo[u]) \subseteq retired
    BY <1>1 DEF RetiredInTime
  <1>4. \A u \in Callers : pc[u] \in {"choose", "check", "replace", "using"} /\ cont[u] \notin retired
                              => pool[key[u]] = cont[u]
    BY <1>1 DEF RetiredInTime
  <1>5. CASE CloseNext(t)
    <2>1. todo[t] # <<>> /\ todo[t] \in Seq(1..containers) /\ todo \in [Callers -> Seq(1..containers)]
      BY <1>1, <1>5 DEF CloseNext, ClosingTyped
    <2>2. ToSet(Tail(todo[t])) \subseteq ToSet(todo[t])
      BY <2>1, HeadAndTail
    <2>3. todo'[t] = todo[t] \/ todo'[t] = Tail(todo[t])
      BY <1>5, <2>1 DEF CloseNext
    <2>4. UNCHANGED <<order, pool, poolClosed, retired, pc, key, cont>>
      BY <1>5 DEF CloseNext
    <2> QED BY <2>2, <2>3, <2>4, RetiredUntouched
  <1>6. CASE Choose(t) \/ Check(t) \/ Replace(t) \/ PutBack(t)
    <2>1. UNCHANGED <<order, pool, poolClosed, retired, todo>>
      BY <1>6 DEF Choose, Check, Replace, PutBack
    <2>2. /\ pc[t] \in {"choose", "check", "replace", "putback"}
          /\ \/ pc'[t] = "idle"
             \/ /\ key'[t] = key[t] /\ cont'[t] = cont[t] /\ pc[t] # "putback"
                /\ pc'[t] \in {"choose", "check", "replace", "using"}
      BY <1>1, <1>6 DEF Choose, TakeIdle, GiveUp, TakeTurn, TakeNothing, Return, Check, Replace,
                        ReplaceFails, Replaced, PutBack, CallersTyped
    <2> QED BY <2>1, <2>2, RetiredUntouched
  <1>7. ASSUME ToSet(order') = ToSet(order), UNCHANGED <<pool, poolClosed, retired, todo>>,
               lock = Nobody, ~poolClosed, pc'[t] \in {"idle", "putback", "choose"},
               pc'[t] = "choose" => pool[key'[t]] = cont'[t]
        PROVE  RetiredInTime'
    <2>1. \A u \in Callers :
          /\ ToSet(todo'[u]) \subseteq retired'
          /\ pc'[u] \notin {"evict", "closing"}
          /\ pc'[u] \in {"choose", "check", "replace", "using"} /\ cont'[u] \notin retired
                => pool[key'[u]] = cont'[u]
      BY <1>1, <1>2, <1>3, <1>4, <1>7
    <2> QED BY <1>7, <2>1 DEF RetiredInTime
  <1>8. CASE Release(t)
    <2>1. /\ UNCHANGED <<pool, poolClosed, retired, todo>> /\ lock = Nobody
          /\ pc'[t] \in {"idle", "putback"}
          /\ \/ UNCHANGED order
             \/ ~poolClosed /\ Hit(order, key[t]) /\ order' = Touch(order, key[t])
      BY <1>1, <1>8 DEF Release, Return, CallersTyped
    <2>2. CASE UNCHANGED order
      BY <2>1, <2>2, RetiredUntouched
    <2>3. CASE ~poolClosed /\ Hit(order, key[t]) /\ order' = Touch(order, key[t])
      <3>1. ToSet(order') = ToSet(order)
        BY <1>1, <2>3, TouchKeeps DEF OrderTyped, CallersTyped
      <3> QED BY <1>7, <2>1, <2>3, <3>1
    <2> QED BY <2>1, <2>2, <2>3
  <1>9. ASSUME NEW k \in Keys, Get(t, k), GetClosed(t) \/ GetFails(t, k)
        PROVE  RetiredInTime'
    <2>1. UNCHANGED <<order, pool, poolClosed, retired, pc, key, cont, todo>>
      BY <1>9 DEF GetClosed, GetFails
    <2> QED BY <2>1, RetiredUntouched
  <1>10. ASSUME NEW k \in Keys, Get(t, k), GetKnown(t, k)
         PROVE  RetiredInTime'
    <2>1. ToSet(order') = ToSet(order)
      BY <1>1, <1>10, TouchKeeps DEF OrderTyped, GetKnown
    <2>2. /\ UNCHANGED <<pool, poolClosed, retired, todo>> /\ lock = Nobody /\ ~poolClosed
          /\ pc'[t] = "choose" /\ pool[key'[t]] = cont'[t]
      BY <1>1, <1>10 DEF Get, GetKnown, CallersTyped
    <2> QED BY <1>7, <2>1, <2>2
  <1>11. ASSUME NEW k \in Keys, Get(t, k), GetNew(t, k)
         PROVE  RetiredInTime'
    <2>1. /\ UNCHANGED <<order, pool, poolClosed>> /\ lock = Nobody /\ ~poolClosed
          /\ pc'[t] = "evict" /\ key'[t] = k /\ ~Hit(order, k) /\ retired \subseteq retired'
      BY <1>1, <1>11 DEF Get, GetNew, CallersTyped
    <2>2. KicksOut(order, PoolSize) => pool[Oldest(order)] \in retired'
      BY <1>11 DEF GetNew
    <2>3. ToSet(todo'[t]) \subseteq retired'
      <3>1. CASE KicksOut(order, PoolSize)
        <4>1. todo'[t] = <<pool[Oldest(order)]>>
          BY <1>1, <1>11, <3>1 DEF GetNew, ClosingTyped
        <4>2. \A i \in DOMAIN todo'[t] : todo'[t][i] = pool[Oldest(order)]
          BY <4>1
        <4> QED BY <2>2, <3>1, <4>2 DEF ToSet
      <3>2. CASE ~KicksOut(order, PoolSize)
        BY <1>3, <1>11, <2>1, <3>2 DEF GetNew
      <3> QED BY <3>1, <3>2
    <2>4. \A u \in Callers :
          /\ ToSet(todo'[u]) \subseteq retired'
          /\ pc'[u] # "closing" /\ (pc'[u] = "evict" => u = t)
          /\ pc'[u] \in {"choose", "check", "replace", "using"} /\ cont'[u] \notin retired'
                => pool[key'[u]] = cont'[u]
      BY <1>1, <1>2, <1>3, <1>4, <2>1, <2>3
    <2> QED BY <2>1, <2>2, <2>4 DEF RetiredInTime
  <1>12. CASE ClosePool(t)
    <2>1. /\ UNCHANGED <<order, pool, poolClosed>> /\ lock = Nobody /\ ~poolClosed
          /\ pc'[t] = "closing" /\ retired' = retired \cup {pool[k] : k \in ToSet(order)}
      BY <1>1, <1>12 DEF ClosePool, CallersTyped
    <2>2. ToSet(todo'[t]) \subseteq retired'
      <3>1. order \in Seq(Keys) /\ DOMAIN order = 1..Len(order) /\ Len(order) \in Nat
        BY <1>1 DEF OrderTyped
      <3>2. \A i \in 1..Len(order) : Reverse(order)[i] = order[Len(order) - i + 1]
                                     /\ Len(order) - i + 1 \in 1..Len(order)
        BY <3>1 DEF Reverse
      <3>3. \A i \in DOMAIN order : Reverse(order)[i] \in ToSet(order)
        BY <3>1, <3>2 DEF ToSet
      <3>4. todo'[t] = [i \in DOMAIN order |-> pool[Reverse(order)[i]]]
        BY <1>1, <1>12 DEF ClosePool, ClosingTyped
      <3>5. DOMAIN todo'[t] = DOMAIN order
            /\ \A i \in DOMAIN order : todo'[t][i] = pool[Reverse(order)[i]]
        BY <3>4
      <3> QED BY <2>1, <3>3, <3>5 DEF ToSet
    <2>3. \A u \in Callers :
          /\ ToSet(todo'[u]) \subseteq retired'
          /\ pc'[u] # "evict" /\ (pc'[u] = "closing" => u = t)
          /\ pc'[u] \in {"choose", "check", "replace", "using"} /\ cont'[u] \notin retired'
                => pool[key'[u]] = cont'[u]
      BY <1>1, <1>2, <1>3, <1>4, <2>1, <2>2
    <2> QED BY <2>1, <2>3 DEF RetiredInTime
  <1>13. CASE PoolClosed(t)
    <2>1. /\ UNCHANGED <<order, pool, retired, todo>> /\ pc[t] = "closing" /\ pc'[t] = "idle"
      BY <1>1, <1>13 DEF PoolClosed, CallersTyped
    <2>2. \A k \in ToSet(order) : pool[k] \in retired
      BY <1>1, <2>1 DEF RetiredInTime
    <2>3. \A u \in Callers :
          /\ ToSet(todo'[u]) \subseteq retired'
          /\ pc'[u] \notin {"evict", "closing"}
          /\ pc'[u] \in {"choose", "check", "replace", "using"} /\ cont'[u] \notin retired'
                => pool[key'[u]] = cont'[u]
      BY <1>1, <1>2, <1>3, <1>4, <2>1
    <2> QED BY <2>1, <2>2, <2>3 DEF RetiredInTime
  <1>14. CASE Install(t)
    <2>1. /\ UNCHANGED <<poolClosed, retired, todo, key, cont>> /\ pc[t] = "evict" /\ pc'[t] = "choose"
          /\ order' = Set(order, key[t], PoolSize)
          /\ \A k \in Keys : pool'[k] = IF k = key[t] THEN cont[t]
                                        ELSE IF Hit(order', k) THEN pool[k] ELSE 0
      BY <1>1, <1>14 DEF Install, CallersTyped
    <2>2. /\ ~Hit(order, key[t]) /\ ~poolClosed /\ key[t] \in Keys
          /\ KicksOut(order, PoolSize) => pool[Oldest(order)] \in retired
      BY <1>1, <2>1 DEF RetiredInTime, CallersTyped
    <2>3. \A k \in Keys : Hit(order, k) /\ pool[k] \notin retired => Hit(order', k)
      <3>1. \A k \in ToSet(order) : ~(KicksOut(order, PoolSize) /\ k = Oldest(order))
                => k \in ToSet(order')
        BY <1>1, <2>1, <2>2, SetKeepsOthers DEF OrderTyped
      <3> QED BY <2>2, <3>1 DEF Hit
    <2>4. \A u \in Callers :
             pc[u] \in {"choose", "check", "replace", "using"} /\ cont[u] \notin retired
                => pool'[key[u]] = cont[u]
      <3> SUFFICES ASSUME NEW u \in Callers, cont[u] \notin retired,
                          pc[u] \in {"choose", "check", "replace", "using"}
                   PROVE  pool'[key[u]] = cont[u]
        OBVIOUS
      <3>1. pool[key[u]] = cont[u] /\ cont[u] # 0 /\ key[u] \in Keys
        BY <1>1, <1>4 DEF CallersTyped, Working
      <3>2. Hit(order, key[u])
        BY <1>1, <3>1 DEF OrderTyped
      <3>3. Hit(order', key[u]) /\ key[u] # key[t]
        BY <2>2, <2>3, <3>1, <3>2
      <3> QED BY <2>1, <3>1, <3>3
    <2>5. pool'[key[t]] = cont[t]
      BY <2>1, <2>2
    <2>6. \A u \in Callers :
          /\ ToSet(todo'[u]) \subseteq retired'
          /\ pc'[u] \notin {"evict", "closing"}
          /\ pc'[u] \in {"choose", "check", "replace", "using"} /\ cont'[u] \notin retired'
                => pool'[key'[u]] = cont'[u]
      BY <1>1, <1>2, <1>3, <2>1, <2>4, <2>5
    <2> QED BY <2>1, <2>2, <2>6 DEF RetiredInTime
  <1> QED BY <1>5, <1>6, <1>8, <1>9, <1>10, <1>11, <1>12, <1>13, <1>14 DEF Step, Proceed, Get

-----------------------------------------------------------------------------
(* The connections of a container.                                         *)

\* The part of a caller in what is owed to a container.
Owes(t, c) == IF t \in Owing(c) THEN 1 ELSE 0

\* A step of a caller takes no connection from a container but one it owes.
NoSlotLost(t) ==
    \A c \in (1..containers) \ retired' :
        Len(content'[c]) + lost'[c] + Owes(t, c)' >= Len(content[c]) + lost[c] + Owes(t, c)

\* What has to be counted is finite and typed.
LEMMA SlotsTyped ==
    ASSUME PoolInv, NEW t \in Callers, NEW c \in Containers
    PROVE  Len(content[c]) \in Nat /\ lost[c] \in Nat /\ Owes(t, c) \in {0, 1}
  BY DEF PoolInv, ContentTyped, ClosingTyped, Owes

\* A history only grows.
LEMMA RetiredGrows ==
    ASSUME NEW t, Step(t)
    PROVE  retired \subseteq retired'
  BY DEF Step, Proceed, ClosePool, Get, GetClosed, GetKnown, GetFails, GetNew, Install,
         CloseNext, Choose, Check, Replace, Release, PutBack, PoolClosed

\* Only the caller that steps is counted otherwise than before.
LEMMA SlotsFollow ==
    ASSUME PoolInv, NEW t \in Callers, Step(t), NoSlotLost(t), containers' <= containers + 1,
           containers' = containers + 1 => Len(content'[containers + 1]) >= perKey
    PROVE  SlotsCounted'
  <1> USE PoolAssumption DEF PoolAssumption
  <1>1. /\ OrderTyped' /\ ContentTyped' /\ ClosingTyped' /\ poolClass' = poolClass
        /\ SlotsCounted /\ retired \subseteq retired'
        /\ perKey \in Nat /\ perKey' = perKey
    BY OrderKept, ContentKept, ClosingKept, OthersStay, RetiredGrows
       DEF PoolInv, OrderTyped, perKey
  <1>2. \A c \in Containers :
           /\ Len(content[c]) \in Nat /\ lost[c] \in Nat
           /\ Len(content'[c]) \in Nat /\ lost'[c] \in Nat
    BY <1>1, SlotsTyped DEF ContentTyped, ClosingTyped
  <1>3. ASSUME NEW c \in Containers
        PROVE  /\ IsFiniteSet(Owing(c)') /\ Cardinality(Owing(c)) \in Nat
               /\ Cardinality(Owing(c)') \in Nat
               /\ Cardinality(Owing(c)') + Owes(t, c) = Cardinality(Owing(c)) + Owes(t, c)'
    <2> DEFINE A == Owing(c)
               B == Owing(c)'
    <2>1. A \ {t} = B \ {t}
      <3>1. \A u \in Callers : u # t => pc'[u] = pc[u] /\ cont'[u] = cont[u]
        BY OthersStay DEF PoolInv
      <3> QED BY <1>1, <3>1 DEF Owing, Dedicated
    <2>2. IsFiniteSet(A)
      BY <1>1 DEF SlotsCounted
    <2>3. Owes(t, c) = (IF t \in A THEN 1 ELSE 0) /\ Owes(t, c)' = IF t \in B THEN 1 ELSE 0
      BY DEF Owes
    <2> HIDE DEF A, B
    <2>4. /\ IsFiniteSet(B) /\ Cardinality(A) \in Nat /\ Cardinality(B) \in Nat
          /\ Cardinality(B) + (IF t \in A THEN 1 ELSE 0)
                 = Cardinality(A) + (IF t \in B THEN 1 ELSE 0)
      BY <2>1, <2>2, OneApart
    <2> QED BY <2>3, <2>4 DEF A, B
  <1>4. ASSUME NEW c \in (1..containers') \ retired'
        PROVE  Len(content'[c]) + Cardinality(Owing(c)') + lost'[c] >= perKey
    <2>1. c \in Containers /\ containers \in Nat /\ containers' \in Nat
      BY <1>1 DEF PoolInv, OrderTyped, Containers
    <2>2. CASE c \in 1..containers
      <3>1. Len(content[c]) + Cardinality(Owing(c)) + lost[c] >= perKey
        BY <1>1, <2>2 DEF SlotsCounted, SlotsAccounted
      <3>2. Len(content'[c]) + lost'[c] + Owes(t, c)' >= Len(content[c]) + lost[c] + Owes(t, c)
        BY <2>2 DEF NoSlotLost
      <3>3. Owes(t, c) \in {0, 1} /\ Owes(t, c)' \in {0, 1}
        BY DEF Owes
      <3> DEFINE n == Cardinality(Owing(c))
                 m == Cardinality(Owing(c)')
                 i == Owes(t, c)
                 j == Owes(t, c)'
                 a == Len(content[c]) + lost[c]
                 b == Len(content'[c]) + lost'[c]
      <3>4. /\ n \in Nat /\ m \in Nat /\ a \in Nat /\ b \in Nat /\ i \in {0, 1} /\ j \in {0, 1}
            /\ m + i = n + j /\ a + n >= perKey /\ b + j >= a + i
        <4>1. n \in Nat /\ m \in Nat /\ i \in {0, 1} /\ j \in {0, 1} /\ m + i = n + j
          BY <1>3, <2>1, <3>3
        <4>2. a \in Nat /\ b \in Nat
          BY <1>2, <2>1
        <4>3. b + j >= a + i
          BY <3>2
        <4>4. Len(content[c]) \in Nat /\ lost[c] \in Nat
          BY <1>2, <2>1
        <4>5. Len(content[c]) + n + lost[c] >= perKey
          BY <3>1
        <4>6. a + n >= perKey
          <5> HIDE DEF n
          <5> QED BY <1>1, <4>1, <4>4, <4>5
        <4> HIDE DEF n, m, i, j, a, b
        <4> QED BY <4>1, <4>2, <4>3, <4>6
      <3> HIDE DEF n, m, i, j, a, b
      <3>5. b + m >= perKey
        BY <1>1, <3>4
      <3>6. Len(content'[c]) \in Nat /\ lost'[c] \in Nat
        BY <1>2, <2>1
      <3>7. m = Cardinality(Owing(c)') /\ b = Len(content'[c]) + lost'[c]
        BY DEF m, b
      <3>8. \A x, y, z, p \in Nat : (x + y) + z >= p => (x + z) + y >= p
        OBVIOUS
      <3>9. (Len(content'[c]) + lost'[c]) + Cardinality(Owing(c)') >= perKey
        BY <3>5, <3>7
      <3>10. Cardinality(Owing(c)') \in Nat /\ perKey \in Nat
        BY <1>1, <1>3, <2>1
      <3> QED BY <3>6, <3>8, <3>9, <3>10
    <2>3. CASE c \notin 1..containers
      <3>1. c = containers + 1 /\ containers' = containers + 1
        BY <2>1, <2>3
      <3>2. Len(content'[c]) >= perKey
        BY <3>1
      <3>3. Len(content'[c]) \in Nat /\ lost'[c] \in Nat /\ Cardinality(Owing(c)') \in Nat
        BY <1>2, <1>3, <2>1
      <3> QED BY <1>1, <3>2, <3>3
    <2> QED BY <2>2, <2>3
  <1> QED BY <1>1, <1>3, <1>4 DEF SlotsCounted, SlotsAccounted

\* The steps that change neither containers nor what the caller owes.
LEMMA NothingOwed ==
    ASSUME PoolInv, NEW t \in Callers, Step(t), UNCHANGED <<content, lost>>,
           \/ pc'[t] = pc[t] /\ cont'[t] = cont[t]
           \/ {pc[t], pc'[t]} \cap {"check", "using", "replace", "putback"} = {}
           \/ /\ Dedicated /\ cont'[t] = cont[t]
              /\ {pc[t], pc'[t]} \subseteq {"check", "using", "replace", "putback"}
           \/ ~Dedicated /\ {pc[t], pc'[t]} \cap {"replace"} = {}
    PROVE  NoSlotLost(t)
  <1>1. Dedicated' = Dedicated /\ 1..containers \subseteq Containers
    BY OthersStay, ContainersMade DEF PoolInv, Dedicated
  <1>2. ASSUME NEW c \in 1..containers
        PROVE  Owes(t, c)' = Owes(t, c)
    BY <1>1 DEF Owes, Owing
  <1>3. ASSUME NEW c \in 1..containers
        PROVE  Len(content[c]) \in Nat /\ lost[c] \in Nat /\ Owes(t, c) \in {0, 1}
    BY <1>1, SlotsTyped
  <1> QED BY <1>2, <1>3 DEF NoSlotLost

\* The steps that give or take one connection to or from one container, or give
\* it up.
LEMMA OneOwed ==
    ASSUME PoolInv, NEW t \in Callers, Step(t), NEW c \in Containers,
           content' \in [Containers -> Seq(Connections)],
           \A d \in Containers : d # c => content'[d] = content[d] /\ lost'[d] = lost[d],
           cont[t] = c, cont'[t] = c \/ pc'[t] = "idle",
           lost'[c] \in Nat,
           Len(content'[c]) + lost'[c] + Owes(t, c)' >= Len(content[c]) + lost[c] + Owes(t, c)
    PROVE  NoSlotLost(t)
  <1>1. Dedicated' = Dedicated /\ 1..containers \subseteq Containers
    BY OthersStay, ContainersMade DEF PoolInv, Dedicated
  <1>2. ASSUME NEW d \in 1..containers, d # c
        PROVE  Owes(t, d)' = Owes(t, d)
    BY <1>1, <1>2 DEF Owes, Owing
  <1>3. ASSUME NEW d \in 1..containers
        PROVE  Len(content[d]) \in Nat /\ lost[d] \in Nat /\ Owes(t, d) \in {0, 1}
    BY <1>1, SlotsTyped
  <1>4. ASSUME NEW d \in 1..containers
        PROVE  Len(content'[d]) + lost'[d] + Owes(t, d)' >= Len(content[d]) + lost[d] + Owes(t, d)
    <2>1. CASE d = c
      BY <2>1
    <2>2. CASE d # c
      <3>1. content'[d] = content[d] /\ lost'[d] = lost[d] /\ Owes(t, d)' = Owes(t, d)
        BY <1>1, <1>2, <2>2
      <3> QED BY <1>3, <3>1
    <2> QED BY <2>1, <2>2
  <1> QED BY <1>4 DEF NoSlotLost

\* Taking a connection out of a queue, or waiting in vain, loses none.
LEMMA ChooseLosesNone ==
    ASSUME PoolInv, NEW t \in Callers, Choose(t)
    PROVE  NoSlotLost(t)
  <1> USE PoolAssumption DEF PoolAssumption
  <1>0. PICK c \in Containers : cont[t] = c
    BY ContainersMade DEF Choose, Working
  <1> USE <1>0
  <1>1. /\ Step(t) /\ UNCHANGED lost /\ pc \in [Callers -> CallerPcs]
        /\ cont \in [Callers -> 0..containers] /\ pc[t] = "choose" /\ c \in Containers
        /\ lost \in [Containers -> Nat] /\ poolClass' = poolClass
    BY ContainersMade DEF Choose, Step, Proceed, PoolInv, CallersTyped, ClosingTyped, Working
  <1>2. CASE TakeIdle(t)
    <2>1. /\ Dedicated /\ pc'[t] = "check" /\ cont'[t] = c /\ content[c] # <<>>
          /\ content' = [content EXCEPT ![c] = Tail(content[c])]
      BY <1>1, <1>2 DEF TakeIdle
    <2>2. Owes(t, c) = 0 /\ Owes(t, c)' = 1
      BY <1>1, <2>1 DEF Owes, Owing, Dedicated
    <2>3. content \in [Containers -> Seq(Connections)]
      BY DEF PoolInv, ContentTyped
    <2>4. Tail(content[c]) \in Seq(Connections) /\ Len(Tail(content[c])) = Len(content[c]) - 1
          /\ Len(content[c]) \in Nat
      BY <1>1, <2>1, <2>3, HeadAndTail
    <2>5. /\ content' \in [Containers -> Seq(Connections)] /\ Len(content'[c]) = Len(content[c]) - 1
          /\ \A d \in Containers : d # c => content'[d] = content[d]
      BY <1>1, <2>1, <2>3, <2>4
    <2>6. Len(content'[c]) + lost'[c] + Owes(t, c)' >= Len(content[c]) + lost[c] + Owes(t, c)
      BY <1>1, <2>2, <2>4, <2>5
    <2>7. lost'[c] \in Nat /\ \A d \in Containers : lost'[d] = lost[d]
      BY <1>1
    <2> QED BY <1>1, <2>1, <2>5, <2>6, OneOwed
  <1>3. CASE GiveUp(t) \/ TakeTurn(t) \/ TakeNothing(t)
    <2>1. /\ UNCHANGED content
          /\ pc'[t] = "idle" \/ (~Dedicated /\ pc'[t] = "check")
      BY <1>1, <1>3 DEF GiveUp, TakeTurn, TakeNothing, Return
    <2> QED BY <1>1, <2>1, NothingOwed
  <1> QED BY <1>2, <1>3 DEF Choose

\* Who takes a connection out of an iterator owes one.
LEMMA CheckLosesNone ==
    ASSUME PoolInv, NEW t \in Callers, Check(t)
    PROVE  NoSlotLost(t)
  <1> USE PoolAssumption DEF PoolAssumption
  <1>0. PICK c \in Containers : cont[t] = c
    BY ContainersMade DEF Check, Working
  <1> USE <1>0
  <1>1. /\ Step(t) /\ UNCHANGED <<lost, cont>> /\ pc \in [Callers -> CallerPcs]
        /\ pc[t] = "check" /\ c \in Containers
        /\ lost \in [Containers -> Nat] /\ poolClass' = poolClass
        /\ content \in [Containers -> Seq(Connections)]
    BY ContainersMade DEF Check, Step, Proceed, PoolInv, CallersTyped, ClosingTyped, ContentTyped,
                          Working
  <1>2. \/ UNCHANGED content /\ pc'[t] = "using"
        \/ UNCHANGED content /\ pc'[t] = "replace" /\ Dedicated
        \/ /\ pc'[t] = "replace" /\ ~Dedicated
           /\ \/ UNCHANGED content
              \/ Hit(content[c], held[t]) /\ content' = [content EXCEPT ![c] = Del(@, held[t])]
    BY <1>1 DEF Check, RemoveElement
  <1>3. CASE UNCHANGED content /\ (pc'[t] = "using" \/ Dedicated)
    <2>1. pc'[t] \in {"using", "replace"}
      BY <1>2
    <2> QED BY <1>1, <1>2, <1>3, <2>1, NothingOwed
  <1>4. CASE /\ pc'[t] = "replace" /\ ~Dedicated
             /\ \/ UNCHANGED content
                \/ Hit(content[c], held[t]) /\ content' = [content EXCEPT ![c] = Del(@, held[t])]
    <2>1. Owes(t, c) = 0 /\ Owes(t, c)' = 1
      BY <1>1, <1>4 DEF Owes, Owing, Dedicated
    <2>2. Len(content[c]) \in Nat /\ content[c] \in Seq(Connections)
      BY <1>1
    <2>3. /\ content' \in [Containers -> Seq(Connections)] /\ Len(content'[c]) >= Len(content[c]) - 1
          /\ Len(content'[c]) \in Nat
          /\ \A d \in Containers : d # c => content'[d] = content[d]
      <3>1. CASE UNCHANGED content
        BY <1>1, <2>2, <3>1
      <3>2. CASE Hit(content[c], held[t]) /\ content' = [content EXCEPT ![c] = Del(@, held[t])]
        <4> DEFINE s == Del(content[c], held[t])
        <4>1. s \in Seq(Connections) /\ Len(s) = Len(content[c]) - 1
          BY <2>2, <3>2, DelKeepsOthers
        <4>2. content' = [content EXCEPT ![c] = s]
          BY <3>2
        <4> HIDE DEF s
        <4> QED BY <1>1, <2>2, <4>1, <4>2
      <3> QED BY <1>4, <3>1, <3>2
    <2>4. Len(content'[c]) + lost'[c] + Owes(t, c)' >= Len(content[c]) + lost[c] + Owes(t, c)
      <3>1. lost'[c] = lost[c] /\ lost[c] \in Nat
        BY <1>1
      <3> QED BY <2>1, <2>2, <2>3, <3>1
    <2>5. lost'[c] \in Nat /\ \A d \in Containers : lost'[d] = lost[d]
      BY <1>1
    <2>6. cont[t] = c /\ cont'[t] = c
      BY <1>1
    <2> QED BY <1>1, <2>3, <2>4, <2>5, <2>6, OneOwed
  <1> QED BY <1>2, <1>3, <1>4

\* A replacement gives what was owed, or is counted as lost.
LEMMA ReplaceLosesNone ==
    ASSUME PoolInv, NEW t \in Callers, Replace(t)
    PROVE  NoSlotLost(t)
  <1> USE PoolAssumption DEF PoolAssumption
  <1>0. PICK c \in Containers : cont[t] = c
    BY ContainersMade DEF Replace, Working
  <1> USE <1>0
  <1>1. /\ Step(t) /\ pc \in [Callers -> CallerPcs] /\ cont \in [Callers -> 0..containers]
        /\ pc[t] = "replace" /\ c \in Containers
        /\ lost \in [Containers -> Nat] /\ poolClass' = poolClass
        /\ content \in [Containers -> Seq(Connections)]
    BY ContainersMade DEF Replace, Step, Proceed, PoolInv, CallersTyped, ClosingTyped, ContentTyped,
                          Working
  <1>2. Owes(t, c) = 1 /\ Owes(t, c)' \in {0, 1}
    <2>1. t \in Owing(c)
      BY <1>1 DEF Owing
    <2> QED BY <2>1 DEF Owes
  <1>3. Len(content[c]) \in Nat /\ lost[c] \in Nat /\ content[c] \in Seq(Connections)
    BY <1>1
  <1>4. CASE ReplaceFails(t)
    <2>1. /\ pc'[t] = "idle" /\ lost' = [lost EXCEPT ![c] = lost[c] + 1] /\ UNCHANGED content
      BY <1>1, <1>4 DEF ReplaceFails, Return
    <2>2. lost'[c] = lost[c] + 1 /\ lost'[c] \in Nat /\ \A d \in Containers : d # c => lost'[d] = lost[d]
      BY <1>1, <1>3, <2>1
    <2>3. Len(content'[c]) + lost'[c] + Owes(t, c)' >= Len(content[c]) + lost[c] + Owes(t, c)
      BY <1>2, <1>3, <2>1, <2>2
    <2> QED BY <1>1, <2>1, <2>2, <2>3, OneOwed
  <1>5. CASE Replaced(t)
    <2> DEFINE s == Append(content[c], Made + 1)
    <2>1. /\ content' = [content EXCEPT ![c] = s] /\ cont'[t] = c /\ UNCHANGED lost
          /\ Made < MaxConnections
      BY <1>1, <1>5 DEF Replaced
    <2>2. Made + 1 \in Connections
      BY <2>1, MadeIs DEF PoolInv, Connections
    <2>3. s \in Seq(Connections) /\ Len(s) = Len(content[c]) + 1
      BY <1>3, <2>2, AppendAdds
    <2> HIDE DEF s
    <2>4. /\ content' \in [Containers -> Seq(Connections)] /\ Len(content'[c]) = Len(content[c]) + 1
          /\ \A d \in Containers : d # c => content'[d] = content[d]
      BY <1>1, <2>1, <2>3
    <2>5. lost'[c] = lost[c] /\ lost'[c] \in Nat /\ \A d \in Containers : lost'[d] = lost[d]
      BY <1>1, <2>1
    <2>6. Len(content'[c]) + lost'[c] + Owes(t, c)' >= Len(content[c]) + lost[c] + Owes(t, c)
      BY <1>2, <1>3, <2>4, <2>5
    <2> QED BY <1>1, <2>1, <2>4, <2>5, <2>6, OneOwed
  <1> QED BY <1>4, <1>5 DEF Replace

\* A connection that is put back is one that was owed.
LEMMA PutBackLosesNone ==
    ASSUME PoolInv, NEW t \in Callers, PutBack(t)
    PROVE  NoSlotLost(t)
  <1> USE PoolAssumption DEF PoolAssumption
  <1>0. PICK c \in Containers : cont[t] = c
    BY ContainersMade DEF PutBack, Working
  <1> USE <1>0
  <1> DEFINE s == Append(content[c], held[t])
  <1>1. /\ Step(t) /\ UNCHANGED lost /\ pc \in [Callers -> CallerPcs]
        /\ pc[t] = "putback" /\ c \in Containers /\ pc'[t] = "idle"
        /\ lost \in [Containers -> Nat]
        /\ content \in [Containers -> Seq(Connections)]
    BY ContainersMade DEF PutBack, Return, Step, Proceed, PoolInv, CallersTyped, ClosingTyped,
                          ContentTyped, Working
  <1>2. Owes(t, c) \in {0, 1} /\ Owes(t, c)' \in {0, 1}
    BY DEF Owes
  <1>3. Len(content[c]) \in Nat /\ lost[c] \in Nat /\ content[c] \in Seq(Connections)
    BY <1>1
  <1>4. content' = [content EXCEPT ![c] = s]
    BY DEF PutBack
  <1>5. held[t] \in Connections
    BY <1>1 DEF PoolInv, CallersTyped, Holding
  <1>6. s \in Seq(Connections) /\ Len(s) = Len(content[c]) + 1
    BY <1>3, <1>5, AppendAdds
  <1> HIDE DEF s
  <1>7. /\ content' \in [Containers -> Seq(Connections)] /\ Len(content'[c]) = Len(content[c]) + 1
        /\ \A d \in Containers : d # c => content'[d] = content[d]
    BY <1>1, <1>4, <1>6
  <1>8. lost'[c] = lost[c] /\ lost'[c] \in Nat /\ \A d \in Containers : lost'[d] = lost[d]
    BY <1>1
  <1>9. Len(content'[c]) + lost'[c] + Owes(t, c)' >= Len(content[c]) + lost[c] + Owes(t, c)
    BY <1>2, <1>3, <1>7, <1>8
  <1> QED BY <1>1, <1>7, <1>8, <1>9, OneOwed

\* A connection is released to the container it is owed to, unless that one is
\* retired.
LEMMA ReleaseLosesNone ==
    ASSUME PoolInv, NEW t \in Callers, Release(t)
    PROVE  NoSlotLost(t)
  <1>1. /\ UNCHANGED <<lost, content, retired, poolClass>> /\ pc[t] = "using"
        /\ pc \in [Callers -> CallerPcs] /\ cont \in [Callers -> 0..containers]
        /\ key[t] \in Keys /\ 1..containers \subseteq Containers
    BY ContainersMade DEF Release, PoolInv, CallersTyped
  <1>2. \/ pc'[t] = "idle" /\ (poolClosed \/ ~Hit(order, key[t]) \/ ~Dedicated)
        \/ pc'[t] = "putback" /\ cont'[t] = pool[key[t]] /\ Dedicated
    BY <1>1 DEF Release, Return
  <1>3. ASSUME NEW c \in (1..containers) \ retired, t \in Owing(c)
        PROVE  t \in Owing(c)'
    <2>1. cont[t] = c /\ Dedicated /\ c # 0
      BY <1>1, <1>3 DEF Owing
    <2>2. pool[key[t]] = c
      BY <1>1, <2>1 DEF PoolInv, RetiredInTime
    <2>3. Hit(order, key[t])
      BY <1>1, <2>1, <2>2 DEF PoolInv, OrderTyped
    <2>4. ~poolClosed
      BY <2>2, <2>3 DEF PoolInv, RetiredInTime, Hit
    <2>5. pc'[t] = "putback" /\ cont'[t] = c
      BY <1>2, <2>1, <2>2, <2>3, <2>4
    <2> QED BY <1>1, <2>1, <2>5 DEF Owing, Dedicated
  <1>4. ASSUME NEW c \in (1..containers) \ retired'
        PROVE  Len(content'[c]) + lost'[c] + Owes(t, c)' >= Len(content[c]) + lost[c] + Owes(t, c)
    <2>1. Len(content[c]) \in Nat /\ lost[c] \in Nat /\ c \in (1..containers) \ retired
      BY <1>1, SlotsTyped
    <2>2. Owes(t, c)' \in {0, 1} /\ Owes(t, c) \in {0, 1} /\ (Owes(t, c) = 1 => Owes(t, c)' = 1)
      BY <1>3, <2>1 DEF Owes
    <2> QED BY <1>1, <2>1, <2>2
  <1> QED BY <1>4 DEF NoSlotLost

\* While a key is cached, its container loses no connection for good.
LEMMA SlotsKept ==
    ASSUME PoolInv, NEW t \in Callers, Step(t)
    PROVE  SlotsCounted'
  <1> USE PoolAssumption DEF PoolAssumption
  <1>1. pc \in [Callers -> CallerPcs] /\ cont \in [Callers -> 0..containers] /\ containers \in Nat
    BY DEF PoolInv, CallersTyped, OrderTyped
  <1>2. ASSUME NoSlotLost(t), UNCHANGED containers
        PROVE  SlotsCounted'
    BY <1>1, <1>2, SlotsFollow
  <1>3. CASE Choose(t)
    BY <1>2, <1>3, ChooseLosesNone DEF Choose
  <1>4. CASE Check(t)
    BY <1>2, <1>4, CheckLosesNone DEF Check
  <1>5. CASE Replace(t)
    BY <1>2, <1>5, ReplaceLosesNone DEF Replace
  <1>6. CASE PutBack(t)
    BY <1>2, <1>6, PutBackLosesNone DEF PutBack
  <1>7. CASE Release(t)
    BY <1>2, <1>7, ReleaseLosesNone DEF Release
  <1>8. CASE Install(t) \/ PoolClosed(t) \/ ClosePool(t)
    <2>1. /\ UNCHANGED <<content, lost, containers>>
          /\ {pc[t], pc'[t]} \cap {"check", "using", "replace", "putback"} = {}
      BY <1>1, <1>8 DEF Install, PoolClosed, ClosePool
    <2> QED BY <1>2, <2>1, NothingOwed
  <1>9. CASE CloseNext(t)
    <2>1. /\ UNCHANGED <<lost, containers, pc, cont, poolClass, retired>> /\ todo[t] # <<>>
      BY <1>9 DEF CloseNext
    <2>2. Head(todo[t]) \in ToSet(todo[t]) /\ ToSet(todo[t]) \subseteq retired
      BY <2>1, HeadAndTail DEF PoolInv, ClosingTyped, RetiredInTime
    <2>3. ASSUME NEW c \in (1..containers) \ retired'
          PROVE  Len(content'[c]) + lost'[c] + Owes(t, c)' >= Len(content[c]) + lost[c] + Owes(t, c)
      <3>1. c # Head(todo[t]) /\ c \in Containers
        BY <2>1, <2>2, ContainersMade
      <3>2. content'[c] = content[c]
        BY <1>9, <3>1 DEF CloseNext, PoolInv, ContentTyped
      <3>3. Owes(t, c)' = Owes(t, c)
        BY <2>1 DEF Owes, Owing, Dedicated
      <3>4. Len(content[c]) \in Nat /\ lost[c] \in Nat /\ Owes(t, c) \in {0, 1}
        BY <3>1, SlotsTyped
      <3> QED BY <2>1, <3>2, <3>3, <3>4
    <2> QED BY <1>2, <2>1, <2>3 DEF NoSlotLost
  <1>10. ASSUME NEW k \in Keys, Get(t, k), GetClosed(t) \/ GetKnown(t, k) \/ GetFails(t, k)
         PROVE  SlotsCounted'
    <2>1. /\ UNCHANGED <<content, lost, containers>> /\ pc[t] = "idle" /\ pc'[t] \in {"idle", "choose"}
      BY <1>1, <1>10 DEF Get, GetClosed, GetKnown, GetFails
    <2> QED BY <1>2, <2>1, NothingOwed
  <1>11. ASSUME NEW k \in Keys, Get(t, k), GetNew(t, k)
         PROVE  SlotsCounted'
    <2> DEFINE n == containers + 1
               s == [i \in 1..perKey |-> Made + i]
    <2>1. /\ containers' = n /\ content' = [content EXCEPT ![n] = s] /\ UNCHANGED <<lost, poolClass>>
          /\ pc[t] = "idle" /\ pc'[t] = "evict" /\ n \in Containers
          /\ content \in [Containers -> Seq(Connections)]
      BY <1>1, <1>11 DEF Get, GetNew, Containers, PoolInv, ContentTyped
    <2>2. Len(s) = perKey /\ perKey \in Nat
      BY DEF perKey, PoolInv, OrderTyped
    <2> HIDE DEF s
    <2>3. Len(content'[n]) = perKey /\ \A c \in 1..containers : content'[c] = content[c]
      <3>1. \A c \in 1..containers : c # n /\ c \in Containers
        BY <1>1, ContainersMade
      <3> QED BY <2>1, <2>2, <3>1
    <2>4. ASSUME NEW c \in (1..containers) \ retired'
          PROVE  Len(content'[c]) + lost'[c] + Owes(t, c)' >= Len(content[c]) + lost[c] + Owes(t, c)
      <3>1. Owes(t, c)' = 0 /\ Owes(t, c) = 0
        BY <2>1 DEF Owes, Owing
      <3>2. Len(content[c]) \in Nat /\ lost[c] \in Nat
        BY ContainersMade, SlotsTyped
      <3> QED BY <2>1, <2>3, <3>1, <3>2
    <2>5. NoSlotLost(t)
      BY <2>4 DEF NoSlotLost
    <2> QED BY <1>1, <2>1, <2>2, <2>3, <2>5, SlotsFollow
  <1> QED BY <1>3, <1>4, <1>5, <1>6, <1>7, <1>8, <1>9, <1>10, <1>11 DEF Step, Proceed, Get

-----------------------------------------------------------------------------
(* The invariant, and what follows from it.                                *)

\* A connection that breaks stays where it is.
LEMMA BreakKeepsPool ==
    ASSUME PoolInv, NEW x \in Connections, Break(x)
    PROVE  PoolInv'
  <1>1. /\ UNCHANGED <<poolClass, order, pool, poolClosed, lock, content, cursor, containers,
                       pc, key, cont, held, todo, calls, lost, retired>>
        /\ conn' = [conn EXCEPT ![x] = "closed"] /\ x \in MadeSet
    BY DEF Break, MadeSet
  <1>2. ConnTyped' /\ MadeSet' = MadeSet
    BY <1>1, CloseOne DEF PoolInv
  <1>3. Dedicated' = Dedicated /\ perKey' = perKey
    BY <1>1 DEF Dedicated, perKey
  <1>4. OrderTyped' /\ ClosingTyped' /\ Locked' /\ RetiredInTime'
    BY <1>1 DEF PoolInv, OrderTyped, ClosingTyped, Locked, RetiredInTime
  <1>5. ContentTyped' /\ CallersTyped' /\ Apart'
    BY <1>1, <1>2, <1>3 DEF PoolInv, ContentTyped, CallersTyped, Apart
  <1>6. SlotsCounted'
    <2>1. \A c : Owing(c)' = Owing(c)
      BY <1>1, <1>3 DEF Owing
    <2> QED BY <1>1, <1>3, <2>1 DEF PoolInv, SlotsCounted, SlotsAccounted
  <1> QED BY <1>2, <1>4, <1>5, <1>6 DEF PoolInv

\* A pool starts with no key, no container and no connection.
LEMMA InitPool == Init => PoolInv
  <1> SUFFICES ASSUME Init
               PROVE  PoolInv
    OBVIOUS
  <1> USE PoolAssumption DEF PoolAssumption, Init
  <1>1. ToSet(<<>>) = {} /\ Len(<<>>) = 0 /\ IsInjective(<<>>)
        /\ \A S : <<>> \in Seq(S)
    BY DEF ToSet, IsInjective
  <1>2. OrderTyped
    <2>1. /\ order = <<>> /\ pool = [k \in Keys |-> 0] /\ containers = 0 /\ poolClosed = FALSE
          /\ poolClass \in PoolClasses
      OBVIOUS
    <2>2. \A k \in Keys : Hit(order, k) <=> pool[k] # 0
      BY <1>1, <2>1 DEF Hit
    <2>3. order \in Seq(Keys) /\ Len(order) <= PoolSize /\ IsInjective(order)
      BY <1>1, <2>1
    <2>4. pool \in [Keys -> 0..containers] /\ containers \in 0..MaxContainers
      BY <2>1
    <2> QED BY <2>1, <2>2, <2>3, <2>4 DEF OrderTyped
  <1>3. ConnTyped /\ MadeSet = {}
    <2>1. MadeSet = 1..0 /\ 0 \in 0..MaxConnections /\ MadeSet = {}
      BY DEF MadeSet
    <2>2. conn \in [Connections -> {"unmade", "open", "closed"}]
      OBVIOUS
    <2> QED BY <2>1, <2>2 DEF ConnTyped
  <1>4. ContentTyped
    BY <1>1 DEF ContentTyped
  <1>5. CallersTyped
    <2>1. AnyKey \in Keys
      BY DEF AnyKey
    <2>2. \A t \in Callers : 0 <= MaxCalls[t]
      OBVIOUS
    <2> QED BY <2>1, <2>2 DEF CallersTyped, CallerPcs, Working, Holding
  <1>6. ClosingTyped
    BY <1>1 DEF ClosingTyped
  <1>7. Locked
    BY DEF Locked
  <1>8. Apart
    BY <1>1 DEF Apart
  <1>9. RetiredInTime
    BY <1>1 DEF RetiredInTime
  <1>10. SlotsCounted
    <2>1. \A c : Owing(c) = {}
      BY DEF Owing
    <2>2. \A c \in Containers : IsFiniteSet(Owing(c))
      BY <2>1, FS_EmptySet
    <2>3. (1..containers) \ retired = {}
      OBVIOUS
    <2> QED BY <2>2, <2>3 DEF SlotsCounted, SlotsAccounted
  <1> QED BY <1>2, <1>3, <1>4, <1>5, <1>6, <1>7, <1>8, <1>9, <1>10 DEF PoolInv

\* Every step of every caller, and every connection that breaks, keeps it.
LEMMA NextKeepsPool == PoolInv /\ [Next]_vars => PoolInv'
  <1> SUFFICES ASSUME PoolInv, [Next]_vars
               PROVE  PoolInv'
    OBVIOUS
  <1>1. ASSUME NEW t \in Callers, Step(t)
        PROVE  PoolInv'
    BY <1>1, OrderKept, ConnKept, ContentKept, CallersKept, ClosingKept, LockKept, RetiredKept,
       SlotsKept DEF PoolInv
  <1>2. ASSUME NEW x \in Connections, Break(x)
        PROVE  PoolInv'
    BY <1>2, BreakKeepsPool
  <1>3. CASE UNCHANGED vars
    <2>1. UNCHANGED <<poolClass, order, pool, poolClosed, lock, content, cursor, containers, conn,
                      pc, key, cont, held, todo, calls, lost, retired>>
      BY <1>3 DEF vars
    <2>2. Dedicated' = Dedicated /\ perKey' = perKey /\ MadeSet' = MadeSet
      BY <2>1 DEF Dedicated, perKey, MadeSet
    <2>3. OrderTyped' /\ ConnTyped' /\ ClosingTyped' /\ Locked' /\ RetiredInTime'
      BY <2>1, <2>2 DEF PoolInv, OrderTyped, ConnTyped, ClosingTyped, Locked, RetiredInTime
    <2>4. ContentTyped' /\ CallersTyped' /\ Apart'
      BY <2>1, <2>2 DEF PoolInv, ContentTyped, CallersTyped, Apart
    <2>5. \A c : Owing(c)' = Owing(c)
      BY <2>1, <2>2 DEF Owing
    <2>6. SlotsCounted'
      BY <2>1, <2>2, <2>5 DEF PoolInv, SlotsCounted, SlotsAccounted
    <2> QED BY <2>3, <2>4, <2>6 DEF PoolInv
  <1> QED BY <1>1, <1>2, <1>3 DEF Next, Step

\* The inductive invariant holds in every state of every behaviour of the pool.
THEOREM PoolInvariant == Spec => []PoolInv
  BY InitPool, NextKeepsPool, PTL DEF Spec

\* What is typed of the pool: above all that its keys are told apart, are at
\* most as many as it has room for, and are the ones with a container, which no
\* operation of connection_pool.py leaves otherwise.
THEOREM PoolTyped == Spec => []TypeOK
  <1>1. PoolInv => TypeOK
    <2> SUFFICES ASSUME PoolInv
                 PROVE  TypeOK
      OBVIOUS
    <2> USE PoolAssumption DEF PoolAssumption
    <2>1. order \in SeqOf(Keys, PoolSize)
      BY SeqOfBounded DEF PoolInv, OrderTyped
    <2>2. content \in [Containers -> Seq({x \in Connections : conn[x] # "unmade"})]
      <3>1. content \in [Containers -> Seq(Connections)]
            /\ \A c \in Containers : ToSet(content[c]) \subseteq MadeSet
        BY DEF PoolInv, ContentTyped
      <3>2. \A c \in Containers : content[c] \in Seq(MadeSet)
        BY <3>1, SeqOfSubset
      <3>3. content \in [Containers -> Seq(MadeSet)]
        BY <3>1, <3>2
      <3> QED BY <3>3 DEF MadeSet
    <2>3. \A c \in Containers : cursor[c] \in 0..Len(content[c])
      <3> SUFFICES ASSUME NEW c \in Containers
                   PROVE  cursor[c] \in 0..Len(content[c])
        OBVIOUS
      <3>1. cursor[c] \in Nat /\ cursor[c] <= Len(content[c]) /\ Len(content[c]) \in Nat
        BY DEF PoolInv, ContentTyped
      <3> QED BY <3>1
    <2>4. \A t \in Callers : calls[t] \in 0..MaxCalls[t]
      <3> SUFFICES ASSUME NEW t \in Callers
                   PROVE  calls[t] \in 0..MaxCalls[t]
        OBVIOUS
      <3>1. calls[t] \in Nat /\ calls[t] <= MaxCalls[t] /\ MaxCalls[t] \in Nat
        BY DEF PoolInv, CallersTyped
      <3> QED BY <3>1
    <2> QED BY <2>1, <2>2, <2>3, <2>4
            DEF TypeOK, PoolInv, OrderTyped, ConnTyped, ContentTyped, CallersTyped, ClosingTyped,
                Locked
  <1> QED BY <1>1, PoolInvariant, PTL

\* A connection of a dedicated pool is never with two callers, nor with a caller
\* and in a queue, so that neither a second caller nor the closing of a
\* container gets at it while it is used; an iterator has none twice.
THEOREM PoolIsExclusive == Spec => []ExclusiveUse
  <1>1. PoolInv => ExclusiveUse
    <2> SUFFICES ASSUME PoolInv
                 PROVE  ExclusiveUse
      OBVIOUS
    <2>1. ASSUME NEW c \in Containers, NEW d \in Containers,
                 NEW i \in DOMAIN content[c], NEW j \in DOMAIN content[d],
                 content[c][i] = content[d][j]
          PROVE  c = d /\ i = j
      <3>1. content[c][i] \in ToSet(content[c]) /\ content[d][j] \in ToSet(content[d])
        BY DEF ToSet
      <3>2. c = d
        BY <2>1, <3>1 DEF PoolInv, Apart
      <3>3. i = j
        BY <2>1, <3>2 DEF PoolInv, Apart, IsInjective
      <3> QED BY <3>2, <3>3
    <2>2. Dedicated => \A t \in Callers : held[t] # 0 =>
              /\ \A c \in Containers : ~Hit(content[c], held[t])
              /\ \A u \in Callers \ {t} : held[u] # held[t]
      BY DEF PoolInv, Apart, Hit
    <2> QED BY <2>1, <2>2 DEF ExclusiveUse
  <1> QED BY <1>1, PoolInvariant, PTL

\* Whatever is evicted, replaced, released late or closed: the container of a
\* cached key has all its connections, but for those callers owe it and those
\* whose replacement failed.
THEOREM PoolKeepsSlots == Spec => []SlotsAccounted
  <1>1. PoolInv => SlotsAccounted
    BY DEF PoolInv, SlotsCounted
  <1> QED BY <1>1, PoolInvariant, PTL

\* The arithmetic of remove_element: the connection whose turn it is stays the
\* one whose turn it is, wherever in the list the removed one was.
LEMMA RemovalFollowsTurn ==
    ASSUME PoolInv, NEW c \in Containers, NEW x, RemoveElement(c, x),
           content[c] # <<>>, content[c][Turn(c) + 1] # x
    PROVE  content'[c][Turn(c)' + 1] = content[c][Turn(c) + 1]
  <1>1. /\ content \in [Containers -> Seq(Connections)] /\ cursor \in [Containers -> Nat]
        /\ cursor[c] <= Len(content[c])
    BY DEF PoolInv, ContentTyped
  <1>2. CASE ~Hit(content[c], x)
    BY <1>2 DEF RemoveElement, Turn
  <1>3. CASE Hit(content[c], x)
    <2> DEFINE s == content[c]
               d == Del(s, x)
               p == Position(s, x)
               k == cursor[c]
    <2>1. /\ p \in 1..Len(s) /\ s[p] = x /\ d \in Seq(Connections) /\ Len(d) = Len(s) - 1
          /\ \A i \in 1..(p - 1) : d[i] = s[i]
          /\ \A i \in p..(Len(s) - 1) : d[i] = s[i + 1]
      BY <1>1, <1>3, DelElements
    <2>2. content' = [content EXCEPT ![c] = d]
          /\ cursor' = [cursor EXCEPT ![c] = IF k > p - 1 THEN k - 1 ELSE k]
      BY <1>3 DEF RemoveElement
    <2> HIDE DEF d, p
    <2>3. content'[c] = d /\ cursor'[c] = IF k > p - 1 THEN k - 1 ELSE k
      BY <1>1, <2>2
    <2>4. k \in Nat /\ Len(s) \in Nat /\ k <= Len(s)
      BY <1>1
    <2>5. Turn(c) = (IF k < Len(s) THEN k ELSE 0)
          /\ Turn(c)' = (IF cursor'[c] < Len(d) THEN cursor'[c] ELSE 0)
      BY <2>3 DEF Turn
    <2> HIDE DEF s, k
    <2>6. s[Turn(c) + 1] # x
      BY DEF s
    <2>7. d[Turn(c)' + 1] = s[Turn(c) + 1]
      <3>1. CASE k < Len(s) /\ k >= p
        <4>1. Turn(c) = k /\ Turn(c)' = k - 1
          BY <2>1, <2>3, <2>4, <2>5, <3>1
        <4>2. k \in p..(Len(s) - 1) /\ k - 1 + 1 = k
          BY <2>1, <2>4, <3>1
        <4> QED BY <2>1, <4>1, <4>2
      <3>2. CASE k < Len(s) /\ k < p
        <4>1. Turn(c) = k /\ k + 1 # p
          BY <2>1, <2>5, <2>6, <3>2
        <4>2. k + 1 \in 1..(p - 1) /\ k < Len(s) - 1 /\ ~(k > p - 1)
          BY <2>1, <2>4, <3>2, <4>1
        <4>3. Turn(c)' = k
          BY <2>1, <2>3, <2>5, <4>2
        <4> QED BY <2>1, <4>1, <4>2, <4>3
      <3>3. CASE k = Len(s)
        <4>1. Turn(c) = 0 /\ p # 1
          BY <2>1, <2>4, <2>5, <2>6, <3>3
        <4>2. k > p - 1 /\ 1 \in 1..(p - 1)
          BY <2>1, <2>4, <3>3, <4>1
        <4>3. Turn(c)' = 0
          BY <2>1, <2>3, <2>4, <2>5, <3>3, <4>2
        <4> QED BY <2>1, <4>1, <4>2, <4>3
      <3>4. \/ k < Len(s) /\ k >= p
            \/ k < Len(s) /\ k < p
            \/ k = Len(s)
        BY <2>1, <2>4
      <3> QED BY <3>1, <3>2, <3>3, <3>4
    <2> QED BY <2>3, <2>7 DEF s
  <1> QED BY <1>2, <1>3

\* No caller that takes a closed connection out of an iterator makes another
\* connection miss its turn, for a container of any size.
THEOREM RemovalIsFair == Spec => RemovalKeepsTurn
  <1> DEFINE Kept(t) ==
               LET c == cont[t]
                   upcoming == content[c][Turn(c) + 1]
               IN  /\ pc[t] = "check" /\ pc'[t] = "replace" /\ ~Dedicated
                   /\ content[c] # <<>> /\ upcoming # held[t]
                   => content'[c][Turn(c)' + 1] = upcoming
  <1>1. PoolInv /\ [Next]_vars => \A t \in Callers : Kept(t)
    <2> SUFFICES ASSUME PoolInv, [Next]_vars, NEW t \in Callers,
                        pc[t] = "check", pc'[t] = "replace", ~Dedicated,
                        content[cont[t]] # <<>>,
                        content[cont[t]][Turn(cont[t]) + 1] # held[t]
                 PROVE  content'[cont[t]][Turn(cont[t])' + 1] = content[cont[t]][Turn(cont[t]) + 1]
      OBVIOUS
    <2>1. Step(t)
      <3>1. pc' # pc
        OBVIOUS
      <3>2. ~UNCHANGED vars /\ ~\E x \in Connections : Break(x)
        BY <3>1 DEF vars, Break
      <3>3. PICK u \in Callers : Step(u)
        BY <3>2 DEF Next, Step
      <3>4. u # t => pc'[t] = pc[t]
        BY <3>3, OthersStay DEF PoolInv
      <3> QED BY <3>3, <3>4
    <2>2. Check(t)
      <3>1. ~UNCHANGED pc
        OBVIOUS
      <3> QED BY <2>1, <3>1 DEF Step, Proceed, ClosePool, Get, Install, CloseNext, Choose, Replace,
                                Release, PutBack, PoolClosed
    <2>3. PICK c \in Containers : cont[t] = c /\ cont'[t] = c
      BY <2>2, ContainersMade DEF Check, Working
    <2>4. RemoveElement(c, held[t])
      <3>1. pc \in [Callers -> CallerPcs]
        BY DEF PoolInv, CallersTyped
      <3> QED BY <2>2, <2>3, <3>1 DEF Check
    <2>5. content'[c][Turn(c)' + 1] = content[c][Turn(c) + 1]
      BY <2>3, <2>4, RemovalFollowsTurn
    <2>6. Turn(cont[t])' = Turn(c)'
      BY <2>3 DEF Turn
    <2> QED BY <2>3, <2>5, <2>6
  <1>2. Spec => [][\A t \in Callers : Kept(t)]_vars
    BY <1>1, PoolInvariant, PTL DEF Spec
  <1> QED BY <1>2 DEF RemovalKeepsTurn
=============================================================================
