------------------------------ MODULE LinkedLRU ------------------------------
(***************************************************************************)
(* The LRUCache of summerrpc/helper/lru_cache.py as it is built: a map     *)
(* from the hash of a key to an entry, and a ring of entries through the   *)
(* head, the most recently used one next to it.  It implements the cache   *)
(* of module CacheSpec, whose order the operators of LRUCache give.        *)
(*                                                                         *)
(* Entries are Capacity objects and the head, 0: an entry that was deleted *)
(* is collected, and a later one may live at the same place.               *)
(***************************************************************************)
EXTENDS Naturals, Sequences, FiniteSets

CONSTANTS Keys, Values,
          Hash,   \* hash() of each key
          Capacity     \* max_size

RingHead == 0
Entries  == 1..Capacity
Hashes   == {Hash[k] : k \in Keys}

ASSUME LinkedLRUAssumption == Capacity \in Nat \ {0} /\ Hash \in [Keys -> Nat \ {0}]

VARIABLES map,   \* __map: the entry of each hash, 0 for none
          key,   \* key of each entry
          value, \* value of each entry
          prev,  \* prev of each entry and of the head
          succ   \* next of each entry and of the head

cacheVars == <<map, key, value, prev, succ>>

CacheInit ==
    /\ map = [h \in Hashes |-> 0]
    /\ key = [e \in Entries |-> "unset"]
    /\ value = [e \in Entries |-> "unset"]
    /\ prev = [e \in {RingHead} \cup Entries |-> RingHead]
    /\ succ = [e \in {RingHead} \cup Entries |-> RingHead]

Mapped == {h \in Hashes : map[h] # 0}
Unused == Entries \ {map[h] : h \in Mapped}

\* The pointers, as a record, through the assignments of the code.
Ring == [prev |-> prev, succ |-> succ]

\* entry.prev.next = entry.next; entry.next.prev = entry.prev
Unlink(r, e) ==
    [succ |-> [r.succ EXCEPT ![r.prev[e]] = r.succ[e]],
     prev |-> [r.prev EXCEPT ![r.succ[e]] = r.prev[e]]]

LinkFirst_NoBackLink(r, e) ==
    [prev |-> [r.prev EXCEPT ![e] = RingHead],
     succ |-> [r.succ EXCEPT ![e] = r.succ[RingHead], ![RingHead] = e]]

\* entry.prev = head; entry.next = head.next; head.next.prev = entry;
\* head.next = entry
LinkFirst(r, e) ==
    [prev |-> [r.prev EXCEPT ![e] = RingHead, ![r.succ[RingHead]] = e],
     succ |-> [r.succ EXCEPT ![e] = r.succ[RingHead], ![RingHead] = e]]

ChangePointer_StaysPut(r, e) == r

\* __change_pointer
ChangePointer(r, e) == LinkFirst(Unlink(r, e), e)

Point(r) == prev' = r.prev /\ succ' = r.succ

\* __setitem__, for a hash that is mapped, in a full cache and otherwise.
SetItem(k, v) ==
    LET h == Hash[k]
    IN  \/ /\ h \in Mapped
           /\ key' = [key EXCEPT ![map[h]] = k]
           /\ value' = [value EXCEPT ![map[h]] = v]
           /\ Point(ChangePointer(Ring, map[h]))
           /\ UNCHANGED map
        \/ /\ h \notin Mapped /\ Cardinality(Mapped) >= Capacity
           /\ LET oldest == prev[RingHead]
              IN  /\ map' = [map EXCEPT ![Hash[key[oldest]]] = 0, ![h] = oldest]
                  /\ key' = [key EXCEPT ![oldest] = k]
                  /\ value' = [value EXCEPT ![oldest] = v]
                  /\ Point(ChangePointer(Ring, oldest))
        \/ /\ h \notin Mapped /\ Cardinality(Mapped) < Capacity
           /\ LET entry == CHOOSE e \in Unused : TRUE
              IN  /\ map' = [map EXCEPT ![h] = entry]
                  /\ key' = [key EXCEPT ![entry] = k]
                  /\ value' = [value EXCEPT ![entry] = v]
                  /\ Point(LinkFirst(Ring, entry))

\* __getitem__ of a mapped hash (KeyError otherwise, and nothing changes).
GetItem(k) ==
    /\ Hash[k] \in Mapped
    /\ Point(ChangePointer(Ring, map[Hash[k]]))
    /\ UNCHANGED <<map, key, value>>

\* What is left once entries are unmapped and no pointer leads to them.
Collect(entries, r) ==
    /\ key' = [e \in Entries |-> IF e \in entries THEN "unset" ELSE key[e]]
    /\ value' = [e \in Entries |-> IF e \in entries THEN "unset" ELSE value[e]]
    /\ prev' = [e \in DOMAIN prev |-> IF e \in entries THEN RingHead ELSE r.prev[e]]
    /\ succ' = [e \in DOMAIN succ |-> IF e \in entries THEN RingHead ELSE r.succ[e]]

\* __delitem__
DelItem(k) ==
    LET entry == map[Hash[k]]
    IN  /\ Hash[k] \in Mapped
        /\ map' = [map EXCEPT ![Hash[k]] = 0]
        /\ Collect({entry}, Unlink(Ring, entry))

Clear ==
    /\ map' = [h \in Hashes |-> 0]
    /\ Collect(Entries, [prev |-> [prev EXCEPT ![RingHead] = RingHead],
                         succ |-> [succ EXCEPT ![RingHead] = RingHead]])

CacheNext ==
    \/ \E k \in Keys : GetItem(k) \/ DelItem(k) \/ \E v \in Values : SetItem(k, v)
    \/ Clear

-----------------------------------------------------------------------------
\* The entries in the ring, from the head on: iteritems meets them backwards.
Ranked ==
    LET entry[i \in 1..Cardinality(Mapped)] ==
            IF i = 1 THEN succ[RingHead] ELSE succ[entry[i - 1]]
    IN  entry

\* The ring and the map hold the same entries: the ring closes after as many
\* entries as the map has, reads the same in both directions, and each entry
\* is the one its key maps to.
RingMatchesMap ==
    LET n == Cardinality(Mapped)
    IN  /\ {Ranked[i] : i \in 1..n} = {map[h] : h \in Mapped}
        /\ IF n = 0 THEN succ[RingHead] = RingHead ELSE succ[Ranked[n]] = RingHead
        /\ \A e \in {RingHead} \cup {map[h] : h \in Mapped} : prev[succ[e]] = e
        /\ \A h \in Mapped : Hash[key[map[h]]] = h

\* The cache is the one its users take it for.
Cache == INSTANCE CacheSpec WITH
    order  <- [i \in 1..Cardinality(Mapped) |-> key[Ranked[i]]],
    stored <- [k \in Keys |->
                 IF \E h \in Mapped : key[map[h]] = k
                 THEN value[map[Hash[k]]] ELSE "absent"]
ImplementsCache == Cache!Spec
=============================================================================
