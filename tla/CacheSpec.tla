----------------------------- MODULE CacheSpec ------------------------------
(***************************************************************************)
(* A cache of at most Capacity keys that gives up the least recently used one.  *)
(* LinkedLRU implements it.                                                *)
(***************************************************************************)
EXTENDS LRUCache

CONSTANTS Keys, Values, Capacity

VARIABLES order,  \* the cached keys, the most recently used first
          stored  \* the value of each cached key, "absent" for the others

vars == <<order, stored>>

Init == order = <<>> /\ stored = [k \in Keys |-> "absent"]

Store(k, v) ==
    /\ order' = Set(order, k, Capacity)
    /\ stored' = [x \in Keys |->
                    IF x = k THEN v
                    ELSE IF ~Hit(order, k) /\ KicksOut(order, Capacity) /\ x = Oldest(order)
                    THEN "absent" ELSE stored[x]]

Use(k) == Hit(order, k) /\ order' = Touch(order, k) /\ UNCHANGED stored

Forget(k) ==
    /\ Hit(order, k)
    /\ order' = Del(order, k)
    /\ stored' = [stored EXCEPT ![k] = "absent"]

Empty == order' = <<>> /\ stored' = [k \in Keys |-> "absent"]

Next ==
    \/ \E k \in Keys : Use(k) \/ Forget(k) \/ \E v \in Values : Store(k, v)
    \/ Empty

Spec == Init /\ [][Next]_vars
=============================================================================
