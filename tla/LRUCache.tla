------------------------------ MODULE LRUCache ------------------------------
(***************************************************************************)
(* The cache of summerrpc/helper/lru_cache.py seen from outside: the       *)
(* sequence of its keys, the most recently used one first.  Values are     *)
(* kept by the modules that use a cache, as functions of the key.          *)
(*                                                                         *)
(* The linked hash map that implements it is module LinkedLRU.             *)
(***************************************************************************)
EXTENDS Naturals, Sequences, SequencesExt

Hit(cache, k) == k \in ToSet(cache)

Position(cache, k) == CHOOSE i \in DOMAIN cache : cache[i] = k

\* __delitem__: the entry of a cached key is unlinked.
Del(cache, k) == RemoveAt(cache, Position(cache, k))

\* __getitem__: reading a cached key makes it the most recent one.
Touch(cache, k) == Cons(k, Del(cache, k))

\* will_be_kicked_out answers an entry rather than None.
KicksOut(cache, max) == Len(cache) >= max

Oldest(cache) == Last(cache)

\* __setitem__: a new key reuses the entry of the oldest one when the cache
\* is full.
Set(cache, k, max) ==
    IF Hit(cache, k) THEN Touch(cache, k)
    ELSE IF KicksOut(cache, max) THEN Cons(k, Front(cache))
    ELSE Cons(k, cache)
=============================================================================
