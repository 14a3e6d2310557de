-------------------------- MODULE LRUCacheTheorems --------------------------
(***************************************************************************)
(* What the operators of LRUCache, and those of sequences the other modules *)
(* use, keep and lose, over any set of keys; and how a finite set counts.  *)
(* Cited by the proofs about the components that own caches and containers. *)
(***************************************************************************)
EXTENDS LRUCache, FiniteSetTheorems, TLAPS

\* The position of a cached key is a position at which it stands.
LEMMA PositionOfHit ==
    ASSUME NEW K, NEW cache \in Seq(K), NEW k, Hit(cache, k)
    PROVE  /\ Position(cache, k) \in DOMAIN cache
           /\ cache[Position(cache, k)] = k
  BY DEF Hit, Position, ToSet

\* Deleting a key closes the gap it leaves.
LEMMA DelElements ==
    ASSUME NEW K, NEW cache \in Seq(K), NEW k, Hit(cache, k)
    PROVE  LET d == Del(cache, k)
               p == Position(cache, k)
           IN  /\ p \in 1..Len(cache) /\ cache[p] = k
               /\ d \in Seq(K)
               /\ Len(d) = Len(cache) - 1
               /\ \A i \in 1..(p - 1) : d[i] = cache[i]
               /\ \A i \in p..(Len(cache) - 1) : d[i] = cache[i + 1]
  <1> DEFINE p == Position(cache, k)
             a == SubSeq(cache, 1, p - 1)
             b == SubSeq(cache, p + 1, Len(cache))
  <1>1. p \in 1..Len(cache) /\ cache[p] = k
    BY PositionOfHit
  <1> HIDE DEF p
  <1>2. a \in Seq(K) /\ Len(a) = p - 1 /\ \A i \in 1..(p-1) : a[i] = cache[i]
    BY <1>1
  <1>3. b \in Seq(K) /\ Len(b) = Len(cache) - p
        /\ \A i \in 1..(Len(cache) - p) : b[i] = cache[p + i]
    BY <1>1
  <1>4. Del(cache, k) = a \o b
    BY DEF Del, RemoveAt, p
  <1> DEFINE d == Del(cache, k)
  <1> HIDE DEF a, b, d
  <1>5. d = a \o b
    BY <1>4 DEF d
  <1>6. d \in Seq(K) /\ Len(d) = Len(cache) - 1
    BY <1>5, <1>1, <1>2, <1>3
  <1>7. ASSUME NEW i \in 1..(p-1)
        PROVE  d[i] = cache[i]
    <2>1. d[i] = a[i]
      BY <1>5, <1>1, <1>2, <1>3
    <2> QED BY <2>1, <1>2
  <1>8. ASSUME NEW i \in p..(Len(cache) - 1)
        PROVE  d[i] = cache[i + 1]
    <2>1. d[i] = b[i - (p - 1)]
      BY <1>5, <1>1, <1>2, <1>3
    <2>2. i - (p - 1) \in 1..(Len(cache) - p) /\ p + (i - (p - 1)) = i + 1
      BY <1>1
    <2> QED BY <2>1, <2>2, <1>3
  <1> QED BY <1>1, <1>6, <1>7, <1>8 DEF d, p

\* Deleting a key leaves a cache over the same keys, one shorter, that still
\* holds every other key.
LEMMA DelKeepsOthers ==
    ASSUME NEW K, NEW cache \in Seq(K), NEW k, Hit(cache, k)
    PROVE  /\ Del(cache, k) \in Seq(K)
           /\ Len(Del(cache, k)) = Len(cache) - 1
           /\ ToSet(Del(cache, k)) \subseteq ToSet(cache)
           /\ \A x \in ToSet(cache) : x # k => x \in ToSet(Del(cache, k))
  <1> DEFINE d == Del(cache, k)
             p == Position(cache, k)
  <1>0. /\ p \in 1..Len(cache) /\ cache[p] = k
        /\ d \in Seq(K)
        /\ Len(d) = Len(cache) - 1
        /\ \A i \in 1..(p - 1) : d[i] = cache[i]
        /\ \A i \in p..(Len(cache) - 1) : d[i] = cache[i + 1]
    BY DelElements
  <1> HIDE DEF d, p
  <1>1. p \in 1..Len(cache) /\ cache[p] = k
    BY <1>0
  <1>5. /\ d \in Seq(K)
        /\ Len(d) = Len(cache) - 1
        /\ \A i \in 1..(p-1) : d[i] = cache[i]
        /\ \A i \in p..(Len(cache) - 1) : d[i] = cache[i + 1]
    BY <1>0
  <1>6. ToSet(d) \subseteq ToSet(cache)
    <2> SUFFICES ASSUME NEW i \in 1..(Len(cache) - 1)
                 PROVE  \E j \in 1..Len(cache) : d[i] = cache[j]
      BY <1>5, SMTT(30) DEF ToSet
    <2>1. CASE i < p
      BY <1>5, <1>1, <2>1
    <2>2. CASE i >= p
      <3>1. d[i] = cache[i + 1]
        BY <1>5, <1>1, <2>2
      <3> QED BY <3>1
    <2> QED BY <2>1, <2>2, <1>1
  <1>7. ASSUME NEW x \in ToSet(cache), x # k
        PROVE  x \in ToSet(d)
    <2>1. PICK i \in 1..Len(cache) : x = cache[i]
      BY DEF ToSet
    <2>2. i # p
      BY <2>1, <1>1, <1>7
    <2> SUFFICES \E j \in 1..(Len(cache) - 1) : d[j] = x
      BY <1>5 DEF ToSet
    <2>3. CASE i < p
      BY <1>5, <1>1, <2>1, <2>3
    <2>4. CASE i > p
      <3>1. i - 1 \in p..(Len(cache) - 1) /\ i - 1 \in 1..(Len(cache) - 1)
        BY <2>4, <1>1
      <3>2. d[i - 1] = cache[(i - 1) + 1]
        BY <3>1, <1>5
      <3> QED BY <3>1, <3>2, <2>1
    <2> QED BY <2>2, <2>3, <2>4, <1>1
  <1> QED
    BY <1>5, <1>6, <1>7 DEF d

\* Putting an element in front of a cache adds that element.
LEMMA ConsAdds ==
    ASSUME NEW K, NEW cache \in Seq(K), NEW k \in K
    PROVE  /\ Cons(k, cache) \in Seq(K)
           /\ Len(Cons(k, cache)) = Len(cache) + 1
           /\ ToSet(Cons(k, cache)) = ToSet(cache) \cup {k}
  <1> DEFINE new == Cons(k, cache)
  <1>1. /\ new \in Seq(K)
        /\ Len(new) = Len(cache) + 1
        /\ new[1] = k
        /\ \A i \in 1..Len(cache) : new[i + 1] = cache[i]
    BY DEF Cons
  <1> HIDE DEF new
  <1>2. ASSUME NEW x \in ToSet(new), x # k
        PROVE  x \in ToSet(cache)
    <2>1. PICK i \in 1..Len(new) : x = new[i]
      BY <1>1 DEF ToSet
    <2>2. i # 1
      BY <2>1, <1>1, <1>2
    <2>3. i - 1 \in 1..Len(cache) /\ (i - 1) + 1 = i
      BY <2>2, <1>1
    <2>4. x = cache[i - 1]
      BY <2>1, <2>3, <1>1
    <2> QED BY <2>3, <2>4 DEF ToSet
  <1>3. ASSUME NEW x \in ToSet(cache)
        PROVE  x \in ToSet(new)
    <2>1. PICK i \in 1..Len(cache) : x = cache[i]
      BY DEF ToSet
    <2>2. i + 1 \in 1..Len(new) /\ new[i + 1] = x
      BY <2>1, <1>1
    <2> QED BY <2>2, <1>1 DEF ToSet
  <1>4. k \in ToSet(new)
    <2>1. 1 \in DOMAIN new
      BY <1>1
    <2> QED BY <2>1, <1>1 DEF ToSet
  <1> QED
    BY <1>1, <1>2, <1>3, <1>4 DEF new

\* All but the oldest key of a full cache survive when its place is taken.
LEMMA FrontKeepsOthers ==
    ASSUME NEW K, NEW cache \in Seq(K), Len(cache) > 0
    PROVE  /\ Front(cache) \in Seq(K)
           /\ Len(Front(cache)) = Len(cache) - 1
           /\ ToSet(Front(cache)) \subseteq ToSet(cache)
           /\ \A x \in ToSet(cache) : x # Oldest(cache) => x \in ToSet(Front(cache))
  <1> DEFINE f == Front(cache)
  <1>1. /\ f \in Seq(K)
        /\ Len(f) = Len(cache) - 1
        /\ \A i \in 1..(Len(cache) - 1) : f[i] = cache[i]
    <2>1. f = SubSeq(cache, 1, Len(cache) - 1)
      BY DEF Front
    <2>2. Len(cache) \in Nat /\ Len(cache) - 1 \in Nat /\ Len(cache) - 1 <= Len(cache)
      OBVIOUS
    <2> HIDE DEF f
    <2>3. f \in Seq(K)
      <3>1. \A i \in 1..(Len(cache) - 1) : cache[i] \in K
        BY <2>2
      <3> QED BY <2>1, <2>2, <3>1
    <2>5. Len(f) = Len(cache) - 1
      <3>1. \A n \in Nat : n <= Len(cache) => Len(SubSeq(cache, 1, n)) = n
        OBVIOUS
      <3> QED BY <3>1, <2>1, <2>2
    <2>4. \A i \in 1..(Len(cache) - 1) : f[i] = cache[i]
      BY <2>1, <2>2
    <2> QED BY <2>3, <2>4, <2>5
  <1> HIDE DEF f
  <1>2. ToSet(f) \subseteq ToSet(cache)
    BY <1>1 DEF ToSet
  <1>3. ASSUME NEW x \in ToSet(cache), x # Oldest(cache)
        PROVE  x \in ToSet(f)
    <2>1. PICK i \in 1..Len(cache) : x = cache[i]
      BY DEF ToSet
    <2>2. i # Len(cache)
      BY <2>1, <1>3 DEF Oldest, Last
    <2>3. i \in 1..Len(f) /\ f[i] = x
      BY <2>1, <2>2, <1>1
    <2> QED BY <2>3, <1>1 DEF ToSet
  <1> QED
    BY <1>1, <1>2, <1>3 DEF f

\* Storing a key caches it and keeps every other key except, in a full cache,
\* the oldest one; the cache never outgrows its size.
LEMMA SetKeepsOthers ==
    ASSUME NEW K, NEW cache \in Seq(K), NEW k \in K, NEW max \in Nat \ {0}
    PROVE  /\ Set(cache, k, max) \in Seq(K)
           /\ Len(cache) <= max => Len(Set(cache, k, max)) <= max
           /\ ToSet(Set(cache, k, max)) \subseteq ToSet(cache) \cup {k}
           /\ k \in ToSet(Set(cache, k, max))
           /\ \A x \in ToSet(cache) :
                  ~(KicksOut(cache, max) /\ x = Oldest(cache))
                     => x \in ToSet(Set(cache, k, max))
  <1> DEFINE new == Set(cache, k, max)
  <1>1. CASE Hit(cache, k)
    <2> DEFINE d == Del(cache, k)
    <2>1. new = Cons(k, d) /\ k \in ToSet(cache)
      BY <1>1 DEF Set, Touch, Hit
    <2>2. /\ d \in Seq(K)
          /\ Len(d) = Len(cache) - 1
          /\ ToSet(d) \subseteq ToSet(cache)
          /\ \A x \in ToSet(cache) : x # k => x \in ToSet(d)
      BY <1>1, DelKeepsOthers
    <2> HIDE DEF d, new
    <2>3. /\ new \in Seq(K)
          /\ Len(new) = Len(d) + 1
          /\ ToSet(new) = ToSet(d) \cup {k}
      <3>1. d \in Seq(K)
        BY <2>2
      <3>2. /\ Cons(k, d) \in Seq(K)
            /\ Len(Cons(k, d)) = Len(d) + 1
            /\ ToSet(Cons(k, d)) = ToSet(d) \cup {k}
        BY <3>1, ConsAdds
      <3> QED BY <3>2, <2>1
    <2>4. Len(cache) <= max => Len(new) <= max
      BY <2>2, <2>3
    <2> QED
      BY <2>1, <2>2, <2>3, <2>4 DEF new
  <1>2. CASE ~Hit(cache, k) /\ KicksOut(cache, max)
    <2> DEFINE f == Front(cache)
    <2>1. new = Cons(k, f)
      BY <1>2 DEF Set
    <2>2. Len(cache) > 0 /\ Len(cache) \in Nat
      BY <1>2 DEF KicksOut
    <2>3. /\ f \in Seq(K)
          /\ Len(f) = Len(cache) - 1
          /\ ToSet(f) \subseteq ToSet(cache)
          /\ \A x \in ToSet(cache) : x # Oldest(cache) => x \in ToSet(f)
      BY <2>2, FrontKeepsOthers
    <2> HIDE DEF f, new
    <2>4. /\ new \in Seq(K)
          /\ Len(new) = Len(f) + 1
          /\ ToSet(new) = ToSet(f) \cup {k}
      <3>1. f \in Seq(K)
        BY <2>3
      <3>2. /\ Cons(k, f) \in Seq(K)
            /\ Len(Cons(k, f)) = Len(f) + 1
            /\ ToSet(Cons(k, f)) = ToSet(f) \cup {k}
        BY <3>1, ConsAdds
      <3> QED BY <3>2, <2>1
    <2>5. Len(cache) <= max => Len(new) <= max
      BY <2>3, <2>4, <2>2
    <2> QED
      BY <1>2, <2>3, <2>4, <2>5 DEF new
  <1>3. CASE ~Hit(cache, k) /\ ~KicksOut(cache, max)
    <2>1. new = Cons(k, cache)
      BY <1>3 DEF Set
    <2>2. Len(cache) < max /\ Len(cache) \in Nat
      BY <1>3 DEF KicksOut
    <2> HIDE DEF new
    <2>3. /\ new \in Seq(K)
          /\ Len(new) = Len(cache) + 1
          /\ ToSet(new) = ToSet(cache) \cup {k}
      BY <2>1, ConsAdds, ZenonT(60)
    <2>4. Len(new) <= max
      BY <2>2, <2>3
    <2> QED
      BY <2>3, <2>4 DEF new
  <1> QED
    BY <1>1, <1>2, <1>3

(***************************************************************************)
(* Caches without repetitions: what they lose, they lose altogether.       *)
(***************************************************************************)

\* A key that is deleted from a cache that holds it once is no longer cached.
LEMMA DelForgets ==
    ASSUME NEW K, NEW cache \in Seq(K), NEW k, Hit(cache, k), IsInjective(cache)
    PROVE  IsInjective(Del(cache, k)) /\ k \notin ToSet(Del(cache, k))
  <1> DEFINE d == Del(cache, k)
             p == Position(cache, k)
             at(i) == IF i < p THEN i ELSE i + 1
  <1>1. /\ p \in 1..Len(cache) /\ cache[p] = k
        /\ d \in Seq(K)
        /\ Len(d) = Len(cache) - 1
        /\ \A i \in 1..(p - 1) : d[i] = cache[i]
        /\ \A i \in p..(Len(cache) - 1) : d[i] = cache[i + 1]
    BY DelElements
  <1> HIDE DEF d, p
  <1>2. ASSUME NEW i \in 1..(Len(cache) - 1)
        PROVE  at(i) \in 1..Len(cache) /\ at(i) # p /\ d[i] = cache[at(i)]
    BY <1>1
  <1>3. ASSUME NEW i \in 1..(Len(cache) - 1), NEW j \in 1..(Len(cache) - 1), at(i) = at(j)
        PROVE  i = j
    BY <1>1, <1>3
  <1> HIDE DEF at
  <1>4. DOMAIN d = 1..(Len(cache) - 1) /\ DOMAIN cache = 1..Len(cache)
    BY <1>1
  <1>5. IsInjective(d)
    BY <1>2, <1>3, <1>4 DEF IsInjective
  <1>6. k \notin ToSet(d)
    BY <1>1, <1>2, <1>4 DEF IsInjective, ToSet
  <1> QED BY <1>5, <1>6 DEF d

\* A new key in front is no repetition.
LEMMA ConsDistinct ==
    ASSUME NEW K, NEW cache \in Seq(K), NEW k \in K, IsInjective(cache), k \notin ToSet(cache)
    PROVE  IsInjective(Cons(k, cache))
  <1> DEFINE new == Cons(k, cache)
  <1>1. /\ new \in Seq(K)
        /\ Len(new) = Len(cache) + 1
        /\ new[1] = k
        /\ \A i \in 1..Len(cache) : new[i + 1] = cache[i]
    BY DEF Cons
  <1> HIDE DEF new
  <1>2. DOMAIN new = 1..(Len(cache) + 1) /\ DOMAIN cache = 1..Len(cache)
    BY <1>1
  <1>3. ASSUME NEW i \in 1..(Len(cache) + 1), i # 1
        PROVE  i - 1 \in 1..Len(cache) /\ new[i] = cache[i - 1]
    <2>1. i - 1 \in 1..Len(cache) /\ (i - 1) + 1 = i
      BY <1>3
    <2> QED BY <2>1, <1>1
  <1>4. \A i \in 1..Len(cache) : cache[i] # k
    BY <1>2 DEF ToSet
  <1>5. ASSUME NEW i \in 1..(Len(cache) + 1), NEW j \in 1..(Len(cache) + 1), new[i] = new[j]
        PROVE  i = j
    <2>1. CASE i = 1 \/ j = 1
      BY <1>1, <1>3, <1>4, <1>5, <2>1
    <2>2. CASE i # 1 /\ j # 1
      <3>1. i - 1 = j - 1
        BY <1>2, <1>3, <1>5, <2>2 DEF IsInjective
      <3> QED BY <3>1
    <2> QED BY <2>1, <2>2
  <1> QED BY <1>2, <1>5 DEF IsInjective, new

\* The oldest key is gone when its place is taken.
LEMMA FrontForgets ==
    ASSUME NEW K, NEW cache \in Seq(K), Len(cache) > 0, IsInjective(cache)
    PROVE  IsInjective(Front(cache)) /\ Oldest(cache) \notin ToSet(Front(cache))
  <1> DEFINE f == Front(cache)
  <1>1. f = SubSeq(cache, 1, Len(cache) - 1)
    BY DEF Front
  <1>2. f \in Seq(K) /\ Len(f) = Len(cache) - 1
    BY FrontKeepsOthers
  <1> HIDE DEF f
  <1>3. \A i \in 1..(Len(cache) - 1) : f[i] = cache[i]
    BY <1>1
  <1>4. DOMAIN f = 1..(Len(cache) - 1) /\ DOMAIN cache = 1..Len(cache)
    BY <1>2
  <1>5. IsInjective(f)
    BY <1>3, <1>4 DEF IsInjective
  <1>6. Oldest(cache) \notin ToSet(f)
    BY <1>3, <1>4 DEF IsInjective, ToSet, Oldest, Last
  <1> QED BY <1>5, <1>6 DEF f

\* Storing a key repeats none, and a key it kicks out is gone.
LEMMA SetForgets ==
    ASSUME NEW K, NEW cache \in Seq(K), NEW k \in K, NEW max \in Nat \ {0},
           IsInjective(cache)
    PROVE  /\ IsInjective(Set(cache, k, max))
           /\ ~Hit(cache, k) /\ KicksOut(cache, max)
                 => Oldest(cache) \notin ToSet(Set(cache, k, max)) /\ Hit(cache, Oldest(cache))
  <1>1. CASE Hit(cache, k)
    <2>1. Del(cache, k) \in Seq(K)
      BY <1>1, DelKeepsOthers
    <2>2. IsInjective(Del(cache, k)) /\ k \notin ToSet(Del(cache, k))
      BY <1>1, DelForgets
    <2> QED BY <1>1, <2>1, <2>2, ConsDistinct DEF Set, Touch
  <1>2. CASE ~Hit(cache, k) /\ KicksOut(cache, max)
    <2>1. Len(cache) > 0
      BY <1>2 DEF KicksOut
    <2>2. Front(cache) \in Seq(K) /\ ToSet(Front(cache)) \subseteq ToSet(cache)
      BY <2>1, FrontKeepsOthers
    <2>3. IsInjective(Front(cache)) /\ Oldest(cache) \notin ToSet(Front(cache))
      BY <2>1, FrontForgets
    <2>4. Hit(cache, Oldest(cache))
      BY <2>1 DEF Hit, Oldest, Last, ToSet
    <2>5. Set(cache, k, max) = Cons(k, Front(cache))
      BY <1>2 DEF Set
    <2>6. k \notin ToSet(Front(cache)) /\ Oldest(cache) # k
      BY <1>2, <2>2, <2>4 DEF Hit
    <2>7. IsInjective(Cons(k, Front(cache)))
      BY <2>2, <2>3, <2>6, ConsDistinct
    <2>8. ToSet(Cons(k, Front(cache))) = ToSet(Front(cache)) \cup {k}
      BY <2>2, ConsAdds
    <2> QED BY <2>3, <2>4, <2>5, <2>6, <2>7, <2>8
  <1>3. CASE ~Hit(cache, k) /\ ~KicksOut(cache, max)
    BY <1>3, ConsDistinct DEF Set, Hit
  <1> QED BY <1>1, <1>2, <1>3

\* The first of a sequence without repetitions is gone once it is taken.
LEMMA HeadForgets ==
    ASSUME NEW K, NEW s \in Seq(K), s # <<>>, IsInjective(s)
    PROVE  /\ Head(s) \in K /\ Tail(s) \in Seq(K)
           /\ IsInjective(Tail(s))
           /\ Head(s) \notin ToSet(Tail(s))
           /\ ToSet(s) = ToSet(Tail(s)) \cup {Head(s)}
  <1> DEFINE r == Tail(s)
  <1>1. /\ r \in Seq(K) /\ Len(r) = Len(s) - 1 /\ Len(s) \in Nat \ {0}
        /\ \A i \in 1..(Len(s) - 1) : r[i] = s[i + 1]
        /\ Head(s) = s[1] /\ Head(s) \in K
    OBVIOUS
  <1> HIDE DEF r
  <1>2. DOMAIN r = 1..(Len(s) - 1) /\ DOMAIN s = 1..Len(s)
    BY <1>1
  <1>3. \A i \in 1..(Len(s) - 1) : i + 1 \in 1..Len(s) /\ i + 1 # 1
    BY <1>1
  <1>4. ASSUME NEW i \in 1..(Len(s) - 1), NEW j \in 1..(Len(s) - 1), r[i] = r[j]
        PROVE  i = j
    <2>1. s[i + 1] = s[j + 1]
      BY <1>1, <1>4
    <2>2. i + 1 = j + 1
      BY <1>2, <1>3, <2>1 DEF IsInjective
    <2> QED BY <2>2
  <1>5. \A i \in 1..(Len(s) - 1) : r[i] # s[1]
    <2> SUFFICES ASSUME NEW i \in 1..(Len(s) - 1), r[i] = s[1]
                 PROVE  FALSE
      OBVIOUS
    <2>1. s[i + 1] = s[1] /\ 1 \in 1..Len(s)
      BY <1>1
    <2> QED BY <1>2, <1>3, <2>1 DEF IsInjective
  <1>6. \A x \in ToSet(s) : x = s[1] \/ x \in ToSet(r)
    <2> SUFFICES ASSUME NEW i \in 1..Len(s), i # 1
                 PROVE  s[i] \in ToSet(r)
      BY <1>2 DEF ToSet
    <2>1. i - 1 \in 1..(Len(s) - 1) /\ (i - 1) + 1 = i
      BY <1>1
    <2>2. r[i - 1] = s[i]
      BY <1>1, <2>1
    <2> QED BY <1>2, <2>1, <2>2 DEF ToSet
  <1>7. s[1] \in ToSet(s) /\ ToSet(r) \subseteq ToSet(s)
    <2>1. 1 \in 1..Len(s)
      BY <1>1
    <2>2. \A i \in DOMAIN r : r[i] \in ToSet(s)
      BY <1>1, <1>2, <1>3 DEF ToSet
    <2> QED BY <1>2, <2>1, <2>2 DEF ToSet
  <1>8. IsInjective(r)
    BY <1>2, <1>4 DEF IsInjective
  <1>9. s[1] \notin ToSet(r)
    BY <1>2, <1>5 DEF ToSet
  <1> QED BY <1>1, <1>6, <1>7, <1>8, <1>9 DEF r

\* An element appended at the end is the only one added.
LEMMA AppendAdds ==
    ASSUME NEW K, NEW s \in Seq(K), NEW x \in K
    PROVE  /\ Append(s, x) \in Seq(K)
           /\ Len(Append(s, x)) = Len(s) + 1
           /\ ToSet(Append(s, x)) = ToSet(s) \cup {x}
           /\ IsInjective(s) /\ x \notin ToSet(s) => IsInjective(Append(s, x))
  <1> DEFINE a == Append(s, x)
  <1>1. /\ a \in Seq(K) /\ Len(a) = Len(s) + 1 /\ Len(s) \in Nat
        /\ \A i \in 1..Len(s) : a[i] = s[i]
        /\ a[Len(s) + 1] = x
    OBVIOUS
  <1> HIDE DEF a
  <1>2. DOMAIN a = 1..(Len(s) + 1) /\ DOMAIN s = 1..Len(s)
    BY <1>1
  <1>3. \A i \in 1..(Len(s) + 1) : i = Len(s) + 1 \/ i \in 1..Len(s)
    BY <1>1
  <1>4. ToSet(a) \subseteq ToSet(s) \cup {x}
    BY <1>1, <1>2, <1>3 DEF ToSet
  <1>5. ToSet(s) \cup {x} \subseteq ToSet(a)
    <2>1. Len(s) + 1 \in DOMAIN a /\ \A i \in DOMAIN s : i \in DOMAIN a
      BY <1>1, <1>2
    <2> QED BY <1>1, <1>2, <2>1 DEF ToSet
  <1>6. ASSUME IsInjective(s), x \notin ToSet(s)
        PROVE  IsInjective(a)
    <2>1. \A i \in 1..Len(s) : s[i] # x
      BY <1>2, <1>6 DEF ToSet
    <2> QED BY <1>1, <1>2, <1>3, <1>6, <2>1 DEF IsInjective
  <1> QED BY <1>1, <1>4, <1>5, <1>6 DEF a

\* Reading a key leaves the same keys cached.
LEMMA TouchKeeps ==
    ASSUME NEW K, NEW cache \in Seq(K), NEW k \in K, Hit(cache, k), IsInjective(cache)
    PROVE  /\ Touch(cache, k) \in Seq(K) /\ Len(Touch(cache, k)) = Len(cache)
           /\ IsInjective(Touch(cache, k))
           /\ ToSet(Touch(cache, k)) = ToSet(cache)
  <1> DEFINE d == Del(cache, k)
  <1>1. /\ d \in Seq(K) /\ Len(d) = Len(cache) - 1 /\ IsInjective(d)
        /\ ToSet(d) \subseteq ToSet(cache) /\ k \notin ToSet(d)
        /\ \A x \in ToSet(cache) : x # k => x \in ToSet(d)
    BY DelKeepsOthers, DelForgets
  <1> HIDE DEF d
  <1>2. /\ Cons(k, d) \in Seq(K) /\ Len(Cons(k, d)) = Len(d) + 1
        /\ ToSet(Cons(k, d)) = ToSet(d) \cup {k} /\ IsInjective(Cons(k, d))
    BY <1>1, ConsAdds, ConsDistinct
  <1>3. Touch(cache, k) = Cons(k, d)
    BY DEF Touch, d
  <1>4. Len(cache) \in Nat /\ k \in ToSet(cache)
    BY DEF Hit
  <1>5. ToSet(d) \cup {k} = ToSet(cache) /\ Len(d) + 1 = Len(cache)
    BY <1>1, <1>4
  <1> QED BY <1>2, <1>3, <1>5

\* Two finite sets that differ in one element at most.
LEMMA OneApart ==
    ASSUME NEW A, NEW B, NEW x, IsFiniteSet(A), A \ {x} = B \ {x}
    PROVE  /\ IsFiniteSet(B) /\ Cardinality(A) \in Nat /\ Cardinality(B) \in Nat
           /\ Cardinality(B) + (IF x \in A THEN 1 ELSE 0)
                 = Cardinality(A) + (IF x \in B THEN 1 ELSE 0)
  <1> DEFINE C == A \ {x}
  <1>1. IsFiniteSet(C) /\ Cardinality(C) \in Nat
    BY FS_RemoveElement, FS_CardinalityType
  <1>2. IsFiniteSet(C \cup {x}) /\ Cardinality(C \cup {x}) = Cardinality(C) + 1
    BY <1>1, FS_AddElement
  <1>3. A = IF x \in A THEN C \cup {x} ELSE C
    OBVIOUS
  <1>4. B = IF x \in B THEN C \cup {x} ELSE C
    OBVIOUS
  <1> HIDE DEF C
  <1>5. Cardinality(A) = Cardinality(C) + (IF x \in A THEN 1 ELSE 0)
    BY <1>2, <1>3, <1>1
  <1>6. IsFiniteSet(B) /\ Cardinality(B) = Cardinality(C) + (IF x \in B THEN 1 ELSE 0)
    BY <1>2, <1>4, <1>1
  <1> QED BY <1>1, <1>5, <1>6
=============================================================================
