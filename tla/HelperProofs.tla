---------------------------- MODULE HelperProofs ----------------------------
(***************************************************************************)
(* Proofs about the helpers that stand by themselves.  The static list     *)
(* keeps every node in one of its two chains, and is the bounded stack its *)
(* callers take it for; the ring of the LRU cache is its map in another    *)
(* order, and the cache drops what was used least recently; the token      *)
(* buckets grant no more than their rate, and no less.                     *)
(***************************************************************************)
EXTENDS StaticList, LinkedLRU, TokenBucket, LRUCacheTheorems, WellFoundedInduction, TLAPS

-----------------------------------------------------------------------------
\* Induction, without an operator for what is proved by it.

Below == {pair \in Nat \X Nat : pair[1] < pair[2]}

\* A nonempty set of natural numbers has a least element.
LEMMA LeastNumber ==
    ASSUME NEW T, T \subseteq Nat, T # {}
    PROVE  \E x \in T : \A y \in T : x <= y
<1>1. IsWellFoundedOn(Below, Nat)
  <2>1. IsWellFoundedOn(OpToRel(<, Nat), Nat) BY NatLessThanWellFounded
  <2>2. OpToRel(<, Nat) = Below BY DEF OpToRel, Below
  <2> QED BY <2>1, <2>2
<1>2. PICK x \in T : \A y \in T : <<y, x>> \notin Below BY <1>1, WFMin
<1>3. ASSUME NEW y \in T PROVE x <= y
  <2>1. x \in Nat /\ y \in Nat OBVIOUS
  <2>2. <<y, x>> \notin Below BY <1>2
  <2> QED BY <2>1, <2>2 DEF Below
<1> QED BY <1>3

-----------------------------------------------------------------------------
\* The chains of a static list.

\* What Walk computes with the next fields nx.
WalkBy(nx, first, n) ==
    LET node[k \in 1..n] ==
            IF k = 1 THEN first
            ELSE IF node[k - 1] = Nil THEN Nil ELSE nx[node[k - 1]]
    IN  node

\* A walk is determined by the equation of its nodes.
LEMMA WalkIsUnique ==
    ASSUME NEW nx, NEW first, NEW n \in Nat, NEW c,
           c = [k \in 1..n |->
                  IF k = 1 THEN first
                  ELSE IF c[k - 1] = Nil THEN Nil ELSE nx[c[k - 1]]]
    PROVE  WalkBy(nx, first, n) = c
<1> DEFINE w == WalkBy(nx, first, n)
<1>1. w = [k \in 1..n |->
             IF k = 1 THEN first
             ELSE IF w[k - 1] = Nil THEN Nil ELSE nx[w[k - 1]]]
  BY DEF WalkBy
<1> HIDE DEF w
<1>2. ASSUME w # c PROVE FALSE
  <2> DEFINE T == {k \in 1..n : w[k] # c[k]}
  <2>1. PICK k \in 1..n : w[k] # c[k] BY <1>1, <1>2
  <2>2. k \in T BY <2>1
  <2>3. T \subseteq Nat OBVIOUS
  <2>4. \A i \in 1..n : i \notin T <=> w[i] = c[i] OBVIOUS
  <2>5. \A i \in T : i \in 1..n OBVIOUS
  <2> HIDE DEF T
  <2>6. PICK x \in T : \A y \in T : x <= y BY <2>2, <2>3, LeastNumber
  <2>7. x \in 1..n /\ w[x] # c[x] BY <2>4, <2>5, <2>6
  <2>8. x # 1 BY <1>1, <2>7
  <2>9. x - 1 \in 1..n /\ x - 1 \notin T BY <2>6, <2>7, <2>8
  <2>10. w[x - 1] = c[x - 1] BY <2>4, <2>9
  <2> QED BY <2>7, <2>8, <2>9, <2>10, <1>1
<1> QED BY <1>2 DEF w

\* c lists n nodes, each with the next one in its next field, and ends with Nil.
IsChain(nx, c, n) ==
    /\ c \in [1..(n + 1) -> Nodes \cup {Nil}]
    /\ \A k \in 1..n : c[k] \in Nodes /\ c[k + 1] = nx[c[k]]
    /\ c[n + 1] = Nil

\* The nodes are those of two chains, each of them once.
AreChains(nx, a, n, b, m) ==
    /\ IsChain(nx, a, n) /\ IsChain(nx, b, m)
    /\ \A i, j \in 1..n : a[i] = a[j] => i = j
    /\ \A i, j \in 1..m : b[i] = b[j] => i = j
    /\ \A i \in 1..n : \A j \in 1..m : a[i] # b[j]
    /\ \A x \in Nodes : (\E i \in 1..n : a[i] = x) \/ (\E j \in 1..m : b[j] = x)

\* No number of a node is the one that stands for none.
LEMMA NilIsNoNode == Nil \notin Nodes
BY StaticListAssumption DEF Nil, Nodes

FirstOf(c, n) == [k \in 1..n |-> c[k]]

\* A chain is what a walk from its first node meets.
LEMMA WalkOfChain ==
    ASSUME NEW nx, NEW n \in Nat, NEW c, IsChain(nx, c, n)
    PROVE  /\ WalkBy(nx, c[1], n + 1) = c
           /\ WalkBy(nx, c[1], n) = FirstOf(c, n)
<1> DEFINE d == FirstOf(c, n)
           l == n + 1
           f == c[1]
<1>1. c = [k \in 1..l |->
             IF k = 1 THEN c[1]
             ELSE IF c[k - 1] = Nil THEN Nil ELSE nx[c[k - 1]]]
  <2>1. ASSUME NEW k \in 1..l, k # 1
        PROVE  c[k - 1] # Nil /\ c[k] = nx[c[k - 1]]
    <3>1. k - 1 \in 1..n /\ (k - 1) + 1 = k BY <2>1
    <3>2. c[k - 1] \in Nodes /\ c[(k - 1) + 1] = nx[c[k - 1]] BY <3>1 DEF IsChain
    <3> QED BY <3>1, <3>2, NilIsNoNode
  <2>2. c = [k \in 1..l |-> c[k]] BY DEF IsChain
  <2> QED BY <2>1, <2>2
<1>2. d = [k \in 1..n |->
             IF k = 1 THEN c[1]
             ELSE IF d[k - 1] = Nil THEN Nil ELSE nx[d[k - 1]]]
  <2>1. ASSUME NEW k \in 1..n, k # 1
        PROVE  d[k - 1] # Nil /\ c[k] = nx[d[k - 1]]
    <3>1. k - 1 \in 1..n /\ (k - 1) + 1 = k BY <2>1
    <3>2. c[k - 1] \in Nodes /\ c[(k - 1) + 1] = nx[c[k - 1]] BY <3>1 DEF IsChain
    <3> QED BY <3>1, <3>2, NilIsNoNode DEF FirstOf
  <2> QED BY <2>1 DEF FirstOf
<1>3. l \in Nat OBVIOUS
<1>4. /\ l \in Nat
      /\ c = [k \in 1..l |->
                IF k = 1 THEN f
                ELSE IF c[k - 1] = Nil THEN Nil ELSE nx[c[k - 1]]]
  BY <1>1, <1>3
<1>5. d = [k \in 1..n |->
             IF k = 1 THEN f
             ELSE IF d[k - 1] = Nil THEN Nil ELSE nx[d[k - 1]]]
  BY <1>2
<1> HIDE DEF d, l, f
<1>6. WalkBy(nx, f, l) = c BY <1>4, WalkIsUnique
<1>7. WalkBy(nx, f, n) = d BY <1>5, WalkIsUnique
<1> QED BY <1>6, <1>7 DEF d, l, f

\* The two chains are in no order.
LEMMA ChainsSwap ==
    ASSUME NEW nx, NEW n \in Nat, NEW a, NEW m \in Nat, NEW b,
           AreChains(nx, a, n, b, m)
    PROVE  AreChains(nx, b, m, a, n)
BY DEF AreChains

Rest(a, n) == [k \in 1..n |-> a[k + 1]]

Added(x, b, m) == [k \in 1..(m + 2) |-> IF k = 1 THEN x ELSE b[k - 1]]

\* The first node of one chain becomes the first of the other when its next
\* field is set to the other's first node.
LEMMA FirstNodeMoves ==
    ASSUME NEW nx \in [Nodes -> Nodes \cup {Nil}],
           NEW n \in Nat \ {0}, NEW a, NEW m \in Nat, NEW b,
           AreChains(nx, a, n, b, m)
    PROVE  AreChains([nx EXCEPT ![a[1]] = b[1]],
                     Rest(a, n), n - 1, Added(a[1], b, m), m + 1)
<1> DEFINE nx2 == [nx EXCEPT ![a[1]] = b[1]]
           p   == Rest(a, n)
           q   == Added(a[1], b, m)
<1>1. a[1] \in Nodes /\ \A k \in 1..n : a[k] \in Nodes
  BY DEF AreChains, IsChain
<1>2. \A x \in Nodes : x # a[1] => nx2[x] = nx[x]
  OBVIOUS
<1>3. nx2[a[1]] = b[1]
  BY <1>1
<1>4. /\ p \in [1..n -> Nodes \cup {Nil}]
      /\ \A k \in 1..(n - 1) : k \in 1..n /\ k + 1 \in 1..n /\ p[k] = a[k + 1]
      /\ \A k \in 1..(n - 1) : p[k + 1] = a[(k + 1) + 1]
      /\ p[n] = a[n + 1]
  BY DEF Rest, AreChains, IsChain
<1>5. /\ q = [k \in 1..(m + 2) |-> IF k = 1 THEN a[1] ELSE b[k - 1]]
      /\ q[1] = a[1]
      /\ \A k \in 1..(m + 2) : k # 1 => k - 1 \in 1..(m + 1) /\ q[k] = b[k - 1]
  BY DEF Added
<1> HIDE DEF nx2, p, q
<1>6. IsChain(nx2, p, n - 1)
  <2>1. ASSUME NEW k \in 1..(n - 1) PROVE p[k] \in Nodes /\ p[k + 1] = nx2[p[k]]
    <3>1. k + 1 \in 1..n /\ p[k] = a[k + 1] /\ p[k + 1] = a[(k + 1) + 1] BY <1>4
    <3>2. a[k + 1] \in Nodes /\ a[(k + 1) + 1] = nx[a[k + 1]]
      BY <3>1 DEF AreChains, IsChain
    <3>3. a[k + 1] # a[1] BY <3>1 DEF AreChains
    <3> QED BY <3>1, <3>2, <3>3, <1>2
  <2>2. (n - 1) + 1 = n /\ p[n] = Nil BY <1>4 DEF AreChains, IsChain
  <2> QED BY <1>4, <2>1, <2>2 DEF IsChain
<1>7. IsChain(nx2, q, m + 1)
  <2>1. q \in [1..((m + 1) + 1) -> Nodes \cup {Nil}]
    BY <1>1, <1>5 DEF AreChains, IsChain
  <2>2. ASSUME NEW k \in 1..(m + 1) PROVE q[k] \in Nodes /\ q[k + 1] = nx2[q[k]]
    <3>1. CASE k = 1
      <4>1. q[k + 1] = b[1] BY <1>5, <3>1
      <4> QED BY <4>1, <3>1, <1>1, <1>3, <1>5
    <3>2. CASE k # 1
      <4>1. k - 1 \in 1..m /\ q[k] = b[k - 1] /\ q[k + 1] = b[k] BY <1>5, <3>2
      <4>2. b[k - 1] \in Nodes /\ b[(k - 1) + 1] = nx[b[k - 1]]
        BY <4>1 DEF AreChains, IsChain
      <4>3. b[k - 1] # a[1] BY <4>1 DEF AreChains
      <4> QED BY <4>1, <4>2, <4>3, <1>2
    <3> QED BY <3>1, <3>2
  <2>3. q[(m + 1) + 1] = Nil BY <1>5 DEF AreChains, IsChain
  <2> QED BY <2>1, <2>2, <2>3 DEF IsChain
<1>8. \A i, j \in 1..(n - 1) : p[i] = p[j] => i = j
  BY <1>4 DEF AreChains
<1>9. \A i, j \in 1..(m + 1) : q[i] = q[j] => i = j
  <2>1. ASSUME NEW i \in 1..(m + 1), NEW j \in 1..(m + 1), q[i] = q[j], i # 1, j # 1
        PROVE  i = j
    <3>1. i - 1 \in 1..m /\ j - 1 \in 1..m /\ b[i - 1] = b[j - 1] BY <1>5, <2>1
    <3>2. i - 1 = j - 1 BY <3>1 DEF AreChains
    <3> QED BY <3>2
  <2>2. ASSUME NEW i \in 1..(m + 1), i # 1 PROVE q[i] # q[1]
    <3>1. i - 1 \in 1..m /\ q[i] = b[i - 1] BY <1>5, <2>2
    <3> QED BY <3>1, <1>5 DEF AreChains
  <2> QED BY <2>1, <2>2
<1>10. \A i \in 1..(n - 1) : \A j \in 1..(m + 1) : p[i] # q[j]
  <2>1. ASSUME NEW i \in 1..(n - 1), NEW j \in 1..(m + 1) PROVE p[i] # q[j]
    <3>1. i + 1 \in 1..n /\ p[i] = a[i + 1] /\ i + 1 # 1 BY <1>4
    <3>2. CASE j = 1 BY <3>1, <3>2, <1>5 DEF AreChains
    <3>3. CASE j # 1
      <4>1. j - 1 \in 1..m /\ q[j] = b[j - 1] BY <1>5, <3>3
      <4> QED BY <3>1, <4>1 DEF AreChains
    <3> QED BY <3>2, <3>3
  <2> QED BY <2>1
<1>11. ASSUME NEW x \in Nodes
       PROVE  \/ \E i \in 1..(n - 1) : p[i] = x
              \/ \E j \in 1..(m + 1) : q[j] = x
  <2>1. CASE \E i \in 1..n : a[i] = x
    <3>1. PICK i \in 1..n : a[i] = x BY <2>1
    <3>2. CASE i = 1 BY <3>1, <3>2, <1>5
    <3>3. CASE i # 1
      <4>1. i - 1 \in 1..(n - 1) /\ p[i - 1] = a[i] BY <3>3, <1>4
      <4> QED BY <4>1, <3>1
    <3> QED BY <3>2, <3>3
  <2>2. CASE \E j \in 1..m : b[j] = x
    <3>1. PICK j \in 1..m : b[j] = x BY <2>2
    <3>2. j + 1 \in 1..(m + 1) /\ q[j + 1] = b[j] BY <1>5
    <3> QED BY <3>1, <3>2
  <2> QED BY <2>1, <2>2 DEF AreChains
<1> QED BY <1>6, <1>7, <1>8, <1>9, <1>10, <1>11 DEF AreChains, nx2, p, q

-----------------------------------------------------------------------------
\* The specification of a static list by itself.
ListSpec == ListInit /\ [][ListNext]_listVars

ListTyped ==
    /\ element \in [Nodes -> Elements \cup {"unset"}]
    /\ next \in [Nodes -> Nodes \cup {Nil}]
    /\ head \in Nodes \cup {Nil} /\ space \in Nodes \cup {Nil}
    /\ size \in 0..MaxSize
    /\ raised \in {"none", "ListFullError", "ListEmptyError"}

\* The nodes of the list and those of the space, each with the Nil at its end.
UsedChain == Walk(head, size + 1)
FreeChain == Walk(space, MaxSize - size + 1)

\* The inductive invariant of the static list.
ListInv ==
    /\ ListTyped
    /\ AreChains(next, UsedChain, size, FreeChain, MaxSize - size)
    /\ UsedChain[1] = head /\ FreeChain[1] = space

\* Walk is WalkBy with the next fields of the state.
LEMMA WalkIsWalkBy == \A first, n : Walk(first, n) = WalkBy(next, first, n)
BY DEF Walk, WalkBy

\* The chains a state has are those its pointers lead through.
LEMMA ChainsOfState ==
    \A a, b :
        /\ size \in 0..MaxSize
        /\ AreChains(next, a, size, b, MaxSize - size)
        /\ a[1] = head /\ b[1] = space
        => /\ UsedChain = a /\ FreeChain = b
           /\ Used = FirstOf(a, size)
           /\ Free = FirstOf(b, MaxSize - size)
<1> SUFFICES ASSUME NEW a, NEW b,
                    size \in 0..MaxSize,
                    AreChains(next, a, size, b, MaxSize - size),
                    a[1] = head, b[1] = space
             PROVE  /\ UsedChain = a /\ FreeChain = b
                    /\ Used = FirstOf(a, size)
                    /\ Free = FirstOf(b, MaxSize - size)
  OBVIOUS
<1>1. size \in Nat /\ MaxSize - size \in Nat BY StaticListAssumption
<1>2. IsChain(next, a, size) /\ IsChain(next, b, MaxSize - size) BY DEF AreChains
<1>3. /\ WalkBy(next, a[1], size + 1) = a
      /\ WalkBy(next, a[1], size) = FirstOf(a, size)
  BY <1>1, <1>2, WalkOfChain
<1> DEFINE m == MaxSize - size
<1> HIDE DEF m
<1>4. m \in Nat /\ IsChain(next, b, m) BY <1>1, <1>2 DEF m
<1>5. /\ WalkBy(next, b[1], m + 1) = b
      /\ WalkBy(next, b[1], m) = FirstOf(b, m)
  BY <1>4, WalkOfChain
<1> QED BY <1>3, <1>5, WalkIsWalkBy DEF UsedChain, FreeChain, Used, Free, m

\* The same of the state after a step.
LEMMA ChainsOfNextState ==
    (\A a, b :
        /\ size \in 0..MaxSize
        /\ AreChains(next, a, size, b, MaxSize - size)
        /\ a[1] = head /\ b[1] = space
        => /\ UsedChain = a /\ FreeChain = b
           /\ Used = FirstOf(a, size)
           /\ Free = FirstOf(b, MaxSize - size))'
BY ChainsOfState, PTL

\* At the beginning all nodes are in the space, in the order of their numbers.
LEMMA InitChains == ListInit => ListInv
<1> SUFFICES ASSUME ListInit PROVE ListInv OBVIOUS
<1> USE StaticListAssumption
<1> DEFINE a == [k \in 1..1 |-> Nil]
           b == [k \in 1..(MaxSize + 1) |-> IF k = MaxSize + 1 THEN Nil ELSE k - 1]
<1>1. ListTyped BY DEF ListInit, ListTyped, Nodes, Nil
<1>2. IsChain(next, a, size)
  BY DEF IsChain, ListInit, Nodes, Nil
<1>3. IsChain(next, b, MaxSize - size)
  BY DEF IsChain, ListInit, Nodes, Nil
<1>4. \A i, j \in 1..(MaxSize - size) : b[i] = b[j] => i = j
  BY DEF ListInit
<1>5. ASSUME NEW x \in Nodes PROVE \E j \in 1..(MaxSize - size) : b[j] = x
  <2>1. x + 1 \in 1..(MaxSize - size) /\ b[x + 1] = x BY DEF Nodes, ListInit
  <2> QED BY <2>1
<1>6. size = 0 /\ a[1] = head /\ b[1] = space BY DEF ListInit
<1> HIDE DEF a, b
<1>7. AreChains(next, a, size, b, MaxSize - size)
  BY <1>2, <1>3, <1>4, <1>5, <1>6 DEF AreChains
<1>8. UsedChain = a /\ FreeChain = b
  BY <1>1, <1>6, <1>7, ChainsOfState DEF ListTyped
<1> QED BY <1>1, <1>6, <1>7, <1>8 DEF ListInv

\* The space has a node whenever the list is not full, and the list one when it
\* is not empty.
LEMMA FirstNodes ==
    ListInv => (space = Nil <=> size = MaxSize) /\ (head = Nil <=> size = 0)
<1> SUFFICES ASSUME ListInv
             PROVE  (space = Nil <=> size = MaxSize) /\ (head = Nil <=> size = 0)
  OBVIOUS
<1> DEFINE a == UsedChain
           b == FreeChain
           m == MaxSize - size
<1>1. /\ size \in Nat /\ m \in Nat /\ (m = 0 <=> size = MaxSize)
      /\ IsChain(next, a, size) /\ IsChain(next, b, m)
      /\ a[1] = head /\ b[1] = space
  BY StaticListAssumption DEF ListInv, ListTyped, AreChains
<1> HIDE DEF a, b, m
<1>2. size = 0 => head = Nil BY <1>1 DEF IsChain
<1>3. size # 0 => head # Nil BY <1>1, NilIsNoNode DEF IsChain
<1>4. m = 0 => space = Nil BY <1>1 DEF IsChain
<1>5. m # 0 => space # Nil BY <1>1, NilIsNoNode DEF IsChain
<1> QED BY <1>1, <1>2, <1>3, <1>4, <1>5

\* A call that finds room takes the first node of the space for the list.
LEMMA InsertMoves ==
    ASSUME ListInv, NEW e \in Elements, InsertLeft(e), space # Nil
    PROVE  /\ ListInv'
           /\ UsedChain' = Added(space, UsedChain, size)
           /\ size < MaxSize
<1> DEFINE a == FreeChain
           b == UsedChain
           m == MaxSize - size
           p == Rest(a, m)
           q == Added(a[1], b, size)
<1>1. size \in 0..MaxSize /\ size # MaxSize
  BY FirstNodes DEF ListInv, ListTyped
<1>2. m \in Nat \ {0} /\ size \in Nat BY <1>1, StaticListAssumption
<1>3. /\ next' = [next EXCEPT ![a[1]] = b[1]]
      /\ element' = [element EXCEPT ![space] = e]
      /\ head' = space /\ space' = next[space] /\ size' = size + 1 /\ raised' = "none"
  BY DEF InsertLeft, ListInv
<1>4. /\ next \in [Nodes -> Nodes \cup {Nil}]
      /\ a[1] = space /\ b[1] = head
      /\ AreChains(next, b, size, a, m)
  BY DEF ListInv, ListTyped
<1> HIDE DEF a, b, m
<1>5. AreChains(next, a, m, b, size) BY <1>2, <1>4, ChainsSwap
<1>6. AreChains(next', p, m - 1, q, size + 1)
  BY <1>2, <1>3, <1>4, <1>5, FirstNodeMoves
<1>7. p[1] = next[space] /\ q[1] = space
  BY <1>2, <1>4, <1>5 DEF Rest, Added, AreChains, IsChain
<1>8. ListTyped'
  <2>1. ListTyped BY DEF ListInv
  <2>2. space \in Nodes /\ next[space] \in Nodes \cup {Nil}
    BY <2>1 DEF ListTyped
  <2>3. b[1] \in Nodes \cup {Nil} BY <1>4, <2>1 DEF ListTyped
  <2>4. element' \in [Nodes -> Elements \cup {"unset"}]
    BY <1>3, <2>1 DEF ListTyped
  <2>5. next' \in [Nodes -> Nodes \cup {Nil}] BY <1>3, <1>4, <2>3
  <2>6. size' \in 0..MaxSize BY <1>1, <1>3, StaticListAssumption
  <2> QED BY <1>3, <2>2, <2>4, <2>5, <2>6 DEF ListTyped
<1> HIDE DEF p, q
<1>9. m - 1 = MaxSize - size' /\ size' \in 0..MaxSize /\ size < MaxSize
  BY <1>1, <1>3, StaticListAssumption DEF m
<1>10. m - 1 \in Nat /\ size + 1 \in Nat BY <1>2
<1>11. AreChains(next', q, size', p, MaxSize - size')
  BY <1>3, <1>6, <1>9, <1>10, ChainsSwap
<1>12. q[1] = head' /\ p[1] = space' BY <1>3, <1>7
<1>13. UsedChain' = q /\ FreeChain' = p
  BY <1>9, <1>11, <1>12, ChainsOfNextState
<1> QED BY <1>4, <1>8, <1>9, <1>11, <1>12, <1>13 DEF ListInv, q, b

\* A call that finds the list filled gives its first node back to the space.
LEMMA PopMoves ==
    ASSUME ListInv, PopLeft, size > 0
    PROVE  /\ ListInv'
           /\ UsedChain' = Rest(UsedChain, size)
<1> DEFINE a == UsedChain
           b == FreeChain
           m == MaxSize - size
           p == Rest(a, size)
           q == Added(a[1], b, m)
<1>1. size \in 0..MaxSize /\ head # Nil
  BY FirstNodes DEF ListInv, ListTyped
<1>2. size \in Nat \ {0} /\ m \in Nat BY <1>1, StaticListAssumption
<1>3. /\ next' = [next EXCEPT ![a[1]] = b[1]]
      /\ element' = element
      /\ head' = next[head] /\ space' = head /\ size' = size - 1 /\ raised' = "none"
  BY <1>2 DEF PopLeft, ListInv
<1>4. /\ next \in [Nodes -> Nodes \cup {Nil}]
      /\ a[1] = head /\ b[1] = space
      /\ AreChains(next, a, size, b, m)
  BY DEF ListInv, ListTyped
<1> HIDE DEF a, b, m
<1>5. AreChains(next', p, size - 1, q, m + 1)
  BY <1>2, <1>3, <1>4, FirstNodeMoves
<1>6. p[1] = next[head] /\ q[1] = head
  BY <1>2, <1>4 DEF Rest, Added, AreChains, IsChain
<1>7. ListTyped'
  <2>1. ListTyped BY DEF ListInv
  <2>2. head \in Nodes /\ next[head] \in Nodes \cup {Nil}
    BY <1>1, <2>1 DEF ListTyped
  <2>3. b[1] \in Nodes \cup {Nil} BY <1>4, <2>1 DEF ListTyped
  <2>4. element' \in [Nodes -> Elements \cup {"unset"}]
    BY <1>3, <2>1 DEF ListTyped
  <2>5. next' \in [Nodes -> Nodes \cup {Nil}] BY <1>3, <1>4, <2>3
  <2>6. size' \in 0..MaxSize BY <1>1, <1>2, <1>3, StaticListAssumption
  <2> QED BY <1>3, <2>2, <2>4, <2>5, <2>6 DEF ListTyped
<1> HIDE DEF p, q
<1>8. m + 1 = MaxSize - size' /\ size' \in 0..MaxSize
  BY <1>1, <1>2, <1>3, StaticListAssumption DEF m
<1>9. AreChains(next', p, size', q, MaxSize - size') BY <1>3, <1>5, <1>8
<1>10. p[1] = head' /\ q[1] = space' BY <1>3, <1>6
<1>11. UsedChain' = p /\ FreeChain' = q
  BY <1>8, <1>9, <1>10, ChainsOfNextState
<1> QED BY <1>7, <1>9, <1>10, <1>11 DEF ListInv, p, a

\* A step that leaves the pointers alone keeps the chains.
LEMMA ListStutters ==
    ASSUME ListInv, UNCHANGED <<element, next, head, space, size>>,
           raised' \in {"none", "ListFullError", "ListEmptyError"}
    PROVE  ListInv' /\ UsedChain' = UsedChain
<1>1. ListTyped' BY DEF ListInv, ListTyped
<1> DEFINE a == UsedChain
           b == FreeChain
<1>2. /\ size' \in 0..MaxSize
      /\ AreChains(next', a, size', b, MaxSize - size')
      /\ a[1] = head' /\ b[1] = space'
  BY DEF ListInv, ListTyped
<1> HIDE DEF a, b
<1>3. UsedChain' = a /\ FreeChain' = b BY <1>2, ChainsOfNextState
<1> QED BY <1>1, <1>2, <1>3 DEF ListInv, a

\* The chains of the static list are kept by every call: pop_left and
\* insert_left of src/summerrpc/helper/list.py.
THEOREM ListInvariant == ListSpec => []ListInv
<1>1. ListInit => ListInv BY InitChains
<1>2. ListInv /\ [ListNext]_listVars => ListInv'
  <2> SUFFICES ASSUME ListInv, [ListNext]_listVars PROVE ListInv' OBVIOUS
  <2>1. ASSUME PopLeft PROVE ListInv'
    <3>1. CASE size > 0 BY <2>1, <3>1, PopMoves
    <3>2. CASE ~(size > 0) BY <2>1, <3>2, ListStutters DEF PopLeft
    <3> QED BY <3>1, <3>2
  <2>2. ASSUME NEW e \in Elements, InsertLeft(e) PROVE ListInv'
    <3>1. CASE space = Nil BY <2>2, <3>1, ListStutters DEF InsertLeft
    <3>2. CASE space # Nil BY <2>2, <3>2, InsertMoves
    <3> QED BY <3>1, <3>2
  <2>3. ASSUME UNCHANGED listVars PROVE ListInv'
    <3>1. raised' \in {"none", "ListFullError", "ListEmptyError"}
      BY <2>3 DEF listVars, ListInv, ListTyped
    <3> QED BY <2>3, <3>1, ListStutters DEF listVars
  <2> QED BY <2>1, <2>2, <2>3 DEF ListNext
<1> QED BY <1>1, <1>2, PTL DEF ListSpec

\* No call of the static list loses a node or links one twice, whatever its
\* capacity and the calls made.
THEOREM NodesAreKept == ListSpec => []NodesPartitioned
<1>1. ListInv => NodesPartitioned
  <2> SUFFICES ASSUME ListInv PROVE NodesPartitioned OBVIOUS
  <2> DEFINE m == MaxSize - size
  <2>1. /\ size \in Nat /\ m \in Nat /\ size \in 0..MaxSize
        /\ AreChains(next, UsedChain, size, FreeChain, m)
    BY StaticListAssumption DEF ListInv, ListTyped
  <2>2. Used = FirstOf(UsedChain, size) /\ Free = FirstOf(FreeChain, m)
    BY ChainsOfState DEF ListInv, ListTyped
  <2> HIDE DEF m
  <2>3. /\ \A i \in 1..size : Used[i] = UsedChain[i]
        /\ \A i \in 1..m : Free[i] = FreeChain[i]
    BY <2>2 DEF FirstOf
  <2>4. \A n \in Nodes : \/ n \in {Used[i] : i \in 1..size}
                         \/ n \in {Free[i] : i \in 1..m}
    BY <2>1, <2>3 DEF AreChains
  <2>5. UsedChain[size + 1] = Nil /\ FreeChain[m + 1] = Nil
    BY <2>1 DEF AreChains, IsChain
  <2> QED BY <2>1, <2>4, <2>5 DEF NodesPartitioned, UsedChain, FreeChain, m
<1> QED BY <1>1, ListInvariant, PTL

-----------------------------------------------------------------------------
\* The static list is a bounded stack.

\* The stack a list stands for holds the elements of its nodes.
LEMMA ContentOfChain ==
    ListInv => /\ Content = [i \in 1..size |-> element[UsedChain[i]]]
               /\ Content \in Seq(Elements \cup {"unset"})
               /\ Len(Content) = size
<1> SUFFICES ASSUME ListInv
             PROVE  /\ Content = [i \in 1..size |-> element[UsedChain[i]]]
                    /\ Content \in Seq(Elements \cup {"unset"})
                    /\ Len(Content) = size
  OBVIOUS
<1>1. /\ size \in Nat /\ size \in 0..MaxSize
      /\ element \in [Nodes -> Elements \cup {"unset"}]
      /\ \A i \in 1..size : UsedChain[i] \in Nodes
  BY StaticListAssumption DEF ListInv, ListTyped, AreChains, IsChain
<1>2. Used = FirstOf(UsedChain, size)
  BY ChainsOfState DEF ListInv, ListTyped
<1>3. \A i \in 1..size : Used[i] = UsedChain[i] BY <1>2 DEF FirstOf
<1>4. Content = [i \in 1..size |-> element[UsedChain[i]]] BY <1>3 DEF Content
<1>5. Content \in [1..size -> Elements \cup {"unset"}] BY <1>1, <1>4
<1> HIDE DEF Content
<1> QED BY <1>1, <1>4, <1>5

\* The same of the state after a step.
LEMMA ContentOfNextChain ==
    (ListInv => /\ Content = [i \in 1..size |-> element[UsedChain[i]]]
                /\ Content \in Seq(Elements \cup {"unset"})
                /\ Len(Content) = size)'
BY ContentOfChain, PTL

\* What is inserted is on top.
LEMMA InsertPushes ==
    ASSUME ListInv, NEW e \in Elements, InsertLeft(e), space # Nil
    PROVE  Content' = <<e>> \o Content /\ Len(Content) # MaxSize
<1>1. /\ ListInv' /\ size < MaxSize
      /\ UsedChain' = Added(space, UsedChain, size)
  BY InsertMoves
<1>2. /\ element' = [element EXCEPT ![space] = e] /\ size' = size + 1
      /\ element \in [Nodes -> Elements \cup {"unset"}]
      /\ size \in Nat
      /\ space \in Nodes
  BY StaticListAssumption DEF InsertLeft, ListInv, ListTyped
<1>3. \A i \in 1..size : UsedChain[i] \in Nodes /\ UsedChain[i] # space
  <2>1. FreeChain[1] = space /\ 1 \in 1..(MaxSize - size)
    BY <1>1, <1>2, StaticListAssumption DEF ListInv
  <2> QED BY <2>1 DEF ListInv, AreChains, IsChain
<1> DEFINE c == Content
           d == Content'
<1>4. /\ c = [i \in 1..size |-> element[UsedChain[i]]]
      /\ c \in Seq(Elements \cup {"unset"}) /\ Len(c) = size
  BY ContentOfChain
<1>5. /\ d = [i \in 1..(size + 1) |-> element'[UsedChain'[i]]]
      /\ d \in Seq(Elements \cup {"unset"}) /\ Len(d) = size + 1
  BY <1>1, <1>2, ContentOfNextChain
<1> HIDE DEF c, d
<1>6. d[1] = e
  BY <1>1, <1>2, <1>5 DEF Added
<1>7. ASSUME NEW i \in 1..size PROVE d[i + 1] = c[i]
  <2>1. UsedChain'[i + 1] = UsedChain[i] BY <1>1, <1>2 DEF Added
  <2>2. element'[UsedChain[i]] = element[UsedChain[i]] BY <1>2, <1>3
  <2>3. d[i + 1] = element'[UsedChain'[i + 1]] BY <1>2, <1>5
  <2> QED BY <2>1, <2>2, <2>3, <1>4
<1>8. d = <<e>> \o c
  BY <1>2, <1>4, <1>5, <1>6, <1>7
<1> QED BY <1>1, <1>2, <1>4, <1>8, StaticListAssumption DEF c, d

\* What is popped is what was on top.
LEMMA PopPops ==
    ASSUME ListInv, PopLeft, size > 0
    PROVE  Content' = Tail(Content) /\ Content # <<>>
<1>1. ListInv' /\ UsedChain' = Rest(UsedChain, size)
  BY PopMoves
<1>2. /\ element' = element /\ size' = size - 1
      /\ size \in Nat \ {0}
  BY StaticListAssumption DEF PopLeft, ListInv, ListTyped
<1> DEFINE c == Content
           d == Content'
<1>3. /\ c = [i \in 1..size |-> element[UsedChain[i]]]
      /\ c \in Seq(Elements \cup {"unset"}) /\ Len(c) = size
  BY ContentOfChain
<1>4. /\ d = [i \in 1..(size - 1) |-> element'[UsedChain'[i]]]
      /\ d \in Seq(Elements \cup {"unset"}) /\ Len(d) = size - 1
  BY <1>1, <1>2, ContentOfNextChain
<1> HIDE DEF c, d
<1>5. ASSUME NEW i \in 1..(size - 1) PROVE d[i] = c[i + 1]
  <2>1. UsedChain'[i] = UsedChain[i + 1] BY <1>1, <1>2 DEF Rest
  <2> QED BY <2>1, <1>2, <1>3, <1>4
<1>6. d = Tail(c)
  BY <1>2, <1>3, <1>4, <1>5
<1> QED BY <1>2, <1>3, <1>6 DEF c, d

\* The static list implements the bounded stack: what is popped is what was
\* inserted last, a call raises only when the list is full or empty, and
\* then it changes nothing.
THEOREM ListIsAStack == ListSpec => ImplementsStack
<1>1. ListInit => Stack!Init
  BY DEF ListInit, Stack!Init, Content
<1>2. ListInv /\ [ListNext]_listVars => [Stack!Next]_(Stack!vars)
  <2> SUFFICES ASSUME ListInv, [ListNext]_listVars
               PROVE  [Stack!Next]_(Stack!vars)
    OBVIOUS
  <2>1. /\ Content \in Seq(Elements \cup {"unset"}) /\ Len(Content) = size
        /\ size \in 0..MaxSize
    BY ContentOfChain DEF ListInv, ListTyped
  <2>2. ASSUME UNCHANGED <<element, next, head, space, size>>,
               raised' \in {"none", "ListFullError", "ListEmptyError"}
        PROVE  Content' = Content
    <3>1. ListInv' /\ UsedChain' = UsedChain BY <2>2, ListStutters
    <3>2. Content' = [i \in 1..size' |-> element'[UsedChain'[i]]]
      BY <3>1, ContentOfNextChain
    <3>3. Content = [i \in 1..size |-> element[UsedChain[i]]]
      BY ContentOfChain
    <3> QED BY <2>2, <3>1, <3>2, <3>3
  <2>3. ASSUME PopLeft PROVE Stack!Pop
    <3>1. CASE size > 0
      <4>1. Content' = Tail(Content) /\ Content # <<>> BY <2>3, <3>1, PopPops
      <4>2. raised' = "none" BY <2>3, <3>1, <2>1 DEF PopLeft
      <4> QED BY <4>1, <4>2 DEF Stack!Pop
    <3>2. CASE ~(size > 0)
      <4>1. /\ UNCHANGED <<element, next, head, space, size>>
            /\ raised' = "ListEmptyError"
        BY <2>3, <3>2 DEF PopLeft
      <4>2. Content' = Content BY <4>1, <2>2
      <4>3. Content = <<>> BY <2>1, <3>2, StaticListAssumption
      <4> QED BY <4>1, <4>2, <4>3 DEF Stack!Pop
    <3> QED BY <3>1, <3>2
  <2>4. ASSUME NEW e \in Elements, InsertLeft(e) PROVE Stack!Push(e)
    <3>1. CASE space = Nil
      <4>1. /\ UNCHANGED <<element, next, head, space, size>>
            /\ raised' = "ListFullError"
        BY <2>4, <3>1 DEF InsertLeft
      <4>2. Content' = Content BY <4>1, <2>2
      <4>3. Len(Content) = MaxSize BY <2>1, <3>1, FirstNodes
      <4> QED BY <4>1, <4>2, <4>3 DEF Stack!Push
    <3>2. CASE space # Nil
      <4>1. Content' = <<e>> \o Content /\ Len(Content) # MaxSize
        BY <2>4, <3>2, InsertPushes
      <4>2. raised' = "none" BY <2>4, <3>2 DEF InsertLeft
      <4> QED BY <4>1, <4>2 DEF Stack!Push
    <3> QED BY <3>1, <3>2
  <2>5. ASSUME UNCHANGED listVars PROVE UNCHANGED Stack!vars
    <3>1. raised' \in {"none", "ListFullError", "ListEmptyError"}
      BY <2>5 DEF listVars, ListInv, ListTyped
    <3>2. Content' = Content BY <2>2, <2>5, <3>1 DEF listVars
    <3> QED BY <2>5, <3>2 DEF listVars, Stack!vars
  <2> QED BY <2>3, <2>4, <2>5 DEF ListNext, Stack!Next
<1> QED BY <1>1, <1>2, ListInvariant, PTL
        DEF ListSpec, ImplementsStack, Stack!Spec

-----------------------------------------------------------------------------
\* The ring of the entries of an LRU cache.

Places == {RingHead} \cup Entries

Pointers == [Places -> Places]

\* c goes once around the ring of n entries, from the head to the head.
IsRing(p, s, c, n) ==
    /\ c \in [0..(n + 1) -> Places]
    /\ c[0] = RingHead /\ c[n + 1] = RingHead
    /\ \A i \in 1..n : c[i] \in Entries
    /\ \A i, j \in 1..n : c[i] = c[j] => i = j
    /\ \A i \in 0..n : s[c[i]] = c[i + 1] /\ p[c[i + 1]] = c[i]

\* The ring without its i-th entry, and with one more before the first.
Without(c, i, n) == [k \in 0..n |-> IF k < i THEN c[k] ELSE c[k + 1]]
WithFirst(e, c, n) ==
    [k \in 0..(n + 2) |-> IF k = 0 THEN RingHead ELSE IF k = 1 THEN e ELSE c[k - 1]]

\* The entries a ring has.
Met(c, n) == {c[k] : k \in 1..n}

\* Only the head is met twice.
LEMMA RingIsSimple ==
    ASSUME NEW p, NEW s, NEW c, NEW n \in Nat, IsRing(p, s, c, n)
    PROVE  /\ \A i, j \in 0..n : c[i] = c[j] => i = j
           /\ \A i, j \in 1..(n + 1) : c[i] = c[j] => i = j
<1>1. \A i \in 1..n : c[i] # RingHead
  BY LinkedLRUAssumption DEF IsRing, Entries, RingHead
<1>2. ASSUME NEW i \in 0..n, NEW j \in 0..n, c[i] = c[j] PROVE i = j
  <2>1. CASE i = 0 /\ j = 0 BY <2>1
  <2>2. CASE i = 0 /\ j # 0
    <3>1. j \in 1..n BY <2>2
    <3> QED BY <3>1, <2>2, <1>1, <1>2 DEF IsRing
  <2>3. CASE i # 0 /\ j = 0
    <3>1. i \in 1..n BY <2>3
    <3> QED BY <3>1, <2>3, <1>1, <1>2 DEF IsRing
  <2>4. CASE i # 0 /\ j # 0
    <3>1. i \in 1..n /\ j \in 1..n BY <2>4
    <3> QED BY <3>1, <1>2 DEF IsRing
  <2> QED BY <2>1, <2>2, <2>3, <2>4
<1>3. ASSUME NEW i \in 1..(n + 1), NEW j \in 1..(n + 1), c[i] = c[j] PROVE i = j
  <2>1. CASE i = n + 1 /\ j = n + 1 BY <2>1
  <2>2. CASE i = n + 1 /\ j # n + 1
    <3>1. j \in 1..n BY <2>2
    <3> QED BY <3>1, <2>2, <1>1, <1>3 DEF IsRing
  <2>3. CASE i # n + 1 /\ j = n + 1
    <3>1. i \in 1..n BY <2>3
    <3> QED BY <3>1, <2>3, <1>1, <1>3 DEF IsRing
  <2>4. CASE i # n + 1 /\ j # n + 1
    <3>1. i \in 1..n /\ j \in 1..n BY <2>4
    <3> QED BY <3>1, <1>3 DEF IsRing
  <2> QED BY <2>1, <2>2, <2>3, <2>4
<1> QED BY <1>2, <1>3

\* Unlink takes an entry out of the ring.
LEMMA UnlinkShrinks ==
    ASSUME NEW p \in Pointers, NEW s \in Pointers, NEW c, NEW n \in Nat,
           IsRing(p, s, c, n), NEW i \in 1..n
    PROVE  LET r == Unlink([prev |-> p, succ |-> s], c[i])
           IN  /\ r.prev \in Pointers /\ r.succ \in Pointers
               /\ IsRing(r.prev, r.succ, Without(c, i, n), n - 1)
               /\ \A k \in 1..(n - 1) : Without(c, i, n)[k] # c[i]
               /\ Met(Without(c, i, n), n - 1) = Met(c, n) \ {c[i]}
<1> DEFINE e  == c[i]
           s2 == [s EXCEPT ![p[e]] = s[e]]
           p2 == [p EXCEPT ![s[e]] = p[e]]
           d  == Without(c, i, n)
<1>1. /\ Unlink([prev |-> p, succ |-> s], e).prev = p2
      /\ Unlink([prev |-> p, succ |-> s], e).succ = s2
  BY DEF Unlink
<1>2. /\ i - 1 \in 0..n /\ i + 1 \in 1..(n + 1) /\ i \in 0..n
      /\ p[e] = c[i - 1] /\ s[e] = c[i + 1]
  <2>1. i - 1 \in 0..n /\ i \in 0..n /\ (i - 1) + 1 = i OBVIOUS
  <2>2. p[c[(i - 1) + 1]] = c[i - 1] BY <2>1 DEF IsRing
  <2> QED BY <2>1, <2>2 DEF IsRing
<1>3. \A k \in 0..(n + 1) : c[k] \in Places BY DEF IsRing
<1>4. /\ s2 \in Pointers /\ p2 \in Pointers
      /\ s2[c[i - 1]] = c[i + 1] /\ p2[c[i + 1]] = c[i - 1]
      /\ \A x \in Places : x # c[i - 1] => s2[x] = s[x]
      /\ \A x \in Places : x # c[i + 1] => p2[x] = p[x]
  BY <1>2, <1>3 DEF Pointers
<1>5. /\ d \in [0..n -> Places]
      /\ \A k \in 0..n : k < i => d[k] = c[k]
      /\ \A k \in 0..n : k >= i => d[k] = c[k + 1]
  BY <1>3 DEF Without
<1> HIDE DEF s2, p2, d, e
<1>6. ASSUME NEW k \in 0..(n - 1) PROVE s2[d[k]] = d[k + 1] /\ p2[d[k + 1]] = d[k]
  <2>0. k \in 0..n /\ k + 1 \in 0..n /\ k + 1 \in 1..(n + 1) OBVIOUS
  <2>1. CASE k < i - 1
    <3>1. d[k] = c[k] /\ d[k + 1] = c[k + 1] BY <2>0, <2>1, <1>5
    <3>2. c[k] # c[i - 1] /\ c[k + 1] # c[i + 1]
      BY <2>0, <2>1, <1>2, RingIsSimple
    <3>3. s[c[k]] = c[k + 1] /\ p[c[k + 1]] = c[k] BY <2>0 DEF IsRing
    <3>4. c[k] \in Places /\ c[k + 1] \in Places BY <2>0, <1>3
    <3> QED BY <3>1, <3>2, <3>3, <3>4, <1>4
  <2>2. CASE k = i - 1
    <3>1. d[k] = c[i - 1] /\ d[k + 1] = c[i + 1] BY <2>0, <2>2, <1>5
    <3> QED BY <3>1, <1>4
  <2>3. CASE k > i - 1
    <3>1. d[k] = c[k + 1] /\ d[k + 1] = c[(k + 1) + 1] BY <2>0, <2>3, <1>5
    <3>2. (k + 1) + 1 \in 1..(n + 1) OBVIOUS
    <3>3. c[k + 1] # c[i - 1] /\ c[(k + 1) + 1] # c[i + 1]
      BY <2>0, <2>3, <3>2, <1>2, RingIsSimple
    <3>4. s[c[k + 1]] = c[(k + 1) + 1] /\ p[c[(k + 1) + 1]] = c[k + 1]
      BY <2>0 DEF IsRing
    <3>5. c[k + 1] \in Places /\ c[(k + 1) + 1] \in Places BY <2>0, <3>2, <1>3
    <3> QED BY <3>1, <3>3, <3>4, <3>5, <1>4
  <2> QED BY <2>1, <2>2, <2>3
<1>7. ASSUME NEW k \in 1..(n - 1)
      PROVE  \E j \in 1..n : j # i /\ d[k] = c[j]
  <2>1. CASE k < i
    <3>1. k \in 1..n /\ k # i /\ d[k] = c[k] BY <2>1, <1>5
    <3> QED BY <3>1
  <2>2. CASE k >= i
    <3>1. k + 1 \in 1..n /\ k + 1 # i /\ d[k] = c[k + 1] BY <2>2, <1>5
    <3> QED BY <3>1
  <2> QED BY <2>1, <2>2
<1>8. ASSUME NEW j \in 1..n, j # i
      PROVE  \E k \in 1..(n - 1) : d[k] = c[j]
  <2>1. CASE j < i
    <3>1. j \in 1..(n - 1) /\ d[j] = c[j] BY <2>1, <1>5
    <3> QED BY <3>1
  <2>2. CASE j > i
    <3>1. j - 1 \in 1..(n - 1) /\ d[j - 1] = c[(j - 1) + 1] BY <2>2, <1>5
    <3> QED BY <3>1
  <2> QED BY <1>8, <2>1, <2>2
<1>9. IsRing(p2, s2, d, n - 1)
  <2>1. (n - 1) + 1 = n /\ n \in 0..n OBVIOUS
  <2>2. d[0] = RingHead /\ d[n] = RingHead BY <2>1, <1>5 DEF IsRing
  <2>3. \A k \in 1..(n - 1) : d[k] \in Entries BY <1>7 DEF IsRing
  <2>4. ASSUME NEW k \in 1..(n - 1), NEW j \in 1..(n - 1), d[k] = d[j] PROVE k = j
    <3>1. CASE k < i /\ j < i BY <2>4, <3>1, <1>5 DEF IsRing
    <3>2. CASE k >= i /\ j >= i
      <4>1. k + 1 \in 1..n /\ j + 1 \in 1..n /\ c[k + 1] = c[j + 1]
        BY <2>4, <3>2, <1>5
      <4>2. k + 1 = j + 1 BY <4>1 DEF IsRing
      <4> QED BY <4>2
    <3>3. CASE k < i /\ j >= i
      <4>1. k \in 1..n /\ j + 1 \in 1..n /\ c[k] = c[j + 1] BY <2>4, <3>3, <1>5
      <4>2. k = j + 1 BY <4>1 DEF IsRing
      <4> QED BY <4>2, <3>3
    <3>4. CASE k >= i /\ j < i
      <4>1. k + 1 \in 1..n /\ j \in 1..n /\ c[k + 1] = c[j] BY <2>4, <3>4, <1>5
      <4>2. k + 1 = j BY <4>1 DEF IsRing
      <4> QED BY <4>2, <3>4
    <3> QED BY <3>1, <3>2, <3>3, <3>4
  <2> QED BY <2>1, <2>2, <2>3, <2>4, <1>5, <1>6 DEF IsRing
<1>10. ASSUME NEW k \in 1..(n - 1) PROVE d[k] # e
  <2>1. PICK j \in 1..n : j # i /\ d[k] = c[j] BY <1>7
  <2>2. c[j] # c[i] BY <2>1 DEF IsRing
  <2> QED BY <2>1, <2>2 DEF e
<1>11. Met(d, n - 1) = Met(c, n) \ {e}
  <2>1. \A k \in 1..(n - 1) : d[k] \in {c[j] : j \in 1..n} \ {e}
    BY <1>7, <1>10
  <2>2. ASSUME NEW j \in 1..n, c[j] # e PROVE c[j] \in {d[k] : k \in 1..(n - 1)}
    <3>1. j # i BY <2>2 DEF e
    <3> QED BY <3>1, <1>8
  <2> QED BY <2>1, <2>2 DEF Met
<1> QED BY <1>1, <1>4, <1>9, <1>10, <1>11 DEF e, d

\* LinkFirst puts a new entry next to the head.
LEMMA LinkFirstGrows ==
    ASSUME NEW p \in Pointers, NEW s \in Pointers, NEW c, NEW n \in Nat,
           IsRing(p, s, c, n), NEW e \in Entries, \A k \in 1..n : c[k] # e
    PROVE  LET r == LinkFirst([prev |-> p, succ |-> s], e)
           IN  /\ r.prev \in Pointers /\ r.succ \in Pointers
               /\ IsRing(r.prev, r.succ, WithFirst(e, c, n), n + 1)
               /\ Met(WithFirst(e, c, n), n + 1) = Met(c, n) \cup {e}
<1> DEFINE p2 == [p EXCEPT ![e] = RingHead, ![s[RingHead]] = e]
           s2 == [s EXCEPT ![e] = s[RingHead], ![RingHead] = e]
           d  == WithFirst(e, c, n)
<1>1. /\ LinkFirst([prev |-> p, succ |-> s], e).prev = p2
      /\ LinkFirst([prev |-> p, succ |-> s], e).succ = s2
  BY DEF LinkFirst
<1>2. s[RingHead] = c[1] /\ c[0] = RingHead
  <2>1. 0 \in 0..n /\ 0 + 1 = 1 OBVIOUS
  <2>2. s[c[0]] = c[0 + 1] BY <2>1 DEF IsRing
  <2> QED BY <2>1, <2>2 DEF IsRing
<1>3. /\ \A k \in 0..(n + 1) : c[k] \in Places /\ c[k] # e
      /\ e # RingHead /\ e \in Places /\ RingHead \in Places
  <2>1. e # RingHead BY LinkedLRUAssumption DEF Entries, RingHead
  <2>2. ASSUME NEW k \in 0..(n + 1) PROVE c[k] # e
    <3>1. CASE k \in 1..n BY <3>1
    <3>2. CASE k = 0 BY <3>2, <2>1, <1>2
    <3>3. CASE k = n + 1 BY <3>3, <2>1 DEF IsRing
    <3> QED BY <3>1, <3>2, <3>3
  <2> QED BY <2>1, <2>2 DEF IsRing, Places
<1>4. c[1] \in Places /\ c[1] # e BY <1>3
<1>5. /\ p2 \in Pointers /\ s2 \in Pointers
      /\ p2[e] = RingHead /\ p2[c[1]] = e
      /\ \A x \in Places : x # e /\ x # c[1] => p2[x] = p[x]
      /\ s2[e] = c[1] /\ s2[RingHead] = e
      /\ \A x \in Places : x # e /\ x # RingHead => s2[x] = s[x]
  BY <1>2, <1>3, <1>4 DEF Pointers
<1>6. /\ d \in [0..(n + 2) -> Places]
      /\ d[0] = RingHead /\ d[1] = e
      /\ \A k \in 2..(n + 2) : k - 1 \in 1..(n + 1) /\ d[k] = c[k - 1]
  BY <1>3 DEF WithFirst
<1> HIDE DEF p2, s2, d
<1>7. ASSUME NEW k \in 0..(n + 1) PROVE s2[d[k]] = d[k + 1] /\ p2[d[k + 1]] = d[k]
  <2>1. CASE k = 0 BY <2>1, <1>5, <1>6
  <2>2. CASE k = 1
    <3>1. 2 \in 2..(n + 2) OBVIOUS
    <3>2. d[2] = c[2 - 1] BY <3>1, <1>6
    <3> QED BY <2>2, <3>2, <1>5, <1>6
  <2>3. CASE k \in 2..(n + 1)
    <3>1. d[k] = c[k - 1] /\ d[k + 1] = c[k] BY <2>3, <1>6
    <3>2. k - 1 \in 0..n /\ k - 1 \in 1..n /\ (k - 1) + 1 = k BY <2>3
    <3>3. s[c[k - 1]] = c[(k - 1) + 1] /\ p[c[(k - 1) + 1]] = c[k - 1]
      BY <3>2 DEF IsRing
    <3>4. c[k - 1] # RingHead BY <3>2, LinkedLRUAssumption DEF IsRing, Entries, RingHead
    <3>5. c[k] # c[1] BY <2>3, RingIsSimple
    <3>6. /\ c[k] \in Places /\ c[k - 1] \in Places
          /\ c[k] # e /\ c[k - 1] # e
      BY <2>3, <3>2, <1>3
    <3> QED BY <3>1, <3>2, <3>3, <3>4, <3>5, <3>6, <1>5
  <2> QED BY <2>1, <2>2, <2>3
<1>8. \A k \in 2..(n + 1) : k - 1 \in 1..n /\ d[k] = c[k - 1]
  BY <1>6
<1>9. IsRing(p2, s2, d, n + 1)
  <2>1. (n + 1) + 1 = n + 2 /\ n + 2 \in 2..(n + 2) OBVIOUS
  <2>2. d[n + 2] = RingHead
    <3>1. (n + 2) - 1 = n + 1 OBVIOUS
    <3> QED BY <2>1, <3>1, <1>6 DEF IsRing
  <2>3. ASSUME NEW k \in 1..(n + 1) PROVE d[k] \in Entries
    <3>1. CASE k = 1 BY <3>1, <1>6
    <3>2. CASE k \in 2..(n + 1) BY <3>2, <1>8 DEF IsRing
    <3> QED BY <3>1, <3>2
  <2>4. ASSUME NEW k \in 1..(n + 1), NEW j \in 1..(n + 1), d[k] = d[j] PROVE k = j
    <3>1. CASE k = 1 /\ j = 1 BY <3>1
    <3>2. CASE k = 1 /\ j # 1
      <4>1. j \in 2..(n + 1) BY <3>2
      <4> QED BY <4>1, <2>4, <3>2, <1>6, <1>8
    <3>3. CASE k # 1 /\ j = 1
      <4>1. k \in 2..(n + 1) BY <3>3
      <4> QED BY <4>1, <2>4, <3>3, <1>6, <1>8
    <3>4. CASE k # 1 /\ j # 1
      <4>1. k \in 2..(n + 1) /\ j \in 2..(n + 1) BY <3>4
      <4>2. k - 1 \in 1..n /\ j - 1 \in 1..n /\ c[k - 1] = c[j - 1]
        BY <4>1, <2>4, <1>8
      <4>3. k - 1 = j - 1 BY <4>2 DEF IsRing
      <4> QED BY <4>3
    <3> QED BY <3>1, <3>2, <3>3, <3>4
  <2> QED BY <2>1, <2>2, <2>3, <2>4, <1>6, <1>7 DEF IsRing
<1>10. Met(d, n + 1) = Met(c, n) \cup {e}
  <2>1. ASSUME NEW k \in 1..(n + 1) PROVE d[k] \in {c[j] : j \in 1..n} \cup {e}
    <3>1. CASE k = 1 BY <3>1, <1>6
    <3>2. CASE k \in 2..(n + 1) BY <3>2, <1>8
    <3> QED BY <3>1, <3>2
  <2>2. ASSUME NEW j \in 1..n PROVE c[j] \in {d[k] : k \in 1..(n + 1)}
    <3>1. j + 1 \in 2..(n + 1) /\ (j + 1) - 1 = j OBVIOUS
    <3>2. d[j + 1] = c[j] BY <3>1, <1>8
    <3> QED BY <3>1, <3>2
  <2>3. e \in {d[k] : k \in 1..(n + 1)} BY <1>6
  <2> QED BY <2>1, <2>2, <2>3 DEF Met
<1> QED BY <1>1, <1>5, <1>9, <1>10 DEF d

\* __change_pointer moves an entry next to the head.
LEMMA ChangePointerMoves ==
    ASSUME NEW p \in Pointers, NEW s \in Pointers, NEW c, NEW n \in Nat,
           IsRing(p, s, c, n), NEW i \in 1..n
    PROVE  LET r == ChangePointer([prev |-> p, succ |-> s], c[i])
               d == WithFirst(c[i], Without(c, i, n), n - 1)
           IN  /\ r.prev \in Pointers /\ r.succ \in Pointers
               /\ IsRing(r.prev, r.succ, d, n)
               /\ Met(d, n) = Met(c, n)
<1> DEFINE r1 == Unlink([prev |-> p, succ |-> s], c[i])
           r  == ChangePointer([prev |-> p, succ |-> s], c[i])
           e  == c[i]
           d1 == Without(c, i, n)
           d  == WithFirst(e, d1, n - 1)
<1>1. r1 = [prev |-> r1.prev, succ |-> r1.succ]
  BY DEF Unlink
<1>2. r = LinkFirst(r1, e) BY DEF ChangePointer
<1>3. /\ r1.prev \in Pointers /\ r1.succ \in Pointers
      /\ IsRing(r1.prev, r1.succ, d1, n - 1)
      /\ \A k \in 1..(n - 1) : d1[k] # e
      /\ Met(d1, n - 1) = Met(c, n) \ {e}
  BY UnlinkShrinks
<1>4. e \in Entries /\ e \in Met(c, n) BY DEF IsRing, Met
<1>5. n - 1 \in Nat /\ (n - 1) + 1 = n OBVIOUS
<1> HIDE DEF r1, r, e, d1
<1> DEFINE m == n - 1
<1>6. m \in Nat /\ m + 1 = n BY <1>5
<1>7. /\ IsRing(r1.prev, r1.succ, d1, m)
      /\ \A k \in 1..m : d1[k] # e
      /\ d = WithFirst(e, d1, m)
      /\ Met(d1, m) = Met(c, n) \ {e}
  BY <1>3
<1> HIDE DEF m
<1>8. /\ LinkFirst(r1, e).prev \in Pointers /\ LinkFirst(r1, e).succ \in Pointers
      /\ IsRing(LinkFirst(r1, e).prev, LinkFirst(r1, e).succ, WithFirst(e, d1, m), m + 1)
      /\ Met(WithFirst(e, d1, m), m + 1) = Met(d1, m) \cup {e}
  <2> DEFINE p1 == r1.prev
             s1 == r1.succ
  <2>1. p1 \in Pointers /\ s1 \in Pointers /\ r1 = [prev |-> p1, succ |-> s1]
    BY <1>1, <1>3
  <2>2. IsRing(p1, s1, d1, m) BY <1>7
  <2> HIDE DEF p1, s1
  <2>3. LET q == LinkFirst([prev |-> p1, succ |-> s1], e)
        IN  /\ q.prev \in Pointers /\ q.succ \in Pointers
            /\ IsRing(q.prev, q.succ, WithFirst(e, d1, m), m + 1)
            /\ Met(WithFirst(e, d1, m), m + 1) = Met(d1, m) \cup {e}
    BY <2>1, <2>2, <1>4, <1>6, <1>7, LinkFirstGrows
  <2> QED BY <2>1, <2>3
<1> HIDE DEF d
<1>9. Met(c, n) = (Met(c, n) \ {e}) \cup {e} BY <1>4
<1>10. Met(d, n) = Met(c, n)
  BY <1>6, <1>7, <1>8, <1>9
<1> QED BY <1>2, <1>6, <1>7, <1>8, <1>10 DEF r, d, d1, e, m

\* Collecting entries that are not in the ring keeps it.
LEMMA CollectKeepsRing ==
    ASSUME NEW p \in Pointers, NEW s \in Pointers, NEW c, NEW n \in Nat,
           IsRing(p, s, c, n), NEW D \in SUBSET Entries,
           \A k \in 1..n : c[k] \notin D
    PROVE  LET p2 == [e \in Places |-> IF e \in D THEN RingHead ELSE p[e]]
               s2 == [e \in Places |-> IF e \in D THEN RingHead ELSE s[e]]
           IN  p2 \in Pointers /\ s2 \in Pointers /\ IsRing(p2, s2, c, n)
<1> DEFINE p2 == [e \in Places |-> IF e \in D THEN RingHead ELSE p[e]]
           s2 == [e \in Places |-> IF e \in D THEN RingHead ELSE s[e]]
<1>1. p2 \in Pointers /\ s2 \in Pointers BY DEF Pointers, Places
<1>2. ASSUME NEW k \in 0..(n + 1) PROVE c[k] \in Places /\ c[k] \notin D
  <2>1. RingHead \notin D BY LinkedLRUAssumption DEF Entries, RingHead
  <2>2. CASE k \in 1..n BY <2>2 DEF IsRing
  <2>3. CASE k = 0 BY <2>1, <2>3 DEF IsRing
  <2>4. CASE k = n + 1 BY <2>1, <2>4 DEF IsRing
  <2> QED BY <2>2, <2>3, <2>4
<1>3. ASSUME NEW k \in 0..n PROVE s2[c[k]] = c[k + 1] /\ p2[c[k + 1]] = c[k]
  <2>1. k \in 0..(n + 1) /\ k + 1 \in 0..(n + 1) OBVIOUS
  <2> QED BY <2>1, <1>2 DEF IsRing
<1> HIDE DEF p2, s2
<1>4. IsRing(p2, s2, c, n) BY <1>3 DEF IsRing
<1> QED BY <1>1, <1>4 DEF p2, s2

-----------------------------------------------------------------------------
\* The specification of a linked cache by itself.
CacheSystem == CacheInit /\ [][CacheNext]_cacheVars

\* What Ranked meets with the next pointers s.
RankedBy(s, n) ==
    LET entry[i \in 1..n] == IF i = 1 THEN s[RingHead] ELSE s[entry[i - 1]]
    IN  entry

\* The ring of n entries found so is the only one.
LEMMA RankedIsUnique ==
    ASSUME NEW p, NEW s, NEW n \in Nat, NEW c, IsRing(p, s, c, n)
    PROVE  RankedBy(s, n) = FirstOf(c, n)
<1> DEFINE d == FirstOf(c, n)
           w == RankedBy(s, n)
<1>1. d = [i \in 1..n |-> IF i = 1 THEN s[RingHead] ELSE s[d[i - 1]]]
  <2>1. 0 \in 0..n /\ 0 + 1 = 1 OBVIOUS
  <2>2. s[RingHead] = c[1] BY <2>1 DEF IsRing
  <2>3. ASSUME NEW i \in 1..n, i # 1 PROVE c[i] = s[d[i - 1]]
    <3>1. i - 1 \in 1..n /\ i - 1 \in 0..n /\ (i - 1) + 1 = i BY <2>3
    <3>2. s[c[i - 1]] = c[(i - 1) + 1] BY <3>1 DEF IsRing
    <3> QED BY <3>1, <3>2 DEF FirstOf
  <2> QED BY <2>2, <2>3 DEF FirstOf
<1> HIDE DEF d
<1>2. w = [i \in 1..n |-> IF i = 1 THEN s[RingHead] ELSE s[w[i - 1]]]
  BY <1>1 DEF RankedBy
<1> HIDE DEF w
<1>3. ASSUME w # d PROVE FALSE
  <2> DEFINE T == {k \in 1..n : w[k] # d[k]}
  <2>1. PICK k \in 1..n : w[k] # d[k] BY <1>1, <1>2, <1>3
  <2>2. k \in T BY <2>1
  <2>3. T \subseteq Nat OBVIOUS
  <2>4. \A i \in 1..n : i \notin T <=> w[i] = d[i] OBVIOUS
  <2>5. \A i \in T : i \in 1..n OBVIOUS
  <2> HIDE DEF T
  <2>6. PICK x \in T : \A y \in T : x <= y BY <2>2, <2>3, LeastNumber
  <2>7. x \in 1..n /\ w[x] # d[x] BY <2>4, <2>5, <2>6
  <2>8. x # 1 BY <1>1, <1>2, <2>7
  <2>9. x - 1 \in 1..n /\ x - 1 \notin T BY <2>6, <2>7, <2>8
  <2>10. w[x - 1] = d[x - 1] BY <2>4, <2>9
  <2> QED BY <2>7, <2>8, <2>9, <2>10, <1>1, <1>2
<1> QED BY <1>3 DEF w, d

\* Once around the ring of the state, from the head to the head.
Around == [i \in 0..(Cardinality(Mapped) + 1) |->
             IF i \in 1..Cardinality(Mapped) THEN Ranked[i] ELSE RingHead]

\* The ring of a state is the one its pointers lead through.
LEMMA RingOfState ==
    \A c : /\ Cardinality(Mapped) \in Nat
           /\ IsRing(prev, succ, c, Cardinality(Mapped))
           => /\ Around = c
              /\ Ranked = FirstOf(c, Cardinality(Mapped))
<1> DEFINE n == Cardinality(Mapped)
<1>1. Ranked = RankedBy(succ, n) BY DEF Ranked, RankedBy
<1> SUFFICES ASSUME NEW c, n \in Nat, IsRing(prev, succ, c, n)
             PROVE  Around = c /\ Ranked = FirstOf(c, n)
  OBVIOUS
<1>2. Ranked = FirstOf(c, n) BY <1>1, RankedIsUnique DEF n
<1>3. Around = [i \in 0..(n + 1) |-> IF i \in 1..n THEN Ranked[i] ELSE RingHead]
  BY DEF Around
<1> HIDE DEF n
<1>4. ASSUME NEW i \in 0..(n + 1)
      PROVE  c[i] = IF i \in 1..n THEN Ranked[i] ELSE RingHead
  <2>1. CASE i \in 1..n BY <2>1, <1>2 DEF FirstOf
  <2>2. CASE i \notin 1..n
    <3>1. i = 0 \/ i = n + 1 BY <2>2
    <3> QED BY <3>1, <2>2 DEF IsRing
  <2> QED BY <2>1, <2>2
<1>5. c = [i \in 0..(n + 1) |-> c[i]] BY DEF IsRing
<1>6. Around = c BY <1>3, <1>4, <1>5
<1> QED BY <1>2, <1>6 DEF n

\* The same of the state after a step.
LEMMA RingOfNextState ==
    (\A c : /\ Cardinality(Mapped) \in Nat
            /\ IsRing(prev, succ, c, Cardinality(Mapped))
            => /\ Around = c
               /\ Ranked = FirstOf(c, Cardinality(Mapped)))'
BY RingOfState, PTL

MappedEntries == {map[h] : h \in Mapped}

CacheTyped ==
    /\ map \in [Hashes -> Places]
    /\ key \in [Entries -> Keys \cup {"unset"}]
    /\ value \in [Entries -> Values \cup {"unset"}]
    /\ prev \in Pointers /\ succ \in Pointers

\* No more hashes are mapped than there may be, each to the entry of a key
\* that has this hash.
MapInv ==
    /\ IsFiniteSet(Mapped) /\ Cardinality(Mapped) <= Capacity
    /\ \A h \in Mapped : key[map[h]] \in Keys /\ Hash[key[map[h]]] = h

\* The inductive invariant of the linked cache.
CacheInv ==
    /\ CacheTyped
    /\ MapInv
    /\ IsRing(prev, succ, Around, Cardinality(Mapped))
    /\ Met(Around, Cardinality(Mapped)) = MappedEntries

\* A ring that holds the mapped entries is all the pointers need to be.
LEMMA RingSuffices ==
    \A c : /\ CacheTyped /\ MapInv
           /\ IsRing(prev, succ, c, Cardinality(Mapped))
           /\ Met(c, Cardinality(Mapped)) = MappedEntries
           => CacheInv /\ Around = c
<1> SUFFICES ASSUME NEW c, CacheTyped, MapInv,
                    IsRing(prev, succ, c, Cardinality(Mapped)),
                    Met(c, Cardinality(Mapped)) = MappedEntries
             PROVE  CacheInv /\ Around = c
  OBVIOUS
<1>1. Cardinality(Mapped) \in Nat BY FS_CardinalityType DEF MapInv
<1>2. Around = c BY <1>1, RingOfState
<1> QED BY <1>2 DEF CacheInv

\* The same of the state after a step.
LEMMA RingSufficesNext ==
    (\A c : /\ CacheTyped /\ MapInv
            /\ IsRing(prev, succ, c, Cardinality(Mapped))
            /\ Met(c, Cardinality(Mapped)) = MappedEntries
            => CacheInv /\ Around = c)'
BY RingSuffices, PTL

\* The head is no entry.
LEMMA HeadIsNoEntry == RingHead \notin Entries /\ RingHead = 0
BY LinkedLRUAssumption DEF RingHead, Entries

\* The hash of a mapped entry's key leads back to it; so no two hashes are
\* mapped to one entry.
LEMMA MappedApart ==
    ASSUME CacheInv
    PROVE  /\ \A h \in Mapped : h \in Hashes /\ map[h] \in Entries /\ map[h] # 0
           /\ \A g, h \in Mapped : map[g] = map[h] => g = h
           /\ Cardinality(Mapped) \in Nat
           /\ \A i \in 1..Cardinality(Mapped) : \E h \in Mapped : Around[i] = map[h]
           /\ \A h \in Mapped : \E i \in 1..Cardinality(Mapped) : Around[i] = map[h]
<1>1. \A h \in Mapped : h \in Hashes /\ map[h] \in Entries /\ map[h] # 0
  BY HeadIsNoEntry DEF Mapped, CacheInv, CacheTyped, Places
<1>2. ASSUME NEW g \in Mapped, NEW h \in Mapped, map[g] = map[h] PROVE g = h
  BY <1>2 DEF CacheInv, MapInv
<1>3. Cardinality(Mapped) \in Nat BY FS_CardinalityType DEF CacheInv, MapInv
<1> DEFINE n == Cardinality(Mapped)
<1>4. Met(Around, n) = MappedEntries BY DEF CacheInv
<1> HIDE DEF n
<1>5. ASSUME NEW i \in 1..n PROVE \E h \in Mapped : Around[i] = map[h]
  <2>1. Around[i] \in MappedEntries BY <1>4 DEF Met
  <2> QED BY <2>1 DEF MappedEntries
<1>6. ASSUME NEW h \in Mapped PROVE \E i \in 1..n : Around[i] = map[h]
  <2>1. map[h] \in Met(Around, n) BY <1>4 DEF MappedEntries
  <2> QED BY <2>1 DEF Met
<1> QED BY <1>1, <1>2, <1>3, <1>5, <1>6 DEF n

\* At the beginning nothing is mapped, and the head is alone in the ring.
LEMMA InitRing == CacheInit => CacheInv
<1> SUFFICES ASSUME CacheInit PROVE CacheInv OBVIOUS
<1>1. Mapped = {} BY DEF CacheInit, Mapped
<1>2. Cardinality(Mapped) = 0 /\ IsFiniteSet(Mapped) BY <1>1, FS_EmptySet
<1>3. CacheTyped
  BY DEF CacheInit, CacheTyped, Places, Pointers, RingHead
<1>4. MapInv BY <1>1, <1>2, LinkedLRUAssumption DEF MapInv
<1> DEFINE c == [i \in 0..1 |-> RingHead]
<1>5. IsRing(prev, succ, c, 0)
  BY DEF IsRing, CacheInit, Places
<1>6. Met(c, 0) = MappedEntries
  BY <1>1 DEF Met, MappedEntries
<1> QED BY <1>2, <1>3, <1>4, <1>5, <1>6, RingSuffices

\* Where the entry at place i is once it is the first.
Moved(c, i, n) == WithFirst(c[i], Without(c, i, n), n - 1)

\* The pointers after __change_pointer, as a step of a state.
LEMMA PointMoves ==
    ASSUME CacheInv, NEW e, NEW i \in 1..Cardinality(Mapped), Around[i] = e,
           Point(ChangePointer(Ring, e))
    PROVE  /\ prev' \in Pointers /\ succ' \in Pointers
           /\ IsRing(prev', succ', Moved(Around, i, Cardinality(Mapped)),
                     Cardinality(Mapped))
           /\ Met(Moved(Around, i, Cardinality(Mapped)), Cardinality(Mapped))
                = MappedEntries
<1> DEFINE n == Cardinality(Mapped)
           c == Around
<1>1. /\ n \in Nat /\ i \in 1..n
      /\ prev \in Pointers /\ succ \in Pointers
      /\ IsRing(prev, succ, c, n)
      /\ Met(c, n) = MappedEntries
  BY MappedApart DEF CacheInv, CacheTyped
<1>2. /\ prev' = ChangePointer([prev |-> prev, succ |-> succ], c[i]).prev
      /\ succ' = ChangePointer([prev |-> prev, succ |-> succ], c[i]).succ
  BY DEF Point, Ring
<1> HIDE DEF n, c
<1>3. LET r == ChangePointer([prev |-> prev, succ |-> succ], c[i])
          d == WithFirst(c[i], Without(c, i, n), n - 1)
      IN  /\ r.prev \in Pointers /\ r.succ \in Pointers
          /\ IsRing(r.prev, r.succ, d, n)
          /\ Met(d, n) = Met(c, n)
  BY <1>1, ChangePointerMoves
<1> QED BY <1>1, <1>2, <1>3 DEF Moved, n, c

\* Reading a mapped key makes its entry the first.
LEMMA GetMoves ==
    ASSUME CacheInv, NEW k \in Keys, GetItem(k)
    PROVE  /\ CacheInv' /\ Mapped' = Mapped
           /\ \E i \in 1..Cardinality(Mapped) :
                 /\ Around[i] = map[Hash[k]]
                 /\ Around' = Moved(Around, i, Cardinality(Mapped))
<1>1. /\ Hash[k] \in Mapped /\ Point(ChangePointer(Ring, map[Hash[k]]))
      /\ map' = map /\ key' = key /\ value' = value
  BY DEF GetItem
<1>2. PICK i \in 1..Cardinality(Mapped) : Around[i] = map[Hash[k]]
  BY <1>1, MappedApart
<1> DEFINE d == Moved(Around, i, Cardinality(Mapped))
<1>3. /\ prev' \in Pointers /\ succ' \in Pointers
      /\ IsRing(prev', succ', d, Cardinality(Mapped))
      /\ Met(d, Cardinality(Mapped)) = MappedEntries
  BY <1>1, <1>2, PointMoves
<1>4. Mapped' = Mapped /\ MappedEntries' = MappedEntries
  BY <1>1 DEF Mapped, MappedEntries
<1> HIDE DEF d
<1>5. CacheTyped' BY <1>1, <1>3 DEF CacheInv, CacheTyped
<1>6. MapInv' BY <1>1, <1>4 DEF CacheInv, MapInv
<1>7. CacheInv' /\ Around' = d
  BY <1>3, <1>4, <1>5, <1>6, RingSufficesNext
<1> QED BY <1>2, <1>4, <1>7 DEF d

\* Setting a mapped key makes its entry the first.
LEMMA SetMoves ==
    ASSUME CacheInv, NEW k \in Keys, NEW v \in Values, SetItem(k, v),
           Hash[k] \in Mapped
    PROVE  /\ CacheInv' /\ Mapped' = Mapped
           /\ map' = map
           /\ key' = [key EXCEPT ![map[Hash[k]]] = k]
           /\ value' = [value EXCEPT ![map[Hash[k]]] = v]
           /\ \E i \in 1..Cardinality(Mapped) :
                 /\ Around[i] = map[Hash[k]]
                 /\ Around' = Moved(Around, i, Cardinality(Mapped))
<1> DEFINE h == Hash[k]
           e == map[h]
<1>1. /\ h \in Mapped /\ Point(ChangePointer(Ring, e))
      /\ map' = map
      /\ key' = [key EXCEPT ![e] = k]
      /\ value' = [value EXCEPT ![e] = v]
  BY DEF SetItem
<1>2. PICK i \in 1..Cardinality(Mapped) : Around[i] = e
  BY <1>1, MappedApart
<1> DEFINE d == Moved(Around, i, Cardinality(Mapped))
<1>3. /\ prev' \in Pointers /\ succ' \in Pointers
      /\ IsRing(prev', succ', d, Cardinality(Mapped))
      /\ Met(d, Cardinality(Mapped)) = MappedEntries
  BY <1>1, <1>2, PointMoves
<1>4. Mapped' = Mapped /\ MappedEntries' = MappedEntries
  BY <1>1 DEF Mapped, MappedEntries
<1>5. e \in Entries BY <1>1, MappedApart
<1> HIDE DEF d
<1>6. CacheTyped'
  <2>1. /\ map' \in [Hashes -> Places]
        /\ key' \in [Entries -> Keys \cup {"unset"}]
        /\ value' \in [Entries -> Values \cup {"unset"}]
    BY <1>1, <1>5 DEF CacheInv, CacheTyped
  <2> QED BY <1>3, <2>1 DEF CacheTyped
<1>7. ASSUME NEW g \in Mapped
      PROVE  key'[map[g]] \in Keys /\ Hash[key'[map[g]]] = g
  <2>1. CASE map[g] = e
    <3>1. g = h BY <2>1, <1>1, MappedApart
    <3> QED BY <1>1, <1>5, <2>1, <3>1 DEF CacheInv, CacheTyped
  <2>2. CASE map[g] # e
    <3>1. key'[map[g]] = key[map[g]]
      BY <1>1, <2>2, MappedApart DEF CacheInv, CacheTyped
    <3> QED BY <3>1 DEF CacheInv, MapInv
  <2> QED BY <2>1, <2>2
<1>8. MapInv' BY <1>1, <1>4, <1>7 DEF CacheInv, MapInv
<1>9. CacheInv' /\ Around' = d
  BY <1>3, <1>4, <1>6, <1>8, RingSufficesNext
<1> QED BY <1>1, <1>2, <1>4, <1>9 DEF d

\* A cache that is not full has an entry that is not in use.
LEMMA UnusedLeft ==
    ASSUME CacheInv, Cardinality(Mapped) < Capacity
    PROVE  Unused # {}
<1> DEFINE n == Cardinality(Mapped)
           f == [i \in 1..n |-> Around[i]]
<1>1. n \in Nat /\ n < Capacity /\ Capacity \in Nat
  BY MappedApart, LinkedLRUAssumption
<1>2. \A i \in 1..n : Around[i] \in MappedEntries
  BY MappedApart DEF MappedEntries
<1>3. \A e \in MappedEntries : \E i \in 1..n : Around[i] = e
  BY MappedApart DEF MappedEntries
<1> HIDE DEF n
<1>4. f \in Surjection(1..n, MappedEntries)
  BY <1>2, <1>3 DEF Surjection
<1>5. 1 \in Int /\ n \in Int /\ Capacity \in Int BY <1>1
<1>6. /\ IsFiniteSet(1..n) /\ Cardinality(1..n) = n
      /\ Cardinality(Entries) = Capacity
  BY <1>1, <1>5, FS_Interval, LinkedLRUAssumption DEF Entries
<1> HIDE DEF f
<1>7. Cardinality(MappedEntries) <= n /\ IsFiniteSet(MappedEntries)
  BY <1>4, <1>6, FS_Surjection
<1>8. Cardinality(MappedEntries) \in Nat BY <1>7, FS_CardinalityType
<1>9. MappedEntries # Entries BY <1>1, <1>6, <1>7, <1>8
<1>10. MappedEntries \subseteq Entries BY MappedApart DEF MappedEntries
<1> QED BY <1>9, <1>10 DEF Unused, MappedEntries

\* A new key in a full cache takes the entry of the oldest one.
LEMMA SetReplaces ==
    ASSUME CacheInv, NEW k \in Keys, NEW v \in Values, SetItem(k, v),
           Hash[k] \notin Mapped, Cardinality(Mapped) >= Capacity
    PROVE  LET n      == Cardinality(Mapped)
               oldest == Around[n]
               g      == Hash[key[oldest]]
           IN  /\ CacheInv'
               /\ n = Capacity /\ n \in 1..n
               /\ g \in Mapped /\ map[g] = oldest
               /\ Mapped' = (Mapped \ {g}) \cup {Hash[k]}
               /\ Cardinality(Mapped') = n
               /\ map' = [map EXCEPT ![g] = 0, ![Hash[k]] = oldest]
               /\ key' = [key EXCEPT ![oldest] = k]
               /\ value' = [value EXCEPT ![oldest] = v]
               /\ Around' = Moved(Around, n, n)
<1> DEFINE n      == Cardinality(Mapped)
           oldest == Around[n]
           g      == Hash[key[oldest]]
           h      == Hash[k]
           d      == Moved(Around, n, n)
<1>1. /\ n \in Nat /\ n = Capacity /\ n \in 1..n /\ Capacity >= 1
  BY MappedApart, LinkedLRUAssumption DEF CacheInv, MapInv
<1>2. prev[RingHead] = oldest
  <2>1. n \in 0..n BY <1>1
  <2>2. Around[n + 1] = RingHead /\ prev[Around[n + 1]] = Around[n]
    BY <2>1 DEF CacheInv, IsRing
  <2> QED BY <2>2
<1>3. PICK f \in Mapped : Around[n] = map[f] BY <1>1, MappedApart
<1>4. g = f /\ g \in Mapped /\ map[g] = oldest /\ oldest \in Entries
      /\ g \in Hashes /\ oldest # 0
  BY <1>3, MappedApart DEF CacheInv, MapInv
<1>5. /\ h \notin Mapped /\ h \in Hashes /\ h # g
      /\ map' = [map EXCEPT ![g] = 0, ![h] = oldest]
      /\ key' = [key EXCEPT ![oldest] = k]
      /\ value' = [value EXCEPT ![oldest] = v]
      /\ Point(ChangePointer(Ring, oldest))
  <2>1. h \in Hashes BY DEF Hashes
  <2> QED BY <1>1, <1>2, <1>4, <2>1 DEF SetItem
<1>6. /\ prev' \in Pointers /\ succ' \in Pointers
      /\ IsRing(prev', succ', d, n)
      /\ Met(d, n) = MappedEntries
  BY <1>1, <1>5, PointMoves
<1>7. /\ \A x \in Hashes : x # g /\ x # h => map'[x] = map[x]
      /\ map'[g] = 0 /\ map'[h] = oldest
      /\ map' \in [Hashes -> Places]
  <2>1. map \in [Hashes -> Places] BY DEF CacheInv, CacheTyped
  <2>2. 0 \in Places /\ oldest \in Places BY <1>4 DEF Places, RingHead
  <2> HIDE DEF oldest, g, h
  <2> QED BY <1>4, <1>5, <2>1, <2>2
<1> HIDE DEF oldest, g, h, d
<1>8. Mapped' = (Mapped \ {g}) \cup {h}
  BY <1>4, <1>5, <1>7 DEF Mapped
<1>9. /\ IsFiniteSet(Mapped') /\ Cardinality(Mapped') = n
  <2>1. IsFiniteSet(Mapped) BY DEF CacheInv, MapInv
  <2>2. IsFiniteSet(Mapped \ {g}) /\ Cardinality(Mapped \ {g}) = n - 1
    BY <2>1, <1>4, FS_RemoveElement
  <2>3. h \notin Mapped \ {g} BY <1>5
  <2>4. /\ IsFiniteSet((Mapped \ {g}) \cup {h})
        /\ Cardinality((Mapped \ {g}) \cup {h}) = (n - 1) + 1
    BY <2>2, <2>3, FS_AddElement
  <2> QED BY <1>1, <1>8, <2>4
<1>10. MappedEntries' = MappedEntries
  <2>1. MappedEntries' = {map'[x] : x \in Mapped'} BY DEF MappedEntries
  <2>2. ASSUME NEW x \in Mapped' PROVE \E y \in Mapped : map'[x] = map[y]
    <3>1. CASE x = h BY <3>1, <1>4, <1>7
    <3>2. CASE x # h BY <3>2, <1>7, <1>8, MappedApart
    <3> QED BY <3>1, <3>2
  <2>3. ASSUME NEW y \in Mapped PROVE \E x \in Mapped' : map'[x] = map[y]
    <3>1. CASE y = g BY <3>1, <1>4, <1>7, <1>8
    <3>2. CASE y # g BY <3>2, <1>5, <1>7, <1>8, MappedApart
    <3> QED BY <3>1, <3>2
  <2> QED BY <2>1, <2>2, <2>3 DEF MappedEntries
<1>11. CacheTyped'
  <2>1. /\ key' \in [Entries -> Keys \cup {"unset"}]
        /\ value' \in [Entries -> Values \cup {"unset"}]
    BY <1>4, <1>5 DEF CacheInv, CacheTyped
  <2> QED BY <1>6, <1>7, <2>1 DEF CacheTyped
<1>12. ASSUME NEW x \in Mapped'
       PROVE  key'[map'[x]] \in Keys /\ Hash[key'[map'[x]]] = x
  <2>0. key \in [Entries -> Keys \cup {"unset"}] BY DEF CacheInv, CacheTyped
  <2>1. CASE x = h
    <3>1. key'[map'[x]] = k BY <2>0, <2>1, <1>4, <1>5, <1>7
    <3> QED BY <2>1, <3>1 DEF h
  <2>2. CASE x # h
    <3>1. x \in Mapped /\ x # g BY <2>2, <1>8
    <3>2. map'[x] = map[x] /\ map[x] \in Entries BY <2>2, <3>1, <1>7, MappedApart
    <3>3. map[x] # oldest BY <3>1, <1>4, MappedApart
    <3>4. key'[map'[x]] = key[map[x]] BY <2>0, <3>2, <3>3, <1>5
    <3> QED BY <3>1, <3>4 DEF CacheInv, MapInv
  <2> QED BY <2>1, <2>2
<1>13. MapInv' BY <1>1, <1>9, <1>12 DEF MapInv
<1>14. CacheInv' /\ Around' = d
  BY <1>6, <1>9, <1>10, <1>11, <1>13, RingSufficesNext
<1> QED BY <1>1, <1>4, <1>5, <1>8, <1>9, <1>14 DEF oldest, g, h, d

\* A new key in a cache that is not full takes an entry that is not in use.
LEMMA SetAdds ==
    ASSUME CacheInv, NEW k \in Keys, NEW v \in Values, SetItem(k, v),
           Hash[k] \notin Mapped, Cardinality(Mapped) < Capacity
    PROVE  LET n == Cardinality(Mapped)
           IN  /\ CacheInv'
               /\ Mapped' = Mapped \cup {Hash[k]}
               /\ Cardinality(Mapped') = n + 1
               /\ \E entry \in Entries :
                     /\ entry \notin MappedEntries
                     /\ map' = [map EXCEPT ![Hash[k]] = entry]
                     /\ key' = [key EXCEPT ![entry] = k]
                     /\ value' = [value EXCEPT ![entry] = v]
                     /\ Around' = WithFirst(entry, Around, n)
<1> DEFINE n     == Cardinality(Mapped)
           h     == Hash[k]
           entry == CHOOSE e \in Unused : TRUE
           d     == WithFirst(entry, Around, n)
<1>1. n \in Nat /\ n < Capacity /\ Capacity \in Nat
  BY MappedApart, LinkedLRUAssumption
<1>2. entry \in Entries /\ entry \notin MappedEntries
  BY UnusedLeft DEF Unused, MappedEntries
<1>3. /\ h \notin Mapped /\ h \in Hashes
      /\ map' = [map EXCEPT ![h] = entry]
      /\ key' = [key EXCEPT ![entry] = k]
      /\ value' = [value EXCEPT ![entry] = v]
      /\ Point(LinkFirst(Ring, entry))
  <2>1. h \in Hashes BY DEF Hashes
  <2> QED BY <1>1, <2>1 DEF SetItem
<1> HIDE DEF entry
<1>4. /\ prev' \in Pointers /\ succ' \in Pointers
      /\ IsRing(prev', succ', d, n + 1)
      /\ Met(d, n + 1) = MappedEntries \cup {entry}
  <2> DEFINE c == Around
  <2>1. /\ prev \in Pointers /\ succ \in Pointers
        /\ IsRing(prev, succ, c, n)
        /\ Met(c, n) = MappedEntries
    BY DEF CacheInv, CacheTyped
  <2>2. /\ prev' = LinkFirst([prev |-> prev, succ |-> succ], entry).prev
        /\ succ' = LinkFirst([prev |-> prev, succ |-> succ], entry).succ
    BY <1>3 DEF Point, Ring
  <2>3. \A i \in 1..n : c[i] # entry
    BY <2>1, <1>2 DEF Met
  <2> HIDE DEF n, c
  <2>4. LET r == LinkFirst([prev |-> prev, succ |-> succ], entry)
        IN  /\ r.prev \in Pointers /\ r.succ \in Pointers
            /\ IsRing(r.prev, r.succ, WithFirst(entry, c, n), n + 1)
            /\ Met(WithFirst(entry, c, n), n + 1) = Met(c, n) \cup {entry}
    BY <1>1, <1>2, <2>1, <2>3, LinkFirstGrows
  <2> QED BY <2>1, <2>2, <2>4 DEF c, n
<1> HIDE DEF h, d
<1>5. /\ \A x \in Hashes : x # h => map'[x] = map[x]
      /\ map'[h] = entry /\ entry # 0
      /\ map' \in [Hashes -> Places]
  BY <1>2, <1>3, HeadIsNoEntry DEF CacheInv, CacheTyped, Places
<1>6. Mapped' = Mapped \cup {h}
  BY <1>3, <1>5 DEF Mapped
<1>7. IsFiniteSet(Mapped') /\ Cardinality(Mapped') = n + 1
  <2>1. IsFiniteSet(Mapped) BY DEF CacheInv, MapInv
  <2> QED BY <2>1, <1>3, <1>6, FS_AddElement
<1>8. MappedEntries' = MappedEntries \cup {entry}
  <2>1. MappedEntries' = {map'[x] : x \in Mapped'} BY DEF MappedEntries
  <2>2. \A x \in Mapped : map'[x] = map[x] BY <1>3, <1>5, MappedApart
  <2> QED BY <2>1, <2>2, <1>5, <1>6 DEF MappedEntries
<1>9. CacheTyped'
  <2>1. /\ key' \in [Entries -> Keys \cup {"unset"}]
        /\ value' \in [Entries -> Values \cup {"unset"}]
    BY <1>2, <1>3 DEF CacheInv, CacheTyped
  <2> QED BY <1>4, <1>5, <2>1 DEF CacheTyped
<1>10. ASSUME NEW x \in Mapped'
       PROVE  key'[map'[x]] \in Keys /\ Hash[key'[map'[x]]] = x
  <2>0. key \in [Entries -> Keys \cup {"unset"}] BY DEF CacheInv, CacheTyped
  <2>1. CASE x = h
    <3>1. key'[map'[x]] = k BY <2>0, <2>1, <1>2, <1>3, <1>5
    <3> QED BY <2>1, <3>1 DEF h
  <2>2. CASE x # h
    <3>1. x \in Mapped BY <2>2, <1>6
    <3>2. map'[x] = map[x] /\ map[x] \in Entries BY <2>2, <3>1, <1>5, MappedApart
    <3>3. map[x] # entry BY <3>1, <1>2 DEF MappedEntries
    <3>4. key'[map'[x]] = key[map[x]] BY <2>0, <3>2, <3>3, <1>3
    <3> QED BY <3>1, <3>4 DEF CacheInv, MapInv
  <2> QED BY <2>1, <2>2
<1>11. MapInv' BY <1>1, <1>7, <1>10 DEF MapInv
<1>12. CacheInv' /\ Around' = d
  BY <1>4, <1>7, <1>8, <1>9, <1>11, RingSufficesNext
<1> QED BY <1>2, <1>3, <1>6, <1>7, <1>12 DEF h, d

\* Deleting a key takes its entry out of the ring.
LEMMA DelRemoves ==
    ASSUME CacheInv, NEW k \in Keys, DelItem(k)
    PROVE  LET n == Cardinality(Mapped)
           IN  /\ CacheInv'
               /\ Hash[k] \in Mapped
               /\ Mapped' = Mapped \ {Hash[k]}
               /\ Cardinality(Mapped') = n - 1
               /\ map' = [map EXCEPT ![Hash[k]] = 0]
               /\ \A e \in Entries : e # map[Hash[k]] =>
                     key'[e] = key[e] /\ value'[e] = value[e]
               /\ \E i \in 1..n : /\ Around[i] = map[Hash[k]]
                                  /\ Around' = Without(Around, i, n)
<1> DEFINE n     == Cardinality(Mapped)
           h     == Hash[k]
           entry == map[h]
           r     == Unlink(Ring, entry)
<1>1. /\ h \in Mapped /\ h \in Hashes /\ entry \in Entries
      /\ map' = [map EXCEPT ![h] = 0]
      /\ Collect({entry}, r)
      /\ n \in Nat
  BY MappedApart DEF DelItem
<1>2. PICK i \in 1..n : Around[i] = entry BY <1>1, MappedApart
<1> DEFINE d == Without(Around, i, n)
<1>3. /\ r.prev \in Pointers /\ r.succ \in Pointers
      /\ IsRing(r.prev, r.succ, d, n - 1)
      /\ \A j \in 1..(n - 1) : d[j] # entry
      /\ Met(d, n - 1) = MappedEntries \ {entry}
  <2> DEFINE c == Around
             q == Unlink([prev |-> prev, succ |-> succ], c[i])
  <2>1. /\ prev \in Pointers /\ succ \in Pointers
        /\ IsRing(prev, succ, c, n)
        /\ Met(c, n) = MappedEntries
    BY DEF CacheInv, CacheTyped
  <2>2. r = q /\ c[i] = entry BY <1>2 DEF Ring
  <2> HIDE DEF n, c, r
  <2>3. /\ q.prev \in Pointers /\ q.succ \in Pointers
        /\ IsRing(q.prev, q.succ, Without(c, i, n), n - 1)
        /\ \A j \in 1..(n - 1) : Without(c, i, n)[j] # c[i]
        /\ Met(Without(c, i, n), n - 1) = Met(c, n) \ {c[i]}
    BY <1>1, <2>1, UnlinkShrinks
  <2> QED BY <2>1, <2>2, <2>3 DEF c
<1> HIDE DEF d, r
<1>4. /\ prev' \in Pointers /\ succ' \in Pointers
      /\ IsRing(prev', succ', d, n - 1)
  <2> DEFINE p2 == [e \in Places |-> IF e \in {entry} THEN RingHead ELSE r.prev[e]]
             s2 == [e \in Places |-> IF e \in {entry} THEN RingHead ELSE r.succ[e]]
  <2>1. DOMAIN prev = Places /\ DOMAIN succ = Places
    BY DEF CacheInv, CacheTyped, Pointers
  <2>2. prev' = p2 /\ succ' = s2 BY <1>1, <2>1 DEF Collect
  <2>3. n - 1 \in Nat /\ {entry} \in SUBSET Entries
        /\ \A j \in 1..(n - 1) : d[j] \notin {entry}
    BY <1>1, <1>2, <1>3
  <2> DEFINE D  == {entry}
             m  == n - 1
             p1 == r.prev
             s1 == r.succ
  <2>4. /\ D \in SUBSET Entries /\ m \in Nat
        /\ p1 \in Pointers /\ s1 \in Pointers
        /\ IsRing(p1, s1, d, m)
        /\ \A j \in 1..m : d[j] \notin D
    BY <1>3, <2>3
  <2>5. /\ prev' = [e \in Places |-> IF e \in D THEN RingHead ELSE p1[e]]
        /\ succ' = [e \in Places |-> IF e \in D THEN RingHead ELSE s1[e]]
    BY <2>2
  <2> HIDE DEF D, m, p1, s1, p2, s2
  <2>6. LET p == [e \in Places |-> IF e \in D THEN RingHead ELSE p1[e]]
            s == [e \in Places |-> IF e \in D THEN RingHead ELSE s1[e]]
        IN  p \in Pointers /\ s \in Pointers /\ IsRing(p, s, d, m)
    BY <2>4, CollectKeepsRing
  <2> QED BY <2>5, <2>6 DEF m
<1>5. /\ \A x \in Hashes : x # h => map'[x] = map[x]
      /\ map'[h] = 0
      /\ map' \in [Hashes -> Places]
  BY <1>1, HeadIsNoEntry DEF CacheInv, CacheTyped, Places
<1> HIDE DEF h, entry
<1>6. Mapped' = Mapped \ {h}
  BY <1>1, <1>5 DEF Mapped
<1>7. IsFiniteSet(Mapped') /\ Cardinality(Mapped') = n - 1
  <2>1. IsFiniteSet(Mapped) BY DEF CacheInv, MapInv
  <2> QED BY <2>1, <1>1, <1>6, FS_RemoveElement
<1>8. MappedEntries' = MappedEntries \ {entry}
  <2>1. MappedEntries' = {map'[x] : x \in Mapped'} BY DEF MappedEntries
  <2>2. \A x \in Mapped' : x \in Mapped /\ map'[x] = map[x] /\ map[x] # entry
    BY <1>1, <1>5, <1>6, MappedApart DEF entry
  <2>3. \A y \in Mapped : map[y] # entry => y \in Mapped' /\ map'[y] = map[y]
    BY <1>5, <1>6, MappedApart DEF entry
  <2> QED BY <2>1, <2>2, <2>3 DEF MappedEntries
<1>9. \A e \in Entries : e # entry => key'[e] = key[e] /\ value'[e] = value[e]
  BY <1>1 DEF Collect
<1>10. CacheTyped'
  <2>1. /\ key' \in [Entries -> Keys \cup {"unset"}]
        /\ value' \in [Entries -> Values \cup {"unset"}]
    BY <1>1 DEF Collect, CacheInv, CacheTyped
  <2> QED BY <1>4, <1>5, <2>1 DEF CacheTyped
<1>11. ASSUME NEW x \in Mapped'
       PROVE  key'[map'[x]] \in Keys /\ Hash[key'[map'[x]]] = x
  <2>1. x \in Mapped /\ map'[x] = map[x] /\ map[x] \in Entries /\ map[x] # entry
    BY <1>1, <1>5, <1>6, MappedApart DEF entry
  <2> QED BY <2>1, <1>9 DEF CacheInv, MapInv
<1>12. MapInv'
  <2>1. Cardinality(Mapped) <= Capacity /\ Capacity \in Nat
    BY LinkedLRUAssumption DEF CacheInv, MapInv
  <2> QED BY <2>1, <1>1, <1>7, <1>11 DEF MapInv
<1>13. CacheInv' /\ Around' = d
  BY <1>3, <1>4, <1>7, <1>8, <1>10, <1>12, RingSufficesNext
<1> QED BY <1>1, <1>2, <1>5, <1>6, <1>7, <1>9, <1>13 DEF h, entry, d

\* Nothing is left of a cache that is cleared.
LEMMA ClearEmpties ==
    ASSUME CacheInv, Clear
    PROVE  CacheInv' /\ Mapped' = {} /\ Cardinality(Mapped') = 0
<1>1. /\ map' = [h \in Hashes |-> 0]
      /\ key' = [e \in Entries |-> "unset"]
      /\ value' = [e \in Entries |-> "unset"]
  <2>1. /\ key' = [e \in Entries |-> IF e \in Entries THEN "unset" ELSE key[e]]
        /\ value' = [e \in Entries |-> IF e \in Entries THEN "unset" ELSE value[e]]
    BY DEF Clear, Collect
  <2> QED BY <2>1 DEF Clear
<1>2. \A e \in Places : prev'[e] = RingHead /\ succ'[e] = RingHead
  <2>1. prev \in Pointers /\ succ \in Pointers BY DEF CacheInv, CacheTyped
  <2>2. \A e \in Places : e \in Entries \/ e = RingHead BY DEF Places
  <2>3. [prev EXCEPT ![RingHead] = RingHead][RingHead] = RingHead
    BY <2>1 DEF Pointers, Places
  <2>4. [succ EXCEPT ![RingHead] = RingHead][RingHead] = RingHead
    BY <2>1 DEF Pointers, Places
  <2> QED BY <2>1, <2>2, <2>3, <2>4, HeadIsNoEntry DEF Clear, Collect, Pointers
<1>3. prev' \in Pointers /\ succ' \in Pointers
  <2>1. DOMAIN prev = Places /\ DOMAIN succ = Places
    BY DEF CacheInv, CacheTyped, Pointers
  <2>2. /\ prev' = [e \in Places |-> prev'[e]]
        /\ succ' = [e \in Places |-> succ'[e]]
    BY <2>1 DEF Clear, Collect
  <2>3. RingHead \in Places BY DEF Places
  <2> QED BY <2>2, <2>3, <1>2 DEF Pointers
<1>4. Mapped' = {} BY <1>1 DEF Mapped
<1>5. Cardinality(Mapped') = 0 /\ IsFiniteSet(Mapped') BY <1>4, FS_EmptySet
<1>6. CacheTyped' BY <1>1, <1>3 DEF CacheTyped, Places, RingHead
<1>7. MapInv' BY <1>4, <1>5, LinkedLRUAssumption DEF MapInv
<1> DEFINE c == [i \in 0..1 |-> RingHead]
<1>8. IsRing(prev', succ', c, 0)
  BY <1>2 DEF IsRing, Places
<1>9. Met(c, 0) = MappedEntries'
  BY <1>4 DEF Met, MappedEntries
<1> HIDE DEF c
<1>10. CacheInv' BY <1>5, <1>6, <1>7, <1>8, <1>9, RingSufficesNext
<1> QED BY <1>4, <1>5, <1>10

\* The ring and the map are kept together by every call of the cache of
\* src/summerrpc/helper/lru_cache.py.
THEOREM CacheInvariant == CacheSystem => []CacheInv
<1>1. CacheInit => CacheInv BY InitRing
<1>2. CacheInv /\ [CacheNext]_cacheVars => CacheInv'
  <2> SUFFICES ASSUME CacheInv, [CacheNext]_cacheVars PROVE CacheInv' OBVIOUS
  <2>1. ASSUME NEW k \in Keys, GetItem(k) PROVE CacheInv' BY <2>1, GetMoves
  <2>2. ASSUME NEW k \in Keys, DelItem(k) PROVE CacheInv' BY <2>2, DelRemoves
  <2>3. ASSUME NEW k \in Keys, NEW v \in Values, SetItem(k, v) PROVE CacheInv'
    <3>1. CASE Hash[k] \in Mapped BY <2>3, <3>1, SetMoves
    <3>2. CASE Hash[k] \notin Mapped /\ Cardinality(Mapped) >= Capacity
      BY <2>3, <3>2, SetReplaces
    <3>3. CASE Hash[k] \notin Mapped /\ Cardinality(Mapped) < Capacity
      BY <2>3, <3>3, SetAdds
    <3>4. Cardinality(Mapped) \in Nat /\ Capacity \in Nat
      BY MappedApart, LinkedLRUAssumption
    <3> QED BY <3>1, <3>2, <3>3, <3>4
  <2>4. ASSUME Clear PROVE CacheInv' BY <2>4, ClearEmpties
  <2>5. ASSUME UNCHANGED cacheVars PROVE CacheInv'
    <3>1. /\ CacheTyped' /\ MapInv'
          /\ Mapped' = Mapped /\ MappedEntries' = MappedEntries
      BY <2>5 DEF cacheVars, CacheInv, CacheTyped, MapInv, Mapped, MappedEntries
    <3> DEFINE c == Around
    <3>2. /\ IsRing(prev', succ', c, Cardinality(Mapped'))
          /\ Met(c, Cardinality(Mapped')) = MappedEntries'
      BY <2>5, <3>1 DEF cacheVars, CacheInv
    <3> HIDE DEF c
    <3> QED BY <3>1, <3>2, RingSufficesNext
  <2> QED BY <2>1, <2>2, <2>3, <2>4, <2>5 DEF CacheNext
<1> QED BY <1>1, <1>2, PTL DEF CacheSystem

\* The ring and the map hold the same entries, whatever the capacity, the
\* hashes and the calls made; collisions of hashes included.
THEOREM RingIsTheMap == CacheSystem => []RingMatchesMap
<1>1. CacheInv => RingMatchesMap
  <2> SUFFICES ASSUME CacheInv PROVE RingMatchesMap OBVIOUS
  <2> DEFINE n == Cardinality(Mapped)
             c == Around
  <2>1. /\ n \in Nat /\ IsRing(prev, succ, c, n) /\ Met(c, n) = MappedEntries
    BY MappedApart DEF CacheInv
  <2>2. Ranked = FirstOf(c, n) BY <2>1, RingOfState
  <2> HIDE DEF n, c
  <2>3. \A i \in 1..n : Ranked[i] = c[i] BY <2>2 DEF FirstOf
  <2>4. {Ranked[i] : i \in 1..n} = {map[h] : h \in Mapped}
    BY <2>1, <2>3 DEF Met, MappedEntries
  <2>5. IF n = 0 THEN succ[RingHead] = RingHead ELSE succ[Ranked[n]] = RingHead
    <3>1. n \in 0..n BY <2>1
    <3>2. succ[c[n]] = RingHead BY <3>1 , <2>1 DEF IsRing
    <3>3. CASE n = 0 BY <3>2, <3>3, <2>1 DEF IsRing
    <3>4. CASE n # 0
      <4>1. n \in 1..n BY <3>4, <2>1
      <4> QED BY <3>2, <3>4, <4>1, <2>3
    <3> QED BY <3>3, <3>4
  <2>6. ASSUME NEW e \in {RingHead} \cup {map[h] : h \in Mapped}
        PROVE  prev[succ[e]] = e
    <3>1. \E i \in 0..n : e = c[i]
      <4>1. CASE e = RingHead
        <5>1. 0 \in 0..n BY <2>1
        <5> QED BY <4>1, <5>1, <2>1 DEF IsRing
      <4>2. CASE e \in {map[h] : h \in Mapped}
        <5>1. e \in Met(c, n) BY <4>2, <2>1 DEF MappedEntries
        <5>2. PICK i \in 1..n : e = c[i] BY <5>1 DEF Met
        <5>3. i \in 0..n BY <2>1
        <5> QED BY <5>2, <5>3
      <4> QED BY <4>1, <4>2
    <3> QED BY <3>1, <2>1 DEF IsRing
  <2>7. \A h \in Mapped : Hash[key[map[h]]] = h BY DEF CacheInv, MapInv
  <2> QED BY <2>4, <2>5, <2>6, <2>7 DEF RingMatchesMap, n
<1> QED BY <1>1, CacheInvariant, PTL

-----------------------------------------------------------------------------
\* The linked cache is the cache of module CacheSpec.

\* hash() tells the keys apart.
HashesDiffer == \A k1, k2 \in Keys : Hash[k1] = Hash[k2] => k1 = k2

\* The order and the values of the cache a state stands for.
Order == [i \in 1..Cardinality(Mapped) |-> key[Ranked[i]]]

Stored == [k \in Keys |-> IF \E h \in Mapped : key[map[h]] = k
                          THEN value[map[Hash[k]]] ELSE "absent"]

\* The operators of the abstract cache are those of module LRUCache.
LEMMA CacheOperators ==
    ASSUME NEW s, NEW k, NEW max
    PROVE  /\ Cache!Hit(s, k) <=> Hit(s, k)
           /\ Cache!Del(s, k) = Del(s, k)
           /\ Cache!Touch(s, k) = Touch(s, k)
           /\ Cache!KicksOut(s, max) <=> KicksOut(s, max)
           /\ Cache!Oldest(s) = Oldest(s)
           /\ Cache!Set(s, k, max) = Set(s, k, max)
<1>1. Cache!Hit(s, k) <=> Hit(s, k)
  BY DEF Cache!Hit, Hit, Cache!ToSet, ToSet
<1>2. Cache!Del(s, k) = Del(s, k)
  BY DEF Cache!Del, Del, Cache!RemoveAt, RemoveAt, Cache!Position, Position
<1>3. Cache!Touch(s, k) = Touch(s, k)
  BY <1>2 DEF Cache!Touch, Touch, Cache!Cons, Cons
<1>4. Cache!KicksOut(s, max) <=> KicksOut(s, max)
  BY DEF Cache!KicksOut, KicksOut
<1>5. Cache!Oldest(s) = Oldest(s)
  BY DEF Cache!Oldest, Oldest, Cache!Last, Last
<1>6. Cache!Front(s) = Front(s) /\ Cache!Cons(k, s) = Cons(k, s)
      /\ Cache!Cons(k, Cache!Front(s)) = Cons(k, Front(s))
  BY DEF Cache!Front, Front, Cache!Cons, Cons
<1> QED BY <1>1, <1>2, <1>3, <1>4, <1>5, <1>6 DEF Cache!Set, Set

\* What the order and the values of a state are.
LEMMA OrderOfState ==
    CacheInv /\ HashesDiffer =>
        LET n == Cardinality(Mapped)
        IN  /\ Order = [i \in 1..n |-> key[Around[i]]]
            /\ Order \in Seq(Keys) /\ Len(Order) = n
            /\ \A i, j \in 1..n : Order[i] = Order[j] => i = j
            /\ \A k \in Keys : Hit(Order, k) <=> Hash[k] \in Mapped
            /\ \A k \in Keys : Hash[k] \in Mapped => key[map[Hash[k]]] = k
            /\ Stored = [k \in Keys |-> IF Hash[k] \in Mapped
                                        THEN value[map[Hash[k]]] ELSE "absent"]
<1> SUFFICES ASSUME CacheInv, HashesDiffer
             PROVE  LET n == Cardinality(Mapped)
                    IN  /\ Order = [i \in 1..n |-> key[Around[i]]]
                        /\ Order \in Seq(Keys) /\ Len(Order) = n
                        /\ \A i, j \in 1..n : Order[i] = Order[j] => i = j
                        /\ \A k \in Keys : Hit(Order, k) <=> Hash[k] \in Mapped
                        /\ \A k \in Keys : Hash[k] \in Mapped => key[map[Hash[k]]] = k
                        /\ Stored = [k \in Keys |-> IF Hash[k] \in Mapped
                                                    THEN value[map[Hash[k]]]
                                                    ELSE "absent"]
  OBVIOUS
<1> DEFINE n == Cardinality(Mapped)
<1>1. /\ n \in Nat
      /\ \A i \in 1..n : \E h \in Mapped : Around[i] = map[h]
      /\ \A h \in Mapped : \E i \in 1..n : Around[i] = map[h]
  BY MappedApart
<1>2. Ranked = FirstOf(Around, n) BY RingOfState, <1>1 DEF CacheInv
<1>3. Order = [i \in 1..n |-> key[Ranked[i]]] BY DEF Order
<1>4. \A h \in Mapped : key[map[h]] \in Keys /\ Hash[key[map[h]]] = h
  BY DEF CacheInv, MapInv
<1> HIDE DEF n
<1>5. Order = [i \in 1..n |-> key[Around[i]]]
  BY <1>2, <1>3 DEF FirstOf
<1>6. Order \in Seq(Keys) /\ Len(Order) = n
  <2>1. Order \in [1..n -> Keys] BY <1>1, <1>4, <1>5
  <2> QED BY <2>1, <1>1
<1>7. ASSUME NEW i \in 1..n, NEW j \in 1..n, Order[i] = Order[j] PROVE i = j
  <2>1. PICK g \in Mapped : Around[i] = map[g] BY <1>1
  <2>2. PICK h \in Mapped : Around[j] = map[h] BY <1>1
  <2>3. g = h BY <2>1, <2>2, <1>4, <1>5, <1>7
  <2>4. Around[i] = Around[j] BY <2>1, <2>2, <2>3
  <2> QED BY <2>4 DEF CacheInv, IsRing, n
<1>8. ASSUME NEW k \in Keys, Hash[k] \in Mapped PROVE key[map[Hash[k]]] = k
  BY <1>4, <1>8 DEF HashesDiffer
<1>9. ASSUME NEW k \in Keys PROVE Hit(Order, k) <=> Hash[k] \in Mapped
  <2>1. Hit(Order, k) <=> \E i \in 1..n : Order[i] = k
    BY <1>6 DEF Hit, ToSet
  <2>2. ASSUME NEW i \in 1..n, Order[i] = k PROVE Hash[k] \in Mapped
    BY <2>2, <1>1, <1>4, <1>5
  <2>3. ASSUME Hash[k] \in Mapped PROVE \E i \in 1..n : Order[i] = k
    BY <2>3, <1>1, <1>5, <1>8
  <2> QED BY <2>1, <2>2, <2>3
<1>10. Stored = [k \in Keys |-> IF Hash[k] \in Mapped
                                THEN value[map[Hash[k]]] ELSE "absent"]
  <2>1. ASSUME NEW k \in Keys
        PROVE  (\E h \in Mapped : key[map[h]] = k) <=> Hash[k] \in Mapped
    BY <1>4, <1>8
  <2> QED BY <2>1 DEF Stored
<1> QED BY <1>5, <1>6, <1>7, <1>8, <1>9, <1>10 DEF n

\* The same of the state after a step.
LEMMA OrderOfNextState ==
    (CacheInv /\ HashesDiffer =>
        LET n == Cardinality(Mapped)
        IN  /\ Order = [i \in 1..n |-> key[Around[i]]]
            /\ Order \in Seq(Keys) /\ Len(Order) = n
            /\ \A i, j \in 1..n : Order[i] = Order[j] => i = j
            /\ \A k \in Keys : Hit(Order, k) <=> Hash[k] \in Mapped
            /\ \A k \in Keys : Hash[k] \in Mapped => key[map[Hash[k]]] = k
            /\ Stored = [k \in Keys |-> IF Hash[k] \in Mapped
                                        THEN value[map[Hash[k]]] ELSE "absent"])'
BY OrderOfState, PTL

\* Deleting the i-th of different keys leaves the others in their order.
LEMMA DelOfPlace ==
    ASSUME NEW K, NEW s \in Seq(K), NEW i \in 1..Len(s),
           \A a, b \in 1..Len(s) : s[a] = s[b] => a = b
    PROVE  /\ Hit(s, s[i])
           /\ Del(s, s[i]) \in Seq(K)
           /\ Len(Del(s, s[i])) = Len(s) - 1
           /\ \A j \in 1..(Len(s) - 1) :
                 Del(s, s[i])[j] = IF j < i THEN s[j] ELSE s[j + 1]
<1> DEFINE k == s[i]
           d == Del(s, k)
           p == Position(s, k)
<1>1. Hit(s, k) BY DEF Hit, ToSet
<1>2. /\ p \in 1..Len(s) /\ s[p] = k
      /\ d \in Seq(K) /\ Len(d) = Len(s) - 1
      /\ \A j \in 1..(p - 1) : d[j] = s[j]
      /\ \A j \in p..(Len(s) - 1) : d[j] = s[j + 1]
  <2> HIDE DEF k
  <2> QED BY <1>1, DelElements
<1>3. p = i BY <1>2
<1> HIDE DEF d, p
<1>4. ASSUME NEW j \in 1..(Len(s) - 1)
      PROVE  d[j] = IF j < i THEN s[j] ELSE s[j + 1]
  <2>1. CASE j < i
    <3>1. j \in 1..(p - 1) BY <2>1, <1>3
    <3> QED BY <3>1, <2>1, <1>2
  <2>2. CASE j >= i
    <3>1. j \in p..(Len(s) - 1) BY <2>2, <1>3
    <3> QED BY <3>1, <2>2, <1>2
  <2> QED BY <2>1, <2>2
<1> QED BY <1>1, <1>2, <1>4 DEF d

\* Two sequences of one length with the same elements are the same.
LEMMA SameSequence ==
    ASSUME NEW K, NEW s \in Seq(K), NEW t \in Seq(K), Len(s) = Len(t),
           \A i \in 1..Len(s) : s[i] = t[i]
    PROVE  s = t
OBVIOUS

\* A ring whose i-th entry became the first is the touched order.
LEMMA MovedIsTouched ==
    ASSUME CacheInv, CacheInv', HashesDiffer,
           NEW i \in 1..Cardinality(Mapped),
           Around' = Moved(Around, i, Cardinality(Mapped)),
           Cardinality(Mapped') = Cardinality(Mapped),
           NEW k, key'[Around[i]] = k,
           \A j \in 1..Cardinality(Mapped) : j # i => key'[Around[j]] = key[Around[j]]
    PROVE  Order' = Cons(k, Del(Order, Order[i]))
<1> DEFINE n == Cardinality(Mapped)
           c == Around
           s == Order
           t == Order'
           d == Del(s, s[i])
           u == Cons(k, d)
<1>1. /\ n \in Nat
      /\ s = [j \in 1..n |-> key[c[j]]]
      /\ s \in Seq(Keys) /\ Len(s) = n
      /\ \A a, b \in 1..n : s[a] = s[b] => a = b
  BY MappedApart, OrderOfState
<1>2. /\ t = [j \in 1..n |-> key'[Around'[j]]]
      /\ t \in Seq(Keys) /\ Len(t) = n
  BY OrderOfNextState DEF HashesDiffer
<1>3. Around' = [j \in 0..(n + 1) |-> IF j = 0 THEN RingHead
                                      ELSE IF j = 1 THEN c[i] ELSE Without(c, i, n)[j - 1]]
  <2>1. (n - 1) + 2 = n + 1 BY <1>1
  <2> QED BY <2>1 DEF Moved, WithFirst
<1> HIDE DEF n, c, s, t
<1>4. i \in 1..n BY DEF n
<1>5. /\ d \in Seq(Keys) /\ Len(d) = n - 1
      /\ \A j \in 1..(n - 1) : d[j] = IF j < i THEN s[j] ELSE s[j + 1]
  <2>1. /\ s \in Seq(Keys) /\ i \in 1..Len(s)
        /\ \A a, b \in 1..Len(s) : s[a] = s[b] => a = b
    BY <1>1, <1>4
  <2>2. /\ d \in Seq(Keys) /\ Len(d) = Len(s) - 1
        /\ \A j \in 1..(Len(s) - 1) : d[j] = IF j < i THEN s[j] ELSE s[j + 1]
    BY <2>1, DelOfPlace
  <2> HIDE DEF d
  <2> QED BY <1>1, <2>2
<1>6. t[1] = k
  BY <1>1, <1>2, <1>3, <1>4 DEF c
<1>7. k \in Keys
  <2>1. t \in Seq(Keys) /\ 1 \in 1..Len(t) BY <1>1, <1>2, <1>4
  <2> QED BY <1>6, <2>1
<1> HIDE DEF d
<1>8. /\ u \in Seq(Keys) /\ Len(u) = n
      /\ u[1] = k
      /\ \A j \in 1..(n - 1) : u[j + 1] = d[j]
  BY <1>1, <1>4, <1>5, <1>7 DEF Cons
<1> HIDE DEF u
<1>9. ASSUME NEW j \in 1..n PROVE t[j] = u[j]
  <2>1. CASE j = 1 BY <2>1, <1>6, <1>8
  <2>2. CASE j # 1
    <3>1. j - 1 \in 1..(n - 1) /\ (j - 1) + 1 = j /\ j \in 0..(n + 1) /\ j - 1 \in 0..n
      BY <2>2, <1>1
    <3>2. Around'[j] = Without(c, i, n)[j - 1]
      BY <2>2, <3>1, <1>3
    <3>3. Without(c, i, n)[j - 1] = IF j - 1 < i THEN c[j - 1] ELSE c[j]
      BY <3>1 DEF Without
    <3>4. u[j] = IF j - 1 < i THEN s[j - 1] ELSE s[j]
      BY <3>1, <1>5, <1>8
    <3>5. CASE j - 1 < i
      <4>1. j - 1 \in 1..n /\ j - 1 # i BY <3>1, <3>5, <1>1
      <4>2. key'[c[j - 1]] = key[c[j - 1]] BY <4>1 DEF c, n
      <4> QED BY <4>1, <4>2, <3>2, <3>3, <3>4, <3>5, <1>1, <1>2
    <3>6. CASE ~(j - 1 < i)
      <4>1. j # i BY <3>1, <3>6
      <4>2. key'[c[j]] = key[c[j]] BY <4>1 DEF c, n
      <4> QED BY <4>1, <4>2, <3>2, <3>3, <3>4, <3>6, <1>1, <1>2
    <3> QED BY <3>5, <3>6
  <2> QED BY <2>1, <2>2
<1>10. t = u BY <1>2, <1>8, <1>9, SameSequence
<1> QED BY <1>10 DEF u, d, s, t

\* Reading a key is using it.
LEMMA GetIsUse ==
    ASSUME CacheInv, HashesDiffer, NEW k \in Keys, GetItem(k)
    PROVE  Hit(Order, k) /\ Order' = Touch(Order, k) /\ Stored' = Stored
<1>1. /\ CacheInv' /\ Mapped' = Mapped /\ Hash[k] \in Mapped
      /\ map' = map /\ key' = key /\ value' = value
  BY GetMoves DEF GetItem
<1>2. PICK i \in 1..Cardinality(Mapped) :
         /\ Around[i] = map[Hash[k]]
         /\ Around' = Moved(Around, i, Cardinality(Mapped))
  BY GetMoves
<1>3. Hit(Order, k) /\ key[Around[i]] = k /\ Order[i] = k
  <2>1. Order = [j \in 1..Cardinality(Mapped) |-> key[Around[j]]] BY OrderOfState
  <2>2. Hit(Order, k) /\ key[map[Hash[k]]] = k BY <1>1, OrderOfState
  <2> QED BY <2>1, <2>2, <1>2
<1>4. Order' = Cons(k, Del(Order, Order[i]))
  BY <1>1, <1>2, <1>3, MovedIsTouched
<1>5. Stored' = Stored BY <1>1 DEF Stored
<1> QED BY <1>3, <1>4, <1>5 DEF Touch

\* The values after v was stored for k.
ValuesStored(k, v) ==
    [x \in Keys |-> IF x = k THEN v
                    ELSE IF ~Hit(Order, k) /\ KicksOut(Order, Capacity) /\ x = Oldest(Order)
                    THEN "absent" ELSE Stored[x]]

\* Setting a key that is cached stores it.
LEMMA SetHitIsStore ==
    ASSUME CacheInv, HashesDiffer, NEW k \in Keys, NEW v \in Values, SetItem(k, v),
           Hash[k] \in Mapped
    PROVE  Order' = Set(Order, k, Capacity) /\ Stored' = ValuesStored(k, v)
<1> DEFINE e == map[Hash[k]]
<1>1. /\ CacheInv' /\ Mapped' = Mapped /\ map' = map
      /\ key' = [key EXCEPT ![e] = k]
      /\ value' = [value EXCEPT ![e] = v]
      /\ e \in Entries
  BY SetMoves, MappedApart
<1>2. PICK i \in 1..Cardinality(Mapped) :
         /\ Around[i] = e
         /\ Around' = Moved(Around, i, Cardinality(Mapped))
  BY SetMoves
<1>3. /\ key \in [Entries -> Keys \cup {"unset"}]
      /\ value \in [Entries -> Values \cup {"unset"}]
  BY DEF CacheInv, CacheTyped
<1>4. Hit(Order, k) /\ Order[i] = k
  <2>1. Order = [j \in 1..Cardinality(Mapped) |-> key[Around[j]]] BY OrderOfState
  <2>2. Hit(Order, k) /\ key[e] = k BY OrderOfState
  <2> QED BY <2>1, <2>2, <1>2
<1>5. ASSUME NEW j \in 1..Cardinality(Mapped), j # i
      PROVE  key'[Around[j]] = key[Around[j]]
  <2>1. Around[j] \in Entries /\ Around[j] # Around[i]
    BY <1>5 DEF CacheInv, IsRing
  <2> QED BY <2>1, <1>1, <1>2, <1>3
<1>6. key'[Around[i]] = k BY <1>1, <1>2, <1>3
<1>7. Order' = Cons(k, Del(Order, Order[i]))
  BY <1>1, <1>2, <1>5, <1>6, MovedIsTouched
<1>8. Order' = Set(Order, k, Capacity) BY <1>4, <1>7 DEF Set, Touch
<1>9. Stored = [x \in Keys |-> IF Hash[x] \in Mapped THEN value[map[Hash[x]]] ELSE "absent"]
  BY OrderOfState
<1>10. Stored' = [x \in Keys |-> IF Hash[x] \in Mapped THEN value'[map[Hash[x]]] ELSE "absent"]
  BY <1>1, OrderOfNextState DEF HashesDiffer
<1>11. ASSUME NEW x \in Keys
       PROVE  Stored'[x] = IF x = k THEN v ELSE Stored[x]
  <2>1. CASE x = k
    <3>1. value'[e] = v BY <1>1, <1>3
    <3> QED BY <3>1, <2>1, <1>10
  <2>2. CASE x # k /\ Hash[x] \in Mapped
    <3>1. map[Hash[x]] # e /\ map[Hash[x]] \in Entries
      BY <2>2, MappedApart DEF HashesDiffer
    <3>2. value'[map[Hash[x]]] = value[map[Hash[x]]] BY <3>1, <1>1, <1>3
    <3> QED BY <3>2, <2>2, <1>9, <1>10
  <2>3. CASE x # k /\ Hash[x] \notin Mapped
    BY <2>3, <1>9, <1>10
  <2> QED BY <2>1, <2>2, <2>3
<1>12. Stored' = [x \in Keys |-> Stored'[x]] BY <1>10
<1> HIDE DEF e
<1>13. Stored' = [x \in Keys |-> IF x = k THEN v ELSE Stored[x]] BY <1>11, <1>12
<1>14. Stored' = ValuesStored(k, v) BY <1>4, <1>13 DEF ValuesStored
<1> QED BY <1>8, <1>14

\* Setting a new key in a full cache kicks the oldest one out.
LEMMA SetFullIsStore ==
    ASSUME CacheInv, HashesDiffer, NEW k \in Keys, NEW v \in Values, SetItem(k, v),
           Hash[k] \notin Mapped, Cardinality(Mapped) >= Capacity
    PROVE  Order' = Set(Order, k, Capacity) /\ Stored' = ValuesStored(k, v)
<1> DEFINE n      == Cardinality(Mapped)
           oldest == Around[n]
           g      == Hash[key[oldest]]
           h      == Hash[k]
<1>1. /\ CacheInv' /\ n = Capacity /\ n \in 1..n /\ n \in Nat
      /\ g \in Mapped /\ map[g] = oldest /\ oldest \in Entries
      /\ Mapped' = (Mapped \ {g}) \cup {h}
      /\ Cardinality(Mapped') = n
      /\ map' = [map EXCEPT ![g] = 0, ![h] = oldest]
      /\ key' = [key EXCEPT ![oldest] = k]
      /\ value' = [value EXCEPT ![oldest] = v]
      /\ Around' = Moved(Around, n, n)
  BY SetReplaces, MappedApart
<1>2. /\ key \in [Entries -> Keys \cup {"unset"}]
      /\ value \in [Entries -> Values \cup {"unset"}]
      /\ map \in [Hashes -> Places]
      /\ g \in Hashes /\ h \in Hashes /\ g # h
  BY <1>1, MappedApart DEF CacheInv, CacheTyped, Hashes
<1>3. /\ Order = [j \in 1..n |-> key[Around[j]]]
      /\ Order \in Seq(Keys) /\ Len(Order) = n
      /\ \A a, b \in 1..n : Order[a] = Order[b] => a = b
      /\ ~Hit(Order, k)
  BY OrderOfState
<1>4. Order[n] = key[oldest] /\ Oldest(Order) = key[oldest] /\ KicksOut(Order, Capacity)
  BY <1>1, <1>3 DEF Oldest, Last, KicksOut
<1>5. ASSUME NEW j \in 1..n, j # n PROVE key'[Around[j]] = key[Around[j]]
  <2>1. Around[j] \in Entries /\ Around[j] # oldest
    BY <1>1, <1>5 DEF CacheInv, IsRing
  <2> QED BY <2>1, <1>1, <1>2
<1>6. key'[oldest] = k BY <1>1, <1>2
<1>7. Order' = Cons(k, Del(Order, Order[n]))
  BY <1>1, <1>5, <1>6, MovedIsTouched
<1>8. Del(Order, Order[n]) = Front(Order)
  <2> DEFINE s == Order
             d == Del(s, s[n])
             f == Front(s)
  <2>1. s \in Seq(Keys) /\ Len(s) = n /\ n \in 1..Len(s) BY <1>1, <1>3
  <2>2. \A a, b \in 1..Len(s) : s[a] = s[b] => a = b BY <1>3
  <2> HIDE DEF s, n
  <2>3. /\ d \in Seq(Keys) /\ Len(d) = Len(s) - 1
        /\ \A j \in 1..(Len(s) - 1) : d[j] = IF j < n THEN s[j] ELSE s[j + 1]
    BY <2>1, <2>2, DelOfPlace
  <2>4. /\ f \in Seq(Keys) /\ Len(f) = Len(s) - 1
        /\ \A j \in 1..(Len(s) - 1) : f[j] = s[j]
    BY <2>1 DEF Front
  <2> HIDE DEF d, f
  <2>5. \A j \in 1..Len(d) : d[j] = f[j] BY <2>1, <2>3, <2>4
  <2>6. d = f BY <2>3, <2>4, <2>5, SameSequence
  <2> QED BY <2>6 DEF d, f, s, n
<1>9. Order' = Set(Order, k, Capacity)
  BY <1>3, <1>4, <1>7, <1>8 DEF Set
<1>10. Stored = [x \in Keys |-> IF Hash[x] \in Mapped THEN value[map[Hash[x]]] ELSE "absent"]
  BY OrderOfState
<1>11. Stored' = [x \in Keys |-> IF Hash[x] \in Mapped' THEN value'[map'[Hash[x]]] ELSE "absent"]
  BY <1>1, OrderOfNextState DEF HashesDiffer
<1>12. /\ map'[h] = oldest
       /\ \A x \in Hashes : x # g /\ x # h => map'[x] = map[x]
  <2> HIDE DEF g, h, oldest
  <2> QED BY <1>1, <1>2
<1>13. key[oldest] \in Keys BY <1>1 DEF CacheInv, MapInv
<1>14. ASSUME NEW x \in Keys
       PROVE  Stored'[x] = IF x = k THEN v
                           ELSE IF x = key[oldest] THEN "absent" ELSE Stored[x]
  <2>1. CASE x = k
    <3>1. value'[oldest] = v BY <1>1, <1>2
    <3>2. h \in Mapped' BY <1>1
    <3> QED BY <3>1, <3>2, <2>1, <1>11, <1>12
  <2>2. CASE x # k /\ x = key[oldest]
    <3>1. Hash[x] = g /\ g \notin Mapped' BY <2>2, <1>1, <1>2
    <3> QED BY <3>1, <2>2, <1>11
  <2>3. CASE x # k /\ x # key[oldest]
    <3>1. Hash[x] # g /\ Hash[x] # h /\ Hash[x] \in Hashes
      BY <2>3, <1>13 DEF HashesDiffer, Hashes
    <3>2. Hash[x] \in Mapped' <=> Hash[x] \in Mapped BY <3>1, <1>1
    <3>3. map'[Hash[x]] = map[Hash[x]] BY <3>1, <1>12
    <3>4. ASSUME Hash[x] \in Mapped
          PROVE  value'[map[Hash[x]]] = value[map[Hash[x]]]
      <4>1. map[Hash[x]] # oldest /\ map[Hash[x]] \in Entries
        BY <3>1, <3>4, <1>1, MappedApart
      <4> QED BY <4>1, <1>1, <1>2
    <3> HIDE DEF oldest
    <3> QED BY <3>2, <3>3, <3>4, <2>3, <1>10, <1>11
  <2> QED BY <2>1, <2>2, <2>3
<1>15. Stored' = [x \in Keys |-> Stored'[x]] BY <1>11
<1>16. ValuesStored(k, v) = [x \in Keys |-> IF x = k THEN v
                               ELSE IF x = key[oldest] THEN "absent" ELSE Stored[x]]
  BY <1>3, <1>4 DEF ValuesStored
<1> HIDE DEF oldest
<1>17. Stored' = ValuesStored(k, v) BY <1>14, <1>15, <1>16
<1> QED BY <1>9, <1>17

\* Setting a new key in a cache that is not full adds it.
LEMMA SetNewIsStore ==
    ASSUME CacheInv, HashesDiffer, NEW k \in Keys, NEW v \in Values, SetItem(k, v),
           Hash[k] \notin Mapped, Cardinality(Mapped) < Capacity
    PROVE  Order' = Set(Order, k, Capacity) /\ Stored' = ValuesStored(k, v)
<1> DEFINE n == Cardinality(Mapped)
           h == Hash[k]
           c == Around
<1>1. /\ CacheInv' /\ n \in Nat
      /\ Mapped' = Mapped \cup {h} /\ Cardinality(Mapped') = n + 1
      /\ h \notin Mapped /\ h \in Hashes
  BY SetAdds, MappedApart DEF Hashes
<1>2. PICK entry \in Entries :
         /\ entry \notin MappedEntries
         /\ map' = [map EXCEPT ![h] = entry]
         /\ key' = [key EXCEPT ![entry] = k]
         /\ value' = [value EXCEPT ![entry] = v]
         /\ Around' = WithFirst(entry, c, n)
  BY SetAdds
<1>3. /\ key \in [Entries -> Keys \cup {"unset"}]
      /\ value \in [Entries -> Values \cup {"unset"}]
      /\ map \in [Hashes -> Places]
  BY DEF CacheInv, CacheTyped
<1>4. /\ Order = [j \in 1..n |-> key[c[j]]]
      /\ Order \in Seq(Keys) /\ Len(Order) = n
      /\ ~Hit(Order, k) /\ ~KicksOut(Order, Capacity)
  <2>1. /\ Order = [j \in 1..n |-> key[c[j]]]
        /\ Order \in Seq(Keys) /\ Len(Order) = n
        /\ ~Hit(Order, k)
    BY OrderOfState
  <2> QED BY <2>1, <1>1, LinkedLRUAssumption DEF KicksOut
<1>5. /\ Order' = [j \in 1..(n + 1) |-> key'[Around'[j]]]
      /\ Order' \in Seq(Keys) /\ Len(Order') = n + 1
  BY <1>1, OrderOfNextState DEF HashesDiffer
<1>6. ASSUME NEW j \in 1..n PROVE c[j] \in Entries /\ key'[c[j]] = key[c[j]]
  <2>1. c[j] \in MappedEntries BY MappedApart DEF MappedEntries
  <2>2. c[j] \in Entries /\ c[j] # entry BY <2>1, <1>2 DEF CacheInv, IsRing
  <2> QED BY <2>2, <1>2, <1>3
<1>7. Order' = Cons(k, Order)
  <2> DEFINE s == Order
             t == Order'
             u == Cons(k, s)
  <2>1. /\ s = [j \in 1..n |-> key[c[j]]] /\ s \in Seq(Keys) /\ Len(s) = n BY <1>4
  <2>2. /\ t = [j \in 1..(n + 1) |-> key'[Around'[j]]]
        /\ t \in Seq(Keys) /\ Len(t) = n + 1
    BY <1>5
  <2> HIDE DEF s, t, n, c
  <2>3. /\ u \in Seq(Keys) /\ Len(u) = n + 1 /\ u[1] = k
        /\ \A j \in 1..n : u[j + 1] = s[j]
    BY <1>1, <2>1 DEF Cons
  <2> HIDE DEF u
  <2>4. ASSUME NEW j \in 1..(n + 1) PROVE t[j] = u[j]
    <3>1. CASE j = 1
      <4>1. Around'[1] = entry BY <1>1, <1>2 DEF WithFirst
      <4>2. key'[entry] = k BY <1>2, <1>3
      <4> QED BY <3>1, <4>1, <4>2, <2>2, <2>3
    <3>2. CASE j # 1
      <4>1. j - 1 \in 1..n /\ (j - 1) + 1 = j BY <3>2, <1>1
      <4>2. Around'[j] = c[j - 1] BY <3>2, <1>1, <1>2 DEF WithFirst
      <4>3. key'[c[j - 1]] = key[c[j - 1]] BY <4>1, <1>6
      <4>4. t[j] = key[c[j - 1]] BY <4>2, <4>3, <2>2
      <4>5. u[j] = s[j - 1] BY <4>1, <2>3
      <4> QED BY <4>1, <4>4, <4>5, <2>1
    <3> QED BY <3>1, <3>2
  <2>5. t = u BY <2>2, <2>3, <2>4, SameSequence
  <2> QED BY <2>5 DEF s, t, u
<1>8. Order' = Set(Order, k, Capacity) BY <1>4, <1>7 DEF Set
<1>9. Stored = [x \in Keys |-> IF Hash[x] \in Mapped THEN value[map[Hash[x]]] ELSE "absent"]
  BY OrderOfState
<1>10. Stored' = [x \in Keys |-> IF Hash[x] \in Mapped' THEN value'[map'[Hash[x]]] ELSE "absent"]
  BY <1>1, OrderOfNextState DEF HashesDiffer
<1>11. /\ map'[h] = entry
       /\ \A x \in Hashes : x # h => map'[x] = map[x]
  <2> HIDE DEF h
  <2> QED BY <1>1, <1>2, <1>3
<1>12. ASSUME NEW x \in Keys PROVE Stored'[x] = IF x = k THEN v ELSE Stored[x]
  <2>1. CASE x = k
    <3>1. value'[entry] = v BY <1>2, <1>3
    <3>2. h \in Mapped' BY <1>1
    <3> QED BY <3>1, <3>2, <2>1, <1>10, <1>11
  <2>2. CASE x # k
    <3>1. Hash[x] # h /\ Hash[x] \in Hashes BY <2>2 DEF HashesDiffer, Hashes
    <3>2. Hash[x] \in Mapped' <=> Hash[x] \in Mapped BY <3>1, <1>1
    <3>3. map'[Hash[x]] = map[Hash[x]] BY <3>1, <1>11
    <3>4. ASSUME Hash[x] \in Mapped
          PROVE  value'[map[Hash[x]]] = value[map[Hash[x]]]
      <4>1. map[Hash[x]] # entry /\ map[Hash[x]] \in Entries
        BY <3>4, <1>2, MappedApart DEF MappedEntries
      <4> QED BY <4>1, <1>2, <1>3
    <3> QED BY <3>2, <3>3, <3>4, <2>2, <1>9, <1>10
  <2> QED BY <2>1, <2>2
<1>13. Stored' = [x \in Keys |-> Stored'[x]] BY <1>10
<1>14. ValuesStored(k, v) = [x \in Keys |-> IF x = k THEN v ELSE Stored[x]]
  BY <1>4 DEF ValuesStored
<1>15. Stored' = ValuesStored(k, v) BY <1>12, <1>13, <1>14
<1> QED BY <1>8, <1>15

\* Deleting a key forgets it.
LEMMA DelIsForget ==
    ASSUME CacheInv, HashesDiffer, NEW k \in Keys, DelItem(k)
    PROVE  /\ Hit(Order, k) /\ Order' = Del(Order, k)
           /\ Stored' = [Stored EXCEPT ![k] = "absent"]
<1> DEFINE n == Cardinality(Mapped)
           h == Hash[k]
           c == Around
<1>1. /\ CacheInv' /\ n \in Nat /\ h \in Mapped
      /\ Mapped' = Mapped \ {h} /\ Cardinality(Mapped') = n - 1
      /\ map' = [map EXCEPT ![h] = 0]
      /\ \A e \in Entries : e # map[h] => key'[e] = key[e] /\ value'[e] = value[e]
  BY DelRemoves, MappedApart
<1>2. PICK i \in 1..n : c[i] = map[h] /\ Around' = Without(c, i, n)
  BY DelRemoves
<1>3. /\ Order = [j \in 1..n |-> key[c[j]]]
      /\ Order \in Seq(Keys) /\ Len(Order) = n
      /\ \A a, b \in 1..n : Order[a] = Order[b] => a = b
      /\ Hit(Order, k) /\ key[map[h]] = k
  BY <1>1, OrderOfState
<1>4. /\ Order' = [j \in 1..(n - 1) |-> key'[Around'[j]]]
      /\ Order' \in Seq(Keys) /\ Len(Order') = n - 1
  BY <1>1, OrderOfNextState DEF HashesDiffer
<1>5. ASSUME NEW j \in 1..n, j # i PROVE key'[c[j]] = key[c[j]]
  <2>1. c[j] \in Entries /\ c[j] # c[i] BY <1>5 DEF CacheInv, IsRing
  <2> QED BY <2>1, <1>1, <1>2
<1>6. Order[i] = k BY <1>2, <1>3
<1>7. Order' = Del(Order, k)
  <2> DEFINE s == Order
             t == Order'
             d == Del(s, s[i])
  <2>0. s = [j \in 1..n |-> key[c[j]]] /\ Len(s) = n BY <1>3
  <2>1. s \in Seq(Keys) /\ i \in 1..Len(s) BY <1>3
  <2>2. \A a, b \in 1..Len(s) : s[a] = s[b] => a = b BY <1>3
  <2>3. /\ t = [j \in 1..(n - 1) |-> key'[Around'[j]]]
        /\ t \in Seq(Keys) /\ Len(t) = n - 1
    BY <1>4
  <2> HIDE DEF s, t, n, c
  <2>4. /\ d \in Seq(Keys) /\ Len(d) = Len(s) - 1
        /\ \A j \in 1..(Len(s) - 1) : d[j] = IF j < i THEN s[j] ELSE s[j + 1]
    BY <2>1, <2>2, DelOfPlace
  <2> HIDE DEF d
  <2>5. ASSUME NEW j \in 1..(n - 1) PROVE t[j] = d[j]
    <3>1. Around'[j] = IF j < i THEN c[j] ELSE c[j + 1]
      BY <1>1, <1>2 DEF Without
    <3>2. t[j] = key'[Around'[j]] BY <2>3
    <3>3. CASE j < i
      <4>1. j \in 1..n /\ j # i BY <3>3, <1>1
      <4>2. key'[c[j]] = key[c[j]] BY <4>1, <1>5
      <4>3. s[j] = key[c[j]] BY <4>1, <2>0
      <4>4. d[j] = s[j] BY <3>3, <2>0, <2>4
      <4> QED BY <3>1, <3>2, <3>3, <4>2, <4>3, <4>4
    <3>4. CASE ~(j < i)
      <4>1. j + 1 \in 1..n /\ j + 1 # i BY <3>4, <1>1
      <4>2. key'[c[j + 1]] = key[c[j + 1]] BY <4>1, <1>5
      <4>3. s[j + 1] = key[c[j + 1]] BY <4>1, <2>0
      <4>4. d[j] = s[j + 1] BY <3>4, <2>0, <2>4
      <4> QED BY <3>1, <3>2, <3>4, <4>2, <4>3, <4>4
    <3> QED BY <3>3, <3>4
  <2>6. /\ d \in Seq(Keys) /\ t \in Seq(Keys) /\ Len(t) = Len(d)
        /\ \A j \in 1..Len(t) : t[j] = d[j]
    BY <2>0, <2>3, <2>4, <2>5
  <2>7. t = d BY <2>6, SameSequence
  <2> QED BY <2>7, <1>6 DEF s, t, d
<1>8. Stored = [x \in Keys |-> IF Hash[x] \in Mapped THEN value[map[Hash[x]]] ELSE "absent"]
  BY OrderOfState
<1>9. Stored' = [x \in Keys |-> IF Hash[x] \in Mapped' THEN value'[map'[Hash[x]]] ELSE "absent"]
  BY <1>1, OrderOfNextState DEF HashesDiffer
<1>10. \A x \in Hashes : x # h => map'[x] = map[x]
  <2>1. map \in [Hashes -> Places] BY DEF CacheInv, CacheTyped
  <2> HIDE DEF h
  <2> QED BY <1>1, <2>1
<1>11. ASSUME NEW x \in Keys PROVE Stored'[x] = IF x = k THEN "absent" ELSE Stored[x]
  <2>1. CASE x = k BY <2>1, <1>1, <1>9
  <2>2. CASE x # k
    <3>1. Hash[x] # h /\ Hash[x] \in Hashes BY <2>2 DEF HashesDiffer, Hashes
    <3>2. Hash[x] \in Mapped' <=> Hash[x] \in Mapped BY <3>1, <1>1
    <3>3. map'[Hash[x]] = map[Hash[x]] BY <3>1, <1>10
    <3>4. ASSUME Hash[x] \in Mapped
          PROVE  value'[map[Hash[x]]] = value[map[Hash[x]]]
      <4>1. map[Hash[x]] # map[h] /\ map[Hash[x]] \in Entries
        BY <3>1, <3>4, <1>1, MappedApart
      <4> QED BY <4>1, <1>1
    <3> QED BY <3>2, <3>3, <3>4, <2>2, <1>8, <1>9
  <2> QED BY <2>1, <2>2
<1>12. Stored' = [x \in Keys |-> Stored'[x]] BY <1>9
<1>13. DOMAIN Stored = Keys BY <1>8
<1> HIDE DEF n, h, c
<1>14. Stored' = [Stored EXCEPT ![k] = "absent"] BY <1>11, <1>12, <1>13
<1> QED BY <1>3, <1>7, <1>14

\* Clearing a cache empties it.
LEMMA ClearIsEmpty ==
    ASSUME CacheInv, HashesDiffer, Clear
    PROVE  Order' = <<>> /\ Stored' = [k \in Keys |-> "absent"]
<1>1. CacheInv' /\ Mapped' = {} /\ Cardinality(Mapped') = 0 BY ClearEmpties
<1>2. Order' \in Seq(Keys) /\ Len(Order') = 0
  BY <1>1, OrderOfNextState DEF HashesDiffer
<1>3. Stored' = [k \in Keys |-> IF Hash[k] \in Mapped'
                                THEN value'[map'[Hash[k]]] ELSE "absent"]
  BY <1>1, OrderOfNextState DEF HashesDiffer
<1> QED BY <1>1, <1>2, <1>3

\* As long as hash() tells the keys apart, the linked cache implements the
\* cache of module CacheSpec: it keeps what was stored, and gives up the key
\* that was used least recently when it is full, and no other.
THEOREM CacheIsLeastRecent ==
    ASSUME HashesDiffer
    PROVE  CacheSystem => ImplementsCache
<1>1. CacheInit => Cache!Init
  <2> SUFFICES ASSUME CacheInit PROVE Cache!Init OBVIOUS
  <2>1. Mapped = {} /\ Cardinality(Mapped) = 0
    BY FS_EmptySet DEF CacheInit, Mapped
  <2>2. Order = <<>> BY <2>1 DEF Order
  <2>3. Stored = [k \in Keys |-> "absent"] BY <2>1 DEF Stored
  <2> QED BY <2>2, <2>3 DEF Cache!Init, Order, Stored
<1>2. CacheInv /\ [CacheNext]_cacheVars => [Cache!Next]_(Cache!vars)
  <2> SUFFICES ASSUME CacheInv, [CacheNext]_cacheVars
               PROVE  [Cache!Next]_(Cache!vars)
    OBVIOUS
  <2>1. ASSUME NEW k \in Keys, GetItem(k) PROVE Cache!Use(k)
    <3>1. Hit(Order, k) /\ Order' = Touch(Order, k) /\ Stored' = Stored
      BY <2>1, GetIsUse
    <3>2. Cache!Hit(Order, k) /\ Order' = Cache!Touch(Order, k) /\ Stored' = Stored
      BY <3>1, CacheOperators
    <3> QED BY <3>2 DEF Cache!Use, Order, Stored
  <2>2. ASSUME NEW k \in Keys, DelItem(k) PROVE Cache!Forget(k)
    <3>1. /\ Hit(Order, k) /\ Order' = Del(Order, k)
          /\ Stored' = [Stored EXCEPT ![k] = "absent"]
      BY <2>2, DelIsForget
    <3>2. /\ Cache!Hit(Order, k) /\ Order' = Cache!Del(Order, k)
          /\ Stored' = [Stored EXCEPT ![k] = "absent"]
      BY <3>1, CacheOperators
    <3> QED BY <3>2 DEF Cache!Forget, Order, Stored
  <2>3. ASSUME NEW k \in Keys, NEW v \in Values, SetItem(k, v)
        PROVE  Cache!Store(k, v)
    <3>1. Cardinality(Mapped) \in Nat /\ Capacity \in Nat
      BY MappedApart, LinkedLRUAssumption
    <3>2. Order' = Set(Order, k, Capacity) /\ Stored' = ValuesStored(k, v)
      <4>1. CASE Hash[k] \in Mapped BY <2>3, <4>1, SetHitIsStore
      <4>2. CASE Hash[k] \notin Mapped /\ Cardinality(Mapped) >= Capacity
        BY <2>3, <4>2, SetFullIsStore
      <4>3. CASE Hash[k] \notin Mapped /\ Cardinality(Mapped) < Capacity
        BY <2>3, <4>3, SetNewIsStore
      <4> QED BY <3>1, <4>1, <4>2, <4>3
    <3>3. /\ Order' = Cache!Set(Order, k, Capacity)
          /\ Stored' = [x \in Keys |->
                          IF x = k THEN v
                          ELSE IF ~Cache!Hit(Order, k) /\ Cache!KicksOut(Order, Capacity)
                                  /\ x = Cache!Oldest(Order)
                          THEN "absent" ELSE Stored[x]]
      BY <3>2, CacheOperators DEF ValuesStored
    <3> QED BY <3>3 DEF Cache!Store, Order, Stored
  <2>4. ASSUME Clear PROVE Cache!Empty
    BY <2>4, ClearIsEmpty DEF Cache!Empty, Order, Stored
  <2>5. ASSUME UNCHANGED cacheVars PROVE UNCHANGED Cache!vars
    <3>1. Mapped' = Mapped /\ Ranked' = Ranked BY <2>5 DEF cacheVars, Mapped, Ranked
    <3>2. Order' = Order /\ Stored' = Stored
      BY <2>5, <3>1 DEF cacheVars, Order, Stored
    <3> QED BY <3>2 DEF Cache!vars, Order, Stored
  <2> QED BY <2>1, <2>2, <2>3, <2>4, <2>5 DEF CacheNext, Cache!Next
<1> QED BY <1>1, <1>2, CacheInvariant, PTL
        DEF CacheSystem, ImplementsCache, Cache!Spec

-----------------------------------------------------------------------------
\* The rates of the token buckets.

\* What a quotient, rounded down, is.
LEMMA Quotient ==
    ASSUME NEW a \in Int, NEW b \in Nat \ {0}
    PROVE  /\ a \div b \in Int
           /\ b * (a \div b) <= a /\ a < b * (a \div b) + b
OBVIOUS

\* A product grows with its factors.
LEMMA ProductGrows ==
    ASSUME NEW a \in Int, NEW b \in Int, NEW c \in Nat, a <= b
    PROVE  a * c <= b * c /\ a * c \in Int /\ b * c \in Int
OBVIOUS

\* A product is distributed over a sum and a difference.
LEMMA ProductOfSum ==
    ASSUME NEW a \in Int, NEW b \in Int, NEW c \in Int
    PROVE  /\ (a + b) * c = a * c + b * c
           /\ (a - b) * c = a * c - b * c
           /\ a * c \in Int /\ b * c \in Int
OBVIOUS

\* A quotient of naturals is not negative.
LEMMA QuotientIsNat ==
    ASSUME NEW a \in Nat, NEW b \in Nat \ {0}
    PROVE  /\ a \div b \in Nat
           /\ (a \div b) * b <= a /\ a < (a \div b) * b + b
           /\ (a \div b) * b \in Nat
<1> DEFINE q == a \div b
<1>1. q \in Int /\ b * q <= a /\ a < b * q + b
  <2>1. a \in Int OBVIOUS
  <2> QED BY ONLY <2>1, b \in Nat \ {0}, Quotient
<1> HIDE DEF q
<1>2. b * q = q * b /\ q * b \in Int BY <1>1
<1>3. q >= 0
  <2> SUFFICES ASSUME q <= -1 PROVE FALSE BY <1>1
  <2>1. q * b <= (-1) * b BY <1>1, ProductGrows
  <2> QED BY <2>1, <1>1, <1>2
<1>4. 0 * b <= q * b BY <1>1, <1>3, ProductGrows
<1> QED BY <1>1, <1>2, <1>3, <1>4 DEF q

\* The parameters of a bucket.
LEMMA Parameters ==
    ASSUME rate \in Rates
    PROVE  /\ BucketCapacity \in Nat \ {0} /\ Epoch \in Nat
           /\ MaxBack \in Nat /\ MaxBack < Epoch
           /\ Tokens \in Nat \ {0} /\ Period \in Nat \ {0}
           /\ Rounding \in Nat
BY TokenBucketAssumption DEF Tokens, Period, Rounding

\* The rate of a bucket stays, and what is computed from it.
LEMMA RateStays ==
    ASSUME rate' = rate
    PROVE  /\ Tokens' = Tokens /\ Period' = Period /\ Rounding' = Rounding
           /\ FullTokens' = FullTokens /\ Ttl' = Ttl
BY DEF Tokens, Period, Rounding, FullTokens, Ttl

\* Keys that expire have been left alone for the time a full bucket takes.
LEMMA TtlFills ==
    ASSUME rate \in Rates
    PROVE  Ttl \in Int /\ (Ttl > 0 => FullTokens <= Ttl * Tokens)
<1>0. /\ BucketCapacity \in Nat \ {0} /\ Epoch \in Nat
      /\ MaxBack \in Nat /\ MaxBack < Epoch
      /\ Tokens \in Nat \ {0} /\ Period \in Nat \ {0} /\ Rounding \in Nat
  BY Parameters
<1> USE <1>0
<1> DEFINE f == BucketCapacity * Period
           t == Ttl
<1>1. f \in Nat /\ Tokens \in Nat \ {0} OBVIOUS
<1>2. t = (2 * f) \div Tokens
  <2>1. 2 * BucketCapacity * Period = 2 * f OBVIOUS
  <2> QED BY <2>1 DEF Ttl
<1>3. t \in Int /\ 2 * f < Tokens * t + Tokens
  <2> HIDE DEF f, t
  <2>1. 2 * f \in Int BY <1>1
  <2> QED BY <1>1, <1>2, <2>1, Quotient
<1> HIDE DEF t
<1>4. ASSUME t > 0 PROVE f <= t * Tokens
  <2> HIDE DEF f
  <2>1. t * Tokens = Tokens * t /\ t * Tokens \in Int BY <1>1, <1>3
  <2>2. 1 * Tokens <= t * Tokens BY <1>1, <1>3, <1>4, ProductGrows
  <2> QED BY <1>1, <1>3, <2>1, <2>2
<1> QED BY <1>3, <1>4 DEF FullTokens, f, t

-----------------------------------------------------------------------------
\* The specification of a token bucket by itself.
BucketSpec == BucketInit /\ [][BucketNext]_bucketVars

Answers == {"granted", "refused one", "refused"}

Windows == [from : Answers \cup {"none"}, start : Nat, end : Nat, setBack : Nat,
            granted : Nat, refills : Nat, overflow : BOOLEAN, last : Answers \cup {"none"}]

BucketTyped ==
    /\ limiter \in {"local", "redis"} /\ rate \in Rates
    /\ elapsed \in Nat /\ setBack \in Nat
    /\ lastRefresh \in Int /\ consumed \in 0..BucketCapacity
    /\ keys \in [tokens : Nat, timestamp : Int, expire : Int]
    /\ keys.tokens <= FullTokens
    /\ window \in Windows

\* The clock reads what has passed and was not taken back.
ClockInv ==
    /\ now = Epoch + elapsed - setBack
    /\ setBack <= MaxBack

Unspent == (BucketCapacity - consumed) * Period

\* What was granted in the window and can still be is bounded by what the time
\* of the window makes, from above with what the refills round, and from below
\* if nothing overflowed.
LocalInv ==
    limiter = "local" /\ window.from # "none" =>
        /\ window.granted * Period + Unspent + Upper(0, now - lastRefresh) * Tokens
             <= BucketCapacity * Period + Period - 1 + (elapsed - window.start) * Tokens
                  + window.refills * Rounding
        /\ ~window.overflow /\ setBack = window.setBack =>
             /\ lastRefresh <= now
             /\ window.granted * Period + Unspent + (now - lastRefresh) * Tokens
                  >= (elapsed - window.start) * Tokens

\* When the keys in redis were set last.
SetAt == keys.expire - Ttl

\* The same at the time of the last call.
RedisInv ==
    limiter = "redis" /\ window.from # "none" =>
        /\ Ttl > 0 /\ window.start <= SetAt /\ SetAt <= elapsed
        /\ now - keys.timestamp <= elapsed - SetAt
        /\ window.granted * Period + keys.tokens
             <= FullTokens + Period - 1 + (SetAt - window.start) * Tokens
        /\ ~window.overflow /\ setBack = window.setBack =>
             /\ now - keys.timestamp = elapsed - SetAt
             /\ window.granted * Period + keys.tokens
                  >= (SetAt - window.start) * Tokens

\* The window is in the past, and keeps the properties between the calls.
WindowInv ==
    window.from # "none" =>
        /\ window.start <= elapsed /\ window.end <= elapsed
        /\ window.setBack <= setBack
        /\ window.last # "none" => window.start <= window.end
        /\ GrantedWithinRate /\ RefusedWhenSpent

\* The inductive invariant of the token buckets.
BucketInv ==
    /\ BucketTyped /\ ClockInv
    /\ LocalInv /\ RedisInv /\ WindowInv

\* At the beginning there is no window.
LEMMA InitBucket == BucketInit => BucketInv
<1> SUFFICES ASSUME BucketInit PROVE BucketInv OBVIOUS
<1>1. rate \in Rates BY DEF BucketInit
<1>2. FullTokens \in Nat BY <1>1, Parameters DEF FullTokens
<1>3. window.from = "none" BY DEF BucketInit, NoWindow
<1>4. BucketTyped
  BY <1>1, <1>2, Parameters DEF BucketInit, BucketTyped, NoWindow, Answers, Windows
<1>5. ClockInv BY <1>1, Parameters DEF BucketInit, ClockInv
<1> QED BY <1>3, <1>4, <1>5 DEF BucketInv, LocalInv, RedisInv, WindowInv

\* The time that passes adds no more than it makes.
LEMMA TickKeepsRate ==
    ASSUME BucketInv, Tick
    PROVE  BucketInv'
<1>1. /\ now' = now + 1 /\ elapsed' = elapsed + 1
      /\ limiter' = limiter /\ rate' = rate
      /\ setBack' = setBack /\ lastRefresh' = lastRefresh
      /\ consumed' = consumed /\ keys' = keys /\ window' = window
  BY DEF Tick
<1>2. rate \in Rates BY DEF BucketInv, BucketTyped
<1>0. /\ BucketCapacity \in Nat \ {0} /\ Epoch \in Nat
      /\ MaxBack \in Nat /\ MaxBack < Epoch
      /\ Tokens \in Nat \ {0} /\ Period \in Nat \ {0} /\ Rounding \in Nat
  BY <1>2, Parameters
<1> USE <1>0
<1>3. /\ Tokens' = Tokens /\ Period' = Period /\ Rounding' = Rounding
      /\ FullTokens' = FullTokens /\ Ttl' = Ttl
  BY <1>1, RateStays
<1>4. BucketTyped' /\ ClockInv'
  BY <1>1, <1>3 DEF BucketInv, BucketTyped, ClockInv
<1>5. now \in Int /\ elapsed \in Nat /\ lastRefresh \in Int
      /\ window.start \in Nat /\ window.end \in Nat /\ keys.timestamp \in Int
      /\ keys.expire \in Int
  BY DEF BucketInv, BucketTyped, ClockInv, Windows
<1>6. /\ window.granted * Period \in Int /\ Unspent \in Int
      /\ BucketCapacity * Period \in Int /\ window.refills * Rounding \in Int
  BY DEF BucketInv, BucketTyped, Unspent, Windows
<1>7. LocalInv'
  <2>1. Unspent' = Unspent BY <1>1, <1>3 DEF Unspent
  <2> DEFINE z == Upper(0, now - lastRefresh)
             w == Upper(0, now' - lastRefresh')
             e == elapsed - window.start
             a == now - lastRefresh
  <2>2. /\ z \in Int /\ w \in Int /\ w <= z + 1
        /\ e \in Int /\ elapsed' - window'.start = e + 1
        /\ a \in Int /\ now' - lastRefresh' = a + 1
    BY <1>1, <1>5 DEF Upper
  <2> SUFFICES ASSUME limiter = "local", window.from # "none"
               PROVE  LocalInv'
    BY <1>1 DEF LocalInv
  <2> DEFINE x == window.granted * Period
             y == Unspent
             c == BucketCapacity * Period
             f == window.refills * Rounding
             zt == z * Tokens
             wt == w * Tokens
             et == e * Tokens
             at == a * Tokens
  <2>3. x + y + zt <= c + Period - 1 + et + f
    BY DEF BucketInv, LocalInv
  <2>4. ~window.overflow /\ setBack = window.setBack =>
             lastRefresh <= now /\ x + y + at >= et
    BY DEF BucketInv, LocalInv
  <2>5. x \in Int /\ y \in Int /\ c \in Int /\ f \in Int BY <1>6
  <2>6. /\ zt \in Int /\ wt \in Int /\ et \in Int /\ at \in Int
        /\ wt <= zt + Tokens
        /\ (e + 1) * Tokens = et + Tokens /\ (a + 1) * Tokens = at + Tokens
    <3> HIDE DEF z, w, e, a
    <3>1. 1 * Tokens = Tokens /\ Tokens \in Int OBVIOUS
    <3>2. w * Tokens <= (z + 1) * Tokens BY <2>2, ProductGrows
    <3>3. (z + 1) * Tokens = zt + 1 * Tokens /\ zt \in Int BY <2>2, ProductOfSum
    <3>4. (e + 1) * Tokens = et + 1 * Tokens /\ et \in Int BY <2>2, ProductOfSum
    <3>5. (a + 1) * Tokens = at + 1 * Tokens /\ at \in Int BY <2>2, ProductOfSum
    <3>6. wt \in Int BY <2>2
    <3> HIDE DEF zt, wt, et, at
    <3> QED BY <3>1, <3>2, <3>3, <3>4, <3>5, <3>6 DEF wt
  <2>7. (elapsed' - window'.start) * Tokens = et + Tokens
        /\ (now' - lastRefresh') * Tokens = at + Tokens
    <3> HIDE DEF e, a
    <3> QED BY <2>2, <2>6
  <2>8. Tokens \in Nat /\ Period \in Nat OBVIOUS
  <2> HIDE DEF x, y, c, f, zt, wt, et, at, z, w, e, a
  <2>9. x + y + wt <= c + Period - 1 + (et + Tokens) + f
    BY ONLY <2>3, <2>5, <2>6, <2>8
  <2>10. ~window.overflow /\ setBack = window.setBack =>
              lastRefresh <= now' /\ x + y + (at + Tokens) >= et + Tokens
    <3> SUFFICES ASSUME ~window.overflow, setBack = window.setBack
                 PROVE  lastRefresh <= now' /\ x + y + (at + Tokens) >= et + Tokens
      OBVIOUS
    <3>1. lastRefresh <= now /\ x + y + at >= et BY <2>4
    <3> QED BY ONLY <3>1, <2>5, <2>6, <2>8, <1>1, <1>5
  <2>11. window'.granted * Period' + Unspent' + Upper(0, now' - lastRefresh') * Tokens'
           <= BucketCapacity * Period' + Period' - 1
                + (elapsed' - window'.start) * Tokens' + window'.refills * Rounding'
    BY <2>1, <2>7, <2>9, <1>1, <1>3 DEF x, y, c, f, wt, w
  <2>12. ~window'.overflow /\ setBack' = window'.setBack =>
             /\ lastRefresh' <= now'
             /\ window'.granted * Period' + Unspent' + (now' - lastRefresh') * Tokens'
                  >= (elapsed' - window'.start) * Tokens'
    BY <2>1, <2>7, <2>10, <1>1, <1>3 DEF x, y
  <2> QED BY <2>11, <2>12 DEF LocalInv
<1>8. RedisInv'
  <2>1. SetAt' = SetAt /\ SetAt \in Int BY <1>1, <1>2, <1>3, <1>5, TtlFills DEF SetAt
  <2> SUFFICES ASSUME limiter = "redis", window.from # "none"
               PROVE  RedisInv'
    BY <1>1 DEF RedisInv
  <2>2. RedisInv BY DEF BucketInv
  <2>3. SetAt <= elapsed' /\ now' - keys.timestamp <= elapsed' - SetAt
    BY <2>1, <2>2, <1>1, <1>5 DEF RedisInv
  <2>4. ~window.overflow /\ setBack = window.setBack =>
             now' - keys.timestamp = elapsed' - SetAt
    BY <2>1, <2>2, <1>1, <1>5 DEF RedisInv
  <2> QED BY <2>1, <2>2, <2>3, <2>4, <1>1, <1>3 DEF RedisInv
<1>9. WindowInv'
  <2>1. (GrantedWithinRate <=> GrantedWithinRate') /\ (RefusedWhenSpent <=> RefusedWhenSpent')
    BY <1>1, <1>3 DEF GrantedWithinRate, RefusedWhenSpent, Passed
  <2> QED BY <2>1, <1>1, <1>5 DEF BucketInv, WindowInv
<1> QED BY <1>4, <1>7, <1>8, <1>9 DEF BucketInv

\* Setting the clock back adds nothing, and ends what is known from below.
LEMMA SetBackKeepsRate ==
    ASSUME BucketInv, SetBack
    PROVE  BucketInv'
<1>1. /\ now' = now - 1 /\ setBack' = setBack + 1 /\ setBack < MaxBack
      /\ limiter' = limiter /\ rate' = rate
      /\ elapsed' = elapsed /\ lastRefresh' = lastRefresh
      /\ consumed' = consumed /\ keys' = keys /\ window' = window
  BY DEF SetBack
<1>2. rate \in Rates BY DEF BucketInv, BucketTyped
<1>0. /\ BucketCapacity \in Nat \ {0} /\ Epoch \in Nat
      /\ MaxBack \in Nat /\ MaxBack < Epoch
      /\ Tokens \in Nat \ {0} /\ Period \in Nat \ {0} /\ Rounding \in Nat
  BY <1>2, Parameters
<1> USE <1>0
<1>3. /\ Tokens' = Tokens /\ Period' = Period /\ Rounding' = Rounding
      /\ FullTokens' = FullTokens /\ Ttl' = Ttl
  BY <1>1, RateStays
<1>4. BucketTyped' /\ ClockInv'
  BY <1>1, <1>3 DEF BucketInv, BucketTyped, ClockInv
<1>5. now \in Int /\ elapsed \in Nat /\ lastRefresh \in Int /\ setBack \in Nat
      /\ window.start \in Nat /\ window.end \in Nat /\ keys.timestamp \in Int
      /\ keys.expire \in Int /\ window.setBack \in Nat
  BY DEF BucketInv, BucketTyped, ClockInv, Windows
<1>6. /\ window.granted * Period \in Int /\ Unspent \in Int
      /\ BucketCapacity * Period \in Int /\ window.refills * Rounding \in Int
  BY DEF BucketInv, BucketTyped, Unspent, Windows
<1>7. window.from # "none" => setBack' # window.setBack
  BY <1>1, <1>5 DEF BucketInv, WindowInv
<1>8. LocalInv'
  <2>1. Unspent' = Unspent BY <1>1, <1>3 DEF Unspent
  <2> DEFINE z == Upper(0, now - lastRefresh)
             w == Upper(0, now' - lastRefresh')
             e == elapsed - window.start
  <2>2. z \in Int /\ w \in Int /\ w <= z /\ e \in Int
    BY <1>1, <1>5 DEF Upper
  <2> SUFFICES ASSUME limiter = "local", window.from # "none"
               PROVE  LocalInv'
    BY <1>1 DEF LocalInv
  <2> DEFINE x == window.granted * Period
             y == Unspent
             c == BucketCapacity * Period
             f == window.refills * Rounding
             zt == z * Tokens
             wt == w * Tokens
             et == e * Tokens
  <2>3. x + y + zt <= c + Period - 1 + et + f
    BY DEF BucketInv, LocalInv
  <2>4. x \in Int /\ y \in Int /\ c \in Int /\ f \in Int BY <1>6
  <2>5. zt \in Int /\ wt \in Int /\ et \in Int /\ wt <= zt
    <3> HIDE DEF z, w, e
    <3>1. w * Tokens <= z * Tokens BY <2>2, ProductGrows
    <3>2. zt \in Int /\ wt \in Int /\ et \in Int BY <2>2
    <3> QED BY <3>1, <3>2
  <2>6. Period \in Nat OBVIOUS
  <2> HIDE DEF x, y, c, f, zt, wt, et, z, w, e
  <2>7. x + y + wt <= c + Period - 1 + et + f
    BY ONLY <2>3, <2>4, <2>5, <2>6
  <2>8. window'.granted * Period' + Unspent' + Upper(0, now' - lastRefresh') * Tokens'
          <= BucketCapacity * Period' + Period' - 1
               + (elapsed' - window'.start) * Tokens' + window'.refills * Rounding'
    BY <2>1, <2>7, <1>1, <1>3 DEF x, y, c, f, wt, w, et, e
  <2> QED BY <2>8, <1>1, <1>7 DEF LocalInv
<1>9. RedisInv'
  <2>1. SetAt' = SetAt /\ SetAt \in Int BY <1>1, <1>2, <1>3, <1>5, TtlFills DEF SetAt
  <2> QED BY <2>1, <1>1, <1>3, <1>5, <1>7 DEF BucketInv, RedisInv
<1>10. WindowInv'
  <2>1. GrantedWithinRate <=> GrantedWithinRate'
    BY <1>1, <1>3 DEF GrantedWithinRate, Passed
  <2>2. window.from # "none" => RefusedWhenSpent'
    BY <1>1, <1>7 DEF RefusedWhenSpent
  <2> QED BY <2>1, <2>2, <1>1, <1>5 DEF BucketInv, WindowInv
<1> QED BY <1>4, <1>8, <1>9, <1>10 DEF BucketInv

\* What a call notes: it is one more of the window, or the window starts.
GoesOn(more, refills) ==
    /\ window'.from = window.from /\ window'.start = window.start
    /\ window'.setBack = window.setBack /\ window'.end = elapsed
    /\ window'.granted = window.granted + more
    /\ window'.refills = window.refills + refills
    /\ ~window'.overflow => ~window.overflow

Starts(refills) ==
    /\ window.from = "none" /\ window'.last = "none"
    /\ window'.start = elapsed /\ window'.end = 0
    /\ window'.setBack = setBack /\ window'.granted = 0
    /\ window'.refills = refills

\* A call either goes on with the window or starts it.
LEMMA Noted ==
    ASSUME BucketTyped, NEW n \in Nat, NEW granted \in BOOLEAN,
           NEW overflow \in BOOLEAN, NEW refills \in Nat,
           Note(n, granted, overflow, refills)
    PROVE  /\ window' \in Windows
           /\ \/ /\ GoesOn(IF granted THEN n ELSE 0, refills)
                 /\ window'.last = "refused one" => ~granted /\ n = 1
                 /\ ~window'.overflow => ~overflow
              \/ Starts(refills)
<1> DEFINE answer == IF granted THEN "granted" ELSE IF n = 1 THEN "refused one" ELSE "refused"
           more == IF granted THEN n ELSE 0
<1>1. answer \in Answers /\ more \in Nat BY DEF Answers
<1>2. answer = "refused one" => ~granted /\ n = 1 OBVIOUS
<1>3. \/ window' = [window EXCEPT !.granted = @ + more, !.end = elapsed, !.last = answer,
                                  !.refills = @ + refills, !.overflow = @ \/ overflow]
      \/ /\ window.from = "none"
         /\ window' = [NoWindow EXCEPT !.from = answer, !.start = elapsed,
                                       !.refills = refills, !.setBack = setBack]
  BY DEF Note
<1> HIDE DEF answer
<1>4. elapsed \in Nat /\ setBack \in Nat /\ window \in Windows BY DEF BucketTyped
<1>5. CASE window' = [window EXCEPT !.granted = @ + more, !.end = elapsed, !.last = answer,
                                    !.refills = @ + refills, !.overflow = @ \/ overflow]
  <2> HIDE DEF more
  <2>1. /\ window'.from = window.from /\ window'.start = window.start
        /\ window'.setBack = window.setBack /\ window'.end = elapsed
        /\ window'.granted = window.granted + more
        /\ window'.refills = window.refills + refills
        /\ window'.overflow = (window.overflow \/ overflow)
        /\ window'.last = answer
    BY <1>4, <1>5 DEF Windows
  <2>2. window' \in Windows
    <3>1. answer \in Answers \cup {"none"} /\ (window.overflow \/ overflow) \in BOOLEAN
          /\ window.granted + more \in Nat /\ window.refills + refills \in Nat
      BY <1>1, <1>4 DEF Windows
    <3> DEFINE o == window.overflow \/ overflow
               g == window.granted + more
               f == window.refills + refills
    <3>2. window' = [window EXCEPT !.granted = g, !.end = elapsed, !.last = answer,
                                   !.refills = f, !.overflow = o]
      BY <1>4, <1>5 DEF Windows
    <3> HIDE DEF o, g, f
    <3> QED BY <3>1, <3>2, <1>4 DEF o, g, f, Windows
  <2> QED BY <2>1, <2>2, <1>2 DEF more, GoesOn
<1>6. CASE /\ window.from = "none"
           /\ window' = [NoWindow EXCEPT !.from = answer, !.start = elapsed,
                                         !.refills = refills, !.setBack = setBack]
  BY <1>1, <1>4, <1>6 DEF NoWindow, Windows, Starts
<1> QED BY <1>3, <1>5, <1>6

\* The window goes on being in the past.
LEMMA WindowStays ==
    ASSUME BucketTyped, WindowInv, NEW more \in Nat, NEW refills \in Nat,
           GoesOn(more, refills), elapsed' = elapsed, setBack' = setBack,
           window.from # "none" => GrantedWithinRate' /\ RefusedWhenSpent'
    PROVE  WindowInv'
<1> SUFFICES ASSUME window'.from # "none" PROVE WindowInv' BY DEF WindowInv
<1>1. /\ window.from # "none" /\ window'.start = window.start
      /\ window'.setBack = window.setBack /\ window'.end = elapsed
  BY DEF GoesOn
<1>2. window.start <= elapsed /\ window.setBack <= setBack
  BY <1>1 DEF WindowInv
<1>3. elapsed \in Nat /\ elapsed <= elapsed BY DEF BucketTyped
<1> QED BY <1>1, <1>2, <1>3 DEF WindowInv

\* A window that starts promises nothing yet.
LEMMA WindowBegins ==
    ASSUME BucketTyped, NEW refills \in Nat, Starts(refills), elapsed' = elapsed, setBack' = setBack
    PROVE  WindowInv'
<1>1. elapsed \in Nat /\ setBack \in Nat /\ 0 <= elapsed BY DEF BucketTyped
<1>2. /\ window'.last = "none" /\ window'.start = elapsed
      /\ window'.end = 0 /\ window'.setBack = setBack
  BY DEF Starts
<1>3. GrantedWithinRate' /\ RefusedWhenSpent'
  BY <1>2 DEF GrantedWithinRate, RefusedWhenSpent
<1> QED BY <1>1, <1>2, <1>3 DEF WindowInv

\* What the refill of the limiter in the process does: the time is turned into
\* tokens, and what is not a whole one is kept, with what their cost is rounded by.
Cost == (Generated * Period) \div Tokens

Refills == IF Generated > 0 THEN 1 ELSE 0

LEMMA Refilled ==
    ASSUME BucketTyped, ClockInv
    PROVE  /\ Since \in Nat /\ Generated \in Nat /\ Cost \in Nat /\ Refills \in Nat
           /\ Since = Upper(0, now - lastRefresh)
           /\ Refreshed = now - (Since - Cost) /\ Cost <= Since
           /\ Generated * Period <= Since * Tokens
           /\ Since * Tokens < Generated * Period + Period
           /\ Cost * Tokens <= Generated * Period
           /\ Generated * Period <= Cost * Tokens + Refills * Rounding
           /\ Left \in 0..BucketCapacity
           /\ consumed - Generated <= Left
           /\ Generated <= consumed => Left = consumed - Generated
<1>0. /\ BucketCapacity \in Nat \ {0} /\ Epoch \in Nat
      /\ MaxBack \in Nat /\ MaxBack < Epoch
      /\ Tokens \in Nat \ {0} /\ Period \in Nat \ {0} /\ Rounding \in Nat
  BY Parameters DEF BucketTyped
<1> USE <1>0
<1>1. now \in Int /\ lastRefresh \in Int /\ consumed \in 0..BucketCapacity
  BY DEF BucketTyped, ClockInv
<1>2. Since \in Nat /\ Since = Upper(0, now - lastRefresh)
  BY <1>1 DEF Since, Upper
<1>3. Refills \in Nat BY DEF Refills
<1> DEFINE s == Since * Tokens
           g == Generated * Period
           c == Cost * Tokens
<1>4. s \in Nat /\ Tokens \in Nat \ {0} /\ Period \in Nat \ {0} BY <1>2
<1>5. Generated \in Nat /\ g \in Nat /\ g <= s /\ s < g + Period
  <2> HIDE DEF s
  <2>1. Generated = s \div Period BY DEF Generated, s
  <2> QED BY <2>1, <1>4, QuotientIsNat
<1>6. Cost \in Nat /\ c \in Nat /\ c <= g /\ g < c + Tokens
  <2> HIDE DEF g
  <2>1. Cost = g \div Tokens BY DEF Cost, g
  <2> QED BY <2>1, <1>4, <1>5, QuotientIsNat
\* What was paid for is no more time than there was.
<1>7. Cost <= Since
  <2> SUFFICES ASSUME Since + 1 <= Cost PROVE FALSE BY <1>2, <1>6
  <2>1. (Since + 1) * Tokens <= Cost * Tokens BY <1>2, <1>4, <1>6, ProductGrows
  <2>2. (Since + 1) * Tokens = s + 1 * Tokens BY <1>2, <1>4, ProductOfSum
  <2>3. 1 * Tokens = Tokens BY <1>4
  <2>4. s + Tokens <= c BY <2>1, <2>2, <2>3
  <2> HIDE DEF s, g, c
  <2> QED BY ONLY <2>4, <1>4, <1>5, <1>6
<1>8. g <= c + Refills * Rounding
  <2>1. CASE Generated = 0
    <3>1. g = 0 BY <2>1, <1>4
    <3>2. Refills * Rounding = 0 BY <2>1 DEF Refills
    <3> HIDE DEF g, c
    <3> QED BY <3>1, <3>2, <1>6
  <2>2. CASE Generated > 0 /\ Period # 1
    <3>1. Refills * Rounding = Tokens - 1 BY <2>2, <1>4 DEF Refills, Rounding
    <3> HIDE DEF g, c
    <3> QED BY <3>1, <1>4, <1>5, <1>6
  <2>3. CASE Generated > 0 /\ Period = 1
    <3>1. Refills * Rounding = 0 BY <2>3 DEF Refills, Rounding
    <3>2. g = s
      <4> HIDE DEF g, s
      <4> QED BY <2>3, <1>4, <1>5
    <3>3. Cost = Since
      <4> SUFFICES ASSUME Cost + 1 <= Since PROVE FALSE BY <1>2, <1>6, <1>7
      <4>1. (Cost + 1) * Tokens <= Since * Tokens BY <1>2, <1>4, <1>6, ProductGrows
      <4>2. (Cost + 1) * Tokens = c + 1 * Tokens BY <1>4, <1>6, ProductOfSum
      <4>3. 1 * Tokens = Tokens BY <1>4
      <4>4. c + Tokens <= s BY <4>1, <4>2, <4>3
      <4> HIDE DEF s, g, c
      <4> QED BY ONLY <4>4, <3>2, <1>4, <1>5, <1>6
    <3>4. c = s BY <3>3
    <3> HIDE DEF s, g, c
    <3> QED BY <3>1, <3>2, <3>4, <1>5
  <2> QED BY <2>1, <2>2, <2>3, <1>5
<1>9. Left \in 0..BucketCapacity /\ consumed - Generated <= Left
      /\ (Generated <= consumed => Left = consumed - Generated)
  BY <1>1, <1>5 DEF Left, Upper, Lower
<1>10. Refreshed = now - (Since - Cost) BY DEF Refreshed, Cost
<1> HIDE DEF s, g, c
<1> QED BY <1>2, <1>3, <1>5, <1>6, <1>7, <1>8, <1>9, <1>10 DEF s, g, c

\* A call of the limiter in the process leaves the sum of what was granted and
\* what can still be as it was but for what it rounds, or lower if something
\* overflowed.
LEMMA AcquireKeepsRate ==
    ASSUME BucketInv, NEW n \in 1..BucketCapacity, Acquire(n)
    PROVE  BucketInv'
<1> DEFINE granted == Left + n <= BucketCapacity
           overflow == Generated > consumed
           more == IF granted THEN n ELSE 0
           G == Generated * Period
           S == Since * Tokens
           C == Cost * Tokens
           Y == Refills * Rounding
<1>1. /\ limiter = "local" /\ limiter' = limiter /\ rate' = rate
      /\ now' = now /\ elapsed' = elapsed /\ setBack' = setBack /\ keys' = keys
      /\ lastRefresh' = Refreshed
      /\ consumed' = (IF granted THEN Left + n ELSE Left)
      /\ Note(n, granted, overflow, Refills)
  BY DEF Acquire, Refills
<1>2. BucketTyped /\ ClockInv /\ LocalInv /\ WindowInv /\ rate \in Rates
  BY DEF BucketInv, BucketTyped
<1>0. /\ BucketCapacity \in Nat \ {0} /\ Epoch \in Nat
      /\ MaxBack \in Nat /\ MaxBack < Epoch
      /\ Tokens \in Nat \ {0} /\ Period \in Nat \ {0} /\ Rounding \in Nat
  BY <1>2, Parameters
<1> USE <1>0
<1>3. /\ Since \in Nat /\ Generated \in Nat /\ Cost \in Nat /\ Refills \in Nat
      /\ Left \in 0..BucketCapacity
      /\ Since = Upper(0, now - lastRefresh)
      /\ Refreshed = now - (Since - Cost) /\ Cost <= Since
      /\ consumed - Generated <= Left
      /\ Generated <= consumed => Left = consumed - Generated
  BY <1>2, Refilled
<1>4. G <= S /\ S < G + Period /\ C <= G /\ G <= C + Y
  BY <1>2, Refilled
<1>5. G \in Nat /\ S \in Nat /\ C \in Nat /\ Y \in Nat BY <1>3
<1>6. /\ Tokens' = Tokens /\ Period' = Period /\ Rounding' = Rounding
      /\ FullTokens' = FullTokens /\ Ttl' = Ttl
  BY <1>1, RateStays
<1>7. /\ now \in Int /\ elapsed \in Nat /\ lastRefresh \in Int /\ setBack \in Nat
      /\ consumed \in 0..BucketCapacity
      /\ window.granted \in Nat /\ window.start \in Nat /\ window.refills \in Nat
  BY <1>2 DEF BucketTyped, ClockInv, Windows
<1>8. /\ window' \in Windows
      /\ \/ /\ GoesOn(more, Refills)
            /\ window'.last = "refused one" => ~granted /\ n = 1
            /\ ~window'.overflow => ~overflow
         \/ Starts(Refills)
  <2>1. granted \in BOOLEAN /\ overflow \in BOOLEAN /\ n \in Nat OBVIOUS
  <2>2. Note(n, granted, overflow, Refills) BY <1>1
  <2> HIDE DEF granted, overflow
  <2> QED BY <2>1, <2>2, <1>2, <1>3, Noted
<1>9. /\ consumed' \in 0..BucketCapacity /\ consumed' = Left + more
      /\ more \in Nat /\ Left \in Nat
  BY <1>1, <1>3
<1> DEFINE r == Since - Cost
           R == r * Tokens
<1>10. /\ lastRefresh' \in Int /\ r \in Nat /\ lastRefresh' <= now'
       /\ now' - lastRefresh' = r /\ Upper(0, now' - lastRefresh') = r
  BY <1>1, <1>3, <1>7 DEF Upper
\* What is kept is what the time made, without what its tokens cost.
<1>11. R = S - C /\ R \in Nat
  <2>1. Since \in Int /\ Cost \in Int /\ Tokens \in Int BY <1>3
  <2>2. R = S - C BY ONLY <2>1, ProductOfSum
  <2> HIDE DEF r
  <2> QED BY <2>2, <1>10
<1> DEFINE U == (BucketCapacity - consumed) * Period
           U1 == (BucketCapacity - consumed') * Period
           W == window.granted * Period
           M == more * Period
           F == BucketCapacity * Period
           X == window.refills * Rounding
\* The sum, before and after.
<1>12. /\ U \in Int /\ U1 \in Int /\ W \in Int /\ M \in Int /\ F \in Int /\ X \in Int
       /\ U1 >= 0 /\ U1 <= F
       /\ M + U1 <= U + G
       /\ ~overflow => M + U1 = U + G
       /\ ~granted /\ n = 1 => U1 = 0
  <2> DEFINE L == BucketCapacity - Left
  <2>1. L * Period = U1 + M /\ L * Period \in Int /\ U1 \in Int /\ M \in Int
    <3> HIDE DEF more
    <3>1. L = (BucketCapacity - consumed') + more
          /\ BucketCapacity - consumed' \in Int /\ more \in Int
      BY <1>9
    <3> QED BY <3>1, ProductOfSum
  <2>2. (BucketCapacity - consumed + Generated) * Period = U + G
        /\ U \in Int
    <3>1. BucketCapacity - consumed \in Int /\ Generated \in Int BY <1>3, <1>7
    <3> QED BY <3>1, ProductOfSum
  <2>3. L * Period <= U + G
    <3>1. L \in Int /\ BucketCapacity - consumed + Generated \in Int
          /\ L <= BucketCapacity - consumed + Generated
      BY <1>3, <1>7
    <3> QED BY <3>1, <2>2, ProductGrows
  <2>4. ~overflow => L * Period = U + G
    <3>1. ~overflow => L = BucketCapacity - consumed + Generated
      <4> SUFFICES ASSUME ~overflow PROVE L = BucketCapacity - consumed + Generated
        OBVIOUS
      <4>1. Generated <= consumed BY <1>3, <1>7
      <4> QED BY <4>1, <1>3, <1>7
    <3> QED BY <3>1, <2>2
  <2>5. W \in Int /\ F \in Int /\ X \in Int BY <1>7
  <2>6. U1 >= 0 /\ U1 <= F
    <3> DEFINE d == BucketCapacity - consumed'
    <3>1. d \in 0..BucketCapacity BY <1>9
    <3> HIDE DEF d
    <3>2. 0 * Period <= d * Period /\ d * Period <= BucketCapacity * Period
      BY <3>1, ProductGrows
    <3> QED BY <3>2 DEF d
  <2>7. ~granted /\ n = 1 => U1 = 0
    <3>1. ~granted /\ n = 1 => BucketCapacity - consumed' = 0 BY <1>1, <1>3
    <3>2. 0 * Period = 0 OBVIOUS
    <3> QED BY <3>1, <3>2
  <2> HIDE DEF L, U, U1, W, M, F, G, X, granted, overflow
  <2> QED BY <2>1, <2>2, <2>3, <2>4, <2>5, <2>6, <2>7, <1>5
<1>13. Unspent' = U1 /\ Unspent = U BY <1>6 DEF Unspent
<1>14. BucketTyped' /\ ClockInv'
  <2>1. BucketTyped' BY <1>1, <1>2, <1>6, <1>8, <1>9, <1>10 DEF BucketTyped
  <2> QED BY <2>1, <1>1, <1>2 DEF ClockInv
<1>15. RedisInv' BY <1>1 DEF RedisInv
<1>16. Tokens \in Nat /\ Period \in Nat /\ Period >= 1 OBVIOUS
\* The window goes on.
<1>17. CASE /\ window.from # "none" /\ GoesOn(more, Refills)
            /\ window'.last = "refused one" => ~granted /\ n = 1
            /\ ~window'.overflow => ~overflow
  <2> HIDE DEF granted, overflow, more
  <2> DEFINE E == (elapsed - window.start) * Tokens
  <2>1. /\ window'.from = window.from /\ window'.start = window.start
        /\ window'.setBack = window.setBack /\ window'.end = elapsed
        /\ window'.granted = window.granted + more
        /\ window'.refills = window.refills + Refills
    BY <1>17 DEF GoesOn
  <2>2. window'.granted * Period = W + M /\ window'.refills * Rounding = X + Y
    <3>1. /\ more \in Int /\ window.granted \in Int
          /\ Refills \in Int /\ window.refills \in Int /\ Period \in Int /\ Rounding \in Int
      BY <1>3, <1>7, <1>9
    <3> QED BY <3>1, <2>1, ProductOfSum
  <2>3. E \in Int BY <1>7
  <2>4. W + U + S <= F + Period - 1 + E + X
    BY <1>1, <1>2, <1>3, <1>13, <1>17 DEF LocalInv
  <2>5. ASSUME ~window'.overflow, setBack = window.setBack
        PROVE  ~overflow /\ W + U + S >= E
    <3>1. ~overflow /\ ~window.overflow BY <1>17, <2>5 DEF GoesOn
    <3>2. /\ lastRefresh <= now
          /\ W + Unspent + (now - lastRefresh) * Tokens >= E
      BY <1>1, <1>2, <1>17, <2>5, <3>1 DEF LocalInv
    <3>3. Since = now - lastRefresh BY <1>3, <1>7, <3>2 DEF Upper
    <3> QED BY <3>1, <3>2, <3>3, <1>13
  <2> HIDE DEF U, U1, W, M, F, G, S, C, Y, X, E, R, r
  <2>6. W + M + U1 + R <= F + Period - 1 + E + (X + Y)
    BY ONLY <2>3, <2>4, <1>4, <1>5, <1>11, <1>12, <1>16
  <2>7. ASSUME ~window'.overflow, setBack = window.setBack
        PROVE  W + M + U1 + R >= E /\ W + M + U1 > E - Period
    <3>1. ~overflow /\ W + U + S >= E BY <2>5, <2>7
    <3>2. M + U1 = U + G BY <3>1, <1>12
    <3>3. W + U + S >= E BY <3>1
    <3> QED BY ONLY <3>2, <3>3, <2>3, <1>4, <1>5, <1>11, <1>12, <1>16
  <2>8. LocalInv'
    <3>1. Upper(0, now' - lastRefresh') * Tokens' = R
          /\ (now' - lastRefresh') * Tokens' = R
      BY <1>6, <1>10 DEF R
    <3>2. (elapsed' - window'.start) * Tokens' = E BY <2>1, <1>1, <1>6 DEF E
    <3>3. /\ window'.granted * Period' = W + M
          /\ window'.refills * Rounding' = X + Y
          /\ BucketCapacity * Period' = F
      BY <2>2, <1>6 DEF F
    <3>4. window'.granted * Period' + Unspent' + Upper(0, now' - lastRefresh') * Tokens'
             <= BucketCapacity * Period' + Period' - 1
                  + (elapsed' - window'.start) * Tokens' + window'.refills * Rounding'
      BY <2>6, <3>1, <3>2, <3>3, <1>6, <1>13
    <3>5. ASSUME ~window'.overflow, setBack' = window'.setBack
          PROVE  window'.granted * Period' + Unspent' + (now' - lastRefresh') * Tokens'
                    >= (elapsed' - window'.start) * Tokens'
      <4>1. W + M + U1 + R >= E BY <2>1, <2>7, <3>5, <1>1
      <4> QED BY <4>1, <3>1, <3>2, <3>3, <1>13
    <3> QED BY <3>4, <3>5, <1>10 DEF LocalInv
  <2>9. Passed' * Tokens' = E BY <2>1, <1>6 DEF Passed, E
  <2>10. GrantedWithinRate'
    <3>1. W + M <= F + E + Period - 1 + (X + Y)
      BY ONLY <2>3, <2>6, <1>5, <1>11, <1>12, <1>16
    <3>2. window'.granted * Period'
            <= BucketCapacity * Period' + Passed' * Tokens' + Period' - 1
                 + window'.refills * Rounding'
      BY <3>1, <2>2, <2>9, <1>6 DEF F
    <3> QED BY <3>2 DEF GrantedWithinRate
  <2>11. RefusedWhenSpent'
    <3> SUFFICES ASSUME window'.last = "refused one", ~window'.overflow,
                        setBack' = window'.setBack
                 PROVE  window'.granted * Period' > Passed' * Tokens' - Period'
      BY DEF RefusedWhenSpent
    <3>1. U1 = 0 BY <1>12, <1>17
    <3>2. W + M + U1 > E - Period BY <2>1, <2>7, <1>1
    <3>3. W + M > E - Period BY ONLY <3>1, <3>2, <2>3, <1>12, <1>16
    <3> QED BY <3>3, <2>2, <2>9, <1>6
  <2>12. WindowInv'
    <3>1. GoesOn(more, Refills) /\ more \in Nat /\ Refills \in Nat BY <1>3, <1>9, <1>17
    <3> QED BY <3>1, <2>10, <2>11, <1>1, <1>2, WindowStays
  <2> QED BY <2>8, <2>12, <1>14, <1>15 DEF BucketInv
\* The window has not started yet.
<1>18. CASE window'.from = "none"
  BY <1>14, <1>15, <1>18 DEF BucketInv, LocalInv, WindowInv
\* The window starts.
<1>19. CASE Starts(Refills)
  <2> HIDE DEF granted, overflow, more
  <2>1. /\ window'.granted * Period' = 0 /\ window'.start = elapsed
        /\ window'.refills = Refills
    BY <1>6, <1>19 DEF Starts
  <2> HIDE DEF U, U1, W, M, F, G, S, C, Y, X, R, r
  <2>2. LocalInv'
    <3>1. 0 + U1 + R <= F + Period - 1 + 0 + Y
      BY ONLY <1>4, <1>5, <1>11, <1>12, <1>16
    <3>2. 0 + U1 + R >= 0
      BY ONLY <1>11, <1>12
    <3>3. Upper(0, now' - lastRefresh') * Tokens' = R
          /\ (now' - lastRefresh') * Tokens' = R
      BY <1>6, <1>10 DEF R
    <3>4. (elapsed' - window'.start) * Tokens' = 0
      <4>1. elapsed' - window'.start = 0 BY <2>1, <1>1, <1>7
      <4> QED BY <4>1, <1>6
    <3>5. window'.refills * Rounding' = Y /\ BucketCapacity * Period' = F
      BY <2>1, <1>6 DEF Y, F
    <3>6. window'.granted * Period' + Unspent' + Upper(0, now' - lastRefresh') * Tokens'
             <= BucketCapacity * Period' + Period' - 1
                  + (elapsed' - window'.start) * Tokens' + window'.refills * Rounding'
      BY <2>1, <3>1, <3>3, <3>4, <3>5, <1>6, <1>13
    <3>7. window'.granted * Period' + Unspent' + (now' - lastRefresh') * Tokens'
                    >= (elapsed' - window'.start) * Tokens'
      BY <2>1, <3>2, <3>3, <3>4, <1>13
    <3> QED BY <3>6, <3>7, <1>10 DEF LocalInv
  <2>3. WindowInv' BY <1>1, <1>2, <1>3, <1>19, WindowBegins
  <2> QED BY <2>2, <2>3, <1>14, <1>15 DEF BucketInv
<1>20. GoesOn(more, Refills) => window'.from = window.from BY DEF GoesOn
<1> HIDE DEF granted, overflow, more
<1> QED BY <1>8, <1>17, <1>18, <1>19, <1>20

\* A call of the script leaves the sum of what was granted and what is in the
\* keys, that the time since the last call fills, at most as it was: keys that
\* expired have been left alone for as long as a full bucket takes.
LEMMA AcquireInRedisKeepsRate ==
    ASSUME BucketInv, NEW n \in 1..BucketCapacity, AcquireInRedis(n)
    PROVE  BucketInv'
<1> DEFINE last == IF Expired THEN FullTokens ELSE keys.tokens
           made == IF Expired THEN now ELSE Upper(0, now - keys.timestamp)
           filled == Lower(FullTokens, last + made * Tokens)
           granted == filled >= n * Period
           overflow == last + made * Tokens > FullTokens
<1>1. /\ limiter = "redis" /\ limiter' = limiter /\ rate' = rate /\ Ttl > 0
      /\ now' = now /\ elapsed' = elapsed /\ setBack' = setBack
      /\ lastRefresh' = lastRefresh /\ consumed' = consumed
      /\ keys' = [tokens    |-> IF granted THEN filled - n * Period ELSE filled,
                  timestamp |-> now,
                  expire    |-> elapsed + Ttl]
      /\ Note(n, granted, overflow, 0)
  BY DEF AcquireInRedis
<1>2. BucketTyped /\ ClockInv /\ RedisInv /\ WindowInv /\ rate \in Rates
  BY DEF BucketInv, BucketTyped
<1>0. /\ BucketCapacity \in Nat \ {0} /\ Epoch \in Nat
      /\ MaxBack \in Nat /\ MaxBack < Epoch
      /\ Tokens \in Nat \ {0} /\ Period \in Nat \ {0} /\ Rounding \in Nat
  BY <1>2, Parameters
<1> USE <1>0
<1>3. /\ now \in Int /\ elapsed \in Nat /\ setBack \in Nat
      /\ keys.tokens \in Nat /\ keys.timestamp \in Int /\ keys.expire \in Int
      /\ keys.tokens <= FullTokens
      /\ window.granted \in Nat /\ window.start \in Nat
  BY <1>2 DEF BucketTyped, ClockInv, Windows
<1>4. now > 0 BY <1>2, <1>3 DEF ClockInv
<1>5. /\ Ttl \in Int /\ SetAt \in Int /\ FullTokens \in Nat /\ FullTokens <= Ttl * Tokens
      /\ keys.expire = SetAt + Ttl
  <2>1. Ttl \in Int BY <1>2, TtlFills
  <2> QED BY <2>1, <1>1, <1>2, <1>3, TtlFills DEF SetAt, FullTokens
<1> DEFINE more == IF granted THEN n ELSE 0
<1>6. /\ window' \in Windows
      /\ \/ /\ GoesOn(more, 0)
            /\ window'.last = "refused one" => ~granted /\ n = 1
            /\ ~window'.overflow => ~overflow
         \/ Starts(0)
  <2>1. granted \in BOOLEAN /\ overflow \in BOOLEAN /\ n \in Nat OBVIOUS
  <2>2. Note(n, granted, overflow, 0) BY <1>1
  <2> HIDE DEF granted, overflow
  <2> QED BY <1>2, <2>1, <2>2, Noted
<1>7. last \in Nat /\ made \in Nat BY <1>3, <1>4, <1>5 DEF Upper
<1> DEFINE d == made * Tokens
<1>8. d \in Nat
  <2> HIDE DEF made
  <2> QED BY <1>7
<1>9. /\ filled \in Nat /\ filled <= FullTokens /\ filled <= last + d
      /\ ~overflow => filled = last + d
  <2> HIDE DEF last, d
  <2> QED BY <1>5, <1>7, <1>8 DEF d, Lower
<1>10. Expired => overflow
  <2> SUFFICES ASSUME Expired PROVE overflow OBVIOUS
  <2>1. made = now /\ last = FullTokens OBVIOUS
  <2>2. 1 * Tokens <= now * Tokens BY <1>3, <1>4, ProductGrows
  <2>3. d >= 1
    <3>1. d = now * Tokens BY <2>1
    <3> HIDE DEF d
    <3> QED BY <3>1, <2>2, <1>8
  <2> HIDE DEF last, made, filled, granted
  <2> QED BY <2>1, <2>3, <1>5, <1>8
<1> DEFINE N == n * Period
           W == window.granted * Period
           M == more * Period
<1>11. /\ N \in Nat /\ W \in Nat /\ M \in Nat
       /\ more \in Nat /\ more * Period \in Int
       /\ granted => M = N
       /\ ~granted => M = 0
  <2>1. n \in Nat /\ more \in Nat OBVIOUS
  <2>2. N \in Nat /\ W \in Nat BY <2>1, <1>3
  <2>3. granted => M = N OBVIOUS
  <2>4. ~granted => M = 0
    <3>1. ~granted => more = 0 OBVIOUS
    <3> QED BY <3>1
  <2> HIDE DEF granted
  <2> QED BY <2>1, <2>2, <2>3, <2>4
<1>12. /\ keys'.tokens \in Nat /\ keys'.tokens <= FullTokens
       /\ keys'.tokens + M = filled
       /\ keys'.timestamp = now /\ keys'.expire = elapsed + Ttl
       /\ keys' \in [tokens : Nat, timestamp : Int, expire : Int]
       /\ ~granted /\ n = 1 => keys'.tokens < Period
  <2>1. keys'.tokens = (IF granted THEN filled - N ELSE filled)
        /\ keys'.timestamp = now /\ keys'.expire = elapsed + Ttl
    BY <1>1
  <2>2. granted => filled >= N OBVIOUS
  <2>3. ~granted /\ n = 1 => filled < Period
    <3> SUFFICES ASSUME ~granted, n = 1 PROVE filled < Period OBVIOUS
    <3>1. n * Period = Period OBVIOUS
    <3>2. ~(filled >= n * Period) OBVIOUS
    <3> HIDE DEF filled, granted
    <3> QED BY <3>1, <3>2, <1>9
  <2> DEFINE t == IF granted THEN filled - N ELSE filled
  <2>4. t \in Nat /\ t <= FullTokens /\ t + M = filled
        /\ (~granted /\ n = 1 => t < Period)
    <3> HIDE DEF filled, N, M, granted
    <3>1. CASE granted
      <4>1. t = filled - N /\ M = N BY <3>1, <1>11
      <4>2. filled >= N BY <3>1, <2>2
      <4> HIDE DEF t
      <4> QED BY <4>1, <4>2, <3>1, <1>5, <1>9, <1>11
    <3>2. CASE ~granted
      <4>1. t = filled /\ M = 0 BY <3>2, <1>11
      <4> HIDE DEF t
      <4> QED BY <4>1, <3>2, <2>3, <1>5, <1>9, <1>11
    <3> QED BY <3>1, <3>2
  <2>5. keys' = [tokens |-> t, timestamp |-> now, expire |-> elapsed + Ttl]
    BY <1>1
  <2> HIDE DEF t
  <2>6. keys' \in [tokens : Nat, timestamp : Int, expire : Int]
    BY <2>4, <2>5, <1>3, <1>5
  <2>7. keys'.tokens = t BY <2>5
  <2> QED BY <2>1, <2>4, <2>6, <2>7
<1>13. SetAt' = elapsed
  <2>1. SetAt' = keys'.expire - Ttl BY <1>1, RateStays DEF SetAt
  <2> QED BY <2>1, <1>3, <1>5, <1>12
<1>14. /\ Tokens' = Tokens /\ Period' = Period /\ Rounding' = Rounding
       /\ FullTokens' = FullTokens /\ Ttl' = Ttl
  BY <1>1, RateStays
<1>15. BucketTyped' /\ ClockInv'
  <2>1. BucketTyped' BY <1>1, <1>2, <1>6, <1>12, <1>14 DEF BucketTyped
  <2> QED BY <2>1, <1>1, <1>2 DEF ClockInv
<1>16. LocalInv' BY <1>1 DEF LocalInv
\* The window goes on.
<1>17. CASE /\ window.from # "none" /\ GoesOn(more, 0)
            /\ window'.last = "refused one" => ~granted /\ n = 1
            /\ ~window'.overflow => ~overflow
  <2> DEFINE e == elapsed - SetAt
             a == (SetAt - window.start) * Tokens
             b == (elapsed - window.start) * Tokens
             c == e * Tokens
  <2>1. /\ window.start <= SetAt /\ SetAt <= elapsed
        /\ now - keys.timestamp <= e
        /\ W + keys.tokens <= FullTokens + Period - 1 + a
    BY <1>1, <1>2, <1>17 DEF RedisInv
  <2>2. a \in Int /\ b \in Int /\ c \in Int /\ b = a + c
    <3>1. /\ SetAt - window.start \in Int /\ e \in Int
          /\ elapsed - window.start = (SetAt - window.start) + e
      BY <1>3, <1>5
    <3> HIDE DEF e
    <3> QED BY <3>1, ProductOfSum
  <2>3. Expired => FullTokens <= c
    <3> SUFFICES ASSUME Expired PROVE FullTokens <= c OBVIOUS
    <3>1. Ttl <= e /\ e \in Int BY <1>3, <1>5 DEF Expired
    <3> HIDE DEF e
    <3>2. Ttl * Tokens <= e * Tokens /\ Ttl * Tokens \in Int BY <3>1, <1>5, ProductGrows
    <3> DEFINE t == Ttl * Tokens
    <3>3. t <= c /\ t \in Int /\ FullTokens <= t BY <3>2, <1>5
    <3> HIDE DEF t, c
    <3> QED BY <3>3, <2>2, <1>5
  <2>4. ~Expired => d <= c
    <3> SUFFICES ASSUME ~Expired PROVE d <= c OBVIOUS
    <3>1. made <= e /\ made \in Int /\ e \in Int BY <2>1, <1>3, <1>5, <1>7 DEF Upper
    <3> HIDE DEF e, made
    <3> QED BY <3>1, ProductGrows
  <2>5. last = (IF Expired THEN FullTokens ELSE keys.tokens) OBVIOUS
  <2>6. ASSUME ~window'.overflow, setBack = window.setBack
        PROVE  W + filled >= b
    <3>1. ~overflow /\ ~window.overflow BY <1>17, <2>6 DEF GoesOn
    <3>2. ~Expired BY <3>1, <1>10
    <3>3. now - keys.timestamp = e /\ W + keys.tokens >= a
      BY <1>1, <1>2, <1>17, <2>6, <3>1 DEF RedisInv
    <3>4. d = c
      <4>1. made = e BY <2>1, <3>2, <3>3, <1>3, <1>5 DEF Upper
      <4> QED BY <4>1
    <3>5. filled = keys.tokens + d
      <4> HIDE DEF filled, d
      <4> QED BY <3>1, <3>2, <1>9
    <3>6. W \in Nat /\ d \in Nat /\ keys.tokens \in Nat BY <1>3, <1>8, <1>11
    <3> HIDE DEF W, a, b, c, d, filled
    <3> QED BY ONLY <2>2, <3>3, <3>4, <3>5, <3>6
  <2>7. W + filled <= FullTokens + Period - 1 + b
    <3> HIDE DEF W, a, b, c, d, e, made, overflow
    <3>1. CASE Expired
      <4>1. FullTokens <= c /\ filled <= FullTokens /\ filled \in Nat
        <5> HIDE DEF filled
        <5> QED BY <3>1, <2>3, <1>9
      <4> HIDE DEF filled
      <4> QED BY <4>1, <2>1, <2>2, <1>3, <1>5, <1>11
    <3>2. CASE ~Expired
      <4>1. d <= c /\ filled <= keys.tokens + d /\ filled \in Nat
        <5>1. last = keys.tokens BY <3>2
        <5> HIDE DEF filled, last
        <5> QED BY <5>1, <3>2, <2>4, <1>9
      <4> HIDE DEF filled
      <4> QED BY <4>1, <2>1, <2>2, <1>3, <1>5, <1>8, <1>11
    <3> QED BY <3>1, <3>2
  <2> HIDE DEF last, made, filled, granted, overflow, more, d
  <2>8. /\ window'.from = window.from /\ window'.start = window.start
        /\ window'.setBack = window.setBack /\ window'.end = elapsed
        /\ window'.granted = window.granted + more
    BY <1>17 DEF GoesOn
  <2>9. window'.granted * Period = W + M
    <3>1. more \in Int /\ window.granted \in Int BY <1>3, <1>11
    <3> QED BY <3>1, <2>8, ProductOfSum
  <2> HIDE DEF W, M, N, a, b, c, e
  <2>10. W + M + keys'.tokens = W + filled /\ W + M + keys'.tokens \in Int
    BY <1>9, <1>11, <1>12
  <2>11. RedisInv'
    <3>1. window'.start <= SetAt' /\ SetAt' <= elapsed'
      BY <1>1, <1>3, <1>5, <1>13, <2>1, <2>8
    <3>2. now' - keys'.timestamp = elapsed' - SetAt'
      BY <1>1, <1>3, <1>12, <1>13
    <3>3. (SetAt' - window'.start) * Tokens = b
      BY <1>13, <2>8 DEF b
    <3>4. window'.granted * Period + keys'.tokens
             <= FullTokens' + Period - 1 + (SetAt' - window'.start) * Tokens
      BY <3>3, <2>7, <2>9, <2>10, <1>14
    <3>5. ASSUME ~window'.overflow, setBack' = window'.setBack
          PROVE  window'.granted * Period + keys'.tokens
                    >= (SetAt' - window'.start) * Tokens
      BY <3>3, <3>5, <2>6, <2>8, <2>9, <2>10, <1>1
    <3>6. now' - keys'.timestamp <= elapsed' - SetAt'
      <4>1. elapsed' - SetAt' \in Int BY <1>1, <1>3, <1>13
      <4> QED BY <3>2, <4>1
    <3> QED BY <3>1, <3>2, <3>4, <3>5, <3>6, <1>1, <1>14 DEF RedisInv
  <2>12. Passed' * Tokens' = b BY <2>8, <1>14 DEF Passed, b
  <2>13. GrantedWithinRate'
    <3>1. W + M <= FullTokens + Period - 1 + b
      BY ONLY <2>2, <2>7, <2>10, <1>5, <1>9, <1>0, <1>11, <1>12
    <3>2. W + M <= BucketCapacity * Period + b + Period - 1
      <4> DEFINE f == FullTokens
      <4>1. f = BucketCapacity * Period /\ f \in Nat /\ W + M <= f + Period - 1 + b
        BY <3>1, <1>5 DEF FullTokens
      <4>2. Period \in Nat OBVIOUS
      <4> HIDE DEF f
      <4>3. W + M <= f + b + Period - 1
        BY ONLY <4>1, <4>2, <1>11, <2>2
      <4> QED BY <4>1, <4>3
    <3> DEFINE x == window'.refills * Rounding'
               f == BucketCapacity * Period
    <3>3. x \in Nat
      <4>1. window'.refills \in Nat BY <1>6 DEF Windows
      <4>2. window'.refills * Rounding \in Nat BY <4>1
      <4> QED BY <4>2, <1>14
    <3>4. W + M \in Int /\ f \in Int /\ Period \in Int BY <1>11
    <3>5. W + M <= f + b + Period - 1 BY <3>2
    <3> HIDE DEF x, f
    <3>6. W + M <= f + b + Period - 1 + x BY ONLY <3>3, <3>4, <3>5, <2>2
    <3> QED BY <3>6, <2>9, <2>12, <1>14 DEF GrantedWithinRate, x, f
  <2>14. RefusedWhenSpent'
    <3> SUFFICES ASSUME window'.last = "refused one", ~window'.overflow,
                        setBack' = window'.setBack
                 PROVE  window'.granted * Period' > Passed' * Tokens' - Period'
      BY DEF RefusedWhenSpent
    <3>1. W + filled >= b BY <2>6, <2>8, <1>1
    <3>2. keys'.tokens < Period BY <1>12, <1>17
    <3>3. W + M > b - Period
      <4>1. W \in Nat /\ M \in Nat BY <1>11
      <4>2. Period \in Nat /\ b \in Int BY <2>2
      <4>3. keys'.tokens \in Nat BY <1>12
      <4> QED BY ONLY <3>1, <3>2, <4>1, <4>2, <4>3, <2>10
    <3> QED BY <3>3, <2>9, <2>12, <1>14
  <2>15. WindowInv'
    <3>1. GoesOn(more, 0) /\ more \in Nat /\ 0 \in Nat BY <1>11, <1>17
    <3> QED BY <3>1, <2>13, <2>14, <1>1, <1>2, WindowStays
  <2> QED BY <2>11, <2>15, <1>15, <1>16 DEF BucketInv
\* The window has not started yet.
<1>18. CASE window'.from = "none"
  BY <1>15, <1>16, <1>18 DEF BucketInv, RedisInv, WindowInv
\* The window starts.
<1>19. CASE Starts(0)
  <2> HIDE DEF last, made, filled, granted, overflow, more, d
  <2>1. window'.granted * Period = 0 /\ window'.start = elapsed
    BY <1>19 DEF Starts
  <2>2. RedisInv'
    <3>1. window'.start <= SetAt' /\ SetAt' <= elapsed'
      BY <1>1, <1>3, <1>13, <2>1
    <3>2. now' - keys'.timestamp = elapsed' - SetAt'
      BY <1>1, <1>3, <1>12, <1>13
    <3>3. (SetAt' - window'.start) * Tokens = 0
      <4>1. SetAt' - window'.start = 0 BY <1>3, <1>13, <2>1
      <4> QED BY <4>1
    <3>4. window'.granted * Period + keys'.tokens
             <= FullTokens' + Period - 1 + (SetAt' - window'.start) * Tokens
      BY <3>3, <2>1, <1>5, <1>12, <1>14
    <3>5. window'.granted * Period + keys'.tokens
                    >= (SetAt' - window'.start) * Tokens
      BY <3>3, <2>1, <1>12
    <3>6. now' - keys'.timestamp <= elapsed' - SetAt'
      <4>1. elapsed' - SetAt' \in Int BY <1>1, <1>3, <1>13
      <4> QED BY <3>2, <4>1
    <3> QED BY <3>1, <3>2, <3>4, <3>5, <3>6, <1>1, <1>14 DEF RedisInv
  <2>3. WindowInv' BY <1>19, <1>1, <1>2, WindowBegins
  <2> QED BY <2>2, <2>3, <1>15, <1>16 DEF BucketInv
<1>20. GoesOn(more, 0) => window'.from = window.from BY DEF GoesOn
<1> HIDE DEF granted, overflow, more
<1> QED BY <1>6, <1>17, <1>18, <1>19, <1>20

\* The steps that leave everything as it is.
LEMMA StutterKeepsRate ==
    ASSUME BucketInv, UNCHANGED bucketVars
    PROVE  BucketInv'
BY DEF BucketInv, bucketVars, BucketTyped, Windows, Answers, ClockInv, LocalInv,
       RedisInv, WindowInv, FullTokens, Ttl, SetAt, Unspent, Upper,
       Tokens, Period, Rounding, GrantedWithinRate, RefusedWhenSpent, Passed

\* The inductive invariant of the token buckets holds, whatever the capacity,
\* the rate and the steps of the clock.
THEOREM BucketInvariant == BucketSpec => []BucketInv
<1>1. BucketInit => BucketInv BY InitBucket
<1>2. BucketInv /\ [BucketNext]_bucketVars => BucketInv'
  <2> SUFFICES ASSUME BucketInv, [BucketNext]_bucketVars PROVE BucketInv' OBVIOUS
  <2>1. CASE Tick BY <2>1, TickKeepsRate
  <2>2. CASE SetBack BY <2>2, SetBackKeepsRate
  <2>3. ASSUME NEW n \in 1..BucketCapacity, Acquire(n) PROVE BucketInv'
    BY <2>3, AcquireKeepsRate
  <2>4. ASSUME NEW n \in 1..BucketCapacity, AcquireInRedis(n) PROVE BucketInv'
    BY <2>4, AcquireInRedisKeepsRate
  <2>5. CASE UNCHANGED bucketVars BY <2>5, StutterKeepsRate
  <2> QED BY <2>1, <2>2, <2>3, <2>4, <2>5 DEF BucketNext
<1> QED BY <1>1, <1>2, PTL DEF BucketSpec

\* Between any two moments no more is granted than a full bucket and what the
\* time between them makes: _acquire, and the script of redis.
THEOREM RateIsKept == BucketSpec => []GrantedWithinRate
<1>1. BucketInv => GrantedWithinRate BY DEF BucketInv, WindowInv, GrantedWithinRate
<1> QED BY <1>1, BucketInvariant, PTL

\* Asking often eats no time: what was refused twice was granted to somebody.
THEOREM RefusalIsEarned == BucketSpec => []RefusedWhenSpent
<1>1. BucketInv => RefusedWhenSpent BY DEF BucketInv, WindowInv, RefusedWhenSpent
<1> QED BY <1>1, BucketInvariant, PTL
=============================================================================
