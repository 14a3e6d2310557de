----------------------------- MODULE HttpProofs -----------------------------
(***************************************************************************)
(* For any chunk size, any limit of header lines and any messages, however *)
(* they are cut: what both readers of the HTTP transport make of a message *)
(* is what it says.  The text of a packet first, then where a parser is in *)
(* it, then one lemma per action.                                          *)
(***************************************************************************)
EXTENDS HttpParser, Integers, FiniteSetTheorems, WellFoundedInduction, TLAPS

-----------------------------------------------------------------------------
\* Induction, without an operator for what is proved by it.

Below == {pair \in Nat \X Nat : pair[1] < pair[2]}

\* A nonempty set of natural numbers has a least element.
LEMMA LeastNumber ==
    ASSUME NEW T, T \subseteq Nat, T # {}
    PROVE  \E x \in T : \A y \in T : x <= y
<1>1. IsWellFoundedOn(Below, Nat)
  <2>1. IsWellFoundedOn(OpToRel(<, Nat), Nat) BY NatLessThanWellFounded
  <2>2. OpToRel(<, Nat) = Below BY DEF OpToRel, Below
  <2> QED BY <2>1, <2>2
<1>2. PICK x \in T : \A y \in T : <<y, x>> \notin Below BY <1>1, WFMin
<1>3. ASSUME NEW y \in T PROVE x <= y
  <2>1. x \in Nat /\ y \in Nat OBVIOUS
  <2>2. <<y, x>> \notin Below BY <1>2
  <2> QED BY <2>1, <2>2 DEF Below
<1> QED BY <1>3

-----------------------------------------------------------------------------
\* The messages of the HTTP transport.

Symbol == {"status", "request", "junk", "tid", "letters", "length", "other", "long",
           "byte", "CR", "LF"}

\* The lines before the empty one, and where the body begins.
LineCount(m) == Len(m.headers) + 1
LineOf(m, i) == IF i = 1 THEN m.line ELSE m.headers[i - 1]
HeadLength(m) == 3 * LineCount(m) + 2

\* The text of the first lines, as Packet puts it together.
TextBy(m) ==
    LET text[i \in 0..Len(m.headers)] ==
            IF i = 0 THEN <<m.line>> \o Delimiter
            ELSE text[i - 1] \o <<m.headers[i]>> \o Delimiter
    IN  text

\* t is the text of the first n lines.
IsText(m, t, n) ==
    /\ t \in Seq(Symbol) /\ Len(t) = 3 * n
    /\ \A k \in 1..n :
          /\ t[3 * k - 2] = LineOf(m, k)
          /\ t[3 * k - 1] = "CR" /\ t[3 * k] = "LF"

\* The parts of a message are what they are declared to be.
LEMMA MessageTyped ==
    ASSUME NEW m \in Message
    PROVE  /\ Len(m.headers) \in Nat /\ m.line \in Symbol
           /\ m.headers \in Seq(Symbol) /\ m.body \in Seq(Symbol) /\ m.rest \in Seq(Symbol)
           /\ \A i \in 1..Len(m.headers) :
                 m.headers[i] \in {"tid", "letters", "length", "other", "long", "junk"}
           /\ m.line \in {"status", "request", "junk"}
           /\ \A i \in 1..LineCount(m) : LineOf(m, i) \in Symbol \ {"CR", "LF"}
<1>1. /\ m.headers \in Seq({"tid", "letters", "length", "other", "long", "junk"})
      /\ m.body \in Seq({"byte", "CR", "LF"}) /\ m.rest \in Seq({"byte"})
      /\ m.line \in {"status", "request", "junk"}
  BY DEF Message
<1>2. /\ {"tid", "letters", "length", "other", "long", "junk"} \subseteq Symbol
      /\ {"byte", "CR", "LF"} \subseteq Symbol /\ {"byte"} \subseteq Symbol
  BY DEF Symbol
<1>3. \A i \in 1..Len(m.headers) :
         m.headers[i] \in {"tid", "letters", "length", "other", "long", "junk"}
  BY <1>1
<1>4. m.headers \in Seq(Symbol) /\ m.body \in Seq(Symbol) /\ m.rest \in Seq(Symbol)
  BY <1>1, <1>2
<1>5. m.line \in Symbol BY <1>1 DEF Symbol
<1>6. ASSUME NEW i \in 1..LineCount(m) PROVE LineOf(m, i) \in Symbol \ {"CR", "LF"}
  <2>1. CASE i = 1 BY <2>1, <1>1 DEF LineOf, Symbol
  <2>2. CASE i # 1
    <3>1. i - 1 \in 1..Len(m.headers) BY <1>1, <2>2 DEF LineCount
    <3> QED BY <3>1, <1>3, <2>2 DEF LineOf, Symbol
  <2> QED BY <2>1, <2>2
<1> QED BY <1>1, <1>3, <1>4, <1>5, <1>6

\* What a sequence of two parts is.
LEMMA Joined ==
    ASSUME NEW S, NEW a \in Seq(S), NEW b \in Seq(S)
    PROVE  /\ a \o b \in Seq(S) /\ Len(a \o b) = Len(a) + Len(b)
           /\ \A p \in 1..Len(a) : (a \o b)[p] = a[p]
           /\ \A p \in 1..Len(b) : (a \o b)[Len(a) + p] = b[p]
           /\ Len(a) \in Nat /\ Len(b) \in Nat
OBVIOUS

\* The same texts, symbol by symbol.
TextOf(m, i) ==
    [p \in 1..(3 * i + 3) |-> IF p % 3 = 1 THEN LineOf(m, (p + 2) \div 3)
                              ELSE IF p % 3 = 2 THEN "CR" ELSE "LF"]
TextsOf(m) == [i \in 0..Len(m.headers) |-> TextOf(m, i)]

\* The text of some lines is a sequence, of three symbols for each.
LEMMA TextTyped ==
    ASSUME NEW m \in Message, NEW i \in 0..Len(m.headers)
    PROVE  IsText(m, TextOf(m, i), i + 1)
<1> DEFINE t == TextOf(m, i)
<1>1. i \in Nat /\ Len(m.headers) \in Nat BY MessageTyped
<1>2. ASSUME NEW p \in 1..(3 * i + 3) PROVE t[p] \in Symbol
  <2>1. CASE p % 3 = 1
    <3>1. (p + 2) \div 3 \in 1..LineCount(m) BY <1>1, <2>1 DEF LineCount
    <3>2. LineOf(m, (p + 2) \div 3) \in Symbol BY <3>1, MessageTyped
    <3> QED BY <2>1, <3>2 DEF TextOf
  <2>2. CASE p % 3 # 1 BY <2>2 DEF TextOf, Symbol
  <2> QED BY <2>1, <2>2
<1>3. 3 * i + 3 \in Nat /\ 3 * i + 3 = 3 * (i + 1) BY <1>1
<1>4. t \in [1..(3 * i + 3) -> Symbol] BY <1>2 DEF TextOf
<1>5. t \in Seq(Symbol) /\ Len(t) = 3 * (i + 1)
  <2> HIDE DEF t
  <2> QED BY <1>3, <1>4
<1>6. ASSUME NEW k \in 1..(i + 1)
      PROVE  t[3 * k - 2] = LineOf(m, k) /\ t[3 * k - 1] = "CR" /\ t[3 * k] = "LF"
  <2>1. /\ 3 * k - 2 \in 1..(3 * i + 3) /\ 3 * k - 1 \in 1..(3 * i + 3)
        /\ 3 * k \in 1..(3 * i + 3)
    BY <1>1
  <2>2. (3 * k - 2) % 3 = 1 /\ (3 * k - 1) % 3 = 2 /\ (3 * k) % 3 = 0 BY <1>1
  <2>3. ((3 * k - 2) + 2) \div 3 = k BY <1>1
  <2> QED BY <2>1, <2>2, <2>3 DEF TextOf
<1> HIDE DEF t
<1>7. IsText(m, t, i + 1) BY <1>5, <1>6 DEF IsText
<1> QED BY <1>7 DEF t

\* One line more.
LEMMA TextGrows ==
    ASSUME NEW m \in Message, NEW i \in 1..Len(m.headers)
    PROVE  TextOf(m, i) = TextOf(m, i - 1) \o <<m.headers[i]>> \o Delimiter
<1> DEFINE t == TextOf(m, i)
           u == TextOf(m, i - 1)
           l == m.headers[i]
           v == u \o <<l>> \o Delimiter
<1>1. i \in Nat /\ i - 1 \in 0..Len(m.headers) /\ i \in 0..Len(m.headers)
  BY MessageTyped
<1>2. IsText(m, t, i + 1) /\ IsText(m, u, (i - 1) + 1) BY <1>1, TextTyped
<1>3. /\ t \in Seq(Symbol) /\ Len(t) = 3 * i + 3
      /\ u \in Seq(Symbol) /\ Len(u) = 3 * i
  BY <1>1, <1>2 DEF IsText
<1>4. l \in Symbol BY MessageTyped
<1>5. l = LineOf(m, i + 1) BY <1>1 DEF LineOf
<1>6. Delimiter = <<"CR", "LF">> /\ Delimiter \in Seq(Symbol) BY DEF Delimiter, Symbol
<1>7. \A p \in 1..(3 * i) : t[p] = u[p] BY <1>1 DEF TextOf
<1>8. t[3 * i + 1] = l /\ t[3 * i + 2] = "CR" /\ t[3 * i + 3] = "LF"
  <2>1. i + 1 \in 1..(i + 1) /\ 3 * (i + 1) - 2 = 3 * i + 1 /\ 3 * (i + 1) - 1 = 3 * i + 2
        /\ 3 * (i + 1) = 3 * i + 3
    BY <1>1
  <2>2. /\ t[3 * (i + 1) - 2] = LineOf(m, i + 1)
        /\ t[3 * (i + 1) - 1] = "CR" /\ t[3 * (i + 1)] = "LF"
    BY <1>2, <2>1 DEF IsText
  <2> HIDE DEF t
  <2> QED BY <2>1, <2>2, <1>5
<1> HIDE DEF t, u, l
<1>9. /\ v \in Seq(Symbol) /\ Len(v) = 3 * i + 3
      /\ \A p \in 1..(3 * i) : v[p] = u[p]
      /\ v[3 * i + 1] = l /\ v[3 * i + 2] = "CR" /\ v[3 * i + 3] = "LF"
  <2> DEFINE a == u \o <<l>>
  <2>1. /\ a \in Seq(Symbol) /\ Len(a) = 3 * i + 1 /\ a[3 * i + 1] = l
        /\ \A p \in 1..(3 * i) : a[p] = u[p]
    <3> DEFINE e == <<l>>
    <3>1. e \in Seq(Symbol) /\ Len(e) = 1 /\ e[1] = l BY <1>4
    <3>2. u \in Seq(Symbol) /\ e \in Seq(Symbol) BY <1>3, <3>1
    <3> HIDE DEF e
    <3>3. a = u \o e BY DEF e
    <3> HIDE DEF a
    <3>4. /\ a \in Seq(Symbol) /\ Len(a) = Len(u) + Len(e)
          /\ \A p \in 1..Len(u) : a[p] = u[p]
          /\ \A p \in 1..Len(e) : a[Len(u) + p] = e[p]
      BY ONLY <3>2, <3>3, Joined
    <3> QED BY <1>1, <1>3, <3>1, <3>4
  <2> HIDE DEF a
  <2>2. v = a \o Delimiter BY DEF a
  <2> HIDE DEF v
  <2>3. v \in Seq(Symbol) /\ Len(v) = Len(a) + Len(Delimiter)
        /\ (\A p \in 1..Len(a) : v[p] = a[p])
        /\ (\A p \in 1..Len(Delimiter) : v[Len(a) + p] = Delimiter[p])
    <3>1. a \in Seq(Symbol) /\ Delimiter \in Seq(Symbol) BY <2>1, <1>6
    <3> QED BY ONLY <3>1, <2>2, Joined
  <2>4. Len(Delimiter) = 2 /\ Delimiter[1] = "CR" /\ Delimiter[2] = "LF" BY <1>6
  <2> QED BY <2>1, <2>3, <2>4, <1>1
<1> HIDE DEF v
<1>10. \A p \in 1..(3 * i + 3) : t[p] = v[p]
  <2>1. ASSUME NEW p \in 1..(3 * i + 3) PROVE t[p] = v[p]
    <3>1. p \in 1..(3 * i) \/ p = 3 * i + 1 \/ p = 3 * i + 2 \/ p = 3 * i + 3 BY <1>1
    <3> QED BY <3>1, <1>7, <1>8, <1>9
  <2> QED BY <2>1
<1>11. t = v BY <1>1, <1>3, <1>9, <1>10
<1> QED BY <1>11 DEF t, u, l, v

\* The text of a message is that of its lines: the recursion of Packet has a
\* solution, and only one.
LEMMA TextIs ==
    ASSUME NEW m \in Message
    PROVE  IsText(m, TextBy(m)[Len(m.headers)], LineCount(m))
<1> DEFINE w == TextBy(m)
           N == Len(m.headers)
           c == TextsOf(m)
<1>1. N \in Nat BY MessageTyped
<1>2. c[0] = <<m.line>> \o Delimiter
  <2>1. c[0] = TextOf(m, 0) /\ 0 \in 0..N BY <1>1 DEF TextsOf
  <2> DEFINE t == TextOf(m, 0)
             l == m.line
             d == <<m.line>> \o Delimiter
  <2>2. IsText(m, t, 0 + 1) BY <2>1, TextTyped
  <2>3. t \in Seq(Symbol) /\ Len(t) = 3 /\ t[1] = l /\ t[2] = "CR" /\ t[3] = "LF"
    BY <2>2 DEF IsText, LineOf
  <2>4. d \in Seq(Symbol) /\ Len(d) = 3 /\ d[1] = l /\ d[2] = "CR" /\ d[3] = "LF"
    <3> DEFINE a == <<l>>
    <3>1. l \in Symbol BY MessageTyped
    <3> HIDE DEF l
    <3>2. a \in Seq(Symbol) /\ Len(a) = 1 /\ a[1] = l BY <3>1
    <3>3. Delimiter = <<"CR", "LF">> /\ Delimiter \in Seq(Symbol) BY DEF Delimiter, Symbol
    <3>4. Len(Delimiter) = 2 /\ Delimiter[1] = "CR" /\ Delimiter[2] = "LF" BY <3>3
    <3>5. d = a \o Delimiter BY DEF l
    <3> HIDE DEF a, d
    <3>6. /\ d \in Seq(Symbol) /\ Len(d) = Len(a) + Len(Delimiter)
          /\ \A p \in 1..Len(a) : d[p] = a[p]
          /\ \A p \in 1..Len(Delimiter) : d[Len(a) + p] = Delimiter[p]
      BY ONLY <3>2, <3>3, <3>5, Joined
    <3> QED BY <3>2, <3>4, <3>6
  <2> HIDE DEF t, d
  <2>5. t = d BY <2>3, <2>4
  <2> QED BY <2>1, <2>5 DEF t, d
<1>3. c = [i \in 0..N |-> IF i = 0 THEN <<m.line>> \o Delimiter
                          ELSE c[i - 1] \o <<m.headers[i]>> \o Delimiter]
  <2>1. ASSUME NEW i \in 0..N, i # 0
        PROVE  c[i] = c[i - 1] \o <<m.headers[i]>> \o Delimiter
    <3>1. i \in 1..N /\ i - 1 \in 0..N BY <1>1, <2>1
    <3>2. c[i] = TextOf(m, i) /\ c[i - 1] = TextOf(m, i - 1) BY <3>1 DEF TextsOf
    <3> QED BY <3>1, <3>2, TextGrows
  <2>2. c = [i \in 0..N |-> c[i]] BY DEF TextsOf
  <2> HIDE DEF c
  <2> QED BY <2>1, <2>2, <1>2
<1> HIDE DEF c
<1>4. \E f : f = [i \in 0..N |-> IF i = 0 THEN <<m.line>> \o Delimiter
                                 ELSE f[i - 1] \o <<m.headers[i]>> \o Delimiter]
  BY <1>3
<1>5. w = [i \in 0..N |-> IF i = 0 THEN <<m.line>> \o Delimiter
                          ELSE w[i - 1] \o <<m.headers[i]>> \o Delimiter]
  BY <1>4, Zenon DEF TextBy
<1> HIDE DEF w
<1>6. ASSUME NEW i \in 1..N, w[i - 1] = c[i - 1] PROVE w[i] = c[i]
  <2>1. i \in 0..N /\ i # 0 BY <1>1
  <2>2. w[i] = w[i - 1] \o <<m.headers[i]>> \o Delimiter BY <1>5, <2>1
  <2>3. c[i] = c[i - 1] \o <<m.headers[i]>> \o Delimiter BY <1>3, <2>1
  <2> QED BY <2>2, <2>3, <1>6
<1>7. w[0] = c[0] BY <1>1, <1>3, <1>5
<1>8. ASSUME w[N] # c[N] PROVE FALSE
  <2> DEFINE T == {i \in 0..N : w[i] # c[i]}
  <2>1. N \in T BY <1>1, <1>8
  <2>2. T \subseteq Nat BY <1>1
  <2>3. \A i \in 0..N : i \notin T <=> w[i] = c[i] OBVIOUS
  <2>4. \A i \in T : i \in 0..N OBVIOUS
  <2> HIDE DEF T
  <2>5. PICK x \in T : \A y \in T : x <= y BY <2>1, <2>2, LeastNumber
  <2>6. x \in 0..N /\ w[x] # c[x] BY <2>3, <2>4, <2>5
  <2>7. x # 0 BY <2>6, <1>7
  <2>8. x - 1 \in 0..N /\ x - 1 \notin T /\ x \in 1..N BY <2>5, <2>6, <2>7, <1>1
  <2>9. w[x - 1] = c[x - 1] BY <2>3, <2>8
  <2> QED BY <2>6, <2>8, <2>9, <1>6
<1>9. w[N] = TextOf(m, N) BY <1>1, <1>8 DEF c, TextsOf
<1>10. IsText(m, TextOf(m, N), N + 1)
  <2>1. N \in 0..N BY <1>1
  <2> QED BY <2>1, TextTyped
<1> QED BY <1>9, <1>10 DEF w, LineCount

\* Where the lines, the body and what follows are in a packet.
LEMMA PacketIs ==
    ASSUME NEW m \in Message
    PROVE  /\ Packet(m) \in Seq(Symbol)
           /\ Len(Packet(m)) = HeadLength(m) + Len(m.body) + Len(m.rest)
           /\ \A k \in 1..LineCount(m) :
                 /\ Packet(m)[3 * k - 2] = LineOf(m, k)
                 /\ Packet(m)[3 * k - 1] = "CR" /\ Packet(m)[3 * k] = "LF"
           /\ Packet(m)[3 * LineCount(m) + 1] = "CR"
           /\ Packet(m)[3 * LineCount(m) + 2] = "LF"
           /\ \A k \in 1..Len(m.body) : Packet(m)[HeadLength(m) + k] = m.body[k]
           /\ \A k \in 1..Len(m.rest) :
                 Packet(m)[HeadLength(m) + Len(m.body) + k] = m.rest[k]
<1> DEFINE t == TextBy(m)[Len(m.headers)]
           K == LineCount(m)
           P == t \o Delimiter \o m.body \o m.rest
           b == m.body
           r == m.rest
<1>1. Packet(m) = P BY DEF Packet, TextBy
<1>2. IsText(m, t, K) BY TextIs
<1>3. K \in Nat /\ b \in Seq(Symbol) /\ r \in Seq(Symbol) BY MessageTyped DEF LineCount
<1> HIDE DEF t, K, b, r
<1>4. t \in Seq(Symbol) /\ Len(t) = 3 * K BY <1>2 DEF IsText
<1>5. P = t \o Delimiter \o b \o r BY DEF b, r
<1>6. Delimiter = <<"CR", "LF">> /\ Delimiter \in Seq(Symbol) BY DEF Delimiter, Symbol
<1>7. /\ P \in Seq(Symbol) /\ Len(P) = 3 * K + 2 + Len(b) + Len(r)
      /\ \A k \in 1..(3 * K) : P[k] = t[k]
      /\ P[3 * K + 1] = "CR" /\ P[3 * K + 2] = "LF"
      /\ \A k \in 1..Len(b) : P[3 * K + 2 + k] = b[k]
      /\ \A k \in 1..Len(r) : P[3 * K + 2 + Len(b) + k] = r[k]
  <2> DEFINE p == t \o Delimiter
             q == p \o b
  <2>0. Len(Delimiter) = 2 /\ Delimiter[1] = "CR" /\ Delimiter[2] = "LF" BY <1>6
  <2>1. /\ p \in Seq(Symbol) /\ Len(p) = 3 * K + 2
        /\ \A k \in 1..(3 * K) : p[k] = t[k]
        /\ p[3 * K + 1] = "CR" /\ p[3 * K + 2] = "LF"
    <3> HIDE DEF P
    <3>1. /\ p \in Seq(Symbol) /\ Len(p) = Len(t) + Len(Delimiter)
          /\ \A k \in 1..Len(t) : p[k] = t[k]
          /\ \A k \in 1..Len(Delimiter) : p[Len(t) + k] = Delimiter[k]
      BY <1>4, <1>6
    <3> HIDE DEF p
    <3> QED BY <3>1, <2>0, <1>3, <1>4
  <2> HIDE DEF p
  <2>2. /\ q \in Seq(Symbol) /\ Len(q) = Len(p) + Len(b)
        /\ \A k \in 1..Len(p) : q[k] = p[k]
        /\ \A k \in 1..Len(b) : q[Len(p) + k] = b[k]
    BY <1>3, <2>1
  <2> HIDE DEF q
  <2>3. P = q \o r BY <1>5 DEF p, q
  <2> HIDE DEF P
  <2>4. /\ P \in Seq(Symbol) /\ Len(P) = Len(q) + Len(r)
        /\ \A k \in 1..Len(q) : P[k] = q[k]
        /\ \A k \in 1..Len(r) : P[Len(q) + k] = r[k]
    <3>1. q \in Seq(Symbol) /\ r \in Seq(Symbol) BY <1>3, <2>2
    <3> QED BY ONLY <3>1, <2>3, Joined
  <2>5. Len(b) \in Nat /\ Len(r) \in Nat BY <1>3
  <2> QED BY <1>3, <2>1, <2>2, <2>4, <2>5
<1>8. ASSUME NEW k \in 1..K
      PROVE  P[3 * k - 2] = LineOf(m, k) /\ P[3 * k - 1] = "CR" /\ P[3 * k] = "LF"
  <2>1. 3 * k - 2 \in 1..(3 * K) /\ 3 * k - 1 \in 1..(3 * K) /\ 3 * k \in 1..(3 * K)
    BY <1>3
  <2>2. t[3 * k - 2] = LineOf(m, k) /\ t[3 * k - 1] = "CR" /\ t[3 * k] = "LF"
    BY <1>2 DEF IsText
  <2> HIDE DEF P
  <2> QED BY <2>1, <2>2, <1>7
<1>9. HeadLength(m) = 3 * K + 2 BY DEF HeadLength, K
<1> HIDE DEF P
<1> QED BY <1>1, <1>7, <1>8, <1>9 DEF K, b, r

-----------------------------------------------------------------------------
\* Where a parser is in a message.

\* The parts alone, in behaviours of their own.
HttpSpec == HttpInit /\ [][HttpNext]_httpVars

HttpTyped ==
    /\ side \in {"client", "server"}
    /\ phase \in {"idle", "recv", "get", "returned", "raised", "refused"}
    /\ stage \in {"line", "headers", "content", "finished"}
    /\ buffer \in Seq(Symbol) /\ stream \in Seq(Symbol)
    /\ lines \in Nat /\ whole \in BOOLEAN

\* The buffer and the stream hold what was sent after the first symbols.
Follows(pos) ==
    /\ pos + Len(buffer) + Len(stream) <= Len(Packet(message))
    /\ whole <=> pos + Len(buffer) + Len(stream) = Len(Packet(message))
    /\ \A k \in 1..Len(buffer) : buffer[k] = Packet(message)[pos + k]
    /\ \A k \in 1..Len(stream) : stream[k] = Packet(message)[pos + Len(buffer) + k]

\* The first n headers that came.
NamesTo(n) == {message.headers[j] : j \in 1..n}

FirstLine == IF side = "client" THEN "status" ELSE "request"

\* The first line and n headers were read, and all was well with them.
HeadersRead(n) ==
    /\ message.line = FirstLine
    /\ headers = NamesTo(n) \ {"junk"}
    /\ side = "client" => "junk" \notin NamesTo(n)
    /\ side = "server" => lines = n /\ n < MaxHeaderCount /\ "long" \notin NamesTo(n)

AllRead ==
    /\ HeadersRead(Len(message.headers))
    /\ side = "server" => {"tid", "length"} \subseteq headers /\ "letters" \notin headers

AtLine == Follows(0) /\ headers = {} /\ lines = 0 /\ content = NoContent

AtHeaders ==
    /\ content = NoContent
    /\ \E n \in 0..Len(message.headers) : HeadersRead(n) /\ Follows(3 * (n + 1))

AtContent ==
    /\ content = NoContent /\ AllRead /\ "length" \in headers
    /\ Follows(HeadLength(message))

AtEnd ==
    /\ AllRead
    /\ \/ /\ "length" \in headers /\ Follows(HeadLength(message) + Len(message.body))
          /\ content = IF side = "server" /\ message.body = <<>> THEN NoContent
                       ELSE message.body
       \/ side = "client" /\ "length" \notin headers /\ content = NoContent

Reading ==
    /\ message \in Messages
    /\ stage = "line" => AtLine
    /\ stage = "headers" => AtHeaders
    /\ stage = "content" => AtContent
    /\ stage = "finished" => AtEnd

\* A parser receives more only when it lacks something.
Lacking ==
    \/ stage \in {"line", "headers"} /\ Delimiters(buffer) = {}
    \/ stage = "content" /\ ContentMissing

\* The inductive invariant of the parsers.
HttpInv ==
    /\ HttpTyped
    /\ phase = "idle" => /\ stage = "line" /\ buffer = <<>> /\ headers = {} /\ lines = 0
                         /\ content = NoContent
    /\ phase \in {"recv", "get"} => Reading
    /\ phase = "recv" => Lacking
    /\ MessageUnderstood

\* A delimiter is a CR with an LF after it.
LEMMA DelimiterAt ==
    ASSUME NEW b \in Seq(Symbol), NEW i
    PROVE  i \in Delimiters(b) <=>
             i \in 1..(Len(b) - 1) /\ b[i] = "CR" /\ b[i + 1] = "LF"
<1> SUFFICES ASSUME i \in 1..(Len(b) - 1)
             PROVE  SubSeq(b, i, i + 1) = Delimiter <=> b[i] = "CR" /\ b[i + 1] = "LF"
  BY DEF Delimiters
<1> DEFINE j == i + 1
           s == SubSeq(b, i, j)
<1>1. i \in 1..Len(b) /\ j \in 1..Len(b) /\ i \in Nat /\ j - i + 1 = 2
  OBVIOUS
<1>2. s \in Seq(Symbol) /\ Len(s) = 2 /\ s[1] = b[i] /\ s[2] = b[i + 1]
  <2>1. i + 1 - 1 = i /\ i + 2 - 1 = j BY <1>1
  <2> HIDE DEF j
  <2>2. s \in Seq(Symbol) /\ Len(s) = 2 /\ \A k \in 1..2 : s[k] = b[i + k - 1]
    <3>1. s = SubSeq(b, i, j) OBVIOUS
    <3> HIDE DEF s
    <3>2. b \in Seq(Symbol) OBVIOUS
    <3> QED BY ONLY <1>1, <3>1, <3>2
  <2> HIDE DEF s
  <2>3. s[1] = b[i] /\ s[2] = b[j]
    <3>1. s[1] = b[i + 1 - 1] /\ s[2] = b[i + 2 - 1] BY ONLY <2>2
    <3> QED BY ONLY <2>1, <3>1
  <2> QED BY <2>2, <2>3 DEF j
<1> HIDE DEF s
<1> DEFINE d == Delimiter
<1>3. d \in Seq(Symbol) /\ Len(d) = 2 /\ d[1] = "CR" /\ d[2] = "LF"
  BY DEF Delimiter, Symbol
<1> HIDE DEF d
<1>4. s = d <=> s[1] = d[1] /\ s[2] = d[2] BY <1>2, <1>3
<1> QED BY <1>2, <1>3, <1>4 DEF s, d

\* A line ends at its delimiter: the buffer begins with the next line, and the
\* first delimiter in it is the one of this line, wherever the cuts are.
LEMMA LineAhead ==
    ASSUME buffer \in Seq(Symbol), stream \in Seq(Symbol), message \in Message,
           NEW i \in 1..LineCount(message), Follows(3 * (i - 1)), Delimiters(buffer) # {}
    PROVE  /\ FirstDelimiter = 2
           /\ SubSeq(buffer, 1, FirstDelimiter - 1) = <<LineOf(message, i)>>
           /\ Len(buffer) >= 3
<1> DEFINE P == Packet(message)
           l == LineOf(message, i)
           e == 3 * (i - 1)
<1>1. i \in Nat BY MessageTyped DEF LineCount
<1>2. P[3 * i - 2] = l /\ P[3 * i - 1] = "CR" /\ P[3 * i] = "LF" BY PacketIs
<1>3. l \in Symbol \ {"CR", "LF"} BY MessageTyped
<1>4. e + 1 = 3 * i - 2 /\ e + 2 = 3 * i - 1 /\ e + 3 = 3 * i BY <1>1
<1>5. \A k \in 1..Len(buffer) : buffer[k] = P[e + k] BY DEF Follows
<1> HIDE DEF P, l, e
<1>6. PICK d : d \in Delimiters(buffer) OBVIOUS
<1>7. d \in 1..(Len(buffer) - 1) /\ buffer[d] = "CR" BY <1>6, DelimiterAt
<1>8. Len(buffer) \in Nat OBVIOUS
<1>9. d # 1
  <2>1. 1 \in 1..Len(buffer) BY <1>7, <1>8
  <2>2. buffer[1] = l BY <2>1, <1>2, <1>4, <1>5
  <2> QED BY <2>2, <1>3, <1>7
<1>10. Len(buffer) >= 3 BY <1>7, <1>8, <1>9
<1>11. buffer[1] = l /\ buffer[2] = "CR" /\ buffer[3] = "LF"
  BY <1>2, <1>4, <1>5, <1>8, <1>10
<1>12. 2 \in Delimiters(buffer)
  <2>1. 2 \in 1..(Len(buffer) - 1) /\ 2 + 1 = 3 BY <1>8, <1>10
  <2> QED BY <2>1, <1>11, DelimiterAt
<1>13. \A j \in Delimiters(buffer) : 2 <= j /\ j \in Nat
  <2>1. ASSUME NEW j \in Delimiters(buffer) PROVE 2 <= j /\ j \in Nat
    <3>1. j \in 1..(Len(buffer) - 1) /\ buffer[j] = "CR" BY DelimiterAt
    <3>2. j # 1 BY <3>1, <1>3, <1>11
    <3> QED BY <3>1, <3>2, <1>8
  <2> QED BY <2>1
<1>14. FirstDelimiter = 2
  <2>1. \A x \in Delimiters(buffer) :
           (\A j \in Delimiters(buffer) : x <= j) => x = 2
    BY <1>12, <1>13
  <2>2. \A j \in Delimiters(buffer) : 2 <= j BY <1>13
  <2> QED BY <2>1, <2>2, <1>12 DEF FirstDelimiter
<1>15. SubSeq(buffer, 1, 1) = <<l>>
  <2>1. 1 \in 1..Len(buffer) BY <1>8, <1>10
  <2> DEFINE s == SubSeq(buffer, 1, 1)
             t == <<l>>
  <2>2. s \in Seq(Symbol) /\ Len(s) = 1 /\ s[1] = buffer[1] BY <2>1
  <2>3. t \in Seq(Symbol) /\ Len(t) = 1 /\ t[1] = l BY <1>3
  <2> HIDE DEF s, t
  <2>4. s = t BY <2>2, <2>3, <1>11
  <2> QED BY <2>4 DEF s, t
<1>16. 2 - 1 = 1 OBVIOUS
<1> QED BY <1>10, <1>14, <1>15, <1>16 DEF l

\* The empty line ends where it begins.
LEMMA EmptyLineAhead ==
    ASSUME buffer \in Seq(Symbol), stream \in Seq(Symbol), message \in Message,
           Follows(3 * LineCount(message)), Delimiters(buffer) # {}
    PROVE  /\ FirstDelimiter = 1
           /\ SubSeq(buffer, 1, FirstDelimiter - 1) = <<>>
           /\ Len(buffer) >= 2
<1> DEFINE P == Packet(message)
           e == 3 * LineCount(message)
<1>1. P[e + 1] = "CR" /\ P[e + 2] = "LF" BY PacketIs
<1>2. \A k \in 1..Len(buffer) : buffer[k] = P[e + k] BY DEF Follows
<1> HIDE DEF P, e
<1>3. PICK d : d \in Delimiters(buffer) OBVIOUS
<1>4. d \in 1..(Len(buffer) - 1) BY <1>3, DelimiterAt
<1>5. Len(buffer) \in Nat /\ Len(buffer) >= 2 BY <1>4
<1>6. 1 \in Delimiters(buffer)
  <2>1. buffer[1] = "CR" /\ buffer[2] = "LF" BY <1>1, <1>2, <1>5
  <2>2. 1 \in 1..(Len(buffer) - 1) /\ 1 + 1 = 2 BY <1>5
  <2> QED BY <2>1, <2>2, DelimiterAt
<1>7. \A j \in Delimiters(buffer) : 1 <= j /\ j \in Nat
  <2>1. ASSUME NEW j \in Delimiters(buffer) PROVE 1 <= j /\ j \in Nat
    <3>1. j \in 1..(Len(buffer) - 1) BY DelimiterAt
    <3> QED BY <3>1, <1>5
  <2> QED BY <2>1
<1>8. FirstDelimiter = 1
  <2>1. \A x \in Delimiters(buffer) :
           (\A j \in Delimiters(buffer) : x <= j) => x = 1
    BY <1>6, <1>7
  <2>2. \A j \in Delimiters(buffer) : 1 <= j BY <1>7
  <2> QED BY <2>1, <2>2, <1>6 DEF FirstDelimiter
<1>9. SubSeq(buffer, 1, 0) = <<>> OBVIOUS
<1>10. 1 - 1 = 0 OBVIOUS
<1> QED BY <1>5, <1>8, <1>9, <1>10

\* What is taken off the front of the buffer moves the place where it begins.
LEMMA BufferMoves ==
    ASSUME HttpTyped, NEW pos \in Nat, Follows(pos), NEW n \in 0..Len(buffer),
           buffer' = SubSeq(buffer, n + 1, Len(buffer)), stream' = stream,
           message' = message, whole' = whole, NEW q, q = pos + n
    PROVE  /\ buffer' \in Seq(Symbol) /\ Follows(q)'
<1> DEFINE P == Packet(message)
           b == buffer'
<1>1. buffer \in Seq(Symbol) /\ stream \in Seq(Symbol) BY DEF HttpTyped
<1>2. Len(buffer) \in Nat /\ Len(stream) \in Nat /\ n \in Nat BY <1>1
<1>3. /\ b \in Seq(Symbol) /\ Len(b) = Len(buffer) - n
      /\ \A k \in 1..Len(b) : b[k] = buffer[n + k]
  <2>1. b = SubSeq(buffer, n + 1, Len(buffer)) OBVIOUS
  <2> HIDE DEF b
  <2> QED BY <2>1, <1>1, <1>2
<1>4. P' = P BY DEF Packet
<1>5. /\ pos + Len(buffer) + Len(stream) <= Len(P)
      /\ whole <=> pos + Len(buffer) + Len(stream) = Len(P)
      /\ \A k \in 1..Len(buffer) : buffer[k] = P[pos + k]
      /\ \A k \in 1..Len(stream) : stream[k] = P[pos + Len(buffer) + k]
  BY DEF Follows
<1> HIDE DEF P, b
<1>6. q + Len(b) + Len(stream) = pos + Len(buffer) + Len(stream)
      /\ q + Len(b) = pos + Len(buffer)
  <2>1. q = pos + n /\ Len(b) = Len(buffer) - n /\ pos \in Nat BY <1>3
  <2> QED BY ONLY <2>1, <1>2
<1>7. \A k \in 1..Len(b) : b[k] = P[q + k]
  <2>1. ASSUME NEW k \in 1..Len(b) PROVE b[k] = P[q + k]
    <3>1. n + k \in 1..Len(buffer) /\ pos + (n + k) = q + k BY <1>2, <1>3
    <3>2. b[k] = buffer[n + k] BY <1>3
    <3>3. buffer[n + k] = P[pos + (n + k)] BY <1>5, <3>1
    <3> QED BY <3>1, <3>2, <3>3
  <2> QED BY <2>1
<1>8. \A k \in 1..Len(stream) : stream[k] = P[q + Len(b) + k]
  BY <1>5, <1>6
<1>9. /\ q + Len(b) + Len(stream') <= Len(P')
      /\ whole' <=> q + Len(b) + Len(stream') = Len(P')
  BY <1>4, <1>5, <1>6
<1>10. \A k \in 1..Len(b) : b[k] = P'[q + k] BY <1>4, <1>7
<1>11. \A k \in 1..Len(stream') : stream'[k] = P'[q + Len(b) + k] BY <1>4, <1>8
<1>12. Follows(q)' BY <1>9, <1>10, <1>11 DEF Follows, P, b
<1> QED BY <1>3, <1>12 DEF b

\* What Complete says, in terms of the headers read.
LEMMA CompleteIs ==
    ASSUME message \in Message
    PROVE  Complete <=>
             /\ {"tid", "length"} \subseteq NamesTo(Len(message.headers))
             /\ "letters" \notin NamesTo(Len(message.headers))
             /\ message.line = FirstLine
             /\ side = "client" => "junk" \notin NamesTo(Len(message.headers))
             /\ side # "client" => /\ "long" \notin NamesTo(Len(message.headers))
                                   /\ Len(message.headers) < MaxHeaderCount
<1> DEFINE names == {message.headers[i] : i \in DOMAIN message.headers}
           read == NamesTo(Len(message.headers))
<1>1. DOMAIN message.headers = 1..Len(message.headers) BY MessageTyped
<1>2. names = read BY <1>1 DEF NamesTo
<1>3. Complete <=> /\ {"tid", "length"} \subseteq names /\ "letters" \notin names
                   /\ IF side = "client" THEN message.line = "status" /\ "junk" \notin names
                      ELSE /\ message.line = "request" /\ "long" \notin names
                           /\ Len(message.headers) < MaxHeaderCount
  BY DEF Complete
<1> HIDE DEF names
<1>4. CASE side = "client" BY <1>2, <1>3, <1>4 DEF FirstLine
<1>5. CASE side # "client" BY <1>2, <1>3, <1>5 DEF FirstLine
<1> QED BY <1>4, <1>5

\* What has arrived moves from the stream into the buffer.
LEMMA StreamMoves ==
    ASSUME HttpTyped, NEW pos \in Nat, Follows(pos), NEW n \in 0..Len(stream),
           buffer' = buffer \o SubSeq(stream, 1, n),
           stream' = SubSeq(stream, n + 1, Len(stream)),
           message' = message, whole' = whole
    PROVE  Follows(pos)'
<1> DEFINE P == Packet(message)
           b == buffer'
           s == stream'
           u == SubSeq(stream, 1, n)
<1>1. buffer \in Seq(Symbol) /\ stream \in Seq(Symbol) BY DEF HttpTyped
<1>2. Len(buffer) \in Nat /\ Len(stream) \in Nat /\ n \in Nat /\ n <= Len(stream) BY <1>1
<1>3. /\ s \in Seq(Symbol) /\ Len(s) = Len(stream) - n
      /\ \A k \in 1..Len(s) : s[k] = stream[n + k]
  <2>1. s = SubSeq(stream, n + 1, Len(stream)) OBVIOUS
  <2> HIDE DEF s
  <2> QED BY <2>1, <1>1, <1>2
<1>4. u \in Seq(Symbol) /\ Len(u) = n /\ \A k \in 1..n : u[k] = stream[k]
  BY <1>1, <1>2
<1> HIDE DEF u
<1>5. /\ b \in Seq(Symbol) /\ Len(b) = Len(buffer) + n
      /\ \A k \in 1..Len(buffer) : b[k] = buffer[k]
      /\ \A k \in 1..n : b[Len(buffer) + k] = u[k]
  <2>1. b = buffer \o u BY DEF u
  <2> HIDE DEF b
  <2>2. /\ b \in Seq(Symbol) /\ Len(b) = Len(buffer) + Len(u)
        /\ \A p \in 1..Len(buffer) : b[p] = buffer[p]
        /\ \A p \in 1..Len(u) : b[Len(buffer) + p] = u[p]
    <3>1. buffer \in Seq(Symbol) /\ u \in Seq(Symbol) BY <1>1, <1>4
    <3> QED BY ONLY <3>1, <2>1, Joined
  <2> QED BY <2>2, <1>4
<1>6. P' = P BY DEF Packet
<1>7. /\ pos + Len(buffer) + Len(stream) <= Len(P)
      /\ whole <=> pos + Len(buffer) + Len(stream) = Len(P)
      /\ \A k \in 1..Len(buffer) : buffer[k] = P[pos + k]
      /\ \A k \in 1..Len(stream) : stream[k] = P[pos + Len(buffer) + k]
  BY DEF Follows
<1> HIDE DEF P, b, s
<1>8. pos + Len(b) + Len(s) = pos + Len(buffer) + Len(stream)
  <2>1. Len(b) = Len(buffer) + n /\ Len(s) = Len(stream) - n /\ pos \in Nat BY <1>3, <1>5
  <2> QED BY ONLY <2>1, <1>2
<1>9. ASSUME NEW k \in 1..Len(b) PROVE b[k] = P[pos + k]
  <2>1. CASE k <= Len(buffer) BY <2>1, <1>2, <1>5, <1>7
  <2>2. CASE k > Len(buffer)
    <3> DEFINE j == k - Len(buffer)
    <3>1. j \in 1..n /\ Len(buffer) + j = k /\ pos + Len(buffer) + j = pos + k
          /\ j \in 1..Len(stream)
      BY <2>2, <1>2, <1>5
    <3> HIDE DEF j
    <3>2. b[Len(buffer) + j] = u[j] /\ u[j] = stream[j] BY <3>1, <1>4, <1>5
    <3>3. stream[j] = P[pos + Len(buffer) + j] BY <3>1, <1>7
    <3> QED BY <3>1, <3>2, <3>3
  <2> QED BY <2>1, <2>2, <1>2, <1>5
<1>10. ASSUME NEW k \in 1..Len(s) PROVE s[k] = P[pos + Len(b) + k]
  <2>1. n + k \in 1..Len(stream) BY <1>2, <1>3
  <2>2. pos + Len(buffer) + (n + k) = pos + Len(b) + k
    <3>1. Len(b) = Len(buffer) + n /\ pos \in Nat /\ k \in Nat BY <1>2, <1>3, <1>5
    <3> QED BY ONLY <3>1, <1>2
  <2>3. s[k] = stream[n + k] BY <1>3
  <2>4. stream[n + k] = P[pos + Len(buffer) + (n + k)] BY <1>7, <2>1
  <2> QED BY <2>2, <2>3, <2>4
<1>11. /\ pos + Len(b) + Len(s) <= Len(P') /\ (whole' <=> pos + Len(b) + Len(s) = Len(P'))
       /\ (\A k \in 1..Len(b) : b[k] = P'[pos + k])
       /\ (\A k \in 1..Len(s) : s[k] = P'[pos + Len(b) + k])
  BY <1>6, <1>7, <1>8, <1>9, <1>10
<1> QED BY <1>11 DEF Follows, P, b, s

\* A read() begins.
LEMMA ReadStartsKeepsHttp ==
    ASSUME HttpInv, ReadStarts
    PROVE  HttpInv'
<1> USE HttpAssumption
<1>1. /\ phase = "idle" /\ phase' = "recv"
      /\ side' = side /\ buffer' = buffer /\ stage' = stage /\ headers' = headers
      /\ lines' = lines /\ content' = content
  BY DEF ReadStarts
<1>2. PICK m \in Messages : \E n \in 0..Len(Packet(m)) :
          /\ message' = m /\ stream' = SubSeq(Packet(m), 1, n)
          /\ whole' = (n = Len(Packet(m)))
  BY DEF ReadStarts
<1> DEFINE P == Packet(m)
<1>3. PICK n \in 0..Len(P) :
          /\ message' = m /\ stream' = SubSeq(P, 1, n) /\ whole' = (n = Len(P))
  BY <1>2
<1>4. HttpTyped /\ stage = "line" /\ buffer = <<>> /\ headers = {} /\ lines = 0
      /\ content = NoContent
  BY <1>1 DEF HttpInv
<1>5. m \in Message OBVIOUS
<1>6. P \in Seq(Symbol) /\ Len(P) \in Nat BY <1>5, PacketIs
<1>7. Packet(message)' = P BY <1>3 DEF Packet
<1> HIDE DEF P
<1>8. stream' \in Seq(Symbol) /\ Len(stream') = n /\ \A k \in 1..n : stream'[k] = P[k]
  BY <1>3, <1>6
<1>9. whole' \in BOOLEAN /\ (whole' <=> n = Len(P)) BY <1>3
<1>10. HttpTyped' BY <1>1, <1>4, <1>8, <1>9 DEF HttpTyped
<1>11. Follows(0)'
  <2>1. Len(buffer') = 0 BY <1>1, <1>4
  <2>2. 0 + Len(buffer') + Len(stream') = n BY <1>6, <1>8, <2>1
  <2>3. n <= Len(P) BY <1>6
  <2>4. \A k \in 1..Len(buffer') : buffer'[k] = P[0 + k] BY <2>1
  <2>5. \A k \in 1..Len(stream') : stream'[k] = P[0 + Len(buffer') + k]
    BY <2>1, <1>6, <1>8
  <2> QED BY <2>2, <2>3, <2>4, <2>5, <1>7, <1>9 DEF Follows
<1>12. Reading'
  <2>1. AtLine' BY <1>1, <1>4, <1>11 DEF AtLine, NoContent
  <2> QED BY <2>1, <1>1, <1>3, <1>4 DEF Reading
<1>13. Lacking'
  <2>1. Delimiters(buffer') = {}
    <3>1. Len(buffer') = 0 BY <1>1, <1>4
    <3> QED BY <3>1 DEF Delimiters
  <2> QED BY <2>1, <1>1, <1>4 DEF Lacking
<1>14. MessageUnderstood' BY <1>1 DEF MessageUnderstood
<1> QED BY <1>1, <1>10, <1>12, <1>13, <1>14 DEF HttpInv

\* What is there when all of a message is has a delimiter before its body.
LEMMA DelimiterComes ==
    ASSUME HttpTyped, message \in Message, whole, stream = <<>>,
           NEW i \in 1..(LineCount(message) + 1), Follows(3 * (i - 1))
    PROVE  Delimiters(buffer) # {}
<1> DEFINE P == Packet(message)
           e == 3 * (i - 1)
           K == LineCount(message)
<1>1. buffer \in Seq(Symbol) /\ Len(buffer) \in Nat /\ Len(stream) = 0
  BY DEF HttpTyped
<1>2. K \in Nat /\ Len(message.body) \in Nat /\ Len(message.rest) \in Nat
  BY MessageTyped DEF LineCount
<1>3. Len(P) = 3 * K + 2 + Len(message.body) + Len(message.rest)
  BY PacketIs DEF HeadLength
<1>4. e + Len(buffer) = Len(P) /\ \A k \in 1..Len(buffer) : buffer[k] = P[e + k]
  <2>1. whole <=> e + Len(buffer) + Len(stream) = Len(P) BY DEF Follows
  <2>2. \A k \in 1..Len(buffer) : buffer[k] = P[e + k] BY DEF Follows
  <2>3. e \in Int BY <1>2
  <2> HIDE DEF P, e
  <2> QED BY <1>1, <2>1, <2>2, <2>3
<1>5. e \in Int /\ Len(P) \in Int BY <1>2, <1>3
<1>6. CASE i <= K
  <2>1. P[3 * i - 1] = "CR" /\ P[3 * i] = "LF"
    <3>1. message \in Message /\ i \in 1..K BY <1>2, <1>6
    <3> QED BY ONLY <3>1, PacketIs
  <2>2. e + 2 = 3 * i - 1 /\ e + 3 = 3 * i /\ e + 3 <= 3 * K BY <1>2, <1>6
  <2>3. e + 3 <= Len(P)
    <3> DEFINE x == Len(message.body)
               y == Len(message.rest)
               L == Len(P)
    <3>1. L = 3 * K + 2 + x + y BY <1>3
    <3>2. K \in Nat /\ x \in Nat /\ y \in Nat /\ e \in Int BY <1>2, <1>5
    <3> HIDE DEF P, e, K, L, x, y
    <3>3. 3 * K <= L BY ONLY <3>1, <3>2
    <3>4. e + 3 <= L BY ONLY <2>2, <3>1, <3>2, <3>3
    <3> QED BY <3>4 DEF L
  <2>4. P[e + 2] = "CR" /\ P[e + 3] = "LF" BY <2>1, <2>2
  <2> HIDE DEF P, e, K
  <2>5. Len(buffer) >= 3 BY ONLY <1>1, <1>4, <1>5, <2>3
  <2>6. 2 \in 1..(Len(buffer) - 1) /\ 3 \in 1..Len(buffer) /\ 2 + 1 = 3
        /\ 2 \in 1..Len(buffer)
    BY ONLY <1>1, <2>5
  <2>7. buffer[2] = "CR" /\ buffer[3] = "LF" BY ONLY <1>4, <2>4, <2>6
  <2>8. 2 \in Delimiters(buffer) BY <1>1, <2>6, <2>7, DelimiterAt
  <2> QED BY <2>8
<1>7. CASE i = K + 1
  <2>1. P[3 * K + 1] = "CR" /\ P[3 * K + 2] = "LF" BY PacketIs
  <2>2. e = 3 * K BY <1>2, <1>7
  <2>3. e + 2 <= Len(P)
    <3> DEFINE x == Len(message.body)
               y == Len(message.rest)
               L == Len(P)
    <3>1. L = 3 * K + 2 + x + y BY <1>3
    <3>2. K \in Nat /\ x \in Nat /\ y \in Nat BY <1>2
    <3> HIDE DEF P, e, K, L, x, y
    <3>3. 3 * K + 2 <= L BY ONLY <3>1, <3>2
    <3>4. e + 2 <= L BY <2>2, <3>3
    <3> QED BY <3>4 DEF L
  <2>4. P[e + 1] = "CR" /\ P[e + 2] = "LF" BY <2>1, <2>2
  <2> HIDE DEF P, e, K
  <2>5. Len(buffer) >= 2 BY ONLY <1>1, <1>4, <1>5, <2>3
  <2>6. 1 \in 1..(Len(buffer) - 1) /\ 2 \in 1..Len(buffer) /\ 1 + 1 = 2
        /\ 1 \in 1..Len(buffer)
    BY ONLY <1>1, <2>5
  <2>7. buffer[1] = "CR" /\ buffer[2] = "LF" BY ONLY <1>4, <2>4, <2>6
  <2>8. 1 \in Delimiters(buffer) BY <1>1, <2>6, <2>7, DelimiterAt
  <2> QED BY <2>8
<1> QED BY <1>2, <1>6, <1>7

\* The stages other than the parser's place in the message stay as they are.
LEMMA StaysThere ==
    ASSUME HttpInv, message \in Message, phase \in {"recv", "get"},
           UNCHANGED <<input, stage, headers, lines, content>>,
           \A pos \in Nat : Follows(pos) => Follows(pos)'
    PROVE  Reading'
<1>1. /\ message' = message /\ side' = side /\ stage' = stage /\ headers' = headers
      /\ lines' = lines /\ content' = content
  BY DEF input
<1>2. Reading BY DEF HttpInv
<1>3. Len(message.headers) \in Nat /\ Len(message.body) \in Nat BY MessageTyped
<1>4. \A n : HeadersRead(n) => HeadersRead(n)'
  BY <1>1 DEF HeadersRead, FirstLine, NamesTo
<1>5. AllRead => AllRead' BY <1>1, <1>4 DEF AllRead
<1>6. HeadLength(message) \in Nat /\ HeadLength(message)' = HeadLength(message)
  BY <1>1, <1>3 DEF HeadLength, LineCount
<1>7. AtLine => AtLine'
  <2>1. 0 \in Nat OBVIOUS
  <2> QED BY <2>1, <1>1 DEF AtLine, NoContent
<1>8. AtHeaders => AtHeaders'
  <2> SUFFICES ASSUME AtHeaders PROVE AtHeaders' OBVIOUS
  <2>1. PICK n \in 0..Len(message.headers) : HeadersRead(n) /\ Follows(3 * (n + 1))
    BY DEF AtHeaders
  <2> DEFINE q == 3 * (n + 1)
  <2>2. q \in Nat /\ Follows(q) BY <2>1, <1>3
  <2> HIDE DEF q
  <2>3. Follows(q)' /\ HeadersRead(n)' BY <2>1, <2>2, <1>4
  <2>4. n \in 0..Len(message'.headers) BY <1>1
  <2>5. content' = NoContent BY <1>1 DEF AtHeaders
  <2> QED BY <2>3, <2>4, <2>5 DEF AtHeaders, q, NoContent
<1>9. AtContent => AtContent' BY <1>1, <1>5, <1>6 DEF AtContent, NoContent
<1>10. AtEnd => AtEnd'
  <2> SUFFICES ASSUME AtEnd PROVE AtEnd' OBVIOUS
  <2> DEFINE q == HeadLength(message) + Len(message.body)
  <2>1. q \in Nat /\ q' = q BY <1>1, <1>3, <1>6
  <2> HIDE DEF q
  <2>2. Follows(q) => Follows(q)' BY <2>1
  <2>3. Follows(q)' => (Follows(HeadLength(message) + Len(message.body)))'
    BY <2>1 DEF q
  <2> QED BY <2>2, <2>3, <1>1, <1>5 DEF AtEnd, q, NoContent
<1> QED BY <1>1, <1>2, <1>7, <1>8, <1>9, <1>10 DEF Reading

\* Neither the message nor who reads it changes before the next read().
LEMMA InputKept ==
    ASSUME UNCHANGED input
    PROVE  /\ message' = message /\ side' = side /\ whole' = whole
           /\ Complete' <=> Complete
           /\ HeadLength(message)' = HeadLength(message)
           /\ Len(message.headers)' = Len(message.headers)
           /\ \A n : NamesTo(n)' = NamesTo(n)
           /\ FirstLine' = FirstLine
<1>1. message' = message /\ side' = side /\ whole' = whole BY DEF input
<1>2. Complete' <=> Complete BY <1>1 DEF Complete
<1>3. HeadLength(message)' = HeadLength(message) BY <1>1 DEF HeadLength, LineCount
<1>4. \A n : NamesTo(n)' = NamesTo(n) BY <1>1 DEF NamesTo
<1>5. FirstLine' = FirstLine BY <1>1 DEF FirstLine
<1> QED BY <1>1, <1>2, <1>3, <1>4, <1>5

\* When all of a message has come, nothing is lacking.
LEMMA NothingLacks ==
    ASSUME HttpTyped, Reading, whole, stream = <<>>
    PROVE  ~Lacking
<1> USE HttpAssumption
<1>1. message \in Message BY DEF Reading
<1>2. Len(message.headers) \in Nat /\ LineCount(message) = Len(message.headers) + 1
  BY <1>1, MessageTyped DEF LineCount
<1>3. stage = "line" => Delimiters(buffer) # {}
  <2> SUFFICES ASSUME stage = "line" PROVE Delimiters(buffer) # {} OBVIOUS
  <2>1. Follows(0) /\ 3 * (1 - 1) = 0 BY DEF Reading, AtLine
  <2>2. Follows(3 * (1 - 1)) BY <2>1
  <2>3. 1 \in 1..(LineCount(message) + 1) BY <1>2
  <2> QED BY <1>1, <2>2, <2>3, DelimiterComes
<1>4. stage = "headers" => Delimiters(buffer) # {}
  <2> SUFFICES ASSUME stage = "headers" PROVE Delimiters(buffer) # {} OBVIOUS
  <2>1. PICK n \in 0..Len(message.headers) : Follows(3 * (n + 1)) BY DEF Reading, AtHeaders
  <2> DEFINE i == n + 2
  <2>2. i \in 1..(LineCount(message) + 1) /\ n + 1 = i - 1 BY <1>2
  <2>3. Follows(3 * (i - 1)) BY <2>1, <2>2
  <2> HIDE DEF i
  <2> QED BY <1>1, <2>2, <2>3, DelimiterComes
<1>5. stage = "content" => ~ContentMissing
  <2> SUFFICES ASSUME stage = "content" PROVE ~ContentMissing OBVIOUS
  <2> DEFINE P == Packet(message)
             h == HeadLength(message)
             x == Len(message.body)
             y == Len(message.rest)
             z == Len(buffer)
             L == Len(P)
  <2>1. Follows(h) BY DEF Reading, AtContent
  <2>2. L = h + x + y BY <1>1, PacketIs
  <2>3. h \in Nat /\ x \in Nat /\ y \in Nat
    BY <1>1, <1>2, MessageTyped DEF HeadLength
  <2>4. z \in Nat /\ Len(stream) = 0 BY DEF HttpTyped
  <2>5. h + z + Len(stream) = L BY <2>1 DEF Follows
  <2> HIDE DEF P, h, x, y, z, L
  <2>6. ~(z < x) BY ONLY <2>2, <2>3, <2>4, <2>5
  <2> QED BY <2>6 DEF ContentMissing, z, x
<1> QED BY <1>3, <1>4, <1>5 DEF Lacking

\* More is received.
LEMMA RecvKeepsHttp ==
    ASSUME HttpInv, Recv
    PROVE  HttpInv'
<1> USE HttpAssumption
<1>1. /\ phase = "recv" /\ UNCHANGED <<input, stage, headers, lines, content>>
      /\ phase' = IF side = "server" /\ stream = <<>> THEN "refused" ELSE "get"
  BY DEF Recv
<1>2. PICK n \in 0..ChunkSize :
          /\ n <= Len(stream)
          /\ buffer' = buffer \o SubSeq(stream, 1, n)
          /\ stream' = SubSeq(stream, n + 1, Len(stream))
  BY DEF Recv
<1>3. HttpTyped /\ Reading /\ Lacking BY <1>1 DEF HttpInv
<1>4. buffer \in Seq(Symbol) /\ stream \in Seq(Symbol) BY <1>3 DEF HttpTyped
<1>5. n \in 0..Len(stream) BY <1>2, <1>4
<1>6. /\ message \in Message /\ message' = message /\ side' = side /\ whole' = whole
      /\ Complete' <=> Complete
  BY <1>1, <1>3, InputKept DEF Reading
<1>7. \A pos \in Nat : Follows(pos) => Follows(pos)'
  <2>1. ASSUME NEW pos \in Nat, Follows(pos) PROVE Follows(pos)'
    BY <2>1, <1>2, <1>3, <1>5, <1>6, StreamMoves
  <2> QED BY <2>1
<1>8. HttpTyped'
  <2> DEFINE u == SubSeq(stream, 1, n)
             v == SubSeq(stream, n + 1, Len(stream))
  <2>1. u \in Seq(Symbol) /\ v \in Seq(Symbol) BY <1>4, <1>5
  <2>2. buffer' = buffer \o u /\ stream' = v BY <1>2
  <2> HIDE DEF u, v
  <2>3. buffer' \in Seq(Symbol) /\ stream' \in Seq(Symbol) BY <1>4, <2>1, <2>2, Joined
  <2>4. phase' \in {"idle", "recv", "get", "returned", "raised", "refused"} BY <1>1
  <2>5. stage' = stage /\ lines' = lines BY <1>1
  <2> QED BY <1>3, <1>6, <2>3, <2>4, <2>5 DEF HttpTyped
<1>9. Reading'
  <2>1. phase \in {"recv", "get"} BY <1>1
  <2> QED BY <1>1, <1>6, <1>7, <2>1, StaysThere
<1>10. MessageUnderstood'
  <2>1. CASE side = "server" /\ stream = <<>>
    <3>1. ~whole BY <1>3, <2>1, NothingLacks
    <3>2. phase' = "refused" BY <1>1, <2>1
    <3> QED BY <3>1, <3>2, <1>6 DEF MessageUnderstood
  <2>2. CASE ~(side = "server" /\ stream = <<>>)
    <3>1. phase' = "get" BY <1>1, <2>2
    <3> QED BY <3>1 DEF MessageUnderstood
  <2> QED BY <2>1, <2>2
<1>11. phase' # "idle" /\ phase' # "recv" BY <1>1
<1> QED BY <1>8, <1>9, <1>10, <1>11 DEF HttpInv

\* What has come is not enough.
LEMMA UncompleteKeepsHttp ==
    ASSUME HttpInv, Uncomplete
    PROVE  HttpInv'
<1> USE HttpAssumption
<1>1. /\ phase = "get" /\ phase' = "recv"
      /\ UNCHANGED <<input, stage, headers, lines, content>>
      /\ buffer' = buffer /\ stream' = stream
      /\ Lacking
  BY DEF Uncomplete, Lacking
<1>2. HttpTyped /\ Reading BY <1>1 DEF HttpInv
<1>3. /\ message \in Message /\ message' = message /\ side' = side /\ whole' = whole
  BY <1>1, <1>2, InputKept DEF Reading
<1>4. \A pos \in Nat : Follows(pos) => Follows(pos)'
  BY <1>1, <1>3 DEF Follows
<1>5. Reading'
  <2>1. phase \in {"recv", "get"} BY <1>1
  <2> QED BY <1>1, <1>3, <1>4, <2>1, StaysThere
<1>6. HttpTyped' BY <1>1, <1>2, <1>3 DEF HttpTyped
<1>7. Lacking'
  <2>1. stage' = stage BY <1>1
  <2> QED BY <1>1, <1>3, <2>1 DEF Lacking, ContentMissing, Delimiters
<1> QED BY <1>1, <1>5, <1>6, <1>7 DEF HttpInv, MessageUnderstood

\* A line is taken, with its delimiter.
LEMMA LineTaken ==
    ASSUME HttpTyped, message \in Message, NEW i \in 1..LineCount(message),
           Follows(3 * (i - 1)), Delimiters(buffer) # {},
           buffer' = Consumed(FirstDelimiter), stream' = stream,
           message' = message, whole' = whole
    PROVE  /\ SubSeq(buffer, 1, FirstDelimiter - 1) = <<LineOf(message, i)>>
           /\ buffer' \in Seq(Symbol) /\ Follows(3 * i)'
<1>1. buffer \in Seq(Symbol) /\ stream \in Seq(Symbol) BY DEF HttpTyped
<1>2. /\ FirstDelimiter = 2 /\ Len(buffer) >= 3
      /\ SubSeq(buffer, 1, FirstDelimiter - 1) = <<LineOf(message, i)>>
  BY <1>1, LineAhead
<1>3. i \in Nat \ {0} BY MessageTyped DEF LineCount
<1>4. Len(Delimiter) = 2 BY DEF Delimiter
<1>5. buffer' = SubSeq(buffer, 3 + 1, Len(buffer)) BY <1>2, <1>4 DEF Consumed
<1> DEFINE e == 3 * (i - 1)
           q == 3 * i
<1>6. e \in Nat /\ q = e + 3 BY <1>3
<1>7. Follows(e) OBVIOUS
<1> HIDE DEF e, q
<1>8. 3 \in 0..Len(buffer) BY <1>1, <1>2
<1>9. buffer' \in Seq(Symbol) /\ Follows(q)' BY <1>5, <1>6, <1>7, <1>8, BufferMoves
<1> QED BY <1>2, <1>9 DEF q

\* The empty line is taken, and the body begins.
LEMMA EmptyLineTaken ==
    ASSUME HttpTyped, message \in Message, Follows(3 * LineCount(message)),
           Delimiters(buffer) # {},
           buffer' = Consumed(FirstDelimiter), stream' = stream,
           message' = message, whole' = whole
    PROVE  /\ SubSeq(buffer, 1, FirstDelimiter - 1) = <<>>
           /\ buffer' \in Seq(Symbol) /\ Follows(HeadLength(message))'
<1>1. buffer \in Seq(Symbol) /\ stream \in Seq(Symbol) BY DEF HttpTyped
<1>2. /\ FirstDelimiter = 1 /\ Len(buffer) >= 2
      /\ SubSeq(buffer, 1, FirstDelimiter - 1) = <<>>
  BY <1>1, EmptyLineAhead
<1>3. LineCount(message) \in Nat BY MessageTyped DEF LineCount
<1>4. Len(Delimiter) = 2 BY DEF Delimiter
<1>5. buffer' = SubSeq(buffer, 2 + 1, Len(buffer)) BY <1>2, <1>4 DEF Consumed
<1> DEFINE e == 3 * LineCount(message)
           q == HeadLength(message)
<1>6. e \in Nat /\ q = e + 2 BY <1>3 DEF HeadLength
<1>7. Follows(e) OBVIOUS
<1>8. q' = q BY DEF HeadLength, LineCount
<1>9. 2 \in 0..Len(buffer) BY <1>1, <1>2
<1>10. \A d \in Nat : \A p : d = e /\ p = q => buffer' \in Seq(Symbol) /\ Follows(p)'
  <2>1. ASSUME NEW d \in Nat, NEW p, d = e, p = q
        PROVE  buffer' \in Seq(Symbol) /\ Follows(p)'
    <3>1. Follows(d) /\ p = d + 2 BY <2>1, <1>6, <1>7
    <3> HIDE DEF e, q
    <3> QED BY <1>5, <1>9, <3>1, BufferMoves
  <2> QED BY <2>1
<1> HIDE DEF e, q
<1>11. buffer' \in Seq(Symbol) BY <1>6, <1>10
<1>12. PICK p : p = q OBVIOUS
<1>13. Follows(p)' /\ p = q' BY <1>6, <1>8, <1>10, <1>12
<1>14. Follows(q)' BY <1>13
<1> QED BY <1>2, <1>11, <1>14 DEF q

\* One header more has come.
LEMMA NamesGrow ==
    ASSUME NEW n \in Nat
    PROVE  NamesTo(n + 1) = NamesTo(n) \cup {message.headers[n + 1]}
<1>1. 1..(n + 1) = 1..n \cup {n + 1} OBVIOUS
<1> QED BY <1>1 DEF NamesTo

\* The names of the first headers are among all.
LEMMA NamesAmong ==
    ASSUME message \in Message, NEW n \in 0..Len(message.headers)
    PROVE  NamesTo(n) \subseteq NamesTo(Len(message.headers))
<1>1. Len(message.headers) \in Nat BY MessageTyped
<1>2. 1..n \subseteq 1..Len(message.headers) BY <1>1
<1> QED BY <1>2 DEF NamesTo

\* The first line is read.
LEMMA GetLineKeepsHttp ==
    ASSUME HttpInv, GetLine
    PROVE  HttpInv'
<1> USE HttpAssumption
<1> DEFINE text == SubSeq(buffer, 1, FirstDelimiter - 1)
<1>1. /\ phase = "get" /\ stage = "line" /\ Delimiters(buffer) # {}
      /\ buffer' = Consumed(FirstDelimiter) /\ stream' = stream
      /\ headers' = headers /\ lines' = lines /\ content' = content /\ UNCHANGED input
      /\ \/ IsFirstLine(text) /\ stage' = "headers" /\ phase' = phase
         \/ /\ ~IsFirstLine(text) /\ stage' = stage
            /\ phase' = IF side = "client" THEN "raised" ELSE "refused"
  BY DEF GetLine
<1>2. HttpTyped /\ Reading BY <1>1 DEF HttpInv
<1>3. /\ message \in Messages /\ message \in Message
      /\ message' = message /\ side' = side /\ whole' = whole
      /\ Complete' <=> Complete
  BY <1>1, <1>2, InputKept DEF Reading
<1>4. Follows(0) /\ headers = {} /\ lines = 0 /\ content = NoContent
  BY <1>1, <1>2 DEF Reading, AtLine
<1>5. 1 \in 1..LineCount(message) BY <1>3, MessageTyped DEF LineCount
<1>6. Follows(3 * (1 - 1))
  <2>1. 3 * (1 - 1) = 0 OBVIOUS
  <2> QED BY <2>1, <1>4
<1>7. /\ text = <<LineOf(message, 1)>>
      /\ buffer' \in Seq(Symbol) /\ Follows(3 * 1)'
  BY <1>1, <1>2, <1>3, <1>5, <1>6, LineTaken
<1>8. IsFirstLine(text) <=> message.line = FirstLine
  <2>1. text = <<message.line>> BY <1>7 DEF LineOf
  <2>2. IsFirstLine(text) <=> text = <<FirstLine>> BY DEF IsFirstLine, FirstLine
  <2> HIDE DEF text
  <2>3. \A x, y : <<x>> = <<y>> <=> x = y OBVIOUS
  <2> QED BY ONLY <2>1, <2>2, <2>3
<1> HIDE DEF text
<1>9. HttpTyped' BY <1>1, <1>2, <1>3, <1>7 DEF HttpTyped
<1>10. CASE IsFirstLine(text)
  <2>1. stage' = "headers" /\ phase' = "get" BY <1>1, <1>10
  <2>2. NamesTo(0) = {} BY DEF NamesTo
  <2>3. HeadersRead(0)'
    <3>1. NamesTo(0)' = {} /\ FirstLine' = FirstLine BY <1>1, <2>2, InputKept
    <3>2. 0 < MaxHeaderCount BY HttpAssumption
    <3> QED BY <1>1, <1>3, <1>4, <1>8, <1>10, <3>1, <3>2 DEF HeadersRead
  <2>4. Follows(3 * (0 + 1))'
    <3>1. 3 * (0 + 1) = 3 * 1 OBVIOUS
    <3> QED BY <3>1, <1>7
  <2>5. 0 \in 0..Len(message'.headers) BY <1>3, MessageTyped
  <2>6. AtHeaders' BY <1>1, <1>4, <2>3, <2>4, <2>5 DEF AtHeaders, NoContent
  <2>7. Reading' BY <1>3, <2>1, <2>6 DEF Reading
  <2> QED BY <1>9, <2>1, <2>7 DEF HttpInv, MessageUnderstood
<1>11. CASE ~IsFirstLine(text)
  <2>1. phase' \in {"raised", "refused"} BY <1>1, <1>11
  <2>2. ~Complete BY <1>3, <1>8, <1>11, CompleteIs
  <2> QED BY <1>3, <1>9, <2>1, <2>2 DEF HttpInv, MessageUnderstood
<1> QED BY <1>10, <1>11

\* The line at the head of the buffer is the next header, or the empty line that
\* ends the headers; it is taken.
LEMMA HeaderTaken ==
    ASSUME HttpTyped, message \in Message, NEW n \in 0..Len(message.headers),
           Follows(3 * (n + 1)), Delimiters(buffer) # {},
           buffer' = Consumed(FirstDelimiter), stream' = stream,
           message' = message, whole' = whole
    PROVE  /\ buffer' \in Seq(Symbol)
           /\ \/ /\ n < Len(message.headers)
                 /\ SubSeq(buffer, 1, FirstDelimiter - 1) = <<message.headers[n + 1]>>
                 /\ Follows(3 * (n + 1 + 1))'
              \/ /\ n = Len(message.headers)
                 /\ SubSeq(buffer, 1, FirstDelimiter - 1) = <<>>
                 /\ Follows(HeadLength(message))'
<1>1. Len(message.headers) \in Nat /\ LineCount(message) = Len(message.headers) + 1
  BY MessageTyped DEF LineCount
<1>2. CASE n < Len(message.headers)
  <2> DEFINE i == n + 2
  <2>1. /\ i \in 1..LineCount(message) /\ n + 1 = i - 1 /\ i = n + 1 + 1 /\ i # 1
    BY <1>1, <1>2
  <2>2. Follows(3 * (i - 1)) BY <2>1
  <2>3. LineOf(message, i) = message.headers[n + 1] BY <2>1 DEF LineOf
  <2> HIDE DEF i
  <2>4. /\ SubSeq(buffer, 1, FirstDelimiter - 1) = <<LineOf(message, i)>>
        /\ buffer' \in Seq(Symbol) /\ Follows(3 * i)'
    BY <2>1, <2>2, LineTaken
  <2> QED BY <1>2, <2>1, <2>3, <2>4
<1>3. CASE n = Len(message.headers)
  <2>1. Follows(3 * LineCount(message)) BY <1>1, <1>3
  <2> QED BY <1>3, <2>1, EmptyLineTaken
<1> QED BY <1>1, <1>2, <1>3

\* A text of one symbol.
LEMMA OneSymbol ==
    ASSUME NEW x
    PROVE  /\ <<x>> # <<>> /\ <<x>>[1] = x
           /\ IsHeader(<<x>>) <=> x # "junk"
           /\ <<x>> = <<"long">> <=> x = "long"
           /\ ~IsHeader(<<>>)
<1>1. \A z : <<x>> = <<z>> <=> x = z OBVIOUS
<1>2. <<x>> # <<>> /\ <<x>>[1] = x OBVIOUS
<1>3. IsHeader(<<x>>) <=> x # "junk" BY <1>1, <1>2 DEF IsHeader
<1> QED BY <1>1, <1>2, <1>3 DEF IsHeader

\* The client reads a header.
LEMMA GetHeaderKeepsHttp ==
    ASSUME HttpInv, GetHeader
    PROVE  HttpInv'
<1> USE HttpAssumption
<1> DEFINE text == SubSeq(buffer, 1, FirstDelimiter - 1)
           N == Len(message.headers)
<1>1. /\ side = "client" /\ phase = "get" /\ stage = "headers" /\ Delimiters(buffer) # {}
      /\ buffer' = Consumed(FirstDelimiter) /\ stream' = stream
      /\ lines' = lines /\ content' = content /\ UNCHANGED input
      /\ \/ /\ text = <<>> /\ phase' = phase /\ headers' = headers
            /\ stage' = IF "length" \in headers THEN "content" ELSE "finished"
         \/ /\ IsHeader(text) /\ headers' = headers \cup {text[1]}
            /\ phase' = phase /\ stage' = stage
         \/ /\ text # <<>> /\ ~IsHeader(text) /\ phase' = "raised"
            /\ stage' = stage /\ headers' = headers
  BY DEF GetHeader
<1>2. HttpTyped /\ Reading BY <1>1 DEF HttpInv
<1>3. /\ message \in Messages /\ message \in Message
      /\ message' = message /\ side' = side /\ whole' = whole
      /\ Complete' <=> Complete
  BY <1>1, <1>2, InputKept DEF Reading
<1>4. content = NoContent /\ AtHeaders BY <1>1, <1>2 DEF Reading, AtHeaders
<1>5. PICK n \in 0..N : HeadersRead(n) /\ Follows(3 * (n + 1)) BY <1>4 DEF AtHeaders
<1>6. N \in Nat /\ n \in Nat BY <1>3, MessageTyped
<1>7. /\ buffer' \in Seq(Symbol)
      /\ \/ /\ n < N /\ text = <<message.headers[n + 1]>> /\ Follows(3 * (n + 1 + 1))'
         \/ /\ n = N /\ text = <<>> /\ Follows(HeadLength(message))'
  BY <1>1, <1>2, <1>3, <1>5, HeaderTaken
<1> HIDE DEF text
<1>8. HttpTyped'
  <2>1. phase' \in {"idle", "recv", "get", "returned", "raised", "refused"} BY <1>1
  <2>2. stage' \in {"line", "headers", "content", "finished"} BY <1>1
  <2> QED BY <1>1, <1>2, <1>3, <1>7, <2>1, <2>2 DEF HttpTyped
<1>9. /\ message.line = FirstLine /\ headers = NamesTo(n) \ {"junk"}
      /\ "junk" \notin NamesTo(n)
  BY <1>1, <1>5 DEF HeadersRead
<1>10. /\ FirstLine' = FirstLine /\ (\A k : NamesTo(k)' = NamesTo(k))
       /\ Len(message.headers)' = N /\ HeadLength(message)' = HeadLength(message)
  BY <1>1, InputKept
<1>11. CASE n < N
  <2> DEFINE h == message.headers[n + 1]
  <2>1. text = <<h>> /\ Follows(3 * (n + 1 + 1))' BY <1>7, <1>11
  <2>2. NamesTo(n + 1) = NamesTo(n) \cup {h} BY <1>6, NamesGrow
  <2>3. n + 1 \in 0..N BY <1>6, <1>11
  <2> HIDE DEF h
  <2>4. /\ text # <<>> /\ text[1] = h /\ (IsHeader(text) <=> h # "junk")
    BY <2>1, OneSymbol
  <2>5. CASE h # "junk"
    <3>1. headers' = headers \cup {h} /\ phase' = "get" /\ stage' = "headers"
      BY <1>1, <2>4, <2>5
    <3>2. headers' = NamesTo(n + 1) \ {"junk"} /\ "junk" \notin NamesTo(n + 1)
      BY <1>9, <2>2, <2>5, <3>1
    <3>3. HeadersRead(n + 1)'
      BY <1>1, <1>3, <1>9, <1>10, <3>2 DEF HeadersRead
    <3>4. AtHeaders' BY <1>1, <1>3, <1>4, <2>1, <2>3, <3>3 DEF AtHeaders, NoContent
    <3>5. Reading' BY <1>3, <3>1, <3>4 DEF Reading
    <3> QED BY <1>8, <3>1, <3>5 DEF HttpInv, MessageUnderstood
  <2>6. CASE h = "junk"
    <3>1. phase' = "raised" BY <1>1, <2>4, <2>6
    <3>2. "junk" \in NamesTo(N) BY <1>3, <2>2, <2>3, <2>6, NamesAmong
    <3>3. ~Complete BY <1>1, <1>3, <3>2, CompleteIs
    <3> QED BY <1>3, <1>8, <3>1, <3>3 DEF HttpInv, MessageUnderstood
  <2> QED BY <2>5, <2>6
<1>12. CASE n = N
  <2>1. text = <<>> /\ Follows(HeadLength(message))' BY <1>6, <1>7, <1>12
  <2>2. ~IsHeader(text) BY <2>1, OneSymbol
  <2>3. phase' = "get" /\ headers' = headers
        /\ stage' = IF "length" \in headers THEN "content" ELSE "finished"
    BY <1>1, <2>1, <2>2
  <2>4. HeadersRead(n)'
    BY <1>1, <1>3, <1>9, <1>10, <2>3 DEF HeadersRead
  <2>5. AllRead'
    <3>1. HeadersRead(Len(message.headers))' BY <1>10, <1>12, <2>4 DEF HeadersRead
    <3> QED BY <1>1, <1>3, <3>1 DEF AllRead
  <2>6. content' = NoContent /\ content' = NoContent' BY <1>1, <1>4 DEF NoContent
  <2>7. CASE "length" \in headers
    <3>1. AtContent' BY <2>1, <2>3, <2>5, <2>6, <2>7 DEF AtContent
    <3> QED BY <1>3, <1>8, <2>3, <2>7, <3>1 DEF HttpInv, Reading, MessageUnderstood
  <2>8. CASE "length" \notin headers
    <3>1. AtEnd' BY <1>1, <1>3, <2>3, <2>5, <2>6, <2>8 DEF AtEnd
    <3> QED BY <1>3, <1>8, <2>3, <2>8, <3>1 DEF HttpInv, Reading, MessageUnderstood
  <2> QED BY <2>7, <2>8
<1> QED BY <1>6, <1>11, <1>12

\* The server reads a header.
LEMMA ReadHeaderKeepsHttp ==
    ASSUME HttpInv, ReadHeader
    PROVE  HttpInv'
<1> USE HttpAssumption
<1> DEFINE text == SubSeq(buffer, 1, FirstDelimiter - 1)
           N == Len(message.headers)
<1>1. /\ side = "server" /\ phase = "get" /\ stage = "headers" /\ Delimiters(buffer) # {}
      /\ buffer' = Consumed(FirstDelimiter) /\ stream' = stream
      /\ content' = content /\ UNCHANGED input
      /\ \/ /\ text = <<>> /\ phase' = HeadersVerdict /\ stage' = "content"
            /\ headers' = headers /\ lines' = lines
         \/ /\ text # <<>> /\ stage' = stage /\ lines' = lines + 1
            /\ headers' = IF IsHeader(text) THEN headers \cup {text[1]} ELSE headers
            /\ phase' = IF text # <<"long">> /\ lines + 1 < MaxHeaderCount
                        THEN "get" ELSE "refused"
  BY DEF ReadHeader
<1>2. HttpTyped /\ Reading BY <1>1 DEF HttpInv
<1>3. /\ message \in Messages /\ message \in Message
      /\ message' = message /\ side' = side /\ whole' = whole
      /\ Complete' <=> Complete
  BY <1>1, <1>2, InputKept DEF Reading
<1>4. content = NoContent /\ AtHeaders BY <1>1, <1>2 DEF Reading, AtHeaders
<1>5. PICK n \in 0..N : HeadersRead(n) /\ Follows(3 * (n + 1)) BY <1>4 DEF AtHeaders
<1>6. N \in Nat /\ n \in Nat BY <1>3, MessageTyped
<1>7. /\ buffer' \in Seq(Symbol)
      /\ \/ /\ n < N /\ text = <<message.headers[n + 1]>> /\ Follows(3 * (n + 1 + 1))'
         \/ /\ n = N /\ text = <<>> /\ Follows(HeadLength(message))'
  BY <1>1, <1>2, <1>3, <1>5, HeaderTaken
<1> HIDE DEF text
<1>8. HttpTyped'
  <2>1. phase' \in {"idle", "recv", "get", "returned", "raised", "refused"}
    BY <1>1 DEF HeadersVerdict
  <2>2. stage' \in {"line", "headers", "content", "finished"} BY <1>1
  <2>3. lines' \in Nat
    <3>1. lines \in Nat BY <1>2 DEF HttpTyped
    <3>2. lines' = lines \/ lines' = lines + 1 BY <1>1
    <3> QED BY <3>1, <3>2
  <2> QED BY <1>1, <1>2, <1>3, <1>7, <2>1, <2>2, <2>3 DEF HttpTyped
<1>9. /\ message.line = FirstLine /\ headers = NamesTo(n) \ {"junk"}
      /\ lines = n /\ n < MaxHeaderCount /\ "long" \notin NamesTo(n)
  BY <1>1, <1>5 DEF HeadersRead
<1>10. /\ FirstLine' = FirstLine /\ (\A k : NamesTo(k)' = NamesTo(k))
       /\ Len(message.headers)' = N /\ HeadLength(message)' = HeadLength(message)
  BY <1>1, InputKept
<1>11. CASE n < N
  <2> DEFINE h == message.headers[n + 1]
  <2>1. text = <<h>> /\ Follows(3 * (n + 1 + 1))' BY <1>7, <1>11
  <2>2. NamesTo(n + 1) = NamesTo(n) \cup {h} BY <1>6, NamesGrow
  <2>3. n + 1 \in 0..N BY <1>6, <1>11
  <2> HIDE DEF h
  <2>4. /\ text # <<>> /\ text[1] = h /\ (IsHeader(text) <=> h # "junk")
        /\ text = <<"long">> <=> h = "long"
    BY <2>1, OneSymbol
  <2>5. /\ stage' = "headers" /\ lines' = n + 1
        /\ headers' = IF h # "junk" THEN headers \cup {h} ELSE headers
        /\ phase' = IF h # "long" /\ n + 1 < MaxHeaderCount THEN "get" ELSE "refused"
    BY <1>1, <1>9, <2>4
  <2>6. CASE h # "long" /\ n + 1 < MaxHeaderCount
    <3>1. phase' = "get" BY <2>5, <2>6
    <3>2. headers' = NamesTo(n + 1) \ {"junk"} /\ "long" \notin NamesTo(n + 1)
      BY <1>9, <2>2, <2>5, <2>6
    <3>3. HeadersRead(n + 1)'
      BY <1>1, <1>3, <1>9, <1>10, <2>5, <2>6, <3>2 DEF HeadersRead
    <3>4. AtHeaders' BY <1>1, <1>3, <1>4, <2>1, <2>3, <3>3 DEF AtHeaders, NoContent
    <3>5. Reading' BY <1>3, <2>5, <3>4 DEF Reading
    <3> QED BY <1>8, <3>1, <3>5 DEF HttpInv, MessageUnderstood
  <2>7. CASE h = "long"
    <3>1. phase' = "refused" BY <2>5, <2>7
    <3>2. "long" \in NamesTo(N) BY <1>3, <2>2, <2>3, <2>7, NamesAmong
    <3>3. ~Complete BY <1>1, <1>3, <3>2, CompleteIs
    <3> QED BY <1>3, <1>8, <3>1, <3>3 DEF HttpInv, MessageUnderstood
  <2>8. CASE ~(n + 1 < MaxHeaderCount)
    <3>1. phase' = "refused" BY <2>5, <2>8
    <3>2. ~(N < MaxHeaderCount)
      <4>1. MaxHeaderCount \in Nat BY HttpAssumption
      <4> QED BY ONLY <4>1, <1>6, <1>11, <2>8
    <3>3. ~Complete BY <1>1, <1>3, <3>2, CompleteIs
    <3> QED BY <1>3, <1>8, <3>1, <3>3 DEF HttpInv, MessageUnderstood
  <2> QED BY <2>6, <2>7, <2>8
<1>12. CASE n = N
  <2>1. text = <<>> /\ Follows(HeadLength(message))' BY <1>6, <1>7, <1>12
  <2>2. phase' = HeadersVerdict /\ stage' = "content" /\ headers' = headers /\ lines' = lines
    BY <1>1, <2>1
  <2>3. headers = NamesTo(N) \ {"junk"} BY <1>9, <1>12
  <2>4. CASE headers \cap {"tid", "letters"} # {} /\ "letters" \notin headers
             /\ "length" \in headers
    <3>1. phase' = "get" BY <2>2, <2>4 DEF HeadersVerdict
    <3>2. "tid" \in headers BY <2>4
    <3>3. HeadersRead(n)'
      BY <1>1, <1>3, <1>9, <1>10, <2>2 DEF HeadersRead
    <3>4. AllRead'
      <4>1. HeadersRead(Len(message.headers))' BY <1>10, <1>12, <3>3 DEF HeadersRead
      <4> QED BY <1>1, <1>3, <2>2, <2>4, <3>2, <4>1 DEF AllRead
    <3>5. content' = NoContent /\ content' = NoContent' BY <1>1, <1>4 DEF NoContent
    <3>6. AtContent' BY <2>1, <2>2, <2>4, <3>4, <3>5 DEF AtContent
    <3> QED BY <1>3, <1>8, <2>2, <3>1, <3>6 DEF HttpInv, Reading, MessageUnderstood
  <2>5. CASE ~(headers \cap {"tid", "letters"} # {} /\ "letters" \notin headers
               /\ "length" \in headers)
    <3>1. phase' \in {"raised", "refused"} BY <2>2, <2>5 DEF HeadersVerdict
    <3>2. ~({"tid", "length"} \subseteq NamesTo(N) /\ "letters" \notin NamesTo(N))
      BY <2>3, <2>5
    <3>3. ~Complete BY <1>3, <3>2, CompleteIs
    <3> QED BY <1>3, <1>8, <3>1, <3>3 DEF HttpInv, MessageUnderstood
  <2> QED BY <2>4, <2>5
<1> QED BY <1>6, <1>11, <1>12

\* The content is taken.
LEMMA GetContentKeepsHttp ==
    ASSUME HttpInv, GetContent
    PROVE  HttpInv'
<1> USE HttpAssumption
<1> DEFINE h == HeadLength(message)
           L == Len(message.body)
           P == Packet(message)
           s == SubSeq(buffer, 1, L)
<1>1. /\ phase = "get" /\ stage = "content" /\ ~ContentMissing
      /\ content' = IF side = "server" /\ message.body = <<>> THEN NoContent ELSE s
      /\ buffer' = SubSeq(buffer, L + 1, Len(buffer))
      /\ stage' = "finished" /\ phase' = phase /\ UNCHANGED input
      /\ stream' = stream /\ headers' = headers /\ lines' = lines
  BY DEF GetContent, Taken
<1>2. HttpTyped /\ Reading BY <1>1 DEF HttpInv
<1>3. /\ message \in Messages /\ message \in Message
      /\ message' = message /\ side' = side /\ whole' = whole
  BY <1>1, <1>2, InputKept DEF Reading
<1>4. AllRead /\ "length" \in headers /\ Follows(h) BY <1>1, <1>2 DEF Reading, AtContent
<1>5. buffer \in Seq(Symbol) /\ Len(buffer) \in Nat BY <1>2 DEF HttpTyped
<1>6. h \in Nat /\ L \in Nat BY <1>3, MessageTyped DEF HeadLength, LineCount
<1>7. L \in 0..Len(buffer) BY <1>1, <1>5, <1>6 DEF ContentMissing
<1>8. s = message.body
  <2>1. \A k \in 1..Len(buffer) : buffer[k] = P[h + k] BY <1>4 DEF Follows
  <2>2. \A k \in 1..L : P[h + k] = message.body[k] BY <1>3, PacketIs
  <2>3. message.body \in Seq(Symbol) BY <1>3, MessageTyped
  <2> DEFINE b == message.body
  <2>4. s \in Seq(Symbol) /\ Len(s) = L /\ \A k \in 1..L : s[k] = buffer[k]
    <3> HIDE DEF L
    <3> QED BY <1>5, <1>7
  <2>5. L = Len(b) OBVIOUS
  <2> HIDE DEF s, h, P, b, L
  <2>6. \A k \in 1..L : s[k] = b[k]
    <3>1. \A k \in 1..L : k \in 1..Len(buffer) BY ONLY <1>5, <1>6, <1>7
    <3> QED BY <2>1, <2>2, <2>4, <3>1 DEF b
  <2>7. s = b BY <2>3, <2>4, <2>5, <2>6 DEF b
  <2> QED BY <2>7 DEF b
<1>9. /\ buffer' \in Seq(Symbol) /\ Follows(h + L)'
  <2> DEFINE q == h + L
  <2>1. h \in Nat /\ q = h + L /\ q' = q BY <1>3, <1>6 DEF HeadLength, LineCount
  <2>2. \A d \in Nat : \A p : d = h /\ p = q => buffer' \in Seq(Symbol) /\ Follows(p)'
    <3>1. ASSUME NEW d \in Nat, NEW p, d = h, p = q
          PROVE  buffer' \in Seq(Symbol) /\ Follows(p)'
      <4>1. PICK n : n = L OBVIOUS
      <4>2. /\ Follows(d) /\ p = d + n /\ n \in 0..Len(buffer)
            /\ buffer' = SubSeq(buffer, n + 1, Len(buffer))
        BY <1>1, <1>4, <1>7, <3>1, <4>1
      <4> HIDE DEF h, q, L
      <4> QED BY <1>1, <1>2, <1>3, <4>2, BufferMoves
    <3> QED BY <3>1
  <2>3. PICK p : p = q OBVIOUS
  <2>4. buffer' \in Seq(Symbol) /\ Follows(p)' /\ p = q' BY <2>1, <2>2, <2>3
  <2> HIDE DEF q
  <2>5. Follows(q)' BY <2>4
  <2> QED BY <2>4, <2>5 DEF q
<1>10. HttpTyped' BY <1>1, <1>2, <1>3, <1>9 DEF HttpTyped
<1>11. AllRead'
  <2>1. \A n : HeadersRead(n) => HeadersRead(n)'
    BY <1>1, <1>3, InputKept DEF HeadersRead
  <2> QED BY <1>1, <1>3, <1>4, <2>1 DEF AllRead
<1>12. AtEnd'
  <2>1. content' = IF side' = "server" /\ message'.body = <<>> THEN NoContent'
                   ELSE message'.body
    BY <1>1, <1>3, <1>8 DEF NoContent
  <2> QED BY <1>1, <1>4, <1>9, <1>11, <2>1 DEF AtEnd
<1> QED BY <1>1, <1>3, <1>10, <1>12 DEF HttpInv, Reading, MessageUnderstood

\* At the end of a message the buffer and the stream hold what follows it.
LEMMA RestFollows ==
    ASSUME HttpTyped, message \in Message,
           Follows(HeadLength(message) + Len(message.body)), whole
    PROVE  buffer \o stream = message.rest
<1> DEFINE q == HeadLength(message) + Len(message.body)
           P == Packet(message)
           r == message.rest
           f == buffer \o stream
<1>1. buffer \in Seq(Symbol) /\ stream \in Seq(Symbol) /\ r \in Seq(Symbol)
  BY MessageTyped DEF HttpTyped
<1>2. Len(buffer) \in Nat /\ Len(stream) \in Nat /\ Len(r) \in Nat BY <1>1
<1>3. q \in Nat
  <2> DEFINE x == Len(message.body)
             y == Len(message.headers)
  <2>1. x \in Nat /\ y \in Nat BY MessageTyped
  <2>2. q = 3 * (y + 1) + 2 + x BY DEF HeadLength, LineCount
  <2> HIDE DEF q, x, y
  <2> QED BY ONLY <2>1, <2>2
<1>4. Len(P) = q + Len(r) /\ \A k \in 1..Len(r) : P[q + k] = r[k]
  BY PacketIs
<1>5. /\ q + Len(buffer) + Len(stream) = Len(P)
      /\ \A k \in 1..Len(buffer) : buffer[k] = P[q + k]
      /\ \A k \in 1..Len(stream) : stream[k] = P[q + Len(buffer) + k]
  BY DEF Follows
<1> HIDE DEF q, P, r
<1>6. /\ f \in Seq(Symbol) /\ Len(f) = Len(buffer) + Len(stream)
      /\ \A k \in 1..Len(buffer) : f[k] = buffer[k]
      /\ \A k \in 1..Len(stream) : f[Len(buffer) + k] = stream[k]
  BY <1>1, Joined
<1> HIDE DEF f
<1>7. Len(r) = Len(buffer) + Len(stream) BY ONLY <1>2, <1>3, <1>4, <1>5
<1>8. ASSUME NEW k \in 1..Len(r) PROVE f[k] = r[k]
  <2>1. CASE k <= Len(buffer)
    <3>1. k \in 1..Len(buffer) BY ONLY <2>1, <1>2
    <3> QED BY <3>1, <1>4, <1>5, <1>6
  <2>2. CASE ~(k <= Len(buffer))
    <3> DEFINE j == k - Len(buffer)
    <3>1. /\ j \in 1..Len(stream) /\ Len(buffer) + j = k
          /\ q + Len(buffer) + j = q + k
      BY ONLY <2>2, <1>2, <1>3, <1>7
    <3> HIDE DEF j
    <3>2. f[k] = stream[j] BY <3>1, <1>6
    <3>3. stream[j] = P[q + k] BY <3>1, <1>5
    <3> QED BY <3>2, <3>3, <1>4
  <2> QED BY <2>1, <2>2
<1>9. f = r BY <1>1, <1>6, <1>7, <1>8
<1> QED BY <1>9 DEF f, r

\* No message has both an id and one of letters.
LEMMA OneId ==
    ASSUME message \in Messages, "tid" \in NamesTo(Len(message.headers))
    PROVE  "letters" \notin NamesTo(Len(message.headers))
<1>1. message \in Message BY HttpAssumption
<1>2. DOMAIN message.headers = 1..Len(message.headers) BY <1>1, MessageTyped
<1>3. \A i, j \in 1..Len(message.headers) :
         ~(message.headers[i] = "tid" /\ message.headers[j] = "letters")
  BY <1>2, HttpAssumption
<1> QED BY <1>3 DEF NamesTo

\* A read() ends.
LEMMA ReadEndsKeepsHttp ==
    ASSUME HttpInv, ReadEnds
    PROVE  HttpInv'
<1> USE HttpAssumption
<1> DEFINE N == Len(message.headers)
<1>1. /\ phase = "get" /\ stage = "finished" /\ UNCHANGED input
      /\ phase' = IF side = "server" \/ ("tid" \in headers /\ content # NoContent)
                  THEN "returned" ELSE "raised"
      /\ stream' = stream /\ buffer' = buffer /\ stage' = stage /\ headers' = headers
      /\ lines' = lines /\ content' = content
  BY DEF ReadEnds
<1>2. HttpTyped /\ Reading BY <1>1 DEF HttpInv
<1>3. /\ message \in Messages /\ message \in Message
      /\ message' = message /\ side' = side /\ whole' = whole
      /\ Complete' <=> Complete
  BY <1>1, <1>2, InputKept DEF Reading
<1>4. AtEnd BY <1>1, <1>2 DEF Reading
<1>5. /\ message.line = FirstLine /\ headers = NamesTo(N) \ {"junk"}
      /\ side = "client" => "junk" \notin NamesTo(N)
      /\ side = "server" => N < MaxHeaderCount /\ "long" \notin NamesTo(N)
  BY <1>4 DEF AtEnd, AllRead, HeadersRead
<1>6. side \in {"client", "server"} BY <1>2 DEF HttpTyped
<1>7. HttpTyped' BY <1>1, <1>2, <1>3 DEF HttpTyped
<1>8. CASE side = "server"
  <2>1. phase' = "returned" BY <1>1, <1>8
  <2>2. {"tid", "length"} \subseteq headers /\ "letters" \notin headers
    BY <1>4, <1>8 DEF AtEnd, AllRead
  <2>3. {"tid", "length"} \subseteq NamesTo(N) /\ "letters" \notin NamesTo(N)
    BY <1>5, <2>2
  <2>4. Complete BY <1>3, <1>5, <1>8, <2>3, CompleteIs
  <2>5. /\ Follows(HeadLength(message) + Len(message.body))
        /\ content = IF message.body = <<>> THEN NoContent ELSE message.body
    BY <1>4, <1>8 DEF AtEnd
  <2>6. whole => buffer \o stream = message.rest BY <1>2, <1>3, <2>5, RestFollows
  <2>7. whole' => buffer' \o stream' = message'.rest BY <2>6, <1>1, <1>3
  <2>8. content' = IF message'.body = <<>> THEN NoContent' ELSE message'.body
    BY <2>5, <1>1, <1>3 DEF NoContent
  <2>9. side' # "client" BY <1>3, <1>8
  <2>10. MessageUnderstood' BY <1>3, <2>1, <2>4, <2>7, <2>8, <2>9 DEF MessageUnderstood
  <2> QED BY <1>7, <2>1, <2>10 DEF HttpInv
<1>9. CASE side = "client"
  <2>1. Complete => "tid" \in headers /\ content # NoContent
    <3> SUFFICES ASSUME Complete PROVE "tid" \in headers /\ content # NoContent OBVIOUS
    <3>1. {"tid", "length"} \subseteq headers BY <1>3, <1>5, CompleteIs
    <3>2. content = message.body BY <1>4, <1>9, <3>1 DEF AtEnd
    <3>3. message.body # NoContent
      <4> DEFINE b == message.body
                 e == NoContent
      <4>1. b \in Seq({"byte", "CR", "LF"}) BY <1>3 DEF Message
      <4>2. Len(e) = 1 /\ e[1] = "none" BY DEF NoContent
      <4> HIDE DEF b, e
      <4>3. Len(b) = 1 => b[1] \in {"byte", "CR", "LF"} BY <4>1
      <4>4. b # e BY <4>2, <4>3
      <4> QED BY <4>4 DEF b, e
    <3> QED BY <3>1, <3>2, <3>3
  <2>2. CASE "tid" \in headers /\ content # NoContent
    <3>1. phase' = "returned" BY <1>1, <2>2
    <3>2. "length" \in headers /\ content = message.body BY <1>4, <1>9, <2>2 DEF AtEnd
    <3>3. {"tid", "length"} \subseteq NamesTo(N) BY <1>5, <2>2, <3>2
    <3>4. "letters" \notin NamesTo(N) BY <1>3, <3>3, OneId
    <3>5. Complete BY <1>3, <1>5, <1>9, <3>3, <3>4, CompleteIs
    <3>6. content' = message'.body /\ side' = "client" BY <1>1, <1>3, <1>9, <3>2
    <3>7. MessageUnderstood' BY <1>3, <3>1, <3>5, <3>6 DEF MessageUnderstood
    <3> QED BY <1>7, <3>1, <3>7 DEF HttpInv
  <2>3. CASE ~("tid" \in headers /\ content # NoContent)
    <3>1. phase' = "raised"
      <4>1. side # "server" BY <1>9
      <4> QED BY <1>1, <2>3, <4>1
    <3>2. ~Complete BY <2>1, <2>3
    <3> QED BY <1>3, <1>7, <3>1, <3>2 DEF HttpInv, MessageUnderstood
  <2> QED BY <2>2, <2>3
<1> QED BY <1>6, <1>8, <1>9

\* The parsers keep their place: however a message is cut, the buffer and the
\* stream hold what follows what was read, no line longer than the buffer is
\* taken, and what they have made of the message is what it says.
THEOREM HttpInvariant == HttpSpec => []HttpInv
<1>1. HttpInit => HttpInv
  <2> SUFFICES ASSUME HttpInit PROVE HttpInv OBVIOUS
  <2>1. HttpTyped
    <3>1. buffer \in Seq(Symbol) /\ stream \in Seq(Symbol) BY DEF HttpInit
    <3> QED BY <3>1 DEF HttpInit, HttpTyped
  <2> QED BY <2>1 DEF HttpInit, HttpInv, MessageUnderstood
<1>2. HttpInv /\ [HttpNext]_httpVars => HttpInv'
  <2> SUFFICES ASSUME HttpInv, [HttpNext]_httpVars PROVE HttpInv' OBVIOUS
  <2>1. CASE UNCHANGED httpVars
    <3>1. /\ UNCHANGED input /\ stream' = stream /\ buffer' = buffer /\ stage' = stage
          /\ headers' = headers /\ lines' = lines /\ content' = content /\ phase' = phase
      BY <2>1 DEF httpVars, input
    <3>2. message' = message /\ side' = side /\ whole' = whole /\ (Complete' <=> Complete)
      BY <3>1, InputKept
    <3>3. HttpTyped' BY <3>1, <3>2 DEF HttpInv, HttpTyped
    <3>4. phase \in {"recv", "get"} => Reading'
      <4> SUFFICES ASSUME phase \in {"recv", "get"} PROVE Reading' OBVIOUS
      <4>1. message \in Message BY HttpAssumption DEF HttpInv, Reading
      <4>2. \A pos \in Nat : Follows(pos) => Follows(pos)' BY <3>1, <3>2 DEF Follows
      <4> QED BY <3>1, <4>1, <4>2, StaysThere
    <3>5. Lacking => Lacking'
      BY <3>1, <3>2 DEF Lacking, ContentMissing, Delimiters
    <3>6. MessageUnderstood'
      BY <3>1, <3>2 DEF HttpInv, MessageUnderstood, NoContent
    <3> QED BY <3>1, <3>3, <3>4, <3>5, <3>6 DEF HttpInv, NoContent
  <2>2. CASE HttpNext
    BY <2>2, ReadStartsKeepsHttp, RecvKeepsHttp, UncompleteKeepsHttp, GetLineKeepsHttp,
       GetHeaderKeepsHttp, ReadHeaderKeepsHttp, GetContentKeepsHttp, ReadEndsKeepsHttp
       DEF HttpNext
  <2> QED BY <2>1, <2>2
<1> QED BY <1>1, <1>2, PTL DEF HttpSpec

\* However a message is cut, and also if the connection ends within it, read()
\* gives the body that was sent if the message has all it needs, and raises if
\* not, and the server leaves exactly what follows: for every chunk size, every
\* limit of headers and every set of messages.
THEOREM MessagesAreUnderstood == HttpSpec => []MessageUnderstood
<1>1. HttpInv => MessageUnderstood BY DEF HttpInv
<1> QED BY <1>1, HttpInvariant, PTL
=============================================================================
