------------------------- MODULE SimpleClientProofs -------------------------
(***************************************************************************)
(* For any number of callers and remotes, and any range of ids: whatever   *)
(* fails, no answer to one call of a simple connection is left for the     *)
(* next.  One lemma per group of actions keeps the parts of ClientInv.     *)
(***************************************************************************)
EXTENDS SimpleClient, SequenceTheorems, TLAPS

USE SimpleAssumption DEF SimpleAssumption

\* One changed connection changes no type.
LEMMA LinkChanged ==
    ASSUME conn \in [Remotes -> Link], NEW r \in Remotes, NEW x \in Link
    PROVE  /\ [conn EXCEPT ![r] = x] \in [Remotes -> Link]
           /\ [conn EXCEPT ![r] = x][r] = x
           /\ \A q \in Remotes \ {r} : [conn EXCEPT ![r] = x][q] = conn[q]
  OBVIOUS

\* Nor does one caller that went on.
LEMMA CallerChanged ==
    ASSUME caller \in [Callers -> Call], NEW c \in Callers, NEW y \in Call
    PROVE  /\ [caller EXCEPT ![c] = y] \in [Callers -> Call]
           /\ [caller EXCEPT ![c] = y][c] = y
           /\ \A d \in Callers \ {c} : [caller EXCEPT ![c] = y][d] = caller[d]
  OBVIOUS

\* The servers change only what is on its way.
LEMMA ServerKeeps ==
    ASSUME ClientInv, NEW r \in Remotes,
           ServerStarts(r) \/ ServerEnds(r) \/ ServerAnswers(r)
    PROVE  ClientInv'
  <1>1. CASE ServerStarts(r)
    BY <1>1 DEF ServerStarts, ClientInv, ClientTypeOK, OneHolder, Orderly, Untouched,
                Holding, At, To, Held
  <1>2. CASE ServerEnds(r)
    <2> DEFINE x == [conn[r] EXCEPT !.peer = FALSE, !.owed = {}]
    <2>0. conn' = [conn EXCEPT ![r] = x] /\ x \in Link
      <3>1. conn[r] \in Link /\ conn \in [Remotes -> Link]
        BY DEF ClientInv, ClientTypeOK
      <3> QED BY <1>2, <3>1 DEF ServerEnds, Link
    <2>1. ClientTypeOK'
      BY <1>2, <2>0, LinkChanged DEF ServerEnds, ClientInv, ClientTypeOK, At, To
    <2>2. OneHolder'
      BY <1>2 DEF ServerEnds, ClientInv, OneHolder, Holding, To
    <2>3. Orderly'
      BY <1>2 DEF ServerEnds, ClientInv, ClientTypeOK, Orderly, At, To, Held
    <2>4. Untouched'
      BY <1>2 DEF ServerEnds, ClientInv, ClientTypeOK, Untouched, At, To
    <2> QED BY <2>1, <2>2, <2>3, <2>4 DEF ClientInv
  <1>3. CASE ServerAnswers(r)
    <2> DEFINE answer(t) == [n \in 1..3 |-> [of |-> t, n |-> n]]
    <2>1. PICK t \in conn[r].owed :
             conn' = [conn EXCEPT ![r].owed = @ \ {t}, ![r].wire = @ \o answer(t)]
      BY <1>3 DEF ServerAnswers
    <2>2. t \in WireId /\ answer(t) \in Seq(Part) /\ answer(t) = Rest(t, 0)
      <3>1. t \in WireId
        BY <2>1 DEF ClientInv, ClientTypeOK, Link
      <3>2. answer(t) \in Seq(Part)
        BY <3>1 DEF Part
      <3>3. answer(t) = Rest(t, 0)
        BY DEF Rest
      <3> QED BY <3>1, <3>2, <3>3
    <2> HIDE DEF answer
    <2>3. conn[r].wire \o answer(t) \in Seq(Part)
      <3>1. conn[r].wire \in Seq(Part)
        BY DEF ClientInv, ClientTypeOK, Link
      <3> QED BY <2>2, <3>1
    <2> DEFINE x == [conn[r] EXCEPT !.owed = @ \ {t}, !.wire = @ \o answer(t)]
    <2>0. conn' = [conn EXCEPT ![r] = x] /\ x \in Link
      <3>1. conn[r] \in Link /\ conn \in [Remotes -> Link]
        BY DEF ClientInv, ClientTypeOK
      <3> QED BY <2>1, <2>3, <3>1 DEF Link
    <2>4. ClientTypeOK'
      BY <1>3, <2>0, LinkChanged DEF ServerAnswers, ClientInv, ClientTypeOK, At, To
    <2>5. OneHolder'
      BY <1>3 DEF ServerAnswers, ClientInv, OneHolder, Holding, To
    <2>6. Orderly'
      <3>0. caller' = caller /\ (\A q \in Remotes \ {r} : conn'[q] = conn[q])
            /\ conn'[r].closed = conn[r].closed /\ conn'[r].owed = conn[r].owed \ {t}
            /\ conn'[r].wire = conn[r].wire \o answer(t)
        BY <1>3, <2>0, LinkChanged, ZenonT(60) DEF ServerAnswers, ClientInv, ClientTypeOK, Link
      <3>1. ASSUME NEW c \in Callers, At(c, "read"), To(c) = r
            PROVE  /\ ~conn'[r].closed
                   /\ conn'[r].owed = {} /\ Len(caller[c].got) \in 0..2
                   /\ conn'[r].wire = Rest(caller[c].tid, Len(caller[c].got))
        <4>1. /\ ~conn[r].closed
              /\ conn[r].owed \subseteq {caller[c].tid}
              /\ conn[r].wire = <<>> /\ caller[c].got = <<>>
          BY <2>1, <3>1 DEF ClientInv, Orderly, Held
        <4>2. t = caller[c].tid /\ conn[r].owed \ {t} = {}
          BY <2>1, <4>1
        <4>3. <<>> \o answer(t) = answer(t) /\ Len(<<>>) = 0
          BY <2>2
        <4> QED BY <2>2, <3>0, <4>1, <4>2, <4>3
      <3>2. ASSUME NEW c \in Callers, At(c, "write"), To(c) = r
            PROVE  ~conn'[r].closed
        BY <3>0, <3>2 DEF ClientInv, Orderly, Held
      <3> QED BY <3>0, <3>1, <3>2 DEF ClientInv, ClientTypeOK, Orderly, At, To, Held
    <2>7. Untouched'
      <3>1. \A q \in Remotes : conn'[q].closed = conn[q].closed /\ (q # r => conn'[q] = conn[q])
        BY <2>1 DEF ClientInv, ClientTypeOK
      <3> QED BY <1>3, <2>1, <3>1 DEF ServerAnswers, ClientInv, Untouched, At, To
    <2> QED BY <2>4, <2>5, <2>6, <2>7 DEF ClientInv
  <1> QED BY <1>1, <1>2, <1>3

\* A caller gives back a connection that is closed or carries nothing.
LEMMA GivesBack ==
    ASSUME ClientInv, NEW c \in Callers, Holding(c), NEW x \in Link,
           conn' = [conn EXCEPT ![To(c)] = x],
           x.closed \/ (x.owed = {} /\ x.wire = <<>>),
           Returns(c)
    PROVE  ClientInv'
  <1> DEFINE r == To(c)
  <1>1. /\ r \in Remotes /\ caller' = [caller EXCEPT ![c] = Outside]
        /\ slot' = [slot EXCEPT ![r] = "idle"]
        /\ conn' \in [Remotes -> Link] /\ conn'[r] = x
        /\ \A q \in Remotes \ {r} : conn'[q] = conn[q]
    BY LinkChanged DEF ClientInv, ClientTypeOK, Holding, At, Returns
  <1>2. Outside \in Call
    BY DEF Outside, WireId, Call
  <1>3. ClientTypeOK'
    BY <1>1, <1>2 DEF ClientInv, ClientTypeOK, At, To, Outside
  <1>4. \A d \in Callers : IF d = c THEN caller'[d] = Outside ELSE caller'[d] = caller[d]
    BY <1>1 DEF ClientInv, ClientTypeOK
  <1>5. \A d \in Callers \ {c} : Holding(d) => To(d) # r
    BY DEF ClientInv, OneHolder
  <1>6. OneHolder'
    BY <1>1, <1>4, <1>5 DEF ClientInv, ClientTypeOK, OneHolder, Holding, To, Outside
  <1>7. Orderly'
    BY <1>1, <1>4, <1>5 DEF ClientInv, ClientTypeOK, Orderly, Holding, At, To, Held, Outside
  <1>8. Untouched'
    BY <1>1, <1>4, <1>5 DEF ClientInv, ClientTypeOK, Untouched, Holding, At, To, Outside
  <1> QED BY <1>3, <1>6, <1>7, <1>8 DEF ClientInv

\* A call ends for want of a connection.
LEMMA EndsWithout ==
    ASSUME ClientInv, NEW c \in Callers,
           caller' = [caller EXCEPT ![c] = Outside], UNCHANGED conn,
           \/ At(c, "get") /\ UNCHANGED slot
           \/ At(c, "replace") /\ slot' = [slot EXCEPT ![To(c)] = "empty"]
    PROVE  ClientInv'
  <1>1. Outside \in Call
    BY DEF Outside, WireId, Call
  <1>2. \A d \in Callers : IF d = c THEN caller'[d] = Outside ELSE caller'[d] = caller[d]
    BY DEF ClientInv, ClientTypeOK
  <1>3. /\ slot' \in [Remotes -> {"unmade", "idle", "taken", "empty"}]
        /\ \A q \in Remotes : slot'[q] = "unmade" <=> slot[q] = "unmade"
        /\ \A d \in Callers \ {c} : Holding(d) => slot'[To(d)] = "taken"
    <2>1. CASE UNCHANGED slot
      BY <2>1 DEF ClientInv, ClientTypeOK, OneHolder
    <2>2. CASE At(c, "replace") /\ slot' = [slot EXCEPT ![To(c)] = "empty"]
      <3>1. /\ To(c) \in Remotes /\ slot[To(c)] = "taken"
            /\ \A d \in Callers \ {c} : Holding(d) => To(d) \in Remotes /\ To(d) # To(c)
        BY <2>2 DEF ClientInv, ClientTypeOK, OneHolder, Holding, At
      <3> QED BY <2>2, <3>1 DEF ClientInv, ClientTypeOK, OneHolder
    <2> QED BY <2>1, <2>2
  <1>4. ClientTypeOK'
    BY <1>1, <1>3 DEF ClientInv, ClientTypeOK, At, To, Outside
  <1>5. OneHolder'
    BY <1>2, <1>3 DEF ClientInv, OneHolder, Holding, To, Outside
  <1>6. Orderly'
    BY <1>2 DEF ClientInv, Orderly, At, To, Held, Outside
  <1>7. Untouched'
    BY <1>2, <1>3 DEF ClientInv, Untouched, At, To, Outside
  <1> QED BY <1>4, <1>5, <1>6, <1>7 DEF ClientInv

\* A call begins, makes the first connection, and takes one.
LEMMA TakingKeeps ==
    ASSUME ClientInv, NEW c \in Callers,
           (\E r \in Remotes : Calls(c, r)) \/ Makes(c) \/ Takes(c) \/ Replaces(c)
    PROVE  ClientInv'
  <1>0. Fresh \in Link /\ ~Fresh.closed /\ Fresh.owed = {} /\ Fresh.wire = <<>>
    BY DEF Fresh, Link, Part
  <1>1. CASE \E r \in Remotes : Calls(c, r)
    <2>1. PICK r \in Remotes : Calls(c, r)
      BY <1>1
    <2> DEFINE y == [caller[c] EXCEPT !.at = "get", !.to = r]
    <2>2. caller \in [Callers -> Call] /\ caller[c] \in Call /\ caller[c].at = "out"
      BY <2>1 DEF Calls, ClientInv, ClientTypeOK, At
    <2>3. y \in Call /\ y.at = "get" /\ y.to = r /\ y.got = caller[c].got
      BY <2>2 DEF Call
    <2>4. /\ caller' \in [Callers -> Call] /\ caller'[c] = y
          /\ \A d \in Callers \ {c} : caller'[d] = caller[d]
          /\ UNCHANGED <<slot, conn>>
      <3>1. caller' = [caller EXCEPT ![c] = y]
        BY <2>1, <2>2 DEF Calls
      <3>2. UNCHANGED <<slot, conn>>
        BY <2>1 DEF Calls
      <3> HIDE DEF y
      <3> QED BY <2>2, <2>3, <3>1, <3>2, CallerChanged
    <2> HIDE DEF y
    <2>5. ClientTypeOK'
      BY <2>3, <2>4 DEF ClientInv, ClientTypeOK, At, To
    <2>6. OneHolder'
      BY <2>3, <2>4 DEF ClientInv, OneHolder, Holding, To
    <2>7. Orderly'
      BY <2>2, <2>3, <2>4 DEF ClientInv, Orderly, At, To, Held
    <2>8. Untouched'
      BY <2>2, <2>3, <2>4 DEF ClientInv, Untouched, At, To
    <2> QED BY <2>5, <2>6, <2>7, <2>8 DEF ClientInv
  <1> DEFINE r == To(c)
  <1>2. CASE Makes(c)
    <2>1. r \in Remotes /\ \A d \in Callers : Holding(d) => To(d) # r
      BY <1>2 DEF Makes, ClientInv, ClientTypeOK, OneHolder, At
    <2>2. CASE Connects(r) /\ slot' = [slot EXCEPT ![r] = "idle"] /\ UNCHANGED caller
      <3>1. /\ conn' \in [Remotes -> Link] /\ conn'[r] = Fresh
            /\ \A q \in Remotes \ {r} : conn'[q] = conn[q]
        BY <1>0, <2>1, <2>2, LinkChanged DEF Connects, ClientInv, ClientTypeOK
      <3>2. ClientTypeOK'
        BY <2>1, <2>2, <3>1 DEF ClientInv, ClientTypeOK, At, To
      <3>3. OneHolder'
        BY <2>1, <2>2 DEF ClientInv, ClientTypeOK, OneHolder, Holding, To
      <3>4. Orderly'
        BY <2>1, <2>2, <3>1 DEF ClientInv, ClientTypeOK, Orderly, Holding, At, To, Held
      <3>5. Untouched'
        BY <1>0, <2>1, <2>2, <3>1 DEF ClientInv, ClientTypeOK, Untouched, At, To
      <3> QED BY <3>2, <3>3, <3>4, <3>5 DEF ClientInv
    <2>3. CASE caller' = [caller EXCEPT ![c] = Outside] /\ UNCHANGED <<slot, conn>>
      <3>1. At(c, "get")
        BY <1>2 DEF Makes
      <3> QED BY <2>3, <3>1, EndsWithout
    <2> QED BY <1>2, <2>2, <2>3 DEF Makes
  <1>3. CASE Takes(c)
    <2> DEFINE place == IF Held(c).closed THEN "replace" ELSE "write"
    <2> DEFINE y == [caller[c] EXCEPT !.at = place]
    <2>1. /\ r \in Remotes /\ caller[c].at = "get" /\ slot[r] = "idle" /\ conn' = conn
          /\ slot' = [slot EXCEPT ![r] = "taken"]
          /\ caller' = [caller EXCEPT ![c].at = place]
          /\ caller \in [Callers -> Call] /\ caller[c] \in Call
      BY <1>3 DEF Takes, Moves, ClientInv, ClientTypeOK, At, To
    <2>2. \A d \in Callers : Holding(d) => To(d) # r
      BY <2>1 DEF ClientInv, OneHolder
    <2>3. y \in Call /\ y.at = place /\ y.to = r /\ y.got = caller[c].got
      BY <2>1 DEF Call, To
    <2>4. /\ caller' \in [Callers -> Call] /\ caller'[c] = y
          /\ \A d \in Callers \ {c} : caller'[d] = caller[d]
      <3>1. caller' = [caller EXCEPT ![c] = y]
        BY <2>1
      <3> QED BY <2>1, <2>3, <3>1, CallerChanged
    <2> HIDE DEF y
    <2>5. ClientTypeOK'
      BY <2>1, <2>3, <2>4 DEF ClientInv, ClientTypeOK, At, To
    <2>6. OneHolder'
      BY <2>1, <2>2, <2>3, <2>4 DEF ClientInv, ClientTypeOK, OneHolder, Holding, To
    <2>7. Orderly'
      <3>1. y.got = <<>> /\ y.at # "read" /\ (y.at = "write" => ~conn[r].closed)
        BY <2>1, <2>3 DEF ClientInv, Orderly, At, Held
      <3> QED BY <2>1, <2>3, <2>4, <3>1 DEF ClientInv, Orderly, At, To, Held
    <2>8. Untouched'
      BY <2>1, <2>3, <2>4 DEF ClientInv, ClientTypeOK, Untouched, At, To
    <2> QED BY <2>5, <2>6, <2>7, <2>8 DEF ClientInv
  <1>4. CASE Replaces(c)
    <2>1. /\ r \in Remotes /\ caller[c].at = "replace"
          /\ \A d \in Callers \ {c} : Holding(d) => To(d) # r
      BY <1>4 DEF Replaces, ClientInv, ClientTypeOK, OneHolder, Holding, At
    <2>2. CASE Connects(r) /\ slot' = [slot EXCEPT ![r] = "idle"] /\ Moves(c, "get")
      <3>1. /\ conn' \in [Remotes -> Link] /\ conn'[r] = Fresh
            /\ \A q \in Remotes \ {r} : conn'[q] = conn[q]
        BY <1>0, <2>1, <2>2, LinkChanged DEF Connects, ClientInv, ClientTypeOK
      <3> DEFINE y == [caller[c] EXCEPT !.at = "get"]
      <3>2. caller \in [Callers -> Call] /\ caller[c] \in Call /\ caller[c].got = <<>>
        BY <2>1 DEF ClientInv, ClientTypeOK, Orderly, At
      <3>3. y \in Call /\ y.at = "get" /\ y.to = r /\ y.got = <<>>
        BY <3>2 DEF Call, To
      <3>4. /\ caller' \in [Callers -> Call] /\ caller'[c] = y
            /\ \A d \in Callers \ {c} : caller'[d] = caller[d]
        <4>1. caller' = [caller EXCEPT ![c] = y]
          BY <2>2, <3>2 DEF Moves
        <4> QED BY <3>2, <3>3, <4>1, CallerChanged
      <3> HIDE DEF y
      <3>5. ClientTypeOK'
        BY <2>1, <2>2, <3>1, <3>3, <3>4 DEF ClientInv, ClientTypeOK, At, To
      <3>6. OneHolder'
        BY <2>1, <2>2, <3>3, <3>4 DEF ClientInv, ClientTypeOK, OneHolder, Holding, At, To
      <3>7. Orderly'
        BY <2>1, <3>1, <3>3, <3>4 DEF ClientInv, ClientTypeOK, Orderly, Holding, At, To, Held
      <3>8. Untouched'
        BY <1>0, <2>1, <2>2, <3>1, <3>3, <3>4
           DEF ClientInv, ClientTypeOK, Untouched, Holding, At, To
      <3> QED BY <3>5, <3>6, <3>7, <3>8 DEF ClientInv
    <2>3. CASE /\ slot' = [slot EXCEPT ![r] = "empty"]
               /\ caller' = [caller EXCEPT ![c] = Outside] /\ UNCHANGED conn
      BY <1>4, <2>3, EndsWithout DEF Replaces
    <2> QED BY <1>4, <2>2, <2>3 DEF Replaces
  <1> QED BY <1>1, <1>2, <1>3, <1>4

\* A request is sent.
LEMMA WritesKeeps ==
    ASSUME ClientInv, NEW c \in Callers, Writes(c)
    PROVE  ClientInv'
  <1> DEFINE r == To(c)
             id == Increase(Held(c).id)
             counted == [Held(c) EXCEPT !.id = id]
  <1>1. /\ r \in Remotes /\ conn[r] \in Link /\ caller[c].at = "write"
        /\ Holding(c) /\ conn \in [Remotes -> Link]
        /\ \A d \in Callers \ {c} : Holding(d) => To(d) # r
    BY DEF Writes, ClientInv, ClientTypeOK, OneHolder, Holding, At
  <1>2. id \in 0..MaxInt
    BY <1>1 DEF Increase, Held, Link
  <1>3. ~conn[r].closed /\ conn[r].owed = {} /\ conn[r].wire = <<>> /\ caller[c].got = <<>>
    BY <1>1 DEF ClientInv, OneHolder, Orderly, Untouched, Holding, At, Held
  <1>4. counted \in Link /\ counted.closed = conn[r].closed
        /\ counted.owed = {} /\ counted.wire = <<>>
    BY <1>1, <1>2, <1>3 DEF Held, Link
  <1>5. Closed(counted) \in Link /\ Closed(counted).closed
    <2>1. <<>> \in Seq(Part)
      OBVIOUS
    <2> QED BY <1>4, <2>1 DEF Closed, Link
  <1>6. CASE conn' = [conn EXCEPT ![r] = counted] /\ Returns(c)
    BY <1>1, <1>4, <1>6, GivesBack
  <1>7. CASE conn' = [conn EXCEPT ![r] = Closed(counted)] /\ Returns(c)
    BY <1>1, <1>5, <1>7, GivesBack
  <1>8. CASE /\ id <= MaxWire
             /\ conn' = [conn EXCEPT ![r] =
                           [counted EXCEPT !.owed = IF counted.peer THEN @ \cup {id} ELSE @]]
             /\ caller' = [caller EXCEPT ![c].at = "read", ![c].tid = id]
             /\ UNCHANGED slot
    <2> DEFINE x == [counted EXCEPT !.owed = IF counted.peer THEN @ \cup {id} ELSE @]
    <2>1. id \in WireId
      BY <1>2, <1>8 DEF WireId
    <2>2. x \in Link /\ ~x.closed /\ x.owed \subseteq {id} /\ x.wire = <<>>
      BY <1>3, <1>4, <2>1 DEF Link
    <2> HIDE DEF x, id
    <2>3. /\ conn' \in [Remotes -> Link] /\ conn'[r] = x
          /\ \A q \in Remotes \ {r} : conn'[q] = conn[q]
      BY <1>1, <1>8, <2>2, LinkChanged DEF x
    <2> DEFINE y == [caller[c] EXCEPT !.at = "read", !.tid = id]
    <2>4. caller \in [Callers -> Call] /\ caller[c] \in Call
      BY DEF ClientInv, ClientTypeOK
    <2>5. y \in Call /\ y.at = "read" /\ y.to = r /\ y.tid = id /\ y.got = <<>>
      BY <1>3, <2>1, <2>4 DEF Call, To
    <2>6. /\ caller' \in [Callers -> Call] /\ caller'[c] = y
          /\ \A d \in Callers \ {c} : caller'[d] = caller[d]
      <3>1. caller' = [caller EXCEPT ![c] = y]
        BY <1>8, <2>4
      <3> QED BY <2>4, <2>5, <3>1, CallerChanged
    <2> HIDE DEF y
    <2>7. ClientTypeOK'
      BY <1>1, <1>8, <2>3, <2>5, <2>6 DEF ClientInv, ClientTypeOK, At, To
    <2>8. OneHolder'
      BY <1>1, <1>8, <2>5, <2>6 DEF ClientInv, OneHolder, Holding, To
    <2>9. Orderly'
      BY <1>1, <2>2, <2>3, <2>5, <2>6 DEF ClientInv, ClientTypeOK, Orderly, Holding, At, To, Held
    <2>10. Untouched'
      BY <1>1, <1>8, <2>3, <2>5, <2>6 DEF ClientInv, Untouched, Holding, At, To
    <2> QED BY <2>7, <2>8, <2>9, <2>10 DEF ClientInv
  <1> QED BY <1>6, <1>7, <1>8 DEF Writes

\* The parts that follow, and what follows the first of them.
LEMMA RestIs ==
    ASSUME NEW t \in WireId, NEW n \in 0..2
    PROVE  /\ Rest(t, n) \in Seq(Part) /\ Len(Rest(t, n)) = 3 - n
           /\ \A i \in 1..(3 - n) : Rest(t, n)[i] = [of |-> t, n |-> n + i]
  BY DEF Rest, Part

LEMMA TailOfRest ==
    ASSUME NEW t \in WireId, NEW n \in 0..1
    PROVE  Tail(Rest(t, n)) = Rest(t, n + 1)
  <1> DEFINE s == Rest(t, n)
  <1>0. /\ s \in Seq(Part) /\ Len(s) = 3 - n
        /\ \A i \in 1..(3 - n) : s[i] = [of |-> t, n |-> n + i]
    <2>1. n \in 0..2
      OBVIOUS
    <2> QED BY <2>1, RestIs
  <1> HIDE DEF s
  <1>1. Tail(s) \in Seq(Part) /\ Len(Tail(s)) = 3 - (n + 1)
    BY <1>0
  <1>2. \A i \in 1..(3 - (n + 1)) : Tail(s)[i] = [of |-> t, n |-> (n + 1) + i]
    <2> SUFFICES ASSUME NEW i \in 1..(3 - (n + 1))
                 PROVE  Tail(s)[i] = s[i + 1] /\ i + 1 \in 1..(3 - n) /\ n + (i + 1) = (n + 1) + i
      BY <1>0
    <2> QED BY <1>0, SMTT(30)
  <1>3. /\ Rest(t, n + 1) \in Seq(Part) /\ Len(Rest(t, n + 1)) = 3 - (n + 1)
        /\ \A i \in 1..(3 - (n + 1)) : Rest(t, n + 1)[i] = [of |-> t, n |-> (n + 1) + i]
    <2>1. n + 1 \in 0..2
      OBVIOUS
    <2> QED BY <2>1, RestIs
  <1>4. Tail(s) = Rest(t, n + 1)
    BY <1>1, <1>2, <1>3, SeqEqual
  <1> QED BY <1>4 DEF s

\* The answer is received part by part, or fails to be.
LEMMA ReadsKeeps ==
    ASSUME ClientInv, NEW c \in Callers, Reads(c) \/ ReadFails(c)
    PROVE  ClientInv'
  <1> DEFINE r == To(c)
  <1>1. /\ r \in Remotes /\ conn[r] \in Link /\ caller[c].at = "read"
        /\ Holding(c) /\ conn \in [Remotes -> Link]
        /\ \A d \in Callers \ {c} : Holding(d) => To(d) # r
    BY DEF Reads, ReadFails, ClientInv, ClientTypeOK, OneHolder, Holding, At
  <1>2. \A x \in Link : Closed(x) \in Link /\ Closed(x).closed
    <2>1. <<>> \in Seq(Part)
      OBVIOUS
    <2> QED BY <2>1 DEF Closed, Link
  <1>3. CASE ReadFails(c)
    BY <1>1, <1>2, <1>3, GivesBack DEF ReadFails
  <1>4. CASE Reads(c)
    <2> DEFINE n    == Len(caller[c].got)
               t    == caller[c].tid
               got  == Append(caller[c].got, Head(conn[r].wire))
               rest == [conn[r] EXCEPT !.wire = Tail(@)]
    <2>1. /\ conn[r].wire # <<>> /\ ~conn[r].closed /\ conn[r].owed = {}
          /\ n \in 0..2 /\ conn[r].wire = Rest(t, n)
      BY <1>1, <1>4 DEF Reads, ClientInv, Orderly, At, Held
    <2>2. /\ t \in WireId /\ caller[c].got \in Seq(Part) /\ conn[r].wire \in Seq(Part)
          /\ caller \in [Callers -> Call] /\ caller[c] \in Call
      <3>1. caller \in [Callers -> Call] /\ caller[c] \in Call
        BY DEF ClientInv, ClientTypeOK
      <3> QED BY <1>1, <3>1 DEF Link, Call
    <2>3. /\ Len(conn[r].wire) = 3 - n
          /\ \A i \in 1..(3 - n) : conn[r].wire[i] = [of |-> t, n |-> n + i]
      <3> HIDE DEF n, t
      <3> QED BY <2>1, <2>2, RestIs, ZenonT(60)
    <2>4. got \in Seq(Part) /\ Len(got) = n + 1
      BY <2>1, <2>2
    <2>5. rest \in Link /\ rest.closed = conn[r].closed /\ rest.owed = {}
          /\ rest.wire = Tail(conn[r].wire)
      <3>1. Tail(conn[r].wire) \in Seq(Part)
        BY <2>1, <2>2
      <3> QED BY <1>1, <2>1, <3>1 DEF Link
    <2>6. CASE Len(got) < 3 /\ caller' = [caller EXCEPT ![c].got = got]
               /\ conn' = [conn EXCEPT ![r] = rest] /\ UNCHANGED slot
      <3>1. rest.wire = Rest(t, Len(got)) /\ Len(got) \in 0..2
        <4>1. Tail(conn[r].wire) = Rest(t, n + 1)
          <5>1. n \in 0..1
            <6>1. n \in 0..2 /\ n + 1 = Len(got) /\ Len(got) < 3
              BY <2>1, <2>4, <2>6
            <6> HIDE DEF n, got
            <6> QED BY <6>1
          <5> HIDE DEF n, t
          <5> QED BY <2>1, <2>2, <5>1, TailOfRest
        <4> QED BY <2>1, <2>4, <2>5, <2>6, <4>1
      <3> DEFINE y == [caller[c] EXCEPT !.got = got]
      <3>2. y \in Call /\ y.at = "read" /\ y.to = r /\ y.tid = t /\ y.got = got
        BY <1>1, <2>2, <2>4 DEF Call, To
      <3>3. /\ caller' \in [Callers -> Call] /\ caller'[c] = y
            /\ \A d \in Callers \ {c} : caller'[d] = caller[d]
        <4>1. caller' = [caller EXCEPT ![c] = y]
          BY <2>2, <2>6
        <4> QED BY <2>2, <3>2, <4>1, CallerChanged
      <3> HIDE DEF y, rest, got
      <3>4. /\ conn' \in [Remotes -> Link] /\ conn'[r] = rest
            /\ \A q \in Remotes \ {r} : conn'[q] = conn[q]
        BY <1>1, <2>5, <2>6, LinkChanged
      <3>5. ClientTypeOK'
        BY <1>1, <2>6, <3>2, <3>3, <3>4 DEF ClientInv, ClientTypeOK, At, To
      <3>6. OneHolder'
        BY <1>1, <2>6, <3>2, <3>3 DEF ClientInv, OneHolder, Holding, To
      <3>7. Orderly'
        BY <1>1, <2>1, <2>5, <3>1, <3>2, <3>3, <3>4
           DEF ClientInv, ClientTypeOK, Orderly, Holding, At, To, Held
      <3>8. Untouched'
        BY <1>1, <2>6, <3>2, <3>3, <3>4 DEF ClientInv, Untouched, Holding, At, To
      <3> QED BY <3>5, <3>6, <3>7, <3>8 DEF ClientInv
    <2>7. CASE /\ Len(got) = 3 /\ Returns(c)
               /\ conn' = [conn EXCEPT ![r] =
                             IF got[2].of = caller[c].tid THEN rest ELSE Closed(rest)]
      <3>1. rest.wire = <<>>
        <4>1. Len(conn[r].wire) = 1
          BY <2>1, <2>3, <2>4, <2>7
        <4>2. Tail(conn[r].wire) \in Seq(Part) /\ Len(Tail(conn[r].wire)) = 0
          BY <2>1, <2>2, <4>1
        <4>3. Tail(conn[r].wire) = <<>>
          BY <4>2, EmptySeq
        <4> QED BY <2>5, <4>3
      <3> DEFINE x == IF got[2].of = caller[c].tid THEN rest ELSE Closed(rest)
      <3>2. x \in Link /\ (x.closed \/ (x.owed = {} /\ x.wire = <<>>))
        BY <1>2, <2>5, <3>1
      <3> QED BY <1>1, <2>7, <3>2, GivesBack
    <2> QED BY <1>4, <2>6, <2>7 DEF Reads, Held
  <1> QED BY <1>3, <1>4

\* The invariant of a client.
THEOREM ClientInvHolds == ClientSpec => []ClientInv
  <1>1. ClientInit => ClientInv
    <2> SUFFICES ASSUME ClientInit
                 PROVE  ClientInv
      OBVIOUS
    <2>1. Fresh \in Link /\ Outside \in Call
      BY DEF Fresh, Outside, Link, Call, WireId
    <2>2. ClientTypeOK
      BY <2>1 DEF ClientInit, ClientTypeOK, At, To, Outside
    <2>3. \A c \in Callers : caller[c].at = "out" /\ caller[c].got = <<>>
      BY DEF ClientInit, Outside
    <2>4. OneHolder /\ Orderly
      BY <2>3 DEF OneHolder, Orderly, Holding, At
    <2>5. Untouched
      BY DEF ClientInit, Untouched
    <2> QED BY <2>2, <2>4, <2>5 DEF ClientInv
  <1>2. ClientInv /\ [ClientNext]_clientVars => ClientInv'
    <2> SUFFICES ASSUME ClientInv, [ClientNext]_clientVars
                 PROVE  ClientInv'
      OBVIOUS
    <2>1. CASE UNCHANGED clientVars
      BY <2>1 DEF clientVars, ClientInv, ClientTypeOK, OneHolder, Orderly, Untouched,
                  Holding, At, To, Held
    <2>2. ASSUME NEW r \in Remotes, ServerStarts(r) \/ ServerEnds(r) \/ ServerAnswers(r)
          PROVE  ClientInv'
      BY <2>2, ServerKeeps
    <2>3. ASSUME NEW c \in Callers,
                 (\E r \in Remotes : Calls(c, r)) \/ Makes(c) \/ Takes(c) \/ Replaces(c)
          PROVE  ClientInv'
      BY <2>3, TakingKeeps
    <2>4. ASSUME NEW c \in Callers, Writes(c)
          PROVE  ClientInv'
      BY <2>4, WritesKeeps
    <2>5. ASSUME NEW c \in Callers, Reads(c) \/ ReadFails(c)
          PROVE  ClientInv'
      BY <2>5, ReadsKeeps
    <2> QED BY <2>1, <2>2, <2>3, <2>4, <2>5 DEF ClientNext, Holds
  <1> QED BY <1>1, <1>2, PTL DEF ClientSpec

\* For any number of callers and remotes: whatever timed out, broke or was
\* refused before, an open connection holds nothing of an earlier call when the
\* next caller reads from it.
THEOREM NothingIsLeftOver == ClientSpec => []NothingLeftOver
  <1>1. ClientInv => NothingLeftOver
    <2> SUFFICES ASSUME ClientInv, NEW r \in Remotes, slot[r] # "unmade", ~conn[r].closed
                 PROVE  LET users == {c \in Callers : At(c, "read") /\ To(c) = r}
                            mine(c) == caller[c].tid
                        IN  /\ users = {} => conn[r].owed = {} /\ conn[r].wire = <<>>
                            /\ \A c \in users :
                                  /\ conn[r].owed \subseteq {mine(c)}
                                  /\ \A i \in DOMAIN conn[r].wire :
                                        conn[r].wire[i] = [of |-> mine(c), n |-> Len(caller[c].got) + i]
      BY DEF NothingLeftOver
    <2>1. (\A c \in Callers : At(c, "read") => To(c) # r)
             => conn[r].owed = {} /\ conn[r].wire = <<>>
      BY DEF ClientInv, Untouched
    <2>2. ASSUME NEW c \in Callers, At(c, "read"), To(c) = r
          PROVE  /\ conn[r].owed \subseteq {caller[c].tid}
                 /\ \A i \in DOMAIN conn[r].wire :
                       conn[r].wire[i] = [of |-> caller[c].tid, n |-> Len(caller[c].got) + i]
      <3>1. CASE /\ conn[r].owed \subseteq {caller[c].tid}
                 /\ conn[r].wire = <<>>
        BY <3>1
      <3>2. CASE /\ conn[r].owed = {} /\ Len(caller[c].got) \in 0..2
                 /\ conn[r].wire = Rest(caller[c].tid, Len(caller[c].got))
        BY <3>2 DEF Rest
      <3> QED BY <2>2, <3>1, <3>2 DEF ClientInv, Orderly, Held
    <2> QED BY <2>1, <2>2
  <1> QED BY <1>1, ClientInvHolds, PTL

=============================================================================
