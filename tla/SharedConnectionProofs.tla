----------------------- MODULE SharedConnectionProofs -----------------------
(***************************************************************************)
(* For any number of callers and closers, any sizes of the queues and any  *)
(* peer: the inductive invariant of SharedConnection, its type invariant,  *)
(* and that closing strands nobody, with one lemma per actor; then, on top *)
(* of it, whose answer a caller gets, what happens to the futures it waits *)
(* on, when the reader may sleep, and that the connection implements       *)
(* RpcCalls.                                                               *)
(***************************************************************************)
EXTENDS SharedConnection, LRUCacheTheorems, TLAPS

USE DEF writeVars, readVars, flagVars, callVars, netVars

\* What the writer pops or leaves behind is all there was.
LEMMA HeadOrTail ==
    ASSUME NEW K, NEW s \in Seq(K), s # <<>>
    PROVE  \A x \in ToSet(s) : x = Head(s) \/ x \in ToSet(Tail(s))
  <1> SUFFICES ASSUME NEW i \in 1..Len(s), i # 1
               PROVE  s[i] \in ToSet(Tail(s))
    BY DEF ToSet
  <1>1. Len(Tail(s)) = Len(s) - 1 /\ Tail(s) \in Seq(K)
    OBVIOUS
  <1>2. i - 1 \in 1..Len(Tail(s)) /\ Tail(s)[i - 1] = s[i]
    BY <1>1
  <1>3. i - 1 \in DOMAIN Tail(s)
    BY <1>1, <1>2
  <1> QED BY <1>2, <1>3 DEF ToSet

\* The steps of a caller: invoke() up to its end or its timeout.
LEMMA CallKeeps ==
    ASSUME NEW c \in Clients, IndInv, Write(c)\/ AwaitWrite(c)\/ Read(c)\/ AwaitRead(c)\/ GiveUp(c)
    PROVE IndInv'
  <1> USE ConnectionAssumption DEF ConnectionAssumption
  <1>1. CASE Write(c)
    <2>1. TypeOK'
      <3>1. CASE UNCHANGED <<writeVars, pc, tid>>
        BY <1>1, <3>1 DEF IndInv, TypeOK, Write, Threads, WriterPcs, ReaderPcs, ClosePcs, CallStates
      <3>2. CASE idgen < MaxTid /\ idgen' = idgen + 1
        <4>1. idgen + 1 \in Tids
          BY <3>2 DEF IndInv, TypeOK, Tids
        <4>2. CASE UNCHANGED <<pendingWrites, buff, wfut, pc, tid>>
          <5>1. idgen' \in 0..MaxTid
            BY <3>2, <4>1 DEF Tids
          <5>2. call' \in [Clients -> CallStates]
            BY <1>1 DEF IndInv, TypeOK, Write, CallStates
          <5> QED BY <1>1, <4>2, <5>1, <5>2 DEF IndInv, TypeOK, Write
        <4>3. CASE Len(pendingWrites) < MaxPendingWrites /\ Queue(idgen + 1, c)
                   /\ tid' = [tid EXCEPT ![c] = idgen + 1]
                   /\ Notify("writer", "w_wait", "w_woken")
          <5>1. pendingWrites' \in Seq(Tids) /\ Len(pendingWrites') <= MaxPendingWrites
            <6>1. pendingWrites \in Seq(Tids) /\ Len(pendingWrites) \in Nat
              BY DEF IndInv, TypeOK
            <6>2. Cons(idgen + 1, pendingWrites) \in Seq(Tids)
                  /\ Len(Cons(idgen + 1, pendingWrites)) = Len(pendingWrites) + 1
              BY <4>1, <6>1, ConsAdds
            <6> QED BY <4>3, <6>1, <6>2 DEF Queue
          <5>2. buff' \in [Tids -> Body]
                /\ wfut' \in [Tids -> {"none", "pending", "ok", "timeout", "abort"}]
            BY <4>3 DEF IndInv, TypeOK, Queue, Body
          <5>3. tid' \in [Clients -> 0..MaxTid] /\ idgen' \in 0..MaxTid
            BY <3>2, <4>1, <4>3 DEF IndInv, TypeOK, Tids
          <5>4. pc' \in [Threads -> {"idle", "done"} \cup WriterPcs \cup ReaderPcs \cup ClosePcs]
            BY <4>3 DEF IndInv, TypeOK, Notify, WriterPcs
          <5>5. call' \in [Clients -> CallStates]
            BY <1>1 DEF IndInv, TypeOK, Write, CallStates
          <5> QED BY <1>1, <5>1, <5>2, <5>3, <5>4, <5>5 DEF IndInv, TypeOK, Write
        <4> QED BY <1>1, <3>2, <4>2, <4>3 DEF Write
      <3> QED BY <1>1, <3>1, <3>2 DEF Write
    <2>2. ThreadsInPlace'
      <3>1. idgen < MaxTid => idgen + 1 \in Tids
        BY DEF IndInv, TypeOK, Tids
      <3>2. \A x \in Clients : call'[x] \in {"writing", "sent", "reading", "answered"} => tid'[x] \in Tids
        BY <1>1, <3>1 DEF IndInv, TypeOK, ThreadsInPlace, Write
      <3>3. wcur' = wcur /\ rbuf' = rbuf /\ pc'["reader"] = pc["reader"]
            /\ (pc'["writer"] = pc["writer"] \/ pc'["writer"] = "w_woken")
        BY <1>1 DEF IndInv, TypeOK, Write, Notify, Threads
      <3> QED BY <3>2, <3>3 DEF IndInv, ThreadsInPlace, InHand, WriterPcs
    <2>3. OneTeardown'
      BY <1>1 DEF IndInv, TypeOK, ThreadsInPlace, OneTeardown, Write, Queue, Notify, Aborting, Teardown, Threads, WriterPcs, ReaderPcs, ClosePcs, CallStates
    <2>4. Drained'
      BY <1>1 DEF IndInv, TypeOK, ThreadsInPlace, OneTeardown, Drained, Write, Queue, Notify, Aborting, Teardown, Threads, WriterPcs, ReaderPcs, ClosePcs, CallStates
    <2>5. PendingFound'
      <3>1. CASE UNCHANGED <<pendingWrites, wfut>>
        BY <1>1, <3>1 DEF IndInv, TypeOK, PendingFound, Write, Notify, InHand, Threads, WriterPcs, ReaderPcs, ClosePcs, CallStates
      <3>2. CASE idgen < MaxTid /\ Queue(idgen + 1, c) /\ Notify("writer", "w_wait", "w_woken")
        <4>1. idgen + 1 \in Tids
          BY <3>2 DEF IndInv, TypeOK, Tids
        <4>2. ToSet(pendingWrites') = ToSet(pendingWrites) \cup {idgen + 1}
          BY <3>2, <4>1, ConsAdds DEF IndInv, TypeOK, Queue
        <4> QED BY <1>1, <3>2, <4>1, <4>2
               DEF IndInv, TypeOK, PendingFound, Write, Queue, Notify, InHand, Threads, WriterPcs, ReaderPcs, ClosePcs, CallStates
      <3> QED BY <1>1, <3>1, <3>2 DEF Write
    <2> QED BY <2>1, <2>2, <2>3, <2>4, <2>5 DEF IndInv
  <1>2. CASE AwaitWrite(c)
    <2>1. TypeOK'
      BY <1>2 DEF IndInv, TypeOK, ThreadsInPlace, AwaitWrite, Threads, WriterPcs, ReaderPcs, ClosePcs, CallStates
    <2>2. ThreadsInPlace'
      BY <1>2 DEF IndInv, TypeOK, ThreadsInPlace, AwaitWrite, Threads, WriterPcs, ReaderPcs, ClosePcs, CallStates, InHand
    <2>3. OneTeardown'
      BY <1>2 DEF IndInv, TypeOK, ThreadsInPlace, OneTeardown, AwaitWrite, Teardown, Threads, WriterPcs, ReaderPcs, ClosePcs, CallStates
    <2>4. Drained'
      BY <1>2 DEF IndInv, TypeOK, ThreadsInPlace, OneTeardown, Drained, AwaitWrite, Teardown, Threads, WriterPcs, ReaderPcs, ClosePcs, CallStates
    <2>5. PendingFound'
      BY <1>2 DEF IndInv, TypeOK, ThreadsInPlace, PendingFound, AwaitWrite, InHand, Threads, WriterPcs, ReaderPcs, ClosePcs, CallStates, Tids
    <2> QED BY <2>1, <2>2, <2>3, <2>4, <2>5 DEF IndInv
  <1>3. CASE Read(c)
    <2>1. TypeOK'
      <3> DEFINE t == tid[c]
      <3>0. t \in Tids
        BY <1>3 DEF IndInv, TypeOK, ThreadsInPlace, Read
      <3>1. CASE UNCHANGED <<readVars, pc>>
        BY <1>3, <3>1 DEF IndInv, TypeOK, Read, Threads, WriterPcs, ReaderPcs, ClosePcs, CallStates
      <3>2. CASE ReadEarlyAnswer(t)
        <4>1. Del(poolingReads, t) \in Seq(Tids) /\ Len(Del(poolingReads, t)) = Len(poolingReads) - 1
          BY <3>2, DelKeepsOthers DEF IndInv, TypeOK, ReadEarlyAnswer
        <4>2. rfut' \in [Tids -> {"none", "pending"} \cup Resolved]
          <5>1. pooled[t] \in {"none", "pending"} \cup Resolved
            BY <3>0 DEF IndInv, TypeOK, Resolved
          <5> QED BY <5>1, <3>2 DEF IndInv, TypeOK, ReadEarlyAnswer
        <4>3. poolingReads' \in Seq(Tids) /\ Len(poolingReads') <= MaxPoolingReads
          BY <3>2, <4>1 DEF IndInv, TypeOK, ReadEarlyAnswer
        <4>4. pooled' \in [Tids -> Body \cup {"none"}]
          BY <3>2 DEF IndInv, TypeOK, ReadEarlyAnswer
        <4>5. call' \in [Clients -> CallStates]
          BY <1>3 DEF IndInv, TypeOK, Read, CallStates
        <4> QED BY <1>3, <3>2, <4>2, <4>3, <4>4, <4>5 DEF IndInv, TypeOK, Read, ReadEarlyAnswer
      <3>3. CASE ReadPending(t)
        <4>1. Set(pendingReads, t, MaxPendingReads) \in Seq(Tids)
              /\ Len(Set(pendingReads, t, MaxPendingReads)) <= MaxPendingReads
          BY <3>0, SetKeepsOthers DEF IndInv, TypeOK
        <4>2. rfut' \in [Tids -> {"none", "pending"} \cup Resolved]
          BY <3>3 DEF IndInv, TypeOK, ReadPending, Resolved, Failures
        <4> QED BY <1>3, <3>3, <4>1, <4>2 DEF IndInv, TypeOK, Read, ReadPending, Notify, Threads, WriterPcs, ReaderPcs, ClosePcs, CallStates
      <3> QED BY <1>3, <3>1, <3>2, <3>3 DEF Read
    <2>2. ThreadsInPlace'
      BY <1>3 DEF IndInv, TypeOK, ThreadsInPlace, Read, ReadEarlyAnswer, ReadPending, Notify, Aborting, Threads, WriterPcs, ReaderPcs, ClosePcs, CallStates, InHand
    <2>3. OneTeardown'
      BY <1>3 DEF IndInv, TypeOK, ThreadsInPlace, OneTeardown, Read, ReadEarlyAnswer, ReadPending, Notify, Aborting, Teardown, Threads, WriterPcs, ReaderPcs, ClosePcs, CallStates
    <2>4. Drained'
      BY <1>3 DEF IndInv, TypeOK, ThreadsInPlace, OneTeardown, Drained, Read, ReadEarlyAnswer, ReadPending, Notify, Aborting, Teardown, Threads, WriterPcs, ReaderPcs, ClosePcs, CallStates
    <2>5. PendingFound'
      <3> DEFINE t == tid[c]
      <3>0. t \in Tids
        BY <1>3 DEF IndInv, TypeOK, ThreadsInPlace, Read
      <3>1. CASE UNCHANGED <<readVars, pc>>
        BY <1>3, <3>1 DEF IndInv, PendingFound, Read
      <3>2. CASE ReadEarlyAnswer(t)
        <4>1. pooled[t] # "pending"
          BY <3>0 DEF IndInv, TypeOK, Body, Heartbeat
        <4>2. \A x \in Tids : rfut'[x] = "pending" => rfut[x] = "pending"
          BY <4>1, <3>2 DEF IndInv, TypeOK, ReadEarlyAnswer
        <4> QED BY <1>3, <3>2, <4>2 DEF IndInv, PendingFound, Read, ReadEarlyAnswer
      <3>3. CASE ReadPending(t)
        BY <1>3, <3>0, <3>3, SetKeepsOthers
           DEF IndInv, TypeOK, PendingFound, Read, ReadPending, Notify, InHand, Threads, WriterPcs, ReaderPcs, ClosePcs, CallStates
      <3> QED BY <1>3, <3>1, <3>2, <3>3 DEF Read
    <2> QED BY <2>1, <2>2, <2>3, <2>4, <2>5 DEF IndInv
  <1>4. CASE AwaitRead(c)
    <2>1. TypeOK'
      BY <1>4 DEF IndInv, TypeOK, ThreadsInPlace, AwaitRead, Threads, WriterPcs, ReaderPcs, ClosePcs, CallStates
    <2>2. ThreadsInPlace'
      BY <1>4 DEF IndInv, TypeOK, ThreadsInPlace, AwaitRead, Threads, WriterPcs, ReaderPcs, ClosePcs, CallStates, InHand
    <2>3. OneTeardown'
      BY <1>4 DEF IndInv, TypeOK, ThreadsInPlace, OneTeardown, AwaitRead, Teardown, Threads, WriterPcs, ReaderPcs, ClosePcs, CallStates
    <2>4. Drained'
      BY <1>4 DEF IndInv, TypeOK, ThreadsInPlace, OneTeardown, Drained, AwaitRead, Teardown, Threads, WriterPcs, ReaderPcs, ClosePcs, CallStates
    <2>5. PendingFound'
      BY <1>4 DEF IndInv, TypeOK, ThreadsInPlace, PendingFound, AwaitRead, InHand, Threads, WriterPcs, ReaderPcs, ClosePcs, CallStates, Tids
    <2> QED BY <2>1, <2>2, <2>3, <2>4, <2>5 DEF IndInv
  <1>5. CASE GiveUp(c)
    <2>1. TypeOK'
      BY <1>5 DEF IndInv, TypeOK, ThreadsInPlace, GiveUp, Threads, WriterPcs, ReaderPcs, ClosePcs, CallStates
    <2>2. ThreadsInPlace'
      BY <1>5 DEF IndInv, TypeOK, ThreadsInPlace, GiveUp, Threads, WriterPcs, ReaderPcs, ClosePcs, CallStates, InHand
    <2>3. OneTeardown'
      BY <1>5 DEF IndInv, TypeOK, ThreadsInPlace, OneTeardown, GiveUp, Teardown, Threads, WriterPcs, ReaderPcs, ClosePcs, CallStates
    <2>4. Drained'
      BY <1>5 DEF IndInv, TypeOK, ThreadsInPlace, OneTeardown, Drained, GiveUp, Teardown, Threads, WriterPcs, ReaderPcs, ClosePcs, CallStates
    <2>5. PendingFound'
      BY <1>5 DEF IndInv, TypeOK, ThreadsInPlace, PendingFound, GiveUp, InHand, Threads, WriterPcs, ReaderPcs, ClosePcs, CallStates, Tids
    <2> QED BY <2>1, <2>2, <2>3, <2>4, <2>5 DEF IndInv
  <1> QED BY <1>1, <1>2, <1>3, <1>4, <1>5

\* The steps of the writing thread.
LEMMA WriterKeeps ==
    ASSUME IndInv, WriterTop\/ WriterTimer\/ WriterWoken\/ WriterWakesReader\/ WriterMissing\/ Expire\/ Transmit\/ WriteResult\/ SendFails
    PROVE IndInv'
  <1> USE ConnectionAssumption DEF ConnectionAssumption
  <1>1. CASE WriterTop
    <2>1. TypeOK'
      <3>1. CASE pendingWrites = <<>> \/ Aborting
        BY <1>1, <3>1 DEF IndInv, TypeOK, WriterTop, Threads, WriterPcs, ReaderPcs, ClosePcs, CallStates
      <3>2. CASE pendingWrites # <<>> /\ ~Aborting
        <4>1. /\ Head(pendingWrites) \in Tids /\ Tail(pendingWrites) \in Seq(Tids)
              /\ Len(Tail(pendingWrites)) = Len(pendingWrites) - 1
          <5>1. pendingWrites \in Seq(Tids)
            BY DEF IndInv, TypeOK
          <5> QED BY <3>2, <5>1
        <4>2. wcur' \in 0..MaxTid
          BY <1>1, <3>2, <4>1 DEF WriterTop, Tids
        <4>3. pendingWrites' \in Seq(Tids) /\ Len(pendingWrites') <= MaxPendingWrites
          <5>1. pendingWrites' = Tail(pendingWrites)
            BY <1>1, <3>2 DEF WriterTop
          <5> QED BY <4>1, <5>1 DEF IndInv, TypeOK
        <4>4. pc' \in [Threads -> {"idle", "done"} \cup WriterPcs \cup ReaderPcs \cup ClosePcs]
          BY <1>1, ZenonT(60) DEF IndInv, TypeOK, WriterTop, WriterPcs
        <4> QED BY <1>1, <4>2, <4>3, <4>4 DEF IndInv, TypeOK, WriterTop
      <3> QED BY <3>1, <3>2
    <2>2. ThreadsInPlace'
      BY <1>1 DEF IndInv, TypeOK, ThreadsInPlace, WriterTop, Aborting, Threads, WriterPcs, ReaderPcs, ClosePcs, CallStates, InHand
    <2>3. OneTeardown'
      BY <1>1 DEF IndInv, TypeOK, ThreadsInPlace, OneTeardown, WriterTop, Aborting, Teardown, Threads, WriterPcs, ReaderPcs, ClosePcs, CallStates
    <2>4. Drained'
      BY <1>1 DEF IndInv, TypeOK, ThreadsInPlace, OneTeardown, Drained, WriterTop, Aborting, Teardown, Threads, WriterPcs, ReaderPcs, ClosePcs, CallStates
    <2>5. PendingFound'
      <3>1. CASE pendingWrites = <<>> \/ Aborting
        BY <1>1, <3>1 DEF IndInv, TypeOK, PendingFound, WriterTop, InHand, Threads, WriterPcs, ReaderPcs, ClosePcs, CallStates
      <3>2. CASE pendingWrites # <<>> /\ ~Aborting
        <4>1. \A t \in ToSet(pendingWrites) :
                 t = Head(pendingWrites) \/ t \in ToSet(Tail(pendingWrites))
          BY <3>2, HeadOrTail DEF IndInv, TypeOK
        <4>2. wcur' = Head(pendingWrites) /\ pendingWrites' = Tail(pendingWrites)
              /\ pc'["writer"] = "w_send" /\ pc["writer"] = "w_top"
          BY <1>1, <3>2 DEF IndInv, TypeOK, WriterTop, Threads
        <4> QED BY <1>1, <4>1, <4>2 DEF IndInv, PendingFound, WriterTop, InHand
      <3> QED BY <3>1, <3>2
    <2> QED BY <2>1, <2>2, <2>3, <2>4, <2>5 DEF IndInv
  <1>2. CASE WriterTimer
    <2>1. TypeOK'
      BY <1>2 DEF IndInv, TypeOK, ThreadsInPlace, WriterTimer, Threads, WriterPcs, ReaderPcs, ClosePcs, CallStates
    <2>2. ThreadsInPlace'
      BY <1>2 DEF IndInv, TypeOK, ThreadsInPlace, WriterTimer, Threads, WriterPcs, ReaderPcs, ClosePcs, CallStates, InHand
    <2>3. OneTeardown'
      BY <1>2 DEF IndInv, TypeOK, ThreadsInPlace, OneTeardown, WriterTimer, Teardown, Threads, WriterPcs, ReaderPcs, ClosePcs, CallStates
    <2>4. Drained'
      BY <1>2 DEF IndInv, TypeOK, ThreadsInPlace, OneTeardown, Drained, WriterTimer, Teardown, Threads, WriterPcs, ReaderPcs, ClosePcs, CallStates
    <2>5. PendingFound'
      BY <1>2 DEF IndInv, TypeOK, ThreadsInPlace, PendingFound, WriterTimer, InHand, Threads, WriterPcs, ReaderPcs, ClosePcs, CallStates, Tids
    <2> QED BY <2>1, <2>2, <2>3, <2>4, <2>5 DEF IndInv
  <1>3. CASE WriterWoken
    <2>1. TypeOK'
      <3>1. CASE UNCHANGED <<writeVars, heartbeats>>
        BY <1>3, <3>1, ZenonT(60) DEF IndInv, TypeOK, WriterWoken, Threads, WriterPcs, ReaderPcs, ClosePcs, CallStates
      <3>2. CASE HeartbeatDue /\ idgen < MaxTid /\ Queue(idgen + 1, Heartbeat)
        <4>1. idgen + 1 \in Tids
          BY <3>2 DEF IndInv, TypeOK, Tids
        <4>2. pendingWrites' \in Seq(Tids) /\ Len(pendingWrites') <= MaxPendingWrites
          <5>1. pendingWrites \in Seq(Tids) /\ Len(pendingWrites) = 0
            BY <3>2 DEF IndInv, TypeOK, HeartbeatDue
          <5>2. Cons(idgen + 1, pendingWrites) \in Seq(Tids)
                /\ Len(Cons(idgen + 1, pendingWrites)) = Len(pendingWrites) + 1
            BY <4>1, <5>1, ConsAdds
          <5>3. pendingWrites' = Cons(idgen + 1, pendingWrites)
            BY <3>2 DEF Queue
          <5>4. Len(pendingWrites') = 1
            BY <5>1, <5>2, <5>3
          <5>5. pendingWrites' \in Seq(Tids)
            BY <5>2, <5>3
          <5>6. Len(pendingWrites') <= MaxPendingWrites
            BY <5>4
          <5> QED BY <5>5, <5>6
        <4>3. buff' \in [Tids -> Body]
              /\ wfut' \in [Tids -> {"none", "pending", "ok", "timeout", "abort"}]
          BY <3>2 DEF IndInv, TypeOK, Queue, Body
        <4>4. heartbeats' \in SUBSET Tids /\ idgen' \in 0..MaxTid
          <5>1. heartbeats' = heartbeats \/ heartbeats' = heartbeats \cup {idgen + 1}
            BY <1>3 DEF WriterWoken
          <5>2. idgen' = idgen \/ idgen' = idgen + 1
            BY <1>3 DEF WriterWoken
          <5>3. heartbeats \in SUBSET Tids /\ idgen \in 0..MaxTid
            BY DEF IndInv, TypeOK
          <5>4. idgen + 1 \in 0..MaxTid
            BY <4>1 DEF Tids
          <5> QED BY <4>1, <5>1, <5>2, <5>3, <5>4
        <4>5. pc' \in [Threads -> {"idle", "done"} \cup WriterPcs \cup ReaderPcs \cup ClosePcs]
          BY <1>3 DEF IndInv, TypeOK, WriterWoken, WriterPcs
        <4> QED BY <1>3, <4>2, <4>3, <4>4, <4>5 DEF IndInv, TypeOK, WriterWoken
      <3> QED BY <1>3, <3>1, <3>2 DEF WriterWoken
    <2>2. ThreadsInPlace'
      BY <1>3 DEF IndInv, TypeOK, ThreadsInPlace, WriterWoken, Queue, HeartbeatDue, TooManyMissing, Aborting, Threads, WriterPcs, ReaderPcs, ClosePcs, CallStates, InHand
    <2>3. OneTeardown'
      BY <1>3 DEF IndInv, TypeOK, ThreadsInPlace, OneTeardown, WriterWoken, Queue, HeartbeatDue, TooManyMissing, Aborting, Teardown, Threads, WriterPcs, ReaderPcs, ClosePcs, CallStates
    <2>4. Drained'
      BY <1>3 DEF IndInv, TypeOK, ThreadsInPlace, OneTeardown, Drained, WriterWoken, Queue, HeartbeatDue, TooManyMissing, Aborting, Teardown, Threads, WriterPcs, ReaderPcs, ClosePcs, CallStates
    <2>5. PendingFound'
      <3>1. CASE UNCHANGED <<writeVars, heartbeats>>
        BY <1>3, <3>1 DEF IndInv, TypeOK, PendingFound, WriterWoken, InHand, Threads, WriterPcs, ReaderPcs, ClosePcs, CallStates
      <3>2. CASE HeartbeatDue /\ idgen < MaxTid /\ Queue(idgen + 1, Heartbeat)
        <4>1. idgen + 1 \in Tids
          BY <3>2 DEF IndInv, TypeOK, Tids
        <4>2. ToSet(pendingWrites') = ToSet(pendingWrites) \cup {idgen + 1}
          BY <3>2, <4>1, ConsAdds DEF IndInv, TypeOK, Queue
        <4> QED BY <1>3, <3>2, <4>1, <4>2 DEF IndInv, TypeOK, PendingFound, WriterWoken, Queue, InHand, Threads, WriterPcs, ReaderPcs, ClosePcs, CallStates
      <3> QED BY <1>3, <3>1, <3>2 DEF WriterWoken
    <2> QED BY <2>1, <2>2, <2>3, <2>4, <2>5 DEF IndInv
  <1>4. CASE WriterWakesReader
    <2>1. TypeOK'
      BY <1>4 DEF IndInv, TypeOK, ThreadsInPlace, WriterWakesReader, Threads, WriterPcs, ReaderPcs, ClosePcs, CallStates
    <2>2. ThreadsInPlace'
      BY <1>4 DEF IndInv, TypeOK, ThreadsInPlace, WriterWakesReader, Threads, WriterPcs, ReaderPcs, ClosePcs, CallStates, InHand
    <2>3. OneTeardown'
      BY <1>4 DEF IndInv, TypeOK, ThreadsInPlace, OneTeardown, WriterWakesReader, Teardown, Threads, WriterPcs, ReaderPcs, ClosePcs, CallStates
    <2>4. Drained'
      BY <1>4 DEF IndInv, TypeOK, ThreadsInPlace, OneTeardown, Drained, WriterWakesReader, Teardown, Threads, WriterPcs, ReaderPcs, ClosePcs, CallStates
    <2>5. PendingFound'
      BY <1>4 DEF IndInv, TypeOK, ThreadsInPlace, PendingFound, WriterWakesReader, InHand, Threads, WriterPcs, ReaderPcs, ClosePcs, CallStates, Tids
    <2> QED BY <2>1, <2>2, <2>3, <2>4, <2>5 DEF IndInv
  <1>5. CASE WriterMissing
    <2>1. TypeOK'
      BY <1>5 DEF IndInv, TypeOK, ThreadsInPlace, WriterMissing, Threads, WriterPcs, ReaderPcs, ClosePcs, CallStates
    <2>2. ThreadsInPlace'
      BY <1>5 DEF IndInv, TypeOK, ThreadsInPlace, WriterMissing, Threads, WriterPcs, ReaderPcs, ClosePcs, CallStates, InHand
    <2>3. OneTeardown'
      BY <1>5 DEF IndInv, TypeOK, ThreadsInPlace, OneTeardown, WriterMissing, Teardown, Threads, WriterPcs, ReaderPcs, ClosePcs, CallStates
    <2>4. Drained'
      BY <1>5 DEF IndInv, TypeOK, ThreadsInPlace, OneTeardown, Drained, WriterMissing, Teardown, Threads, WriterPcs, ReaderPcs, ClosePcs, CallStates
    <2>5. PendingFound'
      BY <1>5 DEF IndInv, TypeOK, ThreadsInPlace, PendingFound, WriterMissing, InHand, Threads, WriterPcs, ReaderPcs, ClosePcs, CallStates, Tids
    <2> QED BY <2>1, <2>2, <2>3, <2>4, <2>5 DEF IndInv
  <1>6. CASE Expire
    <2>1. TypeOK'
      <3>1. wfut' \in [Tids -> {"none", "pending", "ok", "timeout", "abort"}]
        BY <1>6 DEF IndInv, TypeOK, Expire
      <3>2. pc' \in [Threads -> {"idle", "done"} \cup WriterPcs \cup ReaderPcs \cup ClosePcs]
        BY <1>6 DEF IndInv, TypeOK, Expire, WriterPcs, ClosePcs
      <3> QED BY <1>6, <3>1, <3>2 DEF IndInv, TypeOK, Expire
    <2>2. ThreadsInPlace'
      BY <1>6 DEF IndInv, TypeOK, ThreadsInPlace, Expire, Threads, WriterPcs, ReaderPcs, ClosePcs, CallStates, InHand
    <2>3. OneTeardown'
      BY <1>6 DEF IndInv, TypeOK, ThreadsInPlace, OneTeardown, Expire, Teardown, Threads, WriterPcs, ReaderPcs, ClosePcs, CallStates
    <2>4. Drained'
      BY <1>6 DEF IndInv, TypeOK, ThreadsInPlace, OneTeardown, Drained, Expire, Teardown, Threads, WriterPcs, ReaderPcs, ClosePcs, CallStates
    <2>5. PendingFound'
      BY <1>6 DEF IndInv, TypeOK, ThreadsInPlace, PendingFound, Expire, InHand, Threads, WriterPcs, ReaderPcs, ClosePcs, CallStates, Tids
    <2> QED BY <2>1, <2>2, <2>3, <2>4, <2>5 DEF IndInv
  <1>7. CASE Transmit
    <2>1. TypeOK'
      <3>1. [tid |-> wcur, body |-> buff[wcur]] \in Frame
        BY <1>7 DEF IndInv, TypeOK, ThreadsInPlace, Transmit, InHand, Frame
      <3>2. pc' \in [Threads -> {"idle", "done"} \cup WriterPcs \cup ReaderPcs \cup ClosePcs]
        BY <1>7 DEF IndInv, TypeOK, Transmit, WriterPcs
      <3>3. requests' \in SUBSET Frame
        BY <1>7, <3>1 DEF IndInv, TypeOK, Transmit
      <3> QED BY <1>7, <3>2, <3>3 DEF IndInv, TypeOK, Transmit
    <2>2. ThreadsInPlace'
      BY <1>7 DEF IndInv, TypeOK, ThreadsInPlace, Transmit, Threads, WriterPcs, ReaderPcs, ClosePcs, CallStates, InHand
    <2>3. OneTeardown'
      BY <1>7 DEF IndInv, TypeOK, ThreadsInPlace, OneTeardown, Transmit, Teardown, Threads, WriterPcs, ReaderPcs, ClosePcs, CallStates
    <2>4. Drained'
      BY <1>7 DEF IndInv, TypeOK, ThreadsInPlace, OneTeardown, Drained, Transmit, Teardown, Threads, WriterPcs, ReaderPcs, ClosePcs, CallStates
    <2>5. PendingFound'
      BY <1>7 DEF IndInv, TypeOK, ThreadsInPlace, PendingFound, Transmit, InHand, Threads, WriterPcs, ReaderPcs, ClosePcs, CallStates, Tids
    <2> QED BY <2>1, <2>2, <2>3, <2>4, <2>5 DEF IndInv
  <1>8. CASE WriteResult
    <2>1. TypeOK'
      <3>1. wfut' \in [Tids -> {"none", "pending", "ok", "timeout", "abort"}]
        BY <1>8 DEF IndInv, TypeOK, WriteResult
      <3>2. pc' \in [Threads -> {"idle", "done"} \cup WriterPcs \cup ReaderPcs \cup ClosePcs]
        BY <1>8 DEF IndInv, TypeOK, WriteResult, WriterPcs, ClosePcs
      <3> QED BY <1>8, <3>1, <3>2 DEF IndInv, TypeOK, WriteResult
    <2>2. ThreadsInPlace'
      BY <1>8 DEF IndInv, TypeOK, ThreadsInPlace, WriteResult, Threads, WriterPcs, ReaderPcs, ClosePcs, CallStates, InHand
    <2>3. OneTeardown'
      BY <1>8 DEF IndInv, TypeOK, ThreadsInPlace, OneTeardown, WriteResult, Teardown, Threads, WriterPcs, ReaderPcs, ClosePcs, CallStates
    <2>4. Drained'
      BY <1>8 DEF IndInv, TypeOK, ThreadsInPlace, OneTeardown, Drained, WriteResult, Teardown, Threads, WriterPcs, ReaderPcs, ClosePcs, CallStates
    <2>5. PendingFound'
      BY <1>8 DEF IndInv, TypeOK, ThreadsInPlace, PendingFound, WriteResult, InHand, Threads, WriterPcs, ReaderPcs, ClosePcs, CallStates, Tids
    <2> QED BY <2>1, <2>2, <2>3, <2>4, <2>5 DEF IndInv
  <1>9. CASE SendFails
    <2>1. TypeOK'
      <3>1. wfut' \in [Tids -> {"none", "pending", "ok", "timeout", "abort"}]
        BY <1>9 DEF IndInv, TypeOK, SendFails
      <3>2. pc' \in [Threads -> {"idle", "done"} \cup WriterPcs \cup ReaderPcs \cup ClosePcs]
        BY <1>9 DEF IndInv, TypeOK, SendFails, WriterPcs, ClosePcs
      <3> QED BY <1>9, <3>1, <3>2 DEF IndInv, TypeOK, SendFails
    <2>2. ThreadsInPlace'
      BY <1>9 DEF IndInv, TypeOK, ThreadsInPlace, SendFails, Threads, WriterPcs, ReaderPcs, ClosePcs, CallStates, InHand
    <2>3. OneTeardown'
      BY <1>9 DEF IndInv, TypeOK, ThreadsInPlace, OneTeardown, SendFails, Teardown, Threads, WriterPcs, ReaderPcs, ClosePcs, CallStates
    <2>4. Drained'
      BY <1>9 DEF IndInv, TypeOK, ThreadsInPlace, OneTeardown, Drained, SendFails, Teardown, Threads, WriterPcs, ReaderPcs, ClosePcs, CallStates
    <2>5. PendingFound'
      BY <1>9 DEF IndInv, TypeOK, ThreadsInPlace, PendingFound, SendFails, InHand, Threads, WriterPcs, ReaderPcs, ClosePcs, CallStates, Tids
    <2> QED BY <2>1, <2>2, <2>3, <2>4, <2>5 DEF IndInv
  <1> QED BY <1>1, <1>2, <1>3, <1>4, <1>5, <1>6, <1>7, <1>8, <1>9

\* The steps of the reading thread.
LEMMA ReaderKeeps ==
    ASSUME IndInv, ReaderTop\/ Receive\/ ReceiveFails\/ Dispatch\/ Deliver
    PROVE IndInv'
  <1> USE ConnectionAssumption DEF ConnectionAssumption
  <1>1. CASE ReaderTop
    <2>1. TypeOK'
      BY <1>1 DEF IndInv, TypeOK, ThreadsInPlace, ReaderTop, Aborting, Threads, WriterPcs, ReaderPcs, ClosePcs, CallStates
    <2>2. ThreadsInPlace'
      BY <1>1 DEF IndInv, TypeOK, ThreadsInPlace, ReaderTop, Aborting, Threads, WriterPcs, ReaderPcs, ClosePcs, CallStates, InHand
    <2>3. OneTeardown'
      BY <1>1 DEF IndInv, TypeOK, ThreadsInPlace, OneTeardown, ReaderTop, Aborting, Teardown, Threads, WriterPcs, ReaderPcs, ClosePcs, CallStates
    <2>4. Drained'
      BY <1>1 DEF IndInv, TypeOK, ThreadsInPlace, OneTeardown, Drained, ReaderTop, Aborting, Teardown, Threads, WriterPcs, ReaderPcs, ClosePcs, CallStates
    <2>5. PendingFound'
      BY <1>1 DEF IndInv, TypeOK, ThreadsInPlace, PendingFound, ReaderTop, Aborting, InHand, Threads, WriterPcs, ReaderPcs, ClosePcs, CallStates, Tids
    <2> QED BY <2>1, <2>2, <2>3, <2>4, <2>5 DEF IndInv
  <1>2. CASE Receive
    <2>1. TypeOK'
      BY <1>2 DEF IndInv, TypeOK, ThreadsInPlace, Receive, Threads, WriterPcs, ReaderPcs, ClosePcs, CallStates
    <2>2. ThreadsInPlace'
      BY <1>2 DEF IndInv, TypeOK, ThreadsInPlace, Receive, Threads, WriterPcs, ReaderPcs, ClosePcs, CallStates, InHand
    <2>3. OneTeardown'
      BY <1>2 DEF IndInv, TypeOK, ThreadsInPlace, OneTeardown, Receive, Teardown, Threads, WriterPcs, ReaderPcs, ClosePcs, CallStates
    <2>4. Drained'
      BY <1>2 DEF IndInv, TypeOK, ThreadsInPlace, OneTeardown, Drained, Receive, Teardown, Threads, WriterPcs, ReaderPcs, ClosePcs, CallStates
    <2>5. PendingFound'
      BY <1>2 DEF IndInv, TypeOK, ThreadsInPlace, PendingFound, Receive, InHand, Threads, WriterPcs, ReaderPcs, ClosePcs, CallStates, Tids
    <2> QED BY <2>1, <2>2, <2>3, <2>4, <2>5 DEF IndInv
  <1>3. CASE ReceiveFails
    <2>1. TypeOK'
      BY <1>3 DEF IndInv, TypeOK, ThreadsInPlace, ReceiveFails, Threads, WriterPcs, ReaderPcs, ClosePcs, CallStates
    <2>2. ThreadsInPlace'
      BY <1>3 DEF IndInv, TypeOK, ThreadsInPlace, ReceiveFails, Threads, WriterPcs, ReaderPcs, ClosePcs, CallStates, InHand
    <2>3. OneTeardown'
      BY <1>3 DEF IndInv, TypeOK, ThreadsInPlace, OneTeardown, ReceiveFails, Teardown, Threads, WriterPcs, ReaderPcs, ClosePcs, CallStates
    <2>4. Drained'
      BY <1>3 DEF IndInv, TypeOK, ThreadsInPlace, OneTeardown, Drained, ReceiveFails, Teardown, Threads, WriterPcs, ReaderPcs, ClosePcs, CallStates
    <2>5. PendingFound'
      BY <1>3 DEF IndInv, TypeOK, ThreadsInPlace, PendingFound, ReceiveFails, InHand, Threads, WriterPcs, ReaderPcs, ClosePcs, CallStates, Tids
    <2> QED BY <2>1, <2>2, <2>3, <2>4, <2>5 DEF IndInv
  <1>4. CASE Dispatch
    <2>1. TypeOK'
      BY <1>4, ZenonT(60) DEF IndInv, TypeOK, ThreadsInPlace, Dispatch, Aborting, Threads, WriterPcs, ReaderPcs, ClosePcs, CallStates
    <2>2. ThreadsInPlace'
      BY <1>4 DEF IndInv, TypeOK, ThreadsInPlace, Dispatch, Aborting, Threads, WriterPcs, ReaderPcs, ClosePcs, CallStates, InHand
    <2>3. OneTeardown'
      BY <1>4 DEF IndInv, TypeOK, ThreadsInPlace, OneTeardown, Dispatch, Aborting, Teardown, Threads, WriterPcs, ReaderPcs, ClosePcs, CallStates
    <2>4. Drained'
      BY <1>4 DEF IndInv, TypeOK, ThreadsInPlace, OneTeardown, Drained, Dispatch, Aborting, Teardown, Threads, WriterPcs, ReaderPcs, ClosePcs, CallStates
    <2>5. PendingFound'
      BY <1>4 DEF IndInv, TypeOK, ThreadsInPlace, PendingFound, Dispatch, Aborting, InHand, Threads, WriterPcs, ReaderPcs, ClosePcs, CallStates, Tids
    <2> QED BY <2>1, <2>2, <2>3, <2>4, <2>5 DEF IndInv
  <1>5. CASE Deliver
    <2>1. TypeOK'
      <3> DEFINE t == rbuf.tid
                 body == rbuf.body
      <3>0. t \in Tids /\ body \in Body
        BY <1>5 DEF IndInv, ThreadsInPlace, Deliver, Frame
      <3>1. CASE UNCHANGED readVars
        BY <1>5, <3>1 DEF IndInv, TypeOK, Deliver, Hand, Pool, Threads, WriterPcs, ReaderPcs, ClosePcs, CallStates
      <3>4. pc' \in [Threads -> {"idle", "done"} \cup WriterPcs \cup ReaderPcs \cup ClosePcs]
            /\ rbuf' \in Frame \cup {NoFrame}
        BY <1>5 DEF IndInv, TypeOK, Deliver, ReaderPcs
      <3>5. /\ pendingReads \in Seq(Tids) /\ Len(pendingReads) <= MaxPendingReads
            /\ poolingReads \in Seq(Tids) /\ Len(poolingReads) <= MaxPoolingReads
        BY DEF IndInv, TypeOK
      <3> HIDE DEF t, body
      <3>2. CASE Hand(t, body)
        <4>1. pendingReads' \in Seq(Tids) /\ Len(pendingReads') = Len(pendingReads) - 1
          BY <3>2, <3>5, DelKeepsOthers DEF Hand
        <4>2. rfut' \in [Tids -> {"none", "pending"} \cup Resolved]
          BY <3>0, <3>2 DEF IndInv, TypeOK, Hand, Resolved
        <4>3. Len(pendingReads') <= MaxPendingReads
          BY <4>1, <3>5
        <4> QED BY <1>5, <3>2, <3>4, <4>1, <4>2, <4>3 DEF IndInv, TypeOK, Deliver, Hand
      <3>3. CASE Pool(t, body)
        <4>1. poolingReads' \in Seq(Tids) /\ Len(poolingReads') <= MaxPoolingReads
          BY <3>0, <3>3, <3>5, SetKeepsOthers DEF Pool
        <4>2. pooled' \in [Tids -> Body \cup {"none"}]
          BY <3>0, <3>3 DEF IndInv, TypeOK, Pool
        <4> QED BY <1>5, <3>3, <3>4, <4>1, <4>2 DEF IndInv, TypeOK, Deliver, Pool
      <3> QED BY <1>5, <3>1, <3>2, <3>3 DEF Deliver, t, body
    <2>2. ThreadsInPlace'
      BY <1>5 DEF IndInv, TypeOK, ThreadsInPlace, Deliver, Hand, Pool, Aborting, Threads, WriterPcs, ReaderPcs, ClosePcs, CallStates, InHand
    <2>3. OneTeardown'
      BY <1>5 DEF IndInv, TypeOK, ThreadsInPlace, OneTeardown, Deliver, Hand, Pool, Aborting, Teardown, Threads, WriterPcs, ReaderPcs, ClosePcs, CallStates
    <2>4. Drained'
      BY <1>5 DEF IndInv, TypeOK, ThreadsInPlace, OneTeardown, Drained, Deliver, Hand, Pool, Aborting, Teardown, Threads, WriterPcs, ReaderPcs, ClosePcs, CallStates
    <2>5. PendingFound'
      <3> DEFINE t == rbuf.tid
                 body == rbuf.body
      <3>0. t \in Tids /\ body \in Body
        BY <1>5 DEF IndInv, ThreadsInPlace, Deliver, Frame
      <3>1. CASE UNCHANGED <<pendingReads, rfut>>
        BY <1>5, <3>1 DEF IndInv, TypeOK, PendingFound, Deliver, InHand, Threads, WriterPcs, ReaderPcs, ClosePcs, CallStates
      <3>2. CASE Hand(t, body)
        <4>1. \A x \in ToSet(pendingReads) : x # t => x \in ToSet(pendingReads')
          BY <3>2, DelKeepsOthers DEF IndInv, TypeOK, Hand
        <4>2. body # "pending"
          BY <3>0 DEF Body, Heartbeat
        <4>3. \A x \in Tids : rfut'[x] = "pending" => x # t /\ rfut[x] = "pending"
          BY <3>0, <3>2, <4>2 DEF IndInv, TypeOK, Hand
        <4> QED BY <1>5, <4>1, <4>3, ZenonT(60) DEF IndInv, TypeOK, PendingFound, Deliver, InHand, Threads, WriterPcs, ReaderPcs, ClosePcs, CallStates
      <3> QED BY <1>5, <3>1, <3>2 DEF Deliver, Pool
    <2> QED BY <2>1, <2>2, <2>3, <2>4, <2>5 DEF IndInv
  <1> QED BY <1>1, <1>2, <1>3, <1>4, <1>5

\* The steps of close(), in whichever thread.
LEMMA CloseKeeps ==
    ASSUME NEW th \in Threads, IndInv, CloseTest(th)\/ CloseClaim(th)\/ CloseSocket(th)\/ CloseWrite(th)\/ CloseRead(th)\/ CloseFlags(th)
    PROVE IndInv'
  <1> USE ConnectionAssumption DEF ConnectionAssumption
  <1>1. CASE CloseTest(th)
    <2>1. TypeOK'
      BY <1>1, ZenonT(60) DEF IndInv, TypeOK, ThreadsInPlace, CloseTest, Goto, Threads, WriterPcs, ReaderPcs, ClosePcs, CallStates
    <2>2. ThreadsInPlace'
      BY <1>1 DEF IndInv, TypeOK, ThreadsInPlace, CloseTest, Goto, Threads, WriterPcs, ReaderPcs, ClosePcs, CallStates, InHand
    <2>3. OneTeardown'
      BY <1>1 DEF IndInv, TypeOK, ThreadsInPlace, OneTeardown, CloseTest, Goto, Teardown, Threads, WriterPcs, ReaderPcs, ClosePcs, CallStates
    <2>4. Drained'
      BY <1>1 DEF IndInv, TypeOK, ThreadsInPlace, OneTeardown, Drained, CloseTest, Goto, Teardown, Threads, WriterPcs, ReaderPcs, ClosePcs, CallStates
    <2>5. PendingFound'
      BY <1>1 DEF IndInv, TypeOK, ThreadsInPlace, PendingFound, CloseTest, Goto, InHand, Threads, WriterPcs, ReaderPcs, ClosePcs, CallStates, Tids
    <2> QED BY <2>1, <2>2, <2>3, <2>4, <2>5 DEF IndInv
  <1>2. CASE CloseClaim(th)
    <2>1. TypeOK'
      BY <1>2 DEF IndInv, TypeOK, ThreadsInPlace, CloseClaim, Goto, Threads, WriterPcs, ReaderPcs, ClosePcs, CallStates
    <2>2. ThreadsInPlace'
      BY <1>2 DEF IndInv, TypeOK, ThreadsInPlace, CloseClaim, Goto, Threads, WriterPcs, ReaderPcs, ClosePcs, CallStates, InHand
    <2>3. OneTeardown'
      BY <1>2 DEF IndInv, TypeOK, ThreadsInPlace, OneTeardown, CloseClaim, Goto, Teardown, Threads, WriterPcs, ReaderPcs, ClosePcs, CallStates
    <2>4. Drained'
      BY <1>2 DEF IndInv, TypeOK, ThreadsInPlace, OneTeardown, Drained, CloseClaim, Goto, Teardown, Threads, WriterPcs, ReaderPcs, ClosePcs, CallStates
    <2>5. PendingFound'
      BY <1>2 DEF IndInv, TypeOK, ThreadsInPlace, PendingFound, CloseClaim, Goto, InHand, Threads, WriterPcs, ReaderPcs, ClosePcs, CallStates, Tids
    <2> QED BY <2>1, <2>2, <2>3, <2>4, <2>5 DEF IndInv
  <1>3. CASE CloseSocket(th)
    <2>1. TypeOK'
      <3>1. responses' \in Seq(Frame) /\ requests' \in SUBSET Frame
        BY <1>3 DEF CloseSocket
      <3>2. pc' \in [Threads -> {"idle", "done"} \cup WriterPcs \cup ReaderPcs \cup ClosePcs]
        BY <1>3 DEF IndInv, TypeOK, CloseSocket, Goto, ClosePcs
      <3> QED BY <1>3, <3>1, <3>2 DEF IndInv, TypeOK, CloseSocket
    <2>2. ThreadsInPlace'
      BY <1>3 DEF IndInv, TypeOK, ThreadsInPlace, CloseSocket, Goto, Threads, WriterPcs, ReaderPcs, ClosePcs, CallStates, InHand
    <2>3. OneTeardown'
      BY <1>3 DEF IndInv, TypeOK, ThreadsInPlace, OneTeardown, CloseSocket, Goto, Teardown, Threads, WriterPcs, ReaderPcs, ClosePcs, CallStates
    <2>4. Drained'
      BY <1>3 DEF IndInv, TypeOK, ThreadsInPlace, OneTeardown, Drained, CloseSocket, Goto, Teardown, Threads, WriterPcs, ReaderPcs, ClosePcs, CallStates
    <2>5. PendingFound'
      BY <1>3 DEF IndInv, TypeOK, ThreadsInPlace, PendingFound, CloseSocket, Goto, InHand, Threads, WriterPcs, ReaderPcs, ClosePcs, CallStates, Tids
    <2> QED BY <2>1, <2>2, <2>3, <2>4, <2>5 DEF IndInv
  <1>4. CASE CloseWrite(th)
    <2>1. TypeOK'
      BY <1>4 DEF IndInv, TypeOK, ThreadsInPlace, CloseWrite, Threads, WriterPcs, ReaderPcs, ClosePcs, CallStates
    <2>2. ThreadsInPlace'
      BY <1>4 DEF IndInv, TypeOK, ThreadsInPlace, CloseWrite, Threads, WriterPcs, ReaderPcs, ClosePcs, CallStates, InHand
    <2>3. OneTeardown'
      BY <1>4 DEF IndInv, TypeOK, ThreadsInPlace, OneTeardown, CloseWrite, Teardown, Threads, WriterPcs, ReaderPcs, ClosePcs, CallStates
    <2>4. Drained'
      BY <1>4 DEF IndInv, TypeOK, ThreadsInPlace, OneTeardown, Drained, CloseWrite, Teardown, Threads, WriterPcs, ReaderPcs, ClosePcs, CallStates
    <2>5. PendingFound'
      BY <1>4 DEF IndInv, TypeOK, ThreadsInPlace, PendingFound, CloseWrite, InHand, Threads, WriterPcs, ReaderPcs, ClosePcs, CallStates, Tids
    <2> QED BY <2>1, <2>2, <2>3, <2>4, <2>5 DEF IndInv
  <1>5. CASE CloseRead(th)
    <2>1. TypeOK'
      <3>1. rfut' \in [Tids -> {"none", "pending"} \cup Resolved]
        BY <1>5 DEF IndInv, TypeOK, CloseRead, Resolved, Failures
      <3>2. pooled' \in [Tids -> Body \cup {"none"}] /\ poolingReads' \in Seq(Tids)
            /\ Len(poolingReads') <= MaxPoolingReads
        BY <1>5 DEF CloseRead
      <3>3. pc' \in [Threads -> {"idle", "done"} \cup WriterPcs \cup ReaderPcs \cup ClosePcs]
        BY <1>5 DEF IndInv, TypeOK, CloseRead, Threads, WriterPcs, ReaderPcs, ClosePcs, CallStates
      <3> QED BY <1>5, <3>1, <3>2, <3>3 DEF IndInv, TypeOK, CloseRead
    <2>2. ThreadsInPlace'
      BY <1>5 DEF IndInv, TypeOK, ThreadsInPlace, CloseRead, Threads, WriterPcs, ReaderPcs, ClosePcs, CallStates, InHand
    <2>3. OneTeardown'
      BY <1>5 DEF IndInv, TypeOK, ThreadsInPlace, OneTeardown, CloseRead, Teardown, Threads, WriterPcs, ReaderPcs, ClosePcs, CallStates
    <2>4. Drained'
      <3>1. \A x \in Tids : rfut'[x] # "pending"
        BY <1>5 DEF IndInv, PendingFound, CloseRead
      <3>2. closed' \/ (\E o \in Threads : pc'[o] \in {"c_read", "c_closed", "c_closing"})
               => pendingWrites' = <<>>
        BY <1>5 DEF IndInv, Drained, CloseRead
      <3> QED BY <3>1, <3>2 DEF Drained
    <2>5. PendingFound'
      BY <1>5 DEF IndInv, TypeOK, ThreadsInPlace, PendingFound, CloseRead, InHand, Threads, WriterPcs, ReaderPcs, ClosePcs, CallStates, Tids
    <2> QED BY <2>1, <2>2, <2>3, <2>4, <2>5 DEF IndInv
  <1>6. CASE CloseFlags(th)
    <2>1. TypeOK'
      BY <1>6 DEF IndInv, TypeOK, ThreadsInPlace, CloseFlags, Goto, Threads, WriterPcs, ReaderPcs, ClosePcs, CallStates
    <2>2. ThreadsInPlace'
      BY <1>6 DEF IndInv, TypeOK, ThreadsInPlace, CloseFlags, Goto, Threads, WriterPcs, ReaderPcs, ClosePcs, CallStates, InHand
    <2>3. OneTeardown'
      <3>1. CASE Goto(th, "c_closed", "c_closing") /\ UNCHANGED closing
        BY <1>6, <3>1 DEF IndInv, TypeOK, OneTeardown, CloseFlags, Goto, Teardown
      <3>2. CASE Goto(th, "c_closing", "done") /\ closing' = FALSE
        <4>1. pc[th] \in Teardown /\ pc'[th] \notin Teardown
              /\ \A o \in Threads : o # th => pc'[o] = pc[o]
          BY <3>2 DEF IndInv, TypeOK, Goto, Teardown
        <4>2. \A o \in Threads : pc'[o] \notin Teardown
          BY <4>1 DEF IndInv, OneTeardown
        <4> QED BY <3>2, <4>2 DEF OneTeardown
      <3> QED BY <1>6, <3>1, <3>2 DEF CloseFlags
    <2>4. Drained'
      BY <1>6 DEF IndInv, TypeOK, ThreadsInPlace, OneTeardown, Drained, CloseFlags, Goto, Teardown, Threads, WriterPcs, ReaderPcs, ClosePcs, CallStates
    <2>5. PendingFound'
      BY <1>6 DEF IndInv, TypeOK, ThreadsInPlace, PendingFound, CloseFlags, Goto, InHand, Threads, WriterPcs, ReaderPcs, ClosePcs, CallStates, Tids
    <2> QED BY <2>1, <2>2, <2>3, <2>4, <2>5 DEF IndInv
  <1> QED BY <1>1, <1>2, <1>3, <1>4, <1>5, <1>6

\* The steps of the peer touch nothing but the wire.
LEMMA PeerKeeps ==
    ASSUME IndInv, PeerClose\/ (\E m \in requests : PeerReply(m))\/ (\E m \in requests : PeerDrop(m))
    PROVE IndInv'
  <1> USE ConnectionAssumption DEF ConnectionAssumption
  <1>1. CASE PeerClose
    <2>1. TypeOK'
      BY <1>1 DEF IndInv, TypeOK, ThreadsInPlace, PeerClose, Threads, WriterPcs, ReaderPcs, ClosePcs, CallStates
    <2>2. ThreadsInPlace'
      BY <1>1 DEF IndInv, TypeOK, ThreadsInPlace, PeerClose, Threads, WriterPcs, ReaderPcs, ClosePcs, CallStates, InHand
    <2>3. OneTeardown'
      BY <1>1 DEF IndInv, TypeOK, ThreadsInPlace, OneTeardown, PeerClose, Teardown, Threads, WriterPcs, ReaderPcs, ClosePcs, CallStates
    <2>4. Drained'
      BY <1>1 DEF IndInv, TypeOK, ThreadsInPlace, OneTeardown, Drained, PeerClose, Teardown, Threads, WriterPcs, ReaderPcs, ClosePcs, CallStates
    <2>5. PendingFound'
      BY <1>1 DEF IndInv, TypeOK, ThreadsInPlace, PendingFound, PeerClose, InHand, Threads, WriterPcs, ReaderPcs, ClosePcs, CallStates, Tids
    <2> QED BY <2>1, <2>2, <2>3, <2>4, <2>5 DEF IndInv
  <1>2. CASE (\E m \in requests : PeerReply(m))
    <2>1. TypeOK'
      BY <1>2 DEF IndInv, TypeOK, ThreadsInPlace, PeerReply, Threads, WriterPcs, ReaderPcs, ClosePcs, CallStates
    <2>2. ThreadsInPlace'
      BY <1>2 DEF IndInv, TypeOK, ThreadsInPlace, PeerReply, Threads, WriterPcs, ReaderPcs, ClosePcs, CallStates, InHand
    <2>3. OneTeardown'
      BY <1>2 DEF IndInv, TypeOK, ThreadsInPlace, OneTeardown, PeerReply, Teardown, Threads, WriterPcs, ReaderPcs, ClosePcs, CallStates
    <2>4. Drained'
      BY <1>2 DEF IndInv, TypeOK, ThreadsInPlace, OneTeardown, Drained, PeerReply, Teardown, Threads, WriterPcs, ReaderPcs, ClosePcs, CallStates
    <2>5. PendingFound'
      BY <1>2 DEF IndInv, TypeOK, ThreadsInPlace, PendingFound, PeerReply, InHand, Threads, WriterPcs, ReaderPcs, ClosePcs, CallStates, Tids
    <2> QED BY <2>1, <2>2, <2>3, <2>4, <2>5 DEF IndInv
  <1>3. CASE (\E m \in requests : PeerDrop(m))
    <2>1. TypeOK'
      BY <1>3 DEF IndInv, TypeOK, ThreadsInPlace, PeerDrop, Threads, WriterPcs, ReaderPcs, ClosePcs, CallStates
    <2>2. ThreadsInPlace'
      BY <1>3 DEF IndInv, TypeOK, ThreadsInPlace, PeerDrop, Threads, WriterPcs, ReaderPcs, ClosePcs, CallStates, InHand
    <2>3. OneTeardown'
      BY <1>3 DEF IndInv, TypeOK, ThreadsInPlace, OneTeardown, PeerDrop, Teardown, Threads, WriterPcs, ReaderPcs, ClosePcs, CallStates
    <2>4. Drained'
      BY <1>3 DEF IndInv, TypeOK, ThreadsInPlace, OneTeardown, Drained, PeerDrop, Teardown, Threads, WriterPcs, ReaderPcs, ClosePcs, CallStates
    <2>5. PendingFound'
      BY <1>3 DEF IndInv, TypeOK, ThreadsInPlace, PendingFound, PeerDrop, InHand, Threads, WriterPcs, ReaderPcs, ClosePcs, CallStates, Tids
    <2> QED BY <2>1, <2>2, <2>3, <2>4, <2>5 DEF IndInv
  <1> QED BY <1>1, <1>2, <1>3

\* A thread from outside begins to close.
LEMMA StartCloseKeeps ==
    ASSUME NEW th \in Closers, IndInv, StartClose(th)
    PROVE  IndInv'
  <1> USE ConnectionAssumption DEF ConnectionAssumption
  <1>1. TypeOK'
    BY DEF IndInv, TypeOK, StartClose, Goto, ClosePcs, Threads
  <1>2. ThreadsInPlace'
    BY DEF IndInv, TypeOK, ThreadsInPlace, StartClose, Goto, InHand, Threads
  <1>3. OneTeardown'
    BY DEF IndInv, TypeOK, OneTeardown, StartClose, Goto, Teardown, Threads
  <1>4. Drained'
    BY DEF IndInv, TypeOK, Drained, StartClose, Goto, Threads
  <1>5. PendingFound'
    BY DEF IndInv, TypeOK, PendingFound, StartClose, Goto, InHand, Threads
  <1> QED BY <1>1, <1>2, <1>3, <1>4, <1>5 DEF IndInv

\* The invariant holds of a connection that has just been made: the two
\* threads started, nothing queued, nothing closed.
LEMMA InitEstablishes == Init => IndInv
  <1> USE ConnectionAssumption DEF ConnectionAssumption
  <1> SUFFICES ASSUME Init PROVE IndInv
    OBVIOUS
  <1>0. pc["writer"] = "w_top" /\ pc["reader"] = "r_top"
        /\ \A th \in Closers : pc[th] = "idle"
    BY DEF Init, Threads
  <1>1. TypeOK
    <2>1. /\ pendingWrites \in Seq(Tids) /\ Len(pendingWrites) <= MaxPendingWrites
          /\ pendingReads \in Seq(Tids) /\ Len(pendingReads) <= MaxPendingReads
          /\ poolingReads \in Seq(Tids) /\ Len(poolingReads) <= MaxPoolingReads
          /\ responses \in Seq(Frame)
      BY DEF Init
    <2>2. /\ buff \in [Tids -> Body]
          /\ wfut \in [Tids -> {"none", "pending", "ok", "timeout", "abort"}]
          /\ pooled \in [Tids -> Body \cup {"none"}]
          /\ rfut \in [Tids -> {"none", "pending"} \cup Resolved]
      BY DEF Init, Body
    <2>3. pc \in [Threads -> {"idle", "done"} \cup WriterPcs \cup ReaderPcs \cup ClosePcs]
      BY DEF Init, WriterPcs, ReaderPcs
    <2>4. call \in [Clients -> CallStates] /\ tid \in [Clients -> 0..MaxTid]
          /\ idgen \in 0..MaxTid /\ wcur \in 0..MaxTid
      BY DEF Init, CallStates
    <2> QED BY <2>1, <2>2, <2>3, <2>4 DEF Init, TypeOK
  <1>2. ThreadsInPlace
    BY <1>0 DEF Init, ThreadsInPlace, InHand, WriterPcs, ReaderPcs
  <1>3. OneTeardown
    BY <1>0 DEF Init, OneTeardown, Teardown, Threads
  <1>4. Drained
    BY <1>0 DEF Init, Drained, Threads
  <1>5. PendingFound
    BY DEF Init, PendingFound
  <1> QED BY <1>1, <1>2, <1>3, <1>4, <1>5 DEF IndInv

\* Every step keeps the invariant.
LEMMA NextKeeps == IndInv /\ [Next]_vars => IndInv'
  <1> SUFFICES ASSUME IndInv, [Next]_vars PROVE IndInv'
    OBVIOUS
  <1>1. CASE \E c \in Clients : CallStep(c)
    BY <1>1, CallKeeps DEF CallStep
  <1>2. CASE WriterStep
    BY <1>2, WriterKeeps DEF WriterStep
  <1>3. CASE ReaderStep
    BY <1>3, ReaderKeeps DEF ReaderStep
  <1>4. CASE \E th \in Closers : StartClose(th)
    BY <1>4, StartCloseKeeps
  <1>5. CASE \E th \in Threads : CloseStep(th)
    BY <1>5, CloseKeeps DEF CloseStep
  <1>6. CASE PeerStep
    BY <1>6, PeerKeeps DEF PeerStep
  <1>7. CASE UNCHANGED vars
    BY <1>7 DEF vars, IndInv, TypeOK, ThreadsInPlace, OneTeardown, Drained, PendingFound
  <1> QED BY <1>1, <1>2, <1>3, <1>4, <1>5, <1>6, <1>7 DEF Next

\* Every reachable state of a connection satisfies the inductive invariant.
THEOREM InvariantHolds == Spec => []IndInv
  BY InitEstablishes, NextKeeps, PTL DEF Spec

\* Every variable keeps its type and every container its bound.
THEOREM TypeCorrect == Spec => []TypeOK
  <1>1. IndInv => TypeOK
    BY DEF IndInv
  <1> QED BY <1>1, InvariantHolds, PTL

\* Whatever the order in which callers, both threads and closers interleave,
\* a closed connection leaves no future pending behind: every queued write was
\* found by _close_write, every pending read by _close_read.
THEOREM NobodyStranded == Spec => []NoStranded
  <1>1. IndInv => NoStranded
    <2> SUFFICES ASSUME IndInv, closed, NEW t \in Tids
                 PROVE  /\ rfut[t] # "pending"
                        /\ wfut[t] = "pending" =>
                              wcur = t /\ pc["writer"] \in {"w_send", "w_sent"}
      BY DEF NoStranded
    <2>1. pendingWrites = <<>> /\ rfut[t] # "pending"
      BY DEF IndInv, Drained
    <2>2. ToSet(pendingWrites) = {}
      BY <2>1 DEF ToSet
    <2> QED BY <2>1, <2>2 DEF IndInv, PendingFound, InHand
  <1> QED BY <1>1, InvariantHolds, PTL

\* Two threads never tear a connection down at the same time.
THEOREM OneTeardownAtATime == Spec => []OneTeardown
  <1>1. IndInv => OneTeardown
    BY DEF IndInv
  <1> QED BY <1>1, InvariantHolds, PTL

-----------------------------------------------------------------------------
(* The inductive invariant, on top of IndInv.                              *)

HasCall == {"writing", "sent", "reading", "answered"}

\* The frame the reader has received and not handed on yet.
InReader == IF pc["reader"] \in {"r_dispatch", "r_deliver"} THEN {rbuf} ELSE {}
OnTheWay == requests \cup ToSet(responses)
Frames   == OnTheWay \cup InReader

\* The write of an id did not leave yet.
Unsent(t) ==
    t \in ToSet(pendingWrites) \/ (wcur = t /\ pc["writer"] = "w_send")

\* An id that the generator did not return yet is nowhere.
IdsAreFresh ==
    /\ \A t \in Tids : t > idgen =>
          /\ ~Unsent(t) /\ wcur # t /\ t \notin heartbeats
          /\ \A m \in Frames : m.tid # t
          /\ t \notin ToSet(pendingReads) \cup ToSet(poolingReads)
          /\ rfut[t] = "none"
    /\ \A c \in Clients : tid[c] <= idgen

\* What is queued under an id is the request of the one caller that has the
\* id, or a heartbeat.
IdsHaveOwners ==
    /\ \A c \in Clients : call[c] \in HasCall => buff[tid[c]] = c
    /\ \A t \in heartbeats : buff[t] = Heartbeat

\* A write is queued once, or in the writer's hands; nobody was told how it
\* ended before it left, and no frame of it exists before.
WritesOnce ==
    /\ IsInjective(pendingWrites)
    /\ \A t \in ToSet(pendingWrites) : t # wcur
    /\ \A t \in Tids : Unsent(t) =>
          /\ wfut[t] = "pending"
          /\ \A m \in Frames : m.tid # t
    /\ pc["writer"] = "w_sent" => wfut[wcur] = "pending" \/ buff[wcur] = Heartbeat

\* A frame carries what was queued under its id, and there is one of it.
FramesAreTrue ==
    /\ \A m \in Frames : m.body = buff[m.tid]
    /\ IsInjective(responses)
    /\ requests \cap ToSet(responses) = {}
    /\ InReader \cap OnTheWay = {}

\* A heartbeat is remembered until the reader has its answer in hand.
HeartbeatsAwaited ==
    /\ \A t \in Tids : Unsent(t) /\ buff[t] = Heartbeat => t \in heartbeats
    /\ \A m \in Frames : m.body = Heartbeat => m.tid \in heartbeats
    /\ pc["reader"] = "r_deliver" => rbuf.body # Heartbeat

\* A read that is listed is pending, but for those that _close_read left.
ReadsListed ==
    /\ IsInjective(pendingReads)
    /\ \A t \in ToSet(pendingReads) :
          rfut[t] = "pending" \/ (rfut[t] = "abort" /\ Aborting)
    /\ \A c \in Clients : call[c] \in {"writing", "sent"} => rfut[tid[c]] = "none"
    /\ \A c \in Clients : call[c] \in {"reading", "answered"} => rfut[tid[c]] # "none"

\* An answer that was given, or is pooled, is the one to the id it is under.
AnswersAreTrue ==
    /\ \A t \in Tids : rfut[t] \in Body => rfut[t] = buff[t]
    /\ \A c \in Clients : call[c] = "answered" => rfut[tid[c]] \in Body
    /\ IsInjective(poolingReads)
    /\ \A t \in ToSet(poolingReads) :
          pooled[t] = buff[t] /\ buff[t] # Heartbeat /\ t \notin ToSet(pendingReads)

\* The reader does not sleep on a connection that is closed, and closing ends
\* only after closed is set.
ReaderNotAsleep ==
    /\ ReaderAwakeForAnswers
    /\ closed \/ (\E th \in Threads : pc[th] \in {"c_closed", "c_closing"})
          => pc["reader"] # "r_wait"
    /\ \A th \in Threads : pc[th] = "c_closing" => closed

AnswerInv ==
    /\ IdsAreFresh /\ IdsHaveOwners /\ WritesOnce /\ FramesAreTrue
    /\ HeartbeatsAwaited /\ ReadsListed /\ AnswersAreTrue /\ ReaderNotAsleep

-----------------------------------------------------------------------------
(* What the steps have in common.                                          *)

\* Frames are frames: what is on the way has an id and a body.
LEMMA FramesTyped ==
    ASSUME IndInv
    PROVE  \A m \in Frames : m \in Frame /\ m.tid \in Tids /\ m.body \in Body
  <1>1. requests \subseteq Frame /\ ToSet(responses) \subseteq Frame
    BY DEF IndInv, TypeOK, ToSet
  <1>2. InReader \subseteq Frame
    BY DEF IndInv, ThreadsInPlace, InReader
  <1> QED BY <1>1, <1>2 DEF Frames, OnTheWay, Frame

\* A connection that was closed, or is being closed, stays so.
LEMMA AbortingStays ==
    ASSUME IndInv, ReaderNotAsleep, Next, Aborting
    PROVE  Aborting'
  <1>1. CASE \E th \in Threads : CloseStep(th)
    <2> PICK th \in Threads : CloseStep(th)
      BY <1>1
    <2>1. CASE CloseFlags(th)
      <3>1. pc[th] = "c_closing" => closed
        BY DEF ReaderNotAsleep
      <3> QED BY <2>1, <3>1 DEF CloseFlags, Goto, Aborting
    <2>2. CASE ~CloseFlags(th)
      BY <2>2 DEF CloseStep, CloseTest, CloseClaim, CloseSocket, CloseWrite, CloseRead, Aborting
    <2> QED BY <2>1, <2>2
  <1>2. CASE ~\E th \in Threads : CloseStep(th)
    <2>1. UNCHANGED <<closing, closed>>
      <3>1. CASE \E c \in Clients : CallStep(c)
        BY <3>1 DEF CallStep, Write, AwaitWrite, Read, AwaitRead, GiveUp
      <3>2. CASE WriterStep
        BY <3>2 DEF WriterStep, WriterTop, WriterTimer, WriterWoken, WriterWakesReader,
                    WriterMissing, Expire, Transmit, WriteResult, SendFails
      <3>3. CASE ReaderStep
        BY <3>3 DEF ReaderStep, ReaderTop, Receive, ReceiveFails, Dispatch, Deliver
      <3>4. CASE PeerStep \/ \E th \in Closers : StartClose(th)
        BY <3>4 DEF PeerStep, PeerClose, PeerReply, PeerDrop, StartClose
      <3> QED BY <1>2, <3>1, <3>2, <3>3, <3>4 DEF Next
    <2> QED BY <2>1 DEF Aborting
  <1> QED BY <1>1, <1>2

\* The parts of AnswerInv that are about data.
DataInv ==
    /\ IdsAreFresh /\ IdsHaveOwners /\ WritesOnce /\ FramesAreTrue
    /\ HeartbeatsAwaited /\ ReadsListed /\ AnswersAreTrue

\* A step that moves nothing but callers, flags and threads that have nothing
\* in their hands; frames may get lost.
LEMMA NothingMoves ==
    ASSUME IndInv, DataInv, Aborting => Aborting', idgen' \in 0..MaxTid, idgen' >= idgen,
           UNCHANGED <<pendingWrites, buff, wfut, readVars, heartbeats, wcur, tid>>,
           requests' \subseteq requests, responses' = responses \/ responses' = <<>>,
           \A pos \in InHand : pc'["writer"] = pos <=> pc["writer"] = pos,
           \/ pc'["reader"] \notin {"r_dispatch", "r_deliver"}
           \/ pc'["reader"] = pc["reader"] /\ rbuf' = rbuf,
           \A c \in Clients :
              \/ call'[c] = call[c] \/ call'[c] = "failed"
              \/ call[c] = "writing" /\ call'[c] = "sent"
              \/ call[c] = "reading" /\ call'[c] = "answered" /\ rfut[tid[c]] \in Body
    PROVE  DataInv'
  <1>1. \A t \in Tids : Unsent(t)' <=> Unsent(t)
    BY DEF Unsent, InHand
  <1>2. /\ InReader' \subseteq InReader /\ Frames' \subseteq Frames
        /\ OnTheWay' \subseteq OnTheWay /\ ToSet(responses') \subseteq ToSet(responses)
        /\ IsInjective(responses')
    <2>1. ToSet(<<>>) = {} /\ IsInjective(<<>>)
      BY DEF ToSet, IsInjective
    <2>2. ToSet(responses') \subseteq ToSet(responses) /\ IsInjective(responses')
      BY <2>1 DEF DataInv, FramesAreTrue
    <2> QED BY <2>2 DEF Frames, OnTheWay, InReader
  <1>3. IdsAreFresh'
    <2>1. \A t \in Tids : t > idgen' => t > idgen
      BY DEF IndInv, TypeOK, Tids
    <2>2. \A c \in Clients : tid[c] <= idgen'
      BY DEF IndInv, TypeOK, DataInv, IdsAreFresh
    <2> QED BY <1>1, <1>2, <2>1, <2>2 DEF DataInv, IdsAreFresh
  <1>4. IdsHaveOwners'
    BY DEF DataInv, IdsHaveOwners, HasCall
  <1>5. WritesOnce'
    BY <1>1, <1>2 DEF DataInv, WritesOnce, InHand
  <1>6. FramesAreTrue'
    BY <1>2 DEF DataInv, FramesAreTrue
  <1>7. HeartbeatsAwaited'
    <2>1. pc'["reader"] = "r_deliver" => pc["reader"] = "r_deliver" /\ rbuf' = rbuf
      OBVIOUS
    <2> QED BY <1>1, <1>2, <2>1 DEF DataInv, HeartbeatsAwaited
  <1>8. ReadsListed'
    BY DEF DataInv, ReadsListed
  <1>9. AnswersAreTrue'
    BY DEF DataInv, AnswersAreTrue
  <1> QED BY <1>3, <1>4, <1>5, <1>6, <1>7, <1>8, <1>9 DEF DataInv

\* A new id is queued, for the caller whose id it is from now on or as a
\* heartbeat that is awaited from now on.
LEMMA QueueKeeps ==
    ASSUME IndInv, DataInv, NEW body \in Body, idgen < MaxTid, Queue(idgen + 1, body),
           idgen' = idgen + 1, UNCHANGED <<readVars, wcur, rbuf, netVars, flagVars>>,
           \A pos \in InHand : pc'["writer"] = pos <=> pc["writer"] = pos,
           pc'["reader"] = pc["reader"],
           heartbeats' = heartbeats \cup (IF body = Heartbeat THEN {idgen + 1} ELSE {}),
           \A d \in Clients :
              \/ tid'[d] = tid[d] /\ call'[d] = call[d]
              \/ d = body /\ tid'[d] = idgen + 1 /\ call'[d] = "writing"
    PROVE  DataInv'
  <1> USE ConnectionAssumption DEF ConnectionAssumption
  <1> DEFINE n == idgen + 1
  <1>1. n \in Tids /\ n > idgen /\ n = idgen' /\ n # 0
    BY DEF IndInv, TypeOK, Tids
  <1>2. Frames' = Frames /\ OnTheWay' = OnTheWay /\ InReader' = InReader
    BY DEF Frames, OnTheWay, InReader
  <1>3. ToSet(pendingWrites') = ToSet(pendingWrites) \cup {n}
    <2>1. pendingWrites \in Seq(Tids)
      BY DEF IndInv, TypeOK
    <2>2. pendingWrites' = Cons(n, pendingWrites)
      BY DEF Queue
    <2> HIDE DEF n
    <2> QED BY <1>1, <2>1, <2>2, ConsAdds
  <1>4. IsInjective(pendingWrites')
    <2>1. pendingWrites \in Seq(Tids) /\ IsInjective(pendingWrites)
      BY DEF IndInv, TypeOK, DataInv, WritesOnce
    <2>2. n \notin ToSet(pendingWrites)
      BY <1>1 DEF DataInv, IdsAreFresh, Unsent
    <2> QED BY <1>1, <2>1, <2>2, ConsDistinct DEF Queue
  <1>5. \A t \in Tids : Unsent(t)' <=> Unsent(t) \/ t = n
    BY <1>3 DEF Unsent, InHand
  <1>6. /\ \A t \in Tids : buff'[t] = IF t = n THEN body ELSE buff[t]
        /\ \A t \in Tids : wfut'[t] = IF t = n THEN "pending" ELSE wfut[t]
    BY DEF IndInv, TypeOK, Queue
  <1>7. \A m \in Frames : m.tid \in Tids
    BY FramesTyped
  <1>8. \A t \in Tids : t > idgen' => t > idgen /\ t # n
    BY <1>1 DEF IndInv, TypeOK, Tids
  <1>9. ToSet(pendingReads) \cup ToSet(poolingReads) \cup heartbeats \subseteq Tids
    BY DEF IndInv, TypeOK, ToSet
  <1>10. idgen \in 0..MaxTid /\ wcur \in 0..MaxTid /\ \A d \in Clients : tid[d] \in 0..MaxTid
    BY DEF IndInv, TypeOK
  <1>11. \A d \in Clients : call[d] \in HasCall => tid[d] \in Tids /\ tid[d] # n
    <2>1. \A d \in Clients : tid[d] # n
      BY <1>1, <1>10 DEF DataInv, IdsAreFresh
    <2> QED BY <2>1 DEF IndInv, ThreadsInPlace, HasCall
  <1>12. /\ n # wcur /\ \A m \in Frames : m.tid # n
         /\ n \notin ToSet(pendingReads) \cup ToSet(poolingReads) \cup heartbeats
         /\ rfut[n] = "none"
    BY <1>1 DEF DataInv, IdsAreFresh
  <1>13. UNCHANGED <<readVars, wcur, rbuf, netVars, flagVars>>
    OBVIOUS
  <1> HIDE DEF n
  <1>20. IdsAreFresh'
    <2>1. \A d \in Clients : tid'[d] <= idgen'
      BY <1>1, <1>10 DEF DataInv, IdsAreFresh, n
    <2>2. \A t \in Tids : t > idgen' => t \notin heartbeats'
      BY <1>8 DEF DataInv, IdsAreFresh, n
    <2> QED BY <1>2, <1>5, <1>8, <1>13, <2>1, <2>2 DEF DataInv, IdsAreFresh
  <1>21. IdsHaveOwners'
    <2>1. \A d \in Clients : call'[d] \in HasCall => buff'[tid'[d]] = d
      BY <1>1, <1>6, <1>11 DEF DataInv, IdsHaveOwners, n
    <2>2. \A t \in heartbeats' : buff'[t] = Heartbeat
      BY <1>1, <1>6, <1>9, <1>12 DEF DataInv, IdsHaveOwners, n
    <2> QED BY <2>1, <2>2 DEF IdsHaveOwners
  <1>22. WritesOnce'
    <2>1. \A t \in ToSet(pendingWrites') : t # wcur'
      BY <1>3, <1>12, <1>13 DEF DataInv, WritesOnce
    <2>2. \A t \in Tids : Unsent(t)' => wfut'[t] = "pending" /\ \A m \in Frames' : m.tid # t
      BY <1>2, <1>5, <1>6, <1>12 DEF DataInv, WritesOnce
    <2>3. ASSUME pc'["writer"] = "w_sent"
          PROVE  wfut'[wcur'] = "pending" \/ buff'[wcur'] = Heartbeat
      <3>1. pc["writer"] = "w_sent" /\ wcur \in Tids /\ wcur' = wcur
        BY <1>13, <2>3 DEF IndInv, ThreadsInPlace, InHand
      <3> QED BY <1>6, <1>12, <3>1 DEF DataInv, WritesOnce
    <2> QED BY <1>4, <2>1, <2>2, <2>3 DEF WritesOnce
  <1>23. FramesAreTrue'
    BY <1>2, <1>6, <1>7, <1>12, <1>13 DEF DataInv, FramesAreTrue
  <1>24. HeartbeatsAwaited'
    <2>1. \A t \in Tids : Unsent(t)' /\ buff'[t] = Heartbeat => t \in heartbeats'
      BY <1>5, <1>6 DEF DataInv, HeartbeatsAwaited, n
    <2>2. \A m \in Frames' : m.body = Heartbeat => m.tid \in heartbeats'
      BY <1>2 DEF DataInv, HeartbeatsAwaited
    <2> QED BY <1>13, <2>1, <2>2 DEF DataInv, HeartbeatsAwaited
  <1>25. ReadsListed'
    <2>1. Aborting' = Aborting
      BY <1>13 DEF Aborting
    <2>2. \A d \in Clients : call'[d] \in {"writing", "sent"} => rfut'[tid'[d]] = "none"
      BY <1>12, <1>13 DEF DataInv, ReadsListed, n
    <2>3. \A d \in Clients : call'[d] \in {"reading", "answered"} => rfut'[tid'[d]] # "none"
      BY <1>13 DEF DataInv, ReadsListed
    <2> QED BY <1>13, <2>1, <2>2, <2>3 DEF DataInv, ReadsListed
  <1>26. AnswersAreTrue'
    <2>1. "none" \notin Body
      BY DEF Body, Heartbeat
    <2>2. \A t \in Tids : rfut'[t] \in Body => rfut'[t] = buff'[t]
      BY <1>6, <1>12, <1>13, <2>1 DEF DataInv, AnswersAreTrue
    <2>3. \A d \in Clients : call'[d] = "answered" => rfut'[tid'[d]] \in Body
      BY <1>13 DEF DataInv, AnswersAreTrue
    <2>4. \A t \in ToSet(poolingReads) : buff'[t] = buff[t]
      BY <1>6, <1>9, <1>12
    <2> QED BY <1>13, <2>2, <2>3, <2>4 DEF DataInv, AnswersAreTrue
  <1> QED BY <1>20, <1>21, <1>22, <1>23, <1>24, <1>25, <1>26 DEF DataInv

-----------------------------------------------------------------------------
(* The steps of a caller.                                                  *)

\* write(): refused, or a new id queued for its caller.
LEMMA WriteKeepsData ==
    ASSUME NEW c \in Clients, IndInv, DataInv, Write(c), Aborting => Aborting'
    PROVE  DataInv'
  <1> USE ConnectionAssumption DEF ConnectionAssumption
  <1>1. CASE /\ UNCHANGED <<pendingWrites, buff, wfut, pc, tid>>
             /\ call' = [call EXCEPT ![c] = "failed"]
    <2>1. idgen' \in 0..MaxTid /\ idgen' >= idgen
      BY <1>1 DEF Write, IndInv, TypeOK
    <2>2. \A d \in Clients : call'[d] = call[d] \/ call'[d] = "failed"
      BY <1>1 DEF IndInv, TypeOK
    <2>3. UNCHANGED <<readVars, heartbeats, wcur, rbuf, netVars>>
      BY DEF Write
    <2> QED BY <1>1, <2>1, <2>2, <2>3, NothingMoves
  <1>2. CASE /\ idgen < MaxTid /\ idgen' = idgen + 1
             /\ Queue(idgen + 1, c)
             /\ call' = [call EXCEPT ![c] = "writing"]
             /\ tid' = [tid EXCEPT ![c] = idgen + 1]
             /\ Notify("writer", "w_wait", "w_woken")
    <2>1. UNCHANGED <<readVars, heartbeats, wcur, rbuf, netVars, flagVars>>
      BY DEF Write
    <2>2. /\ pc'["reader"] = pc["reader"]
          /\ \A pos \in InHand : pc'["writer"] = pos <=> pc["writer"] = pos
      BY <1>2 DEF Notify, IndInv, TypeOK, Threads, InHand
    <2>3. \A d \in Clients : \/ tid'[d] = tid[d] /\ call'[d] = call[d]
                             \/ d = c /\ tid'[d] = idgen + 1 /\ call'[d] = "writing"
      BY <1>2 DEF IndInv, TypeOK
    <2>4. c \in Body /\ c # Heartbeat
      BY DEF Body
    <2> QED BY <1>2, <2>1, <2>2, <2>3, <2>4, QueueKeeps
  <1> QED BY <1>1, <1>2 DEF Write

\* An id belongs to one caller.
LEMMA OneOwner ==
    ASSUME IdsHaveOwners, NEW c \in Clients, NEW d \in Clients,
           call[c] \in HasCall, call[d] \in HasCall, tid[c] = tid[d]
    PROVE  c = d
  BY DEF IdsHaveOwners

\* read(): an answer that came early, or a new pending read.
LEMMA ReadKeepsData ==
    ASSUME NEW c \in Clients, IndInv, DataInv, Read(c), Aborting => Aborting'
    PROVE  DataInv'
  <1> USE ConnectionAssumption DEF ConnectionAssumption
  <1>1. CASE UNCHANGED <<readVars, pc>> /\ call' = [call EXCEPT ![c] = "failed"]
    <2>1. \A d \in Clients : call'[d] = call[d] \/ call'[d] = "failed"
      BY <1>1 DEF IndInv, TypeOK
    <2>2. UNCHANGED <<writeVars, heartbeats, wcur, rbuf, tid, netVars>>
      BY DEF Read
    <2>3. idgen' \in 0..MaxTid /\ idgen' >= idgen
      BY <2>2 DEF IndInv, TypeOK
    <2> QED BY <1>1, <2>1, <2>2, <2>3, NothingMoves
  <1> SUFFICES ASSUME ~Aborting, call' = [call EXCEPT ![c] = "reading"],
                      ReadEarlyAnswer(tid[c]) \/ ReadPending(tid[c])
               PROVE  DataInv'
    BY <1>1 DEF Read
  <1> DEFINE t == tid[c]
  <1>2. call[c] = "sent" /\ \A d \in Clients : call'[d] = IF d = c THEN "reading" ELSE call[d]
    BY DEF Read, IndInv, TypeOK
  <1>3. t \in Tids /\ buff[t] = c /\ rfut[t] = "none"
    BY <1>2 DEF IndInv, ThreadsInPlace, DataInv, IdsHaveOwners, HasCall, ReadsListed
  <1>4. UNCHANGED <<writeVars, heartbeats, flagVars, wcur, rbuf, tid, netVars>>
    BY DEF Read
  <1>5. \A d \in Clients : call[d] \in HasCall /\ d # c => tid[d] # t
    BY <1>2, OneOwner DEF DataInv, HasCall
  <1>6. /\ pc'["writer"] = pc["writer"]
        /\ \A pos \in {"r_dispatch", "r_deliver"} : pc'["reader"] = pos <=> pc["reader"] = pos
    BY DEF ReadEarlyAnswer, ReadPending, Notify, IndInv, TypeOK, Threads
  <1>7. Frames' = Frames /\ OnTheWay' = OnTheWay /\ InReader' = InReader
        /\ \A x \in Tids : Unsent(x)' <=> Unsent(x)
    BY <1>4, <1>6 DEF Frames, OnTheWay, InReader, Unsent
  <1>8. t <= idgen /\ \A x \in Tids : x > idgen => x # t
    BY DEF DataInv, IdsAreFresh, IndInv, TypeOK
  <1>9. \A d \in Clients : call[d] \in HasCall => tid[d] \in Tids
    BY DEF IndInv, ThreadsInPlace, HasCall
  <1>10. t \notin ToSet(pendingReads)
    BY <1>3 DEF DataInv, ReadsListed
  <1> HIDE DEF t
  <1>11. IdsHaveOwners'
    BY <1>2, <1>4 DEF DataInv, IdsHaveOwners, HasCall
  <1>12. WritesOnce'
    BY <1>4, <1>6, <1>7 DEF DataInv, WritesOnce
  <1>13. FramesAreTrue'
    BY <1>4, <1>7 DEF DataInv, FramesAreTrue
  <1>14. HeartbeatsAwaited'
    BY <1>4, <1>6, <1>7 DEF DataInv, HeartbeatsAwaited
  <1>20. CASE ReadEarlyAnswer(t)
    <2>1. /\ IsInjective(poolingReads') /\ t \notin ToSet(poolingReads')
          /\ ToSet(poolingReads') \subseteq ToSet(poolingReads)
          /\ t \in ToSet(poolingReads)
      BY <1>20, DelKeepsOthers, DelForgets
         DEF ReadEarlyAnswer, IndInv, TypeOK, DataInv, AnswersAreTrue, Hit
    <2>2. rfut'[t] = c /\ \A x \in Tids : x # t => rfut'[x] = rfut[x]
      BY <1>3, <1>20, <2>1 DEF ReadEarlyAnswer, IndInv, TypeOK, DataInv, AnswersAreTrue
    <2>3. /\ \A x \in Tids : x # t => pooled'[x] = pooled[x]
          /\ UNCHANGED pendingReads
          /\ ToSet(poolingReads) \cup ToSet(pendingReads) \subseteq Tids
      BY <1>20 DEF ReadEarlyAnswer, IndInv, TypeOK, ToSet
    <2>4. c \in Body /\ c # "none"
      BY DEF Body
    <2>5. IdsAreFresh'
      BY <1>4, <1>7, <1>8, <2>1, <2>2, <2>3 DEF DataInv, IdsAreFresh
    <2>6. ReadsListed'
      <3>1. \A x \in ToSet(pendingReads) : rfut'[x] = rfut[x]
        BY <1>10, <2>2, <2>3
      <3>2. \A d \in Clients : call[d] \in HasCall /\ d # c => rfut'[tid[d]] = rfut[tid[d]]
        BY <1>5, <1>9, <2>2
      <3>3. Aborting' = Aborting
        BY <1>4 DEF Aborting
      <3> QED BY <1>2, <1>4, <2>2, <2>3, <2>4, <3>1, <3>2, <3>3 DEF DataInv, ReadsListed, HasCall, t
    <2>7. AnswersAreTrue'
      <3>1. \A d \in Clients : call[d] \in HasCall /\ d # c => rfut'[tid[d]] = rfut[tid[d]]
        BY <1>5, <1>9, <2>2
      <3>2. \A x \in Tids : rfut'[x] \in Body => rfut'[x] = buff'[x]
        BY <1>3, <1>4, <2>2 DEF DataInv, AnswersAreTrue
      <3> QED BY <1>2, <1>4, <2>1, <2>2, <2>3, <3>1, <3>2 DEF DataInv, AnswersAreTrue, HasCall
    <2> QED BY <1>11, <1>12, <1>13, <1>14, <2>5, <2>6, <2>7 DEF DataInv
  <1>30. CASE ReadPending(t)
    <2> DEFINE old == Oldest(pendingReads)
               kicks == KicksOut(pendingReads, MaxPendingReads)
    <2>1. /\ IsInjective(pendingReads') /\ ToSet(pendingReads') \subseteq ToSet(pendingReads) \cup {t}
          /\ kicks => old \notin ToSet(pendingReads') /\ old \in ToSet(pendingReads)
      BY <1>3, <1>10, <1>30, SetKeepsOthers, SetForgets
         DEF ReadPending, IndInv, TypeOK, DataInv, ReadsListed, Hit
    <2>2. \A x \in Tids : rfut'[x] = IF x = t THEN "pending"
                                     ELSE IF kicks /\ x = old THEN "kicked" ELSE rfut[x]
      BY <1>30 DEF ReadPending
    <2>3. kicks => rfut[old] = "pending" /\ old # t
      BY <1>10, <2>1 DEF DataInv, ReadsListed
    <2>4. UNCHANGED <<poolingReads, pooled>> /\ t \notin ToSet(poolingReads)
      BY <1>30 DEF ReadPending, Hit
    <2>5. ToSet(poolingReads) \cup ToSet(pendingReads) \subseteq Tids
      BY DEF IndInv, TypeOK, ToSet
    <2>6. {"pending", "kicked"} \cap Body = {}
      BY DEF Body, Heartbeat, Failures
    <2>7. Aborting' = Aborting
      BY <1>4 DEF Aborting
    <2> HIDE DEF old, kicks
    <2>8. \A d \in Clients : call[d] \in HasCall /\ d # c /\ rfut[tid[d]] # "pending"
             => rfut'[tid[d]] = rfut[tid[d]]
      BY <1>5, <1>9, <2>2, <2>3
    <2>9. IdsAreFresh'
      <3>1. \A x \in Tids : x > idgen => rfut'[x] = "none"
        BY <1>8, <2>2, <2>3 DEF DataInv, IdsAreFresh
      <3> QED BY <1>4, <1>7, <1>8, <2>1, <2>4, <3>1 DEF DataInv, IdsAreFresh
    <2>10. ReadsListed'
      <3>1. \A x \in ToSet(pendingReads') :
               rfut'[x] = "pending" \/ (rfut'[x] = "abort" /\ Aborting')
        BY <1>3, <2>1, <2>2, <2>5, <2>7 DEF DataInv, ReadsListed
      <3>2. \A d \in Clients : call'[d] \in {"writing", "sent"} => rfut'[tid'[d]] = "none"
        BY <1>2, <1>4, <2>8 DEF DataInv, ReadsListed, HasCall
      <3>3. \A d \in Clients : call'[d] \in {"reading", "answered"} => rfut'[tid'[d]] # "none"
        <4> SUFFICES ASSUME NEW d \in Clients, call'[d] \in {"reading", "answered"}
                     PROVE  rfut'[tid[d]] # "none"
          BY <1>4
        <4>1. CASE d = c
          BY <1>3, <2>2, <4>1 DEF t
        <4>2. CASE d # c
          <5>1. call[d] \in HasCall /\ rfut[tid[d]] # "none" /\ tid[d] \in Tids
            BY <1>2, <1>9, <4>2 DEF DataInv, ReadsListed, HasCall
          <5> QED BY <2>2, <5>1
        <4> QED BY <4>1, <4>2
      <3> QED BY <2>1, <3>1, <3>2, <3>3 DEF ReadsListed
    <2>11. AnswersAreTrue'
      <3>1. \A x \in Tids : rfut'[x] \in Body => rfut'[x] = buff'[x]
        BY <1>4, <2>2, <2>6 DEF DataInv, AnswersAreTrue
      <3>2. \A d \in Clients : call'[d] = "answered" => rfut'[tid'[d]] \in Body
        BY <1>2, <1>4, <2>6, <2>8 DEF DataInv, AnswersAreTrue, HasCall
      <3> QED BY <1>4, <2>1, <2>4, <3>1, <3>2 DEF DataInv, AnswersAreTrue
    <2> QED BY <1>11, <1>12, <1>13, <1>14, <2>9, <2>10, <2>11 DEF DataInv
  <1> QED BY <1>20, <1>30 DEF t

\* Waiting for a future, or giving up on one, moves nothing.
LEMMA WaitKeepsData ==
    ASSUME NEW c \in Clients, IndInv, DataInv, Aborting => Aborting',
           AwaitWrite(c) \/ AwaitRead(c) \/ GiveUp(c)
    PROVE  DataInv'
  <1>1. /\ UNCHANGED <<writeVars, readVars, heartbeats, pc, wcur, rbuf, tid, netVars>>
        /\ idgen' \in 0..MaxTid /\ idgen' >= idgen
    BY DEF AwaitWrite, AwaitRead, GiveUp, IndInv, TypeOK
  <1>2. \A d \in Clients :
           \/ call'[d] = call[d] \/ call'[d] = "failed"
           \/ call[d] = "writing" /\ call'[d] = "sent"
           \/ call[d] = "reading" /\ call'[d] = "answered" /\ rfut[tid[d]] \in Body
    <2>1. CASE AwaitWrite(c) \/ GiveUp(c)
      BY <2>1 DEF AwaitWrite, GiveUp, IndInv, TypeOK
    <2>2. CASE AwaitRead(c)
      <3>1. call[c] = "reading" /\ rfut[tid[c]] # "pending" /\ rfut[tid[c]] # "none"
            /\ tid[c] \in Tids
        BY <2>2 DEF AwaitRead, IndInv, ThreadsInPlace, DataInv, ReadsListed
      <3>2. rfut[tid[c]] \in Failures \cup Body
        BY <3>1 DEF IndInv, TypeOK, Resolved
      <3> QED BY <2>2, <3>1, <3>2 DEF AwaitRead, IndInv, TypeOK
    <2> QED BY <2>1, <2>2
  <1> QED BY <1>1, <1>2, NothingMoves

-----------------------------------------------------------------------------
(* The steps of the writing thread.                                        *)

\* The write in hand comes to its end, sent or not.
LEMMA WriteSettled ==
    ASSUME IndInv, DataInv, Aborting => Aborting', NEW outcome,
           pc["writer"] \in InHand, pc'["writer"] \notin InHand, wcur' = 0,
           wfut' = [wfut EXCEPT ![wcur] = outcome], pc'["reader"] = pc["reader"],
           UNCHANGED <<idgen, pendingWrites, buff, readVars, heartbeats, rbuf, callVars, netVars>>
    PROVE  DataInv'
  <1>1. wcur \in Tids /\ 0 \notin Tids /\ wcur \notin ToSet(pendingWrites)
    BY DEF IndInv, ThreadsInPlace, DataInv, WritesOnce, Tids
  <1>2. \A t \in Tids : Unsent(t)' => Unsent(t) /\ wfut'[t] = wfut[t]
    BY <1>1 DEF Unsent, InHand, IndInv, TypeOK
  <1>3. Frames' = Frames /\ OnTheWay' = OnTheWay /\ InReader' = InReader
    BY DEF Frames, OnTheWay, InReader
  <1>4. IdsAreFresh'
    <2>1. \A t \in Tids : t # 0
      BY <1>1
    <2> QED BY <1>2, <1>3, <2>1 DEF DataInv, IdsAreFresh
  <1>5. IdsHaveOwners'
    BY DEF DataInv, IdsHaveOwners
  <1>6. WritesOnce'
    <2>1. \A t \in ToSet(pendingWrites') : t # 0
      BY <1>1 DEF IndInv, TypeOK, ToSet
    <2> QED BY <1>2, <1>3, <2>1 DEF DataInv, WritesOnce, InHand
  <1>7. FramesAreTrue'
    BY <1>3 DEF DataInv, FramesAreTrue
  <1>8. HeartbeatsAwaited'
    BY <1>2, <1>3 DEF DataInv, HeartbeatsAwaited
  <1>9. ReadsListed'
    BY DEF DataInv, ReadsListed
  <1>10. AnswersAreTrue'
    BY DEF DataInv, AnswersAreTrue
  <1> QED BY <1>4, <1>5, <1>6, <1>7, <1>8, <1>9, <1>10 DEF DataInv

\* The steps of the writing thread.
LEMMA WriterKeepsData ==
    ASSUME IndInv, DataInv, WriterStep, Aborting => Aborting'
    PROVE  DataInv'
  <1> USE ConnectionAssumption DEF ConnectionAssumption
  <1>0. idgen \in 0..MaxTid /\ idgen >= idgen
    BY DEF IndInv, TypeOK
  <1>1. CASE WriterTop /\ UNCHANGED <<pendingWrites, wcur>>
    <2>1. \A pos \in InHand : pc'["writer"] = pos <=> pc["writer"] = pos
      BY <1>1 DEF WriterTop, IndInv, TypeOK, Threads, InHand, ThreadsInPlace
    <2>2. pc'["reader"] = pc["reader"] /\ UNCHANGED <<idgen, buff, wfut, readVars, heartbeats,
             rbuf, callVars, netVars>>
      BY <1>1 DEF WriterTop, IndInv, TypeOK, Threads
    <2> QED BY <1>0, <1>1, <2>1, <2>2, NothingMoves
  <1>2. CASE WriterTop /\ pendingWrites # <<>> /\ wcur' = Head(pendingWrites)
                       /\ pendingWrites' = Tail(pendingWrites) /\ pc'["writer"] = "w_send"
    <2>1. /\ pc["writer"] = "w_top" /\ pc'["reader"] = pc["reader"]
          /\ UNCHANGED <<idgen, buff, wfut, readVars, heartbeats, rbuf, callVars, netVars, flagVars>>
      BY <1>2 DEF WriterTop, IndInv, TypeOK, Threads
    <2>2. /\ IsInjective(pendingWrites') /\ wcur' \in Tids
          /\ wcur' \notin ToSet(pendingWrites')
          /\ ToSet(pendingWrites) = ToSet(pendingWrites') \cup {wcur'}
      <3>1. pendingWrites \in Seq(Tids) /\ IsInjective(pendingWrites)
        BY DEF IndInv, TypeOK, DataInv, WritesOnce
      <3> QED BY <1>2, <3>1, HeadForgets
    <2>3. \A t \in Tids : Unsent(t)' <=> Unsent(t)
      BY <1>2, <2>1, <2>2 DEF Unsent
    <2>4. Frames' = Frames /\ OnTheWay' = OnTheWay /\ InReader' = InReader
      BY <2>1 DEF Frames, OnTheWay, InReader
    <2>5. IdsAreFresh'
      <3>1. \A t \in Tids : t > idgen => t # wcur'
        BY <2>2 DEF DataInv, IdsAreFresh, Unsent
      <3> QED BY <2>1, <2>3, <2>4, <3>1 DEF DataInv, IdsAreFresh
    <2>6. WritesOnce'
      BY <1>2, <2>1, <2>2, <2>3, <2>4 DEF DataInv, WritesOnce
    <2>7. HeartbeatsAwaited'
      BY <2>1, <2>3, <2>4 DEF DataInv, HeartbeatsAwaited
    <2>8. IdsHaveOwners' /\ FramesAreTrue' /\ AnswersAreTrue'
      BY <2>1, <2>4 DEF DataInv, IdsHaveOwners, FramesAreTrue, AnswersAreTrue
    <2>9. ReadsListed'
      BY <2>1 DEF DataInv, ReadsListed
    <2> QED BY <2>5, <2>6, <2>7, <2>8, <2>9 DEF DataInv
  <1>3. CASE \/ WriterTimer \/ WriterWakesReader \/ WriterMissing
             \/ WriterWoken /\ UNCHANGED <<writeVars, heartbeats>>
    <2>1. \A pos \in InHand : pc'["writer"] = pos <=> pc["writer"] = pos
      BY <1>3 DEF WriterTimer, WriterWakesReader, WriterMissing, WriterWoken,
                  IndInv, TypeOK, Threads, InHand, ThreadsInPlace
    <2>2. \/ pc'["reader"] \notin {"r_dispatch", "r_deliver"}
          \/ pc'["reader"] = pc["reader"]
      BY <1>3 DEF WriterTimer, WriterWakesReader, WriterMissing, WriterWoken,
                  IndInv, TypeOK, Threads
    <2>3. UNCHANGED <<writeVars, readVars, heartbeats, wcur, rbuf, callVars, netVars>>
      BY <1>3 DEF WriterTimer, WriterWakesReader, WriterMissing, WriterWoken
    <2> QED BY <1>0, <2>1, <2>2, <2>3, NothingMoves
  <1>4. CASE WriterWoken /\ idgen < MaxTid /\ idgen' = idgen + 1 /\ Queue(idgen + 1, Heartbeat)
                         /\ heartbeats' = heartbeats \cup {idgen + 1}
    <2>1. UNCHANGED <<readVars, wcur, rbuf, netVars, flagVars, callVars>>
      BY <1>4 DEF WriterWoken
    <2>2. /\ \A pos \in InHand : pc'["writer"] = pos <=> pc["writer"] = pos
          /\ pc'["reader"] = pc["reader"]
      BY <1>4 DEF WriterWoken, IndInv, TypeOK, Threads, InHand
    <2>3. Heartbeat \in Body
      BY DEF Body
    <2> QED BY <1>4, <2>1, <2>2, <2>3, QueueKeeps
  <1>5. CASE Expire \/ WriteResult \/ SendFails
    <2>1. /\ pc["writer"] \in InHand /\ pc'["writer"] \notin InHand /\ wcur' = 0
          /\ pc'["reader"] = pc["reader"]
      BY <1>5 DEF Expire, WriteResult, SendFails, IndInv, TypeOK, Threads, InHand
    <2>2. PICK outcome : wfut' = [wfut EXCEPT ![wcur] = outcome]
      BY <1>5 DEF Expire, WriteResult, SendFails
    <2>3. UNCHANGED <<idgen, pendingWrites, buff, readVars, heartbeats, rbuf, callVars, netVars>>
      BY <1>5 DEF Expire, WriteResult, SendFails
    <2> QED BY <2>1, <2>2, <2>3, WriteSettled
  <1>6. CASE Transmit
    <2> DEFINE m == [tid |-> wcur, body |-> buff[wcur]]
    <2>1. /\ pc["writer"] = "w_send" /\ pc'["writer"] = "w_sent" /\ pc'["reader"] = pc["reader"]
          /\ UNCHANGED <<writeVars, readVars, heartbeats, flagVars, wcur, rbuf, callVars, responses>>
          /\ requests' \subseteq requests \cup {m}
      BY <1>6 DEF Transmit, IndInv, TypeOK, Threads
    <2>2. wcur \in Tids /\ Unsent(wcur) /\ wcur \notin ToSet(pendingWrites)
      BY <2>1 DEF IndInv, ThreadsInPlace, InHand, Unsent, DataInv, WritesOnce
    <2>3. m.tid = wcur /\ m.body = buff[wcur]
      OBVIOUS
    <2>4. wfut[wcur] = "pending" /\ \A f \in Frames : f.tid # wcur
      BY <2>2 DEF DataInv, WritesOnce
    <2> HIDE DEF m
    <2>5. m \notin Frames
      BY <2>3, <2>4
    <2>6. /\ Frames' \subseteq Frames \cup {m} /\ InReader' = InReader
          /\ OnTheWay' \subseteq OnTheWay \cup {m}
      BY <2>1 DEF Frames, OnTheWay, InReader
    <2>7. \A t \in Tids : Unsent(t)' <=> Unsent(t) /\ t # wcur
      BY <2>1, <2>2 DEF Unsent
    <2>8. IdsAreFresh'
      <3>1. \A t \in Tids : t > idgen => t # wcur
        BY DEF DataInv, IdsAreFresh
      <3>2. \A t \in Tids : t > idgen => \A f \in Frames' : f.tid # t
        BY <2>3, <2>6, <3>1 DEF DataInv, IdsAreFresh
      <3> QED BY <2>1, <2>7, <3>1, <3>2 DEF DataInv, IdsAreFresh
    <2>9. WritesOnce'
      <3>1. \A t \in Tids : Unsent(t)' => wfut[t] = "pending" /\ \A f \in Frames' : f.tid # t
        BY <2>3, <2>6, <2>7 DEF DataInv, WritesOnce
      <3> QED BY <2>1, <2>4, <3>1 DEF DataInv, WritesOnce
    <2>10. FramesAreTrue'
      <3>1. \A f \in Frames' : f.body = buff'[f.tid]
        BY <2>1, <2>3, <2>6 DEF DataInv, FramesAreTrue
      <3>2. m \notin ToSet(responses) /\ m \notin InReader
        BY <2>5 DEF Frames, OnTheWay
      <3> QED BY <2>1, <2>6, <3>1, <3>2 DEF DataInv, FramesAreTrue
    <2>11. HeartbeatsAwaited'
      <3>1. buff[wcur] = Heartbeat => wcur \in heartbeats
        BY <2>2 DEF DataInv, HeartbeatsAwaited
      <3> QED BY <2>1, <2>3, <2>6, <2>7, <3>1 DEF DataInv, HeartbeatsAwaited
    <2>12. IdsHaveOwners' /\ AnswersAreTrue'
      BY <2>1 DEF DataInv, IdsHaveOwners, AnswersAreTrue
    <2>13. ReadsListed'
      BY <2>1 DEF DataInv, ReadsListed
    <2> QED BY <2>8, <2>9, <2>10, <2>11, <2>12, <2>13 DEF DataInv
  <1>7. WriterTop => \/ UNCHANGED <<pendingWrites, wcur>>
                     \/ /\ pendingWrites # <<>> /\ wcur' = Head(pendingWrites)
                        /\ pendingWrites' = Tail(pendingWrites) /\ pc'["writer"] = "w_send"
    BY DEF WriterTop, IndInv, TypeOK, Threads
  <1>8. WriterWoken => \/ UNCHANGED <<writeVars, heartbeats>>
                       \/ /\ idgen < MaxTid /\ idgen' = idgen + 1
                          /\ Queue(idgen + 1, Heartbeat)
                          /\ heartbeats' = heartbeats \cup {idgen + 1}
    BY DEF WriterWoken
  <1> QED BY <1>1, <1>2, <1>3, <1>4, <1>5, <1>6, <1>7, <1>8 DEF WriterStep

-----------------------------------------------------------------------------
(* The steps of the reading thread.                                        *)

\* A frame is taken from the socket into the reader's hands.
LEMMA ReceiveKeepsData ==
    ASSUME IndInv, DataInv, Receive
    PROVE  DataInv'
  <1> USE ConnectionAssumption DEF ConnectionAssumption
  <1>1. /\ pc["reader"] = "r_recv" /\ pc'["reader"] = "r_dispatch"
        /\ pc'["writer"] = pc["writer"]
        /\ responses # <<>> /\ rbuf' = Head(responses) /\ responses' = Tail(responses)
        /\ UNCHANGED <<writeVars, readVars, heartbeats, flagVars, wcur, callVars, requests>>
    BY DEF Receive, IndInv, TypeOK, Threads
  <1>2. /\ IsInjective(responses') /\ rbuf' \notin ToSet(responses')
        /\ ToSet(responses) = ToSet(responses') \cup {rbuf'}
    <2>1. responses \in Seq(Frame) /\ IsInjective(responses)
      BY DEF IndInv, TypeOK, DataInv, FramesAreTrue
    <2> QED BY <1>1, <2>1, HeadForgets
  <1>3. InReader = {} /\ InReader' = {rbuf'}
    BY <1>1 DEF InReader
  <1>4. Frames' = Frames /\ OnTheWay' = OnTheWay \ {rbuf'}
    <2>1. rbuf' \notin requests
      BY <1>2 DEF DataInv, FramesAreTrue
    <2> QED BY <1>1, <1>2, <1>3, <2>1 DEF Frames, OnTheWay
  <1>5. \A t \in Tids : Unsent(t)' <=> Unsent(t)
    BY <1>1 DEF Unsent
  <1>6. IdsAreFresh' /\ IdsHaveOwners'
    BY <1>1, <1>4, <1>5 DEF DataInv, IdsAreFresh, IdsHaveOwners
  <1>7. WritesOnce'
    BY <1>1, <1>4, <1>5 DEF DataInv, WritesOnce
  <1>8. FramesAreTrue'
    BY <1>1, <1>2, <1>3, <1>4 DEF DataInv, FramesAreTrue
  <1>9. HeartbeatsAwaited'
    BY <1>1, <1>4, <1>5 DEF DataInv, HeartbeatsAwaited
  <1>10. ReadsListed' /\ AnswersAreTrue'
    BY <1>1 DEF DataInv, ReadsListed, AnswersAreTrue, Aborting
  <1> QED BY <1>6, <1>7, <1>8, <1>9, <1>10 DEF DataInv

\* The reader has the only frame of its id in its hands.
LEMMA OneFrame ==
    ASSUME IndInv, DataInv, pc["reader"] \in {"r_dispatch", "r_deliver"}
    PROVE  /\ rbuf \in Frames /\ rbuf.tid \in Tids /\ rbuf.body \in Body
           /\ rbuf.body = buff[rbuf.tid] /\ ~Unsent(rbuf.tid) /\ rbuf.tid <= idgen
           /\ \A m \in OnTheWay : m.tid # rbuf.tid
  <1>1. rbuf \in Frames /\ InReader = {rbuf}
    BY DEF Frames, InReader
  <1>2. rbuf \in Frame /\ rbuf.tid \in Tids /\ rbuf.body \in Body
    BY <1>1, FramesTyped
  <1>3. rbuf.body = buff[rbuf.tid] /\ ~Unsent(rbuf.tid)
    BY <1>1, <1>2 DEF DataInv, FramesAreTrue, WritesOnce
  <1>4. rbuf.tid <= idgen
    BY <1>1, <1>2 DEF DataInv, IdsAreFresh, IndInv, TypeOK, Tids
  <1>5. ASSUME NEW m \in OnTheWay, m.tid = rbuf.tid
        PROVE  FALSE
    <2>1. m \in Frame /\ m.body = buff[m.tid]
      BY FramesTyped DEF Frames, DataInv, FramesAreTrue
    <2>2. m = rbuf
      BY <1>2, <1>3, <1>5, <2>1 DEF Frame
    <2> QED BY <1>1, <2>2 DEF DataInv, FramesAreTrue
  <1> QED BY <1>1, <1>2, <1>3, <1>4, <1>5

\* A frame in hand: a heartbeat's answer ends here, any other goes on.
LEMMA DispatchKeepsData ==
    ASSUME IndInv, DataInv, Dispatch, Aborting => Aborting'
    PROVE  DataInv'
  <1> USE ConnectionAssumption DEF ConnectionAssumption
  <1> DEFINE t == rbuf.tid
  <1>1. /\ pc["reader"] = "r_dispatch" /\ pc'["writer"] = pc["writer"]
        /\ UNCHANGED <<idgen, pendingWrites, buff, readVars, flagVars, wcur, callVars, netVars>>
    BY DEF Dispatch, IndInv, TypeOK, Threads
  <1>2. /\ rbuf \in Frames /\ t \in Tids /\ rbuf.body = buff[t] /\ ~Unsent(t)
        /\ \A m \in OnTheWay : m.tid # t
    BY <1>1, OneFrame
  <1>3. OnTheWay' = OnTheWay /\ \A x \in Tids : Unsent(x)' <=> Unsent(x)
    BY <1>1 DEF OnTheWay, Unsent
  <1>4. CASE pc'["reader"] = "done" /\ UNCHANGED <<heartbeats, wfut>>
    <2>1. idgen' \in 0..MaxTid /\ idgen' >= idgen
      BY <1>1 DEF IndInv, TypeOK
    <2> QED BY <1>1, <1>4, <2>1, NothingMoves
  <1>5. CASE /\ t \in heartbeats /\ wfut' = [wfut EXCEPT ![t] = "ok"]
             /\ heartbeats' = heartbeats \ {t} /\ pc'["reader"] = "r_top"
    <2>1. InReader' = {} /\ Frames' \subseteq Frames /\ \A m \in Frames' : m.tid # t
      BY <1>2, <1>3, <1>5 DEF InReader, Frames
    <2>2. \A x \in Tids : x # t => wfut'[x] = wfut[x]
      BY <1>5 DEF IndInv, TypeOK
    <2>3. buff[t] = Heartbeat
      BY <1>5 DEF DataInv, IdsHaveOwners
    <2> HIDE DEF t
    <2>4. IdsAreFresh' /\ IdsHaveOwners'
      BY <1>1, <1>3, <1>5, <2>1 DEF DataInv, IdsAreFresh, IdsHaveOwners
    <2>5. WritesOnce'
      <3>1. \A x \in Tids : Unsent(x)' => wfut'[x] = "pending" /\ \A m \in Frames' : m.tid # x
        BY <1>2, <1>3, <2>1, <2>2 DEF DataInv, WritesOnce
      <3>2. pc["writer"] = "w_sent" => wfut'[wcur] = "pending" \/ buff[wcur] = Heartbeat
        BY <2>2, <2>3 DEF DataInv, WritesOnce, IndInv, ThreadsInPlace, InHand
      <3> QED BY <1>1, <3>1, <3>2 DEF DataInv, WritesOnce
    <2>6. FramesAreTrue'
      BY <1>1, <2>1 DEF DataInv, FramesAreTrue
    <2>7. HeartbeatsAwaited'
      BY <1>1, <1>2, <1>3, <1>5, <2>1 DEF DataInv, HeartbeatsAwaited
    <2>8. ReadsListed' /\ AnswersAreTrue'
      BY <1>1 DEF DataInv, ReadsListed, AnswersAreTrue, Aborting
    <2> QED BY <2>4, <2>5, <2>6, <2>7, <2>8 DEF DataInv
  <1>6. CASE /\ t \notin heartbeats /\ pc'["reader"] = "r_deliver"
             /\ UNCHANGED <<heartbeats, wfut, rbuf>>
    <2>1. InReader' = InReader /\ Frames' = Frames
      BY <1>1, <1>3, <1>6 DEF InReader, Frames
    <2>2. rbuf.body # Heartbeat
      BY <1>2, <1>6 DEF DataInv, HeartbeatsAwaited
    <2>3. IdsAreFresh' /\ IdsHaveOwners'
      BY <1>1, <1>3, <1>6, <2>1 DEF DataInv, IdsAreFresh, IdsHaveOwners
    <2>4. WritesOnce'
      BY <1>1, <1>3, <1>6, <2>1 DEF DataInv, WritesOnce
    <2>5. FramesAreTrue'
      BY <1>1, <1>3, <2>1 DEF DataInv, FramesAreTrue
    <2>6. HeartbeatsAwaited'
      BY <1>1, <1>3, <1>6, <2>1, <2>2 DEF DataInv, HeartbeatsAwaited
    <2>7. ReadsListed' /\ AnswersAreTrue'
      BY <1>1 DEF DataInv, ReadsListed, AnswersAreTrue, Aborting
    <2> QED BY <2>3, <2>4, <2>5, <2>6, <2>7 DEF DataInv
  <1>7. \/ pc'["reader"] = "done" /\ UNCHANGED <<heartbeats, wfut>>
        \/ /\ t \in heartbeats /\ wfut' = [wfut EXCEPT ![t] = "ok"]
           /\ heartbeats' = heartbeats \ {t} /\ pc'["reader"] = "r_top"
        \/ /\ t \notin heartbeats /\ pc'["reader"] = "r_deliver"
           /\ UNCHANGED <<heartbeats, wfut, rbuf>>
    BY DEF Dispatch, IndInv, TypeOK, Threads
  <1> QED BY <1>4, <1>5, <1>6, <1>7

\* An answer in hand: to the caller that waits for it, or into the pool.
LEMMA DeliverKeepsData ==
    ASSUME IndInv, DataInv, Deliver, Aborting => Aborting'
    PROVE  DataInv'
  <1> USE ConnectionAssumption DEF ConnectionAssumption
  <1> DEFINE t == rbuf.tid
             body == rbuf.body
  <1>1. /\ pc["reader"] = "r_deliver" /\ pc'["writer"] = pc["writer"]
        /\ pc'["reader"] \in {"r_top", "done"}
        /\ UNCHANGED <<writeVars, heartbeats, flagVars, wcur, callVars, netVars>>
    BY DEF Deliver, IndInv, TypeOK, Threads
  <1>2. /\ t \in Tids /\ body = buff[t] /\ body \in Body /\ t <= idgen
    BY <1>1, OneFrame
  <1>3. body # Heartbeat
    BY <1>1 DEF DataInv, HeartbeatsAwaited
  <1>4. CASE UNCHANGED readVars
    <2>1. idgen' \in 0..MaxTid /\ idgen' >= idgen
      BY <1>1 DEF IndInv, TypeOK
    <2> QED BY <1>1, <1>4, <2>1, NothingMoves
  <1> SUFFICES ASSUME ~Aborting, Hand(t, body) \/ Pool(t, body)
               PROVE  DataInv'
    BY <1>4 DEF Deliver
  <1>5. /\ OnTheWay' = OnTheWay /\ InReader' = {} /\ Frames' \subseteq Frames
        /\ \A x \in Tids : Unsent(x)' <=> Unsent(x)
    BY <1>1 DEF OnTheWay, InReader, Frames, Unsent
  <1>6. IdsHaveOwners' /\ FramesAreTrue'
    BY <1>1, <1>5 DEF DataInv, IdsHaveOwners, FramesAreTrue
  <1>7. WritesOnce'
    BY <1>1, <1>5 DEF DataInv, WritesOnce
  <1>8. HeartbeatsAwaited'
    BY <1>1, <1>5 DEF DataInv, HeartbeatsAwaited
  <1>9. "none" \notin Body /\ "pending" \notin Body
    BY DEF Body, Heartbeat
  <1>10. ToSet(poolingReads) \cup ToSet(pendingReads) \subseteq Tids
    BY DEF IndInv, TypeOK, ToSet
  <1>11. \A x \in Tids : x > idgen => x # t
    BY <1>2 DEF IndInv, TypeOK, Tids
  <1> HIDE DEF t, body
  <1>12. CASE Hand(t, body)
    <2>1. /\ IsInjective(pendingReads') /\ t \notin ToSet(pendingReads')
          /\ ToSet(pendingReads') \subseteq ToSet(pendingReads) /\ t \in ToSet(pendingReads)
      BY <1>12, DelKeepsOthers, DelForgets
         DEF Hand, IndInv, TypeOK, DataInv, ReadsListed, Hit
    <2>2. rfut'[t] = body /\ \A x \in Tids : x # t => rfut'[x] = rfut[x]
      BY <1>2, <1>12 DEF Hand, IndInv, TypeOK
    <2>3. rfut[t] # "none" /\ UNCHANGED <<poolingReads, pooled>>
      BY <1>12, <2>1 DEF Hand, DataInv, ReadsListed
    <2>4. IdsAreFresh'
      BY <1>1, <1>5, <1>10, <1>11, <2>1, <2>2, <2>3 DEF DataInv, IdsAreFresh
    <2>5. \A d \in Clients : call[d] \in HasCall => tid[d] \in Tids
      BY DEF IndInv, ThreadsInPlace, HasCall
    <2>6. ReadsListed'
      <3>1. \A x \in ToSet(pendingReads') :
               rfut'[x] = "pending" \/ (rfut'[x] = "abort" /\ Aborting')
        BY <1>1, <1>10, <2>1, <2>2 DEF DataInv, ReadsListed, Aborting
      <3>2. \A d \in Clients : call[d] \in {"writing", "sent"} => rfut'[tid[d]] = "none"
        BY <2>2, <2>3, <2>5 DEF DataInv, ReadsListed, HasCall
      <3>3. \A d \in Clients : call[d] \in {"reading", "answered"} => rfut'[tid[d]] # "none"
        BY <1>2, <1>9, <2>2, <2>5 DEF DataInv, ReadsListed, HasCall
      <3> QED BY <1>1, <2>1, <3>1, <3>2, <3>3 DEF ReadsListed
    <2>7. AnswersAreTrue'
      <3>1. \A x \in Tids : rfut'[x] \in Body => rfut'[x] = buff[x]
        BY <1>2, <2>2 DEF DataInv, AnswersAreTrue
      <3>2. \A d \in Clients : call[d] = "answered" => rfut'[tid[d]] \in Body
        BY <1>2, <2>2, <2>5 DEF DataInv, AnswersAreTrue, HasCall
      <3> QED BY <1>1, <2>1, <2>3, <3>1, <3>2 DEF DataInv, AnswersAreTrue
    <2> QED BY <1>6, <1>7, <1>8, <2>4, <2>6, <2>7 DEF DataInv
  <1>13. CASE Pool(t, body)
    <2> DEFINE old == Oldest(poolingReads)
               kicks == ~Hit(poolingReads, t) /\ KicksOut(poolingReads, MaxPoolingReads)
    <2>1. /\ IsInjective(poolingReads') /\ ToSet(poolingReads') \subseteq ToSet(poolingReads) \cup {t}
          /\ kicks => old \notin ToSet(poolingReads')
      BY <1>2, <1>13, SetKeepsOthers, SetForgets, ZenonT(60)
         DEF Pool, IndInv, TypeOK, DataInv, AnswersAreTrue, Hit
    <2>2. \A x \in Tids : pooled'[x] = IF x = t THEN body
                                       ELSE IF kicks /\ x = old THEN "none" ELSE pooled[x]
      BY <1>13 DEF Pool
    <2>3. UNCHANGED <<pendingReads, rfut>> /\ t \notin ToSet(pendingReads)
      BY <1>13 DEF Pool, Hit
    <2> HIDE DEF old, kicks
    <2>4. IdsAreFresh'
      BY <1>1, <1>5, <1>10, <1>11, <2>1, <2>3 DEF DataInv, IdsAreFresh
    <2>5. ReadsListed'
      BY <1>1, <2>3 DEF DataInv, ReadsListed, Aborting
    <2>6. AnswersAreTrue'
      <3>1. \A x \in ToSet(poolingReads') :
               pooled'[x] = buff[x] /\ buff[x] # Heartbeat /\ x \notin ToSet(pendingReads)
        BY <1>2, <1>3, <1>10, <2>1, <2>2, <2>3 DEF DataInv, AnswersAreTrue
      <3> QED BY <1>1, <2>1, <2>3, <3>1 DEF DataInv, AnswersAreTrue
    <2> QED BY <1>6, <1>7, <1>8, <2>4, <2>5, <2>6 DEF DataInv
  <1> QED BY <1>12, <1>13

\* The steps of the reading thread.
LEMMA ReaderKeepsData ==
    ASSUME IndInv, DataInv, ReaderStep, Aborting => Aborting'
    PROVE  DataInv'
  <1>1. CASE ReaderTop \/ ReceiveFails
    <2>1. /\ pc'["writer"] = pc["writer"]
          /\ pc'["reader"] \notin {"r_dispatch", "r_deliver"}
      BY <1>1 DEF ReaderTop, ReceiveFails, IndInv, TypeOK, Threads
    <2>2. UNCHANGED <<writeVars, readVars, heartbeats, wcur, callVars, netVars>>
      BY <1>1 DEF ReaderTop, ReceiveFails
    <2>3. idgen' \in 0..MaxTid /\ idgen' >= idgen
      BY <2>2 DEF IndInv, TypeOK
    <2> QED BY <2>1, <2>2, <2>3, NothingMoves
  <1> QED BY <1>1, ReceiveKeepsData, DispatchKeepsData, DeliverKeepsData DEF ReaderStep

-----------------------------------------------------------------------------
(* The steps of close(), of the peer and of who starts closing.            *)

\* _close_write: what was queued is gone, and no future of it is read as sent.
LEMMA CloseWriteKeepsData ==
    ASSUME NEW th \in Threads, IndInv, DataInv, CloseWrite(th), Aborting => Aborting'
    PROVE  DataInv'
  <1> USE ConnectionAssumption DEF ConnectionAssumption
  <1>1. /\ pendingWrites' = <<>>
        /\ \A t \in Tids : t \notin ToSet(pendingWrites) => wfut'[t] = wfut[t]
        /\ UNCHANGED <<idgen, buff, readVars, heartbeats, flagVars, wcur, rbuf, callVars, netVars>>
    BY DEF CloseWrite
  <1>2. /\ ToSet(pendingWrites') = {} /\ IsInjective(pendingWrites')
    BY <1>1 DEF ToSet, IsInjective
  <1>3. /\ \A pos \in InHand : pc'["writer"] = pos <=> pc["writer"] = pos
        /\ \A pos \in {"r_dispatch", "r_deliver"} : pc'["reader"] = pos <=> pc["reader"] = pos
    BY DEF CloseWrite, IndInv, TypeOK, Threads, InHand
  <1>4. Frames' = Frames /\ OnTheWay' = OnTheWay /\ InReader' = InReader
    BY <1>1, <1>3 DEF Frames, OnTheWay, InReader
  <1>5. \A t \in Tids : Unsent(t)' <=> wcur = t /\ pc["writer"] = "w_send"
    BY <1>1, <1>2, <1>3 DEF Unsent, InHand
  <1>6. \A t \in Tids : Unsent(t)' => Unsent(t) /\ wfut'[t] = wfut[t]
    BY <1>1, <1>5 DEF Unsent, DataInv, WritesOnce
  <1>7. IdsAreFresh' /\ IdsHaveOwners'
    BY <1>1, <1>4, <1>6 DEF DataInv, IdsAreFresh, IdsHaveOwners
  <1>8. WritesOnce'
    <2>1. ASSUME pc["writer"] = "w_sent"
          PROVE  wfut'[wcur] = "pending" \/ buff[wcur] = Heartbeat
      <3>1. wcur \in Tids /\ wcur \notin ToSet(pendingWrites)
        BY <2>1 DEF IndInv, ThreadsInPlace, InHand, DataInv, WritesOnce
      <3> QED BY <1>1, <2>1, <3>1 DEF DataInv, WritesOnce
    <2> QED BY <1>1, <1>2, <1>3, <1>4, <1>6, <2>1 DEF DataInv, WritesOnce, InHand
  <1>9. FramesAreTrue' /\ HeartbeatsAwaited'
    BY <1>1, <1>3, <1>4, <1>6 DEF DataInv, FramesAreTrue, HeartbeatsAwaited
  <1>10. ReadsListed' /\ AnswersAreTrue'
    BY <1>1 DEF DataInv, ReadsListed, AnswersAreTrue, Aborting
  <1> QED BY <1>7, <1>8, <1>9, <1>10 DEF DataInv

\* _close_read: the pending reads fail, what was pooled is gone.
LEMMA CloseReadKeepsData ==
    ASSUME NEW th \in Threads, IndInv, DataInv, CloseRead(th)
    PROVE  DataInv'
  <1> USE ConnectionAssumption DEF ConnectionAssumption
  <1>1. /\ poolingReads' = <<>>
        /\ \A t \in Tids : rfut'[t] = IF t \in ToSet(pendingReads) THEN "abort" ELSE rfut[t]
        /\ UNCHANGED <<writeVars, pendingReads, heartbeats, flagVars, wcur, rbuf, callVars, netVars>>
    BY DEF CloseRead
  <1>2. ToSet(poolingReads') = {} /\ IsInjective(poolingReads')
    BY <1>1 DEF ToSet, IsInjective
  <1>3. /\ \A pos \in InHand : pc'["writer"] = pos <=> pc["writer"] = pos
        /\ \A pos \in {"r_dispatch", "r_deliver"} : pc'["reader"] = pos <=> pc["reader"] = pos
    BY DEF CloseRead, IndInv, TypeOK, Threads, InHand
  <1>4. Frames' = Frames /\ OnTheWay' = OnTheWay /\ InReader' = InReader
    BY <1>1, <1>3 DEF Frames, OnTheWay, InReader
  <1>5. \A t \in Tids : Unsent(t)' <=> Unsent(t)
    BY <1>1, <1>3 DEF Unsent, InHand
  <1>6. Aborting /\ Aborting'
    <2>1. closing
      BY DEF CloseRead, IndInv, OneTeardown, Teardown
    <2> QED BY <1>1, <2>1 DEF Aborting
  <1>7. \A t \in Tids : t \in ToSet(pendingReads) => rfut[t] \in {"pending", "abort"}
    BY DEF DataInv, ReadsListed
  <1>8. \A d \in Clients : call[d] \in HasCall => tid[d] \in Tids
    BY DEF IndInv, ThreadsInPlace, HasCall
  <1>9. {"pending", "abort", "none"} \cap Body = {}
    BY DEF Body, Heartbeat, Failures
  <1>10. IdsAreFresh'
    <2>1. \A t \in Tids : t > idgen => rfut'[t] = "none"
      BY <1>1 DEF DataInv, IdsAreFresh
    <2> QED BY <1>1, <1>2, <1>4, <1>5, <2>1 DEF DataInv, IdsAreFresh
  <1>11. IdsHaveOwners' /\ FramesAreTrue'
    BY <1>1, <1>4 DEF DataInv, IdsHaveOwners, FramesAreTrue
  <1>12. WritesOnce'
    BY <1>1, <1>3, <1>4, <1>5 DEF DataInv, WritesOnce, InHand
  <1>13. HeartbeatsAwaited'
    BY <1>1, <1>3, <1>4, <1>5 DEF DataInv, HeartbeatsAwaited
  <1>14. ReadsListed'
    <2>1. \A t \in ToSet(pendingReads) : rfut'[t] = "abort"
      BY <1>1 DEF IndInv, TypeOK, ToSet
    <2>2. \A d \in Clients : call[d] \in {"writing", "sent"} => rfut'[tid[d]] = "none"
      BY <1>1, <1>7, <1>8 DEF DataInv, ReadsListed, HasCall
    <2>3. \A d \in Clients : call[d] \in {"reading", "answered"} => rfut'[tid[d]] # "none"
      BY <1>1, <1>8 DEF DataInv, ReadsListed, HasCall
    <2> QED BY <1>1, <1>6, <2>1, <2>2, <2>3 DEF DataInv, ReadsListed
  <1>15. AnswersAreTrue'
    <2>1. \A t \in Tids : rfut'[t] \in Body => rfut'[t] = buff[t]
      BY <1>1, <1>9 DEF DataInv, AnswersAreTrue
    <2>2. \A d \in Clients : call[d] = "answered" => rfut'[tid[d]] \in Body
      BY <1>1, <1>7, <1>8, <1>9 DEF DataInv, AnswersAreTrue, HasCall
    <2> QED BY <1>1, <1>2, <2>1, <2>2 DEF AnswersAreTrue
  <1> QED BY <1>10, <1>11, <1>12, <1>13, <1>14, <1>15 DEF DataInv

\* The steps of close(): the others but touch flags and lose frames.
LEMMA CloseKeepsData ==
    ASSUME NEW th \in Threads, IndInv, DataInv, CloseStep(th), Aborting => Aborting'
    PROVE  DataInv'
  <1>1. CASE CloseTest(th) \/ CloseClaim(th) \/ CloseSocket(th) \/ CloseFlags(th)
    <2>1. UNCHANGED <<writeVars, readVars, heartbeats, wcur, rbuf, callVars>>
      BY <1>1 DEF CloseTest, CloseClaim, CloseSocket, CloseFlags
    <2>2. requests' \subseteq requests /\ (responses' = responses \/ responses' = <<>>)
      BY <1>1 DEF CloseTest, CloseClaim, CloseSocket, CloseFlags
    <2>3. /\ \A pos \in InHand : pc'["writer"] = pos <=> pc["writer"] = pos
          /\ \/ pc'["reader"] \notin {"r_dispatch", "r_deliver"}
             \/ pc'["reader"] = pc["reader"]
      BY <1>1 DEF CloseTest, CloseClaim, CloseSocket, CloseFlags, Goto, IndInv, TypeOK,
                  Threads, InHand
    <2>4. idgen' \in 0..MaxTid /\ idgen' >= idgen
      BY <2>1 DEF IndInv, TypeOK
    <2> QED BY <2>1, <2>2, <2>3, <2>4, NothingMoves
  <1> QED BY <1>1, CloseWriteKeepsData, CloseReadKeepsData DEF CloseStep

\* A thread begins to close: nothing else changes.
LEMMA StartCloseKeepsData ==
    ASSUME NEW th \in Closers, IndInv, DataInv, StartClose(th), Aborting => Aborting'
    PROVE  DataInv'
  <1>1. UNCHANGED <<writeVars, readVars, heartbeats, wcur, rbuf, callVars, netVars>>
    BY DEF StartClose
  <1>2. pc'["writer"] = pc["writer"] /\ pc'["reader"] = pc["reader"]
    BY ConnectionAssumption
       DEF ConnectionAssumption, StartClose, Goto, IndInv, TypeOK, Threads
  <1>3. idgen' \in 0..MaxTid /\ idgen' >= idgen
    BY <1>1 DEF IndInv, TypeOK
  <1> QED BY <1>1, <1>2, <1>3, NothingMoves

\* The peer loses frames, or turns a request into a response.
LEMMA PeerKeepsData ==
    ASSUME IndInv, DataInv, PeerStep
    PROVE  DataInv'
  <1>1. /\ UNCHANGED <<writeVars, readVars, heartbeats, flagVars, pc, wcur, rbuf, callVars>>
        /\ idgen' \in 0..MaxTid /\ idgen' >= idgen
    BY DEF PeerStep, PeerClose, PeerReply, PeerDrop, IndInv, TypeOK
  <1>2. CASE requests' \subseteq requests /\ responses' = responses
    <2>1. Aborting' = Aborting
      BY <1>1 DEF Aborting
    <2> QED BY <1>1, <1>2, <2>1, NothingMoves
  <1>3. ASSUME NEW m \in requests, requests' = requests \ {m}, responses' = Append(responses, m)
        PROVE  DataInv'
    <2>1. /\ ToSet(responses') = ToSet(responses) \cup {m}
          /\ IsInjective(responses')
      <3>1. responses \in Seq(Frame) /\ m \in Frame /\ IsInjective(responses)
        BY DEF IndInv, TypeOK, DataInv, FramesAreTrue
      <3>2. m \notin ToSet(responses)
        BY DEF DataInv, FramesAreTrue
      <3> QED BY <1>3, <3>1, <3>2, AppendAdds
    <2>2. Frames' = Frames /\ OnTheWay' = OnTheWay /\ InReader' = InReader
      BY <1>1, <1>3, <2>1 DEF Frames, OnTheWay, InReader
    <2>3. \A t \in Tids : Unsent(t)' <=> Unsent(t)
      BY <1>1 DEF Unsent
    <2>4. IdsAreFresh' /\ IdsHaveOwners'
      BY <1>1, <2>2, <2>3 DEF DataInv, IdsAreFresh, IdsHaveOwners
    <2>5. WritesOnce'
      BY <1>1, <2>2, <2>3 DEF DataInv, WritesOnce
    <2>6. FramesAreTrue'
      BY <1>1, <1>3, <2>1, <2>2 DEF DataInv, FramesAreTrue
    <2>7. HeartbeatsAwaited'
      BY <1>1, <2>2, <2>3 DEF DataInv, HeartbeatsAwaited
    <2>8. ReadsListed' /\ AnswersAreTrue'
      BY <1>1 DEF DataInv, ReadsListed, AnswersAreTrue, Aborting
    <2> QED BY <2>4, <2>5, <2>6, <2>7, <2>8 DEF DataInv
  <1>4. \/ requests' \subseteq requests /\ responses' = responses
        \/ \E m \in requests : requests' = requests \ {m} /\ responses' = Append(responses, m)
    BY DEF PeerStep, PeerClose, PeerReply, PeerDrop
  <1> QED BY <1>2, <1>3, <1>4

\* Every step keeps the seven parts about data.
LEMMA NextKeepsData ==
    ASSUME IndInv, DataInv, Next, Aborting => Aborting'
    PROVE  DataInv'
  <1>1. CASE \E c \in Clients : CallStep(c)
    BY <1>1, WriteKeepsData, ReadKeepsData, WaitKeepsData DEF CallStep
  <1>2. CASE WriterStep
    BY <1>2, WriterKeepsData
  <1>3. CASE ReaderStep
    BY <1>3, ReaderKeepsData
  <1>4. CASE \E th \in Closers : StartClose(th)
    BY <1>4, StartCloseKeepsData
  <1>5. CASE \E th \in Threads : CloseStep(th)
    BY <1>5, CloseKeepsData
  <1>6. CASE PeerStep
    BY <1>6, PeerKeepsData
  <1> QED BY <1>1, <1>2, <1>3, <1>4, <1>5, <1>6 DEF Next

-----------------------------------------------------------------------------
(* When the reader sleeps.                                                 *)

\* No step puts the reader to sleep on an answer that is due, or leaves it
\* asleep on a connection that has been closed.
LEMMA ReaderStaysAwake ==
    ASSUME IndInv, ReaderNotAsleep, Next
    PROVE  ReaderNotAsleep'
  <1> USE ConnectionAssumption DEF ConnectionAssumption, ReaderNotAsleep, ReaderAwakeForAnswers
  <1>1. CASE \E c \in Clients : CallStep(c)
    <2>1. /\ UNCHANGED <<heartbeats, closing, closed>>
          /\ \/ pc'["reader"] = pc["reader"] /\ UNCHANGED pendingReads
             \/ pc'["reader"] # "r_wait"
          /\ pc'["writer"] = pc["writer"] \/ pc["writer"] = "w_wait"
          /\ \A th \in Threads : pc'[th] \in {"c_closed", "c_closing"} => pc'[th] = pc[th]
      BY <1>1 DEF CallStep, Write, AwaitWrite, Read, ReadEarlyAnswer, ReadPending, AwaitRead,
                  GiveUp, Notify, IndInv, TypeOK, Threads
    <2> QED BY <2>1
  <1>2. CASE WriterStep
    <2>1. /\ UNCHANGED <<pendingReads, closing, closed>>
          /\ pc'["reader"] = pc["reader"] \/ pc'["reader"] # "r_wait"
          /\ UNCHANGED heartbeats \/ pc'["writer"] = "w_wake"
          /\ pc["writer"] = "w_wake" => pc'["reader"] # "r_wait"
          /\ \A th \in Threads : pc'[th] \in {"c_closed", "c_closing"} => pc'[th] = pc[th]
      BY <1>2 DEF WriterStep, WriterTop, WriterTimer, WriterWoken, WriterWakesReader,
                  WriterMissing, Expire, Transmit, WriteResult, SendFails, IndInv, TypeOK, Threads
    <2> QED BY <2>1
  <1>3. CASE ReaderStep
    <2>1. /\ UNCHANGED <<closing, closed>>
          /\ pc'["reader"] = "r_wait" => ~Aborting /\ pendingReads' = <<>> /\ heartbeats' = {}
          /\ \A th \in Threads : pc'[th] \in {"c_closed", "c_closing"} => pc'[th] = pc[th]
      BY <1>3 DEF ReaderStep, ReaderTop, Receive, ReceiveFails, Dispatch, Deliver,
                  IndInv, TypeOK, Threads
    <2>2. ~Aborting => ~closed /\ \A th \in Threads : pc[th] \notin {"c_closed", "c_closing"}
      BY DEF Aborting, IndInv, OneTeardown, Teardown
    <2> QED BY <2>1, <2>2
  <1>4. CASE \E th \in Closers : StartClose(th)
    <2>1. /\ UNCHANGED <<pendingReads, heartbeats, closing, closed>>
          /\ pc'["reader"] = pc["reader"] /\ pc'["writer"] = pc["writer"]
          /\ \A th \in Threads : pc'[th] \in {"c_closed", "c_closing"} => pc'[th] = pc[th]
      BY <1>4 DEF StartClose, Goto, IndInv, TypeOK, Threads
    <2> QED BY <2>1
  <1>5. CASE \E th \in Threads : CloseStep(th)
    <2> PICK th \in Threads : CloseStep(th)
      BY <1>5
    <2>1. CASE CloseTest(th) \/ CloseClaim(th) \/ CloseSocket(th) \/ CloseWrite(th)
      <3>1. /\ UNCHANGED <<pendingReads, heartbeats, closed>> /\ (closing => closing')
            /\ pc'["reader"] = pc["reader"] \/ pc'["reader"] # "r_wait"
            /\ pc["writer"] = "w_wake" => pc'["writer"] = "w_wake"
            /\ \A o \in Threads : pc'[o] \in {"c_closed", "c_closing"} => pc'[o] = pc[o]
        BY <2>1 DEF CloseTest, CloseClaim, CloseSocket, CloseWrite, Goto, IndInv, TypeOK, Threads
      <3> QED BY <3>1
    <2>2. CASE CloseRead(th)
      <3>1. /\ UNCHANGED <<closed>> /\ pc'["reader"] # "r_wait"
            /\ \A o \in Threads : pc'[o] = "c_closing" => pc[o] = "c_closing"
        BY <2>2 DEF CloseRead, IndInv, TypeOK, Threads
      <3> QED BY <3>1
    <2>3. CASE CloseFlags(th)
      <3>1. /\ pc[th] \in {"c_closed", "c_closing"} /\ closed'
            /\ pc'["reader"] = pc["reader"] \/ pc'["reader"] # "r_wait"
        BY <2>3 DEF CloseFlags, Goto, IndInv, TypeOK, Threads
      <3> QED BY <3>1
    <2> QED BY <2>1, <2>2, <2>3 DEF CloseStep
  <1>6. CASE PeerStep
    BY <1>6 DEF PeerStep, PeerClose, PeerReply, PeerDrop
  <1> QED BY <1>1, <1>2, <1>3, <1>4, <1>5, <1>6 DEF Next

-----------------------------------------------------------------------------
(* The invariant, and the invariants it implies.                           *)

\* A connection that has just been made satisfies it.
LEMMA InitAnswers == Init => AnswerInv
  <1> USE ConnectionAssumption DEF ConnectionAssumption
  <1> SUFFICES ASSUME Init PROVE AnswerInv
    OBVIOUS
  <1>1. ToSet(<<>>) = {} /\ IsInjective(<<>>)
    BY DEF ToSet, IsInjective
  <1>2. /\ pc["writer"] = "w_top" /\ pc["reader"] = "r_top"
        /\ \A th \in Closers : pc[th] = "idle"
    BY DEF Init, Threads
  <1>3. /\ Frames = {} /\ OnTheWay = {} /\ InReader = {} /\ heartbeats = {}
        /\ ToSet(pendingReads) = {} /\ ToSet(poolingReads) = {} /\ ToSet(pendingWrites) = {}
        /\ wcur = 0 /\ idgen = 0
    BY <1>1, <1>2 DEF Init, Frames, OnTheWay, InReader
  <1>4. \A t \in Tids : ~Unsent(t) /\ t # 0
    BY <1>2, <1>3 DEF Unsent, Tids
  <1>5. (\A t \in Tids : rfut[t] = "none") /\ (\A c \in Clients : call[c] = "idle" /\ tid[c] = 0)
    BY DEF Init
  <1>6. "none" \notin Body
    BY DEF Body, Heartbeat
  <1>7. IdsAreFresh /\ IdsHaveOwners
    BY <1>3, <1>4, <1>5 DEF IdsAreFresh, IdsHaveOwners, HasCall
  <1>8. WritesOnce /\ FramesAreTrue /\ HeartbeatsAwaited
    BY <1>1, <1>2, <1>3, <1>4 DEF WritesOnce, FramesAreTrue, HeartbeatsAwaited, Init
  <1>9. ReadsListed /\ AnswersAreTrue
    BY <1>1, <1>3, <1>5, <1>6 DEF ReadsListed, AnswersAreTrue, Init
  <1>10. ReaderNotAsleep
    BY <1>2 DEF ReaderNotAsleep, ReaderAwakeForAnswers, Init, Threads
  <1> QED BY <1>7, <1>8, <1>9, <1>10 DEF AnswerInv

\* Every step keeps it.
LEMMA NextKeepsAnswers == IndInv /\ AnswerInv /\ [Next]_vars => AnswerInv'
  <1> SUFFICES ASSUME IndInv, AnswerInv, [Next]_vars PROVE AnswerInv'
    OBVIOUS
  <1>1. DataInv /\ ReaderNotAsleep
    BY DEF AnswerInv, DataInv
  <1>2. CASE Next
    <2>1. DataInv'
      BY <1>1, <1>2, AbortingStays, NextKeepsData
    <2>2. ReaderNotAsleep'
      BY <1>1, <1>2, ReaderStaysAwake
    <2> QED BY <2>1, <2>2 DEF AnswerInv, DataInv
  <1>3. CASE UNCHANGED vars
    BY <1>3 DEF vars, AnswerInv, IdsAreFresh, IdsHaveOwners, WritesOnce, FramesAreTrue,
                HeartbeatsAwaited, ReadsListed, AnswersAreTrue, ReaderNotAsleep,
                ReaderAwakeForAnswers, Frames, OnTheWay, InReader, Unsent, Aborting
  <1> QED BY <1>2, <1>3

\* Every reachable state of a connection satisfies it.
THEOREM AnswerInvariant == Spec => []AnswerInv
  BY InitAnswers, NextKeepsAnswers, InvariantHolds, PTL DEF Spec

\* What a caller was answered with is the answer to its own request.
LEMMA AnswersAreOwn == IndInv /\ AnswerInv => OwnAnswer
  BY DEF IndInv, ThreadsInPlace, AnswerInv, AnswersAreTrue, IdsHaveOwners, HasCall, OwnAnswer

\* Whatever the order in which answers come back, are pooled, kicked out or
\* dropped, a caller that invoke() answered holds the answer to its request.
THEOREM CallersGetTheirOwn == Spec => []OwnAnswer
  BY AnswersAreOwn, InvariantHolds, AnswerInvariant, PTL

\* _async_read pools an answer only while nobody waits for it: no future of
\* its id is pending, no pending read lists it, and it answers no heartbeat.
THEOREM PooledIsUnclaimed == Spec => []PooledUnclaimed
  <1>1. IndInv /\ AnswerInv => PooledUnclaimed
    <2> SUFFICES ASSUME IndInv, AnswerInv, NEW t \in ToSet(poolingReads)
                 PROVE  /\ t \notin ToSet(pendingReads) \cup heartbeats /\ pooled[t] \in Clients
                        /\ rfut[t] # "pending"
      BY DEF PooledUnclaimed
    <2>1. t \in Tids
      BY DEF IndInv, TypeOK, ToSet
    <2>2. pooled[t] = buff[t] /\ buff[t] # Heartbeat /\ t \notin ToSet(pendingReads)
      BY DEF AnswerInv, AnswersAreTrue
    <2>3. buff[t] \in Clients
      BY <2>1, <2>2 DEF IndInv, TypeOK, Body
    <2>4. t \notin heartbeats
      BY <2>2 DEF AnswerInv, IdsHaveOwners
    <2>5. rfut[t] # "pending"
      BY <2>1, <2>2 DEF IndInv, PendingFound
    <2> QED BY <2>2, <2>3, <2>4, <2>5
  <1> QED BY <1>1, InvariantHolds, AnswerInvariant, PTL

\* The reading thread never sleeps while an answer is due, unless the writer
\* is about to notify it or the connection is being closed.
THEOREM ReaderIsAwake == Spec => []ReaderAwakeForAnswers
  <1>1. AnswerInv => ReaderAwakeForAnswers
    BY DEF AnswerInv, ReaderNotAsleep
  <1> QED BY <1>1, AnswerInvariant, PTL

-----------------------------------------------------------------------------
(* What no step may do.                                                    *)

\* A frame leaves only for a write that nobody was told the outcome of: one
\* that expired, was aborted or was given up on by _close_write is never sent
\* afterwards, and none is sent twice.
THEOREM OnlyPendingIsSent == Spec => SentWhilePending
  <1>1. IndInv /\ AnswerInv /\ [Next]_vars =>
           [\A m \in requests' \ requests : wfut[m.tid] = "pending"]_vars
    <2> SUFFICES ASSUME IndInv, AnswerInv, Next, NEW m \in requests' \ requests
                 PROVE  wfut[m.tid] = "pending"
      OBVIOUS
    <2>1. CASE Transmit
      <3>1. pc["writer"] = "w_send" /\ m.tid = wcur /\ wcur \in Tids
        BY <2>1 DEF Transmit, IndInv, ThreadsInPlace, InHand
      <3> QED BY <3>1 DEF AnswerInv, WritesOnce, Unsent
    <2>2. CASE ~Transmit
      <3>1. requests' \subseteq requests
        <4>1. CASE \E c \in Clients : CallStep(c)
          BY <4>1 DEF CallStep, Write, AwaitWrite, Read, AwaitRead, GiveUp
        <4>2. CASE WriterStep
          BY <2>2, <4>2 DEF WriterStep, WriterTop, WriterTimer, WriterWoken,
                            WriterWakesReader, WriterMissing, Expire, WriteResult, SendFails
        <4>3. CASE ReaderStep
          BY <4>3 DEF ReaderStep, ReaderTop, Receive, ReceiveFails, Dispatch, Deliver
        <4>4. CASE \E th \in Threads : CloseStep(th)
          BY <4>4 DEF CloseStep, CloseTest, CloseClaim, CloseSocket, CloseWrite, CloseRead,
                      CloseFlags
        <4>5. CASE PeerStep \/ \E th \in Closers : StartClose(th)
          BY <4>5 DEF PeerStep, PeerClose, PeerReply, PeerDrop, StartClose
        <4> QED BY <4>1, <4>2, <4>3, <4>4, <4>5 DEF Next
      <3> QED BY <3>1
    <2> QED BY <2>1, <2>2
  <1> QED BY <1>1, InvariantHolds, AnswerInvariant, PTL DEF Spec, SentWhilePending

\* The id of a call is none of a heartbeat's, and none that is still to come.
LEMMA CallersId ==
    ASSUME IndInv, AnswerInv, NEW c \in Clients, call[c] \in HasCall
    PROVE  /\ tid[c] \in Tids /\ buff[tid[c]] = c /\ c # Heartbeat
           /\ tid[c] \notin heartbeats /\ tid[c] # idgen + 1
  <1>1. tid[c] \in Tids /\ buff[tid[c]] = c
    BY DEF HasCall, IndInv, ThreadsInPlace, AnswerInv, IdsHaveOwners
  <1>2. c # Heartbeat
    BY ConnectionAssumption DEF ConnectionAssumption
  <1>3. tid[c] <= idgen /\ idgen \in Nat /\ tid[c] \in Nat
    BY <1>1 DEF AnswerInv, IdsAreFresh, IndInv, TypeOK, Tids
  <1> QED BY <1>1, <1>2, <1>3 DEF AnswerInv, IdsHaveOwners

\* What a step does to the future of a caller's write: the writer and
\* _close_write resolve it while it is pending, nobody else touches it.
LEMMA WriteOfACall ==
    ASSUME IndInv, AnswerInv, Next, NEW c \in Clients, call[c] \in HasCall
    PROVE  \/ wfut'[tid[c]] = wfut[tid[c]]
           \/ /\ wfut[tid[c]] = "pending" /\ wfut'[tid[c]] # "ok"
              /\ wcur = tid[c] => pc["writer"] # "w_sent"
           \/ /\ wfut[tid[c]] = "pending" /\ WriteResult /\ wcur = tid[c]
  <1> USE ConnectionAssumption DEF ConnectionAssumption
  <1> DEFINE t == tid[c]
  <1>1. t \in Tids /\ buff[t] = c /\ c # Heartbeat /\ t \notin heartbeats /\ t # idgen + 1
    BY CallersId
  <1> HIDE DEF t
  <1>2. CASE UNCHANGED wfut
    BY <1>2
  <1>3. ASSUME NEW body, Queue(idgen + 1, body)
        PROVE  wfut'[t] = wfut[t]
    BY <1>1, <1>3 DEF Queue, IndInv, TypeOK
  <1>4. CASE Dispatch
    BY <1>1, <1>4 DEF Dispatch, IndInv, TypeOK, t
  <1>5. CASE Expire \/ SendFails
    <2>1. /\ pc["writer"] = "w_send" /\ wcur \in Tids
          /\ \E outcome \in {"timeout", "abort"} : wfut' = [wfut EXCEPT ![wcur] = outcome]
      BY <1>5 DEF Expire, SendFails, IndInv, ThreadsInPlace, InHand
    <2>2. wfut[wcur] = "pending"
      BY <2>1 DEF AnswerInv, WritesOnce, Unsent
    <2> QED BY <1>1, <2>1, <2>2 DEF IndInv, TypeOK, t
  <1>6. CASE WriteResult
    <2>1. /\ pc["writer"] = "w_sent" /\ wcur \in Tids
          /\ wfut' = [wfut EXCEPT ![wcur] = "ok"]
      BY <1>6 DEF WriteResult, IndInv, ThreadsInPlace, InHand
    <2>2. wfut[wcur] = "pending" \/ buff[wcur] = Heartbeat
      BY <2>1 DEF AnswerInv, WritesOnce
    <2> QED BY <1>1, <1>6, <2>1, <2>2 DEF IndInv, TypeOK, t
  <1>7. CASE \E th \in Threads : CloseWrite(th)
    <2>1. wfut'[t] = IF t \in ToSet(pendingWrites) THEN "abort" ELSE wfut[t]
      BY <1>1, <1>7 DEF CloseWrite
    <2>2. t \in ToSet(pendingWrites) => wfut[t] = "pending" /\ wcur # t
      BY <1>1 DEF AnswerInv, WritesOnce, Unsent
    <2> QED BY <2>1, <2>2 DEF t
  <1>8. \/ UNCHANGED wfut \/ (\E body : Queue(idgen + 1, body)) \/ Dispatch
        \/ Expire \/ SendFails \/ WriteResult \/ \E th \in Threads : CloseWrite(th)
    <2>1. CASE \E d \in Clients : CallStep(d)
      BY <2>1 DEF CallStep, Write, AwaitWrite, Read, AwaitRead, GiveUp
    <2>2. CASE WriterStep
      BY <2>2 DEF WriterStep, WriterTop, WriterTimer, WriterWoken, WriterWakesReader,
                  WriterMissing, Transmit
    <2>3. CASE ReaderStep
      BY <2>3 DEF ReaderStep, ReaderTop, Receive, ReceiveFails, Deliver
    <2>4. CASE \E th \in Threads : CloseStep(th)
      BY <2>4 DEF CloseStep, CloseTest, CloseClaim, CloseSocket, CloseRead, CloseFlags
    <2>5. CASE PeerStep \/ \E th \in Closers : StartClose(th)
      BY <2>5 DEF PeerStep, PeerClose, PeerReply, PeerDrop, StartClose
    <2> QED BY <2>1, <2>2, <2>3, <2>4, <2>5 DEF Next
  <1> QED BY <1>2, <1>3, <1>4, <1>5, <1>6, <1>7, <1>8 DEF t

\* What a step does to the future of a caller that is reading: it stays once
\* it is no longer pending.
LEMMA ReadOfACall ==
    ASSUME IndInv, AnswerInv, Next, NEW c \in Clients, call[c] = "reading",
           rfut[tid[c]] # "pending"
    PROVE  rfut'[tid[c]] = rfut[tid[c]]
  <1> USE ConnectionAssumption DEF ConnectionAssumption
  <1> DEFINE t == tid[c]
  <1>1. t \in Tids /\ call[c] \in HasCall /\ rfut[t] # "pending"
    BY DEF HasCall, IndInv, ThreadsInPlace
  <1>2. t \in ToSet(pendingReads) => rfut[t] = "abort" /\ Aborting
    BY <1>1 DEF AnswerInv, ReadsListed
  <1> HIDE DEF t
  <1>3. CASE UNCHANGED rfut
    BY <1>3 DEF t
  <1>4. ASSUME NEW d \in Clients, Read(d), ~Aborting, ReadEarlyAnswer(tid[d]) \/ ReadPending(tid[d])
        PROVE  rfut'[t] = rfut[t]
    <2>1. call[d] = "sent"
      BY <1>4 DEF Read
    <2>2. tid[d] # t
      BY <1>1, <2>1, OneOwner DEF AnswerInv, HasCall, t
    <2>3. CASE ReadEarlyAnswer(tid[d])
      BY <1>1, <2>2, <2>3 DEF ReadEarlyAnswer, IndInv, TypeOK
    <2>4. CASE ReadPending(tid[d])
      <3>1. tid[d] \in Tids /\ ~Hit(pendingReads, tid[d])
        BY <2>1 DEF IndInv, ThreadsInPlace, AnswerInv, ReadsListed, Hit
      <3>2. KicksOut(pendingReads, MaxPendingReads) => Oldest(pendingReads) \in ToSet(pendingReads)
        BY <3>1, SetForgets DEF IndInv, TypeOK, AnswerInv, ReadsListed, Hit
      <3> QED BY <1>1, <1>2, <1>4, <2>2, <2>4, <3>2 DEF ReadPending
    <2> QED BY <1>4, <2>3, <2>4
  <1>5. CASE Deliver
    <2>1. rfut' = rfut \/ (~Aborting /\ Hand(rbuf.tid, rbuf.body))
      BY <1>5 DEF Deliver, Pool
    <2> QED BY <1>1, <1>2, <2>1 DEF Hand, Hit, IndInv, TypeOK, t
  <1>6. CASE \E th \in Threads : CloseRead(th)
    BY <1>1, <1>2, <1>6 DEF CloseRead, t
  <1>7. \/ UNCHANGED rfut \/ Deliver \/ \E th \in Threads : CloseRead(th)
        \/ \E d \in Clients : Read(d) /\ ~Aborting
                              /\ (ReadEarlyAnswer(tid[d]) \/ ReadPending(tid[d]))
    <2>1. CASE \E d \in Clients : CallStep(d)
      BY <2>1 DEF CallStep, Write, AwaitWrite, Read, AwaitRead, GiveUp
    <2>2. CASE WriterStep
      BY <2>2 DEF WriterStep, WriterTop, WriterTimer, WriterWoken, WriterWakesReader,
                  WriterMissing, Expire, Transmit, WriteResult, SendFails
    <2>3. CASE ReaderStep
      BY <2>3 DEF ReaderStep, ReaderTop, Receive, ReceiveFails, Dispatch
    <2>4. CASE \E th \in Threads : CloseStep(th)
      BY <2>4 DEF CloseStep, CloseTest, CloseClaim, CloseSocket, CloseWrite, CloseFlags
    <2>5. CASE PeerStep \/ \E th \in Closers : StartClose(th)
      BY <2>5 DEF PeerStep, PeerClose, PeerReply, PeerDrop, StartClose
    <2> QED BY <2>1, <2>2, <2>3, <2>4, <2>5 DEF Next
  <1> QED BY <1>3, <1>4, <1>5, <1>6, <1>7 DEF t

\* The outcome a caller waits for is decided once: although set_result() and
\* set_exception() may be called again on a future, no step that comes later
\* replaces the outcome of a write or a read that somebody holds.
THEOREM OutcomeIsFinal == Spec => HeldFutureFinal
  <1> DEFINE Kept == \A c \in Clients :
                /\ call[c] = "writing" /\ wfut[tid[c]] # "pending"
                      => wfut'[tid[c]] = wfut[tid[c]]
                /\ call[c] = "reading" /\ rfut[tid[c]] # "pending"
                      => rfut'[tid[c]] = rfut[tid[c]]
  <1>1. IndInv /\ AnswerInv /\ [Next]_vars => [Kept]_vars
    BY WriteOfACall, ReadOfACall DEF HasCall
  <1> QED BY <1>1, InvariantHolds, AnswerInvariant, PTL DEF Spec, HeldFutureFinal

-----------------------------------------------------------------------------
(* The connection implements RpcCalls.                                     *)

\* The write of a call went through, whether its caller noticed or not.
Departed(c) == wfut[tid[c]] = "ok" \/ (wcur = tid[c] /\ pc["writer"] = "w_sent")

Phase  == [c \in Clients |-> CallPhase(c)]
Result == [c \in Clients |-> IF call[c] = "answered" THEN rfut[tid[c]] ELSE "none"]

\* A call that a step leaves alone.
LeftAlone(c) ==
    /\ call'[c] = call[c]
    /\ call[c] = "writing" => (Departed(c)' <=> Departed(c))

\* Where a call is, from the future of its write.
LEMMA PhaseOfACall ==
    ASSUME NEW c \in Clients, call[c] \in CallStates
    PROVE  /\ call[c] = "writing" => CallPhase(c) = IF Departed(c) THEN "sent" ELSE "queued"
           /\ call[c] \in {"sent", "reading"} => CallPhase(c) = "sent"
           /\ call[c] \in {"idle", "answered", "failed"} => CallPhase(c) = call[c]
  BY DEF CallPhase, Departed, CallStates

\* One call moves at a time: the others are where they were, with the answers
\* they had, which are their own.
LEMMA OneCallMoves ==
    ASSUME IndInv, IndInv', OwnAnswer, OwnAnswer', NEW c \in Clients,
           \A d \in Clients : d # c => LeftAlone(d)
    PROVE  /\ Phase' = [Phase EXCEPT ![c] = CallPhase(c)']
           /\ Result' = [Result EXCEPT ![c] = IF call'[c] = "answered" THEN c ELSE "none"]
           /\ Result[c] = IF call[c] = "answered" THEN c ELSE "none"
  <1>1. \A d \in Clients : call[d] \in CallStates /\ call'[d] \in CallStates
    BY DEF IndInv, TypeOK
  <1>2. \A d \in Clients : d # c => CallPhase(d)' = CallPhase(d)
    BY <1>1, PhaseOfACall DEF LeftAlone, CallPhase, Departed, CallStates
  <1>3. /\ \A d \in Clients : Result[d] = IF call[d] = "answered" THEN d ELSE "none"
        /\ \A d \in Clients : Result'[d] = IF call'[d] = "answered" THEN d ELSE "none"
    BY DEF OwnAnswer, Result
  <1>4. Phase' = [Phase EXCEPT ![c] = CallPhase(c)']
    BY <1>2 DEF Phase
  <1>5. Result' = [Result EXCEPT ![c] = IF call'[c] = "answered" THEN c ELSE "none"]
    BY <1>3 DEF Result, LeftAlone
  <1> QED BY <1>3, <1>4, <1>5

\* No call moves.
LEMMA NoCallMoves ==
    ASSUME IndInv, IndInv', OwnAnswer, OwnAnswer', \A d \in Clients : LeftAlone(d)
    PROVE  Phase' = Phase /\ Result' = Result
  <1>1. \A d \in Clients : call[d] \in CallStates /\ call'[d] \in CallStates
    BY DEF IndInv, TypeOK
  <1>2. \A d \in Clients : CallPhase(d)' = CallPhase(d)
    BY <1>1, PhaseOfACall DEF LeftAlone, CallPhase, Departed, CallStates
  <1>3. Phase' = Phase
    BY <1>2 DEF Phase
  <1>4. Result' = Result
    BY DEF OwnAnswer, Result, LeftAlone
  <1> QED BY <1>3, <1>4

\* Steps that change no caller's state leave every call alone, but for the
\* one whose request leaves.
LEMMA OthersLeaveCallsAlone ==
    ASSUME IndInv, AnswerInv, Next, UNCHANGED callVars, NEW d \in Clients,
           ~(Transmit /\ wcur = tid[d])
    PROVE  LeftAlone(d)
  <1> SUFFICES ASSUME call[d] = "writing"
               PROVE  Departed(d)' <=> Departed(d)
    BY DEF LeftAlone
  <1> DEFINE t == tid[d]
  <1>0. call[d] \in HasCall /\ t' = t
    BY DEF HasCall
  <1>1. t \in Tids /\ buff[t] = d /\ t \notin heartbeats /\ d # Heartbeat
    BY <1>0, CallersId
  <1>2. \/ wfut'[t] = wfut[t]
        \/ /\ wfut[t] = "pending" /\ wfut'[t] # "ok"
           /\ wcur = t => pc["writer"] # "w_sent"
        \/ /\ wfut[t] = "pending" /\ WriteResult /\ wcur = t
    BY <1>0, WriteOfACall
  <1>3. CASE WriteResult
    <2>1. /\ pc["writer"] = "w_sent" /\ pc'["writer"] = "w_top"
          /\ wcur \in Tids /\ wfut' = [wfut EXCEPT ![wcur] = "ok"]
      BY <1>3 DEF WriteResult, IndInv, TypeOK, Threads, ThreadsInPlace, InHand
    <2>2. wfut'[t] = IF t = wcur THEN "ok" ELSE wfut[t]
      BY <1>1, <2>1 DEF IndInv, TypeOK
    <2> QED BY <1>0, <2>1, <2>2 DEF Departed
  <1>4. CASE ~WriteResult
    <2>1. (wcur' = t /\ pc'["writer"] = "w_sent") <=> (wcur = t /\ pc["writer"] = "w_sent")
      <3>1. CASE Transmit
        BY <3>1 DEF Transmit, IndInv, TypeOK, Threads
      <3>2. CASE WriterStep /\ ~Transmit
        BY <1>4, <3>2 DEF WriterStep, WriterTop, WriterTimer, WriterWoken, WriterWakesReader,
                          WriterMissing, Expire, SendFails, IndInv, TypeOK, Threads
      <3>3. CASE \E c \in Clients : CallStep(c)
        BY <3>3 DEF CallStep, Write, AwaitWrite, Read, ReadEarlyAnswer, ReadPending, AwaitRead,
                    GiveUp, Notify, IndInv, TypeOK, Threads
      <3>4. CASE ReaderStep
        BY <3>4 DEF ReaderStep, ReaderTop, Receive, ReceiveFails, Dispatch, Deliver,
                    IndInv, TypeOK, Threads
      <3>5. CASE \E th \in Threads : CloseStep(th)
        BY <3>5 DEF CloseStep, CloseTest, CloseClaim, CloseSocket, CloseWrite, CloseRead,
                    CloseFlags, Goto, IndInv, TypeOK, Threads
      <3>6. CASE \E th \in Closers : StartClose(th)
        BY <3>6, ConnectionAssumption
           DEF ConnectionAssumption, StartClose, Goto, IndInv, TypeOK, Threads
      <3>7. CASE PeerStep
        BY <3>7 DEF PeerStep, PeerClose, PeerReply, PeerDrop
      <3> QED BY <3>1, <3>2, <3>3, <3>4, <3>5, <3>6, <3>7 DEF Next
    <2>2. (wfut'[t] = "ok") <=> (wfut[t] = "ok")
      BY <1>2, <1>4
    <2> QED BY <1>0, <2>1, <2>2 DEF Departed
  <1> QED BY <1>3, <1>4

\* The steps of one caller leave the calls of the others alone.
LEMMA CallersLeaveOthersAlone ==
    ASSUME IndInv, AnswerInv, NEW c \in Clients, CallStep(c), NEW d \in Clients, d # c
    PROVE  LeftAlone(d)
  <1> USE ConnectionAssumption DEF ConnectionAssumption
  <1>1. call'[d] = call[d] /\ tid'[d] = tid[d] /\ wcur' = wcur
        /\ (pc'["writer"] = "w_sent" <=> pc["writer"] = "w_sent")
    BY DEF CallStep, Write, AwaitWrite, Read, ReadEarlyAnswer, ReadPending, AwaitRead,
           GiveUp, Notify, IndInv, TypeOK, Threads
  <1>2. ASSUME call[d] = "writing"
        PROVE  wfut'[tid[d]] = wfut[tid[d]]
    <2>1. tid[d] \in Tids /\ tid[d] # idgen + 1
      BY <1>2, CallersId DEF HasCall
    <2>2. UNCHANGED wfut \/ Queue(idgen + 1, c)
      BY DEF CallStep, Write, AwaitWrite, Read, AwaitRead, GiveUp
    <2> QED BY <2>1, <2>2 DEF Queue, IndInv, TypeOK
  <1> QED BY <1>1, <1>2 DEF LeftAlone, Departed

\* The same of the state after a step.
LEMMA AnswersStayOwn == IndInv' /\ AnswerInv' => OwnAnswer'
  BY AnswersAreOwn, PTL

\* A step of a caller is a step of its call, or none.
LEMMA CallStepMaps ==
    ASSUME IndInv, AnswerInv, IndInv', AnswerInv', NEW c \in Clients, CallStep(c)
    PROVE  [Calls!Next]_Calls!vars
  <1> USE ConnectionAssumption DEF ConnectionAssumption
  <1>1. OwnAnswer /\ OwnAnswer'
    BY AnswersAreOwn, AnswersStayOwn
  <1>2. /\ Phase' = [Phase EXCEPT ![c] = CallPhase(c)']
        /\ Result' = [Result EXCEPT ![c] = IF call'[c] = "answered" THEN c ELSE "none"]
        /\ Result[c] = IF call[c] = "answered" THEN c ELSE "none"
    BY <1>1, CallersLeaveOthersAlone, OneCallMoves
  <1>3. UNCHANGED <<closing, closed>>
    BY DEF CallStep, Write, AwaitWrite, Read, AwaitRead, GiveUp
  <1>4. call[c] \in CallStates /\ call'[c] \in CallStates /\ Phase[c] = CallPhase(c)
    BY DEF IndInv, TypeOK, Phase
  <1>5. Result \in [Clients -> {Result[d] : d \in Clients}] /\ Phase \in [Clients -> {Phase[d] : d \in Clients}]
    BY DEF Result, Phase
  <1>6. call'[c] # "answered" /\ call[c] # "answered" => Result' = Result
    BY <1>2, <1>5
  <1>7. CASE call'[c] = "failed" /\ call[c] \in {"idle", "writing", "sent", "reading"}
    <2>1. CallPhase(c)' = "failed"
      BY <1>7 DEF CallPhase
    <2>2. CallPhase(c) \in {"idle", "queued", "sent"}
      BY <1>4, <1>7, PhaseOfACall
    <2>3. Calls!Fail(c)
      BY <1>2, <1>3, <1>4, <1>6, <1>7, <2>1, <2>2 DEF Calls!Fail, Calls!Move, Phase, Result
    <2> QED BY <2>3 DEF Calls!Next
  <1>8. CASE Write(c) /\ call'[c] = "writing"
    <2>1. /\ ~Aborting /\ call[c] = "idle" /\ Queue(idgen + 1, c) /\ tid'[c] = idgen + 1
          /\ idgen < MaxTid /\ wcur' = wcur
      BY <1>8 DEF Write, IndInv, TypeOK
    <2>2. idgen + 1 \in Tids /\ wcur # idgen + 1 /\ wfut'[idgen + 1] = "pending"
      BY <2>1 DEF Queue, IndInv, TypeOK, Tids, AnswerInv, IdsAreFresh
    <2>3. ~Departed(c)'
      BY <2>1, <2>2 DEF Departed
    <2>4. CallPhase(c)' = "queued"
      BY <1>8, <2>3 DEF CallPhase, Departed
    <2>5. CallPhase(c) = "idle"
      BY <2>1 DEF CallPhase
    <2>6. Calls!Enqueue(c)
      BY <1>2, <1>3, <1>4, <1>6, <1>8, <2>1, <2>4, <2>5
         DEF Calls!Enqueue, Calls!Move, Phase, Result, Aborting
    <2> QED BY <2>6 DEF Calls!Next
  <1>9. CASE AwaitWrite(c) /\ call'[c] = "sent"
    <2>1. call[c] = "writing" /\ wfut[tid[c]] = "ok"
      BY <1>9 DEF AwaitWrite, IndInv, TypeOK
    <2>2. CallPhase(c) = "sent" /\ CallPhase(c)' = "sent"
      BY <1>9, <2>1 DEF CallPhase
    <2>3. Phase' = Phase /\ Result' = Result
      BY <1>2, <1>4, <1>5, <1>6, <1>9, <2>1, <2>2
    <2> QED BY <1>3, <2>3 DEF Calls!vars, Phase, Result
  <1>10. CASE Read(c) /\ call'[c] = "reading"
    <2>1. call[c] = "sent"
      BY <1>10 DEF Read
    <2>2. CallPhase(c) = "sent" /\ CallPhase(c)' = "sent"
      BY <1>10, <2>1 DEF CallPhase
    <2>3. Phase' = Phase /\ Result' = Result
      BY <1>2, <1>4, <1>5, <1>6, <1>10, <2>1, <2>2
    <2> QED BY <1>3, <2>3 DEF Calls!vars, Phase, Result
  <1>11. CASE AwaitRead(c) /\ call'[c] = "answered"
    <2>1. call[c] = "reading"
      BY <1>11 DEF AwaitRead
    <2>2. CallPhase(c) = "sent" /\ CallPhase(c)' = "answered"
      BY <1>11, <2>1 DEF CallPhase
    <2>3. Calls!Answer(c)
      BY <1>2, <1>3, <1>4, <1>11, <2>2 DEF Calls!Answer, Calls!Move, Phase, Result
    <2> QED BY <2>3 DEF Calls!Next
  <1>12. \/ call'[c] = "failed" /\ call[c] \in {"idle", "writing", "sent", "reading"}
         \/ Write(c) /\ call'[c] = "writing"
         \/ AwaitWrite(c) /\ call'[c] = "sent"
         \/ Read(c) /\ call'[c] = "reading"
         \/ AwaitRead(c) /\ call'[c] = "answered"
    BY SMTT(30) DEF CallStep, Write, AwaitWrite, Read, AwaitRead, GiveUp, IndInv, TypeOK
  <1> QED BY <1>7, <1>8, <1>9, <1>10, <1>11, <1>12

\* The transmission of a request is Send for the call whose request it is.
LEMMA TransmitMaps ==
    ASSUME IndInv, AnswerInv, IndInv', AnswerInv', Next, Transmit
    PROVE  [Calls!Next]_Calls!vars
  <1>1. OwnAnswer /\ OwnAnswer'
    BY AnswersAreOwn, AnswersStayOwn
  <1>2. /\ pc["writer"] = "w_send" /\ pc'["writer"] = "w_sent" /\ wcur \in Tids
        /\ UNCHANGED <<call, tid, wfut, wcur, closing, closed>>
    BY DEF Transmit, IndInv, TypeOK, Threads, ThreadsInPlace, InHand
  <1>3. CASE \A d \in Clients : call[d] = "writing" => tid[d] # wcur
    <2>1. \A d \in Clients : LeftAlone(d)
      BY <1>2, <1>3, OthersLeaveCallsAlone DEF LeftAlone
    <2>2. Phase' = Phase /\ Result' = Result
      BY <1>1, <2>1, NoCallMoves
    <2> QED BY <1>2, <2>2 DEF Calls!vars, Phase, Result
  <1>4. ASSUME NEW c \in Clients, call[c] = "writing", tid[c] = wcur
        PROVE  [Calls!Next]_Calls!vars
    <2>1. \A d \in Clients : d # c => LeftAlone(d)
      <3> SUFFICES ASSUME NEW d \in Clients, d # c
                   PROVE  LeftAlone(d)
        OBVIOUS
      <3>1. call[d] = "writing" => tid[d] # wcur
        BY <1>4, OneOwner DEF AnswerInv, HasCall
      <3> QED BY <1>2, <3>1, OthersLeaveCallsAlone DEF LeftAlone
    <2>2. /\ Phase' = [Phase EXCEPT ![c] = CallPhase(c)']
          /\ Result' = [Result EXCEPT ![c] = IF call'[c] = "answered" THEN c ELSE "none"]
          /\ Result[c] = IF call[c] = "answered" THEN c ELSE "none"
      BY <1>1, <2>1, OneCallMoves
    <2>3. wfut[wcur] = "pending"
      BY <1>2 DEF AnswerInv, WritesOnce, Unsent
    <2>4. CallPhase(c) = "queued" /\ CallPhase(c)' = "sent"
      BY <1>2, <1>4, <2>3 DEF CallPhase
    <2>5. Result' = Result
      BY <1>2, <1>4, <2>2 DEF Result
    <2>6. Calls!Send(c)
      BY <1>2, <2>2, <2>4, <2>5 DEF Calls!Send, Calls!Move, Phase, Result
    <2> QED BY <2>6 DEF Calls!Next
  <1> QED BY <1>3, <1>4

\* The flags of a connection only close it.
LEMMA FlagsMap ==
    ASSUME IndInv, AnswerInv, Next
    PROVE  \/ Aborting' = Aborting
           \/ ~Aborting /\ Aborting' /\ UNCHANGED callVars /\ ~Transmit
  <1>1. CASE \E th \in Threads : CloseClaim(th)
    BY <1>1 DEF CloseClaim, Aborting, Transmit, Goto, IndInv, TypeOK
  <1>2. CASE \E th \in Threads : CloseFlags(th)
    <2>1. Aborting
      BY <1>2 DEF CloseFlags, Goto, Aborting, IndInv, OneTeardown, Teardown
    <2> QED BY <2>1, AbortingStays DEF AnswerInv, Aborting
  <1>3. CASE UNCHANGED <<closing, closed>>
    BY <1>3 DEF Aborting
  <1>4. \/ UNCHANGED <<closing, closed>>
        \/ \E th \in Threads : CloseClaim(th) \/ CloseFlags(th)
    <2>1. CASE \E d \in Clients : CallStep(d)
      BY <2>1 DEF CallStep, Write, AwaitWrite, Read, AwaitRead, GiveUp
    <2>2. CASE WriterStep
      BY <2>2 DEF WriterStep, WriterTop, WriterTimer, WriterWoken, WriterWakesReader,
                  WriterMissing, Expire, Transmit, WriteResult, SendFails
    <2>3. CASE ReaderStep
      BY <2>3 DEF ReaderStep, ReaderTop, Receive, ReceiveFails, Dispatch, Deliver
    <2>4. CASE \E th \in Threads : CloseStep(th)
      BY <2>4 DEF CloseStep, CloseTest, CloseSocket, CloseWrite, CloseRead
    <2>5. CASE PeerStep \/ \E th \in Closers : StartClose(th)
      BY <2>5 DEF PeerStep, PeerClose, PeerReply, PeerDrop, StartClose
    <2> QED BY <2>1, <2>2, <2>3, <2>4, <2>5 DEF Next
  <1> QED BY <1>1, <1>2, <1>3, <1>4

\* Every step of the connection is a step of RpcCalls, or none.
LEMMA NextMaps ==
    ASSUME IndInv, AnswerInv, IndInv', AnswerInv', [Next]_vars
    PROVE  [Calls!Next]_Calls!vars
  <1>1. CASE UNCHANGED vars
    BY <1>1 DEF vars, Calls!vars, CallPhase
  <1>2. CASE Next /\ \E c \in Clients : CallStep(c)
    BY <1>2, CallStepMaps
  <1>3. CASE Next /\ Transmit
    BY <1>3, TransmitMaps
  <1>4. CASE Next /\ ~(\E c \in Clients : CallStep(c)) /\ ~Transmit
    <2>1. UNCHANGED callVars
      <3>1. CASE WriterStep
        BY <3>1 DEF WriterStep, WriterTop, WriterTimer, WriterWoken, WriterWakesReader,
                    WriterMissing, Expire, Transmit, WriteResult, SendFails
      <3>2. CASE ReaderStep
        BY <3>2 DEF ReaderStep, ReaderTop, Receive, ReceiveFails, Dispatch, Deliver
      <3>3. CASE \E th \in Threads : CloseStep(th)
        BY <3>3 DEF CloseStep, CloseTest, CloseClaim, CloseSocket, CloseWrite, CloseRead,
                    CloseFlags
      <3>4. CASE PeerStep \/ \E th \in Closers : StartClose(th)
        BY <3>4 DEF PeerStep, PeerClose, PeerReply, PeerDrop, StartClose
      <3> QED BY <1>4, <3>1, <3>2, <3>3, <3>4 DEF Next
    <2>2. \A d \in Clients : LeftAlone(d)
      BY <1>4, <2>1, OthersLeaveCallsAlone
    <2>3. Phase' = Phase /\ Result' = Result
      BY <2>2, AnswersAreOwn, AnswersStayOwn, NoCallMoves
    <2>4. CASE Aborting' = Aborting
      BY <2>3, <2>4 DEF Calls!vars, Phase, Result, Aborting
    <2>5. CASE ~Aborting /\ Aborting'
      <3>1. Calls!Close
        BY <2>3, <2>5 DEF Calls!Close, Phase, Result, Aborting
      <3> QED BY <3>1 DEF Calls!Next
    <2> QED BY <1>4, <2>4, <2>5, FlagsMap
  <1> QED BY <1>1, <1>2, <1>3, <1>4

\* The connection implements the calls of RpcCalls: a call is queued only
\* while the connection is open, leaves at most once and after it was queued,
\* is answered only after it left and with its own answer, or fails; and a
\* connection that closes never opens again.
THEOREM CallsAreImplemented == Spec => ImplementsCalls
  <1>1. Init => Calls!Init
    <2> SUFFICES ASSUME Init PROVE Calls!Init
      OBVIOUS
    <2>1. \A c \in Clients : CallPhase(c) = "idle" /\ call[c] # "answered"
      BY DEF Init, CallPhase
    <2> QED BY <2>1 DEF Init, Calls!Init, Calls!Unanswered
  <1>2. IndInv /\ AnswerInv /\ IndInv' /\ AnswerInv' /\ [Next]_vars => [Calls!Next]_Calls!vars
    BY NextMaps
  <1> QED BY <1>1, <1>2, InvariantHolds, AnswerInvariant, PTL
          DEF Spec, ImplementsCalls, Calls!Spec
=============================================================================
