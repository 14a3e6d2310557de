---------------------------- MODULE SimpleClient ----------------------------
(***************************************************************************)
(* A call from Refer down to the socket, over the other connection class:  *)
(* a remote chosen by the cluster, a connection taken from a dedicated     *)
(* pool with connections_per_key = 1, and a SimpleBlockingConnection that  *)
(* writes and reads on the caller's thread.  A frame is received as its    *)
(* length, its transaction id and its body, one read_bytes each.           *)
(***************************************************************************)
EXTENDS Naturals, Sequences

CONSTANTS Callers, Remotes,
          MaxInt,  \* sys.maxint of AtomicInteger
          MaxWire  \* the largest transaction id that struct packs into "!I"

ASSUME SimpleAssumption == MaxInt \in Nat \ {0} /\ MaxWire \in 0..MaxInt

VARIABLES
    up,    \* the servers that listen
    slot,  \* the pool's queue for each remote
    conn,  \* the connection made last for each remote
    caller \* where each caller is, for which remote, with which id, and what
           \* it received of its answer

clientVars == <<up, slot, conn, caller>>

WireId == 0..MaxWire
Part   == [of : WireId, n : 1..3]

\* peer: the far end stands; owed: requests it has; wire: what it has sent.
Fresh == [closed |-> FALSE, id |-> 0, peer |-> TRUE, owed |-> {}, wire |-> <<>>]

Outside == [at |-> "out", to |-> "none", tid |-> 0, got |-> <<>>]

ClientInit ==
    /\ up = {}
    /\ slot = [r \in Remotes |-> "unmade"]
    /\ conn = [r \in Remotes |-> Fresh]
    /\ caller = [c \in Callers |-> Outside]

At(c, place) == caller[c].at = place
To(c) == caller[c].to
Held(c) == conn[To(c)]
Moves(c, place) == caller' = [caller EXCEPT ![c].at = place]

-----------------------------------------------------------------------------
(* The servers.                                                            *)

ServerStarts(r) == r \notin up /\ up' = up \cup {r} /\ UNCHANGED <<slot, conn, caller>>

\* Its connections end with it, or it hangs up on one that is idle.
ServerEnds(r) ==
    /\ conn[r].peer /\ ~conn[r].closed /\ slot[r] # "unmade"
    /\ up' \in {up, up \ {r}}
    /\ conn' = [conn EXCEPT ![r].peer = FALSE, ![r].owed = {}]
    /\ UNCHANGED <<slot, caller>>

ServerAnswers(r) ==
    /\ \E t \in conn[r].owed :
          conn' = [conn EXCEPT ![r].owed = @ \ {t},
                               ![r].wire = @ \o [n \in 1..3 |-> [of |-> t, n |-> n]]]
    /\ UNCHANGED <<up, slot, caller>>

-----------------------------------------------------------------------------
(* A call.                                                                 *)

\* _dynamic_proxy: the cluster picks one of the remotes that the registry knows,
\* which may be any, up or not, and the filters and dumps() let the request
\* through; where there is no remote, or one of these raises, nothing happened.
Calls(c, r) ==
    /\ At(c, "out")
    /\ caller' = [caller EXCEPT ![c].at = "get", ![c].to = r]
    /\ UNCHANGED <<up, slot, conn>>

\* _connection_factory: a socket that connects, or an error.
Connects(r) == r \in up /\ conn' = [conn EXCEPT ![r] = Fresh]

\* The first connection to a remote, made under the lock of the pool.
Makes(c) ==
    /\ At(c, "get") /\ slot[To(c)] = "unmade"
    /\ \/ /\ Connects(To(c))
          /\ slot' = [slot EXCEPT ![To(c)] = "idle"]
          /\ UNCHANGED caller
       \/ /\ caller' = [caller EXCEPT ![c] = Outside]
          /\ UNCHANGED <<slot, conn>>
    /\ UNCHANGED up

Takes(c) ==
    /\ At(c, "get") /\ slot[To(c)] = "idle"
    /\ slot' = [slot EXCEPT ![To(c)] = "taken"]
    /\ Moves(c, IF Held(c).closed THEN "replace" ELSE "write")
    /\ UNCHANGED <<up, conn>>

\* The closed connection is thrown away; what replaces it goes into the queue,
\* from which any caller may take it, or the factory raises and nothing does.
Replaces(c) ==
    /\ At(c, "replace")
    /\ \/ /\ Connects(To(c))
          /\ slot' = [slot EXCEPT ![To(c)] = "idle"]
          /\ Moves(c, "get")
       \/ /\ slot' = [slot EXCEPT ![To(c)] = "empty"]
          /\ caller' = [caller EXCEPT ![c] = Outside]
          /\ UNCHANGED conn
    /\ UNCHANGED up

\* The end of invoke's with: the connection goes back as it is.
Returns(c) ==
    /\ slot' = [slot EXCEPT ![To(c)] = "idle"]
    /\ caller' = [caller EXCEPT ![c] = Outside]

\* close(): what is under way is lost with the socket.
Closed(connection) == [connection EXCEPT !.closed = TRUE, !.owed = {}, !.wire = <<>>]

\* AtomicInteger.increase
Increase(i) == IF MaxInt - i - 1 >= 0 THEN i + 1 ELSE 0

\* write(): the id does not fit and struct raises; or the request is sent, for
\* all this side knows; or send() raises.
Writes(c) ==
    LET id      == Increase(Held(c).id)
        counted == [Held(c) EXCEPT !.id = id]
    IN  /\ At(c, "write")
        /\ \/ /\ id > MaxWire
              /\ conn' = [conn EXCEPT ![To(c)] = counted]
              /\ Returns(c)
           \/ /\ id <= MaxWire
              /\ conn' = [conn EXCEPT ![To(c)] =
                            [counted EXCEPT !.owed = IF counted.peer THEN @ \cup {id} ELSE @]]
              /\ caller' = [caller EXCEPT ![c].at = "read", ![c].tid = id]
              /\ UNCHANGED slot
           \/ /\ id <= MaxWire
              /\ conn' = [conn EXCEPT ![To(c)] = Closed(counted)]
              /\ Returns(c)
        /\ UNCHANGED up

\* read_bytes gets the next part of the answer; the last one ends read().
Reads(c) ==
    LET rest == [Held(c) EXCEPT !.wire = Tail(@)]
        got  == Append(caller[c].got, Head(Held(c).wire))
    IN  /\ At(c, "read") /\ Held(c).wire # <<>>
        /\ \/ /\ Len(got) < 3
              /\ caller' = [caller EXCEPT ![c].got = got]
              /\ conn' = [conn EXCEPT ![To(c)] = rest]
              /\ UNCHANGED slot
           \/ /\ Len(got) = 3
              /\ conn' = [conn EXCEPT ![To(c)] =
                            IF got[2].of = caller[c].tid THEN rest ELSE Closed(rest)]
              /\ Returns(c)
        /\ UNCHANGED up

ReadFails_LeftOpen(c) ==
    /\ At(c, "read")
    /\ Returns(c)
    /\ UNCHANGED <<up, conn>>

ReadFails_TimeoutIgnored(c) ==
    /\ At(c, "read") /\ ~Held(c).peer
    /\ conn' = [conn EXCEPT ![To(c)] = Closed(@)]
    /\ Returns(c)
    /\ UNCHANGED up

\* The next bytes do not come in time, or the connection has ended.
ReadFails(c) ==
    /\ At(c, "read")
    /\ conn' = [conn EXCEPT ![To(c)] = Closed(@)]
    /\ Returns(c)
    /\ UNCHANGED up

-----------------------------------------------------------------------------
\* What a caller that holds a connection does.
Holds(c) == Replaces(c) \/ Writes(c) \/ Reads(c) \/ ReadFails(c)

ClientNext ==
    \/ \E r \in Remotes :
          ServerStarts(r) \/ ServerEnds(r) \/ ServerAnswers(r)
    \/ \E c \in Callers :
          (\E r \in Remotes : Calls(c, r)) \/ Makes(c) \/ Takes(c) \/ Holds(c)

\* The threads go on; client_socket_timeout ends what would block them.
ClientFairness == \A c \in Callers : WF_clientVars(Holds(c))

ClientSpec == ClientInit /\ [][ClientNext]_clientVars /\ ClientFairness

\* An open connection carries nothing but what belongs to the call of the one
\* caller that reads from it, and starts where that caller is: whatever failed
\* before, no answer to one call is left in the way of the next.
NothingLeftOver ==
    \A r \in Remotes :
        LET users == {c \in Callers : At(c, "read") /\ To(c) = r}
            mine(c) == caller[c].tid
        IN  slot[r] # "unmade" /\ ~conn[r].closed =>
              /\ users = {} => conn[r].owed = {} /\ conn[r].wire = <<>>
              /\ \A c \in users :
                    /\ conn[r].owed \subseteq {mine(c)}
                    /\ \A i \in DOMAIN conn[r].wire :
                          conn[r].wire[i] = [of |-> mine(c), n |-> Len(caller[c].got) + i]

\* A connection that was taken is given back, or was closed and could not be
\* replaced: neither a silent server nor one that is gone keeps its caller.
ConnectionReturns ==
    \A r \in Remotes : slot[r] = "taken" ~> slot[r] \in {"idle", "empty"}

-----------------------------------------------------------------------------
(* Why NothingLeftOver holds: a connection has one user at a time, and what *)
(* it carries is either a request or the rest of its answer.               *)

Link == [closed : BOOLEAN, id : 0..MaxInt, peer : BOOLEAN, owed : SUBSET WireId,
         wire : Seq(Part)]

Call == [at : {"out", "get", "replace", "write", "read"}, to : Remotes \cup {"none"},
         tid : WireId, got : Seq(Part)]

ClientTypeOK ==
    /\ slot \in [Remotes -> {"unmade", "idle", "taken", "empty"}]
    /\ conn \in [Remotes -> Link]
    /\ caller \in [Callers -> Call]
    /\ \A c \in Callers : ~At(c, "out") => To(c) \in Remotes

Holding(c) == caller[c].at \in {"replace", "write", "read"}

OneHolder ==
    \A c \in Callers : Holding(c) =>
        /\ slot[To(c)] = "taken"
        /\ \A d \in Callers : Holding(d) /\ To(d) = To(c) => d = c

\* The parts of the answer to t after the first n.
Rest(t, n) == [i \in 1..(3 - n) |-> [of |-> t, n |-> n + i]]

Orderly ==
    \A c \in Callers :
        /\ At(c, "write") => ~Held(c).closed
        /\ At(c, "read") =>
              /\ ~Held(c).closed
              /\ \/ /\ Held(c).owed \subseteq {caller[c].tid}
                    /\ Held(c).wire = <<>> /\ caller[c].got = <<>>
                 \/ /\ Held(c).owed = {} /\ Len(caller[c].got) \in 0..2
                    /\ Held(c).wire = Rest(caller[c].tid, Len(caller[c].got))
        /\ ~At(c, "read") => caller[c].got = <<>>

Untouched ==
    \A r \in Remotes :
        slot[r] # "unmade" /\ ~conn[r].closed
        /\ (\A c \in Callers : At(c, "read") => To(c) # r)
            => conn[r].owed = {} /\ conn[r].wire = <<>>

ClientInv == ClientTypeOK /\ OneHolder /\ Orderly /\ Untouched
=============================================================================
