---------------------------- MODULE MCRpcServer ----------------------------
(* Four plans: one peer with more requests than its limit of two; three      *)
(* peers, one of which breaks its Runner, at a server that takes two; a peer  *)
(* whose packet is refused; and a thread that starts the server while another *)
(* one closes it, may start it again, and a peer sends a request for the      *)
(* thread pool.                                                               *)
EXTENDS RpcServer

Starter == CHOOSE t \in Threads : TRUE

Calling(starter, other) ==
    [t \in Threads |-> IF t = Starter THEN starter ELSE other]

Requests ==
    [asks  |-> << <<"process", "coroutine", "unknown">> >>,
     calls |-> Calling(1, 0), pools |-> {"process"}, maxIdle |-> 2]

Crowd ==
    [asks  |-> << <<"raising">>, <<>>, <<>> >>,
     calls |-> Calling(1, 0), pools |-> {}, maxIdle |-> 1]

Nonsense ==
    [asks  |-> << <<"garbage">> >>,
     calls |-> Calling(1, 0), pools |-> {}, maxIdle |-> 1]

Lifecycle ==
    [asks  |-> << <<"thread">> >>,
     calls |-> Calling(1, 2), pools |-> Pools, maxIdle |-> 1]

(* For the scan: an older connection that is busy, a newer one that is not. *)
Busy ==
    [asks  |-> << <<"coroutine", "coroutine">>, <<>> >>,
     calls |-> Calling(1, 0), pools |-> {}, maxIdle |-> 2]

MCBusyPlans == {Busy}

MCPlans == {Requests, Crowd, Nonsense, Lifecycle}
=============================================================================
