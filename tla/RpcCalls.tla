------------------------------ MODULE RpcCalls ------------------------------
(***************************************************************************)
(* What a shared connection promises its callers, with no thread, queue or *)
(* cache in sight.  A call is queued only while the connection is open, is *)
(* sent at most once and after it was queued, is answered only after it    *)
(* was sent and with its own answer, or fails; the connection never        *)
(* reopens.  SharedConnection implements this.                             *)
(***************************************************************************)
CONSTANT Clients

VARIABLES phase,   \* where each call is
          result,  \* whose answer each call got
          open     \* calls are accepted

vars == <<phase, result, open>>

Unanswered == "none"

TypeOK ==
    /\ phase \in [Clients -> {"idle", "queued", "sent", "answered", "failed"}]
    /\ result \in [Clients -> Clients \cup {Unanswered}]
    /\ open \in BOOLEAN

Init ==
    /\ phase = [c \in Clients |-> "idle"]
    /\ result = [c \in Clients |-> Unanswered]
    /\ open = TRUE

Move(c, from, to) ==
    /\ phase[c] = from
    /\ phase' = [phase EXCEPT ![c] = to]

Enqueue(c) == open /\ Move(c, "idle", "queued") /\ UNCHANGED <<result, open>>

Send(c) == Move(c, "queued", "sent") /\ UNCHANGED <<result, open>>

Answer(c) ==
    /\ Move(c, "sent", "answered")
    /\ result' = [result EXCEPT ![c] = c]
    /\ UNCHANGED open

Fail(c) ==
    /\ \E from \in {"idle", "queued", "sent"} : Move(c, from, "failed")
    /\ UNCHANGED <<result, open>>

Close == open /\ open' = FALSE /\ UNCHANGED <<phase, result>>

Next == Close \/ \E c \in Clients : Enqueue(c) \/ Send(c) \/ Answer(c) \/ Fail(c)

Spec == Init /\ [][Next]_vars
=============================================================================
