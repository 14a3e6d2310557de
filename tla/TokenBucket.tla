----------------------------- MODULE TokenBucket -----------------------------
(***************************************************************************)
(* TokenBucketRateLimiter: acquire() runs under a lock, so one action; and  *)
(* RedisTokenBucketRateLimiter, whose bucket is two keys in redis and whose *)
(* acquire() is a script there, for clients whose clocks agree.  The rate   *)
(* is Tokens in Period milliseconds, or seconds in redis, computed with as  *)
(* a fraction: what a float adds is a unit of time early or late.  Refreshed *)
(* rounds what tokens cost down: see Rounding.                              *)
(***************************************************************************)
EXTENDS Integers

CONSTANTS BucketCapacity, \* of __init__
          Rates,      \* those __init__ is called with
          Epoch,      \* time of the first call, which finds a bucket never used
          MaxElapsed, \* bound on the units of time that pass
          MaxBack,    \* bound on those the clock is set back by
          MaxGranted  \* bound on the tokens granted in a window

\* The clock counts from 1970, and is never set back to before that.
ASSUME TokenBucketAssumption ==
    /\ BucketCapacity \in Nat \ {0}
    /\ Rates \subseteq [tokens : Nat \ {0}, period : Nat \ {0}]
    /\ Epoch \in Nat /\ MaxBack \in Nat /\ MaxBack < Epoch

VARIABLES limiter,  \* the class of this behaviour's limiter, "local" or "redis"
          rate,     \* _rate, as a fraction
          now, elapsed, setBack, \* the clock; what has passed; by how much it was set back
          lastRefresh, \* _last_refresh_time
          consumed,    \* _consumed_tokens
          keys,        \* the keys in redis: tokens, in parts of 1 / Period, timestamp,
                       \* and when they expire
          window       \* what happened since some call, to state the properties

bucketVars == <<limiter, rate, now, elapsed, setBack, lastRefresh, consumed, keys, window>>

Tokens == rate.tokens
Period == rate.period

NoWindow == [from |-> "none", start |-> 0, end |-> 0, setBack |-> 0, granted |-> 0,
             refills |-> 0, overflow |-> FALSE, last |-> "none"]

BucketInit ==
    /\ limiter \in {"local", "redis"} /\ rate \in Rates
    /\ now = Epoch /\ elapsed = 0 /\ setBack = 0
    /\ lastRefresh = 0 /\ consumed = 0
    /\ keys = [tokens |-> 0, timestamp |-> 0, expire |-> 0]
    /\ window = NoWindow

Lower(a, b) == IF a < b THEN a ELSE b
Upper(a, b) == IF a < b THEN b ELSE a

\* A unit of time passes; or the clock is set back, which takes no time.
Tick ==
    /\ elapsed < MaxElapsed
    /\ now' = now + 1 /\ elapsed' = elapsed + 1
    /\ UNCHANGED <<limiter, rate, setBack, lastRefresh, consumed, keys, window>>

SetBack ==
    /\ setBack < MaxBack
    /\ now' = now - 1 /\ setBack' = setBack + 1
    /\ UNCHANGED <<limiter, rate, elapsed, lastRefresh, consumed, keys, window>>

Since     == Upper(0, now - lastRefresh)
Generated == (Since * Tokens) \div Period

Refreshed_EatsTheRest == now

\* Time that made no whole token is kept.
Refreshed == now - (Since - (Generated * Period) \div Tokens)

Left == Upper(0, Lower(BucketCapacity, consumed) - Generated)

\* A call and its answer are noted in the window, or the window starts after it;
\* refills is 1 if the call turned time into tokens and rounded what they cost.
Note(n, granted, overflow, refills) ==
    LET answer == IF granted THEN "granted" ELSE IF n = 1 THEN "refused one" ELSE "refused"
    IN  \/ window' = [window EXCEPT !.granted = @ + (IF granted THEN n ELSE 0),
                                    !.end = elapsed, !.last = answer,
                                    !.refills = @ + refills,
                                    !.overflow = @ \/ overflow]
        \/ /\ window.from = "none"
           /\ window' = [NoWindow EXCEPT !.from = answer, !.start = elapsed,
                                         !.refills = refills, !.setBack = setBack]

\* _acquire
Acquire(n) ==
    LET granted == Left + n <= BucketCapacity
    IN  /\ limiter = "local"
        /\ lastRefresh' = Refreshed
        /\ consumed' = IF granted THEN Left + n ELSE Left
        /\ Note(n, granted, Generated > consumed, IF Generated > 0 THEN 1 ELSE 0)
        /\ UNCHANGED <<limiter, rate, now, elapsed, setBack, keys>>

FullTokens == BucketCapacity * Period

Ttl_HalfFilled == (BucketCapacity * Period) \div (2 * Tokens)

\* In twice the time that fills the bucket the keys expire.
Ttl == (2 * BucketCapacity * Period) \div Tokens

\* The keys are as if they had never been set.
Expired == elapsed >= keys.expire

\* The script of acquire; with a ttl of zero setex fails, and so does the call.
AcquireInRedis(n) ==
    LET last    == IF Expired THEN FullTokens ELSE keys.tokens
        made    == IF Expired THEN now ELSE Upper(0, now - keys.timestamp)
        filled  == Lower(FullTokens, last + made * Tokens)
        granted == filled >= n * Period
    IN  /\ limiter = "redis" /\ Ttl > 0
        /\ keys' = [tokens    |-> IF granted THEN filled - n * Period ELSE filled,
                    timestamp |-> now,
                    expire    |-> elapsed + Ttl]
        /\ Note(n, granted, last + made * Tokens > FullTokens, 0)
        /\ UNCHANGED <<limiter, rate, now, elapsed, setBack, lastRefresh, consumed>>

BucketNext ==
    \/ Tick \/ SetBack
    \/ window.granted < MaxGranted /\ \E n \in 1..BucketCapacity : Acquire(n) \/ AcquireInRedis(n)

-----------------------------------------------------------------------------
Passed == window.end - window.start

\* What a refill of _acquire makes too much at most, in parts of 1 / Period, as
\* the time its tokens cost is rounded down: less than one unit of time makes.
Rounding == IF Period = 1 THEN 0 ELSE Tokens - 1

\* Whatever the sequence of requests, and of steps of the clock back, between
\* any two moments no more is granted than a full bucket and what the time
\* between them makes, with the part of a token that was there already and, in
\* the process, what the refills of these calls lose to rounding.
GrantedWithinRate ==
    window.from # "none" /\ window.last # "none" =>
        window.granted * Period <= BucketCapacity * Period + Passed * Tokens + Period - 1
                                     + window.refills * Rounding

\* Time is not eaten by asking often: from one refusal of a single token to
\* another, all tokens of the time between them were granted to somebody, if the
\* bucket never overflowed and the clock was not set back.
RefusedWhenSpent ==
    window.from = "refused one" /\ window.last = "refused one"
    /\ ~window.overflow /\ setBack = window.setBack
        => window.granted * Period > Passed * Tokens - Period
=============================================================================
