------------------------------ MODULE MCParts ------------------------------
(* The parts that share no state with a shared connection, one at a time: a  *)
(* behaviour is one of the static list, the LRU cache, the rate limiters, a  *)
(* read of the HTTP transport, the registry, the configuration centre or the *)
(* client over simple connections.                                           *)
EXTENDS StaticList, LinkedLRU, TokenBucket, HttpParser, Registry, ConfigurationCenter,
        SimpleClient, TLC

VARIABLE part

vars == <<part, listVars, cacheVars, bucketVars, httpVars, registryVars, centerVars,
          clientVars>>

Init ==
    /\ part \in {"list", "cache", "bucket", "http", "registry", "center", "client"}
    /\ ListInit /\ CacheInit /\ BucketInit /\ HttpInit /\ RegistryInit /\ CenterInit
    /\ ClientInit
    /\ part # "bucket" => limiter = "local" /\ rate = CHOOSE r \in Rates : TRUE
    /\ part # "http" => side = "client"

Next ==
    \/ /\ part = "list" /\ ListNext
       /\ UNCHANGED <<part, cacheVars, bucketVars, httpVars, registryVars, centerVars, clientVars>>
    \/ /\ part = "cache" /\ CacheNext
       /\ UNCHANGED <<part, listVars, bucketVars, httpVars, registryVars, centerVars, clientVars>>
    \/ /\ part = "bucket" /\ BucketNext
       /\ UNCHANGED <<part, listVars, cacheVars, httpVars, registryVars, centerVars, clientVars>>
    \/ /\ part = "http" /\ HttpNext
       /\ UNCHANGED <<part, listVars, cacheVars, bucketVars, registryVars, centerVars, clientVars>>
    \/ /\ part = "registry" /\ RegistryNext
       /\ UNCHANGED <<part, listVars, cacheVars, bucketVars, httpVars, centerVars, clientVars>>
    \/ /\ part = "center" /\ CenterNext
       /\ UNCHANGED <<part, listVars, cacheVars, bucketVars, httpVars, registryVars, clientVars>>
    \/ /\ part = "client" /\ ClientNext
       /\ UNCHANGED <<part, listVars, cacheVars, bucketVars, httpVars, registryVars, centerVars>>

\* No fair action of a part is enabled in its initial state, so that the parts
\* that stand still are fair as well.
Spec == Init /\ [][Next]_vars /\ HttpFairness /\ RegistryFairness /\ ClientFairness

\* Keys whose hashes differ: the cache tells keys apart by their hash alone.
MCHash == CHOOSE f \in [Keys -> 1..Cardinality(Keys)] :
              \A k1, k2 \in Keys : k1 # k2 => f[k1] # f[k2]

\* Tokens that cost a whole number of units of time; several for one unit; and
\* tokens whose cost is not a whole number.
MCRates == {[tokens |-> 1, period |-> 2], [tokens |-> 2, period |-> 1],
            [tokens |-> 3, period |-> 2]}

\* Whole messages in which the body or what follows can confuse a parser, and
\* messages that lack something, or have too much of it.
MCWhole(line, order) ==
    {[line |-> line, headers |-> h, body |-> b, rest |-> r] :
        h \in {<<"tid", "length">>, order},
        b \in {<<>>, <<"byte", "byte">>, <<"CR", "LF", "byte">>},
        r \in {<<>>, <<"byte">>}}

MCMessages ==
    MCWhole("status", <<"length", "other", "tid">>)
    \cup MCWhole("request", <<"length", "junk", "tid">>)
    \cup
    {[line |-> l, headers |-> h, body |-> <<"byte">>, rest |-> <<>>] :
        l \in {"status", "request", "junk"},
        h \in {<<"tid">>, <<"length">>, <<"tid", "junk", "length">>}}
    \cup
    {[line |-> "request", headers |-> h, body |-> <<>>, rest |-> <<>>] :
        h \in {<<"letters", "length">>, <<"tid", "long", "length">>,
               <<"tid", "other", "length", "other">>}}
=============================================================================
