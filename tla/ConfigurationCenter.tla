------------------------- MODULE ConfigurationCenter -------------------------
(***************************************************************************)
(* ZookeeperConfigurationCenter: a local copy of the children of a base    *)
(* node, read again whenever the version of the base node changes.  The    *)
(* publisher is external: it changes children, then touches the base node. *)
(* So is ZooKeeper, whose client runs the watchers of a handle in turn.    *)
(***************************************************************************)
EXTENDS Integers

CONSTANTS Settings,   \* names of children
          MaxVersion, \* bound on the versions of the base node
          MaxCuts     \* bound on the connections lost

\* A child is known by the base version it was last changed for: n stands for
\* what was written for version n, -n for its deletion, 0 for never written.
VARIABLES stored,  \* each child in ZooKeeper
          base,    \* version of the base node
          cuts,    \* connections lost so far
          link,    \* of _handler
          event,   \* a connection event is in the queue
          armed, touched, \* the watch on the base node; it has fired
          step,    \* where _real_start is
          seen,    \* its main_version
          listed,  \* its children still to get
          tmpCache,
          localCache, \* _local_cache, and started: it is no longer None
          started,
          mainVersion

centerVars == <<stored, base, cuts, link, event, armed, touched, step, seen,
                listed, tmpCache, localCache, started, mainVersion>>

Nothing == [k \in Settings |-> 0]
Stamp(n) == IF n < 0 THEN -n ELSE n

CenterInit ==
    /\ stored = Nothing /\ base = 0 /\ cuts = 0
    /\ link = "none" /\ event = FALSE
    /\ armed = FALSE /\ touched = FALSE
    /\ step = "idle" /\ seen = 0 /\ listed = {}
    /\ tmpCache = Nothing /\ localCache = Nothing
    /\ started = FALSE /\ mainVersion = 0

-----------------------------------------------------------------------------
\* The publisher changes a child at most once for a version.
Change(k) ==
    /\ base < MaxVersion /\ Stamp(stored[k]) <= base
    /\ \/ stored' = [stored EXCEPT ![k] = base + 1]
       \/ stored[k] > 0 /\ stored' = [stored EXCEPT ![k] = -(base + 1)]
    /\ UNCHANGED <<base, cuts, link, event, armed, touched, step, seen, listed,
                   tmpCache, localCache, started, mainVersion>>

Touch ==
    /\ base < MaxVersion
    /\ base' = base + 1
    /\ armed' = FALSE
    /\ touched' = (touched \/ armed)
    /\ UNCHANGED <<stored, cuts, link, event, step, seen, listed, tmpCache,
                   localCache, started, mainVersion>>

-----------------------------------------------------------------------------
\* The locals of _real_start are gone with it.
Forget == step' = "idle" /\ seen' = 0 /\ listed' = {} /\ tmpCache' = Nothing

\* start(), once a watcher of an earlier handle is done.
Start ==
    /\ link = "none" /\ step = "idle"
    /\ link' = "connecting"
    /\ UNCHANGED <<stored, base, cuts, event, armed, touched, step, seen, listed,
                   tmpCache, localCache, started, mainVersion>>

Connected ==
    /\ link = "connecting"
    /\ link' = "connected" /\ event' = TRUE
    /\ UNCHANGED <<stored, base, cuts, armed, touched, step, seen, listed,
                   tmpCache, localCache, started, mainVersion>>

\* The connection is lost, or its session is, and with it the watch.
Cut ==
    /\ link = "connected" /\ cuts < MaxCuts
    /\ cuts' = cuts + 1
    /\ \/ link' = "connecting" /\ UNCHANGED <<armed, touched>>
       \/ link' = "expired" /\ armed' = FALSE /\ touched' = FALSE
    /\ UNCHANGED <<stored, base, event, step, seen, listed, tmpCache, localCache,
                   started, mainVersion>>

\* _connection_state_watcher, or _real_start called for its own watch.
Watcher ==
    /\ step = "idle"
    /\ \/ event /\ event' = FALSE /\ UNCHANGED touched
       \/ touched /\ link = "connected" /\ touched' = FALSE /\ UNCHANGED event
    /\ step' = "base"
    /\ UNCHANGED <<stored, base, cuts, link, armed, seen, listed, tmpCache,
                   localCache, started, mainVersion>>

GetBase_NoWatch ==
    /\ step = "base" /\ link = "connected"
    /\ seen' = base
    /\ tmpCache' = Nothing
    /\ step' = "list"
    /\ UNCHANGED <<stored, base, cuts, link, event, armed, touched, listed,
                   localCache, started, mainVersion>>

\* The version of the base node, and a watch on it.
GetBase ==
    /\ step = "base" /\ link = "connected"
    /\ seen' = base
    /\ armed' = TRUE
    /\ tmpCache' = Nothing
    /\ step' = "list"
    /\ UNCHANGED <<stored, base, cuts, link, event, touched, listed, localCache,
                   started, mainVersion>>

\* A child that is not listed counts as deleted when it was.
ListChildren ==
    /\ step = "list" /\ link = "connected"
    /\ listed' = {k \in Settings : stored[k] > 0}
    /\ tmpCache' = [k \in Settings |-> IF stored[k] > 0 THEN 0 ELSE stored[k]]
    /\ step' = "get"
    /\ UNCHANGED <<stored, base, cuts, link, event, armed, touched, seen,
                   localCache, started, mainVersion>>

\* get() of one child; one that was deleted since it was listed raises.
GetChild(k) ==
    /\ step = "get" /\ link = "connected" /\ k \in listed
    /\ \/ /\ stored[k] > 0
          /\ tmpCache' = [tmpCache EXCEPT ![k] = stored[k]]
          /\ listed' = listed \ {k}
          /\ UNCHANGED <<step, seen>>
       \/ stored[k] <= 0 /\ Forget
    /\ UNCHANGED <<stored, base, cuts, link, event, armed, touched, localCache,
                   started, mainVersion>>

\* A call that meets a lost connection raises.
CallFails ==
    /\ step \in {"base", "list", "get"}
    /\ link # "connected" \/ event
    /\ Forget
    /\ UNCHANGED <<stored, base, cuts, link, event, armed, touched, localCache,
                   started, mainVersion>>

PublishCache ==
    /\ step = "get" /\ listed = {}
    /\ localCache' = tmpCache /\ started' = TRUE
    /\ step' = "version"
    /\ UNCHANGED <<stored, base, cuts, link, event, armed, touched, seen, listed,
                   tmpCache, mainVersion>>

PublishVersion_Current ==
    /\ step = "version"
    /\ mainVersion' = base
    /\ Forget
    /\ UNCHANGED <<stored, base, cuts, link, event, armed, touched, localCache, started>>

PublishVersion ==
    /\ step = "version"
    /\ mainVersion' = seen
    /\ Forget
    /\ UNCHANGED <<stored, base, cuts, link, event, armed, touched, localCache, started>>

\* close() of another thread keeps the copy; a watcher that has its values goes on.
CloseCenter ==
    /\ link # "none"
    /\ link' = "none" /\ event' = FALSE
    /\ armed' = FALSE /\ touched' = FALSE
    /\ UNCHANGED <<stored, base, cuts, step, seen, listed, tmpCache, localCache,
                   started, mainVersion>>

CenterNext ==
    \/ \E k \in Settings : Change(k) \/ GetChild(k)
    \/ Touch \/ Start \/ Connected \/ Cut \/ Watcher \/ GetBase \/ ListChildren
    \/ CallFails \/ PublishCache \/ PublishVersion \/ CloseCenter

-----------------------------------------------------------------------------
\* Whoever reads main_version and then a key finds every change published with
\* that version, or a later one: the values may be newer than the version says
\* (they are read, and stored, in this order) and are never older.
VersionCovers ==
    started => \A k \in Settings :
        localCache[k] # stored[k] => Stamp(stored[k]) > mainVersion

\* No change of the base node is missed: a connected client that has nothing to
\* do knows its version, once it could read one whole configuration.  A child
\* deleted under its hands makes it give up until the publisher touches the
\* base node, which it owes for the deletion.
VersionSettles ==
    link = "connected" /\ step = "idle" /\ ~event /\ ~touched
        => \/ started /\ mainVersion = base
           \/ \E k \in Settings : stored[k] = -(base + 1)
=============================================================================
