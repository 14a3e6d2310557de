------------------------------ MODULE Registry ------------------------------
(***************************************************************************)
(* ZookeeperRegistry of summerrpc/registry.py, twice: a server registers   *)
(* its entries as ephemeral nodes, a client discovers them.  ZooKeeper and *)
(* its client library are external: sessions, their connections, watches   *)
(* and the thread of each handle that runs the watchers one at a time.     *)
(***************************************************************************)
EXTENDS Naturals

CONSTANTS Znodes,      \* the entries of the server, one node each
          MaxSessions, \* bound on the server's sessions, of all its runs
          MaxLosses    \* bound on the connections lost, of both handles

\* "none" stands for no node.
ASSUME RegistryAssumption == "none" \notin Znodes

VARIABLES owner,   \* session each node belongs to, 0 where there is no node
          session, \* session of the last register()
          losses,  \* connections lost so far
          \* the server: connection and _register_handler, a connection event
          \* in its queue or dropped, and where its watcher is
          regLink, regHandle, regEvent, regDropped, replace, todo, entry, regStep,
          \* the client, the same; its watch, one that fired, and its cache
          disLink, disHandle, disEvent, disDropped, disStep,
          watched, fired, children, remotes

regVars == <<session, regLink, regHandle, regEvent, regDropped, replace, todo,
             entry, regStep>>
disVars == <<disLink, disHandle, disEvent, disDropped, disStep, children, remotes>>
treeVars == <<owner, watched, fired>>
registryVars == <<regVars, disVars, treeVars, losses>>

Links   == {"none", "connecting", "connected", "expired"}
Handles == {"none", "opening", "known"} \* init() runs, and has returned

RegistryInit ==
    /\ owner = [z \in Znodes |-> 0]
    /\ session = 0 /\ losses = 0
    /\ regLink = "none" /\ regHandle = "none" /\ regEvent = FALSE
    /\ regDropped = FALSE /\ replace = TRUE
    /\ todo = {} /\ entry = "none" /\ regStep = "idle"
    /\ disLink = "none" /\ disHandle = "none" /\ disEvent = FALSE
    /\ disDropped = FALSE /\ disStep = "idle"
    /\ watched = FALSE /\ fired = FALSE /\ children = {} /\ remotes = {}

Existing(o) == {z \in Znodes : o[z] # 0}

\* The nodes change: a watch on the base node fires once.
Nodes_Become(o) ==
    LET fires == watched /\ Existing(o) # Existing(owner)
    IN  /\ owner' = o
        /\ watched' = (watched /\ ~fires)
        /\ fired' = (fired \/ fires)

-----------------------------------------------------------------------------
\* The server.

\* register() calls init(), which returns a handle before or after the first
\* event reaches the watcher.
Register(deleteIfExists) ==
    /\ regLink = "none" /\ regStep = "idle" /\ session < MaxSessions
    /\ session' = session + 1
    /\ replace' = deleteIfExists
    /\ regLink' = "connecting" /\ regHandle' = "opening"
    /\ UNCHANGED <<regEvent, regDropped, todo, entry, regStep, disVars, treeVars, losses>>

RegisterReturns ==
    /\ regHandle = "opening"
    /\ regHandle' = "known"
    /\ UNCHANGED <<session, regLink, regEvent, regDropped, replace, todo, entry,
                   regStep, disVars, treeVars, losses>>

RegisterConnects ==
    /\ regLink = "connecting"
    /\ regLink' = "connected" /\ regEvent' = TRUE
    /\ UNCHANGED <<session, regHandle, regDropped, replace, todo, entry, regStep,
                   disVars, treeVars, losses>>

RegisterLoses ==
    /\ regLink = "connected" /\ losses < MaxLosses
    /\ regLink' = "connecting"
    /\ losses' = losses + 1
    /\ UNCHANGED <<session, regHandle, regEvent, regDropped, replace, todo, entry,
                   regStep, disVars, treeVars>>

\* _register_watcher: set_watcher() needs the handle in self, and raises while
\* init() has not returned it; the event is gone then.
RegisterWatcher ==
    /\ regEvent /\ regStep = "idle"
    /\ regEvent' = FALSE
    /\ \/ /\ regHandle = "known"
          /\ regStep' = "create" /\ todo' = Znodes /\ regDropped' = FALSE
       \/ /\ regHandle # "known"
          /\ regDropped' = TRUE
          /\ UNCHANGED <<regStep, todo>>
    /\ UNCHANGED <<session, regLink, regHandle, replace, entry, disVars, treeVars, losses>>

\* The exception, or the end, of _real_register.
RegisterEnds ==
    regStep' = "idle" /\ todo' = {} /\ entry' = "none"

Create_KeepsOld(z) ==
    /\ regStep = "create" /\ regLink = "connected"
    /\ entry = z \/ (entry = "none" /\ z \in todo)
    /\ Nodes_Become(IF owner[z] = 0 THEN [owner EXCEPT ![z] = session] ELSE owner)
    /\ IF todo = {z} THEN RegisterEnds
       ELSE todo' = todo \ {z} /\ entry' = "none" /\ UNCHANGED regStep
    /\ UNCHANGED <<session, regLink, regHandle, regEvent, regDropped, replace,
                   disVars, losses>>

\* create() of one node, the next of the dictionary or the one just deleted.
Create(z) ==
    /\ regStep = "create" /\ regLink = "connected"
    /\ entry = z \/ (entry = "none" /\ z \in todo)
    /\ \/ /\ owner[z] = 0
          /\ Nodes_Become([owner EXCEPT ![z] = session])
          /\ IF todo = {z} THEN RegisterEnds
             ELSE todo' = todo \ {z} /\ entry' = "none" /\ UNCHANGED regStep
       \/ /\ owner[z] # 0 /\ replace
          /\ entry' = z /\ regStep' = "delete"
          /\ UNCHANGED <<todo, treeVars>>
       \/ /\ owner[z] # 0 /\ ~replace
          /\ RegisterEnds
          /\ UNCHANGED treeVars
    /\ UNCHANGED <<session, regLink, regHandle, regEvent, regDropped, replace,
                   disVars, losses>>

\* delete() of a node that exists, or is gone by now: then create() again.
Delete ==
    /\ regStep = "delete" /\ regLink = "connected"
    /\ regStep' = "create"
    /\ Nodes_Become([owner EXCEPT ![entry] = 0])
    /\ UNCHANGED <<session, regLink, regHandle, regEvent, regDropped, replace,
                   todo, entry, disVars, losses>>

\* A call that is out when the connection is lost raises and ends the watcher,
\* whether or not ZooKeeper carried it out.
RegisterFails ==
    /\ regStep # "idle"
    /\ regLink # "connected" \/ regEvent
    /\ RegisterEnds
    /\ \/ UNCHANGED treeVars
       \/ /\ regLink \notin {"none", "expired"} /\ regStep = "create"
          /\ \E z \in todo : /\ owner[z] = 0 /\ entry \in {z, "none"}
                             /\ Nodes_Become([owner EXCEPT ![z] = session])
       \/ /\ regLink \notin {"none", "expired"} /\ regStep = "delete"
          /\ Nodes_Become([owner EXCEPT ![entry] = 0])
    /\ UNCHANGED <<session, regLink, regHandle, regEvent, regDropped, replace,
                   disVars, losses>>

Without(s) == [z \in Znodes |-> IF owner[z] = s THEN 0 ELSE owner[z]]

\* ZooKeeper ends a session it no longer hears of, and removes its nodes; the
\* watcher of an expired session has nothing to do with that event.
SessionEnds(s) ==
    /\ \E z \in Znodes : owner[z] = s
    /\ s < session \/ regLink \in {"none", "connecting"}
    /\ Nodes_Become(Without(s))
    /\ regLink' = IF s = session /\ regLink = "connecting" THEN "expired" ELSE regLink
    /\ UNCHANGED <<session, regHandle, regEvent, regDropped, replace, todo, entry,
                   regStep, disVars, losses>>

RegisterForgotten ==
    /\ regLink # "none"
    /\ regLink' = "none" /\ regHandle' = "none"
    /\ regEvent' = FALSE /\ regDropped' = FALSE
    /\ UNCHANGED <<session, replace, disVars, losses>>

\* The process dies, and its session lives on for a while.
ServerCrashes == RegisterForgotten /\ RegisterEnds /\ UNCHANGED treeVars

\* close() ends the session, and its nodes with it; a watcher that runs fails.
RegisterCloses ==
    /\ RegisterForgotten
    /\ Nodes_Become(Without(session))
    /\ UNCHANGED <<todo, entry, regStep>>

-----------------------------------------------------------------------------
\* The client.

Discovery ==
    /\ disLink = "none" /\ disStep = "idle"
    /\ disLink' = "connecting" /\ disHandle' = "opening"
    /\ UNCHANGED <<disEvent, disDropped, disStep, children, remotes, regVars,
                   treeVars, losses>>

DiscoveryReturns ==
    /\ disHandle = "opening"
    /\ disHandle' = "known"
    /\ UNCHANGED <<disLink, disEvent, disDropped, disStep, children, remotes,
                   regVars, treeVars, losses>>

DiscoveryConnects ==
    /\ disLink = "connecting"
    /\ disLink' = "connected" /\ disEvent' = TRUE
    /\ UNCHANGED <<disHandle, disDropped, disStep, children, remotes, regVars,
                   treeVars, losses>>

\* The connection is lost, or the session with it: its watch is gone then.
DiscoveryLoses ==
    /\ disLink = "connected" /\ losses < MaxLosses
    /\ \/ disLink' = "connecting" /\ UNCHANGED treeVars
       \/ disLink' = "expired" /\ watched' = FALSE /\ fired' = FALSE /\ UNCHANGED owner
    /\ losses' = losses + 1
    /\ UNCHANGED <<disHandle, disEvent, disDropped, disStep, children, remotes, regVars>>

\* _discovery_watcher for a connection event; as the server's, it needs the
\* handle in self.
DiscoveryWatcher ==
    /\ disEvent /\ disStep = "idle"
    /\ disEvent' = FALSE
    /\ disStep' = IF disHandle = "known" THEN "list" ELSE "idle"
    /\ disDropped' = (disHandle # "known")
    /\ UNCHANGED <<disLink, disHandle, children, remotes, regVars, treeVars, losses>>

\* _real_discovery called for the watch it left.
ChildrenChanged ==
    /\ fired /\ disStep = "idle" /\ disLink = "connected"
    /\ fired' = FALSE
    /\ disStep' = "list"
    /\ UNCHANGED <<disLink, disHandle, disEvent, disDropped, children, remotes,
                   owner, watched, regVars, losses>>

GetChildren_NoWatch ==
    /\ disStep = "list" /\ disLink = "connected"
    /\ children' = Existing(owner)
    /\ disStep' = "publish"
    /\ UNCHANGED <<disLink, disHandle, disEvent, disDropped, remotes, treeVars,
                   regVars, losses>>

\* get_children() answers and leaves a watch at the same time.
GetChildren ==
    /\ disStep = "list" /\ disLink = "connected"
    /\ children' = Existing(owner)
    /\ watched' = TRUE
    /\ disStep' = "publish"
    /\ UNCHANGED <<disLink, disHandle, disEvent, disDropped, remotes, owner,
                   fired, regVars, losses>>

ListFails ==
    /\ disStep = "list"
    /\ disLink # "connected" \/ disEvent
    /\ disStep' = "idle"
    /\ UNCHANGED <<disLink, disHandle, disEvent, disDropped, children, remotes,
                   regVars, treeVars, losses>>

\* The new dictionary takes the place of the old one.
Publish ==
    /\ disStep = "publish"
    /\ remotes' = children
    /\ children' = {} /\ disStep' = "idle"
    /\ UNCHANGED <<disLink, disHandle, disEvent, disDropped, regVars, treeVars, losses>>

\* close() clears the cache, which a watcher that has its children fills again.
DiscoveryCloses ==
    /\ disLink # "none"
    /\ disLink' = "none" /\ disHandle' = "none"
    /\ disEvent' = FALSE /\ disDropped' = FALSE
    /\ watched' = FALSE /\ fired' = FALSE
    /\ remotes' = {}
    /\ UNCHANGED <<disStep, children, owner, regVars, losses>>

RegistryNext ==
    \/ \E b \in BOOLEAN : Register(b)
    \/ RegisterReturns \/ RegisterConnects \/ RegisterLoses \/ RegisterWatcher
    \/ \E z \in Znodes : Create(z)
    \/ Delete \/ RegisterFails
    \/ \E s \in 1..session : SessionEnds(s)
    \/ ServerCrashes \/ RegisterCloses
    \/ Discovery \/ DiscoveryReturns \/ DiscoveryConnects \/ DiscoveryLoses
    \/ DiscoveryWatcher \/ ChildrenChanged \/ GetChildren \/ ListFails \/ Publish
    \/ DiscoveryCloses

\* Threads and connections go on, and ZooKeeper ends the sessions of the dead;
\* nobody has to register, to crash or to lose a connection.  No fair action
\* is enabled before register() or discovery().
RegistryFairness ==
    /\ WF_registryVars(RegisterReturns) /\ WF_registryVars(RegisterConnects)
    /\ WF_registryVars(RegisterWatcher) /\ WF_registryVars(Delete)
    /\ WF_registryVars(\E z \in Znodes : Create(z))
    /\ \A s \in 1..MaxSessions : WF_registryVars(s <= session /\ SessionEnds(s))
    /\ WF_registryVars(DiscoveryReturns) /\ WF_registryVars(DiscoveryConnects)
    /\ WF_registryVars(DiscoveryWatcher) /\ WF_registryVars(ChildrenChanged)
    /\ WF_registryVars(GetChildren) /\ WF_registryVars(Publish)

-----------------------------------------------------------------------------
\* A connected server whose watcher is done owns all of its nodes: whatever an
\* earlier run, a lost connection or an ambiguous call left behind is replaced,
\* and the end of an old session takes no node of the new one.  An event that
\* overtook init() is the exception (registry.py:95), and so is a server that
\* was told not to delete what exists.
AnnouncedWhenConnected ==
    regLink = "connected" /\ regStep = "idle" /\ ~regEvent /\ ~regDropped /\ replace
        => \A z \in Znodes : owner[z] = session

\* A client follows the registry: what it knows wrongly of a node it comes to
\* know rightly, unless its session is over or its only event was dropped.
Wrong(z) == (z \in remotes) # (owner[z] # 0)
DiscoveryFollows ==
    \A z \in Znodes :
        Wrong(z) ~> (~Wrong(z) \/ disLink \in {"none", "expired"} \/ disDropped)
=============================================================================
