--------------------------- MODULE ZookeeperProofs ---------------------------
(***************************************************************************)
(* For any settings, any nodes and any number of connections and sessions  *)
(* lost: the local copy of ConfigurationCenter is as new as its version    *)
(* says and misses no change, and a server that Registry has connected     *)
(* owns its nodes.                                                         *)
(***************************************************************************)
EXTENDS ConfigurationCenter, Registry, TLAPS

-----------------------------------------------------------------------------
(* The configuration centre.                                               *)

CenterSpec == CenterInit /\ [][CenterNext]_centerVars

CenterTyped ==
    /\ stored \in [Settings -> Int] /\ base \in Nat
    /\ \A k \in Settings : Stamp(stored[k]) <= base + 1
    /\ step \in {"idle", "base", "list", "get", "version"}
    /\ listed \subseteq Settings /\ tmpCache \in [Settings -> Int]
    /\ localCache \in [Settings -> Int]
    /\ event \in BOOLEAN /\ armed \in BOOLEAN /\ touched \in BOOLEAN /\ started \in BOOLEAN
    /\ seen \in Nat /\ seen <= base
    /\ mainVersion \in Nat /\ mainVersion <= base

\* What a copy has that is not what is stored was changed after a version.
CopyCovers(copy, version, k) == copy[k] # stored[k] => Stamp(stored[k]) > version

\* _real_start reads the base node first: what it reads later is not older than
\* that, and a child that is gone since it was listed was deleted after it.
ReadsCover ==
    /\ step \in {"list", "get", "version"} => mainVersion <= seen
    /\ step = "get" => \A k \in Settings :
          /\ k \in listed => stored[k] > 0 \/ Stamp(stored[k]) > seen
          /\ k \notin listed => CopyCovers(tmpCache, seen, k)
    /\ step = "version" => \A k \in Settings : CopyCovers(localCache, seen, k)
    /\ step = "version" => started

\* Where a connected client with no event to handle is: it has been told to read
\* again, it does, or its watch stands since it read the version there is.
WatchStands ==
    link = "connected" /\ ~event /\ ~touched /\ step # "base" =>
        /\ armed
        /\ step # "idle" => seen = base
        /\ step = "idle" => \/ started /\ mainVersion = base
                            \/ \E k \in Settings : stored[k] = -(base + 1)

CenterInv == CenterTyped /\ VersionCovers /\ ReadsCover /\ WatchStands

\* A stamp is a version.
LEMMA StampTyped ==
    ASSUME NEW n \in Int
    PROVE  Stamp(n) \in Nat
  BY DEF Stamp

\* The invariant holds at first.
LEMMA InitCenter == CenterInit => CenterInv
  <1> SUFFICES ASSUME CenterInit
               PROVE  CenterInv
    OBVIOUS
  <1>0. Stamp(0) = 0
    BY DEF Stamp
  <1>1. /\ started = FALSE /\ link = "none" /\ step = "idle"
    BY DEF CenterInit
  <1>2. /\ base = 0 /\ seen = 0 /\ mainVersion = 0 /\ listed = {}
        /\ event \in BOOLEAN /\ armed \in BOOLEAN /\ touched \in BOOLEAN /\ started \in BOOLEAN
        /\ stored = Nothing /\ tmpCache = Nothing /\ localCache = Nothing
    BY DEF CenterInit
  <1>3. Nothing \in [Settings -> Int] /\ \A k \in Settings : Nothing[k] = 0
    BY DEF Nothing
  <1>4. CenterTyped
    <2>1. \A k \in Settings : Stamp(stored[k]) = 0
      BY <1>0, <1>2, <1>3, Zenon
    <2>2. 0 <= base + 1
      BY <1>2
    <2>3. \A k \in Settings : Stamp(stored[k]) <= base + 1
      BY <2>1, <2>2, Zenon
    <2>4. /\ stored \in [Settings -> Int] /\ tmpCache \in [Settings -> Int]
          /\ localCache \in [Settings -> Int]
      BY <1>2, <1>3, Zenon
    <2> QED BY <1>1, <1>2, <2>3, <2>4 DEF CenterTyped
  <1>5. VersionCovers /\ ReadsCover /\ WatchStands
    BY <1>1 DEF VersionCovers, ReadsCover, WatchStands
  <1> QED BY <1>4, <1>5 DEF CenterInv

\* A child that changes gets a stamp that is later than any version read so far.
LEMMA ChangeKeepsCenter ==
    ASSUME CenterInv, NEW k \in Settings, Change(k)
    PROVE  CenterInv'
  <1>1. /\ base < MaxVersion /\ Stamp(stored[k]) <= base
        /\ UNCHANGED <<base, cuts, link, event, armed, touched, step, seen, listed,
                       tmpCache, localCache, started, mainVersion>>
    BY DEF Change
  <1>2. PICK v \in Int : /\ stored' = [stored EXCEPT ![k] = v]
                         /\ v = base + 1 \/ (v = -(base + 1) /\ stored[k] > 0)
    BY DEF Change, CenterInv, CenterTyped
  <1>3. base \in Nat /\ seen <= base /\ mainVersion <= base /\ seen \in Nat /\ mainVersion \in Nat
        /\ stored \in [Settings -> Int]
    BY DEF CenterInv, CenterTyped
  <1>4. Stamp(v) = base + 1 /\ stored'[k] = v /\ stored' \in [Settings -> Int]
        /\ \A j \in Settings : j # k => stored'[j] = stored[j]
    BY <1>2, <1>3 DEF Stamp
  <1>5. CenterTyped'
    BY <1>1, <1>3, <1>4 DEF CenterInv, CenterTyped
  <1>6. VersionCovers' /\ ReadsCover'
    BY <1>1, <1>3, <1>4 DEF CenterInv, VersionCovers, ReadsCover, CopyCovers
  <1>7. WatchStands'
    <2>1. \A j \in Settings : stored[j] = -(base + 1) => j # k
      BY <1>1, <1>3 DEF Stamp
    <2> QED BY <1>1, <1>4, <2>1 DEF CenterInv, WatchStands
  <1> QED BY <1>5, <1>6, <1>7 DEF CenterInv

\* The base node is touched: the watch, if it stands, fires.
LEMMA TouchKeepsCenter ==
    ASSUME CenterInv, Touch
    PROVE  CenterInv'
  <1>1. /\ base' = base + 1 /\ armed' = FALSE /\ touched' = (touched \/ armed)
        /\ UNCHANGED <<stored, cuts, link, event, step, seen, listed, tmpCache, localCache,
                       started, mainVersion>>
    BY DEF Touch
  <1>2. CenterTyped'
    <2>1. base \in Nat /\ \A k \in Settings : Stamp(stored[k]) \in Nat /\ Stamp(stored[k]) <= base + 1
      <3>1. \A k \in Settings : stored[k] \in Int /\ Stamp(stored[k]) <= base + 1
        BY DEF CenterInv, CenterTyped
      <3> QED BY <3>1, StampTyped DEF CenterInv, CenterTyped
    <2>2. \A k \in Settings : Stamp(stored[k]) <= base' + 1
      BY <1>1, <2>1
    <2>3. base' \in Nat /\ seen <= base' /\ mainVersion <= base'
      BY <1>1 DEF CenterInv, CenterTyped
    <2>4. armed' \in BOOLEAN /\ touched' \in BOOLEAN
      BY <1>1 DEF CenterInv, CenterTyped
    <2> QED BY <1>1, <2>2, <2>3, <2>4 DEF CenterInv, CenterTyped
  <1>3. VersionCovers' /\ ReadsCover'
    BY <1>1 DEF CenterInv, VersionCovers, ReadsCover, CopyCovers
  <1>4. WatchStands'
    BY <1>1 DEF CenterInv, CenterTyped, WatchStands
  <1> QED BY <1>2, <1>3, <1>4 DEF CenterInv

\* What happens to the connection, and a watcher that begins.
LEMMA LinkKeepsCenter ==
    ASSUME CenterInv, Start \/ Connected \/ Cut \/ Watcher \/ CloseCenter
    PROVE  CenterInv'
  <1>1. /\ UNCHANGED <<stored, base, seen, listed, tmpCache, localCache, started, mainVersion>>
        /\ \/ step' = step
           \/ step = "idle" /\ step' = "base"
    BY DEF Start, Connected, Cut, Watcher, CloseCenter
  <1>2. CenterTyped'
    <2>1. event' \in BOOLEAN /\ armed' \in BOOLEAN /\ touched' \in BOOLEAN
      BY DEF Start, Connected, Cut, Watcher, CloseCenter, CenterInv, CenterTyped
    <2>2. step' \in {"idle", "base", "list", "get", "version"}
      BY <1>1 DEF CenterInv, CenterTyped
    <2> QED BY <1>1, <2>1, <2>2 DEF CenterInv, CenterTyped
  <1>3. VersionCovers' /\ ReadsCover'
    BY <1>1 DEF CenterInv, VersionCovers, ReadsCover, CopyCovers
  <1>4. WatchStands'
    BY <1>1 DEF CenterInv, WatchStands, Start, Connected, Cut, Watcher, CloseCenter
  <1> QED BY <1>2, <1>3, <1>4 DEF CenterInv

\* The version of the base node is read before anything else is.
LEMMA GetBaseKeepsCenter ==
    ASSUME CenterInv, GetBase
    PROVE  CenterInv'
  <1>1. /\ step = "base" /\ seen' = base /\ armed' = TRUE /\ tmpCache' = Nothing /\ step' = "list"
        /\ UNCHANGED <<stored, base, cuts, link, event, touched, listed, localCache, started,
                       mainVersion>>
    BY DEF GetBase
  <1>2. CenterTyped'
    BY <1>1 DEF CenterInv, CenterTyped, Nothing
  <1>3. VersionCovers' /\ ReadsCover'
    BY <1>1 DEF CenterInv, CenterTyped, VersionCovers, ReadsCover
  <1>4. WatchStands'
    BY <1>1 DEF CenterInv, WatchStands
  <1> QED BY <1>2, <1>3, <1>4 DEF CenterInv

\* The children are listed.
LEMMA ListKeepsCenter ==
    ASSUME CenterInv, ListChildren
    PROVE  CenterInv'
  <1>1. /\ step = "list" /\ step' = "get"
        /\ listed' = {k \in Settings : stored[k] > 0}
        /\ tmpCache' = [k \in Settings |-> IF stored[k] > 0 THEN 0 ELSE stored[k]]
        /\ UNCHANGED <<stored, base, cuts, link, event, armed, touched, seen, localCache, started,
                       mainVersion>>
    BY DEF ListChildren
  <1>2. CenterTyped'
    BY <1>1 DEF CenterInv, CenterTyped
  <1>3. VersionCovers' /\ ReadsCover'
    BY <1>1 DEF CenterInv, VersionCovers, ReadsCover, CopyCovers
  <1>4. WatchStands'
    BY <1>1 DEF CenterInv, WatchStands
  <1> QED BY <1>2, <1>3, <1>4 DEF CenterInv

\* A child is read, or found deleted: the watcher then gives up, and the
\* deletion is one of the version to come.
LEMMA GetChildKeepsCenter ==
    ASSUME CenterInv, NEW k \in Settings, GetChild(k)
    PROVE  CenterInv'
  <1>1. /\ step = "get" /\ k \in listed
        /\ UNCHANGED <<stored, base, cuts, link, event, armed, touched, localCache, started,
                       mainVersion>>
    BY DEF GetChild
  <1>2. CASE /\ stored[k] > 0
             /\ tmpCache' = [tmpCache EXCEPT ![k] = stored[k]]
             /\ listed' = listed \ {k}
             /\ UNCHANGED <<step, seen>>
    <2>1. CenterTyped'
      BY <1>1, <1>2 DEF CenterInv, CenterTyped
    <2>2. VersionCovers' /\ ReadsCover'
      BY <1>1, <1>2 DEF CenterInv, CenterTyped, VersionCovers, ReadsCover, CopyCovers
    <2>3. WatchStands'
      BY <1>1, <1>2 DEF CenterInv, WatchStands
    <2> QED BY <2>1, <2>2, <2>3 DEF CenterInv
  <1>3. CASE stored[k] <= 0 /\ Forget
    <2>1. CenterTyped'
      BY <1>1, <1>3 DEF CenterInv, CenterTyped, Forget, Nothing
    <2>2. VersionCovers' /\ ReadsCover'
      BY <1>1, <1>3 DEF CenterInv, VersionCovers, ReadsCover, Forget
    <2>3. seen = base => stored[k] = -(base + 1)
      <3>1. stored[k] \in Int /\ base \in Nat /\ Stamp(stored[k]) <= base + 1 /\ Stamp(stored[k]) > seen
        BY <1>1, <1>3 DEF CenterInv, CenterTyped, ReadsCover
      <3> QED BY <1>3, <3>1 DEF Stamp
    <2>4. WatchStands'
      BY <1>1, <1>3, <2>3 DEF CenterInv, WatchStands, Forget
    <2> QED BY <2>1, <2>2, <2>4 DEF CenterInv
  <1> QED BY <1>2, <1>3 DEF GetChild

\* The watcher raises, or publishes what it read: the values first.
LEMMA PublishKeepsCenter ==
    ASSUME CenterInv, CallFails \/ PublishCache \/ PublishVersion
    PROVE  CenterInv'
  <1>1. CASE CallFails
    <2>1. CenterTyped'
      BY <1>1 DEF CenterInv, CenterTyped, CallFails, Forget, Nothing
    <2>2. VersionCovers' /\ ReadsCover' /\ WatchStands'
      BY <1>1 DEF CenterInv, VersionCovers, ReadsCover, WatchStands, CallFails, Forget
    <2> QED BY <2>1, <2>2 DEF CenterInv
  <1>2. CASE PublishCache
    <2>0. /\ step = "get" /\ listed = {} /\ localCache' = tmpCache /\ started' = TRUE
          /\ step' = "version"
          /\ UNCHANGED <<stored, base, cuts, link, event, armed, touched, seen, listed, tmpCache,
                         mainVersion>>
      BY <1>2 DEF PublishCache
    <2>1. CenterTyped'
      BY <2>0 DEF CenterInv, CenterTyped
    <2>2. \A k \in Settings : Stamp(stored[k]) \in Int /\ CopyCovers(tmpCache, seen, k)
      BY <2>0 DEF CenterInv, CenterTyped, ReadsCover, Stamp
    <2>3. VersionCovers' /\ ReadsCover'
      BY <2>0, <2>2 DEF CenterInv, CenterTyped, VersionCovers, ReadsCover, CopyCovers
    <2>4. WatchStands'
      BY <2>0 DEF CenterInv, WatchStands
    <2> QED BY <2>1, <2>3, <2>4 DEF CenterInv
  <1>3. CASE PublishVersion
    <2>0. /\ step = "version" /\ mainVersion' = seen /\ Forget
          /\ UNCHANGED <<stored, base, cuts, link, event, armed, touched, localCache, started>>
      BY <1>3 DEF PublishVersion
    <2>1. CenterTyped'
      BY <2>0 DEF CenterInv, CenterTyped, Forget, Nothing
    <2>2. VersionCovers' /\ ReadsCover'
      BY <2>0 DEF CenterInv, VersionCovers, ReadsCover, CopyCovers, Forget
    <2>3. WatchStands'
      BY <2>0 DEF CenterInv, ReadsCover, WatchStands, Forget
    <2> QED BY <2>1, <2>2, <2>3 DEF CenterInv
  <1> QED BY <1>1, <1>2, <1>3

\* The local copy is covered by its version, and a watch that stands is for the
\* version there is.
THEOREM CenterInvariant == CenterSpec => []CenterInv
  <1>1. CenterInv /\ [CenterNext]_centerVars => CenterInv'
    <2> SUFFICES ASSUME CenterInv, [CenterNext]_centerVars
                 PROVE  CenterInv'
      OBVIOUS
    <2>1. CASE UNCHANGED centerVars
      BY <2>1 DEF centerVars, CenterInv, CenterTyped, VersionCovers, ReadsCover, WatchStands, CopyCovers
    <2>2. CASE CenterNext
      BY <2>2, ChangeKeepsCenter, TouchKeepsCenter, LinkKeepsCenter, GetBaseKeepsCenter,
         ListKeepsCenter, GetChildKeepsCenter, PublishKeepsCenter DEF CenterNext
    <2> QED BY <2>1, <2>2
  <1> QED BY <1>1, InitCenter, PTL DEF CenterSpec

\* Whoever reads main_version and then a key of the local copy finds what was
\* published with that version, or something newer.
THEOREM VersionIsCovered == CenterSpec => []VersionCovers
  <1>1. CenterInv => VersionCovers
    BY DEF CenterInv
  <1> QED BY <1>1, CenterInvariant, PTL

\* A connected client with nothing to do knows the version of the base node, or
\* has met a deletion the publisher has not announced yet.
THEOREM VersionIsSettled == CenterSpec => []VersionSettles
  <1>1. CenterInv => VersionSettles
    BY DEF CenterInv, WatchStands, VersionSettles
  <1> QED BY <1>1, CenterInvariant, PTL

-----------------------------------------------------------------------------
(* The registry.                                                           *)

RegistrySpec == RegistryInit /\ [][RegistryNext]_registryVars

\* The node a watcher works at is one of those it still has to create.
WatcherTyped ==
    /\ owner \in [Znodes -> Nat] /\ session \in Nat
    /\ regEvent \in BOOLEAN /\ regDropped \in BOOLEAN /\ replace \in BOOLEAN
    /\ regStep \in {"idle", "create", "delete"}
    /\ todo \subseteq Znodes /\ entry \in todo \cup {"none"}
    /\ regStep = "delete" => entry # "none"

\* A watcher of a connected server has created what it no longer has to do, and
\* nobody has taken it since.
CreatedIsOwned ==
    regLink = "connected" /\ ~regEvent /\ ~regDropped /\ replace =>
        \A z \in Znodes : owner[z] = session \/ (regStep # "idle" /\ z \in todo)

RegistryInv == WatcherTyped /\ CreatedIsOwned

\* What a step leaves to the server, if it changes nodes of other sessions only.
LEMMA OthersKeepRegistry ==
    ASSUME RegistryInv, UNCHANGED <<session, regEvent, regDropped, replace, todo, entry, regStep>>,
           owner' \in [Znodes -> Nat],
           regLink' = "connected" =>
               /\ regLink = "connected"
               /\ \A z \in Znodes : owner[z] = session => owner'[z] = session
    PROVE  RegistryInv'
  BY DEF RegistryInv, WatcherTyped, CreatedIsOwned

\* The server's connection is opened, lost or closed, or its watcher begins.
LEMMA ServerLinkKeepsRegistry ==
    ASSUME RegistryInv,
           \/ \E b \in BOOLEAN : Register(b)
           \/ RegisterReturns \/ RegisterConnects \/ RegisterLoses \/ RegisterWatcher
    PROVE  RegistryInv'
  <1>1. ASSUME NEW b \in BOOLEAN, Register(b)
        PROVE  RegistryInv'
    BY <1>1 DEF Register, RegistryInv, WatcherTyped, CreatedIsOwned, treeVars
  <1>2. CASE RegisterReturns
    BY <1>2 DEF RegisterReturns, RegistryInv, WatcherTyped, CreatedIsOwned, treeVars
  <1>3. CASE RegisterConnects
    BY <1>3 DEF RegisterConnects, RegistryInv, WatcherTyped, CreatedIsOwned, treeVars
  <1>4. CASE RegisterLoses
    BY <1>4 DEF RegisterLoses, RegistryInv, WatcherTyped, CreatedIsOwned, treeVars
  <1>5. CASE RegisterWatcher
    BY <1>5 DEF RegisterWatcher, RegistryInv, WatcherTyped, CreatedIsOwned, treeVars
  <1> QED BY <1>1, <1>2, <1>3, <1>4, <1>5

\* A node is created, or found: one that exists is deleted first, or ends the
\* registration if it must not be.
LEMMA CreateKeepsRegistry ==
    ASSUME RegistryInv, NEW z \in Znodes, Create(z)
    PROVE  RegistryInv'
  <1>0. /\ regStep = "create"
        /\ entry = z \/ (entry = "none" /\ z \in todo)
        /\ UNCHANGED <<session, regLink, regEvent, regDropped, replace>>
    BY DEF Create
  <1>1. z \in todo
    BY <1>0, RegistryAssumption DEF RegistryInv, WatcherTyped, RegistryAssumption
  <1>2. CASE /\ owner' = [owner EXCEPT ![z] = session]
             /\ IF todo = {z} THEN RegisterEnds
                ELSE todo' = todo \ {z} /\ entry' = "none" /\ UNCHANGED regStep
    <2>1. /\ owner' \in [Znodes -> Nat] /\ owner'[z] = session
          /\ \A y \in Znodes : y # z => owner'[y] = owner[y]
      BY <1>2 DEF RegistryInv, WatcherTyped
    <2>2. CASE todo = {z}
      BY <1>0, <1>2, <2>1, <2>2 DEF RegisterEnds, RegistryInv, WatcherTyped, CreatedIsOwned
    <2>3. CASE todo # {z}
      BY <1>0, <1>2, <2>1, <2>3 DEF RegistryInv, WatcherTyped, CreatedIsOwned
    <2> QED BY <2>2, <2>3
  <1>3. CASE entry' = z /\ regStep' = "delete" /\ UNCHANGED <<todo, owner>>
    BY <1>0, <1>1, <1>3, RegistryAssumption
       DEF RegistryInv, WatcherTyped, CreatedIsOwned, RegistryAssumption
  <1>4. CASE ~replace /\ RegisterEnds /\ UNCHANGED owner
    BY <1>0, <1>4 DEF RegisterEnds, RegistryInv, WatcherTyped, CreatedIsOwned
  <1> QED BY <1>2, <1>3, <1>4 DEF Create, Nodes_Become, treeVars

\* The node that is in the way is deleted.
LEMMA DeleteKeepsRegistry ==
    ASSUME RegistryInv, Delete
    PROVE  RegistryInv'
  <1>1. /\ regStep = "delete" /\ regStep' = "create"
        /\ owner' = [owner EXCEPT ![entry] = 0]
        /\ UNCHANGED <<session, regLink, regEvent, regDropped, replace, todo, entry>>
    BY DEF Delete, Nodes_Become
  <1>2. entry \in todo /\ entry \in Znodes
    BY <1>1 DEF RegistryInv, WatcherTyped
  <1>3. owner' \in [Znodes -> Nat] /\ \A y \in Znodes : y # entry => owner'[y] = owner[y]
    BY <1>1, <1>2 DEF RegistryInv, WatcherTyped
  <1> QED BY <1>1, <1>2, <1>3 DEF RegistryInv, WatcherTyped, CreatedIsOwned

\* A watcher fails, and leaves behind what ZooKeeper made of its last call; or
\* the server crashes or closes.
LEMMA ServerEndsKeepsRegistry ==
    ASSUME RegistryInv, RegisterFails \/ ServerCrashes \/ RegisterCloses
    PROVE  RegistryInv'
  <1>1. UNCHANGED <<session, replace>>
        /\ (regLink' # "connected" \/ regEvent')
    BY DEF RegisterFails, ServerCrashes, RegisterCloses, RegisterForgotten, RegistryInv, WatcherTyped
  <1>2. CreatedIsOwned'
    BY <1>1 DEF CreatedIsOwned
  <1>3. owner' \in [Znodes -> Nat]
    <2>1. UNCHANGED owner \/ owner' = Without(session)
          \/ \E z \in Znodes : owner' = [owner EXCEPT ![z] = session] \/ owner' = [owner EXCEPT ![z] = 0]
      <3>1. CASE RegisterFails
        <4>1. todo \subseteq Znodes /\ (regStep = "delete" => entry \in Znodes)
          BY DEF RegistryInv, WatcherTyped
        <4> QED BY <3>1, <4>1 DEF RegisterFails, Nodes_Become, treeVars
      <3>2. CASE ServerCrashes \/ RegisterCloses
        BY <3>2 DEF ServerCrashes, RegisterCloses, Nodes_Become, treeVars
      <3> QED BY <3>1, <3>2
    <2> QED BY <2>1 DEF Without, RegistryInv, WatcherTyped
  <1>4. WatcherTyped'
    BY <1>1, <1>3 DEF RegisterFails, ServerCrashes, RegisterCloses, RegisterForgotten, RegisterEnds,
                      RegistryInv, WatcherTyped
  <1> QED BY <1>2, <1>4 DEF RegistryInv

\* A session that ends is not the one of a connected server.
LEMMA SessionEndsKeepsRegistry ==
    ASSUME RegistryInv, NEW s \in 1..session, SessionEnds(s)
    PROVE  RegistryInv'
  <1>1. /\ s < session \/ regLink \in {"none", "connecting"}
        /\ owner' = Without(s)
        /\ regLink' = IF s = session /\ regLink = "connecting" THEN "expired" ELSE regLink
        /\ UNCHANGED <<session, regEvent, regDropped, replace, todo, entry, regStep>>
    BY DEF SessionEnds, Nodes_Become
  <1>2. owner' \in [Znodes -> Nat] /\ \A z \in Znodes : owner[z] # s => owner'[z] = owner[z]
    BY <1>1 DEF Without, RegistryInv, WatcherTyped
  <1>3. regLink' = "connected" => regLink = "connected" /\ session # s
    BY <1>1 DEF RegistryInv, WatcherTyped
  <1> QED BY <1>1, <1>2, <1>3, OthersKeepRegistry

\* The client owns no nodes.
LEMMA ClientKeepsRegistry ==
    ASSUME RegistryInv,
           \/ Discovery \/ DiscoveryReturns \/ DiscoveryConnects \/ DiscoveryLoses
           \/ DiscoveryWatcher \/ ChildrenChanged \/ GetChildren \/ ListFails \/ Publish
           \/ DiscoveryCloses
    PROVE  RegistryInv'
  <1>1. UNCHANGED <<regVars, owner>>
    BY DEF Discovery, DiscoveryReturns, DiscoveryConnects, DiscoveryLoses, DiscoveryWatcher,
           ChildrenChanged, GetChildren, ListFails, Publish, DiscoveryCloses, treeVars
  <1> QED BY <1>1, OthersKeepRegistry DEF regVars, RegistryInv, WatcherTyped

\* What a watcher of a connected server has done stays done.
THEOREM RegistryInvariant == RegistrySpec => []RegistryInv
  <1>1. RegistryInit => RegistryInv
    <2>1. RegistryInit => WatcherTyped
      <3> SUFFICES ASSUME RegistryInit
                   PROVE  WatcherTyped
        OBVIOUS
      <3>1. owner \in [Znodes -> Nat] /\ session \in Nat
        BY DEF RegistryInit
      <3>2. regEvent \in BOOLEAN /\ regDropped \in BOOLEAN /\ replace \in BOOLEAN
        BY DEF RegistryInit
      <3>3. regStep = "idle" /\ todo = {} /\ entry = "none"
        BY DEF RegistryInit
      <3> QED BY <3>1, <3>2, <3>3 DEF WatcherTyped
    <2>2. RegistryInit => CreatedIsOwned
      BY DEF RegistryInit, CreatedIsOwned
    <2> QED BY <2>1, <2>2 DEF RegistryInv
  <1>2. RegistryInv /\ [RegistryNext]_registryVars => RegistryInv'
    <2> SUFFICES ASSUME RegistryInv, [RegistryNext]_registryVars
                 PROVE  RegistryInv'
      OBVIOUS
    <2>1. CASE UNCHANGED registryVars
      BY <2>1, OthersKeepRegistry DEF registryVars, regVars, treeVars, RegistryInv, WatcherTyped
    <2>2. CASE RegistryNext
      BY <2>2, ServerLinkKeepsRegistry, CreateKeepsRegistry, DeleteKeepsRegistry,
         ServerEndsKeepsRegistry, SessionEndsKeepsRegistry, ClientKeepsRegistry DEF RegistryNext
    <2> QED BY <2>1, <2>2
  <1> QED BY <1>1, <1>2, PTL DEF RegistrySpec

\* A connected server whose watcher is done owns its nodes, whatever earlier
\* runs, lost connections and ambiguous calls left behind.
THEOREM ServerIsAnnounced == RegistrySpec => []AnnouncedWhenConnected
  <1>1. RegistryInv => AnnouncedWhenConnected
    BY DEF RegistryInv, CreatedIsOwned, AnnouncedWhenConnected
  <1> QED BY <1>1, RegistryInvariant, PTL
=============================================================================
