------------------------------ MODULE Freshness ------------------------------
(***************************************************************************)
(* The acquisition-freshness store, data/acquisition.json, and the         *)
(* decisions taken over it (freshness/src).  The unit that is acquired     *)
(* again is a directory for structure and a route for behavior; the signal *)
(* is the content of the watched files, and the time since the last        *)
(* acquisition.                                                            *)
(***************************************************************************)
EXTENDS Integers, Sequences, FiniteSets, Functions

CONSTANTS Ttl  \* acquisitions older than this many units of time have expired

ASSUME TtlAssumption == Ttl \in Nat

emptyStore == [structure |-> <<>>, behavior |-> <<>>]

\* An absent file reads as an empty store.
readStore(file) == IF file = <<>> THEN emptyStore ELSE file[1]
writeStore(store) == <<store>>

ttlExceeded(at, now) == now - at > Ttl

\* Directories that hold a watched file, each with the hashes of those.
scanByDir(tree) ==
    LET watched(dir) == {file \in DOMAIN tree[dir] : tree[dir][file].watched}
    IN [dir \in {d \in DOMAIN tree : watched(d) # {}} |->
          [file \in watched(dir) |-> tree[dir][file].hash]]

\* Faulty variant: only the names of the files count.
sameNames(a, b) == DOMAIN a = DOMAIN b

\* The same paths with the same hashes.
sameHashes(a, b) == a = b

\* Directories never seen, expired or changed.  A directory that is gone is in
\* no scan, and stale for no one.
staleDirs(store, current, now) ==
    {dir \in DOMAIN current :
        \/ dir \notin DOMAIN store.structure
        \/ ttlExceeded(store.structure[dir].at, now)
        \/ ~sameHashes(store.structure[dir].files, current[dir])}

\* The entries of the keys of "new" replace or join those of "old".
Overlay(old, new) == [k \in DOMAIN old \cup DOMAIN new |->
                        IF k \in DOMAIN new THEN new[k] ELSE old[k]]

recordStructure(store, acquired, now) ==
    [store EXCEPT !.structure =
        Overlay(@, [dir \in DOMAIN acquired |-> [at |-> now, files |-> acquired[dir]]])]

routeDelta(previous, current) ==
    [added |-> current \ previous, removed |-> previous \ current]

\* Without hashes of its view files a page only ages.
stalePages(store, routes, now, addedRoutes) ==
    {route \in routes :
        \/ route \in addedRoutes \/ route \notin DOMAIN store.behavior
        \/ ttlExceeded(store.behavior[route], now)}

planBehaviorCrawl(routes, store, now) ==
    LET delta == routeDelta(DOMAIN store.behavior, routes)
        stale == stalePages(store, routes, now, delta.added)
    IN [toCrawl |-> stale, toSkip |-> routes \ stale, toDrop |-> delta.removed]

\* The pages just crawled; what is not live any more is dropped.
recordBehavior(store, crawled, now, liveRoutes) ==
    [store EXCEPT !.behavior =
        Restrict(Overlay(@, [route \in crawled |-> now]), liveRoutes)]
=============================================================================
