-------------------------------- MODULE Viewer --------------------------------
(***************************************************************************)
(* The viewer: what its server derives from data/ at every request, with   *)
(* no state of its own (viewer/src).  `disk' is data/; a file that may be  *)
(* missing is <<>> or <<content>>, and a missing one reads as empty.       *)
(***************************************************************************)
EXTENDS Verification, BehaviorEmit, Sitemap

ContentOr(file, otherwise) == IF file = <<>> THEN otherwise ELSE file[1]

-------------------------------------------------------------------------------
(* view-model.ts: the information model and the reconciled concepts.         *)

noRdra == [entities |-> <<>>, usecases |-> <<>>,
           crud |-> [gaps |-> {}, danglingUsecases |-> {}]]

viewEntity(e, gaps) ==
    [name |-> e.name, crud |-> e.crud, dependsOn |-> e.dependsOn,
     dependedOnBy |-> e.dependedOnBy,
     missing |-> UNION {g.missing : g \in {g \in gaps : g.entity = e.name}}]

\* Usecases of one name are one group: what any has, each of its entities gets.
usecaseGroup(usecases) ==
    [routes   |-> UNION {ToSet(u.route) : u \in usecases},
     entities |-> UNION {u.entities : u \in usecases},
     crud     |-> UNION {u.crud : u \in usecases}]

reconcileRow(id, row) ==
    [conceptId |-> id, state |-> row.state, intent |-> row.intent # {},
     structure |-> Cardinality(row.structure), behavior |-> Cardinality(row.behavior),
     decisions |-> row.decisions, divergences |-> row.divergences]

buildViewModel(disk) ==
    LET rdra == ContentOr(disk.rdra, noRdra)
        view == ContentOr(disk.unified, <<>>)
        rows == {reconcileRow(id, view[id]) : id \in DOMAIN view}
        named(name) == {u \in ToSet(rdra.usecases) : u.name = name}
    IN [entities      |-> MapSeq(rdra.entities, LAMBDA e : viewEntity(e, rdra.crud.gaps)),
        relationships |-> UNION {{<<e.name, d>> : d \in ToSet(e.dependsOn)} :
                                    e \in ToSet(rdra.entities)},
        usecases      |-> [name \in {u.name : u \in ToSet(rdra.usecases)} |->
                              usecaseGroup(named(name))],
        routes        |-> {row \in rows : row.conceptId[1] = "concept:route"},
        reconcile     |-> rows]

-------------------------------------------------------------------------------
(* dashboard-model.ts: which menu has something to show.                     *)

checkArtifacts(disk) ==
    {file \in {"intent", "aggregates", "rdra", "unified", "behavior", "transactions",
               "sitemap", "mapping"} : disk[file] # <<>>}

\* The structure menu is content with an old view.
buildGuidance(artifacts) ==
    LET structureOk == artifacts \cap {"rdra", "unified"} # {}
    IN [menu \in {"intent", "structure", "behavior-traffic", "behavior-sitemap",
                  "observability"} |->
          CASE menu = "intent"           -> "intent" \in artifacts
            [] menu = "structure"        -> structureOk
            [] menu = "behavior-traffic" -> "transactions" \in artifacts /\ structureOk
            [] menu = "behavior-sitemap" -> "sitemap" \in artifacts
            [] OTHER -> {"unified", "intent", "behavior"} \subseteq artifacts]

-------------------------------------------------------------------------------
(* intent-model.ts: the events and transitions of the glossary, and the      *)
(* aggregates with their entities, joined by concept id.                     *)

OfKind(nodes, kind) == Only(nodes, {n \in ToSet(nodes) : n.nodeId[1] = kind})

joinIntentModel(disk) ==
    LET mapping == ContentOr(disk.mapping, {})
        inside(id) == {p \in mapping : p.aggregate = id}
    IN [events      |-> OfKind(disk.intent, "intent:event"),
        transitions |-> OfKind(disk.intent, "intent:transition"),
        aggregates  |-> MapSeq(ContentOr(disk.aggregates, <<>>), LAMBDA a :
                          [conceptId |-> a.conceptId, members |-> a.members,
                           entities |-> inside(a.conceptId)]),
        unassigned  |-> inside(NoId)]

-------------------------------------------------------------------------------
(* traffic-model.ts: recorded traffic by route, edges by page, mutations by  *)
(* page on the sitemap.                                                      *)

extractStructureRoutes(structure) == Only(structure, RouteNodes(structure))

\* Route -> the verdict of its last recorded mutation that has one.
extractTxPersistence(behavior) ==
    LET judged == Only(behavior, {n \in ToSet(behavior) : n.nodeId[1] = "behavior:tx"
                                                          /\ "persisted" \in DOMAIN n})
        last(key) == SelectLastInSeq(judged, LAMBDA n : n.route = key)
    IN [key \in {n.route : n \in ToSet(judged)} |-> judged[last(key)].persisted]

\* Faulty variant: the route as it was recorded.
TxKeyVerbatim(tx) == [method |-> tx.method, path |-> tx.path]

TxKey(tx) == normalizeRoute([method |-> tx.method, path |-> tx.path])

\* Groups of the routes the structure knows; the first of a key names it.
joinTrafficRoutes(routes, txs, persisted) ==
    LET known == {KeyOf(r) : r \in ToSet(routes)}
        first(key) == routes[SelectInSeq(routes, LAMBDA r : KeyOf(r) = key)]
    IN [key \in known \cap {TxKey(t) : t \in ToSet(txs)} |->
          [route     |-> first(key).route,
           txs       |-> Only(txs, {t \in ToSet(txs) : TxKey(t) = key}),
           persisted |-> IF key \in DOMAIN persisted THEN <<persisted[key]>> ELSE <<>>]]

\* Only pages the structure has a GET route for.
joinTrafficPages(edges, routes) ==
    LET gets == {KeyOf(r) : r \in {r \in ToSet(routes) : r.route.method = "GET"}}
    IN [path \in {e.from : e \in {e \in ToSet(edges) :
                                    normalizeRoute(Visit(e.from)) \in gets}} |->
            SelectSeq(edges, LAMBDA e : e.from = path)]

buildTrafficModel(disk) ==
    LET routes == extractStructureRoutes(disk.structure)
    IN [routes |-> joinTrafficRoutes(routes, ContentOr(disk.transactions, <<>>),
                                     extractTxPersistence(disk.behavior)),
        pages  |-> joinTrafficPages(ContentOr(disk.edges, <<>>), routes)]

\* Page -> its mutations; a record without a page has none.
joinPageMutations(txs) ==
    LET mutations == SelectSeq(txs, LAMBDA t : t.page # <<>> /\ t.method # "GET")
        On(path) == SelectSeq(mutations, LAMBDA t : t.page = <<path>>)
    IN [path \in {t.page[1] : t \in ToSet(mutations)} |-> On(path)]

\* Pages of the tree carry their mutations; orphans do not.
readSitemapModel(disk) ==
    IF disk.sitemap = <<>> THEN <<>>
    ELSE LET sitemap   == disk.sitemap[1]
             mutations == joinPageMutations(ContentOr(disk.transactions, <<>>))
         IN <<[orphans |-> sitemap.orphans,
               tree    |-> [path \in sitemap.tree |->
                              IF path \in DOMAIN mutations THEN mutations[path] ELSE <<>>]]>>

-------------------------------------------------------------------------------
(* diff-assemble.ts, diff-view.ts: intent and structure side by side, and    *)
(* where behavior was seen.                                                  *)

\* Letters only; no name reads as the root path does.  No layer emits events
\* of the behavior.
norm(name)     == IF name = None THEN <<>> ELSE <<Letters[name]>>
normOf(path)   == MapSeq(path, LAMBDA segment : Letters[segment])
normPath(path) == MapSeq(path, LAMBDA segment : Lower[segment])

intentEvents(disk) == OfKind(disk.intent, "intent:event")
structureEvents(disk) == OfKind(disk.structure, "structure:event")
NormNames(nodes) == {norm(n.localName) : n \in ToSet(nodes)}

\* Rows of the glossary's events; an event only the code knows is a candidate.
diffEvents(disk) ==
    LET inCode == NormNames(structureEvents(disk))
        rows   == intentEvents(disk)
    IN [rows       |-> MapSeq(rows, LAMBDA n :
                          [name |-> n.localName, aligned |-> norm(n.localName) \in inCode]),
        candidates |-> {n.localName : n \in {n \in ToSet(structureEvents(disk)) :
                            norm(n.localName) \notin NormNames(rows)}}]

\* Transitions meet in their target state: the first of the code stands for all.
diffTransitions(disk) ==
    LET rows  == OfKind(disk.intent, "intent:transition")
        code  == OfKind(disk.structure, "structure:transition")
        clicks == OfKind(disk.behavior, "behavior:transition")
        targets == {norm(n.raw.to) : n \in ToSet(rows)}
        first(n) == SelectInSeq(code, LAMBDA s : norm(s.raw.to) = norm(n.raw.to))
    IN [rows       |-> MapSeq(rows, LAMBDA n :
                          [node |-> n, code |-> IF first(n) = 0 THEN <<>>
                                                ELSE <<code[first(n)]>>]),
        candidates |-> {n \in ToSet(code) : norm(n.raw.to) \notin targets}
                       \cup {n \in ToSet(clicks) : normOf(n.raw.to) \notin targets}]

\* Pages and the ends of transitions; recorded mutations do not count.
observedPaths(disk) ==
    {normPath(n.route.path) : n \in ToSet(OfKind(disk.behavior, "behavior:page"))}
    \cup UNION {{normPath(n.raw.from), normPath(n.raw.to)} :
                   n \in ToSet(OfKind(disk.behavior, "behavior:transition"))}

\* Every event with each route the code traced it to, or with none.
eventRoutes(disk) ==
    LET of(key) == {r.route : r \in {r \in RouteNodes(disk.structure) :
                                        \E e \in r.raw.events : norm(e) = key}}
        keys   == NormNames(intentEvents(disk)) \cup NormNames(structureEvents(disk))
        EventRow(key, route) ==
            [event     |-> key, route |-> route,
             intent    |-> key \in NormNames(intentEvents(disk)),
             structure |-> key \in NormNames(structureEvents(disk)),
             observed  |-> \E r \in ToSet(route) : normPath(r.path) \in observedPaths(disk)]
    IN UNION {IF of(key) = {} THEN {EventRow(key, <<>>)}
              ELSE {EventRow(key, <<route>>) : route \in of(key)} : key \in keys}

\* The worst class first.
sortedFindings(findings) ==
    MapSeq(<<"bug", "uncertain", "unnecessary">>,
           LAMBDA class : {f \in findings : f.verdict.classification = class})

assembleDiff(disk) ==
    LET boundary == ContentOr(disk.boundary, [routes |-> {}, findings |-> {}])
    IN [events         |-> diffEvents(disk),
        transitions    |-> diffTransitions(disk),
        eventRoutes    |-> eventRoutes(disk),
        findings       |-> sortedFindings(ContentOr(disk.findings, {})),
        boundaries     |-> boundary.findings,
        boundaryRoutes |-> boundary.routes]

-------------------------------------------------------------------------------
(* api.ts: every request reads data/ afresh.                                 *)

apiRoutes(disk) ==
    [dashboard |-> buildGuidance(checkArtifacts(disk)),
     intent    |-> joinIntentModel(disk),
     traffic   |-> buildTrafficModel(disk),
     sitemap   |-> readSitemapModel(disk),
     viewModel |-> buildViewModel(disk),
     diff      |-> assembleDiff(disk)]
===============================================================================
