-------------------------------- MODULE Spine --------------------------------
(***************************************************************************)
(* The spine: the files of data/ through which the layers meet, and the    *)
(* commands that write them (cli/src/index.ts): intent, analyze-structure  *)
(* with the corrections overlay, the behavior crawl and its emit,          *)
(* reconcile, verify and clear.  Between two commands the code, the        *)
(* glossary, the ADRs and decisions.json may change.                       *)
(*                                                                         *)
(* One command runs at a time; an action is the code up to the next write, *)
(* and a crash may come between two writes.  A file that may be missing is *)
(* <<>> or <<content>>; the three node files are empty when missing.       *)
(***************************************************************************)
EXTENDS Viewer, Extraction

CONSTANTS
    Glossaries, Workspaces, Crawls,  \* what a layer may find
    Legacy,                        \* what earlier sessions may have emitted
    Corrections,                   \* corrections a human may record one after another
    AdrFiles, DecisionFiles,       \* contents of the ADR file and of decisions.json
    MaxEdits, MaxReconciles, MaxCorrections, MaxCrashes  \* bounds of the model

Extracts == {analyze(workspace) : workspace \in Workspaces}

ASSUME BoundsAssumption ==
    {MaxEdits, MaxReconciles, MaxCorrections, MaxCrashes} \subseteq Nat

ASSUME ShapesAssumption ==
    /\ \A g \in Glossaries \cup UNION {ToSet(old.glossary) : old \in Legacy} : GlossaryShape(g)
    /\ \A x \in Extracts \cup UNION {ToSet(old.extract) : old \in Legacy} : ExtractShape(x)
    /\ \A c \in Crawls \cup UNION {ToSet(old.crawl) : old \in Legacy} : CrawlShape(c)
    /\ \A old \in Legacy : \A file \in {old.glossary, old.extract, old.crawl} :
          file = <<>> \/ file = <<file[1]>>

ASSUME FilesAssumption ==
    /\ Corrections \subseteq Seq(Correction)
    /\ \A file \in AdrFiles \cup DecisionFiles : IsSequence(file)

VARIABLES
    corrections,      \* structure.corrections.json
    adrs, decisions,  \* the ADR file, decisions.json
    runs,             \* .e2e/runs: the artifacts of each kind, the newest last
    disk,             \* data/
    job,              \* the command under way
    fresh,            \* history: derived files that follow from the current inputs
    edits, reconciles, crashes

humanVars   == <<corrections, adrs, decisions>>
counterVars == <<edits, reconciles, crashes>>
vars == <<humanVars, runs, disk, job, fresh, counterVars>>

Idle == [stage |-> "idle"]

emptyDisk ==
    [intent |-> <<>>, aggregates |-> <<>>, structure |-> <<>>, rdra |-> <<>>,
     behavior |-> <<>>, transactions |-> <<>>, edges |-> <<>>, sitemap |-> <<>>,
     registry |-> <<>>, unified |-> <<>>, mapping |-> <<>>, findings |-> <<>>,
     boundary |-> <<>>]

noRuns == [reports |-> <<>>, transactions |-> <<>>, saved |-> <<>>, results |-> <<>>]

\* writeStructureOutputs: the nodes and the model for readers.
StructureOutputs(extract, made) ==
    LET applied == applyCorrections(extract, made)
    IN [structure |-> emitStructureNodes(applied.extract, applied.corrected),
        rdra      |-> <<buildRdraArtifacts(applied.extract)>>]

\* The copy of the recorded transactions, and the sitemap of the pages of the
\* newest report over the edges of the newest search.
Bridge(artifacts) == <<Latest(artifacts.transactions, <<>>)>>

SitemapOf(artifacts, edges) ==
    <<buildSitemap(edges, {page.path : page \in ToSet(Last(artifacts.reports).pages)})>>

\* Layers emitted by an earlier session; each may be missing.
Emitted(glossary, extract, crawl) ==
    LET out == StructureOutputs(extract[1], <<>>)
    IN [emptyDisk EXCEPT
          !.intent       = IF glossary = <<>> THEN @ ELSE emitIntentNodes(glossary[1]),
          !.aggregates   = IF glossary = <<>> THEN @ ELSE <<deriveAggregates(glossary[1])>>,
          !.structure    = IF extract = <<>> THEN @ ELSE out.structure,
          !.rdra         = IF extract = <<>> THEN @ ELSE out.rdra,
          !.behavior     = IF crawl = <<>> THEN @ ELSE runEmit(crawl[1]),
          !.transactions = IF crawl = <<>> THEN @ ELSE Bridge(crawl[1]),
          !.edges        = IF crawl = <<>> THEN @ ELSE <<crawl[1].edges>>,
          !.sitemap      = IF crawl = <<>> THEN @ ELSE SitemapOf(crawl[1], crawl[1].edges)]

ArtifactsOf(crawl) == [kind \in DOMAIN noRuns |-> crawl[kind]]

Init ==
    /\ corrections = <<>> /\ adrs = <<>> /\ decisions = <<>>
    /\ \E old \in Legacy :
          /\ disk = Emitted(old.glossary, old.extract, old.crawl)
          /\ runs = IF old.crawl = <<>> THEN noRuns ELSE ArtifactsOf(old.crawl[1])
    /\ job = Idle /\ fresh = {}
    /\ edits = 0 /\ reconciles = 0 /\ crashes = 0

\* An input changes: nothing derived follows from the inputs any more.
Edit ==
    /\ job = Idle
    /\ edits < MaxEdits
    /\ edits' = edits + 1
    /\ fresh' = {}
    /\ UNCHANGED <<reconciles, crashes>>

-------------------------------------------------------------------------------
(* The human's files.                                                        *)

EditAdrs == Edit /\ \E file \in AdrFiles \ {adrs} : adrs' = file
            /\ UNCHANGED <<corrections, decisions, runs, disk, job>>

Decide == Edit /\ \E file \in DecisionFiles \ {decisions} : decisions' = file
          /\ UNCHANGED <<corrections, adrs, runs, disk, job>>

\* correct-cli.ts appends, once per correction; the structure files change only
\* with the next emit.
RecordCorrection ==
    /\ Edit
    /\ \E batch \in Corrections :
          /\ Len(corrections \o batch) <= MaxCorrections
          /\ corrections' = corrections \o batch
    /\ UNCHANGED <<adrs, decisions, runs, disk, job>>

-------------------------------------------------------------------------------
(* The layers.                                                               *)

\* cmdIntent: the nodes, then the aggregate roster.
EmitIntent ==
    /\ Edit
    /\ \E glossary \in Glossaries :
          /\ disk' = [disk EXCEPT !.intent = emitIntentNodes(glossary)]
          /\ job' = [stage |-> "aggregates", glossary |-> glossary]
    /\ UNCHANGED <<humanVars, runs>>

WriteAggregates ==
    /\ job.stage = "aggregates"
    /\ disk' = [disk EXCEPT !.aggregates = <<deriveAggregates(job.glossary)>>]
    /\ job' = Idle
    /\ UNCHANGED <<humanVars, runs, fresh, counterVars>>

\* writeStructureOutputs on whatever the code is now; its files are written
\* concurrently.
AnalyzeStructure ==
    /\ Edit
    /\ \E extract \in Extracts :
          job' = [stage |-> "structure", extract |-> extract,
                  out |-> StructureOutputs(extract, corrections)]
    /\ UNCHANGED <<humanVars, runs, disk>>

EmitStructure ==
    /\ job.stage = "structure"
    /\ \E file \in DOMAIN job.out :
          /\ disk' = [disk EXCEPT ![file] = job.out[file]]
          /\ job' = IF DOMAIN job.out = {file} THEN Idle
                    ELSE [job EXCEPT !.out = Restrict(@, DOMAIN @ \ {file})]
    /\ UNCHANGED <<humanVars, runs, fresh, counterVars>>

\* A crawl leaves the edges of its search and its report; recorded mutations,
\* saved columns and CRUD results only when it recorded and probed.
Crawl ==
    /\ Edit
    /\ \E crawl \in Crawls :
          /\ disk' = [disk EXCEPT !.edges = <<crawl.edges>>]
          /\ runs' = [kind \in DOMAIN runs |-> runs[kind] \o crawl[kind]]
    /\ job' = [stage |-> "emit"]
    /\ UNCHANGED humanVars

EmitBehavior ==
    /\ job.stage = "emit"
    /\ disk' = [disk EXCEPT !.behavior = runEmit(runs)]
    /\ job' = [stage |-> "bridge"]
    /\ UNCHANGED <<humanVars, runs, fresh, counterVars>>

BridgeTransactions ==
    /\ job.stage = "bridge"
    /\ disk' = [disk EXCEPT !.transactions = Bridge(runs)]
    /\ job' = [stage |-> "sitemap"]
    /\ UNCHANGED <<humanVars, runs, fresh, counterVars>>

\* Without edges there is nothing to build.
WriteSitemap ==
    /\ job.stage = "sitemap"
    /\ disk' = IF disk.edges = <<>> THEN disk
               ELSE [disk EXCEPT !.sitemap = SitemapOf(runs, disk.edges[1])]
    /\ job' = Idle
    /\ fresh' = fresh \cup {"behavior"}
    /\ UNCHANGED <<humanVars, runs, counterVars>>

-------------------------------------------------------------------------------
(* reconcile: the registry, the unified view, the mapping.                   *)

Inputs ==
    [intent |-> disk.intent, structure |-> disk.structure, behavior |-> disk.behavior,
     adrs |-> adrs]

Registry == IF disk.registry = <<>> THEN emptyRegistry ELSE disk.registry[1]

\* Everything is read before anything is written; only the registry is both.
StartReconcile ==
    /\ job = Idle
    /\ reconciles < MaxReconciles
    /\ reconciles' = reconciles + 1
    /\ job' = [stage |-> "registry", prior |-> Registry,
                out |-> reconcile(Inputs, Registry, decisions)]
    /\ UNCHANGED <<humanVars, runs, disk, fresh, edits, crashes>>

WriteRegistry ==
    /\ job.stage = "registry"
    /\ IF validateRegistry(job.out.registry)
       THEN /\ disk' = [disk EXCEPT !.registry = <<job.out.registry>>]
            /\ job' = [job EXCEPT !.stage = "unified"]
            /\ fresh' = (fresh \ {"unified", "mapping"}) \cup {"registry"}
       ELSE job' = [job EXCEPT !.stage = "registry rejected"] /\ UNCHANGED <<disk, fresh>>
    /\ UNCHANGED <<humanVars, runs, counterVars>>

WriteUnified ==
    /\ job.stage = "unified"
    /\ IF validateUnified(job.out.unified)
       THEN /\ disk' = [disk EXCEPT !.unified = <<job.out.unified>>]
            /\ job' = [job EXCEPT !.stage = "mapping"]
            /\ fresh' = fresh \cup {"unified"}
       ELSE job' = [job EXCEPT !.stage = "unified rejected"] /\ UNCHANGED <<disk, fresh>>
    /\ UNCHANGED <<humanVars, runs, counterVars>>

\* Best effort: without the view or the roster nothing is derived.
WriteMapping ==
    /\ job.stage = "mapping"
    /\ job' = Idle
    /\ IF disk.aggregates = <<>> THEN UNCHANGED <<disk, fresh>>
       ELSE /\ disk' = [disk EXCEPT !.mapping =
                          <<deriveAggregateEntityMapping(disk.unified[1], disk.aggregates[1])>>]
            /\ fresh' = fresh \cup {"mapping"}
    /\ UNCHANGED <<humanVars, runs, counterVars>>

\* A rejected write throws: the command ends.
EndRejected ==
    /\ job.stage \in {"registry rejected", "unified rejected"}
    /\ job' = Idle
    /\ UNCHANGED <<humanVars, runs, disk, fresh, counterVars>>

-------------------------------------------------------------------------------
(* verify: the findings of the view, then the boundary of the nodes.         *)

Verify ==
    /\ job = Idle
    /\ disk.unified # <<>>
    /\ disk' = [disk EXCEPT !.findings = <<verifyUnified(disk.unified[1])>>]
    /\ job' = [stage |-> "boundary"]
    /\ UNCHANGED <<humanVars, runs, fresh, counterVars>>

WriteBoundary ==
    /\ job.stage = "boundary"
    /\ disk' = [disk EXCEPT !.boundary =
                  <<buildBoundaryReport(disk.structure, disk.behavior)>>]
    /\ job' = Idle
    /\ fresh' = fresh \cup {"boundary"}
                \cup IF "unified" \in fresh THEN {"findings"} ELSE {}
    /\ UNCHANGED <<humanVars, runs, counterVars>>

-------------------------------------------------------------------------------
(* clear, and crashes.                                                       *)

ClearedFiles ==
    [phase \in {"intent", "structure", "behavior", "everything", "all"} |->
        CASE phase = "intent"     -> {"intent", "aggregates"}
          [] phase = "structure"  -> {"structure", "rdra"}
          [] phase = "behavior"   -> {"behavior", "transactions", "edges", "sitemap"}
          [] phase = "everything" -> DOMAIN disk \ {"registry"}
          [] OTHER                -> DOMAIN disk]

\* corrections and, unless --all, the registry and the decisions are kept.
Clear ==
    /\ Edit
    /\ \E phase \in DOMAIN ClearedFiles :
          /\ disk' = [file \in DOMAIN disk |->
                        IF file \in ClearedFiles[phase] THEN <<>> ELSE disk[file]]
          /\ runs' = IF phase \in {"intent", "structure"} THEN runs ELSE noRuns
          /\ decisions' = IF phase = "all" THEN <<>> ELSE decisions
    /\ UNCHANGED <<corrections, adrs, job>>

Crash ==
    /\ job # Idle
    /\ crashes < MaxCrashes
    /\ crashes' = crashes + 1
    /\ job' = Idle
    /\ UNCHANGED <<humanVars, runs, disk, fresh, edits, reconciles>>

Next ==
    \/ EditAdrs \/ Decide \/ RecordCorrection
    \/ EmitIntent \/ WriteAggregates \/ AnalyzeStructure \/ EmitStructure
    \/ Crawl \/ EmitBehavior \/ BridgeTransactions \/ WriteSitemap
    \/ StartReconcile \/ WriteRegistry \/ WriteUnified \/ WriteMapping \/ EndRejected
    \/ Verify \/ WriteBoundary
    \/ Clear \/ Crash

Spec == Init /\ [][Next]_vars

-------------------------------------------------------------------------------
(* Properties.                                                               *)

\* No node of another route has the id.
IsTold(node, behavior) ==
    \A n \in ToSet(behavior) : n.nodeId = node.nodeId => KeyOf(n) = KeyOf(node)

\* Every structure entity and every observation has its place in exactly one
\* concept of the view, whether the matcher, a human, the classification or
\* the route leftovers placed it (pipeline.ts: entityNameToConceptId,
\* consumedBehavior and the synthesized concepts partition the nodes).  The
\* claims are by node id: of transitions whose slugs collide, one may claim
\* another's place, and these are left out.
EveryNodeHasOneConcept ==
    job.stage = "registry" =>
        \A node \in EntityNodes(disk.structure)
                     \cup {n \in ToSet(disk.behavior) : IsTold(n, disk.behavior)} :
            Cardinality({id \in DOMAIN job.out.unified :
                node \in job.out.unified[id].structure \cup job.out.unified[id].behavior}) = 1

\* What a layer emitted and its reconciler linked fits the contract: once the
\* registry is written, the view is too (validate.ts:13-14, "mirror model.ts").
ViewFitsContract == job.stage # "unified rejected"

\* Burn-in: an entity a human has placed is not queued again by the next
\* reconcile as long as its concept exists and no new decision names it
\* (queue.ts:4-8), although a crash or a rejected view came in between.
DecidedIsNotAskedAgain ==
    job.stage = "registry" =>
        \A id \in DOMAIN priorHumanMatches(job.prior) :
            \/ id[2] \notin job.out.queue
            \/ priorHumanMatches(job.prior)[id] \notin
                    {n.raw.conceptId : n \in {n \in ToSet(disk.intent) : isConceptNode(n)}}
            \/ \E d \in ToSet(decisions) : EntityId(d.entity) = id

\* Reconciling again with nothing changed but the registry just written gives
\* the same registry and the same queue: decisions settle in one run.
ReconcileSettles ==
    job.stage = "unified" =>
        LET again == reconcile(Inputs, Registry, decisions)
        IN again.registry = job.out.registry /\ again.queue = job.out.queue

\* No command and no crash leaves a registry or a view the next one cannot read,
\* and the files derived from the current inputs tell one story: the view has
\* the registry's concepts and states, the findings are about concepts of the
\* registry, and the mapping places every entity of the view once.
DerivedFilesAgree ==
    /\ disk.registry # <<>> => validateRegistry(disk.registry[1])
    /\ disk.unified # <<>> => validateUnified(disk.unified[1])
    /\ {"registry", "unified"} \subseteq fresh =>
          /\ DOMAIN disk.unified[1] = DOMAIN disk.registry[1].concepts
          /\ \A id \in DOMAIN disk.unified[1] :
                disk.unified[1][id].state = disk.registry[1].concepts[id].state
    /\ {"registry", "findings"} \subseteq fresh =>
          \A f \in disk.findings[1] :
              /\ f.concept \in DOMAIN disk.registry[1].concepts
              /\ f.category # "runtime-error" =>
                    discrepancyFor[disk.registry[1].concepts[f.concept].state] = f.category
    /\ "mapping" \in fresh =>
          \A id \in DOMAIN disk.registry[1].concepts :
              \A node \in disk.registry[1].concepts[id].nodes :
                  node[1] = "structure:entity" =>
                      Cardinality({p \in disk.mapping[1] : p.node = node}) = 1

\* The two checks agree on what was observed: a route reported as unverified
\* or as undocumented is unobserved or undeclared at the boundary too, and a
\* declared route no page and no transaction reached is reported, reached by a
\* recorded transition, or folded into a domain concept.
ChecksAgree ==
    {"unified", "findings"} \subseteq fresh /\ job = Idle =>
        LET view == disk.unified[1]
            reported(key) == {f.category : f \in {f \in disk.findings[1] :
                                                  f.concept = RouteId(key)}}
            folded == {KeyOf(n) : n \in {n \in ToSet(disk.structure) :
                          isRouteNode(n) /\ RouteId(KeyOf(n)) \notin DOMAIN view}}
            reached == {KeyOf(n) : n \in {n \in ToSet(disk.behavior) :
                          n.raw.kind = "transition"}}
        IN \A b \in disk.boundary[1].routes :
              /\ "unverified-build" \in reported(b.route) => ~b.behavior
              /\ "undocumented-runtime" \in reported(b.route) => ~b.structure
              /\ b.structure /\ ~b.behavior =>
                    \/ "unverified-build" \in reported(b.route)
                    \/ b.route \in folded \cup reached

\* What the human corrected shows in the emitted structure, whatever the code
\* has become: each correction none of whose names a later one is about shows,
\* if the correction found its entity told once at most (corrections.ts: "you point
\* out what's wrong once; it stays fixed forever").  One that finds two records of a
\* name changes the first, and the last is emitted.
About(c) == {c.entity} \cup IF c.kind = "rename-entity" THEN {c.to} ELSE {}

Untouched(i) ==
    LET c == corrections[i]
    IN \A j \in DOMAIN corrections :
          j > i => About(corrections[j]) \cap (About(c) \cup ToSet(c.dependsOn)) = {}

ToldOnce(entities, name) ==
    \A j, k \in DOMAIN entities : entities[j].name = name /\ entities[k].name = name => j = k

\* What the correction c of those entities is in the nodes.
Shows(c, entities, nodes) ==
    LET named(n) == {x \in ToSet(nodes) : isEntityNode(x) /\ x.localName = n}
    IN CASE c.kind = "remove-entity" -> named(c.entity) = {}
         [] c.kind = "rename-entity" ->
              /\ c.entity # c.to => named(c.entity) = {}
              /\ Knows(entities, c.entity) => named(c.to) # {}
         [] c.kind = "add-entity"    -> named(c.entity) # {}
         [] c.kind = "set-crud"      -> \A x \in named(c.entity) : x.raw.crud = c.crud
         [] c.kind = "add-crud"      -> \A x \in named(c.entity) : c.crud \subseteq x.raw.crud
         [] c.kind = "set-attributes" ->
              \A x \in named(c.entity) : x.raw.attributes = c.attributes
         [] c.kind = "add-attributes" ->
              \A x \in named(c.entity) : c.attributes \subseteq x.raw.attributes
         [] OTHER -> \A x \in named(c.entity) : x.raw.dependsOn = c.dependsOn

\* The entities the correction finds.
Found(i) == Overlaid(job.extract, corrections)[i - 1].entities

CorrectionsShow ==
    [][job.stage = "structure" /\ disk'.structure # disk.structure =>
          \A i \in DOMAIN corrections :
              Untouched(i) /\ ToldOnce(Found(i), corrections[i].entity) =>
                  Shows(corrections[i], Found(i), disk'.structure)]_vars

\* An analysis loses and doubles no route, whichever of its questions get an
\* answer (scoped-parser.ts, merge.ts): told by several units or as several
\* samples, it is one route of the extract.  It holds of the analysis alone, for
\* every repository of Trials.
AnalysisKeepsRoutes == job.stage = "structure" => RoutesAreKept

\* Nor does it lose what hangs off them (merge.ts, derived/,
\* usecase-extractor.ts, to-extract.ts): a model told in parts is one entity under
\* one name, and a route of a failed batch still leads to its entity.
AnalysisLosesNothing == job.stage = "structure" => NothingIsLost

\* What the viewer shows of the current files is whole (viewer/src).  Each part
\* is about files written by different commands.

\* The intent menu has a place for every entity of the registry: in one
\* aggregate of the roster (terms of one concept id are one) or in the list of
\* the unassigned, not in both.
MenuHasEveryEntity(files) ==
    LET menu == joinIntentModel(files)
        holders(node) == {a \in ToSet(menu.aggregates) : \E p \in a.entities : p.node = node}
        places(node) == {a.conceptId : a \in holders(node)}
                        \cup {NoId : p \in {p \in menu.unassigned : p.node = node}}
    IN \A id \in DOMAIN files.registry[1].concepts :
          \A node \in files.registry[1].concepts[id].nodes :
              node[1] = "structure:entity" => Cardinality(places(node)) = 1

\* A recorded mutation has traffic exactly where the boundary check saw the
\* route on both sides, and carries the verdict of its node.
TrafficAgreesWithBoundary(files) ==
    LET traffic == buildTrafficModel(files).routes
        mutating == {b \in files.boundary[1].routes : b.route.method \in Mutating}
        judged(key) == {n.persisted : n \in {n \in ToSet(files.behavior) :
                            n.route = key /\ "persisted" \in DOMAIN n}}
    IN /\ \A b \in mutating : b.route \in DOMAIN traffic <=> b.structure /\ b.behavior
       /\ \A key \in DOMAIN traffic :
             key.method \in Mutating => ToSet(traffic[key].persisted) = judged(key)

\* An event of the code is in the diff as a row or as a candidate, not both, one
\* traced to a route is listed with it, and no finding is left out.
DiffKeepsEveryChange(files) ==
    LET diff == assembleDiff(files)
        known == {norm(r.name) : r \in {r \in ToSet(diff.events.rows) : r.aligned}}
    IN /\ \A n \in ToSet(structureEvents(files)) :
             (norm(n.localName) \in known) # (n.localName \in diff.events.candidates)
       /\ \A n \in ToSet(files.structure) : isRouteNode(n) =>
             \A e \in n.raw.events : \E row \in diff.eventRoutes :
                 row.event = norm(e) /\ row.route = <<n.route>>
       /\ UNION ToSet(diff.findings) = ContentOr(files.findings, {})

\* The overview has the concepts of the registry, each with as many nodes; of
\* transitions whose slugs collide the registry knows one.
OverviewMatchesRegistry(files) ==
    LET rows == buildViewModel(files).reconcile
        concepts == files.registry[1].concepts
        nodes(row) == row.intent \cup row.structure \cup row.behavior
        told(id) == \A m, n \in nodes(files.unified[1][id]) : m.nodeId = n.nodeId => m = n
    IN /\ {row.conceptId : row \in rows} = DOMAIN concepts
       /\ \A row \in rows : told(row.conceptId) =>
             row.structure + row.behavior + (IF row.intent THEN 1 ELSE 0)
             = Cardinality(concepts[row.conceptId].nodes)

\* A menu the dashboard calls empty is empty.
GuidanceIsHonest(files) ==
    LET guidance == buildGuidance(checkArtifacts(files))
    IN /\ guidance["intent"] \/ joinIntentModel(files).aggregates = <<>>
       /\ guidance["structure"] \/ buildViewModel(files).reconcile = {}
       /\ guidance["behavior-traffic"] \/ DOMAIN buildTrafficModel(files).routes = {}
       /\ guidance["behavior-sitemap"] \/ readSitemapModel(files) = <<>>

ViewsAgree ==
    /\ "mapping" \in fresh => MenuHasEveryEntity(disk)
    /\ {"behavior", "boundary"} \subseteq fresh => TrafficAgreesWithBoundary(disk)
    /\ {"registry", "unified"} \subseteq fresh => OverviewMatchesRegistry(disk)
    /\ job = Idle /\ crashes = 0 => GuidanceIsHonest(disk)
    /\ DiffKeepsEveryChange(disk)
=============================================================================
