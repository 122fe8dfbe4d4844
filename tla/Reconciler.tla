------------------------------ MODULE Reconciler ------------------------------
(***************************************************************************)
(* The reconciler: from the three layers' nodes, the ADRs, the decisions   *)
(* of a human and the prior registry to the registry and the unified view  *)
(* (reconciler/src/pipeline.ts with queue.ts, classify.ts and adr.ts), and *)
(* the mapping of aggregates derived from the view (aggregate-mapping.ts). *)
(* First the gate of the two files it owns (contract/src/validate.ts on    *)
(* the shapes of model.ts), what writeRegistry, writeUnified and their     *)
(* readers accept; fields no model value can get wrong are left out.       *)
(*                                                                         *)
(* A concept under construction is a row.  Lists of nodes of a row whose   *)
(* order nothing depends on are sets, and so are the relations.            *)
(***************************************************************************)
EXTENDS Matcher, SequencesExt, FiniteSets

-------------------------------------------------------------------------------
(* The contract.                                                             *)

ConceptState ==
    {"aligned", "intent-only", "code-only", "aggregate-internal",
     "implementation-detail", "adjudicated", "violates-decision", "unmatched"}

emptyRegistry == [concepts |-> <<>>, adrs |-> <<>>, relations |-> {}]

\* An endpoint of a relation that is a concept id, not a node id.
IsConceptId(endpoint) == endpoint[1] \in {"concept", "concept:struct", "concept:route"}

\* The keys the strict schema of a layer node knows.
layerNodeKeys == {"nodeId", "layer", "localName", "raw", "route", "source", "persisted"}

ValidNode(node) == DOMAIN node \subseteq layerNodeKeys

\* No concept id and no ADR id may dangle.
ValidAdr(adr, registry) ==
    LET ids == DOMAIN registry.concepts
    IN /\ adr.affects \subseteq ids
       /\ adr.supersedes \subseteq DOMAIN registry.adrs
       /\ \A c \in ToSet(adr.constraints) : c.from \cup c.to \subseteq ids

validateRegistry(registry) ==
    /\ \A id \in DOMAIN registry.concepts :
          registry.concepts[id].decisions \subseteq DOMAIN registry.adrs
    /\ \A a \in DOMAIN registry.adrs : ValidAdr(registry.adrs[a], registry)
    /\ \A r \in registry.relations : \A end \in {r.from, r.to} :
          IsConceptId(end) => end \in DOMAIN registry.concepts

\* Shape only: the view embeds resolved copies.
validateUnified(concepts) ==
    \A id \in DOMAIN concepts :
        \A node \in concepts[id].intent \cup concepts[id].structure \cup concepts[id].behavior :
            ValidNode(node)

-------------------------------------------------------------------------------
(* Identities.                                                               *)

EntityId(name) == <<"structure:entity", name>>
StructId(name) == <<"concept:struct", name>>
RouteId(key)   == <<"concept:route", key>>

-------------------------------------------------------------------------------
(* Human decisions.                                                          *)

\* entity node id -> concept id, as burned into the prior registry.
priorHumanMatches(prior) ==
    LET human == {r \in prior.relations : r.kind = "same-as" /\ r.decidedBy = "human"
                                          /\ r.from[1] = "structure:entity"}
    IN [id \in {r.from : r \in human} |-> (CHOOSE r \in human : r.from = id).to]

\* Faulty variant: what was once burned in is not read back.
resolveFreshDecisions(prior, decisions) ==
    LET last(id) == SelectLastInSeq(decisions, LAMBDA d : EntityId(d.entity) = id)
    IN [id \in {EntityId(d.entity) : d \in ToSet(decisions)} |-> decisions[last(id)].concept]

\* Faulty variant: a decision already burned in is dropped as applied.
resolveDecisionsOnce(prior, decisions) ==
    LET matches == priorHumanMatches(prior)
        fresh == resolveFreshDecisions(prior, decisions)
    IN [id \in {id \in DOMAIN matches \cup DOMAIN fresh :
                    ~(id \in DOMAIN matches /\ id \in DOMAIN fresh /\ matches[id] = fresh[id])} |->
            IF id \in DOMAIN fresh THEN fresh[id] ELSE matches[id]]

\* A fresh decision (the last of an entity) goes before the prior one.
resolveDecisions(prior, decisions) ==
    LET last(id) == SelectLastInSeq(decisions, LAMBDA d : EntityId(d.entity) = id)
        matches  == priorHumanMatches(prior)
    IN [id \in DOMAIN matches \cup {EntityId(d.entity) : d \in ToSet(decisions)} |->
            IF last(id) # 0 THEN decisions[last(id)].concept ELSE matches[id]]

\* The queued entities a human has placed in a concept that still exists.
HumanMatched(match, decided, ids) ==
    {n \in DOMAIN match : /\ match[n].how = "queued"
                          /\ EntityId(n) \in DOMAIN decided
                          /\ decided[EntityId(n)] \in ids}

\* entityNameToConceptId: accepted by the matcher or placed by a human.
ConceptOfEntity(match, decided, ids) ==
    LET human == HumanMatched(match, decided, ids)
    IN [n \in {n \in DOMAIN match : match[n].how = "accepted"} \cup human |->
            IF n \in human THEN decided[EntityId(n)] ELSE match[n].concept]

-------------------------------------------------------------------------------
(* Rows.                                                                     *)

Divergence(edge, why, adr) == [edge |-> edge, why |-> why, adr |-> adr]

Row(state) ==
    [state |-> state, intent |-> {}, structure |-> {}, behavior |-> {},
     decisions |-> {}, divergences |-> {}]

\* The state of an entity without a concept, and what it hangs off.
classifyUnmatchedEntity(entity, placed, roots, queued) ==
    LET matched == SelectSeq(entity.dependsOn, LAMBDA d : d \in DOMAIN placed)
        owners  == SelectSeq(matched, LAMBDA d : placed[d] \in roots)
    IN CASE entity.name \in queued -> [state |-> "unmatched", relation |-> {}]
         [] entity.name \notin queued /\ owners # <<>> ->
              [state |-> "aggregate-internal",
               relation |-> {<<"part-of", placed[Head(owners)]>>}]
         [] entity.name \notin queued /\ owners = <<>> /\ entity.name \in BelowLine ->
              [state |-> "implementation-detail",
               relation |-> IF matched = <<>> THEN {}
                            ELSE {<<"serves", placed[Head(matched)]>>}]
         [] OTHER -> [state |-> "code-only", relation |-> {}]

divergenceForEntityState(state) ==
    CASE state = "code-only" -> {Divergence("intent-structure", "possible leak", {})}
      [] state = "unmatched" -> {Divergence("intent-structure", "awaits a human", {})}
      [] OTHER -> {}

-------------------------------------------------------------------------------
(* ADRs.                                                                     *)

accepted(adrs) == SelectSeq(adrs, LAMBDA a : a.status = "accepted")

\* The constraints of accepted ADRs in order, each with its ADR.
ConstraintsOf(adrs) ==
    FlattenSeq(MapSeq(accepted(adrs),
        LAMBDA a : MapSeq(a.constraints, LAMBDA c : [c |-> c, adr |-> a.adrId])))

\* deps: concept id -> concept ids its entities depend on.
Breaks(c, deps) ==
    \E from \in c.from, to \in c.to :
        LET depends == from \in DOMAIN deps /\ to \in deps[from]
        IN \/ c.kind = "forbid-dependency" /\ depends
           \/ c.kind = "require-dependency" /\ ~depends

\* concept id -> the last ADR whose constraint it breaks.
findViolations(adrs, deps) ==
    LET broken == SelectSeq(ConstraintsOf(adrs), LAMBDA x : Breaks(x.c, deps))
    IN [id \in UNION {x.c.from : x \in ToSet(broken)} |->
            broken[SelectLastInSeq(broken, LAMBDA x : id \in x.c.from)].adr]

\* The first note about a concept the entity depends on, if any.
findAdjudication(adrs, depConcepts) ==
    LET notes == SelectSeq(ConstraintsOf(adrs),
                           LAMBDA x : x.c.kind = "note" /\ x.c.from \cap depConcepts # {})
    IN IF notes = <<>> THEN {} ELSE {Head(notes).adr}

StructureDeps(entities, placed) ==
    LET of(id) == {e \in ToSet(entities) : e.name \in DOMAIN placed /\ placed[e.name] = id}
    IN [id \in Range(placed) |->
            UNION {{placed[d] : d \in ToSet(e.dependsOn) \cap DOMAIN placed} : e \in of(id)}]

Violated(row, adr) ==
    [row EXCEPT !.state = "violates-decision", !.decisions = @ \cup {adr},
                !.divergences = @ \cup {Divergence("intent-structure", "violation", {adr})}]

Adjudicated(row, adr) ==
    [row EXCEPT !.state = "adjudicated", !.decisions = @ \cup {adr},
                !.divergences = {Divergence("intent-structure", "explained", {adr})}]

\* Violations on any row; then adjudication of the entities without a concept.
OverlayRow(row, id, broken, loose, noted) ==
    LET ruled == IF id \in DOMAIN broken THEN Violated(row, broken[id]) ELSE row
        named == {e \in loose : id = StructId(e.name)}
    IN IF named = {} THEN ruled
       ELSE Adjudicated(ruled, CHOOSE a \in noted[CHOOSE e \in named : TRUE] : TRUE)

OverlayRows(rows, broken, noted) ==
    [id \in DOMAIN rows |->
        OverlayRow(rows[id], id, broken, {e \in DOMAIN noted : noted[e] # {}}, noted)]

applyAdrOverlay(rows, entities, placed, adrs) ==
    OverlayRows(rows, findViolations(adrs, StructureDeps(entities, placed)),
        [e \in {e \in ToSet(entities) : e.name \notin DOMAIN placed} |->
            findAdjudication(adrs, {placed[d] : d \in ToSet(e.dependsOn) \cap DOMAIN placed})])

-------------------------------------------------------------------------------
(* Routes.                                                                   *)

KeyOf(node) == normalizeRoute(node.route)

\* Faulty variant: the route as observed.
ObservedVerbatim(behavior, key) == {node \in ToSet(behavior) : node.route = key}

Observed(behavior, key) == {node \in ToSet(behavior) : KeyOf(node) = key}

\* Normalized route -> the concept of its entity; the last such route decides.
routeKeyToConcept(routes, placed) ==
    LET anchored == Only(routes, {r \in ToSet(routes) : r.raw.entity \in DOMAIN placed})
        last(key) == SelectLastInSeq(anchored, LAMBDA r : KeyOf(r) = key)
    IN [key \in {KeyOf(r) : r \in ToSet(anchored)} |-> placed[anchored[last(key)].raw.entity]]

\* Faulty variant: only the routes' own concepts claim observations.
ConsumedByRoutes(behavior, folded, built) ==
    {n.nodeId : n \in {n \in ToSet(behavior) : KeyOf(n) \in built}}

\* consumedBehavior: what a domain concept or a route has claimed.
Consumed(behavior, folded, built) ==
    {n.nodeId : n \in {n \in ToSet(behavior) : KeyOf(n) \in folded \cup built}}

\* Routes folded into no concept, and observations nobody claims.
buildRouteConcepts(routes, behavior, anchor) ==
    LET built == {KeyOf(r) : r \in ToSet(routes)} \ DOMAIN anchor
        lastRoute(key) == routes[SelectLastInSeq(routes, LAMBDA r : KeyOf(r) = key)]
        loose == {n \in ToSet(behavior) : n.nodeId \notin Consumed(behavior, DOMAIN anchor, built)}
        Built(key) ==
            LET seen == Observed(behavior, key)
            IN IF seen # {}
               THEN [Row("aligned") EXCEPT !.structure = {lastRoute(key)}, !.behavior = seen]
               ELSE [Row("code-only") EXCEPT !.structure = {lastRoute(key)},
                       !.divergences = {Divergence("structure-behavior", "never observed", {})}]
        Unclaimed(key) ==
            [Row("unmatched") EXCEPT !.behavior = {n \in loose : KeyOf(n) = key},
               !.divergences = {Divergence("structure-behavior", "absent from structure", {})}]
    IN [id \in {RouteId(k) : k \in built \cup {KeyOf(n) : n \in loose}} |->
            IF id[2] \in built THEN Built(id[2]) ELSE Unclaimed(id[2])]

-------------------------------------------------------------------------------
(* The whole reconciliation.                                                 *)

SameAs(from, to, by) == [kind |-> "same-as", from |-> from, to |-> to, decidedBy |-> by]

\* Seeds, attached entities and observations; what was not built diverges
\* only after the overlay.
intentRows(concepts, entities, placed, behavior, anchor) ==
    LET built(id) == {e.node : e \in {e \in ToSet(entities) :
                                e.name \in DOMAIN placed /\ placed[e.name] = id}}
    IN [id \in {c.conceptId : c \in ToSet(concepts)} |->
          [Row(IF built(id) = {} THEN "intent-only" ELSE "aligned") EXCEPT
             !.intent = {concepts[SelectLastInSeq(concepts, LAMBDA c : c.conceptId = id)].node},
             !.structure = built(id),
             !.behavior = {n \in ToSet(behavior) : KeyOf(n) \in DOMAIN anchor
                                                   /\ anchor[KeyOf(n)] = id}]]

structRow(entity, class) ==
    [Row(class.state) EXCEPT !.structure = {entity.node},
                             !.divergences = divergenceForEntityState(class.state)]

IntentOnly(row) ==
    IF row.state = "intent-only"
    THEN [row EXCEPT !.divergences = @ \cup {Divergence("intent-structure", "not built", {})}]
    ELSE row

NodeIds(nodes) == {n.nodeId : n \in nodes}

\* What the registry keeps of a row: ids, not copies.
asConcept(row) ==
    [state |-> row.state, decisions |-> row.decisions,
     nodes |-> NodeIds(row.intent \cup row.structure \cup row.behavior)]

adrsRecord(adrs) ==
    [id \in {a.adrId : a \in ToSet(adrs)} |->
        adrs[SelectLastInSeq(adrs, LAMBDA a : a.adrId = id)]]

\* The registry, the view and the queue: rows after the overlay and the routes.
assemble(in, routes, anchor, placed, human, queued, classOf, ruled) ==
    LET rows == Over(buildRouteConcepts(routes, in.behavior, anchor),
                     [id \in DOMAIN ruled |-> IntentOnly(ruled[id])])
        lastRoute(key) == routes[SelectLastInSeq(routes, LAMBDA r : KeyOf(r) = key)]
        relations ==
            {SameAs(EntityId(n), placed[n], IF n \in human THEN "human" ELSE "auto") :
                n \in DOMAIN placed}
            \cup {SameAs(lastRoute(KeyOf(n)).nodeId, n.nodeId, "auto") :
                n \in {n \in ToSet(in.behavior) : KeyOf(n) \in DOMAIN anchor}}
            \cup UNION {{[kind |-> r[1], from |-> EntityId(e.name), to |-> r[2],
                          decidedBy |-> "auto"] : r \in classOf[e].relation} :
                        e \in DOMAIN classOf}
    IN [registry |-> [concepts |-> [id \in DOMAIN rows |-> asConcept(rows[id])],
                      adrs |-> adrsRecord(in.adrs), relations |-> relations],
        unified  |-> rows,
        queue    |-> {n \in queued : ruled[StructId(n)].state = "unmatched"}]

\* The rows of the concepts and of the entities without one, then the overlay.
overlay(in, concepts, entities, routes, anchor, placed, human, queued, classOf) ==
    LET unruled == Over(intentRows(concepts, entities, placed, in.behavior, anchor),
                        [id \in {StructId(e.name) : e \in DOMAIN classOf} |->
                            LET e == CHOOSE e \in DOMAIN classOf : StructId(e.name) = id
                            IN structRow(e, classOf[e])])
    IN assemble(in, routes, anchor, placed, human, queued, classOf,
                applyAdrOverlay(unruled, entities, placed, in.adrs))

\* Entities without a concept are classified.
classify(in, concepts, entities, routes, placed, human, queued) ==
    LET loose == {e \in ToSet(entities) : e.name \notin DOMAIN placed}
        roots == {c.conceptId : c \in {c \in ToSet(concepts) : c.kind = "aggregate-root"}}
    IN overlay(in, concepts, entities, routes, routeKeyToConcept(routes, placed), placed,
               human, queued,
               [e \in loose |-> classifyUnmatchedEntity(e, placed, roots, queued)])

\* Entities are placed by the decisions of humans and by the match.
place(in, concepts, entities, match, decided) ==
    LET ids   == {c.conceptId : c \in ToSet(concepts)}
        human == HumanMatched(match, decided, ids)
    IN classify(in, concepts, entities, Only(in.structure, RouteNodes(in.structure)),
                ConceptOfEntity(match, decided, ids), human,
                {n \in DOMAIN match : match[n].how = "queued"} \ human)

reconcileNodes(in, concepts, entities, decided) ==
    place(in, concepts, entities, matchIntentToStructure(concepts, entities), decided)

\* in: the nodes of the layers and the ADRs.
reconcile(in, prior, decisions) ==
    reconcileNodes(in, intentConcepts(in.intent), structureEntities(in.structure),
                   resolveDecisions(prior, decisions))

-------------------------------------------------------------------------------
(* Aggregates and the entities of the view.                                  *)

\* The first aggregate, of highest confidence, one of whose names is alike.
bestNameMatch(entity, aggregates) ==
    LET names(a) == {a.name} \cup {m.name : m \in ToSet(a.members)}
        exact   == SelectInSeq(aggregates, LAMBDA a :
                      \E n \in names(a) : Letters[n] = Letters[entity])
        partial == SelectInSeq(aggregates, LAMBDA a :
                      \E n \in names(a) : AlikeLetters(Letters[n], Letters[entity]))
    IN IF exact # 0 THEN exact ELSE partial

\* The aggregate (0: none) of an entity in the row of a concept: as its root,
\* as a member of the first aggregate that has it, or by name.
AggregateOf(id, entity, aggregates) ==
    LET root   == SelectLastInSeq(aggregates, LAMBDA a : a.conceptId = id)
        member == SelectInSeq(aggregates, LAMBDA a :
                     \E m \in ToSet(a.members) : m.conceptId = id)
    IN IF root # 0 THEN root
       ELSE IF member # 0 THEN member ELSE bestNameMatch(entity, aggregates)

\* Where an entity node of a row goes: "none" is the list of the unassigned.
Placements(id, row, aggregates) ==
    LET of(name) == AggregateOf(id, name, aggregates)
    IN {[node |-> n.nodeId, concept |-> id,
         aggregate |-> IF of(n.localName) = 0 THEN NoId
                       ELSE aggregates[of(n.localName)].conceptId] :
           n \in {n \in row.structure : n.nodeId[1] = "structure:entity"}}

\* Faulty variant: only the concepts the glossary knows.
mappingOfIntentConcepts(unified, aggregates) ==
    UNION {Placements(id, unified[id], aggregates) :
              id \in {id \in DOMAIN unified : unified[id].intent # {}}}

deriveAggregateEntityMapping(unified, aggregates) ==
    UNION {Placements(id, unified[id], aggregates) : id \in DOMAIN unified}
=============================================================================
