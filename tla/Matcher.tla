------------------------------- MODULE Matcher -------------------------------
(***************************************************************************)
(* The intent-structure matcher (reconciler/src/match/intent-structure.ts, *)
(* signals.ts) on the nodes' lenses (reconciler/src/nodes.ts).  Scores are *)
(* in hundredths, the composite in ten-thousandths.  The judge of the gray *)
(* band abstains: no caller passes one.                                    *)
(***************************************************************************)
EXTENDS IntentModel

ASSUME WordsAssumption ==
    IsFiniteSet(Name) /\ \A n \in Name : IsSequence(Words[n])

-------------------------------------------------------------------------------
(* Lenses.                                                                   *)

isConceptNode(node) == node.nodeId[1] = "intent:concept"
isEntityNode(node)  == node.raw.kind = "entity"
isRouteNode(node)   == node.raw.kind = "route"

asIntentConcept(node) ==
    [conceptId |-> node.raw.conceptId, names |-> {node.localName} \cup node.raw.aliases,
     kind |-> node.raw.kind, attributes |-> node.raw.attributes,
     dependsOn |-> node.raw.dependsOn, node |-> node]

asStructureEntity(node) ==
    [name |-> node.localName, attributes |-> node.raw.attributes,
     dependsOn |-> node.raw.dependsOn, crud |-> node.raw.crud, node |-> node]

ConceptNodes(intent)  == {n \in ToSet(intent) : isConceptNode(n)}
EntityNodes(structure) == {n \in ToSet(structure) : isEntityNode(n)}
RouteNodes(structure)  == {n \in ToSet(structure) : isRouteNode(n)}

intentConcepts(intent) == MapSeq(Only(intent, ConceptNodes(intent)), asIntentConcept)

structureEntities(structure) ==
    MapSeq(Only(structure, EntityNodes(structure)), asStructureEntity)

-------------------------------------------------------------------------------
(* Signals.                                                                  *)

WordSet(name) == ToSet(normalizeName(name))

\* The best of the canonical name and the aliases; equal names score 100.
nameSignal(concept, entity) ==
    Max({jaccard(WordSet(n), WordSet(entity.name)) : n \in concept.names})

attributesSignal(concept, entity) ==
    jaccard({normalizeAttr(a) : a \in concept.attributes},
            {normalizeAttr(a) : a \in entity.attributes})

\* known: entity name -> concept id; named: normalized concept name -> id.
topologySignal(concept, entity, known, named) ==
    jaccard({known[d] : d \in ToSet(entity.dependsOn) \cap DOMAIN known},
            {named[normalizeName(d)] :
                d \in {d \in concept.dependsOn : normalizeName(d) \in DOMAIN named}})

behaviorSignal(concept, entity) ==
    IF concept.kind \in {"aggregate-root", "entity"} /\ entity.crud # {} THEN 50 ELSE 0

composite(attributes, name, topology, behavior) ==
    45 * attributes + 25 * name + 20 * topology + 10 * behavior

\* The deterministic auto-accept gate, and the floor of the gray band.
gated(attributes, name) == attributes >= 80 \/ (attributes >= 50 /\ name >= 50)
grayFloor == 50

-------------------------------------------------------------------------------
(* Matching.                                                                 *)

\* The first of the concepts with the highest score.
FirstBest(concepts, score(_)) ==
    concepts[CHOOSE i \in DOMAIN concepts :
                \A j \in DOMAIN concepts :
                    /\ score(concepts[j]) <= score(concepts[i])
                    /\ j < i => score(concepts[j]) < score(concepts[i])]

\* A later concept takes the names it shares with an earlier one.
conceptNameIndex(concepts) ==
    LET keys(c) == {normalizeName(n) : n \in c.names}
        holder(key) == SelectLastInSeq(concepts, LAMBDA c : key \in keys(c))
    IN [key \in UNION {keys(c) : c \in ToSet(concepts)} |-> concepts[holder(key)].conceptId]

\* Pass A: what attributes and names alone decide.
Provisional(concepts, entities) ==
    LET best(e) == FirstBest(concepts, LAMBDA c : attributesSignal(c, e))
        sure == {e \in ToSet(entities) :
                    gated(attributesSignal(best(e), e), nameSignal(best(e), e))}
    IN IF concepts = <<>> THEN <<>>
       ELSE [n \in {e.name : e \in sure} |->
                best(CHOOSE e \in sure : e.name = n).conceptId]

\* Pass B: the best concept of an entity, and whether it is accepted, left to
\* a human or no match.
MatchOf(entity, concepts, known, named) ==
    LET score(c) == composite(attributesSignal(c, entity), nameSignal(c, entity),
                              topologySignal(c, entity, known, named),
                              behaviorSignal(c, entity))
        best == FirstBest(concepts, score)
        attributes == attributesSignal(best, entity)
    IN IF concepts = <<>> THEN [how |-> "none", concept |-> NoId]
       ELSE [concept |-> best.conceptId,
             how |-> IF gated(attributes, nameSignal(best, entity)) THEN "accepted"
                     ELSE IF attributes >= grayFloor THEN "queued" ELSE "none"]

matchIntentToStructure(concepts, entities) ==
    LET known == Provisional(concepts, entities)
        named == conceptNameIndex(concepts)
    IN [n \in {e.name : e \in ToSet(entities)} |->
            MatchOf(CHOOSE e \in ToSet(entities) : e.name = n, concepts, known, named)]
=============================================================================
