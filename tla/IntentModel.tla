----------------------------- MODULE IntentModel -----------------------------
(***************************************************************************)
(* The intent layer's output: the glossary as nodes, which issue the       *)
(* concept ids (intent/src/emit.ts), and the aggregate roster              *)
(* (intent/src/aggregates.ts).                                             *)
(***************************************************************************)
EXTENDS StructureModel

canonicalId(concept) ==
    IF concept.id # NoId THEN concept.id ELSE <<"concept", Slug[concept.name]>>

\* A declared id has the form of the minted ones.
ConceptShape(concept) ==
    /\ concept.id = NoId \/ concept.id[1] = "concept"
    /\ concept.name \in Name
    /\ {concept.aliases, concept.attributes, concept.dependsOn} \subseteq SUBSET Name

GlossaryShape(glossary) ==
    /\ IsSequence(glossary.concepts) /\ \A c \in ToSet(glossary.concepts) : ConceptShape(c)
    /\ IsSequence(glossary.events) /\ IsSequence(glossary.transitions)

conceptNode(concept) ==
    [nodeId |-> <<"intent:concept", canonicalId(concept)>>, localName |-> concept.name,
     raw |-> [conceptId |-> canonicalId(concept), aliases |-> concept.aliases,
              kind |-> concept.kind, attributes |-> concept.attributes,
              dependsOn |-> concept.dependsOn]]

intentEventNode(e) ==
    [nodeId |-> <<"intent:event", Slug[e.name]>>, localName |-> e.name,
     raw |-> [aggregateConceptId |-> AggregateId(e.aggregate)]]

\* Creation has no source state ("init"), a final state may have no name ("end").
intentTransitionNode(t) ==
    [nodeId |-> <<"intent:transition", Slug[t.aggregate],
                  IF t.from = None THEN "init" ELSE Slug[t.from],
                  IF t.to = None THEN "end" ELSE Slug[t.to]>>,
     raw |-> [aggregateConceptId |-> AggregateId(t.aggregate), from |-> t.from,
              to |-> t.to, event |-> t.event]]

emitIntentNodes(glossary) ==
    MapSeq(glossary.concepts, conceptNode)
    \o MapSeq(glossary.events, intentEventNode)
    \o MapSeq(glossary.transitions, intentTransitionNode)

Member(concept) == [conceptId |-> canonicalId(concept), name |-> concept.name]

\* Every aggregate root with itself and what depends on it by name.
deriveAggregates(glossary) ==
    LET concepts == glossary.concepts
        Roster(root) ==
            [conceptId |-> canonicalId(root), name |-> root.name,
             members   |-> <<Member(root)>> \o
                MapSeq(Only(concepts, {c \in ToSet(concepts) : c # root
                                                    /\ root.name \in c.dependsOn}), Member)]
    IN MapSeq(Only(concepts, {c \in ToSet(concepts) : c.kind = "aggregate-root"}), Roster)
=============================================================================
