---------------------------- MODULE StructureModel ----------------------------
(***************************************************************************)
(* The structure layer's own output: the corrections overlay, the          *)
(* information model, the CRUD index and the nodes emitted onto the spine  *)
(* (structure/src/corrections.ts, information-model.ts, crud.ts, emit.ts). *)
(***************************************************************************)
EXTENDS Names, SequencesExt

\* No value of an optional field.
None == "none"
NoId == <<"none">>

MapSeq(s, f(_)) == [i \in DOMAIN s |-> f(s[i])]

\* f, and g where f is not defined: @@, in a form lemmas can be proved about.
Over(f, g) == [x \in DOMAIN f \cup DOMAIN g |-> IF x \in DOMAIN f THEN f[x] ELSE g[x]]

\* The elements of a sequence that are in a set, in their order: SelectSeq, in a
\* form lemmas can be proved about.
Only(seq, set) ==
    LET kept[n \in 0..Len(seq)] ==
            IF n = 0 THEN <<>>
            ELSE IF seq[n] \in set THEN Append(kept[n - 1], seq[n]) ELSE kept[n - 1]
    IN kept[Len(seq)]

CrudLetter == {"C", "R", "U", "D"}

\* What a layer is handed: entities, and what a human corrects in them, its lists
\* without repetitions (uniq).
Entity == [name : Name, attributes : SUBSET Name, dependsOn : Seq(Name)]

Correction ==
    [kind : {"add-entity", "remove-entity", "set-attributes", "add-attributes",
             "set-depends-on", "set-crud", "add-crud"},
     entity : Name, to : {None}, attributes : SUBSET Name,
     dependsOn : Seq(Name), crud : SUBSET CrudLetter]
    \cup [kind : {"rename-entity"}, entity : Name, to : Name, attributes : SUBSET Name,
          dependsOn : Seq(Name), crud : SUBSET CrudLetter]

IsSequence(s) == s \in Seq(ToSet(s))

\* Routes are traced to the events the scan knows.
ExtractShape(extract) ==
    /\ {"entities", "overrides", "routes", "events", "transitions"} \subseteq DOMAIN extract
    /\ extract.entities \in Seq(Entity)
    /\ DOMAIN extract.overrides \subseteq Name
    /\ extract.overrides \in [DOMAIN extract.overrides -> SUBSET CrudLetter]
    /\ IsSequence(extract.events) /\ IsSequence(extract.transitions)
    /\ IsSequence(extract.routes)
    /\ \A r \in ToSet(extract.routes) : r.events \subseteq {e.name : e \in ToSet(extract.events)}

\* HTTP_TO_CRUD; GET and the rest of the table.
crudOfMethod ==
    [method \in {"POST", "GET", "PUT", "PATCH", "DELETE"} |->
        CASE method = "POST" -> "C" [] method = "GET" -> "R"
          [] method = "DELETE" -> "D" [] OTHER -> "U"]

-------------------------------------------------------------------------------
(* The corrections overlay.                                                  *)

Knows(entities, name) == \E i \in DOMAIN entities : entities[i].name = name

FirstOf(entities, name) == SelectInSeq(entities, LAMBDA e : e.name = name)

\* Changes the first record of that name.
Rewrite(state, name, change(_)) ==
    [state EXCEPT !.entities[FirstOf(state.entities, name)] = change(@),
                  !.corrected = @ \cup {name}]

WithOverride(state, name, crud) ==
    [state EXCEPT !.overrides = [n \in DOMAIN @ \cup {name} |->
                                    IF n = name THEN crud ELSE @[n]],
                  !.corrected = @ \cup {name}]

Without(overrides, name) == Restrict(overrides, DOMAIN overrides \ {name})

\* rename-entity: the record, its override and the references to it; the
\* usecases keep the old name.
Renamed(state, from, to) ==
    LET i == FirstOf(state.entities, from)
        named == [state.entities EXCEPT ![i].name = to]
    IN [entities  |-> [k \in DOMAIN named |->
                        [named[k] EXCEPT !.dependsOn = ReplaceAll(@, from, to)]],
        overrides |-> IF from \in DOMAIN state.overrides
                      THEN [n \in (DOMAIN state.overrides \cup {to}) \ {from} |->
                              state.overrides[IF n = to THEN from ELSE n]]
                      ELSE state.overrides,
        corrected |-> state.corrected \cup {to}]

\* One correction; one that names an unknown entity (or adds a known one)
\* is skipped.
Correct(state, c) ==
    LET known == Knows(state.entities, c.entity)
    IN CASE c.kind = "add-entity" /\ ~known ->
              [state EXCEPT
                 !.entities = Append(@, [name |-> c.entity, attributes |-> c.attributes,
                                         dependsOn |-> c.dependsOn]),
                 !.corrected = @ \cup {c.entity}]
         [] c.kind = "remove-entity" /\ known ->
              [state EXCEPT !.entities = Only(@, {e \in ToSet(@) : e.name # c.entity}),
                            !.overrides = Without(@, c.entity)]
         [] c.kind = "rename-entity" /\ known -> Renamed(state, c.entity, c.to)
         [] c.kind = "set-attributes" /\ known ->
              Rewrite(state, c.entity, LAMBDA e : [e EXCEPT !.attributes = c.attributes])
         [] c.kind = "add-attributes" /\ known ->
              Rewrite(state, c.entity, LAMBDA e : [e EXCEPT !.attributes = @ \cup c.attributes])
         [] c.kind = "set-depends-on" /\ known ->
              Rewrite(state, c.entity, LAMBDA e : [e EXCEPT !.dependsOn = c.dependsOn])
         [] c.kind = "set-crud" /\ known -> WithOverride(state, c.entity, c.crud)
         [] c.kind = "add-crud" /\ known ->
              WithOverride(state, c.entity,
                  c.crud \cup IF c.entity \in DOMAIN state.overrides
                              THEN state.overrides[c.entity] ELSE {})
         [] OTHER -> state

\* What the entities and overrides are after each number of the corrections.
Overlaid(extract, corrections) ==
    LET after[i \in 0..Len(corrections)] ==
            IF i = 0 THEN [entities |-> extract.entities, overrides |-> extract.overrides,
                           corrected |-> {}]
            ELSE Correct(after[i - 1], corrections[i])
    IN after

\* The corrected extract and the names a human touched.
applyCorrections(extract, corrections) ==
    LET final == Overlaid(extract, corrections)[Len(corrections)]
    IN [extract   |-> [extract EXCEPT !.entities = final.entities,
                                      !.overrides = final.overrides],
        corrected |-> final.corrected]

-------------------------------------------------------------------------------
(* The information model and the CRUD index.                                 *)

\* Records of one name collapse to the last, at the place of the first.
Distinct(entities) ==
    LET lastOf(name) == SelectLastInSeq(entities, LAMBDA e : e.name = name)
        firsts == {i \in DOMAIN entities : FirstOf(entities, entities[i].name) = i}
        order  == Only([i \in DOMAIN entities |-> i], firsts)
    IN [k \in DOMAIN order |-> entities[lastOf(entities[order[k]].name)]]

\* The last usecase triggered by the route names its entity.
RouteAnchor(extract, route) ==
    LET i == SelectLastInSeq(extract.usecases, LAMBDA u : u.route = <<route>>)
    IN IF i = 0 THEN [entity |-> None, crud |-> {}]
       ELSE [entity |-> extract.usecases[i].entity, crud |-> extract.usecases[i].crud]

\* A fixed segment of the path is the entity's name.
routeTouchesEntity(path, entity) ==
    \E i \in DOMAIN path :
        /\ path[i] \notin ParamSegment
        /\ normalizeName(path[i]) = normalizeName(entity)

\* Faulty variant: the override adds to what the code operations show.
entityCrudUnion(name, extract) ==
    {op.crud : op \in {o \in extract.operations :
                          normalizeName(o.entity) = normalizeName(name)}}
    \cup IF name \in DOMAIN extract.overrides THEN extract.overrides[name] ELSE {}

\* The override wins; otherwise code operations, routes and usecases together.
entityCrud(name, extract) ==
    IF name \in DOMAIN extract.overrides THEN extract.overrides[name]
    ELSE {op.crud : op \in {o \in extract.operations :
                              normalizeName(o.entity) = normalizeName(name)}}
         \cup {crudOfMethod[r.method] : r \in {r \in ToSet(extract.routes) :
                              routeTouchesEntity(r.path, name)}}
         \cup UNION {u.crud : u \in {u \in ToSet(extract.usecases) :
                \E e \in u.entities : normalizeName(e) = normalizeName(name)}}

-------------------------------------------------------------------------------
(* The nodes emitted.                                                        *)

RouteKey(r) == [method |-> r.method, path |-> r.path]

routeNode(r, extract) ==
    LET anchor == RouteAnchor(extract, RouteKey(r))
    IN [nodeId |-> <<"structure:route", RouteKey(r)>>, route |-> RouteKey(r),
        raw |-> [kind |-> "route", entity |-> anchor.entity, crud |-> anchor.crud,
                 inputs |-> r.inputs, events |-> r.events]]

entityNode(e, extract, corrected) ==
    [nodeId |-> <<"structure:entity", e.name>>, localName |-> e.name,
     raw |-> [kind |-> "entity", attributes |-> e.attributes, dependsOn |-> e.dependsOn,
              crud |-> entityCrud(e.name, extract), corrected |-> e.name \in corrected]]

\* "concept:order" from the name of an aggregate.
AggregateId(aggregate) == IF aggregate = None THEN NoId ELSE <<"concept", Slug[aggregate]>>

structureEventNode(e) ==
    [nodeId |-> <<"structure:event", Slug[e.name]>>, localName |-> e.name,
     raw |-> [kind |-> "event", aggregateConceptId |-> AggregateId(e.aggregate)]]

structureTransitionNode(t) ==
    [nodeId |-> <<"structure:transition",
                  IF t.aggregate = None THEN "unknown" ELSE Slug[t.aggregate],
                  IF t.from = None THEN "any" ELSE Slug[t.from], Slug[t.to]>>,
     raw |-> [kind |-> "transition", from |-> t.from, to |-> t.to, event |-> t.event,
              aggregateConceptId |-> AggregateId(t.aggregate)]]

emitStructureNodes(extract, corrected) ==
    MapSeq(extract.routes, LAMBDA r : routeNode(r, extract))
    \o MapSeq(Distinct(extract.entities), LAMBDA e : entityNode(e, extract, corrected))
    \o MapSeq(extract.events, structureEventNode)
    \o MapSeq(extract.transitions, structureTransitionNode)

-------------------------------------------------------------------------------
(* The model for readers, structure.rdra.json.                               *)

\* Letters no evidence was found for; records of one name repeat their gap.
analyzeCrud(extract) ==
    [gaps |-> {[entity |-> e.name, missing |-> CrudLetter \ entityCrud(e.name, extract)] :
                 e \in {e \in ToSet(extract.entities) :
                           entityCrud(e.name, extract) # CrudLetter}},
     danglingUsecases |->
        {u.name : u \in {u \in ToSet(extract.usecases) : ~Knows(extract.entities, u.entity)}}]

\* A dependency on an unknown entity gets no back edge.
buildRdraArtifacts(extract) ==
    LET entities == Distinct(extract.entities)
        Back(name) == {e.name : e \in {e \in ToSet(entities) : name \in ToSet(e.dependsOn)}}
    IN [entities |-> MapSeq(entities, LAMBDA e :
                        [name |-> e.name, attributes |-> e.attributes,
                         dependsOn |-> e.dependsOn, dependedOnBy |-> Back(e.name),
                         crud |-> entityCrud(e.name, extract)]),
        usecases |-> MapSeq(extract.usecases, LAMBDA u :
                        [name |-> u.name, entities |-> u.entities, route |-> u.route,
                         crud |-> u.crud]),
        crud     |-> analyzeCrud(extract)]
=============================================================================
