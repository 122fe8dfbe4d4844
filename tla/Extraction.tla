------------------------------ MODULE Extraction ------------------------------
(***************************************************************************)
(* The structure analysis (structure/src/analyze): what a repository and   *)
(* the answers of the model become, up to the extract the other layers     *)
(* read.  The whole-repository analysis asks one question per kind; the    *)
(* incremental one asks per unit and merges.                               *)
(*                                                                         *)
(* A repository is a record of its files and of the answers its questions  *)
(* get: `answers' is a function from <<kind, unit, n>> to a value.  A      *)
(* question outside its domain got no usable answer: the call failed or    *)
(* the reply held no JSON.  Prompts and their context are not modelled.    *)
(***************************************************************************)
EXTENDS StructureModel

CONSTANTS
    Stem,           \* function: controller -> its name without "Controller", "Handler" ...
    Managed,        \* function: stem -> name of the usecase that manages it
    ClassOfMethod,  \* function: relation method -> class name
    EventName,      \* names with a hump that end in "ed" or "Event"
    NamedParam,     \* segments written ":x"
    Place,          \* function: word -> its place in the order of strings
    DepsDirs, ScanDirs,  \* directories the unit walk and the event scan skip
    BATCH_SIZE, ENTITY_BATCH_SIZE,       \* 30 and 20 in the code
    MaxRoutes, MaxAttributes,            \* 200 and 15 in the code
    Trials          \* repositories the properties of the analysis are about

ASSUME ExtractionAssumption ==
    /\ NamedParam \subseteq ParamSegment
    /\ {BATCH_SIZE, ENTITY_BATCH_SIZE, MaxRoutes, MaxAttributes} \subseteq Nat \ {0}
    /\ \A segment \in ParamSegment \cap DOMAIN Lower : Lower[segment] \in ParamSegment
    /\ \A word \in DOMAIN Place : Place[word] \in Nat
    /\ {":id", "laravel", "routes", "controllers", "models", "generic", "."} \subseteq DOMAIN Place

Take(s, n) == SubSeq(s, 1, IF n < Len(s) THEN n ELSE Len(s))

Batches(s, size) ==
    [k \in 1..((Len(s) + size - 1) \div size) |->
        Take(SubSeq(s, (k - 1) * size + 1, Len(s)), size)]

Gather(s, f(_)) == FlattenSeq(MapSeq(s, f))

\* The distinct keys of a sequence, in the order of their first use.
Keys(s, Key(_)) ==
    FoldLeft(LAMBDA seen, x : IF Contains(seen, Key(x)) THEN seen ELSE Append(seen, Key(x)),
             <<>>, s)

\* a.x || b.x || ...
FirstGiven(s, Field(_)) ==
    LET i == SelectInSeq(s, LAMBDA x : Field(x) # None)
    IN IF i = 0 THEN None ELSE Field(s[i])

\* The order of strings, word by word.
Earlier(a, b) ==
    \E k \in 0..Len(b) - 1 :
        /\ k <= Len(a) /\ SubSeq(a, 1, k) = SubSeq(b, 1, k)
        /\ k < Len(a) => Place[a[k + 1]] < Place[b[k + 1]]

\* The elements of the domain, in the order of the strings they are mapped to.
Sorted(string) ==
    LET first(left) == CHOOSE x \in left : \A y \in left : ~Earlier(string[y], string[x])
        sorted[n \in 0..Cardinality(DOMAIN string)] ==
            IF n = 0 THEN <<>>
            ELSE Append(sorted[n - 1], first(DOMAIN string \ ToSet(sorted[n - 1])))
    IN sorted[Cardinality(DOMAIN string)]

Answered(repo, question) == repo.backend # "none" /\ question \in DOMAIN repo.answers

Answer(repo, question, otherwise) ==
    IF Answered(repo, question) THEN repo.answers[question] ELSE otherwise

-------------------------------------------------------------------------------
(* Units of the incremental analysis (units.ts).                             *)

Below(file, dirs) == \E i \in 1..Len(file.path) - 1 : file.path[i] \in dirs

walkRepo(repo) ==
    Only(repo.files, {f \in ToSet(repo.files) :
        f.kind \in {"code", "test", "php", "manifest"} /\ f.kb <= 1024 /\ ~Below(f, DepsDirs)})

\* The first composer.json of the walk tells whether laravel's rule applies.
IsLaravel(files) ==
    LET i == SelectInSeq(files, LAMBDA f : Last(f.path) = "composer.json")
    IN i # 0 /\ files[i].laravel

NoUnit == <<>>

\* The immediate subdirectory below a prefix names the unit.
bySubdir(path, prefix, base) ==
    IF ~IsStrictPrefix(prefix, path) THEN NoUnit
    ELSE IF Len(path) = Len(prefix) + 1 THEN base
    ELSE Append(base, path[Len(prefix) + 1])

\* Files of a laravel repository outside the three slices are in no unit.
laravelUnit(file) ==
    IF file.kind = "php" /\ Len(file.path) = 2 /\ file.path[1] = "routes"
    THEN <<"laravel", "routes", file.path[2]>>
    ELSE LET controllers == bySubdir(file.path, <<"app", "Http", "Controllers">>,
                                     <<"laravel", "controllers">>)
         IN IF controllers # NoUnit THEN controllers
            ELSE bySubdir(file.path, <<"app", "Models">>, <<"laravel", "models">>)

genericUnit(file) == <<"generic", IF Len(file.path) = 1 THEN "." ELSE file.path[1]>>

\* The ids of the units, sorted.
enumerateUnits(repo) ==
    LET files == walkRepo(repo)
        unit(f) == IF IsLaravel(files) THEN laravelUnit(f) ELSE genericUnit(f)
    IN Sorted([id \in {unit(f) : f \in ToSet(files)} \ {NoUnit} |-> id])

-------------------------------------------------------------------------------
(* Fragments (scoped-parser.ts) and their merge (merge.ts).                  *)

NoPath == <<None>>

noParse == [routes |-> <<>>, controllers |-> <<>>, models |-> <<>>]

\* Without a usable answer the fragment is empty; routes without a path are dropped.
parseUnit(repo, unit, pass) ==
    LET reply == Answer(repo, <<"unit", unit, pass>>, noParse)
    IN [reply EXCEPT !.routes = Only(@, {r \in ToSet(@) : r.path # NoPath})]

\* Identifiers become ":id"; named parameters and the case of words stay.
templatize(path) ==
    [i \in DOMAIN path |->
        IF path[i] \in ParamSegment \ NamedParam THEN ":id" ELSE path[i]]

\* Faulty variant: routes are one when they are spelled the same.
mergeKeySpelled(route) == RouteKey(route)

\* The key the reconciler joins on.
mergeKey(route) == normalizeRoute(RouteKey(route))

\* One route per key, at the path first seen; what one unit leaves open the next fills in.
mergeRoutes(routes) ==
    LET merged(key) ==
            LET same == Only(routes, {r \in ToSet(routes) : mergeKey(r) = key})
            IN [method |-> same[1].method, path |-> templatize(same[1].path),
                controller |-> FirstGiven(same, LAMBDA r : r.controller),
                action |-> FirstGiven(same, LAMBDA r : r.action)]
    IN Sorted([r \in {merged(mergeKey(r)) : r \in ToSet(routes)} |-> <<r.method>> \o r.path])

\* Of two units that give the operations of one method the later counts.
mergeControllers(controllers) ==
    LET named == SelectSeq(controllers, LAMBDA c : c.className # None)
        merged(name) ==
            [className  |-> name,
             operations |-> FoldLeft(LAMBDA all, c :
                                IF c.className = name THEN c.operations @@ all ELSE all,
                                <<>>, named)]
    IN Sorted([c \in {merged(c.className) : c \in ToSet(named)} |-> <<c.className>>])

\* Faulty variant: of the parts of a model the last replaces the others.
mergeModelsLatest(models) ==
    LET named == SelectSeq(models, LAMBDA m : m.className # None)
        last(m) == named[SelectLastInSeq(named, LAMBDA n : n.className = m.className)]
    IN SelectSeq(named, LAMBDA m : m = last(m))

\* The union of the fields; the first table name given.
mergeModels(models) ==
    LET named == SelectSeq(models, LAMBDA m : m.className # None)
        merged(name) ==
            LET same == SelectSeq(named, LAMBDA m : m.className = name)
                Union(f(_)) == Keys(Gather(same, f), LAMBDA x : x)
            IN [className |-> name, tableName |-> FirstGiven(same, LAMBDA m : m.tableName),
                fillable  |-> Union(LAMBDA m : m.fillable),
                casts     |-> Union(LAMBDA m : m.casts),
                relationships |-> Union(LAMBDA m : m.relationships)]
    IN Sorted([m \in {merged(m.className) : m \in ToSet(named)} |-> <<m.className>>])

\* References between units end in no extract.
mergeFragments(fragments) ==
    [routes      |-> mergeRoutes(Gather(fragments, LAMBDA f : f.routes)),
     controllers |-> mergeControllers(Gather(fragments, LAMBDA f : f.controllers)),
     models      |-> mergeModels(Gather(fragments, LAMBDA f : f.models))]

-------------------------------------------------------------------------------
(* The whole repository at once (source-parser.ts).                          *)

Ask(repo, kind, otherwise) == Answer(repo, <<kind, <<>>, 0>>, otherwise)

\* Operations are asked for in batches of models when the backend explores,
\* in one question when it only completes.
extractEntityOperations(repo, models) ==
    IF repo.backend # "explore" THEN Ask(repo, "operations", <<>>)
    ELSE Gather([n \in 1..Len(Batches(models, ENTITY_BATCH_SIZE)) |-> n],
                LAMBDA n : Answer(repo, <<"operations", <<>>, n>>, <<>>))

\* Four questions; a failed one leaves its part empty.
parseRepo(repo) ==
    LET models == Ask(repo, "models", <<>>)
    IN [routes |-> Ask(repo, "routes", <<>>), models |-> models,
        pages  |-> IF repo.backend = "explore" THEN Ask(repo, "pages", <<>>) ELSE <<>>,
        operations |-> extractEntityOperations(repo, models)]

\* Events of the answer count when the scan knows them.
extractRouteEvents(repo, routes, known) ==
    LET reply == Ask(repo, "route events", <<>>)
    IN [key \in {r.route : r \in ToSet(reply)} |->
            IF repo.backend # "explore" \/ routes = <<>> THEN {}
            ELSE known \cap UNION {r.events : r \in {r \in ToSet(reply) : r.route = key}}]

-------------------------------------------------------------------------------
(* Events and transitions read off the code (scan.ts, events.ts).  A line    *)
(* holds the class it opens, names it declares or constructs, and states it  *)
(* assigns.                                                                  *)

readSourceFiles(repo) ==
    SelectSeq(repo.files, LAMBDA f : f.kind = "code" /\ f.kb <= 512 /\ ~Below(f, ScanDirs))

\* Each line of a file with the class around it.
Enclosed(file) ==
    [i \in DOMAIN file.lines |->
        LET last == SelectLastInSeq(SubSeq(file.lines, 1, i), LAMBDA l : l.class # None)
        IN [class |-> IF last = 0 THEN None ELSE file.lines[last].class,
            names |-> file.lines[i].names, states |-> file.lines[i].states]]

Lines(repo) == Gather(readSourceFiles(repo), Enclosed)

\* The first sighting of a name counts.
extractEvents(lines) ==
    LET seen == Gather(lines, LAMBDA l :
                    MapSeq(SelectSeq(l.names, LAMBDA n : n \in EventName),
                           LAMBDA n : [name |-> n, aggregate |->
                                        IF l.class = n THEN None ELSE l.class]))
    IN MapSeq(Keys(seen, LAMBDA e : e.name), LAMBDA n : seen[FirstOf(seen, n)])

\* Only the target is seen, once per class.
extractStateTransitions(lines) ==
    Keys(Gather(lines, LAMBDA l :
            MapSeq(l.states, LAMBDA s :
                [aggregate |-> l.class, from |-> None, to |-> s, event |-> None])),
         LAMBDA t : t)

-------------------------------------------------------------------------------
(* Entities (derived/information-model.ts).                                  *)

modelEntity(name, model) ==
    [name |-> name, className |-> model.className, tableName |-> model.tableName,
     attributes |-> ToSet(Take(model.fillable, MaxAttributes))]

createEntitiesFallback(models) ==
    MapSeq(models, LAMBDA m :
        [modelEntity(m.className, m) EXCEPT
            !.attributes = IF m.fillable = <<>> THEN ToSet(Take(m.casts, MaxAttributes)) ELSE @])

extractRelationshipsFallback(models) ==
    Gather(models, LAMBDA m :
        MapSeq(m.relationships, LAMBDA r : [from |-> m.className, to |-> ClassOfMethod[r]]))

\* The answer names the entities and excludes what is internal; a class it
\* does not mention is no entity, one no model has is an entity without table.
parseLlmResult(reply, models) ==
    LET kept == SelectSeq(reply.entities, LAMBDA e : ~e.exclude)
        excluded == {e.className : e \in {e \in ToSet(reply.entities) : e.exclude}}
        nameOf(class) ==
            LET i == SelectLastInSeq(kept, LAMBDA e : e.className = class)
            IN IF i = 0 THEN class ELSE kept[i].name
        entity(class) ==
            LET i == SelectLastInSeq(models, LAMBDA m : m.className = class)
            IN modelEntity(nameOf(class),
                   IF i = 0 THEN [className |-> class, tableName |-> None, fillable |-> <<>>]
                   ELSE models[i])
    IN [entities |-> MapSeq(Keys(kept, LAMBDA e : e.className), entity),
        relationships |->
            MapSeq(SelectSeq(reply.relationships,
                             LAMBDA r : {r.from, r.to} \cap excluded = {}),
                   LAMBDA r : [from |-> nameOf(r.from), to |-> nameOf(r.to)])]

generate(repo, models) ==
    IF models # <<>> /\ Answered(repo, <<"entities", <<>>, 0>>)
    THEN parseLlmResult(repo.answers[<<"entities", <<>>, 0>>], models)
    ELSE [entities |-> createEntitiesFallback(models),
          relationships |-> extractRelationshipsFallback(models)]

-------------------------------------------------------------------------------
(* Usecases (usecase-extractor.ts).                                          *)

\* One usecase per controller: all its routes, about what it is named for.
fallbackExtraction(routes) ==
    LET stem(r) == Stem[r.controller]
    IN MapSeq(Keys(routes, stem), LAMBDA s :
        [name |-> Managed[s], entities |-> <<s>>,
         routes |-> MapSeq(SelectSeq(routes, LAMBDA r : stem(r) = s), RouteKey)])

\* A batch without a usable answer falls back alone.
extractBatches(repo, routes) ==
    LET batches == Batches(routes, BATCH_SIZE)
    IN Gather([n \in DOMAIN batches |-> n], LAMBDA n :
            Answer(repo, <<"usecases", <<>>, n>>, fallbackExtraction(batches[n])))

\* Of the usecases of one name the first stays.
deduplicate(usecases) ==
    MapSeq(Keys(usecases, LAMBDA u : u.name), LAMBDA n : usecases[FirstOf(usecases, n)])

extractUsecases(repo, routes) ==
    deduplicate(IF repo.backend = "none" THEN fallbackExtraction(routes)
                ELSE extractBatches(repo, routes))

-------------------------------------------------------------------------------
(* The extract (to-extract.ts).                                              *)

canonical(e) == IF e.tableName # None THEN e.tableName ELSE Lower[e.className]

\* Display name, class and table all lead to the one name of an entity.
resolve(name, entities) ==
    LET i == SelectLastInSeq(entities, LAMBDA e : name \in {e.name, e.className, e.tableName})
    IN IF i = 0 THEN Lower[name] ELSE canonical(entities[i])

usecaseRecords(usecase, entities) ==
    LET about == MapSeq(usecase.entities, LAMBDA n : resolve(n, entities))
    IN IF about = <<>> THEN <<>>
       ELSE MapSeq(usecase.routes, LAMBDA r :
                [name |-> usecase.name, entity |-> about[1], entities |-> ToSet(about),
                 crud |-> {crudOfMethod[r.method]}, route |-> <<r>>])

toStructureExtract(a) ==
    LET Ends(r) == [from |-> resolve(r.from, a.entities), to |-> resolve(r.to, a.entities)]
        edges == MapSeq(a.relationships, Ends)
        dependsOn(name) ==
            Keys(MapSeq(SelectSeq(edges, LAMBDA r : r.from = name /\ r.to # name),
                        LAMBDA r : r.to), LAMBDA n : n)
    IN [entities |-> MapSeq(a.entities, LAMBDA e :
            [name |-> canonical(e), attributes |-> e.attributes,
             dependsOn |-> dependsOn(canonical(e))]),
        routes |-> MapSeq(a.routes, LAMBDA r :
            [method |-> r.method, path |-> r.path,
             inputs |-> UNION {p.formFields : p \in {p \in ToSet(a.pages) : p.path = r.path}},
             events |-> IF RouteKey(r) \in DOMAIN a.routeEvents
                        THEN a.routeEvents[RouteKey(r)] ELSE {}]),
        usecases    |-> Gather(a.usecases, LAMBDA u : usecaseRecords(u, a.entities)),
        operations  |-> ToSet(a.operations),
        events      |-> a.events,
        transitions |-> a.transitions,
        overrides   |-> <<>>]

-------------------------------------------------------------------------------
(* The two analyses.                                                         *)

emptyAnalysis ==
    [routes |-> <<>>, entities |-> <<>>, relationships |-> <<>>, usecases |-> <<>>,
     operations |-> <<>>, pages |-> <<>>, events |-> <<>>, transitions |-> <<>>,
     routeEvents |-> <<>>]

\* Entities, usecases of the first routes and the diff axis.
Derived(repo, routes, models) ==
    Over([routes |-> routes, usecases |-> extractUsecases(repo, Take(routes, MaxRoutes)),
          events |-> extractEvents(Lines(repo)),
          transitions |-> extractStateTransitions(Lines(repo))],
         generate(repo, models))

\* analyzeRepo.
analyzeRepo(repo) ==
    LET parsed  == parseRepo(repo)
        derived == Derived(repo, parsed.routes, parsed.models)
        known   == {e.name : e \in ToSet(derived.events)}
    IN toStructureExtract(
         Over([operations |-> parsed.operations, pages |-> parsed.pages,
               routeEvents |-> extractRouteEvents(repo, parsed.routes, known)], derived))

merged(repo, pass) ==
    mergeFragments(MapSeq(enumerateUnits(repo), LAMBDA u : parseUnit(repo, u, pass)))

flattenEntityOps(controllers) ==
    Gather(controllers, LAMBDA c : SetToSeq(UNION Range(c.operations)))

projectFullDetailed(repo, pass) ==
    LET m == merged(repo, pass)
    IN toStructureExtract(
         Over(Over(Derived(repo, m.routes, m.models),
                   [operations |-> flattenEntityOps(m.controllers)]), emptyAnalysis))

\* Pass 1 is the inventory of routes and changes no earlier detail; the last
\* detail pass is the result.
analyzeRepoIncremental(repo) ==
    LET detail == SelectLastInSeq(repo.passes, LAMBDA p : p # 1)
    IN IF detail # 0 THEN projectFullDetailed(repo, repo.passes[detail])
       ELSE toStructureExtract([emptyAnalysis EXCEPT !.routes = merged(repo, 1).routes])

\* mergedExtract: the repositories of a workspace one after another.
mergedExtract(extracts) ==
    [entities    |-> Gather(extracts, LAMBDA e : e.entities),
     routes      |-> Gather(extracts, LAMBDA e : e.routes),
     usecases    |-> Gather(extracts, LAMBDA e : e.usecases),
     operations  |-> UNION {e.operations : e \in ToSet(extracts)},
     events      |-> Gather(extracts, LAMBDA e : e.events),
     transitions |-> Gather(extracts, LAMBDA e : e.transitions),
     overrides   |-> <<>>]

\* The whole-repository analysis has no pass list.
analyze(workspace) ==
    mergedExtract(MapSeq(workspace, LAMBDA repo :
        IF repo.passes = <<>> THEN analyzeRepo(repo) ELSE analyzeRepoIncremental(repo)))

-------------------------------------------------------------------------------
(* A scoped question about one entity (investigate.ts): what it proposes is  *)
(* recorded as corrections.                                                  *)

investigateEntity(entity, finding) ==
    LET correction(kind) ==
            [kind |-> kind, entity |-> entity, to |-> None, attributes |-> finding.attributes,
             dependsOn |-> <<>>, crud |-> finding.crud]
        When(given, kind) == IF given THEN <<correction(kind)>> ELSE <<>>
    IN IF ~finding.exists THEN <<correction("remove-entity")>>
       ELSE <<correction("add-entity")>>
            \o When(finding.attributes # {}, "set-attributes")
            \o When(finding.crud # {}, "set-crud")

-------------------------------------------------------------------------------
(* Properties of the analysis, for every repository tried.                   *)

\* The pass whose answers make the result.
LastingPass(repo) ==
    LET detail == SelectLastInSeq(repo.passes, LAMBDA p : p # 1)
    IN IF detail = 0 THEN 1 ELSE repo.passes[detail]

\* What the model told of a kind in the answers the result is made of.
Told(repo, kind) ==
    IF repo.passes = <<>> THEN ToSet(Answer(repo, <<kind, <<>>, 0>>, <<>>))
    ELSE UNION {ToSet(repo.answers[q][kind]) : q \in
                  {q \in DOMAIN repo.answers : q[1] = "unit" /\ q[3] = LastingPass(repo)
                                               /\ repo.backend # "none"}}

\* The parts of a model, and the names its entity may have.
ToldModels(repo) == {m \in Told(repo, "models") : m.className # None}
Parts(repo, class) == {m \in ToldModels(repo) : m.className = class}
NamesOf(repo, class) ==
    ({m.tableName : m \in Parts(repo, class)} \ {None}) \cup {Lower[class]}

ToldRoutes(repo) == {r \in Told(repo, "routes") : r.path # NoPath}

\* However many units or samples show a route, the merged extract has it once.
RoutesAreOne(repo, extract) ==
    LET key(r) == normalizeRoute(RouteKey(r))
    IN repo.passes # <<>> =>
         /\ \A i, j \in DOMAIN extract.routes :
               key(extract.routes[i]) = key(extract.routes[j]) => i = j
         /\ {key(r) : r \in ToSet(extract.routes)} = {key(r) : r \in ToldRoutes(repo)}

\* The classes an answer of the model takes out of the entities.
LeftOut(repo, classes) ==
    IF ~Answered(repo, <<"entities", <<>>, 0>>) THEN {}
    ELSE classes \ {e.className : e \in
            {e \in ToSet(repo.answers[<<"entities", <<>>, 0>>].entities) : ~e.exclude}}

\* A model told in parts by several units is one entity with the fields of all
\* parts (up to the cap); it goes by one name, and no dependency or usecase
\* goes by another.
ModelsAreEntities(repo, extract) ==
    LET classes == {m.className : m \in ToldModels(repo)}
        fields(class) == UNION {ToSet(m.fillable) : m \in Parts(repo, class)}
        shown(class)  == {e \in ToSet(extract.entities) : e.name \in NamesOf(repo, class)}
        used == UNION ({ToSet(e.dependsOn) : e \in ToSet(extract.entities)}
                       \cup {u.entities : u \in ToSet(extract.usecases)})
    IN repo.passes # <<1>> =>
         \A class \in classes \ LeftOut(repo, classes) :
           /\ Cardinality(shown(class)) = 1
           /\ \A e \in shown(class) :
                 /\ fields(class) # {} => e.attributes \subseteq fields(class)
                 /\ Cardinality(fields(class)) <= MaxAttributes =>
                       fields(class) \subseteq e.attributes
                 /\ used \cap NamesOf(repo, class) \subseteq {e.name}

\* A route of a batch the model did not answer still leads to the entity its
\* controller is named for.
UnansweredRoutesLead(repo, extract) ==
    LET first == ToSet(Take(extract.routes, BATCH_SIZE))
        key(r) == normalizeRoute(RouteKey(r))
        stems(r) == {Stem[t.controller] : t \in {t \in ToldRoutes(repo) :
                            key(t) = key(r) /\ t.controller # None}}
    IN ~Answered(repo, <<"usecases", <<>>, 1>>) /\ repo.passes # <<1>> =>
         \A r \in first : \E u \in ToSet(extract.usecases) :
             /\ u.route = <<RouteKey(r)>>
             /\ \A m \in ToldModels(repo) :
                   stems(r) = {m.className} => u.entity \in NamesOf(repo, m.className)

RoutesAreKept == \A repo \in Trials : RoutesAreOne(repo, analyze(<<repo>>))

NothingIsLost ==
    \A repo \in Trials :
        LET extract == analyze(<<repo>>)
        IN ModelsAreEntities(repo, extract) /\ UnansweredRoutesLead(repo, extract)

\* What the incremental analysis asks about, its units, and what a route is.
RouteShape(route) ==
    route.path = NoPath \/ /\ route.method \in DOMAIN Place
                           /\ route.path \in Seq(DOMAIN Lower \cap DOMAIN Place)

RepoShape(repo) ==
    /\ IsSequence(repo.files)
    /\ \A file \in ToSet(repo.files) : file.path \in Seq(DOMAIN Place) \ {<<>>}
    /\ \A q \in DOMAIN repo.answers : q[1] = "unit" =>
          /\ q \in {"unit"} \X ToSet(enumerateUnits(repo)) \X Nat
          /\ DOMAIN repo.answers[q] = DOMAIN noParse
          /\ IsSequence(repo.answers[q].routes)
          /\ \A route \in ToSet(repo.answers[q].routes) : RouteShape(route)

ASSUME TrialsAssumption == \A repo \in Trials : RepoShape(repo)
=============================================================================
