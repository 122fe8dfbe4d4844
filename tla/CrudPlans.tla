------------------------------- MODULE CrudPlans -------------------------------
(***************************************************************************)
(* What crud is going to do to each entity, from the routes of the         *)
(* structure layer and the columns of the database                         *)
(* (behavior/src/services/crud/plan.ts).                                   *)
(*                                                                         *)
(* A route is a method, the segments of its path and the entity it is said *)
(* to be of, if any.  A column has a name, a kind and whether it may be    *)
(* null; values are tuples.                                                *)
(***************************************************************************)
EXTENDS Names

CONSTANTS
    Template,    \* segments that are parameters: ":x", "{x}"
    NoResource,  \* parameters, numbers, versions and API prefixes
    IdNames,     \* column names that are "id"
    SkipColumns  \* id, created_at, updated_at and their spellings

hasIdParam(path) == \E i \in DOMAIN path : path[i] \in Template

placeholderValue(column) ==
    CASE column.kind = "number" -> <<"1">>
      [] column.kind = "boolean" -> <<"true">>
      [] OTHER -> <<"crud", column.name>>

\* What find gives: the first element of a sequence that is in a set, if any.
First(s, set) ==
    LET i == SelectInSeq(s, LAMBDA x : x \in set) IN IF i = 0 THEN <<>> ELSE <<s[i]>>

Either(found, instead) == IF found # <<>> THEN found ELSE instead

\* The column called id, or else the first that is not null.
pickIdColumn(columns) ==
    Either(First(columns, {c \in ToSet(columns) : c.name \in IdNames}),
           First(columns, {c \in ToSet(columns) : ~c.nullable}))

\* The columns that are sent, and the first of them.
deriveBody(columns) == {c \in ToSet(columns) : c.name \notin SkipColumns}
FirstSent(columns)  == First(columns, deriveBody(columns))

pickUpdatableColumn(columns, idColumn) ==
    First(columns, {c \in deriveBody(columns) : c.name # idColumn})

\* The last segment that names a resource, in lower case.
entityFromPath(path) ==
    LET i == SelectLastInSeq(path, LAMBDA s : s \notin NoResource)
    IN IF i = 0 THEN "" ELSE Lower[path[i]]

\* The entities of nodes are the analysis's; without nodes they are guessed.
RouteInputs(routes, hasFullNodes) ==
    [i \in DOMAIN routes |->
        IF hasFullNodes THEN routes[i]
        ELSE [routes[i] EXCEPT !.entity = entityFromPath(routes[i].path)]]

RoutesOf(inputs, entity, methods) ==
    {r \in ToSet(inputs) : r.entity = entity /\ r.method \in methods}

WithId(routes) == {r \in routes : hasIdParam(r.path)}

\* The plan for one entity, if it can be created and has an id column.
planOf(entity, inputs, columns) ==
    LET posts  == RoutesOf(inputs, entity, {"POST"})
        create == Either(First(inputs, posts \ WithId(posts)), First(inputs, posts))
        id     == pickIdColumn(columns)
    IN IF create = <<>> \/ id = <<>> THEN <<>>
       ELSE LET changed == pickUpdatableColumn(columns, id[1].name)
            IN <<[table  |-> entity, idColumn |-> id[1].name, create |-> create[1],
                  update |-> IF changed = <<>> THEN <<>>
                             ELSE First(inputs, WithId(RoutesOf(inputs, entity, {"PATCH", "PUT"}))),
                  column |-> changed,
                  delete |-> First(inputs, WithId(RoutesOf(inputs, entity, {"DELETE"}))),
                  body   |-> deriveBody(columns), first |-> FirstSent(columns)]>>

\* One plan per entity, in the order the routes name them; routes without an
\* entity are left out.
buildCrudPlans(inputs, columnsByTable) ==
    LET upTo[n \in 0..Len(inputs)] ==
            IF n = 0 THEN <<>>
            ELSE LET entity == inputs[n].entity
                 IN upTo[n - 1] \o
                    (IF entity = "" \/ \E i \in 1..n - 1 : inputs[i].entity = entity THEN <<>>
                     ELSE planOf(entity, inputs, columnsByTable[entity]))
    IN upTo[Len(inputs)]

\* Every parameter of the path becomes the id.
fillPath(path, id) == [i \in DOMAIN path |-> IF path[i] \in Template THEN id ELSE path[i]]
=============================================================================
