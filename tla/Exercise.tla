------------------------------- MODULE Exercise -------------------------------
(***************************************************************************)
(* What explore and crud do to the application and believe about it:       *)
(* invalid values submitted to forms (behavior/src/pipeline/explore.ts,    *)
(* services/explore) and entities created, updated and deleted             *)
(* (services/crud/execute.ts, cli/commands/crud.ts), each judged by a      *)
(* question to the database, while the recorder writes the traffic down.   *)
(*                                                                         *)
(* One page and one database.  The application is external and may do      *)
(* anything with a request: refuse it, store what was sent, store          *)
(* something else, store nothing, move to another screen, show an error or *)
(* none.  Somebody else may use the database at any time.                  *)
(***************************************************************************)
EXTENDS CrudPlans, Recorder, TLC

CONSTANTS
    Form,       \* function: screen with a form -> [fields, table, column, next, constraints,
                \*   proposes: whether the model has values to propose]
    Home,       \* the screen after the login
    ColumnsOf,  \* function: table -> columns as the database tells them
    RowIds,     \* the ids the application gives to new rows, in order
    Left,       \* databases a command may find: what was left behind
    Jobs,       \* commands tried
    MaxCommands \* bound of the model

\* What emit and the recorder know a route by.
Key(method, path) == normalizeRoute([method |-> method, path |-> path])
RouteKey(route)   == Key(route.method, route.path)

\* explore: its screens, in order; crud: the routes of the structure layer, in
\* order, and whether they are its nodes or only the first pass's.  Routes of two
\* entities may have one key: nothing merges those of several repositories.
ASSUME ExerciseAssumption ==
    /\ \A job \in Jobs : IF job.kind = "explore" THEN ToSet(job.screens) \subseteq DOMAIN Form
                         ELSE /\ job.kind = "crud" /\ job.hasFullNodes \in BOOLEAN
                              /\ job.routes \in Seq(ToSet(job.routes))
    /\ Home \notin DOMAIN Form
    /\ MaxCommands \in Nat /\ MaxMishaps \in Nat
    /\ \A i \in DOMAIN RowIds : RowIds[i] \in DOMAIN Lower

\* The columns of a table have different names, and the id, however it is
\* spelled, is never sent (plan.ts:6).
ASSUME ColumnsAssumption ==
    /\ IdNames \subseteq SkipColumns
    /\ \A columns \in {ColumnsOf[table] : table \in DOMAIN ColumnsOf} :
          /\ columns \in Seq(ToSet(columns))
          /\ \A i, j \in DOMAIN columns : columns[i].name = columns[j].name => i = j

\* A row that was left behind has its id in its id column.
ASSUME LeftAssumption ==
    \A r \in UNION Left :
        /\ DOMAIN r = {"table", "id", "cells"}
        /\ \A name \in IdNames : name \in DOMAIN r.cells /\ r.cells[name] = <<r.id>>

VARIABLES
    db, created,  \* the rows, and how many the application has ever made
    pc, issued,
    kind,         \* the kind of the latest command
    lastStatus,   \* explore: of the latest mutating response on the page
    cases,        \* explore: what is left to try
    judging,      \* explore: the case whose outcome is being judged
    plans,        \* crud: the entities left
    steps,        \* crud: the steps of the current entity
    results,      \* crud: the steps of the entities behind it
    doing,        \* crud: what became of the request whose effect is looked up
    truth,        \* history: what became of every step, by its request
    judged        \* history: the latest case that was judged

exploreVars == <<lastStatus, cases, judging, judged>>
crudVars    == <<plans, steps, results, doing, truth>>
dbVars      == <<db, created>>
vars == <<recorderVars, mishaps, dbVars, pc, issued, kind, exploreVars, crudVars>>

Row(table, id, cells) == [table |-> table, id |-> id, cells |-> cells]

\* The next row of a table, as the application would make it: its id is in its
\* id column, however that is spelled.
NextRow(table, cells) ==
    Row(table, RowIds[created + 1],
        [name \in DOMAIN cells \cup IdNames |->
            IF name \in IdNames THEN <<RowIds[created + 1]>> ELSE cells[name]])

MayCreate == created < Len(RowIds)

\* A function with the value at one key put in.
Put(f, key, value) == [x \in DOMAIN f \cup {key} |-> IF x = key THEN value ELSE f[x]]

\* What the application stores instead of what was sent.
Altered(cells) == [name \in DOMAIN cells |-> <<"altered">>]

Has(rows, table, column, value) ==
    \E r \in rows : r.table = table /\ column \in DOMAIN r.cells /\ r.cells[column] = value

\* Faulty variant: a failed query counts as saved.
wasValueSavedOrFailed(table, column, value, failed) ==
    failed \/ Has(db, table, column, value)

\* dbProbe.ts: false when the query fails.
wasValueSaved(table, column, value, failed) == ~failed /\ Has(db, table, column, value)
wasValueAbsent(table, column, value, failed) == ~failed /\ ~Has(db, table, column, value)

\* A question that is answered, or fails.
Asked(failed) == IF failed THEN Mishap ELSE NoMishap

-------------------------------------------------------------------------------
(* explore.                                                                    *)

Case(screen, constraint, value, expects) ==
    [screen |-> screen, field |-> constraint.field, known |-> constraint.known,
     value |-> value, expects |-> expects]

\* What ruleCases makes of each rule of a constraint, in its order.
RuleValues ==
    <<<<"required", "empty">>, <<"required", "blank">>, <<"maxLength", "too long">>,
      <<"minLength", "too short">>, <<"number", "no number">>, <<"integer", "fraction">>,
      <<"min", "below">>, <<"max", "above">>, <<"email", "no at">>, <<"email", "no domain">>,
      <<"email", "no name">>, <<"enum", "not in enum">>>>

Valid == <<"valid">>

\* The values the rules forbid, then a valid one.
ruleCases(screen, constraint) ==
    LET forbidden == SelectSeq(RuleValues, LAMBDA v : v[1] \in constraint.rules)
    IN [i \in DOMAIN forbidden |-> Case(screen, constraint, <<forbidden[i][2]>>, "reject")]
       \o <<Case(screen, constraint, Valid, "accept")>>

\* Rules of all fields first, then what the model proposes for each, if it does.
generateCases(screen, proposed) ==
    LET constraints == Form[screen].constraints
        rule  == FoldLeft(LAMBDA t, c : t \o ruleCases(screen, c), <<>>, constraints)
        extra == [i \in DOMAIN constraints |->
                     Case(screen, constraints[i], <<"proposed">>, "reject")]
    IN rule \o (IF proposed THEN extra ELSE <<>>)

\* The forms that were found, and whose constraints the model could tell.
CasesOf(screens, modelled, proposes) ==
    FoldLeft(LAMBDA t, s : IF s \in modelled THEN t \o generateCases(s, proposes[s]) ELSE t,
             <<>>, screens)

Begin(job, stage) ==
    /\ pc = "idle" /\ issued < MaxCommands /\ job \in Jobs
    /\ pc' = stage /\ issued' = issued + 1 /\ kind' = job.kind
    /\ UNCHANGED dbVars

\* Log in, visit every screen for its form, model the constraints.  The page
\* stays at the screen visited last.
StartExplore(job) ==
    /\ Begin(job, "cases") /\ job.kind = "explore"
    /\ \E found \in SUBSET ToSet(job.screens), modelled \in SUBSET ToSet(job.screens),
          proposes \in [DOMAIN Form -> BOOLEAN], status \in {"2xx", "none"} :
          LET visited == SelectSeq(job.screens, LAMBDA s : s \in found)
          IN /\ modelled \subseteq found
             /\ \A s \in DOMAIN Form : proposes[s] \in Form[s].proposes
             /\ IF modelled = ToSet(job.screens) THEN NoMishap ELSE Mishap
             /\ Fresh(IF visited = <<>> THEN Home ELSE Last(visited))
             /\ cases' = CasesOf(visited, modelled, proposes)
             /\ lastStatus' = status
    /\ judging' = <<>> /\ judged' = <<>>
    /\ UNCHANGED crudVars

\* Every selector of the form is on the page, and a submit button.
Fillable(c) == page \in DOMAIN Form /\ Form[c.screen].fields \subseteq Form[page].fields

\* fill waits in vain for a field: "case failed - continuing".
SkipCase ==
    /\ pc = "cases" /\ cases # <<>> /\ ~Fillable(cases[1]) /\ NoMishap
    /\ cases' = Tail(cases)
    /\ UNCHANGED <<recorderVars, dbVars, pc, issued, kind, lastStatus, judging, judged, crudVars>>

\* What the screen stores: the case's value in its column, valid ones elsewhere.
Submitted(c) ==
    LET form == Form[page]
        cells == [f \in form.fields |-> IF f = c.field THEN c.value ELSE Valid]
    IN NextRow(form.table, [name \in {form.column[f] : f \in form.fields} |->
                               cells[CHOOSE f \in form.fields : form.column[f] = name]])

\* How the application may answer: with any status, storing the row or not,
\* moving on or not.  The status is "none" where no mutating request was sent: the
\* browser has refused the value, or the form is a GET.
Outcome ==
    [status : Status, stores : BOOLEAN, shows : BOOLEAN, moves : BOOLEAN]

Possible(o) ==
    /\ o.stores => MayCreate
    /\ o.status = "none" /\ ~o.moves => ~o.stores

\* What runCase reports of the submission, and what it was in fact.
Observe(c, o) ==
    [case |-> c, sent |-> o.status # "none",
     status |-> IF o.status = "none" THEN lastStatus ELSE o.status,
     moved |-> o.moves, shown |-> o.shows,
     stored |-> /\ o.stores
                /\ c.known # <<>> => Has({Submitted(c)}, c.known[1], c.known[2], c.value),
     before |-> c.known # <<>> /\ Has(db, c.known[1], c.known[2], c.value),
     disturbed |-> FALSE]

isSuspicious(j) == ~j.shown /\ (j.status = "2xx" \/ j.moved)

\* runCase: fill, submit, wait, look.
RunCase ==
    /\ pc = "cases" /\ cases # <<>> /\ Fillable(cases[1]) /\ NoMishap
    /\ LET c == cases[1] IN
       \E o \in Outcome :
          /\ Possible(o)
          /\ judging' = IF c.expects = "reject" THEN <<Observe(c, o)>> ELSE <<>>
          /\ pc' = IF c.expects = "reject" THEN "judge" ELSE "cases"
          /\ IF o.stores THEN db' = db \cup {Submitted(c)} /\ created' = created + 1
                         ELSE UNCHANGED dbVars
          /\ IF o.status = "none"
             THEN /\ IF o.moves THEN FireAndMove("GET", <<page>>, "2xx", Form[page].next)
                                 ELSE UNCHANGED recorderVars
                  /\ UNCHANGED lastStatus
             ELSE /\ FireAndMove("POST", <<page>>, o.status,
                                 IF o.moves THEN Form[page].next ELSE page)
                  /\ lastStatus' = o.status
    /\ cases' = Tail(cases)
    /\ UNCHANGED <<issued, kind, judged, crudVars>>

\* classifyGap: no gap, a confirmed one, or one on the word of the screen.
classifyGap(j, failed) ==
    IF ~isSuspicious(j) THEN "none"
    ELSE IF j.case.known = <<>> THEN "medium"
    ELSE IF wasValueSaved(j.case.known[1], j.case.known[2], j.case.value, failed)
         THEN "high" ELSE "none"

Judge ==
    /\ pc = "judge"
    /\ \E failed \in BOOLEAN :
          /\ failed => isSuspicious(judging[1]) /\ judging[1].case.known # <<>>
          /\ Asked(failed)
          /\ judged' = <<[gap |-> classifyGap(judging[1], failed), blind |-> failed,
                          observed |-> judging[1]]>>
    /\ judging' = <<>> /\ pc' = "cases"
    /\ UNCHANGED <<recorderVars, dbVars, issued, kind, lastStatus, cases, crudVars>>

\* The page is closed once the findings are stored.
EndExplore ==
    /\ pc = "cases" /\ cases = <<>> /\ NoMishap
    /\ pc' = "close"
    /\ UNCHANGED <<recorderVars, dbVars, issued, kind, exploreVars, crudVars>>

-------------------------------------------------------------------------------
(* crud.                                                                       *)

\* The step of a request (remembered: its number) that was looked up, or not; and
\* what it lets the run call saved.
Step(n, route, ok, dbProbed, saved) ==
    [request |-> n, route |-> RouteKey(route), ok |-> ok, dbProbed |-> dbProbed, saved |-> saved]

NextRequest == Len(requests) + 1

\* Nobody asks what became of the next request.
NotLooked(route) ==
    truth' = Put(truth, NextRequest, [route |-> RouteKey(route), looked |-> FALSE])

Nothing == [id |-> <<>>, request |-> 0, effect |-> FALSE, before |-> FALSE, aside |-> FALSE,
            disturbed |-> FALSE]

\* Log in, ask for the columns of every entity (none when the question fails),
\* plan.  Without nodes the entities are guessed from the paths.
StartCrud(job) ==
    /\ Begin(job, "create") /\ job.kind = "crud"
    /\ Fresh(Home)
    /\ LET inputs == RouteInputs(job.routes, job.hasFullNodes)
           entities == {inputs[i].entity : i \in DOMAIN inputs} \ {""}
       IN \E unanswered \in SUBSET entities :
             /\ Asked(unanswered # {})
             /\ plans' = buildCrudPlans(inputs, [e \in entities |->
                            IF e \in unanswered \/ e \notin DOMAIN ColumnsOf THEN <<>>
                            ELSE ColumnsOf[e]])
    /\ steps' = <<>> /\ results' = <<>> /\ doing' = Nothing /\ truth' = <<>>
    /\ UNCHANGED exploreVars

plan == plans[1]

\* The entity is behind us.
EndPlan(all) ==
    /\ results' = Append(results, all) /\ steps' = <<>>
    /\ plans' = Tail(plans) /\ doing' = Nothing
    /\ pc' = "create"

\* The next question, or the next step when there is none.
Proceed(all, stage) ==
    /\ steps' = all /\ pc' = stage
    /\ UNCHANGED <<results, plans>>

\* One request of the api client and all the application does with it: what it
\* answers, the rows afterwards, whether that is the effect that was meant.
Request(route, path, status, rows, made) ==
    /\ IF status = "none" THEN FireAndFail(route.method, path) /\ Mishap
       ELSE FireAndMove(route.method, path, status, page) /\ NoMishap
    /\ db' = rows /\ created' = created + made

Accepts(status) == status = "2xx"

\* The cells of a create, as the plan's body has them.
BodyCells == [name \in {c.name : c \in plan.body} |->
                placeholderValue(CHOOSE c \in plan.body : c.name = name)]

\* POST.  The request is refused, is lost, or is accepted with or without the
\* row, and the answer names the id or not.
Create ==
    /\ pc = "create" /\ plans # <<>>
    /\ \E status \in {"2xx", "4xx", "none"}, does \in {"stores", "alters", "nothing"},
          named \in BOOLEAN :
          LET sent == NextRow(plan.table, BodyCells)
              row  == IF does = "alters" THEN NextRow(plan.table, Altered(BodyCells)) ELSE sent
          IN /\ does # "nothing" => MayCreate
             /\ named => Accepts(status) /\ MayCreate
             /\ Request(plan.create, plan.create.path, status,
                        IF does = "nothing" THEN db ELSE db \cup {row},
                        IF does = "nothing" /\ ~named THEN 0 ELSE 1)
             /\ IF ~Accepts(status)
                THEN IF status = "none" THEN EndPlan(steps) /\ UNCHANGED truth \* thrown: no step
                     ELSE /\ EndPlan(Append(steps, Step(NextRequest, plan.create, FALSE, FALSE, <<>>)))
                          /\ NotLooked(plan.create)
                ELSE IF plan.first # <<>>
                THEN /\ Proceed(steps, "created") /\ UNCHANGED truth
                     /\ doing' = [id |-> IF named THEN <<RowIds[created + 1]>> ELSE <<>>,
                                  request |-> NextRequest, effect |-> does = "stores",
                                  before |-> Has(db, plan.table, plan.first[1].name,
                                                 placeholderValue(plan.first[1])),
                                  aside |-> FALSE, disturbed |-> FALSE]
                ELSE /\ Proceed(Append(steps, Step(NextRequest, plan.create, TRUE, FALSE, <<>>)), "update")
                     /\ NotLooked(plan.create)
                     /\ doing' = [Nothing EXCEPT !.id = IF named THEN <<RowIds[created + 1]>>
                                                                ELSE <<>>]
    /\ UNCHANGED <<issued, kind, exploreVars>>

\* The database is asked about a step; remembered: what was the case.
Found(route, failed) ==
    /\ Asked(failed)
    /\ truth' = Put(truth, doing.request,
                    [route |-> RouteKey(route), looked |-> TRUE, effect |-> doing.effect,
                     before |-> doing.before, aside |-> doing.aside,
                     disturbed |-> doing.disturbed, blind |-> failed])

\* Is the first column of the body there?  Without an id that is all.
ProbeCreate ==
    /\ pc = "created"
    /\ \E failed \in BOOLEAN :
          LET ok == wasValueSaved(plan.table, plan.first[1].name, placeholderValue(plan.first[1]), failed)
              all == Append(steps, Step(doing.request, plan.create, ok, TRUE,
                                        IF ok THEN <<plan.first[1].name>> ELSE <<>>))
          IN /\ Found(plan.create, failed)
             /\ Proceed(all, "update") /\ UNCHANGED doing
    /\ UNCHANGED <<recorderVars, dbVars, issued, kind, exploreVars>>

\* Neither update nor delete without an id, and neither without its route.
SkipUpdate ==
    /\ pc = "update" /\ NoMishap
    /\ \/ doing.id = <<>> /\ EndPlan(steps)
       \/ doing.id # <<>> /\ plan.update = <<>> /\ Proceed(steps, "delete") /\ UNCHANGED doing
    /\ UNCHANGED <<recorderVars, dbVars, issued, kind, exploreVars, truth>>

NewValue == <<"crud-updated", plan.column[1].name>>

\* The rows that are meant by an id.
OfId(table, id) == {r \in db : r.table = table /\ r.id = id}

Update ==
    /\ pc = "update" /\ doing.id # <<>> /\ plan.update # <<>>
    /\ \E status \in {"2xx", "4xx", "none"}, does \in BOOLEAN :
          LET id == doing.id[1]
              old == OfId(plan.table, id)
              new == {[r EXCEPT !.cells = Put(@, plan.column[1].name, NewValue)] : r \in old}
          IN /\ does => old # {}
             /\ Request(plan.update[1], fillPath(plan.update[1].path, id), status,
                        IF does THEN (db \ old) \cup new ELSE db, 0)
             /\ CASE status = "none" -> EndPlan(steps) /\ UNCHANGED truth
                  [] status = "4xx"  ->
                       /\ Proceed(Append(steps, Step(NextRequest, plan.update[1], FALSE, FALSE, <<>>)),
                                  "delete")
                       /\ NotLooked(plan.update[1]) /\ UNCHANGED doing
                  [] OTHER ->
                       /\ Proceed(steps, "updated") /\ UNCHANGED truth
                       /\ doing' = [doing EXCEPT !.request = NextRequest, !.effect = does,
                                       !.before = Has(db, plan.table, plan.column[1].name, NewValue),
                                       !.disturbed = FALSE]
    /\ UNCHANGED <<issued, kind, exploreVars>>

ProbeUpdate ==
    /\ pc = "updated"
    /\ \E failed \in BOOLEAN :
          LET ok == wasValueSaved(plan.table, plan.column[1].name, NewValue, failed)
          IN /\ Found(plan.update[1], failed)
             /\ Proceed(Append(steps, Step(doing.request, plan.update[1], ok, TRUE,
                                           IF ok THEN <<plan.column[1].name>> ELSE <<>>)), "delete")
             /\ UNCHANGED doing
    /\ UNCHANGED <<recorderVars, dbVars, issued, kind, exploreVars>>

SkipDelete ==
    /\ pc = "delete" /\ plan.delete = <<>> /\ NoMishap
    /\ EndPlan(steps)
    /\ UNCHANGED <<recorderVars, dbVars, issued, kind, exploreVars, truth>>

Delete ==
    /\ pc = "delete" /\ plan.delete # <<>>
    /\ \E status \in {"2xx", "4xx", "none"}, does \in BOOLEAN :
          LET id == doing.id[1]
              old == OfId(plan.table, id)
          IN /\ Request(plan.delete[1], fillPath(plan.delete[1].path, id), status,
                        IF does THEN db \ old ELSE db, 0)
             /\ CASE status = "none" -> EndPlan(steps) /\ UNCHANGED truth
                  [] status = "4xx"  ->
                       /\ EndPlan(Append(steps, Step(NextRequest, plan.delete[1], FALSE, FALSE, <<>>)))
                       /\ NotLooked(plan.delete[1])
                  [] OTHER ->
                       /\ Proceed(steps, "deleted") /\ UNCHANGED truth
                       /\ doing' = [doing EXCEPT !.request = NextRequest,
                                       !.effect = does \/ old = {},
                                       !.before = FALSE,
                                       !.aside = plan.idColumn \notin IdNames,
                                       !.disturbed = FALSE]
    /\ UNCHANGED <<issued, kind, exploreVars>>

\* Is there no row with that id in the id column?
ProbeDelete ==
    /\ pc = "deleted"
    /\ \E failed \in BOOLEAN :
          LET ok == wasValueAbsent(plan.table, plan.idColumn, doing.id, failed)
          IN /\ Found(plan.delete[1], failed)
             /\ EndPlan(Append(steps, Step(doing.request, plan.delete[1], ok, TRUE, <<>>)))
    /\ UNCHANGED <<recorderVars, dbVars, issued, kind, exploreVars>>

\* The findings and the results of all entities are written, or the last one
\* to be written is not.
Publish ==
    /\ pc = "create" /\ plans = <<>> /\ NoMishap
    /\ pc' = "close"
    /\ UNCHANGED <<recorderVars, dbVars, issued, kind, exploreVars, crudVars>>

-------------------------------------------------------------------------------
(* The end of a command, and everybody else.                                   *)

CloseBrowser ==
    /\ pc = "close" /\ NoMishap
    /\ closed' = TRUE /\ pc' = "closed"
    /\ UNCHANGED <<page, requests, lines, nextSeq, dbVars, issued, kind, exploreVars, crudVars>>

\* node ends when nothing is under way any more.
End ==
    /\ pc = "closed" /\ Pending = {} /\ NoMishap
    /\ pc' = "idle"
    /\ UNCHANGED <<recorderVars, dbVars, issued, kind, exploreVars, crudVars>>

\* An exception (process.exit), or a crash: what is under way is lost.
Die ==
    /\ pc # "idle" /\ Mishap
    /\ pc' = "idle" /\ closed' = TRUE
    /\ requests' = [n \in DOMAIN requests |->
                      IF n \in Pending THEN [requests[n] EXCEPT !.stage = "lost", !.line = <<>>]
                      ELSE requests[n]]
    /\ judging' = <<>> /\ cases' = <<>> /\ plans' = <<>> /\ steps' = <<>>
    /\ doing' = Nothing
    /\ IF pc \in {"close", "closed"} THEN UNCHANGED <<results, truth>>
       ELSE results' = <<>> /\ truth' = <<>>
    /\ UNCHANGED <<page, lines, nextSeq, dbVars, issued, kind, lastStatus, judged>>

\* Somebody else removes a row, seeds the database again, or is another crud
\* that creates what this one has just created.
Elsewhere ==
    /\ Mishap
    /\ \/ db' \in {db \ {r} : r \in db} \cup {{}} /\ UNCHANGED created
       \/ /\ pc = "created" /\ MayCreate
          /\ db' = db \cup {NextRow(plan.table, BodyCells)} /\ created' = created + 1
    /\ doing' = [doing EXCEPT !.disturbed = TRUE]
    /\ judging' = [i \in DOMAIN judging |-> [judging[i] EXCEPT !.disturbed = TRUE]]
    /\ UNCHANGED <<recorderVars, pc, issued, kind, lastStatus, cases, judged,
                   plans, steps, results, truth>>

Record == RecorderStep /\ UNCHANGED <<dbVars, pc, issued, kind, exploreVars, crudVars>>

Init ==
    /\ RecorderInit(Home)
    /\ db \in Left /\ created = 0 /\ pc = "idle" /\ issued = 0 /\ kind = "none"
    /\ lastStatus = "none" /\ cases = <<>> /\ judging = <<>> /\ judged = <<>>
    /\ plans = <<>> /\ steps = <<>> /\ results = <<>> /\ doing = Nothing /\ truth = <<>>

Next ==
    \/ \E job \in Jobs : StartExplore(job) \/ StartCrud(job)
    \/ SkipCase \/ RunCase \/ Judge \/ EndExplore
    \/ Create \/ ProbeCreate \/ SkipUpdate \/ Update \/ ProbeUpdate
    \/ SkipDelete \/ Delete \/ ProbeDelete \/ Publish
    \/ CloseBrowser \/ End \/ Die \/ Elsewhere \/ Record

Spec == Init /\ [][Next]_vars

-------------------------------------------------------------------------------
(* Properties.                                                                 *)

\* A gap that is reported as confirmed is one: the value the form should have
\* refused was stored by this submission, or was in the column before, or
\* somebody else was there.  One that is reported on the word of the screen was
\* accepted, or nothing was sent and an earlier answer counts for it.  A question
\* that failed reports nothing; and a forbidden value that was accepted and
\* stored without a message is reported, unless the question failed or somebody
\* else was there (classifyGap, runCase, wasValueSaved).
GapsAreTold ==
    \A verdict \in ToSet(judged) :
        LET j        == verdict.observed
            accepted == j.moved \/ (j.sent /\ j.status = "2xx")
        IN /\ verdict.gap = "high" => j.stored \/ j.before \/ j.disturbed
           /\ verdict.gap = "medium" => accepted \/ (~j.sent /\ j.status = "2xx")
           /\ verdict.blind => verdict.gap = "none"
           /\ j.stored /\ accepted /\ ~j.shown =>
                 verdict.gap # "none" \/ verdict.blind \/ j.disturbed

\* What emit says of a recorded mutation of this run is what became of the first
\* step on its route, which is the mutation itself where no other step has that
\* route: nothing is said just when that step was not looked up or there is none;
\* and unless somebody else was there or the id is looked up in another column,
\* it is "yes" only when the request had its effect or the value was there
\* before, "no" only when it had none or the question failed (execute.ts,
\* tx-persistence.ts).
VerdictsAreTrue ==
    kind = "crud" /\ pc \in {"close", "closed", "idle"} =>
        \A line \in ToSet(lines) :
            LET key     == Key(line.method, line.path)
                verdict == annotatePersistence(key, results)
                onRoute == {n \in DOMAIN truth : truth[n].route = key}
                first   == truth[Min(onRoute)]
            IN /\ verdict # "unknown" <=> onRoute # {} /\ first.looked
               /\ verdict # "unknown" /\ ~first.disturbed /\ ~first.aside =>
                     IF verdict = "yes" THEN first.effect \/ first.before
                                        ELSE ~first.effect \/ first.blind

\* However the handlers interleave: every request has at most one line, no two
\* lines share a number, a request fired when a line was written has a greater
\* number, a line is "ok" only if the answer was, and its page is the one the
\* request was fired from unless the page has moved on since; and no handler is
\* left behind when the command is over (recorder.ts).
LinesTellTheRequests ==
    /\ \A i, j \in DOMAIN lines :
          i # j => lines[i].seq # lines[j].seq /\ lines[i].request # lines[j].request
    /\ \A j \in DOMAIN lines :
          LET request == requests[lines[j].request]
          IN /\ \A i \in 1..request.after : lines[i].seq < lines[j].seq
             /\ lines[j].ok => request.status \in {"2xx", "3xx"}
             /\ lines[j].page = request.from \/ {lines[j].page, request.from} \subseteq request.seen
    /\ pc = "idle" => Pending = {}
===============================================================================
