------------------------------ MODULE Acquisition ------------------------------
(***************************************************************************)
(* The commands that acquire the layers and the freshness they record:     *)
(* analyze-structure, analyze-behavior, the structure and behavior phases  *)
(* of run (cli/src/index.ts), the behavior CLI they spawn (behavior-spawn, *)
(* the collect, login and scenario stages of a run, emit), clear, and a    *)
(* standalone "run --explore" of that CLI.                                 *)
(*                                                                         *)
(* A unit of the clock is longer than a command.  The application changes  *)
(* to another version, or back, between commands and during an analysis of *)
(* the code.                                                               *)
(***************************************************************************)
EXTENDS Discover, Scenarios, Freshness

CONSTANTS
    Setting,      \* configurations of the behavior CLI
    Prefixed,     \* function: directory -> its name under the repository's name
    Unit,         \* directories --unit may narrow an analysis to
    MaxCommands, MaxClock  \* bounds of the model

\* Only scenarios their schema lets through are loaded; an id names one of them,
\* and what a step navigates to is a URL, as it is written and with its values.
StepsOf(s) == ToSet(s.steps) \cup UNION {ToSet(s.acts[i].steps) : i \in DOMAIN s.acts}

ASSUME SettingAssumption ==
    \A c \in Setting :
        /\ c.scenarios \in Seq(ToSet(c.scenarios))
        /\ \A i \in DOMAIN c.scenarios :
              LET s == c.scenarios[i]
              IN /\ ValidScenario(s)
                 /\ s.steps \in Seq(StepsOf(s)) /\ s.acts \in Seq(ToSet(s.acts))
                 /\ \A a \in ToSet(s.acts) : a.steps \in Seq(StepsOf(s))
                 /\ \A step \in StepsOf(s) :
                       \/ {step.url, step.raw} \subseteq Url
                       \/ step.url = None /\ step.raw = None /\ step.action # "navigate"
        /\ \A i, j \in DOMAIN c.scenarios : c.scenarios[i].id = c.scenarios[j].id => i = j

ASSUME BoundsAssumption == {MaxCommands, MaxClock, MaxMishaps} \subseteq Nat

\* The watched files of a version.
ScanOf(v) == scanByDir(App[v].files)

\* All directories there ever are: those of an analysis that is not narrowed.
AllUnits == UNION {DOMAIN App[v].files : v \in DOMAIN App}

VARIABLES
    store,     \* data/acquisition.json
    analysed,  \* the structure layer: directory -> file -> content it was derived from
    routes,    \* the routes of the structure layer
    saved,     \* the newest structure a behavior run has saved: its pages
    pages,     \* the page routes of the behavior layer
    clock, commands,
    cmd,       \* the command under way
    doubts,    \* history: layers whose recorded freshness the code gives no reason for
    drifted,   \* history: <<directory, content>> that was vouched for, but read otherwise
    crawledAt  \* history: page -> time of the last crawl that captured it

browserVars == <<page, session, mishaps, crawl, login, exec>>
layerVars == <<store, analysed, routes, saved, pages, drifted>>
worldVars == <<version, clock, commands, config>>
vars == <<browserVars, layerVars, worldVars, cmd, doubts, crawledAt>>

Idle == [kind |-> "idle"]

Init ==
    /\ version = 1 /\ config \in Setting
    /\ page = NoPage /\ session = LoggedOut /\ mishaps = 0
    /\ crawl = NoCrawl /\ login = NoLogin /\ exec = NoExec
    /\ store = <<>> /\ analysed = <<>> /\ routes = {} /\ saved = {} /\ pages = {}
    /\ clock = 0 /\ commands = 0 /\ cmd = Idle
    /\ doubts = {} /\ drifted = {} /\ crawledAt = <<>>

-------------------------------------------------------------------------------
(* The world.                                                                *)

CommandFollows == commands < MaxCommands  \* bound of the model: what changes matters to one

Edit ==
    /\ cmd.kind \in {"idle", "structure"} /\ CommandFollows
    /\ \E other \in DOMAIN App \ {version} : version' = other
    /\ UNCHANGED <<browserVars, layerVars, clock, commands, config, cmd, doubts, crawledAt>>

Tick ==
    /\ cmd.kind = "idle" /\ CommandFollows /\ clock < MaxClock
    /\ clock' = clock + 1
    /\ UNCHANGED <<browserVars, layerVars, version, commands, config, cmd, doubts, crawledAt>>

Started(command) ==
    /\ cmd.kind = "idle" /\ commands < MaxCommands
    /\ commands' = commands + 1
    /\ cmd' = command

-------------------------------------------------------------------------------
(* Structure: cmdAnalyzeStructure, and makeAnalyzeStructureRepo for run.     *)

Scanned == ScanOf(version)

\* --force, the first run, or a directory that is new, changed or expired.
StructureDue(force) ==
    LET s == readStore(store)
    IN force \/ DOMAIN s.structure = {} \/ staleDirs(s, Scanned, clock) # {}

\* The store and the scan are read before the analysis, and kept until its end.
AnalyzeStructure(force, units) ==
    /\ StructureDue(force)
    /\ Started([kind |-> "structure", store |-> readStore(store),
                scan |-> Scanned, units |-> units, emitted |-> FALSE, disturbed |-> FALSE])
    /\ UNCHANGED <<browserVars, layerVars, clock, version, config, doubts, crawledAt>>

SkipStructure ==
    /\ ~StructureDue(FALSE)
    /\ Started(Idle)
    /\ UNCHANGED <<browserVars, layerVars, clock, version, config, doubts, crawledAt>>

\* prefixScan keeps the directories of two repositories apart.
prefixScan(scan) ==
    [name \in {Prefixed[d] : d \in DOMAIN scan} |-> scan[CHOOSE d \in DOMAIN scan : Prefixed[d] = name]]

\* The phase of run has no gate.
PhaseStructure ==
    /\ Started([kind |-> "structure", store |-> readStore(store),
                scan |-> prefixScan(Scanned), units |-> AllUnits,
                emitted |-> FALSE, disturbed |-> FALSE])
    /\ UNCHANGED <<browserVars, layerVars, clock, version, config, doubts, crawledAt>>

\* What a store vouches for, and the part of it the code is not like now.
Vouched(s) == {<<d, s.structure[d].files>> : d \in DOMAIN s.structure}
DriftedFrom(s) == {v \in Vouched(s) : ~(v[1] \in DOMAIN Scanned /\ Scanned[v[1]] = v[2])}

Narrowed == ~(AllUnits \subseteq cmd.units)

\* The passes read the code as it is now and write the whole layer, of the
\* units they were narrowed to.
EmitAnalysis ==
    /\ cmd.kind = "structure" /\ ~cmd.emitted
    /\ analysed' = Restrict(Scanned, DOMAIN Scanned \cap cmd.units)
    /\ routes' = UNION {app.routes[d] : d \in DOMAIN app.routes \cap cmd.units}
    /\ cmd' = [cmd EXCEPT !.emitted = TRUE]
    /\ doubts' = IF Narrowed THEN doubts \cup {"structure"} ELSE doubts
    /\ drifted' = DriftedFrom(readStore(store))
                  \cup DriftedFrom(recordStructure(cmd.store, cmd.scan, clock))
    /\ UNCHANGED <<browserVars, store, saved, pages, worldVars, crawledAt>>

RecordAnalysis ==
    /\ cmd.kind = "structure" /\ cmd.emitted
    /\ store' = writeStore(recordStructure(cmd.store, cmd.scan, clock))
    /\ cmd' = Idle
    /\ doubts' = IF cmd.disturbed THEN {"structure", "behavior"}
                 ELSE IF Narrowed THEN doubts ELSE doubts \ {"structure"}
    /\ UNCHANGED <<browserVars, analysed, routes, saved, pages, drifted, worldVars, crawledAt>>

-------------------------------------------------------------------------------
(* Behavior: cmdAnalyzeBehavior, runBehaviorForWorkspace, and the CLI.       *)

BehaviorDue(force) ==
    LET s == readStore(store)
    IN force \/ DOMAIN s.behavior = {} \/ planBehaviorCrawl(routes, s, clock).toCrawl # {}

stepTargets ==
    FlattenSeq([i \in DOMAIN config.scenarios |->
        LET steps == AllSteps(config.scenarios[i])
            navs  == Only(steps, {st \in ToSet(steps) : st.raw # None})
        IN [j \in DOMAIN navs |-> navs[j].raw]])

\* A run of the behavior CLI: "by" is the command that spawned it.  Without
\* --explore every stage has a page, and cookies, of its own, and the crawl logs
\* in if there is a loginPath.  Only the shared login knows the loginUrl.
RunCli(by, explore) ==
    /\ commands + 1 < MaxCommands  \* bound of the model: one command may follow
    /\ Started([kind |-> "behavior", by |-> by, stage |-> IF explore THEN "auth" ELSE "collect",
                store |-> readStore(store), collected |-> FALSE, disturbed |-> FALSE])
    /\ OpenPage(LoggedOut)
    /\ IF explore
       THEN /\ login' = newLogin(RunTarget, UrlForm[RunTarget], config.creds[RunTarget],
                                 config.twoFactor)
            /\ UNCHANGED crawl
       ELSE /\ crawl' = newCrawl(RunTarget, ~config.loginPath, stepTargets)
            /\ UNCHANGED login
    /\ UNCHANGED <<mishaps, exec, layerVars, clock, version, config, doubts, crawledAt>>

AnalyzeBehavior(force) == BehaviorDue(force) /\ RunCli("analyze", FALSE)

\* The phase of run has no gate either.
PhaseBehavior == RunCli("run", FALSE)

SkipBehavior ==
    /\ ~BehaviorDue(FALSE)
    /\ Started(Idle)
    /\ UNCHANGED <<browserVars, layerVars, clock, version, config, doubts, crawledAt>>

In(stage) == cmd.kind = "behavior" /\ cmd.stage = stage
Enters(stage) == cmd' = [cmd EXCEPT !.stage = stage]

\* getAuthedContext: the crawl shares its cookies; a failed login fails the stage.
SharedContext ==
    /\ In("auth") /\ login.stage = "done"
    /\ login' = NoLogin
    /\ crawl' = IF login.ok THEN newCrawl(RunTarget, TRUE, stepTargets) ELSE [stage |-> "failed"]
    /\ Enters("collect") /\ OpenPage(session)
    /\ UNCHANGED <<mishaps, exec, layerVars, worldVars, doubts, crawledAt>>

\* The tests of the login and the scenarios start from no session.
loginTest == \E i \in DOMAIN config.scenarios : isLoginScenario(config.scenarios[i])

PageKeys(rawPages) == {Key[u] : u \in ToSet(rawPages)}

\* collect saves what it found; a failure is logged and the run goes on.
Collected ==
    /\ In("collect") /\ crawl.stage \in {"done", "failed"}
    /\ LET found == IF crawl.stage = "done" THEN PageKeys(crawl.rawPages) ELSE {}
       IN /\ saved' = IF crawl.stage = "done" THEN found ELSE saved
          /\ crawledAt' = Overlay(crawledAt, [p \in found |-> clock])
    /\ crawl' = NoCrawl
    /\ cmd' = [cmd EXCEPT !.stage = "login", !.collected = crawl.stage = "done"]
    /\ OpenPage(LoggedOut)
    /\ login' = IF loginTest
                THEN newLogin(RunTarget, PathForm[RunTarget], config.creds[RunTarget], config.twoFactor)
                ELSE NoLogin
    /\ UNCHANGED <<mishaps, exec, store, analysed, routes, pages, drifted, worldVars, doubts>>

\* runLoginIfDetected ends in a finding; runScenarioStage leaves that scenario out.
LoginTested ==
    /\ In("login") /\ login.stage \in {"none", "done"}
    /\ login' = NoLogin
    /\ exec' = newExec(runnable(config.scenarios))
    /\ Enters("scenarios") /\ OpenPage(LoggedOut)
    /\ UNCHANGED <<mishaps, crawl, layerVars, worldVars, doubts, crawledAt>>

\* A throw is caught around the stage; then the process ends, one way or the other.
ScenariosTested ==
    /\ In("scenarios") /\ (exec.stage = "threw" \/ ScenariosOver)
    /\ exec' = NoExec
    /\ \/ cmd.by # "cli" /\ NoMishap /\ Enters("emit")
       \/ cmd.by # "cli" /\ Mishap /\ cmd' = Idle  \* exit 1
       \/ cmd.by = "cli" /\ NoMishap /\ cmd' = Idle
    /\ OpenPage(LoggedOut)
    /\ UNCHANGED <<crawl, login, layerVars, worldVars, doubts, crawledAt>>

\* runBehaviorSpawns ignores how emit ends.
Emit ==
    /\ In("emit")
    /\ \/ NoMishap /\ pages' = saved /\ cmd' = [cmd EXCEPT !.stage = "record"]
       \/ /\ Mishap
          /\ cmd' = [cmd EXCEPT !.stage = "record", !.collected = FALSE]
          /\ UNCHANGED pages
    /\ UNCHANGED <<page, session, crawl, login, exec, store, analysed, routes, saved,
                   drifted, worldVars, doubts, crawledAt>>

\* analyze-behavior writes back the store it read at its start, run reads it now.
RecordBehavior ==
    /\ In("record")
    /\ LET base == IF cmd.by = "analyze" THEN cmd.store ELSE readStore(store)
       IN store' = writeStore(recordBehavior(base, pages, clock, pages))
    /\ cmd' = Idle
    /\ doubts' = (IF cmd.disturbed THEN {"structure", "behavior"} ELSE doubts \ {"behavior"})
                 \cup (IF cmd.collected THEN {} ELSE {"behavior"})
    /\ UNCHANGED <<browserVars, analysed, routes, saved, pages, drifted, worldVars, crawledAt>>

BrowserStep ==
    /\ cmd.kind = "behavior"
    /\ \/ cmd.stage = "collect" /\ CrawlStep(config.creds[RunTarget]) /\ UNCHANGED <<login, exec, config>>
       \/ LoginStep /\ UNCHANGED <<crawl, exec, config>>
       \/ cmd.stage = "scenarios" /\ ScenarioStep /\ UNCHANGED crawl
       \/ AppArrives /\ UNCHANGED <<crawl, login, exec, config>>
    /\ UNCHANGED <<layerVars, clock, commands, cmd, doubts, crawledAt>>

-------------------------------------------------------------------------------
(* clear, in a process of its own, and a crash.                              *)

\* resetAcquisition rewrites one bucket of the store.
Reset(layer) == writeStore([readStore(store) EXCEPT ![layer] = <<>>])

\* The browser stages read none of what clear removes: it may as well come
\* before or after them.
Apart == cmd.kind = "behavior" => cmd.stage \in {"emit", "record"}

Disturb == cmd' = IF cmd.kind = "idle" THEN cmd ELSE [cmd EXCEPT !.disturbed = TRUE]

ClearStructure ==
    /\ Apart /\ analysed # <<>>
    /\ analysed' = <<>> /\ routes' = {} /\ store' = Reset("structure") /\ Disturb
    /\ UNCHANGED <<browserVars, saved, pages, drifted, worldVars, doubts, crawledAt>>

ClearBehavior ==
    /\ Apart /\ saved # {}
    /\ saved' = {} /\ pages' = {} /\ crawledAt' = <<>> /\ store' = Reset("behavior") /\ Disturb
    /\ UNCHANGED <<browserVars, analysed, routes, drifted, worldVars, doubts>>

Crash ==
    /\ cmd.kind # "idle" /\ Mishap
    /\ cmd' = Idle /\ crawl' = NoCrawl /\ login' = NoLogin /\ exec' = NoExec
    /\ OpenPage(LoggedOut)
    /\ UNCHANGED <<layerVars, worldVars, doubts, crawledAt>>

-------------------------------------------------------------------------------
Next ==
    \/ Edit \/ Tick
    \/ \E force \in BOOLEAN, units \in {AllUnits, Unit} : AnalyzeStructure(force, units)
    \/ SkipStructure \/ PhaseStructure \/ EmitAnalysis \/ RecordAnalysis
    \/ \E force \in BOOLEAN : AnalyzeBehavior(force)
    \/ SkipBehavior \/ PhaseBehavior \/ RunCli("cli", TRUE)
    \/ SharedContext \/ Collected \/ LoginTested \/ ScenariosTested \/ Emit \/ RecordBehavior
    \/ BrowserStep
    \/ ClearStructure \/ ClearBehavior \/ Crash

Spec == Init /\ [][Next]_vars

-------------------------------------------------------------------------------
(* Correctness properties.                                                   *)

TypeOK ==
    /\ version \in DOMAIN App
    /\ page.at \in Url \cup {NoPage.at} /\ Len(page.arriving) <= 1
    /\ session \in [Target -> {Nobody} \cup UNION {App[v].users : v \in DOMAIN App}]
    /\ mishaps \in 0..MaxMishaps /\ clock \in 0..MaxClock /\ commands \in 0..MaxCommands
    /\ cmd.kind \in {"idle", "structure", "behavior"}
    /\ crawl.stage \in {"none", "login", "base", "scenario", "discover", "click", "done", "failed"}
    /\ login.stage \in {"none", "open", "form", "submitted", "pin", "pin submitted", "done"}
    /\ exec.stage \in {"none", "next", "act", "probe", "login", "steps", "threw"}
    /\ saved \cup pages \subseteq {Key[u] : u \in Url}
    /\ doubts \subseteq {"structure", "behavior"}
    /\ \A p \in DOMAIN crawledAt : crawledAt[p] <= clock

\* The pages within "depth" links or clicks of the base URL: what a search
\* should reach that loses no page and forgets no element.  The crawl knows a
\* page by its key; KeysTell says that this is enough to know what it shows.
KeysTell ==
    \A u, w \in Url : Key[u] = Key[w] =>
        /\ TargetOf[u] = TargetOf[w] /\ (app.pages[u].protected <=> app.pages[w].protected)
        /\ Key[app.pages[u].lands] = Key[app.pages[w].lands]
        /\ app.pages[u].links = app.pages[w].links /\ app.pages[u].clicks = app.pages[w].clicks

LinksFrom(url) ==
    {l \in ToSet(extractLinks(Lands(url, session))) : Eligible(l)}

ClicksFrom(url) ==
    IF Key[url] \in crawl.cut THEN {}
    ELSE {u \in {Lands(c.goes, session) :
                    c \in {c \in ToSet(CandidatesOn(Lands(url, session))) : c.goes # NoUrl}} :
            Eligible(u)}

Within(depth) ==
    LET reach[n \in 0..depth] ==
            IF n = 0 THEN {BaseUrl[crawl.target]}
            ELSE reach[n - 1] \cup UNION {LinksFrom(u) \cup ClicksFrom(u) :
                                           u \in {u \in reach[n - 1] : Key[u] \notin crawl.failed}}
    IN reach[depth]

\* A crawl that its page limit did not stop, on a session that stayed the same,
\* has visited every page within its depth, and holds what each landed on; and
\* its sitemap has a place for every page an edge touches, unless one leads
\* back to the base page.  Both where a key tells the page.  (discoverPages,
\* buildSitemap)
CrawlIsExhaustive ==
    /\ (crawl.stage = "done" /\ KeysTell /\ crawl.held /\ Len(crawl.results) < MaxPages) =>
          \A u \in Within(MaxDepth) :
              /\ Key[u] \in crawl.visited
              /\ Key[u] \notin crawl.failed =>
                    \/ Key[Lands(u, session)] \in PageKeys(crawl.rawPages)
                    \/ Enough(crawl.rawPages)
    /\ (crawl.stage = "done" /\ KeysTell) =>
          LET sitemap == buildSitemap(crawl.edges, PageKeys(crawl.rawPages))
          IN Key[BaseUrl[crawl.target]] \notin DOMAIN sitemap.parentOf =>
                DOMAIN sitemap.parentOf \subseteq sitemap.tree

\* The verdict of a login is true: it says "succeeded" only when the browser
\* has the session of the one who logged in, unless the configured login leads
\* to a form off its own path, or the application asks for a PIN off it, on a
\* page the scenario does not know of or that does not look like one.
\* (executeLoginScenario, runTwoFactorStep)
FormIsKnown(target, form) == SignIn[target] \in form.path

PinIsNoticed(twoFactor, form) ==
    ToSet(app.twoFactor) \subseteq form.path \cup (IF twoFactor THEN TwoFactorLike ELSE {})

LoginVerdictIsTrue ==
    (/\ login.stage = "done" /\ login.ok
     /\ FormIsKnown(login.target, login.form) /\ PinIsNoticed(login.twoFactor, login.form)) =>
        session[login.target] = login.who

\* Scenarios run as declared, unless an answer to an earlier login was under way.
\* The steps of an unauthenticated one start with no session on its target.  An
\* act that changes the persona on the target of the act before never runs as
\* anybody else than the new persona; and it does run as the new persona, not
\* without a session, if its first page, as it is written, needs one, and the
\* application signs in on the loginPath, or "/login", which is all that
\* ensureAuthenticated knows.  A stage that did not throw has one finding per
\* scenario, except that a failed authentication silences later authenticated
\* ones.  (executeScenarios, runMultiAct, ensureAuthenticated)
StartsBehindLogin ==
    LET url == FirstNav(Steps, exec.at)
    IN TargetOf[url] = exec.at /\ app.pages[url].protected

LoginIsNoticed ==
    /\ FormIsKnown(exec.at, PathForm[exec.at])
    /\ FormIsKnown(exec.at, exec.form) /\ PinIsNoticed(config.twoFactor, exec.form)

FindingsOn(s) == {f \in DOMAIN exec.findings : exec.findings[f].scenario = s.id}

ScenariosRunAsDeclared ==
    /\ (exec.stage = "steps" /\ exec.step = 1 /\ ~exec.late) =>
          /\ exec.asked = "unauthenticated" => session[exec.at] = Nobody
          /\ exec.asked = "authenticated" /\ exec.forced =>
                /\ session[exec.at] \in {exec.who, Nobody}
                /\ StartsBehindLogin /\ LoginIsNoticed => session[exec.at] = exec.who
    /\ (exec.stage # "none" /\ ScenariosOver) =>
          \A s \in ToSet(config.scenarios) :
              \/ isLoginScenario(s)
              \/ \E f \in DOMAIN exec.findings : FindingsOn(s) = {f}
              \/ /\ FindingsOn(s) = {} /\ s.acts = <<>> /\ s.auth = "authenticated"
                 /\ exec.blocked

\* A command that skips its acquisition has a reason to: every watched file of
\* the code was analysed with the content it has, unless it is back at one it
\* was hashed with and had another while it was read; and every route of the
\* structure was captured by a crawl within the time to live; unless the layer
\* is in doubt.  (staleDirs, planBehaviorCrawl, recordStructure, recordBehavior)
StructureIsCurrent ==
    \/ "structure" \in doubts
    \/ \A d \in DOMAIN Scanned :
          \/ d \in DOMAIN analysed /\ analysed[d] = Scanned[d]
          \/ <<d, Scanned[d]>> \in drifted

BehaviorIsCurrent ==
    \/ "behavior" \in doubts
    \/ \A r \in routes : r \in DOMAIN crawledAt /\ clock - crawledAt[r] <= Ttl

SkipIsJustified ==
    [][(SkipStructure => StructureIsCurrent) /\ (SkipBehavior => BehaviorIsCurrent)]_vars
===============================================================================
