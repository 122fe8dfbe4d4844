# crawl-kit: a formal model

crawl-kit reconciles three descriptions of one application: **intent** (what the
documents say it should do), **structure** (what its source code declares) and
**behavior** (what a browser observes). `crawl-kit run` drives the five phases
intent → structure → behavior → reconcile → verify over a workspace and keeps a
ledger of them in `data/progress.json`; the behavior engine (`loop-e2e`) is a
program of its own with its own store under `.e2e/`.

This directory holds TLA+ specifications of that code, the TLC configurations
that check them on small instances, and TLAPS proofs of their main safety
properties. Every definition is translated from the source; `PROJECT.json`
names, for each one, the file and lines it stands for.

## 1. Inventory

Nine packages under `src/packages`. For each component: its state, its
operations, who it talks to, what is hard about it, and what makes it correct.

| component | state | operations | interacts with | hard behaviour | correct when |
|---|---|---|---|---|---|
| progress ledger (`contract/src/progress.ts`) | `progress.json`: per phase a status, task counts, completion time, blocking reason | `withPhaseStatus`, `withTasksRegistered`, `withTaskCompleted`, read, write | written by run and clear; read by the viewer and the next run | a process dies between two writes; updates are made on a copy in memory | the file moves only as a phase can: started, counted up, ended, blocked, cleared |
| run orchestrator (`cli/src/commands/run.ts`, `run-phases.ts`) | ledger in memory, promise chain of writes, blocked set, `structureFailed` | load, preflight, select or skip, start, body, settle, drain, summary | doctor, engines, ledger, `data/` | concurrent units commit; units survive a rejected `Promise.all`; TTL gate; `--only`, `--force`; crash and resume | nothing lost or overtaken on disk; every phase settled; nothing derived from a broken structure; what is "completed" exists |
| clear (`cli/src/commands/clear.ts`) | – | remove the artifacts of a phase or of all, then reset the ledger | `data/`, ledger | interrupted halfway | the ledger never vouches for removed files |
| call limiter (`contract/src/concurrency.ts`) | `active`, FIFO `queue` | acquire, run, release | the passes' fan-out, the model provider | rejection of a task; hand-over; a cap below 1 | cap respected, no idle slot, FIFO, every call settles |
| incremental structure analysis (`structure/src/analyze/*`, `cli/src/commands/structure-merge.ts`) | fragment cache, per-repo extracts, `structure.nodes.json`, routes partial | enumerate and hash units, fan out a pass, parse, store, merge, publish | the limiter (twice), an LLM, the ledger through hooks | nested limiters; failing calls; edits between runs; torn files | the cache is truthful; published facts are complete and current; no analysis hangs |
| freshness (`freshness/src`) | `acquisition.json`: hashes and times per directory and per page | staleDirs, stalePages, planBehaviorCrawl, record* | structure phase, crawl, clear | read at the start and written at the end of a long phase; keyed by paths on one side and routes on the other | who skips has a reason to |
| behavior run (`behavior/src/cli/commands/run.ts`, `pipeline/collect.ts`, `diff.ts`) | baseline, run snapshots, findings | prepare, collect, explore, re-crawl, diff, verify, login, scenarios, persist, reseed | explore, findings store, target application | each stage may fail and the run goes on | findings are not lost; the findings tell every change the baseline absorbs |
| explore, crud (`pipeline/explore.ts`, `services/explore`, `services/crud`) | the target's database, one page | guard, submit invalid values, create/update/delete, ask the database, reseed | recorder, findings store | an answer before, after or without its effect; leftovers; somebody else in the database; exceptions between a write and the reseed | what is reported is true; the database is restored |
| findings store and report (`state/findings.ts`, `cli/commands/report.ts`, `pipeline/report.ts`) | pending entries, `activity.jsonl`, archive | write, append, read pending, render, archive | run, explore, crud, grow, GitHub | producers run while a report is rendered; reports overlap; an answer of GitHub is lost; the process ends between filing and archiving | one open issue for a finding, nothing archived in silence, everything archived in the end |
| baseline and feedback (`state/store.ts`, `cli/commands/feedback.ts`) | `baseline.yaml`, feedback files | load, save | behavior run | torn writes | the baseline is something observed |
| discovery crawl (`services/browser/discover.ts`, `crawler.ts`) | queue, visited, results, edges | visit, follow links, click, merge | browser, login | redirects, failures, limits, a session lost on the way | exhaustive within its limits; the sitemap places every page |
| login and two-factor (`services/browser/login.ts`, `session.ts`) | browser session | authenticate, PIN, wait for the URL | browser, PIN command | late answers; success is read off the URL | "succeeded" means logged in |
| scenario execution (`pipeline/executeScenarios.ts`, `scenarioExec.ts`) | page, session, captured variables | personas, acts, steps | login | one page shared by all scenarios | each runs as the persona it declares |
| recorder (`services/browser/recorder.ts`) | a sequence counter, `transactions.jsonl` | a handler per finished or failed request | every page of a run, behavior emit | handlers nobody awaits | one line and one number per request, in order |
| LLM clients and panel (`services/llm`) | - | complete, retry, vote, adjudicate | all of the above | answers that do not parse; ties and means on the threshold | bounded retries; a verdict its votes justify |
| grow, proposals, prepare, repositories (`pipeline/grow.ts`, `prepare.ts`, `services/repo`) | files for approval, clones | one-shot | model, git, launcher | little | - |
| behavior emit / spawn (`emit.ts`, `tx-persistence.ts`, `sitemap.ts`, `cli/.../behavior-spawn.ts`) | layer files | run, crud, emit as child processes | run orchestrator | artifacts of different runs; exit codes | what a node says of a mutation is what was probed |
| reconciler (`reconciler/src`) | registry, `unified.json`, decisions, queue, mapping | match, burn in, classify, queue, map aggregates | the three layers | ambiguous candidates; decisions about vanished nodes; a registry rewritten from itself | one place per node; decisions hold; a second run changes nothing |
| verification (`verification/src`) | findings, boundary | verify, adjudicate, boundary | unified view, layers | two checks over one question | the checks agree |
| contract validation (`contract/src/validate.ts`) | - | gate of the files the reconciler owns | reconciler, viewer | strict schemas, order of writes | what is written can be read |
| intent (`intent/src`) | glossary nodes, aggregate roster | emit, derive | reconciler, viewer | name collisions | - |
| viewer (`viewer/src`) | - | derives every page from `data/` at each request | everything | files written by different commands, some missing | what it shows is whole and the guidance is honest |
| doctor, setup, migrate, serve | files, environment | one-shot | - | little | - |

How they interact: the orchestrator is one Node process; between two `await`s its
code runs alone, and everything else (the chain of ledger writes, the analysis
units of a pass, timers) interleaves at the `await`s. Phases communicate through
files in `data/`. The next process knows only the files. `hazards` in
`PROJECT.json` lists the places where this can go wrong, each with its line and
the properties that watch it.

## 2. Plan

Ordered by how much of the system rests on it. Everything below is in place.

1. `Progress` (the ledger's operations), `PhaseLifecycle` (the abstract promise
   of the file), `RunOrchestrator` (run and clear over it), and the proofs of
   all its safety properties.
2. `LimiterState`, `Limiter`, and
3. `StructurePasses`, which composes two limiters with the fragment cache, and
   the proofs of the safety properties of both.
4. `BehaviorRun`: `runRun`, `explore`, `crud` and `report` over baseline,
   findings, activity and the target database, and its proofs.
5. The spine: the pure algorithms of structure, intent, behavior emit,
   reconciler, verification and viewer as operators, composed by `Spine`, the
   commands that write `data/` file by file, and the proofs of what it promises
   of the reconciler and of the derived files.
6. The acquisition: browser, login, crawl, scenarios and freshness, composed by
   `Acquisition`, the commands that decide whether to acquire again, and the
   proofs of all its properties.
7. `Exercise`: explore and crud against an arbitrary application, with the
   recorder beside them, and the proofs of all its properties.
8. `Panel` and `Report`: the report in detail, from the pending files over the
   panel and GitHub to the archive, and the proofs of its safety properties.

## 3. Modules and their correspondence to the code

**`Progress`** – `contract/src/progress.ts`. A ledger is a function from phase
names to `[status, completedAt, total, completed, blockedReason]`; the
reason is kept as a Boolean (present or not), `startedAt` and `updatedAt` are
left out (nothing reads them to decide). `resetPhase` is the helper of
`clear.ts` on the same record.

**`PhaseLifecycle`** – the abstract specification: the ledger file alone, with
the six things that may happen to a phase. It is what the dashboard and the next
run rely on.

**`RunOrchestrator`** – `cmdRunWorkspace`, the phase bodies of `run-phases.ts`,
and `clearPhase`. State and code:

| variable | code |
|---|---|
| `progressJson` | the file, as a process reading it now would see it |
| `current`, `writeChain`, `awaited` | `current`, `writeChain` and the `await flush()` of run.ts:115-126 |
| `pc`, `todo`, `body`, `outcome` | the loop `for (const phase of order)` and the `await` a body has reached |
| `blocked`, `unrecorded` | the preflight result, and the part of it still to be committed |
| `repo`, `pass`, `pending`, `late` | the structure engine: sequential repositories, passes, units still running, and units that outlive a rejected pass |
| `files`, `intentJson` | artifacts in `data/`, and the state `docs/domain/intent.json` is in |
| `stale`, `orphaned`, `ran` | history: what was rewritten since it was derived from, what a clear removed before its ledger entry, which bodies ran |

One action is the code between two `await`s: `StartPhase` commits "running" and
`FlushDone` is the return of `flush`; `UnitDone` is one `onUnit` callback;
`Settle` is the whole of lines 169-182. `WriteSnapshot` is one link of the
promise chain. `Crash` kills the process at any point; the ledger write is taken
as atomic because `writeJsonAtomic` renames a finished temporary file.
Commands arrive one process at a time (assumption, see 7).

**`LimiterState`**, **`Limiter`** – the closure of `makeLimiter` as a record
`[active, queue]` with `acquire` and `release` as operators (so that other
modules can hold several limiters), and its callers as a state machine.
`resolveClaudeCodeConcurrency` and the clamping of the cap are included.

**`StructurePasses`** – `runPasses` over all units of each repository, with
`readFragment`/`writeFragment`, the fan-out limiter, the provider's limiter, the
barrier that merges and publishes, failing model calls (an empty fragment),
failing stores (a rejected pass whose other units go on), crashes that tear a
fragment, and edits of the sources between runs. A source file is a version
number; a hash is that version; a fragment is the version the model read, or 0
when it yielded nothing.

**`BehaviorRun`** – the commands of the behavior engine as processes that may
overlap (the code takes no lock, and `report.ts` speaks of producers that write
while it renders). An action is the code up to its next `await` that touches
something shared; what a command does in its own memory is part of the action
that makes it visible (the crawl of `Collect`, the diff and verify stages in
`StoreFindings`).

| variable | code |
|---|---|
| `db` | the commands whose invalid data are in the target database; `Reseed` empties it |
| `baseline` | `baseline.yaml`, absent or one structure |
| `pending`, `archive` | the files of `findings/` and `findings/archive/` |
| `activity`, `archivedLines` | `activity.jsonl` and its archived copies |
| `pc`, `id`, `cmd` | the stage a command has reached, its run id, its options |
| `structure`, `prior` | the locals of `runRun` |
| `consumed`, `movable`, `moveLog` | the entries `runReport` read; the loop variable of `archiveConsumed` |
| `written`, `reported`, ... | history: everything stored, and everything in a written report |

Every stage of `runRun` has an alternative in which it throws, with what the
code then does: collect continues with an empty structure and no baseline, a
failing diff leaves the observations, a failing store is logged, a failing
reseed propagates.

**The spine.** Pure operators, one module per source module or close to it,
and one state machine:

| module | code |
|---|---|
| `Names` | normalisation of names and routes: what the code computes from characters is given by constants (words, singular, letters, "occurs within"), so that two names may collide; and the verdict on a recorded mutation, looked up by its route (`annotatePersistence`) |
| `StructureModel` | corrections overlay, information model, CRUD index, emitted structure nodes |
| `IntentModel` | glossary nodes and concept ids, aggregate roster |
| `Extraction` | the analysis itself: files to units, the answers of the model, the fallbacks when a question gets none, the merge of partial extracts, and the extract the other layers read |
| `BehaviorEmit`, `Sitemap` | the behavior nodes, which artifacts of `.e2e/runs` they come from, the forest of pages |
| `Matcher`, `Reconciler` | scores and one-to-one matching; the gate of registry and unified view (`contract/src/validate.ts`), burn-in, classification, ADR overlay, queue, mapping |
| `Verification` | `verifyUnified` with the panel of `adjudicate.ts`, and the boundary check |
| `Viewer` | view model, dashboard guidance, intent menu, traffic, sitemap, diff |
| `Spine` | the commands of `cli/src/index.ts` over these |

`Spine` keeps `disk` (the files of `data/`), `runs` (the artifacts in
`.e2e/runs`, the newest last), the files only a human writes (`corrections`,
`adrs`, `decisions`), and `job`, the command under way with what it still has to
write. An action is the code up to its next write, so that a crash falls between
any two. `fresh` is history: the derived files that follow from the current
inputs. Between commands the code, the glossary and the human's files change.

**The acquisition.** `Web` is the browser and the application (external: pages,
links, redirects, cookies, answers that come late), `Login`, `Discover` and
`Scenarios` are the code that drives it, one page load, wait or step at a time,
and `Freshness` the store and its decisions. `Acquisition` composes them:

| variable | code |
|---|---|
| `store` | `acquisition.json` |
| `analysed`, `routes` | the structure layer: what each directory was derived from, and its routes |
| `saved`, `pages` | the newest structure saved by a behavior run; the page routes of the behavior layer |
| `cmd` | the command under way, with the store as it read it |
| `page`, `session`, `crawl`, `login`, `exec` | the browser and the three stages |
| `version`, `config`, `clock` | the world: the application, the configuration, the time |
| `doubts`, `crawledAt` | history: which recorded freshness the code gives no reason for; when a page was last captured |
| `drifted` | history: contents a store vouched for that had been hashed, but were read otherwise |

What a login is configured to be is kept apart from what the application has:
`SignIn` is the page with the form, `PathForm` where `loginPath` (or `/login`)
leads and which URLs it recognizes, `UrlForm` the same where there is a
`loginUrl`. A login goes to the second (`newLogin`), the session probe, the
login test and the crawl know the first only, and nothing assumes that either is
the application's.

The helpers over paths and trees (`Only`, `merged`, `tree`, `reach`) are
recursive functions, so that they can be proved about. `CandidatesOn` is what a
page offers to follow; `KeysTell` says that two addresses with one key
(`normalizeUrl`) show one page, which is what the visited set relies on.

**Exercise.** `CrudPlans` is `plan.ts` (`First`, `RoutesOf`, `planOf`: the first
create, update and delete route of each entity); `Recorder` the asynchronous handlers on
the page of a command; `Exercise` the loops of explore and crud. The application
is free: whatever it answers, a refusal included, it may store what was sent,
something else or nothing, move on or stay, show an error or none; only a
submission that sends nothing and moves nothing (the browser has refused the
value) stores nothing. Somebody else may use the database at any time. `judged`
remembers what really became of the latest case, and `truth` of every step of
crud, by the number of its request: whether it was looked up, what it did, and
when the question was beside the point (`aside`: the id of the response is
looked up in a column that is not the one the application calls its id). Routes
of two entities may have one key, as those of two repositories do.

**Report.** `Panel` is `refute.ts` as operators over all votes a panel may give
(a verdict keeps a mean as sum and number; a mean that meets the threshold
exactly may be rounded to either side) and the retries of `client.ts`. `Report`
takes what `BehaviorRun` calls `Render` apart into its steps, for several processes:

| variable | code |
|---|---|
| `pending`, `archive` | the files of `findings/` and `findings/archive/`, each a set of fingerprints |
| `job` | per process the locals of `runReport` and `renderReport`: files read, findings to judge, passed, uncertain, still to file, being filed, failed, still to move |
| `told` | what the `report.json` and `report.md` written so far say, by file and fingerprint |
| `open`, `hub` | the open and labelled issues in order; whether there is a GitHub to file with |
| `filed`, `overlapped`, `crowded` | history |

The panels of a report end in any order (`Promise.all`), a member may have to be
asked up to three times, filing is a listing and a creation with room for others
between them, and a failed filing is logged and passed over.

**`Induction`** models nothing: it is induction over numbers in terms of sets, and
recursion along them in terms of functions, for the proofs of section 6.

The modules `MC...` give TLC their constants. Definitions marked "Faulty
variant" are the mutants named in `PROJECT.json`: plausible mistakes in the
code, each of which breaks the property it is listed with.

## 4. Runs

| run | shows |
|---|---|
| `RunCrashResume` | two full runs, a crash anywhere, one fault, two concurrent units over two passes: the queue always catches up, "running" is durable, a completed phase has counted all its tasks, and the file refines `PhaseLifecycle` |
| `RunOnlyForce` | runs with `--only all` and `--only structure`, `--force`, clear, TTL expiry and a blocking preflight: completed phases have their artifacts, derived artifacts come from the latest layers, every phase asked for is settled; and, under fairness, the work of a command ends and no phase it started stays "running" |
| `Limiter` | five calls, ceilings 1 to 3: cap, no idle slot, FIFO, every call settles |
| `StructurePasses` | three units in two repositories, two runs with edits between and under them, one failed call or store, one crash, with and without `--force` and a provider: the cache holds nothing under a foreign hash but what an edit put there during an analysis, resume finds what was done, published facts are complete, every analysis ends |
| `BehaviorRun` | two commands out of run (plain, `--explore`, `--no-reseed --no-report`), explore, crud and report, overlapping or in sequence, with or without a seed, one fault or crash: no entry lost or archived unreported, an undisturbed report leaves nothing behind it, the database is restored unless a command failed or waived it, and the findings tell every change the baseline absorbs |
| `Spine` | the commands of the spine in any order, between edits of code, glossary, ADRs, corrections and decisions, with one crash: every node has one concept; a decided entity is not asked about again; a second reconcile changes nothing; the derived files, the two checks and the pages of the viewer tell one story; corrections reach the layer; an analysis loses nothing whichever of its questions are answered |
| `Acquisition` | a crawl over a site with redirects, a protected page, a click transition and a logout, a login with and without second factor and with late answers, scenarios with personas on three targets, one of which signs in on a `loginUrl` the session probe does not know, two versions of the application that may each come back, interrupted and overlapping acquisitions: the crawl is exhaustive within its limits, the login verdict is true, scenarios run as declared, and who skips has a reason to |
| `Exercise` | explore over three screens and crud over two entities against an application that does as it likes, with two handlers of the recorder under way and leftovers in the database: gaps are told as far as a probe can tell them, the verdict on a mutation is that of the first step on its route and true of it, the traffic file tells every request once and in order |
| `Report` | reports over files that are stored at any time, with one mishap of any kind (a member unheard or asked again, a failing or half-failing call of GitHub, a failing rename, the end of the process), people who close issues, with and without GitHub: a finding has one open issue, nothing is archived in silence, no vote of the panel is unfair, and every finding is archived in the end |
| `RunOnlyStale`, `RoutesVanish`, `UnifiedRejected` | the disagreements of section 8 |

Bounds.

- *Orchestrator.* Two concurrent units suffice for every pairwise interleaving
  of commits and for a survivor of a rejected pass; two passes for the barrier
  and the carry-over of counters; two runs for resume, staleness and repeated
  analysis; one crash per behaviour because a second one only repeats the first
  from a state already reachable; a TTL of one tick with a clock of one or two
  gives fresh, stale, and the boundary. The proofs need none of these bounds.
- *Limiter, structure.* Five calls with a ceiling of three leave two in the
  queue, so that order can be violated. Three units in two repositories give a
  repository with concurrency and a merge of two. Two edits are what it takes to
  change a unit between its hash and its reading and to change it back, so that
  the next run is served the fragment of the wrong content.
- *Behavior run.* Two commands are enough for a producer beside a report, two
  reports, and a run after a baseline; `OverlapWithoutFeatures` keeps crawls of
  overlapping commands empty (what a crawl saw matters only between commands
  that follow one another), and every stage other than diff finds something,
  since an entry without findings asks nothing of a report. The proofs need
  neither.
- *Spine.* Two edits and two reconciles: a decision is burnt in by the first
  reconcile and must survive the second with an edit in between. A shop of four
  tables in three versions of its code (one a migration under way, with the old and
  the new name of a table), two glossaries, two crawls, four batches
  of corrections and five registries left by earlier versions of the program,
  chosen so that names collide, a route is declared and not observed (and the
  reverse), and a table is below the domain line.
- *Acquisition.* Five pages and a depth of two on a site of eleven URLs: the
  limit is reached in some crawls and not in others. One mishap per behaviour
  (a failing load, an answer that is lost or late) at any point; the proofs hold
  for any number of them. Three commands with two versions of the
  application make a stale layer beside a fresh one, and a code that is back at
  what it was before the next command; what nothing follows does not change any
  more (`CommandFollows`). Two lists of scenarios hand a session from persona to
  persona and target to target, with a login that succeeds, one on a form the
  probe does not know, and one with a second factor; a TTL of zero on a clock of
  one makes an acquisition expire.
- *Exercise.* One command of each kind with two handlers under way: handlers
  interleave in pairs, and the next command starts with a fresh recorder; what
  an earlier command leaves behind is an initial state (`MCLeft`). One mishap
  at any point (another user's row, a failing query, a lost answer, a screen that is
  not modelled, the end of the process): several are left to the proofs, which need no bound. Two of the
  crud jobs have two entities whose create routes have one key, so that which of
  two steps a verdict is taken from matters.
- *Report.* One finding in two files, once with another; pages of two issues, so
  that the newest is not the whole page; every vote of three members with
  confidences below, on and above the threshold. Reports may start beside one
  another while one file is stored (`MaxOverlap`), and follow one another after
  that: two processes on one file give every pair of steps, and the proof of
  `ToldOrFiled` needs no such bound.

The type invariants of `RunOrchestrator`, `Limiter`, `StructurePasses`,
`BehaviorRun`, `Report` and `Acquisition` are proved and no longer part of a run.

## 5. Fairness

The event loop runs a continuation that is ready: weak fairness of the
orchestrator's own steps (`RunStep`), of the phase bodies (`BodyStep`: each
engine they await ends, by its own timeouts), of the write chain, and of each
unit in flight. Nothing forces a user to start a command, and `Exit` is not fair:
with `--viewer` the process serves the dashboard until Ctrl-C, which is why
`CommandEnds` speaks of the work and not of the process. In the limiter every
started task finishes; in the structure analysis every call to the model does
(the clients have timeouts), and the barrier and the exit are continuations.
A report goes on with what it awaits, and `PendingDrains` further assumes that
somebody runs `report` again while something is pending (`FairSpec` of `Report`).
Crashes, faults and mishaps are never fair. `BehaviorRun`, `Spine`,
`Acquisition` and `Exercise` are stated without fairness: their properties are
safety properties, and what they wait for (a person, a browser, a server) may
never answer.

## 6. What is proved

`RunOrchestrator_proofs` (for every set of units,
repositories, passes, every command line, and any number of crashes and faults):

- `RunTypeOK`: types, and no task counter above its total, in memory, in the
  queue and on disk.
- `RunCatchesUp`: the end of the queue is the ledger in memory.
- `RunRunningIsDurable`: while a body runs, the file says so.
- `RunRefinesLifecycle`: `progress.json` implements `PhaseLifecycle`.
- `RunCompletedHasArtifacts`, `RunCompletedCountedAll`: what the file calls
  completed is there and counted.
- `RunDerivedFromTheLatest`, `RunEveryPhaseSettled`: what a run leaves when it
  ends.

The argument. None of these is inductive alone. The file lags behind memory by
the whole queue, so a statement about the file needs one about every snapshot
in line: `QueueOfSteps` says that file, queue and memory form a chain in which
each link is one step of the abstract ledger (so writing the next snapshot is an
abstract step whatever was committed in between), `QueueEmptyBefore` that no
snapshot survives a process, `RunningFromAwaited` that from the snapshot a flush
waits for onwards the phase is "running" - which is why the flush is needed -
and `LateBehindFailure` that units of a broken pass only ever meet a structure
entry that is failed (and so may still count). `IInv` conjoins them;
`StepIInv` goes through the actions, classified by what they do to the ledger
(`Quiet`, `Committed`, `Restarted`, and the write).

Its second part adds two invariants over `IInv`. `BackedInv` says that
every snapshot in line is backed by the files (those there, and those a clear
took before its ledger entry): for this a body must be known to have registered
exactly what it still owes (`IntentWorks`, `StructureWorks`, `DeriveWorks`,
where the structure body owes the set of unit and pass reports to come), so that
when it returns (`ReturnBacked`) counter and total meet. `OrderInv` says where
the loop stands: what is still to do ascends, what ran lies behind, a failure of
structure is remembered, what the preflight blocked stays blocked, what was
handled is settled, and what derives from a layer is up to date unless the
phases that derive are still to come. Assumptions: `UnitsAssumption`,
`CommandAssumption`, `BoundsAssumption` of `RunOrchestrator`.

`StructurePasses_proofs` has the proofs of the limiter and of the analysis that
uses two of them.

The limiter (any finite set of calls, any cap, any environment):
`LimiterTypeOK`, `LimiterBounded`, `LimiterWorkConserving`,
`LimiterFirstComeFirstServed`. The invariant relates `active` to the set of
calls holding a slot and the queue to the waiting calls without repetition; the
counting facts are about cardinalities of finite sets.

The analysis (any units, repositories, pass lists, cap, runs, faults and
crashes): `StructureTypeOK`, `StructureFinalIsCached`,
`StructureKeyNamesContent`, `StructurePublishedIsComplete`. The invariant says
that who waits in a limiter's queue is at the stage the queue is for and waits
once, that only units of one repository are under way, and what the extracts of
the finished repositories hold. Sources may change at any moment, also between
the hash of a unit and the model's reading of it: the history `edited` keeps
exactly what an edit gave a unit under an analysis that had hashed it, and the
last two theorems say that nothing else is ever cached or published under a hash
that is not its own.

`BehaviorRun_proofs` (any number of processes, commands, features and faults):
`BehaviorTypeOK`, `BehaviorEntriesAreKept`, `BehaviorDelivered`,
`BehaviorRestored`, `BehaviorFindingsTell`. The invariant keeps apart what is
local to a process (its number is its own, `IdsOK`), what the store holds
(`StoredOnce`, `Kept`, `LinesOK`), what a report has read and not yet moved
(`ReportOK`, `DeliveryOK`), who owes a reseed (`WaivedOK`), and, for commands
that follow one another (`Alone`), what a reader of the findings knows
(`ToldOK`).

`Exercise_proofs` (any screens, routes, databases, commands, requests, handlers
under way and mishaps):

- `ExerciseLinesTell`. The invariant says of every request whose handler has run
  what its line may claim, and that a browser is not closed while it has handlers.
- `ExerciseGapsAreTold`. `GapsInv`: a case is judged at once and only one at a time,
  and what was observed of it still tells what the database holds, unless somebody
  else has been at it. What the theorem does not promise is in its statement: a
  confirmed gap may be about a value that was in the column before, a suspected
  one about a case that sent nothing when an earlier answer was a 2xx, and a
  failed question reports nothing.
- `ExerciseVerdictsAreTrue`, for routes that share a key or not. The argument has
  two halves. Steps are in the order of their requests, within an entity and from
  entity to entity (`OrderOK`), the request whose effect is being looked up is
  after all of them (`NumbersInv`), and so the first position `annotatePersistence`
  finds is the earliest request with that route, and no later step overwrites
  what is remembered of it (`AllTold`). And what is remembered of a request is what
  the question asked of the database about it will find (`DoingInv`), as long as
  nobody else is at it. The proof found that the verdict can be
  wrong without anybody's interference when the id is looked up in another
  column than the one it came from; the property now excepts exactly that
  (`aside`), and section 8 reports it.

  Assumptions: `ExerciseAssumption`, `ColumnsAssumption`, `LeftAssumption`.

`Report_proofs` (any number of processes, files, findings and mishaps, any
panel, votes and page size):

- `ReportTypeOK`, `ReportToldOrFiled`. The invariant `JobOK` says what a report
  owes at each stage: until it writes, every finding of its files is to be
  judged, passed or uncertain, and what passed is to be filed, filed or failed;
  after `report.json` the passed ones are told of; after `report.md` all of
  them, and only then does it list what to archive. What the page of GitHub
  shows was filed by somebody, which is why skipping is safe.
- `ReportOneOpenIssue`. `OneInv`: until reports overlap there is one at most, and
  until the open issues outgrow a page a listing shows them all; so what a report is
  about to create, nobody has open.
- `ReportPanelIsFair`, about votes alone: counts and sums of confidences over the
  members, for every panel size and threshold, and that exchanging two seats
  leaves them alone. It does not say that a confirming vote always helps: a
  member who confirms with little confidence lowers the mean (section 8).

`Acquisition_proofs` (every site, application, configuration, list of scenarios,
and any number of commands, delays and mishaps):

- `AcquisitionLoginVerdictIsTrue`. `LoginInv` says that the answers the
  application may still give fit the one who is logging in, also across a
  failed attempt followed by another. The proof names what the verdict rests on:
  that the form is on a path the login recognizes (`FormIsKnown`), since leaving
  any other page counts as a success, and that a PIN is asked for where the
  scenario looks for one (`PinIsNoticed`). Without either it is wrong (section 8).
- `AcquisitionSkipIsJustified`, an action property. `StoresInv`, `CodeInv` and
  `PagesInv` say what a recorded freshness is worth: what a directory or page was
  derived from is what the store says, unless a write behind a command's back
  has put it in doubt. Any version may come back at any time. `CodeInv` says of
  every record, in the store and in the hands of a command (`Backed`), that the
  content it names is what was read, or is in `drifted`: hashed, and changed
  before it was read. That is the only way to be skipped for a content that was
  never analysed, and section 8 reports it.
- `AcquisitionScenariosRunAsDeclared`. `PersonaInv`: whose session the browser has
  at each stage of an act (`Alone`: the cookies and answers of nobody else);
  `ToldInv`: which scenarios have their finding. An act that asks for another
  persona never runs as anybody but that persona, whatever is configured. That it
  does not run as nobody needs more: its first page is behind the login, as it is
  written (`StartsBehindLogin`), and the probe and the login recognize the form
  they are led to (`LoginIsNoticed`).
- `AcquisitionCrawlIsExhaustive`. The argument of breadth-first search, for a
  search with redirects, clicks and failing loads: there is a function from the
  keys seen to depths (`SearchedTo`) under which the queue ascends by at most one,
  and whatever a visited page leads to is visited or queued at most one deeper;
  when the queue is empty, every page within the depth was visited. For the
  sitemap, `ForestInv`: the first edge into a page leaves a page placed before it,
  or one where no request ends, so following first edges upwards ends in a root
  (`tree`, `reach`, by recursion along `Induction`). The proof found the condition it is
  stated under: with two addresses of one key that show different pages, the
  second is taken for visited (`KeysTell`).
- `AcquisitionTypeOK`: where the browser is and who it is logged in as, and that the
  layers hold keys of pages only.

  Assumptions: `WebAssumption`, `PagesAssumption`, `DiscoverAssumption`,
  `SuccessAssumption`, `TargetAssumption`, `SettingAssumption`, `TtlAssumption`,
  `BoundsAssumption`.

`Spine_proofs` (any names and slugs, every glossary, workspace and crawl of the
declared shapes, any corrections, ADRs and decisions, any registries and layers
left by earlier sessions, any number of edits, reconciles and crashes). The
inductive invariant has three parts. `LayersInv`: each layer's nodes have the
shape its emitter gives them, and the entities of the structure differ in their
names, whatever a human corrected (for `applyCorrections` and `buildInformationModel`
this is an induction over the list of corrections and of entities). `DerivedInv`:
what a reconcile is about to write was computed from the inputs as they still
are, a derived file called fresh is what the inputs give now, and what is on disk
passed its gate. `RegistryOK`: the relations a human is the origin of are about
entities.

- `SpineReconcileSettles`. What a reconcile burns in (`BurntIn`) is what the next
  reads back; decisions read twice give what they gave once.
- `SpineDecidedIsNotAskedAgain`, from what the matcher, the burn-in and the queue
  do with one entity.
- `SpineEveryNodeHasOneConcept`. The greedy matching gives an entity one concept
  (its scores are numbers, so there is a best pair until one side is used up),
  the decisions move it to one, the unmatched get a concept of their own, and the
  ids of the three kinds of concept differ. An observation is claimed by the
  concept its route is anchored to or by the route's own; the ADR overlay and the
  intent-only rows change no nodes (`Keeps`). The proof found the condition: claims are by
  node id, so of two transitions on different routes whose slugs collide one may
  lose its place, and the property now speaks of nodes told by their id (`IsTold`).
- `SpineDerivedFilesAgree`, from the above: an entity of the registry is an
  entity of one row of the view, and so is placed once by the mapping.
- `SpineChecksAgree`. The state of a route's row says whether a route node
  declares it and whether an observation has it (`RoutesTold`); the boundary lists
  the route with the sides its own pass over the layers found (`BoundaryIs`), and is
  that of the layers on disk as long as it is fresh (`BoundaryInv`).
- `SpineCorrectionsShow`, an action property. What a correction of a name told
  once at most left behind (`Stands`, by `StandsAtOnce`) is still there after any
  later one of other names (`CorrectLeaves`, `StandsStays`), by induction over the
  corrections also at their end (`StandsForever`); the nodes are those of the
  corrected entities, no name left out (`EntitiesTold`, `ShownIs`); and what an
  analysis has still to write was computed under the corrections as they are
  (`AnalysisInv`). The proof found the condition: of two records of a name a
  correction changes the first, and the last is emitted (`ToldOnce`; section 8).
- `SpineViewsAgree`, which is about files of different commands, from what each
  command keeps besides: `GlossaryInv` (a roster is there once the mapping is, and
  has no aggregate where the intent has no node), `RunsInv` (as long as they are
  fresh, the observations and the copied transactions are those of the artifacts
  there are), `StructureInv` (the events of a route are events of the structure,
  a finding has one of the three classes, no structure is there without its
  extract) and `BoundaryInv`. `ShownInv` joins them; `MenuIs`, `TrafficIs`,
  `OverviewIs` and the like say what each page is for any files, and `MenuAgrees`
  to `GuidanceAgrees` what it is for these. The proof found three conditions. The
  overview resolves nodes by id, so its counts add up for a concept whose nodes
  differ in their ids (`told`). A page called empty is empty while no crash has come
  between the two writes of an emit. And aggregates of one concept id are one
  place in the menu. It found as well that the diff needs none: it leaves out no
  event, no route of an event and no finding, however old the files are.
- `SpineAnalysisKeepsRoutes`, about the analysis alone, for any repository, units,
  passes and answers. A string order orders (`EarlierOrders`), so sorting loses and
  doubles nothing (`SortedIs`); a template has the key of the path it is made of
  (`TemplateIs`), so the merge has one route per key (`MergedRoutesAre`); the
  fragments of a pass have what its answers told (`FragmentIs`, `MergedIs`), and the
  projection to the extract keeps the keys (`ExtractKeeps`, `LastingRoutes`).

  Assumptions: `BoundsAssumption`, `ShapesAssumption`, `FilesAssumption` of `Spine`
  (what the types of the code say of glossaries, extracts, crawls and
  corrections; of an extract also that its routes are traced to events the scan
  knows, which is where the tracing looks them up), `WordsAssumption` of `Matcher`,
  `NamesAssumption` of `Names` (lower case stays what it is, and so does `:id`),
  `ExtractionAssumption` (strings compare by the numbers of their words, and what
  looks like an identifier does so in lower case) and `TrialsAssumption` of
  `Extraction` (only units of the repository are asked about, an answer is a list of
  routes or none).

`Induction`. The library's induction theorems take operators as parameters, which
the installed provers cannot instantiate. `LeastNat` (a set of numbers that is
not empty has a least one) is derived from the well-foundedness of the proper
subsets of a finite set; `NatSetInduction` is induction for a set of numbers, and
`RecursionExists` that a function defined by recursion over numbers exists and
unfolds; `KeptIs` is what `Only` and its like keep of a sequence, and
`JoinedIs` what sequences put one after another hold. A statement by induction
is then one about the set of numbers it holds of.

Only model-checked:

- All liveness (`CommandEnds`, `EveryCallSettles`, `EveryAnalysisEnds`,
  `PendingDrains`): fairness and `ENABLED` are beyond the prover.
- `AnalysisLosesNothing` of `Spine`: one entity per model, and an entity for the
  routes of an unanswered batch. It holds where the names of classes, tables and
  displayed entities do not collide, as on each of `Trials`; where they do, the code
  resolves a name to the last entity that has it, and no condition short of listing
  the collisions would be a theorem. The helpers behind it (`Keys`, `Gather` with
  operators, the folds of the library) take operators as arguments as well.

Every other safety property and action property of a passing run is a theorem.

## 7. Not modelled, and why

- The model clients: prompts, parsing, masking, subprocesses and back-off times.
  Their answers, and that there may be none, are inputs wherever they are used;
  the retries are modelled where they decide something (`Panel`).
- The texts of reports and issues. GitHub's own delay between a creation and the
  listings that show it. Run snapshots and feedback files, which are written
  once and read whole.
- Grow and its proposals, prepare and the repositories: one-shot work of the
  model, git and the launcher on files nobody shares.
- In the recorder: bodies and their caps, masking, requests of other origins and
  assets. In explore: the wording that makes a message a good one.
- In scenarios: a navigation target that begins with a placeholder, which names
  its target only at run time.
- HTML, the pages of the viewer in the browser, report layout, wording.
- Doctor checks (they appear by the phases they block), setup, migrate and
  serve, which are one-shot file and environment operations.
- The embedding signal of the matcher and the LLM lens of the classifier, both
  off by default.
- Two `crawl-kit` processes in one workspace: the code takes no lock, and each
  would overwrite the other's ledger; no document promises otherwise, so one
  process at a time is an assumption here and a hazard in `PROJECT.json`. The
  commands of the behavior engine do overlap, and are modelled so.

## 8. Disagreements between documents and code

Shown by a run each:

- `RunOnlyStale`: README says `--only structure` runs structure and then
  reconcile and verify; the TTL gate skips those two right after a full run, so
  `unified.json` keeps the previous structure.
- `RoutesVanish`: a comment says every pass refines `structure.nodes.json`; the
  second pass, whose prompt asks for no routes, overwrites the file without the
  routes of the first.
- `UnifiedRejected`: behavior emit puts a sequence number on the node of a
  mutation and the strict schema of a node does not know the field, so after a
  crawl that recorded a mutation the registry is written and the view rejected.

Seen while modelling, and modelled as the code has them (no run of their own):

*Ledger and phases.* A clear that dies between its files and its ledger leaves
phases "completed" without artifacts, which the next run skips (`orphaned`; the
design document says the next run continues from the ledger). `withPhaseStatus`
keeps the reason of an earlier block; the preflight blocks phases `--only` does
not run.

*Structure.* `fragments.ts` says the hash of a key is that of the content the
fragment was produced from. Units are hashed when the repository is enumerated
and read when the model is asked, so a unit edited in between has its new content
stored under the old hash, and served once the edit is taken back.

*Behavior run.* `archiveConsumed` moves the whole activity log, although
`report.ts` says exactly what was consumed. Emit takes the newest artifact of
each kind, so the verdicts on a run's traffic may be those of an earlier crud;
it passes no report, so page findings are always empty; its exit status is
ignored, and freshness is recorded although collect failed. A probe whose `goto`
throws drops every finding of the scenario stage.

*Explore.* A case is tried on whatever page is open: forms are discovered on all
screens first and a submission may move the page, so a case of one form may run
on another screen, and the finding names `form.screenPath` all the same.

*Report.* `upsertIssue` is called idempotent, but it looks at one page of open
issues and creates after it has listed, so overlapping reports, or more open
issues than a page, file a finding twice (`overlapped`, `crowded`). A finding
that passes both gates is in no list of `report.md`: without GitHub, or when
filing fails, only `report.json` has it, and its file is archived all the same.
A token with a repository URL that is not GitHub's makes every report throw, and
nothing pending is ever archived. A member who confirms with little confidence
can keep back an issue that his refutation would not, and one vote of three can
carry class and confidence, since the mean is over the winning class alone. The
findings a human marks as known are said not to be flagged again
(`state/store.ts`), and nothing reads them.

*Freshness.* The behavior gate compares routes of pages with routes of the
structure, parameters included, so an application with a parametrised route
never skips; a correction is not burnt in until a change, the TTL or `--force`;
an analysis narrowed by `--unit` or `--pass` records every directory as fresh; a
clear during an analysis is undone when the analysis writes its store back. A
directory is hashed before it is analysed (`cli/src/index.ts:341`), so code that
is changed in between and changed back is skipped as current although another
content was analysed (`drifted`).

*Browser.* The configuration knows `auth.loginUrl` for a form that is elsewhere
(`config/schema.ts:18-20`), and `login.ts:87-90` goes there; `session.ts:39` looks
for `loginPath ?? '/login'` only, so a probe that is redirected to the other form
counts as "session reused" and the steps of a new persona run without a session.
The probe takes the target of the first navigation as it is written, so that
`{{VAR}}` is asked for literally (`executeScenarios.ts:31-39`). The login test and
the selected target's acts drop the `loginUrl` (`cli/commands/run.ts:142-149`,
`:213-222`); the crawl logs in only with a `loginPath`, and there
(`crawler.ts:38-47`). A form that is reached by a redirect, or that moves on to
another address, counts as succeeded before anybody is (`login.ts:171`).
A login that meets an unconfigured PIN page outside the login path
counts as succeeded; an authenticated scenario with one act reuses whatever
session is there, and runs anonymously if its first page is public; a click that
leads to a logout is noticed after the click; a link redirecting to the base
page gives the root of the sitemap a parent, and the tree vanishes. The recorder
reads the page's URL after its awaits, so it may name a later screen than "the
screen the request fired from". Explore never resets the last status, so a value
the browser itself refuses counts as accepted; a submission that is answered by a
redirect back to its own page does not (`oracle.ts:6-9` knows a 2xx and a change of
address only). Emit gives every recorded mutation on a route the verdict of the
first step on it, and none when that step was not looked up: `mergedExtract`
concatenates the routes of all repositories (`structure-merge.ts:45-47`), so two
entities may share a key, and a later step that was looked up is never asked.
Crud's probes take any row with
the placeholder value for its own, and look a delete up by the plan's id column
with the response's `id`.

*Corrections.* `corrections.ts` says of a correction "it stays fixed forever, even
after a full re-analysis". Renaming an entity does not ask whether the new name is
taken; when the code has it too, a later correction of that name changes the
first of the two records and the information model keeps the last, so what the
human said is logged, marked as corrected, and not in the layer. Without the
condition `ToldOnce`, TLC finds this in the run `Spine` (the shop that is migrating
has both names).

*Spine.* A decision "honoured forever" is lost when its entity or concept is
away for one run; use cases keep the old name of a renamed entity; an ADR that names a
vanished concept makes the registry unwritable; "undocumented-runtime" is also
said of queued entities; slugs of transitions may collide, and
then one of them may be in no concept. Two failed batches
with one controller lose the second one's use case; an analysis in which every
question failed overwrites the layer with an empty one and records it as fresh;
the CRUD index compares class and table names by normalisation only.

*Viewer.* The traffic pages ignore the method and the recorded transactions for
"observed"; transitions meet by target state only; every entity of a use case is
given the CRUD of all; a menu may be called "ok" for a view derived from a
structure since cleared, and after a crash between two files of the behavior
layer the traffic menu may be called empty although it is not.
