------------------------------- MODULE Report -------------------------------
(***************************************************************************)
(* The report of the behavior engine (behavior/src/cli/commands/report.ts, *)
(* pipeline/report.ts): the pending findings are put before the panel, on  *)
(* what it confirms an issue is filed (services/github/issues.ts), the     *)
(* rest is listed for a human, and the files that were read are archived   *)
(* (state/findings.ts).                                                    *)
(*                                                                         *)
(* Reports may overlap; findings are stored at any time; people close an   *)
(* issue or take its label away.  A mishap is a call of the model, of      *)
(* GitHub or of the disk that fails, or the end of the process; a call of  *)
(* GitHub may take effect although its answer is lost.                     *)
(*                                                                         *)
(* A finding is its fingerprint, which makes deduplication the union of    *)
(* sets.  The activity log is left to BehaviorRun: a report has a finding. *)
(***************************************************************************)
EXTENDS Panel, Sequences, SequencesExt

CONSTANTS
    Proc,         \* processes that may overlap
    Fingerprint,
    Stored,       \* what may be stored at once: sets of fingerprints
    Hubs,         \* the GitHub configurations tried
    PerPage,      \* how many issues GitHub lists
    MaxEntries, MaxMishaps, \* bounds of the model
    MaxOverlap    \* bound: the files stored when a report may start beside another

\* No token or no repository, both, or a URL that is not GitHub's.
Hub == {"none", "repo", "unparsable"}

ASSUME ReportAssumption ==
    /\ Hubs \subseteq Hub /\ Stored \subseteq SUBSET Fingerprint
    /\ PerPage \in Nat /\ MaxEntries \in Nat /\ MaxMishaps \in Nat /\ MaxOverlap \in Nat

VARIABLES
    hub,
    pending,    \* .e2e/findings/*.json
    archive,    \* .e2e/findings/archive/*/*.json
    told,       \* what the reports written say: <<file, fingerprint>>
    open,       \* the fingerprints of the open and labelled issues, the oldest first
    job,        \* of a process: the report it works on
    stored, mishaps,
    filed,      \* history: every fingerprint an issue was made for
    overlapped, \* history: reports have overlapped
    crowded     \* history: a page did not hold all open issues

storeVars == <<pending, archive>>
githubVars == <<open, filed, crowded>>
vars == <<hub, storeVars, told, githubVars, job, stored, mishaps, overlapped>>

Mishap == mishaps < MaxMishaps /\ mishaps' = mishaps + 1
NoMishap == UNCHANGED mishaps

noJob == [stage |-> "idle", files |-> {}, todo |-> {}, passed |-> {}, uncertain |-> {},
          toFile |-> {}, filing |-> {}, failed |-> {}, moving |-> {}]

Init ==
    /\ hub \in Hubs
    /\ pending = {} /\ archive = {} /\ told = {}
    /\ open = <<>> /\ filed = {} /\ crowded = FALSE
    /\ job = [p \in Proc |-> noJob]
    /\ stored = 0 /\ mishaps = 0 /\ overlapped = FALSE

Work(p, j) == job' = [job EXCEPT ![p] = j]

-----------------------------------------------------------------------------
(* Reading and judging. *)

Others(p) == \E q \in Proc \ {p} : job[q] # noJob

Findings(entries) == UNION {e.found : e \in entries}

\* runReport up to the panel; with a URL that is not GitHub's it throws.  The
\* body of the report is asked for once, and decides nothing.
Read(p) ==
    /\ job[p] = noJob /\ hub # "unparsable" /\ Findings(pending) # {}
    /\ Work(p, [noJob EXCEPT !.stage = "judge", !.files = pending, !.todo = Findings(pending)])
    /\ overlapped' = (overlapped \/ Others(p)) /\ (Others(p) => stored <= MaxOverlap)
    /\ NoMishap
    /\ UNCHANGED <<hub, storeVars, told, githubVars, stored>>

\* The panels sit at once and end in any order.  A member in trouble is asked
\* again; one that is not heard ends the whole report.
Judge(p, f) ==
    /\ job[p].stage = "judge" /\ f \in job[p].todo
    /\ \E unusable \in 0..MAX_RETRIES :
          /\ IF unusable = 0 THEN NoMishap ELSE Mishap
          /\ \/ /\ Heard(unusable)
                /\ \E passes \in Outcomes :
                      Work(p, [job[p] EXCEPT
                          !.todo = @ \ {f},
                          !.passed = IF passes THEN @ \cup {f} ELSE @,
                          !.uncertain = IF passes THEN @ ELSE @ \cup {f},
                          !.toFile = IF passes /\ hub = "repo" THEN @ \cup {f} ELSE @])
             \/ ~Heard(unusable) /\ Work(p, noJob)
    /\ UNCHANGED <<hub, storeVars, told, githubVars, stored, overlapped>>

-----------------------------------------------------------------------------
(* Filing: upsertIssue for one finding after the other, a failure is logged. *)

\* GitHub lists the newest issues first, and one page of them.
FirstPage == {open[i] : i \in {k \in DOMAIN open : k > Len(open) - PerPage}}

\* Faulty variant: only the newest issue is looked at.
AlreadyFiledNewest(f) == open # <<>> /\ f = open[Len(open)]

AlreadyFiled(f) == f \in FirstPage

\* The finding is done with as far as GitHub goes.
Tried(j, f) == [j EXCEPT !.toFile = @ \ {f}, !.filing = @ \ {f}]
Failed(j, f) == [Tried(j, f) EXCEPT !.failed = @ \cup {f}]

Filing(p) == job[p].stage = "judge" /\ job[p].todo = {}

List(p, f) ==
    /\ Filing(p) /\ job[p].filing = {} /\ f \in job[p].toFile
    /\ \/ /\ NoMishap
          /\ Work(p, IF AlreadyFiled(f) THEN Tried(job[p], f)
                                        ELSE [job[p] EXCEPT !.filing = {f}])
       \/ Mishap /\ Work(p, Failed(job[p], f))
    /\ UNCHANGED <<hub, storeVars, told, githubVars, stored, overlapped>>

MakeIssue(f) ==
    /\ open' = Append(open, f) /\ filed' = filed \cup {f}
    /\ crowded' = (crowded \/ Len(open) >= PerPage)

\* An issue may be made by a call that fails.
Create(p, f) ==
    /\ Filing(p) /\ f \in job[p].filing
    /\ \/ NoMishap /\ Work(p, Tried(job[p], f)) /\ MakeIssue(f)
       \/ /\ Mishap /\ Work(p, Failed(job[p], f))
          /\ MakeIssue(f) \/ UNCHANGED githubVars
    /\ UNCHANGED <<hub, storeVars, told, stored, overlapped>>

-----------------------------------------------------------------------------
(* Writing and archiving. *)

\* What a report says of some findings, by the files they came from.
Tells(files, found) == told' = told \cup UNION {{e} \X (e.found \cap found) : e \in files}

\* report.json holds every verdict; nobody has to act on those without an issue.
WriteJson(p) ==
    /\ Filing(p) /\ job[p].toFile = {} /\ NoMishap
    /\ Tells(job[p].files, job[p].passed)
    /\ Work(p, [job[p] EXCEPT !.stage = "md"])
    /\ UNCHANGED <<hub, storeVars, githubVars, stored, overlapped>>

\* report.md lists what is uncertain, for the user to confirm.
WriteMd(p) ==
    /\ job[p].stage = "md" /\ NoMishap
    /\ Tells(job[p].files, job[p].uncertain)
    /\ Work(p, [noJob EXCEPT !.stage = "list", !.files = job[p].files])
    /\ UNCHANGED <<hub, storeVars, githubVars, stored, overlapped>>

\* Faulty variant: whatever is there.
ToArchiveAll(files) == pending

\* Faulty variant: a file with a finding nobody was told of on GitHub stays.
ToArchiveFiled(files) == {e \in files \cap pending : e.found \subseteq filed}

\* The files archiveConsumed takes.
ToArchive(files) == files \cap pending

ListArchive(p) ==
    /\ job[p].stage = "list" /\ NoMishap
    /\ Work(p, [noJob EXCEPT !.stage = "move", !.moving = ToArchive(job[p].files)])
    /\ UNCHANGED <<hub, storeVars, told, githubVars, stored, overlapped>>

\* A rename that fails, because another report was faster or otherwise, is logged.
Move(p, e) ==
    /\ job[p].stage = "move" /\ e \in job[p].moving
    /\ \/ /\ NoMishap
          /\ archive' = IF e \in pending THEN archive \cup {e} ELSE archive
          /\ pending' = pending \ {e}
       \/ Mishap /\ UNCHANGED storeVars
    /\ Work(p, [job[p] EXCEPT !.moving = @ \ {e}])
    /\ UNCHANGED <<hub, told, githubVars, stored, overlapped>>

End(p) ==
    /\ job[p].stage = "move" /\ job[p].moving = {} /\ NoMishap
    /\ Work(p, noJob)
    /\ UNCHANGED <<hub, storeVars, told, githubVars, stored, overlapped>>

-----------------------------------------------------------------------------
(* What comes from outside. *)

\* An exception that is not caught, or the end of the process.
Die(p) ==
    /\ job[p] # noJob /\ Mishap
    /\ Work(p, noJob)
    /\ UNCHANGED <<hub, storeVars, told, githubVars, stored, overlapped>>

Store ==
    /\ stored < MaxEntries /\ stored' = stored + 1
    /\ \E found \in Stored : pending' = pending \cup {[id |-> stored + 1, found |-> found]}
    /\ UNCHANGED <<hub, archive, told, githubVars, job, mishaps, overlapped>>

Close ==
    /\ \E i \in DOMAIN open : open' = RemoveAt(open, i)
    /\ UNCHANGED <<hub, storeVars, told, filed, crowded, job, stored, mishaps, overlapped>>

Step(p) ==
    \/ Read(p)
    \/ \E f \in Fingerprint : Judge(p, f) \/ List(p, f) \/ Create(p, f)
    \/ WriteJson(p) \/ WriteMd(p) \/ ListArchive(p)
    \/ \E e \in job[p].moving : Move(p, e)
    \/ End(p)

Next == Store \/ Close \/ \E p \in Proc : Step(p) \/ Die(p)

Spec == Init /\ [][Next]_vars

\* A process goes on with what it awaits, and somebody runs `report` again as
\* long as something is pending.
FairSpec == Spec /\ \A p \in Proc : WF_vars(Step(p))

-----------------------------------------------------------------------------
(* Properties. *)

Entry == [id : Nat, found : SUBSET Fingerprint]

Job == [stage : {"idle", "judge", "md", "list", "move"}, files : SUBSET Entry,
        todo : SUBSET Fingerprint, passed : SUBSET Fingerprint,
        uncertain : SUBSET Fingerprint, toFile : SUBSET Fingerprint,
        filing : SUBSET Fingerprint, failed : SUBSET Fingerprint, moving : SUBSET Entry]

\* The types of the variables.
TypeOK ==
    /\ hub \in Hub /\ pending \in SUBSET Entry /\ archive \in SUBSET Entry
    /\ told \in SUBSET (Entry \X Fingerprint)
    /\ open \in Seq(Fingerprint) /\ filed \in SUBSET Fingerprint
    /\ job \in [Proc -> Job]
    /\ crowded \in BOOLEAN /\ overlapped \in BOOLEAN
    /\ stored \in 0..MaxEntries /\ mishaps \in 0..MaxMishaps

\* upsertIssue calls itself idempotent: a finding has one open issue, whatever
\* is repeated after a call whose answer was lost, a report that died or a
\* person who closed an issue, unless reports have overlapped (a listing and the
\* creation after it are two calls) or more issues are open than a page holds.
OneOpenIssue ==
    overlapped \/ crowded \/ \A i, j \in DOMAIN open : open[i] = open[j] => i = j

\* Nothing is filed away in silence: what is in an archived file has been judged
\* in a report made of this very file, and written in its report.md or, when an
\* issue exists or cannot be had, in its report.json.
ToldOrFiled ==
    /\ \A e \in archive : {e} \X e.found \subseteq told
    /\ \A p \in Proc : job[p].stage = "md" /\ hub = "repo" =>
          job[p].passed \subseteq filed \cup job[p].failed

\* Whenever a finding is put before the panel, no vote can file an issue over the
\* heads of its members, or keep one back they agree on (adjudicate, majorityClass,
\* bothGatesPass).
PanelIsFair == (\E p \in Proc : job[p].todo # {}) => EveryVoteIsFair

\* However often a member is not heard, a call fails or a report dies, what was
\* found is archived in the end, by a later report.
PendingDrains ==
    hub # "unparsable" =>
        \A id \in 1..MaxEntries :
            (\E e \in pending : e.id = id /\ e.found # {}) ~> (\A e \in pending : e.id # id)
=============================================================================
