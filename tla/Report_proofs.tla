---------------------------- MODULE Report_proofs ----------------------------
(***************************************************************************)
(* Proofs about the report: for any number of overlapping reports, of      *)
(* files and findings, of mishaps, any panel and any page size.            *)
(***************************************************************************)
EXTENDS Report, Induction, SequenceTheorems

\* What a report has to show at each stage, when `tld` is written, issues were
\* made for `made`, and GitHub is configured as `h`.
JobOK(j, tld, made, h) ==
    /\ j.stage = "judge" =>
          /\ Findings(j.files) \subseteq j.todo \cup j.passed \cup j.uncertain
          /\ h = "repo" => j.passed \subseteq j.toFile \cup made \cup j.failed
    /\ j.stage = "md" =>
          /\ Findings(j.files) \subseteq j.passed \cup j.uncertain
          /\ h = "repo" => j.passed \subseteq made \cup j.failed
          /\ \A e \in j.files : {e} \X (e.found \cap j.passed) \subseteq tld
    /\ j.stage \in {"list", "move"} =>
          \A e \in j.files \cup j.moving : {e} \X e.found \subseteq tld

\* The inductive invariant.
IInv ==
    /\ TypeOK
    /\ \A p \in Proc : JobOK(job[p], told, filed, hub)
    /\ \A e \in archive : {e} \X e.found \subseteq told
    /\ \A i \in DOMAIN open : open[i] \in filed

-----------------------------------------------------------------------------

LEMMA NoJobOK ==
    /\ noJob \in Job
    /\ \A tld, made, h : JobOK(noJob, tld, made, h)
BY DEF noJob, Job, JobOK, Findings

\* Reports never take back what they say, nor GitHub what was filed.
LEMMA JobOKStays ==
    ASSUME NEW j, NEW tld, NEW tld2, NEW made, NEW made2, NEW h,
           JobOK(j, tld, made, h), tld \subseteq tld2, made \subseteq made2
    PROVE  JobOK(j, tld2, made2, h)
<1>1. j.stage = "judge" =>
          /\ Findings(j.files) \subseteq j.todo \cup j.passed \cup j.uncertain
          /\ h = "repo" => j.passed \subseteq j.toFile \cup made2 \cup j.failed
  BY DEF JobOK
<1>2. j.stage = "md" =>
          /\ Findings(j.files) \subseteq j.passed \cup j.uncertain
          /\ h = "repo" => j.passed \subseteq made2 \cup j.failed
          /\ \A e \in j.files : {e} \X (e.found \cap j.passed) \subseteq tld2
  BY DEF JobOK
<1>3. j.stage \in {"list", "move"} =>
          \A e \in j.files \cup j.moving : {e} \X e.found \subseteq tld2
  BY DEF JobOK
<1> QED
  BY <1>1, <1>2, <1>3 DEF JobOK

LEMMA MishapsKeep ==
    ASSUME mishaps \in 0..MaxMishaps, NoMishap \/ Mishap
    PROVE  mishaps' \in 0..MaxMishaps
<1>1. CASE NoMishap
  BY <1>1 DEF NoMishap
<1>2. CASE Mishap
  BY <1>2, ReportAssumption DEF Mishap
<1> QED
  BY <1>1, <1>2

\* A step of one report leaves the others as they are.
LEMMA WorkKeeps ==
    ASSUME job \in [Proc -> Job], NEW p \in Proc, NEW j \in Job, Work(p, j),
           \A q \in Proc : JobOK(job[q], told, filed, hub),
           told \subseteq told', filed \subseteq filed', hub' = hub,
           JobOK(j, told', filed', hub)
    PROVE  /\ job' \in [Proc -> Job]
           /\ \A q \in Proc : JobOK(job'[q], told', filed', hub')
<1>1. job' \in [Proc -> Job] /\ job'[p] = j /\ \A q \in Proc : q # p => job'[q] = job[q]
  BY DEF Work
<1>2. ASSUME NEW q \in Proc PROVE JobOK(job'[q], told', filed', hub')
  <2>1. CASE q = p
    BY <2>1, <1>1
  <2>2. CASE q # p
    BY <2>2, <1>1, JobOKStays
  <2> QED
    BY <2>1, <2>2
<1> QED
  BY <1>1, <1>2

\* What a page shows has been filed.
LEMMA FirstPageFiled ==
    ASSUME \A i \in DOMAIN open : open[i] \in filed, NEW f, AlreadyFiled(f)
    PROVE  f \in filed
BY DEF AlreadyFiled, FirstPage

LEMMA MakeIssueKeeps ==
    ASSUME open \in Seq(Fingerprint), filed \in SUBSET Fingerprint, crowded \in BOOLEAN,
           \A i \in DOMAIN open : open[i] \in filed, NEW f \in Fingerprint, MakeIssue(f)
    PROVE  /\ open' \in Seq(Fingerprint) /\ filed' \in SUBSET Fingerprint
           /\ crowded' \in BOOLEAN
           /\ filed' = filed \cup {f}
           /\ \A i \in DOMAIN open' : open'[i] \in filed'
<1>1. open' \in Seq(Fingerprint) /\ Len(open') = Len(open) + 1
  BY DEF MakeIssue
<1>2. ASSUME NEW i \in DOMAIN open' PROVE open'[i] \in filed'
  BY <1>1, <1>2 DEF MakeIssue
<1> QED
  BY <1>1, <1>2 DEF MakeIssue

LEMMA CloseKeeps ==
    ASSUME open \in Seq(Fingerprint), \A i \in DOMAIN open : open[i] \in filed, Close
    PROVE  open' \in Seq(Fingerprint) /\ \A i \in DOMAIN open' : open'[i] \in filed
<1>1. PICK k \in DOMAIN open : open' = RemoveAt(open, k)
  BY DEF Close
<1>2. k \in 1..Len(open) /\ Len(open) \in Nat
  OBVIOUS
<1> DEFINE S == Fingerprint \cap filed
           a == SubSeq(open, 1, k - 1)
           b == SubSeq(open, k + 1, Len(open))
<1>3. \A i \in 1..Len(open) : open[i] \in S
  OBVIOUS
<1>4. open' = a \o b
  BY <1>1 DEF RemoveAt
<1>5. a \in Seq(S)
  <2>1. \A i \in 1..(k - 1) : open[i] \in S
    BY <1>2, <1>3
  <2> QED
    BY <2>1, <1>2, SubSeqProperties
<1>6. b \in Seq(S)
  <2>1. \A i \in (k + 1)..Len(open) : open[i] \in S
    BY <1>2, <1>3
  <2> QED
    BY <2>1, <1>2, SubSeqProperties
<1> HIDE DEF a, b
<1>7. open' \in Seq(S)
  BY <1>4, <1>5, <1>6, ConcatProperties
<1>8. \A i \in DOMAIN open' : open'[i] \in S
  BY <1>7
<1>9. open' \in Seq(Fingerprint)
  BY <1>7
<1> QED
  BY <1>8, <1>9

-----------------------------------------------------------------------------
(* One lemma per action. *)

LEMMA ReadOK ==
    ASSUME IInv, NEW p \in Proc, Read(p)
    PROVE  IInv'
<1> DEFINE j == [noJob EXCEPT !.stage = "judge", !.files = pending,
                              !.todo = Findings(pending)]
<1>a. Findings(pending) \subseteq Fingerprint /\ pending \subseteq Entry
  BY DEF IInv, TypeOK, Findings, Entry
<1>b. /\ j.stage = "judge" /\ j.files = pending /\ j.todo = Findings(pending)
      /\ j.passed = {}
  BY DEF noJob
<1>1. j \in Job /\ JobOK(j, told, filed, hub)
  <2>1. j \in Job
    BY <1>a DEF noJob, Job
  <2> HIDE DEF j
  <2>2. JobOK(j, told, filed, hub)
    BY <1>b DEF JobOK
  <2> QED
    BY <2>1, <2>2
<1>2. /\ job' \in [Proc -> Job]
      /\ \A q \in Proc : JobOK(job'[q], told', filed', hub')
  BY <1>1, WorkKeeps DEF IInv, TypeOK, Read, githubVars
<1>3. UNCHANGED <<hub, pending, archive, told, open, filed, crowded, stored, mishaps>>
      /\ overlapped' \in BOOLEAN
  BY DEF Read, storeVars, githubVars, NoMishap
<1> QED
  BY <1>2, <1>3 DEF IInv, TypeOK

LEMMA JudgeOK ==
    ASSUME IInv, NEW p \in Proc, NEW f \in Fingerprint, Judge(p, f)
    PROVE  IInv'
<1>1. PICK unusable \in 0..MAX_RETRIES :
          /\ IF unusable = 0 THEN NoMishap ELSE Mishap
          /\ \/ \E passes \in Outcomes :
                   Work(p, [job[p] EXCEPT
                          !.todo = @ \ {f},
                          !.passed = IF passes THEN @ \cup {f} ELSE @,
                          !.uncertain = IF passes THEN @ ELSE @ \cup {f},
                          !.toFile = IF passes /\ hub = "repo" THEN @ \cup {f} ELSE @])
             \/ Work(p, noJob)
  BY DEF Judge
<1>2. UNCHANGED <<hub, pending, archive, told, open, filed, crowded, stored, overlapped>>
  BY DEF Judge, storeVars, githubVars
<1>3. job[p] \in Job /\ job[p].stage = "judge" /\ JobOK(job[p], told, filed, hub)
  BY DEF IInv, TypeOK, Judge
<1>4. /\ job' \in [Proc -> Job]
      /\ \A q \in Proc : JobOK(job'[q], told', filed', hub')
  <2>1. CASE Work(p, noJob)
    BY <2>1, <1>2, NoJobOK, WorkKeeps DEF IInv, TypeOK
  <2>2. ASSUME NEW passes \in Outcomes,
               Work(p, [job[p] EXCEPT
                          !.todo = @ \ {f},
                          !.passed = IF passes THEN @ \cup {f} ELSE @,
                          !.uncertain = IF passes THEN @ ELSE @ \cup {f},
                          !.toFile = IF passes /\ hub = "repo" THEN @ \cup {f} ELSE @])
        PROVE  /\ job' \in [Proc -> Job]
               /\ \A q \in Proc : JobOK(job'[q], told', filed', hub')
    <3> DEFINE j == [job[p] EXCEPT
                          !.todo = @ \ {f},
                          !.passed = IF passes THEN @ \cup {f} ELSE @,
                          !.uncertain = IF passes THEN @ ELSE @ \cup {f},
                          !.toFile = IF passes /\ hub = "repo" THEN @ \cup {f} ELSE @]
    <3>1. j \in Job
      BY <1>3 DEF Job
    <3>2. j.stage = "judge" /\ j.files = job[p].files /\ j.failed = job[p].failed
      BY <1>3 DEF Job
    <3>3. j.todo \cup j.passed \cup j.uncertain = job[p].todo \cup job[p].passed \cup job[p].uncertain
      BY <1>3 DEF Job, Judge
    <3>4. hub = "repo" => j.passed \subseteq j.toFile \cup filed \cup j.failed
      BY <1>3 DEF Job, JobOK
    <3> HIDE DEF j
    <3>5. JobOK(j, told, filed, hub)
      BY <1>3, <3>2, <3>3, <3>4 DEF JobOK
    <3>6. Work(p, j)
      BY <2>2 DEF j
    <3> QED
      BY <3>1, <3>5, <3>6, <1>2, WorkKeeps DEF IInv, TypeOK
  <2> QED
    BY <1>1, <2>1, <2>2
<1>5. mishaps' \in 0..MaxMishaps
  BY <1>1, MishapsKeep DEF IInv, TypeOK
<1> QED
  BY <1>2, <1>4, <1>5 DEF IInv, TypeOK

\* A finding that has been tried and failed, or was found or made an issue of.
LEMMA TriedOK ==
    ASSUME NEW j \in Job, j.stage = "judge", NEW f \in Fingerprint,
           NEW tld, NEW made, NEW h, JobOK(j, tld, made, h)
    PROVE  /\ Tried(j, f) \in Job /\ Failed(j, f) \in Job
           /\ JobOK(Tried(j, f), tld, made \cup {f}, h)
           /\ JobOK(Failed(j, f), tld, made, h)
<1>1. Tried(j, f) \in Job /\ Failed(j, f) \in Job
  BY DEF Job, Tried, Failed
<1>2. /\ Tried(j, f).stage = "judge" /\ Tried(j, f).files = j.files
      /\ Tried(j, f).todo = j.todo /\ Tried(j, f).passed = j.passed
      /\ Tried(j, f).uncertain = j.uncertain /\ Tried(j, f).failed = j.failed
      /\ Tried(j, f).toFile = j.toFile \ {f}
  BY DEF Job, Tried
<1>3. /\ Failed(j, f).stage = "judge" /\ Failed(j, f).files = j.files
      /\ Failed(j, f).todo = j.todo /\ Failed(j, f).passed = j.passed
      /\ Failed(j, f).uncertain = j.uncertain /\ Failed(j, f).failed = j.failed \cup {f}
      /\ Failed(j, f).toFile = j.toFile \ {f}
  BY DEF Job, Tried, Failed
<1>4. JobOK(Tried(j, f), tld, made \cup {f}, h)
  BY <1>2 DEF JobOK
<1>5. JobOK(Failed(j, f), tld, made, h)
  BY <1>3 DEF JobOK
<1> QED
  BY <1>1, <1>4, <1>5

LEMMA ListOK ==
    ASSUME IInv, NEW p \in Proc, NEW f \in Fingerprint, List(p, f)
    PROVE  IInv'
<1>1. job[p] \in Job /\ job[p].stage = "judge" /\ JobOK(job[p], told, filed, hub)
  BY DEF IInv, TypeOK, List, Filing
<1>2. UNCHANGED <<hub, pending, archive, told, open, filed, crowded, stored, overlapped>>
  BY DEF List, storeVars, githubVars
<1>3. mishaps' \in 0..MaxMishaps
  BY MishapsKeep DEF IInv, TypeOK, List
<1>4. /\ job' \in [Proc -> Job]
      /\ \A q \in Proc : JobOK(job'[q], told', filed', hub')
  <2>1. CASE AlreadyFiled(f) /\ Work(p, Tried(job[p], f))
    <3>1. filed \cup {f} = filed
      BY <2>1, FirstPageFiled DEF IInv
    <3>2. Tried(job[p], f) \in Job /\ JobOK(Tried(job[p], f), told, filed, hub)
      BY <1>1, <3>1, TriedOK
    <3> QED
      BY <2>1, <3>2, <1>2, WorkKeeps DEF IInv, TypeOK
  <2>2. CASE Work(p, Failed(job[p], f))
    <3>1. Failed(job[p], f) \in Job /\ JobOK(Failed(job[p], f), told, filed, hub)
      BY <1>1, TriedOK
    <3> QED
      BY <2>2, <3>1, <1>2, WorkKeeps DEF IInv, TypeOK
  <2>3. CASE Work(p, [job[p] EXCEPT !.filing = {f}])
    <3> DEFINE j == [job[p] EXCEPT !.filing = {f}]
    <3>1. /\ j \in Job /\ j.stage = "judge" /\ j.files = job[p].files
          /\ j.todo = job[p].todo /\ j.passed = job[p].passed
          /\ j.uncertain = job[p].uncertain /\ j.failed = job[p].failed
          /\ j.toFile = job[p].toFile
      BY <1>1 DEF Job
    <3> HIDE DEF j
    <3>2. JobOK(j, told, filed, hub)
      BY <1>1, <3>1 DEF JobOK
    <3>3. Work(p, j)
      BY <2>3 DEF j
    <3> QED
      BY <3>1, <3>2, <3>3, <1>2, WorkKeeps DEF IInv, TypeOK
  <2> QED
    BY <2>1, <2>2, <2>3 DEF List
<1> QED
  BY <1>2, <1>3, <1>4 DEF IInv, TypeOK

LEMMA CreateOK ==
    ASSUME IInv, NEW p \in Proc, NEW f \in Fingerprint, Create(p, f)
    PROVE  IInv'
<1>1. job[p] \in Job /\ job[p].stage = "judge" /\ JobOK(job[p], told, filed, hub)
  BY DEF IInv, TypeOK, Create, Filing
<1>2. UNCHANGED <<hub, pending, archive, told, stored, overlapped>>
  BY DEF Create, storeVars
<1>3. mishaps' \in 0..MaxMishaps
  BY MishapsKeep DEF IInv, TypeOK, Create
<1>4. /\ open' \in Seq(Fingerprint) /\ filed' \in SUBSET Fingerprint /\ crowded' \in BOOLEAN
      /\ \A i \in DOMAIN open' : open'[i] \in filed'
      /\ filed \subseteq filed'
  <2>1. CASE MakeIssue(f)
    BY <2>1, MakeIssueKeeps DEF IInv, TypeOK
  <2>2. CASE UNCHANGED githubVars
    BY <2>2 DEF IInv, TypeOK, githubVars
  <2> QED
    BY <2>1, <2>2 DEF Create
<1>5. /\ job' \in [Proc -> Job]
      /\ \A q \in Proc : JobOK(job'[q], told', filed', hub')
  <2>1. CASE Work(p, Tried(job[p], f)) /\ MakeIssue(f)
    <3>1. filed' = filed \cup {f}
      BY <2>1 DEF MakeIssue
    <3>2. Tried(job[p], f) \in Job /\ JobOK(Tried(job[p], f), told', filed', hub)
      BY <1>1, <1>2, <3>1, TriedOK
    <3> QED
      BY <2>1, <3>2, <1>2, <1>4, WorkKeeps DEF IInv, TypeOK
  <2>2. CASE Work(p, Failed(job[p], f))
    <3>1. Failed(job[p], f) \in Job /\ JobOK(Failed(job[p], f), told, filed, hub)
      BY <1>1, TriedOK
    <3>2. JobOK(Failed(job[p], f), told', filed', hub)
      BY <1>2, <1>4, <3>1, JobOKStays
    <3> QED
      BY <2>2, <3>1, <3>2, <1>2, <1>4, WorkKeeps DEF IInv, TypeOK
  <2> QED
    BY <2>1, <2>2 DEF Create
<1> QED
  BY <1>2, <1>3, <1>4, <1>5 DEF IInv, TypeOK

\* What a report writes concerns its own files.
LEMMA TellsOK ==
    ASSUME told \in SUBSET (Entry \X Fingerprint), NEW files \in SUBSET Entry,
           NEW found \in SUBSET Fingerprint, Tells(files, found)
    PROVE  /\ told' \in SUBSET (Entry \X Fingerprint)
           /\ told \subseteq told'
           /\ \A e \in files : {e} \X (e.found \cap found) \subseteq told'
BY DEF Tells

LEMMA WriteJsonOK ==
    ASSUME IInv, NEW p \in Proc, WriteJson(p)
    PROVE  IInv'
<1> DEFINE j == [job[p] EXCEPT !.stage = "md"]
<1>1. /\ job[p] \in Job /\ job[p].stage = "judge" /\ JobOK(job[p], told, filed, hub)
      /\ job[p].todo = {} /\ job[p].toFile = {}
  BY DEF IInv, TypeOK, WriteJson, Filing
<1>2. UNCHANGED <<hub, pending, archive, open, filed, crowded, stored, overlapped, mishaps>>
  BY DEF WriteJson, storeVars, githubVars, NoMishap
<1>3. /\ told' \in SUBSET (Entry \X Fingerprint) /\ told \subseteq told'
      /\ \A e \in job[p].files : {e} \X (e.found \cap job[p].passed) \subseteq told'
  <2>1. job[p].files \in SUBSET Entry /\ job[p].passed \in SUBSET Fingerprint
    BY <1>1 DEF Job
  <2> QED
    BY <2>1, TellsOK DEF IInv, TypeOK, WriteJson
<1>4. /\ j \in Job /\ j.stage = "md" /\ j.files = job[p].files /\ j.passed = job[p].passed
      /\ j.uncertain = job[p].uncertain /\ j.failed = job[p].failed
  BY <1>1 DEF Job
<1>5. Work(p, j)
  BY DEF WriteJson
<1> HIDE DEF j
<1>6. JobOK(j, told', filed, hub)
  BY <1>1, <1>3, <1>4 DEF JobOK
<1>7. /\ job' \in [Proc -> Job]
      /\ \A q \in Proc : JobOK(job'[q], told', filed', hub')
  BY <1>2, <1>3, <1>4, <1>5, <1>6, WorkKeeps DEF IInv, TypeOK
<1>8. \A e \in archive' : {e} \X e.found \subseteq told'
  BY <1>2, <1>3 DEF IInv
<1> QED
  BY <1>2, <1>3, <1>7, <1>8 DEF IInv, TypeOK

LEMMA WriteMdOK ==
    ASSUME IInv, NEW p \in Proc, WriteMd(p)
    PROVE  IInv'
<1> DEFINE j == [noJob EXCEPT !.stage = "list", !.files = job[p].files]
<1>1. job[p] \in Job /\ job[p].stage = "md" /\ JobOK(job[p], told, filed, hub)
  BY DEF IInv, TypeOK, WriteMd
<1>2. UNCHANGED <<hub, pending, archive, open, filed, crowded, stored, overlapped, mishaps>>
  BY DEF WriteMd, storeVars, githubVars, NoMishap
<1>3. /\ told' \in SUBSET (Entry \X Fingerprint) /\ told \subseteq told'
      /\ \A e \in job[p].files : {e} \X (e.found \cap job[p].uncertain) \subseteq told'
  <2>1. job[p].files \in SUBSET Entry /\ job[p].uncertain \in SUBSET Fingerprint
    BY <1>1 DEF Job
  <2> QED
    BY <2>1, TellsOK DEF IInv, TypeOK, WriteMd
<1>4. j \in Job /\ j.stage = "list" /\ j.files = job[p].files /\ j.moving = {}
  BY <1>1 DEF noJob, Job
<1>5. Work(p, j)
  BY DEF WriteMd
<1>6. ASSUME NEW e \in job[p].files PROVE {e} \X e.found \subseteq told'
  <2>1. e.found \subseteq job[p].passed \cup job[p].uncertain
    BY <1>1 DEF JobOK, Findings
  <2>2. {e} \X (e.found \cap job[p].passed) \subseteq told'
    BY <1>1, <1>3 DEF JobOK
  <2> QED
    BY <1>3, <2>1, <2>2
<1> HIDE DEF j
<1>7. JobOK(j, told', filed, hub)
  BY <1>4, <1>6 DEF JobOK
<1>8. /\ job' \in [Proc -> Job]
      /\ \A q \in Proc : JobOK(job'[q], told', filed', hub')
  BY <1>2, <1>3, <1>4, <1>5, <1>7, WorkKeeps DEF IInv, TypeOK
<1>9. \A e \in archive' : {e} \X e.found \subseteq told'
  BY <1>2, <1>3 DEF IInv
<1> QED
  BY <1>2, <1>3, <1>8, <1>9 DEF IInv, TypeOK

LEMMA ListArchiveOK ==
    ASSUME IInv, NEW p \in Proc, ListArchive(p)
    PROVE  IInv'
<1> DEFINE j == [noJob EXCEPT !.stage = "move", !.moving = ToArchive(job[p].files)]
<1>1. job[p] \in Job /\ job[p].stage = "list" /\ JobOK(job[p], told, filed, hub)
  BY DEF IInv, TypeOK, ListArchive
<1>2. UNCHANGED <<hub, pending, archive, told, open, filed, crowded, stored, overlapped, mishaps>>
  BY DEF ListArchive, storeVars, githubVars, NoMishap
<1>3. ToArchive(job[p].files) \subseteq job[p].files /\ job[p].files \subseteq Entry
  BY <1>1 DEF Job, ToArchive
<1>4. /\ j \in Job /\ j.stage = "move" /\ j.files = {}
      /\ j.moving = ToArchive(job[p].files)
  BY <1>3 DEF noJob, Job
<1>5. Work(p, j)
  BY DEF ListArchive
<1> HIDE DEF j
<1>6. JobOK(j, told, filed, hub)
  BY <1>1, <1>3, <1>4 DEF JobOK
<1>7. /\ job' \in [Proc -> Job]
      /\ \A q \in Proc : JobOK(job'[q], told', filed', hub')
  BY <1>2, <1>4, <1>5, <1>6, WorkKeeps DEF IInv, TypeOK
<1> QED
  BY <1>2, <1>7 DEF IInv, TypeOK

LEMMA MoveOK ==
    ASSUME IInv, NEW p \in Proc, NEW e \in job[p].moving, Move(p, e)
    PROVE  IInv'
<1> DEFINE j == [job[p] EXCEPT !.moving = @ \ {e}]
<1>1. job[p] \in Job /\ job[p].stage = "move" /\ JobOK(job[p], told, filed, hub)
  BY DEF IInv, TypeOK, Move
<1>2. UNCHANGED <<hub, told, open, filed, crowded, stored, overlapped>>
  BY DEF Move, githubVars
<1>3. mishaps' \in 0..MaxMishaps
  BY MishapsKeep DEF IInv, TypeOK, Move
<1>4. e \in Entry /\ {e} \X e.found \subseteq told
  BY <1>1 DEF Job, JobOK
<1>5. /\ archive' \subseteq archive \cup {e} /\ pending' \subseteq pending
  BY DEF Move, storeVars
<1>6. /\ j \in Job /\ j.stage = "move" /\ j.files = job[p].files
      /\ j.moving \subseteq job[p].moving
  BY <1>1 DEF Job
<1>7. Work(p, j)
  BY DEF Move
<1> HIDE DEF j
<1>8. JobOK(j, told, filed, hub)
  BY <1>1, <1>6 DEF JobOK
<1>9. /\ job' \in [Proc -> Job]
      /\ \A q \in Proc : JobOK(job'[q], told', filed', hub')
  BY <1>2, <1>6, <1>7, <1>8, WorkKeeps DEF IInv, TypeOK
<1> QED
  BY <1>2, <1>3, <1>4, <1>5, <1>9 DEF IInv, TypeOK

\* The report is over, or the process gone.
LEMMA NoJobKeeps ==
    ASSUME IInv, NEW p \in Proc, End(p) \/ Die(p)
    PROVE  IInv'
<1>1. UNCHANGED <<hub, pending, archive, told, open, filed, crowded, stored, overlapped>>
  BY DEF End, Die, storeVars, githubVars
<1>2. mishaps' \in 0..MaxMishaps
  BY MishapsKeep DEF IInv, TypeOK, End, Die
<1>3. Work(p, noJob)
  BY DEF End, Die
<1>4. /\ job' \in [Proc -> Job]
      /\ \A q \in Proc : JobOK(job'[q], told', filed', hub')
  BY <1>1, <1>3, NoJobOK, WorkKeeps DEF IInv, TypeOK
<1> QED
  BY <1>1, <1>2, <1>4 DEF IInv, TypeOK

LEMMA StoreOK ==
    ASSUME IInv, Store
    PROVE  IInv'
<1>1. PICK found \in Stored :
          pending' = pending \cup {[id |-> stored + 1, found |-> found]}
  BY DEF Store
<1>2. stored' \in 0..MaxEntries /\ stored + 1 \in Nat
  BY ReportAssumption DEF IInv, TypeOK, Store
<1>3. [id |-> stored + 1, found |-> found] \in Entry
  BY <1>2, ReportAssumption DEF Entry
<1>4. pending' \in SUBSET Entry
  BY <1>1, <1>3 DEF IInv, TypeOK
<1>5. UNCHANGED <<hub, archive, told, open, filed, crowded, job, mishaps, overlapped>>
  BY DEF Store, githubVars
<1> QED
  BY <1>2, <1>4, <1>5 DEF IInv, TypeOK

LEMMA CloseOK ==
    ASSUME IInv, Close
    PROVE  IInv'
<1>1. open' \in Seq(Fingerprint) /\ \A i \in DOMAIN open' : open'[i] \in filed
  BY CloseKeeps DEF IInv, TypeOK
<1>2. UNCHANGED <<hub, pending, archive, told, filed, crowded, job, stored, mishaps, overlapped>>
  BY DEF Close, storeVars
<1> QED
  BY <1>1, <1>2 DEF IInv, TypeOK

-----------------------------------------------------------------------------

LEMMA InitOK == Init => IInv
<1> SUFFICES ASSUME Init PROVE IInv
  OBVIOUS
<1>1. TypeOK
  <2>1. hub \in Hub /\ stored \in 0..MaxEntries /\ mishaps \in 0..MaxMishaps
    BY ReportAssumption DEF Init
  <2>2. job \in [Proc -> Job]
    BY NoJobOK DEF Init
  <2>3. open \in Seq(Fingerprint)
    BY DEF Init
  <2> QED
    BY <2>1, <2>2, <2>3 DEF Init, TypeOK
<1>2. \A p \in Proc : JobOK(job[p], told, filed, hub)
  BY NoJobOK DEF Init
<1> QED
  BY <1>1, <1>2 DEF Init, IInv

LEMMA NextOK == IInv /\ [Next]_vars => IInv'
<1> SUFFICES ASSUME IInv, [Next]_vars PROVE IInv'
  OBVIOUS
<1>1. CASE Store
  BY <1>1, StoreOK
<1>2. CASE Close
  BY <1>2, CloseOK
<1>3. ASSUME NEW p \in Proc, Step(p) PROVE IInv'
  <2>1. CASE Read(p)
    BY <2>1, ReadOK
  <2>2. ASSUME NEW f \in Fingerprint, Judge(p, f) \/ List(p, f) \/ Create(p, f) PROVE IInv'
    BY <2>2, JudgeOK, ListOK, CreateOK
  <2>3. CASE WriteJson(p)
    BY <2>3, WriteJsonOK
  <2>4. CASE WriteMd(p)
    BY <2>4, WriteMdOK
  <2>5. CASE ListArchive(p)
    BY <2>5, ListArchiveOK
  <2>6. ASSUME NEW e \in job[p].moving, Move(p, e) PROVE IInv'
    BY <2>6, MoveOK
  <2>7. CASE End(p)
    BY <2>7, NoJobKeeps
  <2> QED
    BY <1>3, <2>1, <2>2, <2>3, <2>4, <2>5, <2>6, <2>7 DEF Step
<1>4. ASSUME NEW p \in Proc, Die(p) PROVE IInv'
  BY <1>4, NoJobKeeps
<1>5. CASE UNCHANGED vars
  <2>1. /\ UNCHANGED <<hub, pending, archive, told, open, filed, crowded>>
        /\ UNCHANGED <<job, stored, mishaps, overlapped>>
    BY <1>5 DEF vars, storeVars, githubVars
  <2>2. TypeOK'
    BY <2>1 DEF IInv, TypeOK
  <2>3. \A p \in Proc : JobOK(job'[p], told', filed', hub')
    BY <2>1 DEF IInv
  <2> QED
    BY <2>1, <2>2, <2>3 DEF IInv
<1> QED
  BY <1>1, <1>2, <1>3, <1>4, <1>5 DEF Next

LEMMA ToldFollows == IInv => ToldOrFiled
BY DEF IInv, ToldOrFiled, JobOK

\* Type correctness of reports, however they overlap and fail.
THEOREM ReportTypeOK == Spec => []TypeOK
<1>1. IInv => TypeOK
  BY DEF IInv
<1> QED
  BY InitOK, NextOK, <1>1, PTL DEF Spec

\* No finding is archived in silence, by however many reports that overlap, are
\* not answered or die, whatever the panel and GitHub do.
THEOREM ReportToldOrFiled == Spec => []ToldOrFiled
  BY InitOK, NextOK, ToldFollows, PTL DEF Spec

-----------------------------------------------------------------------------
(* The panel.  The totals of confidences are recursive functions: what is  *)
(* said of them rests on induction over the members.                       *)

\* The sum of what the members add, up to one of them, is well defined.
Sums(adds, n) == CHOOSE s : s = [k \in 0..n |-> IF k = 0 THEN 0 ELSE s[k - 1] + adds[k]]

LEMMA SumsExist ==
    ASSUME NEW n \in Nat, NEW adds \in [1..n -> Int]
    PROVE  Sums(adds, n) = [k \in 0..n |-> IF k = 0 THEN 0 ELSE Sums(adds, n)[k - 1] + adds[k]]
<1> DEFINE F == [p \in (1..n) \X Int |-> p[2] + adds[p[1]]]
<1>1. F \in [(1..n) \X Int -> Int]
  OBVIOUS
<1>2. PICK s : Recursion(s, Int, 0, n, F)
  <2> HIDE DEF F
  <2>1. PICK T, first : T = Int /\ first = 0
    OBVIOUS
  <2>2. first \in T /\ F \in [(1..n) \X T -> T]
    BY <1>1, <2>1
  <2>3. \E s : Recursion(s, T, first, n, F)
    BY <2>2, RecursionExists
  <2> QED
    BY <2>1, <2>3
<1>3. ASSUME NEW k \in 1..n PROVE s[k] = s[k - 1] + adds[k]
  <2>1. k - 1 \in 0..n /\ s[k - 1] \in Int
    BY <1>2 DEF Recursion
  <2> QED
    BY <1>2, <2>1 DEF Recursion
<1>4. s = [k \in 0..n |-> IF k = 0 THEN 0 ELSE s[k - 1] + adds[k]]
  <2>1. \A k \in 0..n : k = 0 \/ k \in 1..n
    OBVIOUS
  <2> QED
    BY <1>2, <1>3, <2>1 DEF Recursion
<1> QED
  BY <1>4 DEF Sums

LEMMA TotalIsSum ==
    ASSUME NEW adds \in [Members -> Int]
    PROVE  /\ Total(adds) = Sums(adds, PanelSize)[PanelSize]
           /\ Sums(adds, PanelSize)[0] = 0
           /\ \A n \in Members :
                 Sums(adds, PanelSize)[n] = Sums(adds, PanelSize)[n - 1] + adds[n]
           /\ \A n \in 0..PanelSize : Sums(adds, PanelSize)[n] \in Int
<1> DEFINE s == Sums(adds, PanelSize)
<1>1. s = [k \in 0..PanelSize |-> IF k = 0 THEN 0 ELSE s[k - 1] + adds[k]]
  BY SumsExist, PanelAssumption DEF Members
<1>2. Total(adds) = s[PanelSize]
  BY DEF Total, Sums
<1> HIDE DEF s
<1>3. s[0] = 0 /\ \A n \in Members : s[n] = s[n - 1] + adds[n]
  BY <1>1, PanelAssumption DEF Members
<1> DEFINE S == {n \in Nat : n <= PanelSize => s[n] \in Int}
<1>4. Nat \subseteq S
  <2>1. 0 \in S
    BY <1>3
  <2>2. ASSUME NEW n \in Nat, n \in S PROVE n + 1 \in S
    <3>1. CASE n + 1 <= PanelSize
      <4>1. n + 1 \in Members /\ (n + 1) - 1 = n
        BY <3>1, PanelAssumption DEF Members
      <4>2. s[n + 1] = s[n] + adds[n + 1]
        BY <1>3, <4>1
      <4> QED
        BY <2>2, <3>1, <4>1, <4>2, PanelAssumption
    <3> QED
      BY <3>1
  <2> HIDE DEF S
  <2> QED
    BY <2>1, <2>2, NatSetInduction
<1>5. \A n \in 0..PanelSize : s[n] \in Int
  BY <1>4, PanelAssumption
<1> QED
  BY <1>2, <1>3, <1>5 DEF s

\* Who adds more has the greater total.
LEMMA TotalGrows ==
    ASSUME NEW a \in [Members -> Int], NEW b \in [Members -> Int],
           \A i \in Members : a[i] <= b[i]
    PROVE  /\ Total(a) <= Total(b)
           /\ (\E i \in Members : a[i] < b[i]) => Total(a) < Total(b)
<1> DEFINE s == Sums(a, PanelSize)
           t == Sums(b, PanelSize)
           S == {n \in Nat : n <= PanelSize =>
                    /\ s[n] <= t[n]
                    /\ (\E i \in 1..n : a[i] < b[i]) => s[n] < t[n]}
<1>1. /\ s[0] = 0 /\ \A n \in Members : s[n] = s[n - 1] + a[n]
      /\ \A n \in 0..PanelSize : s[n] \in Int
      /\ Total(a) = s[PanelSize]
  BY TotalIsSum
<1>2. /\ t[0] = 0 /\ \A n \in Members : t[n] = t[n - 1] + b[n]
      /\ \A n \in 0..PanelSize : t[n] \in Int
      /\ Total(b) = t[PanelSize]
  BY TotalIsSum
<1> HIDE DEF s, t
<1>3. 0 \in S
  BY <1>1, <1>2
<1>4. ASSUME NEW n \in Nat, n \in S PROVE n + 1 \in S
  <2> SUFFICES ASSUME n + 1 <= PanelSize
               PROVE  /\ s[n + 1] <= t[n + 1]
                      /\ (\E i \in 1..n + 1 : a[i] < b[i]) => s[n + 1] < t[n + 1]
    OBVIOUS
  <2>1. n + 1 \in Members /\ (n + 1) - 1 = n /\ n \in 0..PanelSize /\ n + 1 \in 0..PanelSize
    BY PanelAssumption DEF Members
  <2>2. s[n + 1] = s[n] + a[n + 1] /\ t[n + 1] = t[n] + b[n + 1]
    BY <1>1, <1>2, <2>1
  <2>3. s[n] \in Int /\ t[n] \in Int /\ a[n + 1] \in Int /\ b[n + 1] \in Int
    BY <1>1, <1>2, <2>1
  <2>4. a[n + 1] <= b[n + 1] /\ s[n] <= t[n]
    BY <1>4, <2>1, PanelAssumption
  <2>5. ASSUME NEW i \in 1..n + 1, a[i] < b[i] PROVE s[n + 1] < t[n + 1]
    <3>1. CASE i = n + 1
      BY <2>2, <2>3, <2>4, <2>5, <3>1
    <3>2. CASE i # n + 1
      <4>1. i \in 1..n
        BY <3>2
      <4>2. s[n] < t[n]
        BY <1>4, <2>1, <2>5, <4>1, PanelAssumption
      <4> QED
        BY <2>2, <2>3, <2>4, <4>2
    <3> QED
      BY <3>1, <3>2
  <2> QED
    BY <2>2, <2>3, <2>4, <2>5
<1>5. PanelSize \in S
  <2> HIDE DEF S
  <2> QED
    BY <1>3, <1>4, NatSetInduction, PanelAssumption
<1> QED
  BY <1>1, <1>2, <1>5, PanelAssumption DEF Members

\* Changing what one member adds changes the total by as much.
LEMMA TotalExcept ==
    ASSUME NEW a \in [Members -> Int], NEW i \in Members, NEW x \in Int
    PROVE  Total([a EXCEPT ![i] = x]) = Total(a) - a[i] + x
<1> DEFINE b == [a EXCEPT ![i] = x]
           s == Sums(a, PanelSize)
           t == Sums(b, PanelSize)
           S == {n \in Nat : n <= PanelSize =>
                    t[n] = IF i <= n THEN s[n] - a[i] + x ELSE s[n]}
<1>0. b \in [Members -> Int] /\ b[i] = x /\ \A n \in Members : n # i => b[n] = a[n]
  OBVIOUS
<1>1. /\ s[0] = 0 /\ \A n \in Members : s[n] = s[n - 1] + a[n]
      /\ \A n \in 0..PanelSize : s[n] \in Int
      /\ Total(a) = s[PanelSize]
  BY TotalIsSum
<1> HIDE DEF b
<1>2. /\ t[0] = 0 /\ \A n \in Members : t[n] = t[n - 1] + b[n]
      /\ Total(b) = t[PanelSize]
  BY <1>0, TotalIsSum
<1> HIDE DEF s, t
<1>3. i \in Nat /\ i > 0 /\ i <= PanelSize /\ a[i] \in Int
  BY PanelAssumption DEF Members
<1>4. 0 \in S
  BY <1>1, <1>2, <1>3
<1>5. ASSUME NEW n \in Nat, n \in S PROVE n + 1 \in S
  <2> SUFFICES ASSUME n + 1 <= PanelSize
               PROVE  t[n + 1] = IF i <= n + 1 THEN s[n + 1] - a[i] + x ELSE s[n + 1]
    OBVIOUS
  <2>1. n + 1 \in Members /\ (n + 1) - 1 = n /\ n \in 0..PanelSize
    BY PanelAssumption DEF Members
  <2>2. s[n + 1] = s[n] + a[n + 1] /\ t[n + 1] = t[n] + b[n + 1]
    BY <1>1, <1>2, <2>1
  <2>3. s[n] \in Int /\ a[n + 1] \in Int
    BY <1>1, <2>1
  <2>4. t[n] = IF i <= n THEN s[n] - a[i] + x ELSE s[n]
    BY <1>5, PanelAssumption
  <2>5. b[n + 1] = IF i = n + 1 THEN x ELSE a[n + 1]
    BY <1>0, <2>1
  <2> QED
    BY <1>3, <2>2, <2>3, <2>4, <2>5
<1>6. PanelSize \in S
  <2> HIDE DEF S
  <2> QED
    BY <1>4, <1>5, NatSetInduction, PanelAssumption
<1> QED
  BY <1>1, <1>2, <1>3, <1>6, PanelAssumption DEF b

\* Where all who add anything add the same.
LEMMA TotalOfEqual ==
    ASSUME NEW heard \in SUBSET Members, NEW x \in Nat
    PROVE  Total([i \in Members |-> IF i \in heard THEN x ELSE 0]) = x * Cardinality(heard)
<1> DEFINE a == [i \in Members |-> IF i \in heard THEN x ELSE 0]
           s == Sums(a, PanelSize)
           to(n) == heard \cap (1..n)
           S == {n \in Nat : n <= PanelSize => s[n] = x * Cardinality(to(n))}
<1>1. /\ a \in [Members -> Int]
      /\ \A i \in Members : a[i] = IF i \in heard THEN x ELSE 0
  OBVIOUS
<1> HIDE DEF a
<1>2. /\ s[0] = 0 /\ \A n \in Members : s[n] = s[n - 1] + a[n]
      /\ Total(a) = s[PanelSize]
  BY <1>1, TotalIsSum
<1> HIDE DEF s
<1>3. 0 \in S
  <2>1. to(0) = {} /\ Cardinality({}) = 0
    BY FS_EmptySet
  <2> QED
    BY <1>2, <2>1
<1>4. ASSUME NEW n \in Nat, n \in S PROVE n + 1 \in S
  <2> SUFFICES ASSUME n + 1 <= PanelSize
               PROVE  s[n + 1] = x * Cardinality(to(n + 1))
    OBVIOUS
  <2>1. n + 1 \in Members /\ (n + 1) - 1 = n
    BY PanelAssumption DEF Members
  <2>2. s[n + 1] = s[n] + a[n + 1] /\ s[n] = x * Cardinality(to(n))
    BY <1>2, <1>4, <2>1, PanelAssumption
  <2>3. IsFiniteSet(to(n)) /\ Cardinality(to(n)) \in Nat
    <3>1. IsFiniteSet(1..n)
      BY FS_Interval
    <3> QED
      BY <3>1, FS_Subset, FS_CardinalityType
  <2>4. CASE n + 1 \in heard
    <3>1. to(n + 1) = to(n) \cup {n + 1} /\ n + 1 \notin to(n)
      BY <2>4
    <3>2. Cardinality(to(n + 1)) = Cardinality(to(n)) + 1
      <4> HIDE DEF to
      <4> QED
        BY <2>3, <3>1, FS_AddElement
    <3> DEFINE c == Cardinality(to(n))
    <3>3. x * (c + 1) = x * c + x
      <4> HIDE DEF c
      <4>1. c \in Nat
        BY <2>3 DEF c
      <4> QED
        BY <4>1
    <3> QED
      BY <1>1, <2>1, <2>2, <2>4, <3>2, <3>3
  <2>5. CASE n + 1 \notin heard
    <3>1. to(n + 1) = to(n)
      BY <2>5
    <3>2. x * Cardinality(to(n)) \in Int
      BY <2>3
    <3> HIDE DEF to
    <3> QED
      BY <1>1, <2>1, <2>2, <2>5, <3>1, <3>2
  <2> QED
    BY <2>4, <2>5
<1>5. PanelSize \in S
  <2> HIDE DEF S
  <2> QED
    BY <1>3, <1>4, NatSetInduction, PanelAssumption
<1>6. to(PanelSize) = heard
  BY DEF Members
<1>7. s[PanelSize] = x * Cardinality(to(PanelSize))
  BY <1>5, PanelAssumption
<1>8. Total(a) = x * Cardinality(heard)
  <2> HIDE DEF to
  <2> QED
    BY <1>2, <1>6, <1>7
<1> QED
  BY <1>8 DEF a

\* Seats do not matter to a total.
LEMMA TotalSwap ==
    ASSUME NEW a \in [Members -> Int], NEW i \in Members, NEW j \in Members
    PROVE  Total([a EXCEPT ![i] = a[j], ![j] = a[i]]) = Total(a)
<1>1. CASE i = j
  <2>1. [a EXCEPT ![i] = a[j], ![j] = a[i]] = a
    BY <1>1
  <2> QED
    BY <2>1
<1>2. CASE i # j
  <2> DEFINE b == [a EXCEPT ![i] = a[j]]
  <2>1. b \in [Members -> Int] /\ b[j] = a[j] /\ a[i] \in Int /\ a[j] \in Int
    BY <1>2
  <2>2. Total(b) = Total(a) - a[i] + a[j]
    BY <2>1, TotalExcept
  <2>3. [a EXCEPT ![i] = a[j], ![j] = a[i]] = [b EXCEPT ![j] = a[i]]
    OBVIOUS
  <2>4. Total(a) \in Int
    BY TotalIsSum, PanelAssumption
  <2> HIDE DEF b
  <2>5. Total([b EXCEPT ![j] = a[i]]) = Total(b) - b[j] + a[i]
    BY <2>1, TotalExcept
  <2> QED
    BY <2>1, <2>2, <2>3, <2>4, <2>5
<1> QED
  BY <1>1, <1>2

\* Who sits on whose seat when two members swap theirs.
Seat(i, j, k) == IF k = i THEN j ELSE IF k = j THEN i ELSE k

LEMMA CardinalitySwap ==
    ASSUME NEW S \in SUBSET Members, NEW i \in Members, NEW j \in Members
    PROVE  Cardinality({k \in Members : Seat(i, j, k) \in S}) = Cardinality(S)
<1> DEFINE T == {k \in Members : Seat(i, j, k) \in S}
           a == [k \in Members |-> IF k \in S THEN 1 ELSE 0]
           b == [k \in Members |-> IF k \in T THEN 1 ELSE 0]
<1>1. Total(a) = 1 * Cardinality(S) /\ Total(b) = 1 * Cardinality(T)
  BY TotalOfEqual
<1>2. b = [a EXCEPT ![i] = a[j], ![j] = a[i]]
  BY DEF Seat
<1>3. Total(b) = Total(a)
  <2>1. a \in [Members -> Int]
    OBVIOUS
  <2> HIDE DEF a, b
  <2> QED
    BY <1>2, <2>1, TotalSwap
<1>4. Cardinality(S) \in Nat /\ Cardinality(T) \in Nat
  <2>1. IsFiniteSet(Members)
    BY FS_Interval, PanelAssumption DEF Members
  <2> QED
    BY <2>1, FS_Subset, FS_CardinalityType
<1> HIDE DEF a, b, T
<1>5. Cardinality(T) = Cardinality(S)
  BY <1>1, <1>3, <1>4
<1> QED
  BY <1>5 DEF T

LEMMA MembersFinite ==
    /\ IsFiniteSet(Members) /\ Cardinality(Members) = PanelSize
    /\ \A S \in SUBSET Members : Cardinality(S) \in Nat /\ (S # {} => Cardinality(S) > 0)
<1>1. IsFiniteSet(Members) /\ Cardinality(Members) = PanelSize
  BY FS_Interval, PanelAssumption DEF Members
<1>2. ASSUME NEW S \in SUBSET Members
      PROVE  Cardinality(S) \in Nat /\ (S # {} => Cardinality(S) > 0)
  <2>1. IsFiniteSet(S) /\ Cardinality(S) \in Nat
    BY <1>1, FS_Subset, FS_CardinalityType
  <2>2. S # {} => Cardinality(S) # 0
    BY <2>1, FS_EmptySet
  <2> QED
    BY <2>1, <2>2
<1> QED
  BY <1>1, <1>2

Given(votes, members, c) == {i \in members : votes[i].class = c}

\* A majority is given by somebody, and no class has more votes.
LEMMA MajorityWins ==
    ASSUME NEW votes \in [Members -> Vote], NEW members \in SUBSET Members, members # {}
    PROVE  /\ majorityClass(votes, members) \in Class
           /\ Given(votes, members, majorityClass(votes, members)) # {}
           /\ \A d \in Class : Cardinality(Given(votes, members, d))
                    <= Cardinality(Given(votes, members, majorityClass(votes, members)))
<1> DEFINE given(c) == Given(votes, members, c)
           most == {c \in Class : \A d \in Class : Cardinality(given(d)) <= Cardinality(given(c))}
           S == {i \in members : votes[i].class \in most}
           first == CHOOSE i \in members :
                       /\ votes[i].class \in most
                       /\ \A j \in members : votes[j].class \in most => i <= j
<1>1. \A c \in Class : given(c) \in SUBSET Members /\ Cardinality(given(c)) \in Nat
                     /\ (given(c) # {} => Cardinality(given(c)) > 0)
  BY MembersFinite DEF Given
<1>2. \A i \in Members : votes[i].class \in Class
  BY PanelAssumption
<1>3. majorityClass(votes, members) = votes[first].class
  BY DEF majorityClass, Given
<1>4. PICK m \in Class : \A d \in Class : Cardinality(given(d)) <= Cardinality(given(m))
  <2> HIDE DEF given
  <2>1. /\ Cardinality(given("bug")) \in Nat /\ Cardinality(given("unnecessary")) \in Nat
        /\ Cardinality(given("uncertain")) \in Nat
    BY <1>1 DEF Class
  <2> QED
    BY <2>1 DEF Class
<1>5. PICK i \in members : votes[i].class = m
  <2>1. PICK k \in members : TRUE
    OBVIOUS
  <2>2. votes[k].class \in Class /\ k \in given(votes[k].class)
    BY <1>2 DEF Given
  <2>3. Cardinality(given(votes[k].class)) > 0
    <3> HIDE DEF given
    <3> QED
      BY <1>1, <2>2
  <2>4. Cardinality(given(m)) # 0
    <3> HIDE DEF given
    <3> QED
      BY <1>1, <1>4, <2>2, <2>3
  <2>5. given(m) # {}
    <3> HIDE DEF given
    <3> QED
      BY <2>4, FS_EmptySet
  <2> QED
    BY <2>5 DEF Given
<1> HIDE DEF given
<1>6. S \in SUBSET Nat /\ S # {}
  <2>1. m \in most
    BY <1>4
  <2>2. i \in S
    BY <1>5, <2>1
  <2>3. Members \in SUBSET Nat
    BY PanelAssumption DEF Members
  <2> HIDE DEF most
  <2>4. S \in SUBSET members
    OBVIOUS
  <2> HIDE DEF S
  <2> QED
    BY <2>2, <2>3, <2>4
<1>7. \E n \in members : /\ votes[n].class \in most
                         /\ \A j \in members : votes[j].class \in most => n <= j
  <2>1. PICK n \in S : \A j \in S : n <= j
    <3> HIDE DEF S
    <3> QED
      BY <1>6, LeastNat
  <2> QED
    BY <2>1
<1>8. first \in members /\ votes[first].class \in most
  <2> HIDE DEF most
  <2> QED
    BY <1>7
<1>9. first \in given(votes[first].class)
  BY <1>8 DEF given, Given
<1> QED
  BY <1>3, <1>8, <1>9 DEF given

Confirming(votes) == {i \in Members : ~votes[i].refuted}

Confidences(votes, heard) == [i \in Members |-> IF i \in heard THEN votes[i].confidence ELSE 0]

\* The two ends of a panel.
LEMMA AdjudicateIs ==
    ASSUME NEW votes \in [Members -> Vote]
    PROVE  LET confirming == Confirming(votes)
               class == majorityClass(votes, confirming)
               heard == Given(votes, confirming, class)
           IN /\ IsHalf(Cardinality(confirming)) =>
                    adjudicate(votes) = [class |-> class, heard |-> Cardinality(heard),
                                         sum |-> Total(Confidences(votes, heard))]
              /\ ~IsHalf(Cardinality(confirming)) =>
                    adjudicate(votes) = [class |-> "uncertain", heard |-> Cardinality(Members),
                                         sum |-> Total(Confidences(votes, Members))]
BY DEF adjudicate, Verdict, Confirming, Given, Confidences

LEMMA ConfidencesType ==
    ASSUME NEW votes \in [Members -> Vote], NEW heard \in SUBSET Members
    PROVE  /\ Confidences(votes, heard) \in [Members -> Int]
           /\ \A i \in Members : votes[i].confidence \in 0..100 /\ votes[i].refuted \in BOOLEAN
                               /\ votes[i].class \in Class
<1>1. \A i \in Members : votes[i].confidence \in 0..100 /\ votes[i].refuted \in BOOLEAN
                         /\ votes[i].class \in Class
  BY PanelAssumption
<1> QED
  BY <1>1 DEF Confidences

\* Where half of the members confirm, somebody does.
LEMMA HalfIsSomebody ==
    ASSUME NEW votes \in [Members -> Vote], IsHalf(Cardinality(Confirming(votes)))
    PROVE  Confirming(votes) # {}
<1>1. Cardinality(Confirming(votes)) # 0
  BY PanelAssumption DEF IsHalf
<1> QED
  BY <1>1, FS_EmptySet

\* What passes was confirmed by half, and one of them is confident.
LEMMA PassedIsConfirmed ==
    ASSUME NEW votes \in [Members -> Vote], BothGatesPass(adjudicate(votes), TRUE)
    PROVE  /\ 2 * Cardinality(Confirming(votes)) >= PanelSize
           /\ \E i \in Given(votes, Confirming(votes), adjudicate(votes).class) :
                 votes[i].confidence >= Threshold
<1> DEFINE confirming == Confirming(votes)
           class == majorityClass(votes, confirming)
           heard == Given(votes, confirming, class)
           a == Confidences(votes, heard)
           b == [i \in Members |-> IF i \in heard THEN Threshold ELSE 0]
<1>1. IsHalf(Cardinality(confirming))
  BY AdjudicateIs DEF BothGatesPass
<1>2. /\ adjudicate(votes).class = class
      /\ Total(a) >= Threshold * Cardinality(heard)
  <2>1. adjudicate(votes) = [class |-> class, heard |-> Cardinality(heard), sum |-> Total(a)]
    BY <1>1, AdjudicateIs
  <2>2. Total(a) \in Int
    <3>1. a \in [Members -> Int]
      BY ConfidencesType DEF Confirming, Given
    <3> HIDE DEF a
    <3> QED
      BY <3>1, TotalIsSum, PanelAssumption
  <2>3. /\ adjudicate(votes).class = class /\ adjudicate(votes).heard = Cardinality(heard)
        /\ adjudicate(votes).sum = Total(a)
    BY <2>1
  <2>4. Threshold * Cardinality(heard) \in Int
    <3>1. heard \in SUBSET Members
      BY DEF Confirming, Given
    <3>2. Cardinality(heard) \in Nat
      BY <3>1, MembersFinite
    <3> HIDE DEF heard
    <3> QED
      BY <3>2, PanelAssumption
  <2> HIDE DEF a, heard, class
  <2> QED
    BY <2>2, <2>3, <2>4 DEF BothGatesPass
<1>3. heard # {} /\ heard \in SUBSET Members
  <2>1. confirming # {} /\ confirming \in SUBSET Members
    BY <1>1, HalfIsSomebody DEF Confirming
  <2> HIDE DEF confirming
  <2> QED
    BY <2>1, MajorityWins DEF Given
<1>4. ASSUME \A i \in heard : votes[i].confidence < Threshold PROVE FALSE
  <2> HIDE DEF heard
  <2>1. a \in [Members -> Int] /\ b \in [Members -> Int]
    BY <1>3, ConfidencesType, PanelAssumption
  <2>2. \A i \in Members : a[i] <= b[i]
    BY <1>4, ConfidencesType, PanelAssumption DEF Confidences
  <2>3. \E i \in Members : a[i] < b[i]
    BY <1>3, <1>4 DEF Confidences
  <2>4. Total(b) = Threshold * Cardinality(heard)
    BY <1>3, TotalOfEqual, PanelAssumption
  <2>5. Total(a) < Total(b) /\ Total(a) \in Int /\ Total(b) \in Int
    <3> HIDE DEF a, b
    <3> QED
      BY <2>1, <2>2, <2>3, TotalGrows, TotalIsSum, PanelAssumption
  <2> HIDE DEF a, b
  <2> QED
    BY <1>2, <2>4, <2>5
<1>5. \E i \in heard : votes[i].confidence >= Threshold
  BY <1>3, <1>4, ConfidencesType, PanelAssumption
<1> QED
  BY <1>1, <1>2, <1>5 DEF IsHalf

\* A panel of one mind is followed.
LEMMA OneMindIsFollowed ==
    ASSUME NEW votes \in [Members -> Vote], NEW class \in Class \ {"uncertain"},
           Given(votes, Confirming(votes), class) = Members,
           \A i \in Members : votes[i].confidence > Threshold
    PROVE  BothGatesPass(adjudicate(votes), FALSE)
<1> DEFINE a == Confidences(votes, Members)
           b == [i \in Members |-> IF i \in Members THEN Threshold ELSE 0]
<1>1. Confirming(votes) = Members /\ \A i \in Members : votes[i].class = class
  BY DEF Given, Confirming
<1>2. Members # {} /\ IsHalf(Cardinality(Members))
  <2>1. 1 \in Members
    BY PanelAssumption DEF Members
  <2> QED
    BY <2>1, MembersFinite, PanelAssumption DEF IsHalf
<1>3. majorityClass(votes, Members) = class
  BY <1>1, <1>2, MajorityWins DEF Given
<1>4. Given(votes, Members, class) = Members
  BY <1>1 DEF Given
<1>5. adjudicate(votes) = [class |-> class, heard |-> Cardinality(Members), sum |-> Total(a)]
  <2> HIDE DEF a
  <2> QED
    BY <1>1, <1>2, <1>3, <1>4, AdjudicateIs DEF a
<1>6. a \in [Members -> Int] /\ b \in [Members -> Int]
  BY ConfidencesType, PanelAssumption
<1>7. \A i \in Members : b[i] < a[i]
  BY ConfidencesType, PanelAssumption DEF Confidences
<1>8. Total(b) = Threshold * Cardinality(Members)
  BY TotalOfEqual, PanelAssumption
<1> HIDE DEF a, b
<1>9. Total(b) < Total(a) /\ Total(a) \in Int /\ Total(b) \in Int
  <2>1. \A i \in Members : b[i] <= a[i]
    BY <1>6, <1>7
  <2> QED
    BY <1>2, <1>6, <1>7, <2>1, TotalGrows, TotalIsSum, PanelAssumption
<1> QED
  BY <1>5, <1>8, <1>9 DEF BothGatesPass

SwapSeats(votes, i, j) == [votes EXCEPT ![i] = votes[j], ![j] = votes[i]]

\* Who sat at the seats of some members, after two have swapped theirs.
Moved(S, i, j) == {k \in Members : Seat(i, j, k) \in S}

LEMMA SwapMoves ==
    ASSUME NEW votes \in [Members -> Vote], NEW i \in Members, NEW j \in Members,
           NEW heard \in SUBSET Members
    PROVE  /\ SwapSeats(votes, i, j) \in [Members -> Vote]
           /\ Confirming(SwapSeats(votes, i, j)) = Moved(Confirming(votes), i, j)
           /\ \A c : Given(SwapSeats(votes, i, j), Moved(heard, i, j), c)
                       = Moved(Given(votes, heard, c), i, j)
           /\ Moved(Members, i, j) = Members
           /\ Total(Confidences(SwapSeats(votes, i, j), Moved(heard, i, j)))
                   = Total(Confidences(votes, heard))
<1> DEFINE swapped == SwapSeats(votes, i, j)
           a == Confidences(votes, heard)
           b == Confidences(swapped, Moved(heard, i, j))
<1>1. /\ swapped \in [Members -> Vote]
      /\ \A k \in Members : swapped[k] = votes[Seat(i, j, k)] /\ Seat(i, j, k) \in Members
  BY DEF SwapSeats, Seat
<1> HIDE DEF swapped
<1>2. Confirming(swapped) = Moved(Confirming(votes), i, j)
  BY <1>1 DEF Confirming, Moved
<1>3. ASSUME NEW c
      PROVE  Given(swapped, Moved(heard, i, j), c) = Moved(Given(votes, heard, c), i, j)
  BY <1>1 DEF Given, Moved
<1>4. Moved(Members, i, j) = Members
  BY <1>1 DEF Moved
<1>5. a \in [Members -> Int] /\ b \in [Members -> Int]
  BY <1>1, ConfidencesType DEF Moved
<1>6. \A k \in Members : b[k] = a[Seat(i, j, k)]
  BY <1>1 DEF Confidences, Moved
<1> HIDE DEF a, b
<1>7. b = [a EXCEPT ![i] = a[j], ![j] = a[i]]
  BY <1>5, <1>6 DEF Seat
<1>8. Total(b) = Total(a)
  BY <1>5, <1>7, TotalSwap
<1> QED
  BY <1>1, <1>2, <1>3, <1>4, <1>8 DEF swapped, a, b

\* Where no classes tie, a panel decides the same whoever sits where.
LEMMA SeatsDoNotMatter ==
    ASSUME NEW votes \in [Members -> Vote], NEW i \in Members, NEW j \in Members,
           \A c, d \in Class : c # d /\ Given(votes, Confirming(votes), c) # {}
               => Cardinality(Given(votes, Confirming(votes), c))
                      # Cardinality(Given(votes, Confirming(votes), d))
    PROVE  adjudicate(SwapSeats(votes, i, j)) = adjudicate(votes)
<1> DEFINE swapped == SwapSeats(votes, i, j)
           one == Confirming(votes)
           two == Confirming(swapped)
           c == majorityClass(votes, one)
           d == majorityClass(swapped, two)
<1>1. swapped \in [Members -> Vote] /\ one \in SUBSET Members /\ two \in SUBSET Members
  BY SwapMoves DEF Confirming
<1>2. two = Moved(one, i, j)
  BY SwapMoves
<1>3. \A x : Given(swapped, two, x) = Moved(Given(votes, one, x), i, j)
  BY <1>1, <1>2, SwapMoves
<1>4. Cardinality(two) = Cardinality(one)
  BY <1>1, <1>2, CardinalitySwap DEF Moved
<1>5. \A x : Given(votes, one, x) \in SUBSET Members
  BY <1>1 DEF Given
<1>6. \A x : Cardinality(Given(swapped, two, x)) = Cardinality(Given(votes, one, x))
  <2> HIDE DEF one, two, swapped
  <2> QED
    BY <1>3, <1>5, CardinalitySwap DEF Moved
<1>7. CASE ~IsHalf(Cardinality(one))
  <2>1. Total(Confidences(swapped, Members)) = Total(Confidences(votes, Members))
    BY SwapMoves
  <2> HIDE DEF swapped
  <2> QED
    BY <1>1, <1>4, <1>7, <2>1, AdjudicateIs DEF swapped
<1>8. CASE IsHalf(Cardinality(one))
  <2>1. one # {} /\ two # {}
    <3> HIDE DEF swapped
    <3> QED
      BY <1>1, <1>4, <1>8, HalfIsSomebody
  <2>2. /\ c \in Class /\ Given(votes, one, c) # {}
        /\ \A x \in Class : Cardinality(Given(votes, one, x)) <= Cardinality(Given(votes, one, c))
    <3> HIDE DEF one
    <3> QED
      BY <1>1, <2>1, MajorityWins
  <2>3. /\ d \in Class
        /\ \A x \in Class : Cardinality(Given(swapped, two, x))
                                <= Cardinality(Given(swapped, two, d))
    <3> HIDE DEF two, swapped
    <3> QED
      BY <1>1, <2>1, MajorityWins
  <2>4. \A x : Cardinality(Given(votes, one, x)) \in Nat
    BY <1>5, MembersFinite
  <2>5. c = d
    <3> HIDE DEF c, d, one, two, swapped
    <3>1. Cardinality(Given(votes, one, c)) = Cardinality(Given(votes, one, d))
      BY <1>6, <2>2, <2>3, <2>4
    <3> QED
      BY <2>2, <2>3, <3>1 DEF one
  <2> DEFINE heard == Given(votes, one, c)
             moved == Given(swapped, two, c)
  <2>6. /\ Cardinality(moved) = Cardinality(heard)
        /\ Total(Confidences(swapped, moved)) = Total(Confidences(votes, heard))
    <3>1. moved = Moved(heard, i, j)
      BY <1>3
    <3> QED
      BY <1>5, <1>6, <3>1, SwapMoves
  <2>7. adjudicate(votes) = [class |-> c, heard |-> Cardinality(heard),
                             sum |-> Total(Confidences(votes, heard))]
    BY <1>8, AdjudicateIs
  <2>8. adjudicate(swapped) = [class |-> d, heard |-> Cardinality(Given(swapped, two, d)),
                               sum |-> Total(Confidences(swapped, Given(swapped, two, d)))]
    <3> HIDE DEF swapped
    <3> QED
      BY <1>1, <1>4, <1>8, AdjudicateIs
  <2> HIDE DEF c, d, one, two, swapped
  <2> QED
    BY <2>5, <2>6, <2>7, <2>8 DEF swapped
<1> QED
  BY <1>7, <1>8

LEMMA VotesAreFair == EveryVoteIsFair
<1> SUFFICES ASSUME NEW votes \in [Members -> Vote]
             PROVE  LET verdict == adjudicate(votes)
                        confirming == {i \in Members : ~votes[i].refuted}
                        of(class) == {i \in confirming : votes[i].class = class}
                    IN /\ BothGatesPass(verdict, TRUE) =>
                             /\ 2 * Cardinality(confirming) >= PanelSize
                             /\ \E i \in of(verdict.class) : votes[i].confidence >= Threshold
                       /\ \A class \in Class \ {"uncertain"} :
                             of(class) = Members /\ (\A i \in Members : votes[i].confidence > Threshold)
                                 => BothGatesPass(verdict, FALSE)
                       /\ \/ \E c, d \in Class : c # d /\ of(c) # {} /\ Cardinality(of(c)) = Cardinality(of(d))
                          \/ \A i, j \in Members :
                                adjudicate([votes EXCEPT ![i] = votes[j], ![j] = votes[i]]) = verdict
  BY DEF EveryVoteIsFair
<1> DEFINE confirming == {i \in Members : ~votes[i].refuted}
           of(class) == {i \in confirming : votes[i].class = class}
<1>1. confirming = Confirming(votes) /\ \A class : of(class) = Given(votes, confirming, class)
  BY DEF Confirming, Given
<1> HIDE DEF confirming, of
<1>2. BothGatesPass(adjudicate(votes), TRUE) =>
          /\ 2 * Cardinality(confirming) >= PanelSize
          /\ \E i \in of(adjudicate(votes).class) : votes[i].confidence >= Threshold
  BY <1>1, PassedIsConfirmed
<1>3. \A class \in Class \ {"uncertain"} :
          of(class) = Members /\ (\A i \in Members : votes[i].confidence > Threshold)
              => BothGatesPass(adjudicate(votes), FALSE)
  BY <1>1, OneMindIsFollowed
<1>4. \/ \E c, d \in Class : c # d /\ of(c) # {} /\ Cardinality(of(c)) = Cardinality(of(d))
      \/ \A i, j \in Members : adjudicate(SwapSeats(votes, i, j)) = adjudicate(votes)
  BY <1>1, SeatsDoNotMatter
<1> QED
  BY <1>2, <1>3, <1>4 DEF of, confirming, SwapSeats

\* Whatever the size of the panel, the threshold and what members may say: what
\* passes was confirmed by half of them and by one as confident as asked for, a
\* panel of one mind beyond the threshold is followed, and exchanging two seats
\* changes the verdict only where classes tie.
THEOREM ReportPanelIsFair == Spec => []PanelIsFair
<1>1. PanelIsFair
  BY VotesAreFair DEF PanelIsFair
<1> QED
  BY <1>1, PTL

-----------------------------------------------------------------------------
(* One open issue for a finding. *)

\* What keeps GitHub free of duplicates, while reports do not overlap and all
\* open issues are listed: there is one report, and what it has found no issue
\* for still has none.
OneInv ==
    /\ ~overlapped => \A p, q \in Proc : job[p] # noJob /\ job[q] # noJob => p = q
    /\ ~crowded => Len(open) <= PerPage
    /\ ~overlapped /\ ~crowded =>
          /\ \A i, k \in DOMAIN open : open[i] = open[k] => i = k
          /\ \A p \in Proc : \A f \in job[p].filing : \A i \in DOMAIN open : open[i] # f

\* A step of the one report there is.
LEMMA OneReportGoesOn ==
    ASSUME IInv, OneInv, NEW p \in Proc, NEW j, Work(p, j), job[p] # noJob,
           overlapped' = overlapped,
           ~crowded' => ~crowded /\ Len(open') <= PerPage,
           ~overlapped /\ ~crowded' =>
               /\ \A i, k \in DOMAIN open' : open'[i] = open'[k] => i = k
               /\ \A f \in j.filing : \A i \in DOMAIN open' : open'[i] # f
    PROVE  OneInv'
<1>1. job'[p] = j /\ \A q \in Proc : q # p => job'[q] = job[q]
  BY DEF Work, IInv, TypeOK
<1>2. ~overlapped => \A q \in Proc : q # p => job[q] = noJob
  BY DEF OneInv
<1>3. noJob.filing = {}
  BY DEF noJob
<1>4. ~overlapped' => \A q, r \in Proc : job'[q] # noJob /\ job'[r] # noJob => q = r
  BY <1>1, <1>2
<1>5. ASSUME ~overlapped', ~crowded', NEW q \in Proc, NEW f \in job'[q].filing,
             NEW i \in DOMAIN open'
      PROVE  open'[i] # f
  <2>1. q = p
    BY <1>1, <1>2, <1>3, <1>5
  <2> QED
    BY <1>1, <1>5, <2>1
<1> QED
  BY <1>4, <1>5 DEF OneInv

\* A step that calls nobody and finds nothing to file.
LEMMA QuietReportGoesOn ==
    ASSUME IInv, OneInv, NEW p \in Proc, NEW j, Work(p, j), job[p] # noJob,
           j.filing \subseteq job[p].filing, UNCHANGED <<open, crowded, overlapped>>
    PROVE  OneInv'
<1>1. ~crowded' => ~crowded /\ Len(open') <= PerPage
  BY DEF OneInv
<1>2. ~overlapped /\ ~crowded' =>
          /\ \A i, k \in DOMAIN open' : open'[i] = open'[k] => i = k
          /\ \A f \in j.filing : \A i \in DOMAIN open' : open'[i] # f
  BY DEF OneInv
<1> QED
  BY <1>1, <1>2, OneReportGoesOn

LEMMA StageIsJob ==
    ASSUME NEW p \in Proc, job[p].stage # "idle"
    PROVE  job[p] # noJob
BY DEF noJob

LEMMA ReadOne ==
    ASSUME IInv, OneInv, NEW p \in Proc, Read(p)
    PROVE  OneInv'
<1> DEFINE j == [noJob EXCEPT !.stage = "judge", !.files = pending,
                              !.todo = Findings(pending)]
<1>1. /\ job'[p] = j /\ \A q \in Proc : q # p => job'[q] = job[q]
      /\ UNCHANGED <<open, crowded>> /\ overlapped' = (overlapped \/ Others(p))
  BY DEF Read, Work, IInv, TypeOK, githubVars
<1>2. j.filing = {}
  BY DEF noJob
<1> HIDE DEF j
<1>3. ~overlapped' => \A q \in Proc : q # p => job'[q] = noJob
  BY <1>1 DEF Others
<1>4. ASSUME ~overlapped', ~crowded', NEW q \in Proc, NEW f \in job'[q].filing
      PROVE  FALSE
  BY <1>1, <1>2, <1>3, <1>4 DEF noJob
<1> QED
  BY <1>1, <1>3, <1>4 DEF OneInv

LEMMA JudgeOne ==
    ASSUME IInv, OneInv, NEW p \in Proc, NEW f \in Fingerprint, Judge(p, f)
    PROVE  OneInv'
<1>1. job[p] # noJob /\ job[p] \in Job
  BY StageIsJob DEF Judge, IInv, TypeOK
<1>2. UNCHANGED <<open, crowded, overlapped>>
  BY DEF Judge, githubVars
<1>3. PICK j : Work(p, j) /\ j.filing \subseteq job[p].filing
  <2>1. noJob.filing = {}
    BY DEF noJob
  <2>2. CASE Work(p, noJob)
    BY <2>1, <2>2
  <2>3. ASSUME NEW passes \in Outcomes,
               Work(p, [job[p] EXCEPT
                          !.todo = @ \ {f},
                          !.passed = IF passes THEN @ \cup {f} ELSE @,
                          !.uncertain = IF passes THEN @ ELSE @ \cup {f},
                          !.toFile = IF passes /\ hub = "repo" THEN @ \cup {f} ELSE @])
        PROVE  \E j : Work(p, j) /\ j.filing \subseteq job[p].filing
    <3>1. [job[p] EXCEPT
                          !.todo = @ \ {f},
                          !.passed = IF passes THEN @ \cup {f} ELSE @,
                          !.uncertain = IF passes THEN @ ELSE @ \cup {f},
                          !.toFile = IF passes /\ hub = "repo" THEN @ \cup {f} ELSE @].filing
               = job[p].filing
      BY <1>1 DEF Job
    <3> QED
      BY <2>3, <3>1
  <2> QED
    BY <2>2, <2>3 DEF Judge
<1> QED
  BY <1>1, <1>2, <1>3, QuietReportGoesOn

LEMMA TriedFilesLess ==
    ASSUME NEW j \in Job, NEW f
    PROVE  Tried(j, f).filing = j.filing \ {f} /\ Failed(j, f).filing = j.filing \ {f}
BY DEF Job, Tried, Failed

\* A page that holds all issues shows them all.
LEMMA PageShowsAll ==
    ASSUME open \in Seq(Fingerprint), Len(open) <= PerPage, NEW f, ~AlreadyFiled(f)
    PROVE  \A i \in DOMAIN open : open[i] # f
<1>1. \A i \in DOMAIN open : i > Len(open) - PerPage
  BY ReportAssumption
<1> QED
  BY <1>1 DEF AlreadyFiled, FirstPage

LEMMA ListOne ==
    ASSUME IInv, OneInv, NEW p \in Proc, NEW f \in Fingerprint, List(p, f)
    PROVE  OneInv'
<1>1. job[p] # noJob /\ job[p] \in Job
  BY StageIsJob DEF List, Filing, IInv, TypeOK
<1>2. UNCHANGED <<open, crowded, overlapped>>
  BY DEF List, githubVars
<1>3. CASE Work(p, Tried(job[p], f)) \/ Work(p, Failed(job[p], f))
  BY <1>1, <1>2, <1>3, TriedFilesLess, QuietReportGoesOn
<1>4. CASE ~AlreadyFiled(f) /\ Work(p, [job[p] EXCEPT !.filing = {f}])
  <2> DEFINE j == [job[p] EXCEPT !.filing = {f}]
  <2>1. j.filing = {f}
    BY <1>1 DEF Job
  <2>2. ~crowded' => ~crowded /\ Len(open') <= PerPage
    BY <1>2 DEF OneInv
  <2>3. ~overlapped /\ ~crowded' =>
          /\ \A i, k \in DOMAIN open' : open'[i] = open'[k] => i = k
          /\ \A i \in DOMAIN open' : open'[i] # f
    BY <1>2, <1>4, PageShowsAll DEF OneInv, IInv, TypeOK
  <2>4. Work(p, j)
    BY <1>4
  <2> HIDE DEF j
  <2> QED
    BY <1>1, <1>2, <2>1, <2>2, <2>3, <2>4, OneReportGoesOn
<1> QED
  BY <1>3, <1>4 DEF List

LEMMA CreateOne ==
    ASSUME IInv, OneInv, NEW p \in Proc, NEW f \in Fingerprint, Create(p, f)
    PROVE  OneInv'
<1>1. /\ job[p] # noJob /\ job[p] \in Job /\ f \in job[p].filing
      /\ overlapped' = overlapped
  BY StageIsJob DEF Create, Filing, IInv, TypeOK
<1>2. PICK j : Work(p, j) /\ j.filing = job[p].filing \ {f}
  BY <1>1, TriedFilesLess DEF Create
<1>3. CASE MakeIssue(f)
  <2>1. /\ open \in Seq(Fingerprint) /\ open' \in Seq(Fingerprint)
        /\ Len(open') = Len(open) + 1 /\ Len(open) \in Nat
        /\ \A i \in DOMAIN open' : open'[i] = IF i \in DOMAIN open THEN open[i] ELSE f
        /\ \A i \in DOMAIN open' : i \in DOMAIN open \/ i = Len(open) + 1
    BY <1>3 DEF IInv, TypeOK, MakeIssue
  <2>2. ~crowded' => ~crowded /\ Len(open') <= PerPage
    <3>1. ~crowded' => ~crowded /\ ~(Len(open) >= PerPage)
      BY <1>3, Zenon DEF MakeIssue
    <3> QED
      BY <2>1, <3>1, ReportAssumption
  <2>3. ~overlapped /\ ~crowded' =>
          /\ \A i, k \in DOMAIN open' : open'[i] = open'[k] => i = k
          /\ \A g \in j.filing : \A i \in DOMAIN open' : open'[i] # g
    <3> SUFFICES ASSUME ~overlapped, ~crowded'
                 PROVE  /\ \A i, k \in DOMAIN open' : open'[i] = open'[k] => i = k
                        /\ \A g \in j.filing : \A i \in DOMAIN open' : open'[i] # g
      OBVIOUS
    <3>1. /\ \A i, k \in DOMAIN open : open[i] = open[k] => i = k
          /\ \A g \in job[p].filing : \A i \in DOMAIN open : open[i] # g
      BY <2>2 DEF OneInv
    <3>2. \A g \in j.filing : \A i \in DOMAIN open' : open'[i] # g
      BY <1>2, <2>1, <3>1
    <3>3. ASSUME NEW i \in DOMAIN open', NEW k \in DOMAIN open', open'[i] = open'[k]
          PROVE  i = k
      <4>1. \A m \in DOMAIN open : open[m] # f
        BY <1>1, <3>1
      <4>2. (i \in DOMAIN open) <=> (k \in DOMAIN open)
        BY <2>1, <3>3, <4>1
      <4> QED
        BY <2>1, <3>1, <3>3, <4>2
    <3> QED
      BY <3>2, <3>3
  <2> QED
    BY <1>1, <1>2, <2>2, <2>3, OneReportGoesOn
<1>4. CASE UNCHANGED githubVars
  BY <1>1, <1>2, <1>4, QuietReportGoesOn DEF githubVars
<1> QED
  BY <1>3, <1>4 DEF Create

LEMMA WritingOne ==
    ASSUME IInv, OneInv, NEW p \in Proc,
           WriteJson(p) \/ WriteMd(p) \/ ListArchive(p) \/ (\E e \in job[p].moving : Move(p, e))
    PROVE  OneInv'
<1>1. job[p] # noJob /\ job[p] \in Job
  BY StageIsJob DEF WriteJson, WriteMd, ListArchive, Move, Filing, IInv, TypeOK
<1>2. UNCHANGED <<open, crowded, overlapped>>
  BY DEF WriteJson, WriteMd, ListArchive, Move, githubVars
<1>3. PICK j : Work(p, j) /\ j.filing \subseteq job[p].filing
  <2>1. CASE WriteJson(p)
    <3>1. [job[p] EXCEPT !.stage = "md"].filing = job[p].filing
      BY <1>1 DEF Job
    <3> QED
      BY <2>1, <3>1 DEF WriteJson
  <2>2. CASE WriteMd(p)
    <3>1. [noJob EXCEPT !.stage = "list", !.files = job[p].files].filing = {}
      BY DEF noJob
    <3> QED
      BY <2>2, <3>1 DEF WriteMd
  <2>3. CASE ListArchive(p)
    <3>1. [noJob EXCEPT !.stage = "move", !.moving = ToArchive(job[p].files)].filing = {}
      BY DEF noJob
    <3> QED
      BY <2>3, <3>1 DEF ListArchive
  <2>4. ASSUME NEW e \in job[p].moving, Move(p, e)
        PROVE  \E j : Work(p, j) /\ j.filing \subseteq job[p].filing
    <3>1. [job[p] EXCEPT !.moving = @ \ {e}].filing = job[p].filing
      BY <1>1 DEF Job
    <3> QED
      BY <2>4, <3>1 DEF Move
  <2> QED
    BY <2>1, <2>2, <2>3, <2>4
<1> QED
  BY <1>1, <1>2, <1>3, QuietReportGoesOn

LEMMA NoJobOne ==
    ASSUME IInv, OneInv, NEW p \in Proc, End(p) \/ Die(p)
    PROVE  OneInv'
<1>1. job[p] # noJob
  BY StageIsJob DEF End, Die
<1>2. UNCHANGED <<open, crowded, overlapped>> /\ Work(p, noJob)
  BY DEF End, Die, githubVars
<1>3. noJob.filing = {}
  BY DEF noJob
<1> QED
  BY <1>1, <1>2, <1>3, QuietReportGoesOn

\* What remains when one is taken out of a sequence, and where.
LEMMA RemoveAtIs ==
    ASSUME NEW S, NEW s \in Seq(S), NEW n \in 1..Len(s)
    PROVE  /\ Len(RemoveAt(s, n)) = Len(s) - 1
           /\ DOMAIN RemoveAt(s, n) = 1..(Len(s) - 1)
           /\ \A i \in 1..(Len(s) - 1) :
                 RemoveAt(s, n)[i] = IF i < n THEN s[i] ELSE s[i + 1]
<1> DEFINE a == SubSeq(s, 1, n - 1)
           b == SubSeq(s, n + 1, Len(s))
<1>1. /\ a \in Seq(S) /\ Len(a) = n - 1 /\ \A i \in 1..(n - 1) : a[i] = s[i]
      /\ b \in Seq(S) /\ Len(b) = Len(s) - n
      /\ \A i \in 1..(Len(s) - n) : b[i] = s[n + i]
  OBVIOUS
<1>2. RemoveAt(s, n) = a \o b
  BY DEF RemoveAt
<1> HIDE DEF a, b
<1>3. /\ a \o b \in Seq(S) /\ Len(a \o b) = Len(s) - 1
      /\ \A i \in 1..(Len(s) - 1) : (a \o b)[i] = IF i <= Len(a) THEN a[i] ELSE b[i - Len(a)]
  <2>1. /\ a \o b \in Seq(S) /\ Len(a \o b) = Len(a) + Len(b)
        /\ \A i \in 1..Len(a) + Len(b) : (a \o b)[i] = IF i <= Len(a) THEN a[i] ELSE b[i - Len(a)]
    BY <1>1, ConcatProperties
  <2>2. Len(a) + Len(b) = Len(s) - 1
    BY <1>1
  <2> QED
    BY <2>1, <2>2
<1>4. ASSUME NEW i \in 1..(Len(s) - 1)
      PROVE  (a \o b)[i] = IF i < n THEN s[i] ELSE s[i + 1]
  <2>1. CASE i < n
    BY <1>1, <1>3, <2>1
  <2>2. CASE ~(i < n)
    <3> DEFINE k == i - (n - 1)
    <3>1. k \in 1..(Len(s) - n) /\ n + k = i + 1 /\ ~(i <= n - 1)
      BY <2>2
    <3>2. (a \o b)[i] = b[k]
      BY <1>1, <1>3, <3>1
    <3> HIDE DEF k
    <3>3. b[k] = s[n + k]
      BY <1>1, <3>1
    <3> QED
      BY <2>2, <3>1, <3>2, <3>3
  <2> QED
    BY <2>1, <2>2
<1> QED
  <2>1. DOMAIN (a \o b) = 1..(Len(s) - 1)
    BY <1>3
  <2> QED
    BY <1>2, <1>3, <1>4, <2>1

LEMMA CloseOne ==
    ASSUME IInv, OneInv, Close
    PROVE  OneInv'
<1>1. PICK n \in DOMAIN open : open' = RemoveAt(open, n)
  BY DEF Close
<1>2. UNCHANGED <<crowded, job, overlapped>>
  BY DEF Close
<1>3. open \in Seq(Fingerprint) /\ n \in 1..Len(open) /\ Len(open) \in Nat
  BY DEF IInv, TypeOK
<1>4. /\ Len(open') = Len(open) - 1 /\ DOMAIN open' = 1..(Len(open) - 1)
      /\ \A i \in DOMAIN open' : open'[i] = IF i < n THEN open[i] ELSE open[i + 1]
  BY <1>1, <1>3, RemoveAtIs
<1>5. \A i \in DOMAIN open' : i \in Nat /\ i \in DOMAIN open /\ i + 1 \in DOMAIN open
  BY <1>3, <1>4
<1>6. ~crowded' => Len(open') <= PerPage
  BY <1>2, <1>3, <1>4, ReportAssumption DEF OneInv
<1>7. ASSUME ~overlapped', ~crowded'
      PROVE  /\ \A i, k \in DOMAIN open' : open'[i] = open'[k] => i = k
             /\ \A p \in Proc : \A f \in job'[p].filing : \A i \in DOMAIN open' : open'[i] # f
  <2>1. /\ \A i, k \in DOMAIN open : open[i] = open[k] => i = k
        /\ \A p \in Proc : \A f \in job[p].filing : \A i \in DOMAIN open : open[i] # f
    BY <1>2, <1>7 DEF OneInv
  <2>2. ASSUME NEW i \in DOMAIN open', NEW k \in DOMAIN open', open'[i] = open'[k]
        PROVE  i = k
    <3>1. n \in Nat /\ i \in Nat /\ k \in Nat
      BY <1>3, <1>5
    <3> QED
      BY <1>4, <1>5, <2>1, <2>2, <3>1
  <2> QED
    BY <1>2, <1>4, <1>5, <2>1, <2>2
<1> QED
  BY <1>2, <1>6, <1>7 DEF OneInv

LEMMA OneInvInit == Init => OneInv
<1> SUFFICES ASSUME Init PROVE OneInv
  OBVIOUS
<1>1. Len(open) = 0 /\ DOMAIN open = {} /\ \A p \in Proc : job[p] = noJob
  BY DEF Init
<1> QED
  BY <1>1, ReportAssumption DEF OneInv

LEMMA OneInvNext == IInv /\ OneInv /\ [Next]_vars => OneInv'
<1> SUFFICES ASSUME IInv, OneInv, [Next]_vars PROVE OneInv'
  OBVIOUS
<1>1. CASE Store
  <2>1. UNCHANGED <<open, crowded, job, overlapped>>
    BY <1>1 DEF Store, githubVars
  <2> QED
    BY <2>1 DEF OneInv
<1>2. CASE Close
  BY <1>2, CloseOne
<1>3. ASSUME NEW p \in Proc, Step(p) PROVE OneInv'
  <2>1. CASE Read(p)
    BY <2>1, ReadOne
  <2>2. ASSUME NEW f \in Fingerprint, Judge(p, f) \/ List(p, f) \/ Create(p, f) PROVE OneInv'
    BY <2>2, JudgeOne, ListOne, CreateOne
  <2>3. CASE WriteJson(p) \/ WriteMd(p) \/ ListArchive(p) \/ (\E e \in job[p].moving : Move(p, e))
    BY <2>3, WritingOne
  <2>4. CASE End(p)
    BY <2>4, NoJobOne
  <2> QED
    BY <1>3, <2>1, <2>2, <2>3, <2>4 DEF Step
<1>4. ASSUME NEW p \in Proc, Die(p) PROVE OneInv'
  BY <1>4, NoJobOne
<1>5. CASE UNCHANGED vars
  <2>1. UNCHANGED <<open, crowded, job, overlapped>>
    BY <1>5 DEF vars, githubVars
  <2> QED
    BY <2>1 DEF OneInv
<1> QED
  BY <1>1, <1>2, <1>3, <1>4, <1>5 DEF Next

\* However calls are lost, reports die and people close issues: as long as
\* reports do not overlap and a page holds all open issues, no finding has two.
THEOREM ReportOneOpenIssue == Spec => []OneOpenIssue
<1>1. OneInv => OneOpenIssue
  BY DEF OneInv, OneOpenIssue
<1> QED
  BY InitOK, NextOK, OneInvInit, OneInvNext, <1>1, PTL DEF Spec
=============================================================================
