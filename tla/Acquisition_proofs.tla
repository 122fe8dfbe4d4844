-------------------------- MODULE Acquisition_proofs --------------------------
(***************************************************************************)
(* What the acquisition promises for every application, configuration and  *)
(* number of commands.                                                     *)
(***************************************************************************)
EXTENDS Acquisition, Induction

-------------------------------------------------------------------------------
(* What every state looks like, as far as the proofs below need it.          *)

LoginFields == {"stage", "target", "form", "who", "twoFactor", "ok"}
ExecFields == {"stage", "todo", "act", "step", "shared", "vars", "blocked", "prev", "at", "form",
               "who", "asked", "late", "forced", "findings"}
StructureFields == {"kind", "store", "scan", "units", "emitted", "disturbed"}
BehaviorFields == {"kind", "by", "stage", "store", "collected", "disturbed"}

SessionOK == DOMAIN session = Target
PageOK ==
    /\ page = [at |-> page.at, arriving |-> page.arriving]
    /\ page.arriving = <<>> \/ page.arriving = <<page.arriving[1]>>
CmdOK ==
    \/ cmd = Idle
    \/ cmd.kind = "structure" /\ DOMAIN cmd = StructureFields
    \/ cmd.kind = "behavior" /\ DOMAIN cmd = BehaviorFields
LoginOK ==
    \/ login = NoLogin
    \/ DOMAIN login = LoginFields /\ login.stage # "none" /\ login.target \in Target
       /\ login.form \in Form
ExecOK ==
    \/ exec = NoExec
    \/ DOMAIN exec = ExecFields /\ exec.stage # "none" /\ exec.at \in Target /\ exec.form \in Form

\* A login is under way in its own stages, or while the scenarios wait for it.
LoginHasItsTime ==
    login.stage # "none" =>
        /\ cmd.kind = "behavior"
        /\ cmd.stage \in {"auth", "login"} \/ (cmd.stage = "scenarios" /\ exec.stage = "login")

Shape ==
    /\ version \in DOMAIN App
    /\ SessionOK /\ PageOK /\ CmdOK /\ LoginOK /\ ExecOK /\ LoginHasItsTime

\* From the submitted credentials on, what the application may still answer
\* comes to the one who logs in, or asks for the PIN; and the page is one a
\* login starts or waits on, unless the session is there.
AnswersFit ==
    \A a \in ToSet(page.arriving) :
        IF a.who = Nobody THEN a.url \in ToSet(app.twoFactor)
        ELSE a.who = login.who /\ a.target = login.target

LoggedInOrWaiting ==
    \/ session[login.target] = login.who
    \/ page.at = SignIn[login.target] \/ page.at \in ToSet(app.twoFactor)
    \/ login.twoFactor /\ page.at \in TwoFactorLike

LoginInv ==
    /\ login.stage = "form" => page.arriving = <<>>
    /\ login.stage \in {"submitted", "pin", "pin submitted"} => AnswersFit /\ LoggedInOrWaiting
    /\ login.stage \in {"pin", "pin submitted"} => login.twoFactor
    /\ login.stage = "done" /\ login.ok =>
          /\ AnswersFit
          /\ FormIsKnown(login.target, login.form) /\ PinIsNoticed(login.twoFactor, login.form) =>
                session[login.target] = login.who

-------------------------------------------------------------------------------
(* What Only returns.                                                        *)

\* Only keeps the elements that are in the set, and each as often as it was there.
LEMMA OnlyIs ==
    ASSUME NEW T, NEW seq \in Seq(T), NEW set
    PROVE  /\ Only(seq, set) \in Seq(T)
           /\ ToSet(Only(seq, set)) = ToSet(seq) \cap set
           /\ (\A i, j \in 1..Len(seq) : seq[i] = seq[j] => i = j) =>
                 \A i, j \in 1..Len(Only(seq, set)) :
                     Only(seq, set)[i] = Only(seq, set)[j] => i = j
<1>1. PICK kept : kept = Kept(seq, set)[Len(seq)]
  OBVIOUS
<1>2. Only(seq, set) = kept
  BY <1>1 DEF Only, Kept
<1>3. /\ kept \in Seq(T)
      /\ \A x : (\E i \in 1..Len(kept) : kept[i] = x)
                 <=> (\E i \in 1..Len(seq) : seq[i] = x /\ x \in set)
      /\ (\A i, j \in 1..Len(seq) : seq[i] = seq[j] => i = j) =>
            \A i, j \in 1..Len(kept) : kept[i] = kept[j] => i = j
  BY <1>1, KeptIs
<1>4. ToSet(kept) = ToSet(seq) \cap set
  <2>1. DOMAIN kept = 1..Len(kept) /\ DOMAIN seq = 1..Len(seq)
    BY <1>3
  <2>2. \A x : x \in ToSet(kept) <=> \E i \in 1..Len(kept) : kept[i] = x
    BY <2>1 DEF ToSet
  <2>3. \A x : x \in ToSet(seq) <=> \E i \in 1..Len(seq) : seq[i] = x
    BY <2>1 DEF ToSet
  <2> QED
    BY <1>3, <2>2, <2>3
<1> QED
  BY <1>2, <1>3, <1>4

-------------------------------------------------------------------------------
(* The browser.                                                              *)

LEMMA AnswerIsOne ==
  ASSUME NEW t, NEW who
  PROVE  /\ Answer(t, who) = <<>> \/ Answer(t, who) = <<Answer(t, who)[1]>>
         /\ Welcome(t, who) = <<>> \/ Welcome(t, who) = <<Welcome(t, who)[1]>>
  BY DEF Answer, Welcome

LEMMA GotoOK ==
  ASSUME SessionOK, NEW url, Goto(url)
  PROVE  /\ SessionOK' /\ PageOK' /\ page'.arriving = <<>>
         /\ page' = [at |-> page'.at, arriving |-> <<>>]
<1>1. PICK who \in Granted(page.arriving) :
        /\ page' = [at |-> Lands(url, who), arriving |-> <<>>]
        /\ session' = SessionAfter(Lands(url, who), who)
  BY DEF Goto
<1>2. DOMAIN who = Target
  BY <1>1 DEF Granted, SessionOK
<1>3. DOMAIN session' = Target
  BY <1>1, <1>2 DEF SessionAfter
<1> QED
  BY <1>1, <1>3 DEF SessionOK, PageOK

LEMMA OpenPageOK ==
  ASSUME NEW cookies, DOMAIN cookies = Target, OpenPage(cookies)
  PROVE  SessionOK' /\ PageOK' /\ page'.arriving = <<>>
  BY DEF OpenPage, SessionOK, PageOK, NoPage

LEMMA LoggedOutOK == DOMAIN LoggedOut = Target
  BY DEF LoggedOut

LEMMA ArrivesOK ==
  ASSUME SessionOK, PageOK, AppArrives
  PROVE  SessionOK' /\ PageOK' /\ page'.arriving = <<>> /\ UNCHANGED version
  BY DEF AppArrives, SessionOK, PageOK

LEMMA CrawlKeeps ==
  ASSUME SessionOK, PageOK, NEW user, CrawlStep(user)
  PROVE  SessionOK' /\ PageOK' /\ UNCHANGED version
<1>1. CASE CrawlLogin(user)
  BY <1>1, AnswerIsOne DEF CrawlLogin, SessionOK, PageOK
<1>2. CASE CaptureBase
  BY <1>2, GotoOK DEF CaptureBase, SessionOK, PageOK
<1>3. CASE FollowScenario
  BY <1>3, GotoOK DEF FollowScenario, SessionOK, PageOK
<1>4. CASE StartDiscovery \/ EndClicks \/ EndDiscovery
  BY <1>4 DEF StartDiscovery, EndClicks, EndDiscovery, webVars, SessionOK, PageOK
<1>5. CASE VisitNext
  <2>1. UNCHANGED <<page, session>> \/ \E url : Goto(url)
    BY <1>5 DEF VisitNext
  <2> QED
    BY <1>5, <2>1, GotoOK DEF VisitNext, SessionOK, PageOK
<1>6. CASE ClickNext
  <2>1. \/ UNCHANGED <<page, session>>
        \/ UNCHANGED session /\ \E u : page' = [at |-> u, arriving |-> <<>>]
        \/ \E u : page' = [at |-> u, arriving |-> <<>>] /\ session' = SessionAfter(u, session)
    BY <1>6 DEF ClickNext
  <2>2. SessionOK'
    BY <2>1 DEF SessionOK, SessionAfter
  <2>3. PageOK'
    BY <2>1 DEF PageOK
  <2> QED
    BY <1>6, <2>2, <2>3 DEF ClickNext
<1> QED
  BY <1>1, <1>2, <1>3, <1>4, <1>5, <1>6 DEF CrawlStep

-------------------------------------------------------------------------------
(* The shape of the state.                                                   *)

LEMMA ExecRecords ==
  ASSUME ExecOK, exec.stage # "none"
  PROVE  /\ DOMAIN exec = ExecFields /\ exec.at \in Target /\ exec.form \in Form
         /\ \A asked : LET e == Ready(exec, asked)
                       IN DOMAIN e = ExecFields /\ e.stage = "steps" /\ e.at = exec.at /\ e.form = exec.form
         /\ \A ok : LET e == Report(exec, ok)
                    IN DOMAIN e = ExecFields /\ e.stage = "next" /\ e.at = exec.at /\ e.form = exec.form
<1>1. DOMAIN exec = ExecFields /\ exec.at \in Target /\ exec.form \in Form
  BY DEF ExecOK, NoExec
<1> QED
  BY <1>1 DEF ExecFields, Ready, Report

\* What is configured for a target is a form.
LEMMA FormsAre == \A t \in Target : PathForm[t] \in Form /\ UrlForm[t] \in Form
  BY WebAssumption

LEMMA ScenarioKeeps ==
  ASSUME Shape, ScenarioStep, cmd.kind = "behavior", cmd.stage = "scenarios", UNCHANGED cmd
  PROVE  Shape' /\ UNCHANGED version
<1> USE TargetAssumption, FormsAre
<1>e. ExecOK /\ SessionOK /\ PageOK /\ CmdOK /\ LoginOK /\ LoginHasItsTime
  BY DEF Shape
<1>1. CASE TakeScenario
  <2>1. exec.stage = "next" /\ UNCHANGED <<version, login>> /\ login.stage = "none"
    BY <1>1, <1>e DEF TakeScenario, LoginHasItsTime
  <2>2. DOMAIN exec = ExecFields /\ exec.at \in Target /\ exec.form \in Form
    BY <2>1, <1>e, ExecRecords
  <2>3. UNCHANGED <<page, session>> \/ ClearCookies
    BY <1>1 DEF TakeScenario
  <2>4. SessionOK' /\ PageOK'
    BY <2>3, <1>e, LoggedOutOK DEF ClearCookies, SessionOK, PageOK
  <2>5. DOMAIN exec' = ExecFields /\ exec'.at \in Target /\ exec'.form \in Form /\ exec'.stage # "none"
    BY <1>1, <2>2, <2>1 DEF TakeScenario, ExecFields, Ready
  <2> QED
    BY <2>1, <2>4, <2>5, <1>e DEF Shape, ExecOK, LoginOK, LoginHasItsTime, CmdOK
<1>2. CASE BeginAct
  <2>1. exec.stage = "act" /\ UNCHANGED <<version, login>> /\ login.stage = "none"
    BY <1>2, <1>e DEF BeginAct, LoginHasItsTime
  <2>2. DOMAIN exec = ExecFields /\ exec.at \in Target /\ exec.form \in Form
    BY <2>1, <1>e, ExecRecords
  <2>3. UNCHANGED <<page, session>> \/ ClearCookies
    BY <1>2 DEF BeginAct
  <2>4. SessionOK' /\ PageOK'
    BY <2>3, <1>e, LoggedOutOK DEF ClearCookies, SessionOK, PageOK
  <2>5. DOMAIN exec' = ExecFields /\ exec'.at \in Target /\ exec'.form \in Form /\ exec'.stage # "none"
    <3> DEFINE persona == PersonaOf(Current.acts[exec.act])
               target  == IF persona.target = None THEN RunTarget ELSE persona.target
               form    == IF persona.target = None THEN PathForm[RunTarget] ELSE UrlForm[target]
               here    == [exec EXCEPT !.at = target,
                              !.who = IF persona.cred = None THEN config.creds[target] ELSE persona.cred,
                              !.form = IF persona.target = None THEN PathForm[RunTarget] ELSE UrlForm[target],
                              !.forced = exec.act > 1 /\ exec.prev.target = target
                                         /\ exec.prev.persona # persona.name,
                              !.late = page.arriving # <<>>,
                              !.prev = [persona |-> persona.name, target |-> target]]
               Good(e) == DOMAIN e = ExecFields /\ e.at \in Target /\ e.form \in Form
    <3>1. \/ exec' = Report(exec, FALSE)
          \/ /\ target \in Configured \/ persona.target = None
             /\ exec' = [here EXCEPT !.stage = "probe"] \/ exec' = Ready(here, "unauthenticated")
      BY <1>2 DEF BeginAct
    <3>2. ASSUME target \in Configured \/ persona.target = None PROVE Good(here)
      <4>1. target \in Target /\ form \in Form
        BY <3>2
      <4>2. DOMAIN here = ExecFields /\ here.at = target /\ here.form = form
        BY <2>2 DEF ExecFields
      <4> HIDE DEF here, target, form
      <4> QED
        BY <4>1, <4>2
    <3>3. ASSUME NEW h, Good(h)
          PROVE  /\ Good([h EXCEPT !.stage = "probe"]) /\ [h EXCEPT !.stage = "probe"].stage = "probe"
                 /\ Good(Ready(h, "unauthenticated")) /\ Ready(h, "unauthenticated").stage = "steps"
      BY <3>3 DEF ExecFields, Ready
    <3> HIDE DEF here, target
    <3>4. CASE exec' = Report(exec, FALSE)
      BY <2>1, <2>2, <3>4, <1>e, ExecRecords
    <3> QED
      BY <3>1, <3>2, <3>3, <3>4
  <2> QED
    BY <2>1, <2>4, <2>5, <1>e DEF Shape, ExecOK, LoginOK, LoginHasItsTime, CmdOK
<1>3. CASE Probe
  <2>1. exec.stage = "probe" /\ UNCHANGED version /\ login.stage = "none"
    BY <1>3, <1>e DEF Probe, LoginHasItsTime
  <2>2. DOMAIN exec = ExecFields /\ exec.at \in Target /\ exec.form \in Form
    BY <2>1, <1>e, ExecRecords
  <2>3. UNCHANGED <<page, session>> \/ Goto(FirstNav(Steps, exec.at))
    BY <1>3 DEF Probe
  <2>4. SessionOK' /\ PageOK'
    BY <2>3, <1>e, GotoOK DEF SessionOK, PageOK
  <2>5. DOMAIN exec' = ExecFields /\ exec'.at \in Target /\ exec'.form \in Form /\ exec'.stage # "none"
    BY <1>3, <2>2, <2>1, <1>e, ExecRecords DEF Probe, ExecFields, Ready
  <2>6. \/ UNCHANGED login
        \/ login' = newLogin(exec.at, exec.form, exec.who, config.twoFactor) /\ exec'.stage = "login"
    BY <1>3, <2>2 DEF Probe, ExecFields
  <2>7. LoginOK' /\ LoginHasItsTime'
    BY <2>1, <2>2, <2>6, <1>e DEF LoginOK, LoginHasItsTime, newLogin, LoginFields, NoLogin
  <2> QED
    BY <2>1, <2>4, <2>5, <2>7, <1>e DEF Shape, ExecOK, CmdOK
<1>4. CASE LoggedIn
  <2>1. exec.stage = "login" /\ UNCHANGED <<version, page, session>> /\ login' = NoLogin
    BY <1>4 DEF LoggedIn, webVars
  <2>2. DOMAIN exec = ExecFields /\ exec.at \in Target /\ exec.form \in Form
    BY <2>1, <1>e, ExecRecords
  <2>5. DOMAIN exec' = ExecFields /\ exec'.at \in Target /\ exec'.form \in Form /\ exec'.stage # "none"
    BY <1>4, <2>2, <2>1, <1>e, ExecRecords DEF LoggedIn, ExecFields, Ready
  <2> QED
    BY <2>1, <2>5, <1>e DEF Shape, ExecOK, LoginOK, LoginHasItsTime, CmdOK, SessionOK, PageOK, NoLogin
<1>5. CASE RunStep
  <2>1. exec.stage = "steps" /\ UNCHANGED <<version, login>> /\ login.stage = "none"
    BY <1>5, <1>e DEF RunStep, LoginHasItsTime
  <2>2. DOMAIN exec = ExecFields /\ exec.at \in Target /\ exec.form \in Form
    BY <2>1, <1>e, ExecRecords
  <2>3. UNCHANGED <<page, session>> \/ \E url : Goto(url)
    BY <1>5 DEF RunStep
  <2>4. SessionOK' /\ PageOK'
    BY <2>3, <1>e, GotoOK DEF SessionOK, PageOK
  <2>5. DOMAIN exec' = ExecFields /\ exec'.at \in Target /\ exec'.form \in Form /\ exec'.stage # "none"
    BY <1>5, <2>2, <2>1, <1>e, ExecRecords DEF RunStep, ExecFields, Binds
  <2> QED
    BY <2>1, <2>4, <2>5, <1>e DEF Shape, ExecOK, LoginOK, LoginHasItsTime, CmdOK
<1>6. CASE StepsOver
  <2>1. exec.stage = "steps" /\ UNCHANGED <<version, login, page, session>> /\ login.stage = "none"
    BY <1>6, <1>e DEF StepsOver, LoginHasItsTime, webVars
  <2>2. DOMAIN exec = ExecFields /\ exec.at \in Target /\ exec.form \in Form
    BY <2>1, <1>e, ExecRecords
  <2>5. DOMAIN exec' = ExecFields /\ exec'.at \in Target /\ exec'.form \in Form /\ exec'.stage # "none"
    BY <1>6, <2>2, <2>1, <1>e, ExecRecords DEF StepsOver, ExecFields
  <2> QED
    BY <2>1, <2>5, <1>e DEF Shape, ExecOK, LoginOK, LoginHasItsTime, CmdOK, SessionOK, PageOK
<1> QED
  BY <1>1, <1>2, <1>3, <1>4, <1>5, <1>6 DEF ScenarioStep

LEMMA LoginKeeps ==
  ASSUME Shape, LoginStep, cmd.kind = "behavior", UNCHANGED <<cmd, exec>>
  PROVE  Shape' /\ UNCHANGED version
<1>e. ExecOK /\ SessionOK /\ PageOK /\ CmdOK /\ LoginOK /\ LoginHasItsTime
  BY DEF Shape
<1>0. login.stage \in {"open", "form", "submitted", "pin", "pin submitted"}
  BY DEF LoginStep, LoginOpens, LoginSubmits, LoginJudges, PinSubmits, PinJudges
<1>1. login.stage # "none" /\ DOMAIN login = LoginFields /\ login.target \in Target /\ login.form \in Form
  <2>1. login # NoLogin
    <3>1. NoLogin.stage = "none"
      BY DEF NoLogin
    <3> QED
      BY <1>0, <3>1
  <2> QED
    BY <2>1, <1>e DEF LoginOK
<1>2. UNCHANGED version
  BY DEF LoginStep, LoginOpens, LoginSubmits, LoginJudges, PinSubmits, PinJudges
<1>3. SessionOK' /\ PageOK'
  <2>1. \/ UNCHANGED <<page, session>>
        \/ Goto(login.form.url)
        \/ /\ UNCHANGED session
           /\ \/ page' = [page EXCEPT !.arriving = Answer(login.target, login.who)]
              \/ page' = [page EXCEPT !.arriving = Welcome(login.target, login.who)]
    BY DEF LoginStep, LoginOpens, LoginSubmits, LoginJudges, PinSubmits, PinJudges
  <2> QED
    BY <2>1, <1>e, GotoOK, AnswerIsOne DEF SessionOK, PageOK
<1>4. /\ DOMAIN login' = LoginFields /\ login'.stage # "none" /\ login'.target \in Target
      /\ login'.form \in Form
  BY <1>1 DEF LoginStep, LoginOpens, LoginSubmits, LoginJudges, PinSubmits, PinJudges,
              LoginFields, Judged
<1> QED
  BY <1>e, <1>1, <1>2, <1>3, <1>4 DEF Shape, LoginOK, LoginHasItsTime, ExecOK, CmdOK

\* A command that is not at the browser, and what happens beside it.
Elsewhere ==
    \/ Edit \/ Tick
    \/ \E force \in BOOLEAN, units \in {AllUnits, Unit} : AnalyzeStructure(force, units)
    \/ SkipStructure \/ PhaseStructure \/ EmitAnalysis \/ RecordAnalysis \/ SkipBehavior
    \/ Emit \/ RecordBehavior \/ ClearStructure \/ ClearBehavior

LEMMA ElsewhereKeeps ==
  ASSUME Shape, Elsewhere
  PROVE  /\ Shape' /\ login.stage = "none" /\ UNCHANGED <<page, session, login, exec>>
         /\ UNCHANGED version \/ Edit
<1>e. ExecOK /\ SessionOK /\ PageOK /\ CmdOK /\ LoginOK /\ LoginHasItsTime
  BY DEF Shape
<1>1. UNCHANGED <<page, session, login, exec>> /\ (UNCHANGED version \/ Edit)
      /\ (Edit => version' \in DOMAIN App)
  BY DEF Elsewhere, Tick, AnalyzeStructure, SkipStructure, PhaseStructure, Edit, EmitAnalysis,
         RecordAnalysis, SkipBehavior, Emit, RecordBehavior, ClearStructure, ClearBehavior,
         browserVars, worldVars
<1>2. login.stage = "none"
  BY <1>e DEF Elsewhere, Edit, Tick, AnalyzeStructure, SkipStructure, PhaseStructure, EmitAnalysis,
         RecordAnalysis, SkipBehavior, Emit, RecordBehavior, ClearStructure, ClearBehavior, Started,
         In, Apart, LoginHasItsTime
<1>3. CmdOK'
  <2>1. CASE Edit \/ Tick \/ SkipStructure \/ SkipBehavior \/ RecordAnalysis \/ RecordBehavior
    BY <2>1, <1>e DEF Edit, Tick, SkipStructure, SkipBehavior, RecordAnalysis, RecordBehavior,
                      Started, CmdOK, Idle
  <2>2. ASSUME NEW force \in BOOLEAN, NEW units, AnalyzeStructure(force, units) PROVE CmdOK'
    BY <2>2 DEF AnalyzeStructure, Started, CmdOK, StructureFields
  <2>3. CASE PhaseStructure
    BY <2>3 DEF PhaseStructure, Started, CmdOK, StructureFields
  <2>4. CASE EmitAnalysis
    BY <2>4, <1>e DEF EmitAnalysis, CmdOK, StructureFields, Idle
  <2>5. CASE Emit
    BY <2>5, <1>e DEF Emit, In, CmdOK, BehaviorFields, Idle
  <2>6. CASE ClearStructure \/ ClearBehavior
    BY <2>6, <1>e DEF ClearStructure, ClearBehavior, Disturb, CmdOK, BehaviorFields,
                      StructureFields, Idle
  <2> QED
    BY <2>1, <2>2, <2>3, <2>4, <2>5, <2>6 DEF Elsewhere
<1>4. version' \in DOMAIN App
  BY <1>1 DEF Shape
<1> QED
  BY <1>1, <1>2, <1>3, <1>4, <1>e DEF Shape, SessionOK, PageOK, LoginOK, ExecOK, LoginHasItsTime

\* A behavior run passes from one stage to the next, starts or dies.
Passes ==
    \/ \E force \in BOOLEAN : AnalyzeBehavior(force)
    \/ PhaseBehavior \/ RunCli("cli", TRUE)
    \/ SharedContext \/ Collected \/ LoginTested \/ ScenariosTested \/ Crash

LEMMA PassesKeeps ==
  ASSUME Shape, Passes
  PROVE  /\ Shape' /\ UNCHANGED version
         /\ login' = NoLogin \/ login'.stage = "open"
<1> USE TargetAssumption, FormsAre
<1>e. ExecOK /\ SessionOK /\ PageOK /\ CmdOK /\ LoginOK /\ LoginHasItsTime
  BY DEF Shape
<1>n. ASSUME NEW form \in Form, NEW who, NEW two, login' = newLogin(RunTarget, form, who, two)
      PROVE  LoginOK' /\ login'.stage = "open"
  BY <1>n DEF newLogin, LoginOK, LoginFields
<1>i. ASSUME login' = NoLogin PROVE LoginOK' /\ LoginHasItsTime'
  BY <1>i DEF NoLogin, LoginOK, LoginHasItsTime
<1>1. ASSUME NEW by, NEW explore \in BOOLEAN, RunCli(by, explore)
      PROVE  Shape' /\ UNCHANGED version /\ (login' = NoLogin \/ login'.stage = "open")
  <2>1. SessionOK' /\ PageOK' /\ UNCHANGED <<version, exec>>
    BY <1>1, OpenPageOK, LoggedOutOK DEF RunCli
  <2>2. /\ CmdOK' /\ cmd'.kind = "behavior" /\ cmd'.stage = IF explore THEN "auth" ELSE "collect"
        /\ cmd.kind = "idle"
    BY <1>1 DEF RunCli, Started, CmdOK, BehaviorFields
  <2>3. login = NoLogin
    BY <2>2, <1>e DEF LoginHasItsTime, LoginOK, NoLogin
  <2>4. CASE explore
    BY <2>1, <2>2, <2>4, <1>1, <1>n, <1>e DEF RunCli, Shape, ExecOK, LoginHasItsTime
  <2>5. CASE ~explore
    BY <2>1, <2>2, <2>3, <2>5, <1>1, <1>i, <1>e DEF RunCli, Shape, ExecOK
  <2> QED
    BY <2>4, <2>5
<1>2. CASE SharedContext
  <2>1. SessionOK' /\ PageOK' /\ UNCHANGED <<version, exec>> /\ login' = NoLogin
    BY <1>2, <1>e, OpenPageOK DEF SharedContext, SessionOK, worldVars
  <2>2. CmdOK'
    BY <1>2, <1>e DEF SharedContext, In, Enters, CmdOK, Idle, BehaviorFields
  <2> QED
    BY <2>1, <2>2, <1>i, <1>e DEF Shape, ExecOK
<1>3. CASE Collected
  <2>1. SessionOK' /\ PageOK' /\ UNCHANGED <<version, exec>>
    BY <1>3, OpenPageOK, LoggedOutOK DEF Collected, worldVars
  <2>2. CmdOK' /\ cmd'.kind = "behavior" /\ cmd'.stage = "login"
    BY <1>3, <1>e DEF Collected, In, CmdOK, Idle, BehaviorFields
  <2>3. \/ login' = NoLogin
        \/ login' = newLogin(RunTarget, PathForm[RunTarget], config.creds[RunTarget], config.twoFactor)
    BY <1>3 DEF Collected
  <2> QED
    BY <2>1, <2>2, <2>3, <1>i, <1>n, <1>e DEF Shape, ExecOK, LoginHasItsTime
<1>4. CASE LoginTested
  <2>1. SessionOK' /\ PageOK' /\ UNCHANGED version /\ login' = NoLogin
    BY <1>4, OpenPageOK, LoggedOutOK DEF LoginTested, worldVars
  <2>2. CmdOK'
    BY <1>4, <1>e DEF LoginTested, In, Enters, CmdOK, Idle, BehaviorFields
  <2>3. ExecOK'
    BY <1>4 DEF LoginTested, newExec, ExecOK, ExecFields
  <2> QED
    BY <2>1, <2>2, <2>3, <1>i DEF Shape
<1>5. CASE ScenariosTested
  <2>1. SessionOK' /\ PageOK' /\ UNCHANGED <<version, login>> /\ exec' = NoExec
    BY <1>5, OpenPageOK, LoggedOutOK DEF ScenariosTested, worldVars
  <2>2. CmdOK'
    BY <1>5, <1>e DEF ScenariosTested, In, Enters, CmdOK, Idle, BehaviorFields
  <2>3. login = NoLogin
    BY <1>5, <1>e DEF ScenariosTested, ScenariosOver, In, LoginHasItsTime, LoginOK
  <2> QED
    BY <2>1, <2>2, <2>3, <1>i DEF Shape, ExecOK
<1>6. CASE Crash
  <2>1. SessionOK' /\ PageOK' /\ UNCHANGED version /\ login' = NoLogin /\ exec' = NoExec /\ CmdOK'
    BY <1>6, OpenPageOK, LoggedOutOK DEF Crash, worldVars, CmdOK
  <2> QED
    BY <2>1, <1>i DEF Shape, ExecOK
<1> QED
  BY <1>1, <1>2, <1>3, <1>4, <1>5, <1>6 DEF Passes, AnalyzeBehavior, PhaseBehavior

LEMMA NextParts == Next => Elsewhere \/ Passes \/ BrowserStep
  BY DEF Next, Elsewhere, Passes


LEMMA ShapeStays ==
  ASSUME Shape, UNCHANGED vars
  PROVE  Shape'
  BY DEF vars, browserVars, worldVars, Shape, SessionOK, PageOK, CmdOK, LoginOK, ExecOK, LoginHasItsTime

LEMMA BrowserKeeps ==
  ASSUME Shape, BrowserStep
  PROVE  Shape' /\ UNCHANGED version
<1>1. cmd.kind = "behavior" /\ UNCHANGED cmd
  BY DEF BrowserStep
<1>2. CASE cmd.stage = "collect" /\ CrawlStep(config.creds[RunTarget]) /\ UNCHANGED <<login, exec, config>>
  BY <1>1, <1>2, CrawlKeeps DEF Shape, CmdOK, LoginOK, ExecOK, LoginHasItsTime
<1>3. CASE LoginStep /\ UNCHANGED <<crawl, exec, config>>
  BY <1>1, <1>3, LoginKeeps
<1>4. CASE cmd.stage = "scenarios" /\ ScenarioStep
  BY <1>1, <1>4, ScenarioKeeps
<1>5. CASE AppArrives /\ UNCHANGED <<crawl, login, exec, config>>
  BY <1>1, <1>5, ArrivesOK DEF Shape, CmdOK, LoginOK, ExecOK, LoginHasItsTime
<1> QED
  BY <1>2, <1>3, <1>4, <1>5 DEF BrowserStep

LEMMA ShapeHolds == Spec => []Shape
<1>1. Init => Shape
  <2> SUFFICES ASSUME Init PROVE Shape
    OBVIOUS
  <2>1. SessionOK /\ PageOK
    BY LoggedOutOK DEF Init, SessionOK, PageOK, NoPage
  <2> QED
    BY <2>1, WebAssumption DEF Init, Shape, CmdOK, LoginOK, ExecOK, LoginHasItsTime, NoLogin
<1>2. Shape /\ [Next]_vars => Shape'
  <2> SUFFICES ASSUME Shape, [Next]_vars PROVE Shape'
    OBVIOUS
  <2> QED
    BY NextParts, BrowserKeeps, ElsewhereKeeps, PassesKeeps, ShapeStays
<1> QED
  BY <1>1, <1>2, PTL DEF Spec

-------------------------------------------------------------------------------
(* The verdict of a login.                                                   *)

LEMMA AnswerCases ==
  ASSUME NEW t, NEW who
  PROVE  /\ \/ Welcome(t, who) = <<>>
            \/ who \in app.users /\ Welcome(t, who) = <<[url |-> HomeUrl[t], target |-> t, who |-> who]>>
         /\ \/ Answer(t, who) = Welcome(t, who)
            \/ /\ app.twoFactor # <<>>
               /\ Answer(t, who) = <<[url |-> app.twoFactor[1], target |-> t, who |-> Nobody]>>
  BY DEF Answer, Welcome

LEMMA ToSetOfOne == ToSet(<<>>) = {} /\ \A x, s : s = <<x>> => ToSet(s) = {x}
  BY DEF ToSet

LEMMA PinPage ==
  ASSUME version \in DOMAIN App
  PROVE  /\ Nobody \notin app.users
         /\ app.twoFactor # <<>> => app.twoFactor[1] \in ToSet(app.twoFactor)
<1>1. Nobody \notin app.users
  BY WebAssumption DEF app
<1>2. ASSUME app.twoFactor # <<>> PROVE app.twoFactor[1] \in ToSet(app.twoFactor)
  <2>1. PICK url : app.twoFactor = <<url>>
    BY <1>2, WebAssumption DEF app
  <2> QED
    BY <2>1, ToSetOfOne
<1> QED
  BY <1>1, <1>2

\* What the application answers fits.
LEMMA AnswerFits ==
  ASSUME login'.who = login.who, login'.target = login.target,
         UNCHANGED version, version \in DOMAIN App,
         \/ page'.arriving = Answer(login.target, login.who)
         \/ page'.arriving = Welcome(login.target, login.who)
  PROVE  AnswersFit'
<1>1. app' = app
  BY DEF app
<1>2. CASE page'.arriving = <<>>
  BY <1>2, ToSetOfOne DEF AnswersFit
<1>3. CASE /\ login.who \in app.users
           /\ page'.arriving = <<[url |-> HomeUrl[login.target], target |-> login.target,
                                 who |-> login.who]>>
  <2>1. ToSet(page'.arriving) = {[url |-> HomeUrl[login.target], target |-> login.target,
                                 who |-> login.who]}
    BY <1>3, ToSetOfOne
  <2> QED
    BY <1>3, <2>1, PinPage DEF AnswersFit
<1>4. CASE /\ app.twoFactor # <<>>
           /\ page'.arriving = <<[url |-> app.twoFactor[1], target |-> login.target, who |-> Nobody]>>
  <2>1. ToSet(page'.arriving) = {[url |-> app.twoFactor[1], target |-> login.target, who |-> Nobody]}
    BY <1>4, ToSetOfOne
  <2> QED
    BY <1>1, <1>4, <2>1, PinPage DEF AnswersFit
<1> QED
  BY <1>2, <1>3, <1>4, AnswerCases, Zenon

\* An answer that fits leaves a session that fits.
LEMMA ArrivalFits ==
  ASSUME AppArrives, UNCHANGED login, AnswersFit, SessionOK, PageOK, login.target \in Target
  PROVE  /\ AnswersFit' /\ LoggedInOrWaiting'
         /\ session[login.target] = login.who => session'[login.target] = login.who
<1> DEFINE answer == page.arriving[1]
<1>1. /\ page.arriving # <<>> /\ page' = [at |-> answer.url, arriving |-> <<>>] /\ UNCHANGED version
      /\ session' = IF answer.who = Nobody THEN session
                    ELSE [session EXCEPT ![answer.target] = answer.who]
  BY DEF AppArrives
<1>2. answer \in ToSet(page.arriving)
  <2>1. page.arriving = <<answer>>
    BY <1>1 DEF PageOK
  <2> QED
    BY <2>1, ToSetOfOne
<1>3. IF answer.who = Nobody THEN answer.url \in ToSet(app.twoFactor)
      ELSE answer.who = login.who /\ answer.target = login.target
  BY <1>2 DEF AnswersFit
<1> HIDE DEF answer
<1>4. AnswersFit'
  BY <1>1 DEF AnswersFit, ToSet
<1>5. CASE answer.who = Nobody
  BY <1>1, <1>3, <1>4, <1>5 DEF LoggedInOrWaiting, app
<1>6. CASE answer.who # Nobody
  <2>1. session'[login.target] = login.who
    BY <1>1, <1>3, <1>6 DEF SessionOK
  <2> QED
    BY <1>4, <2>1 DEF LoggedInOrWaiting
<1> QED
  BY <1>5, <1>6

LEMMA LoginStepFits ==
  ASSUME Shape, LoginInv, LoginStep, UNCHANGED <<cmd, exec>>, cmd.kind = "behavior"
  PROVE  LoginInv'
<1>0. /\ SessionOK /\ PageOK /\ LoginOK /\ version \in DOMAIN App /\ UNCHANGED version
  BY LoginKeeps DEF Shape
<1>1. app' = app
  BY <1>0 DEF app
<1>2. /\ PinIsNoticed(login.twoFactor, login.form) <=>
            ToSet(app.twoFactor) \subseteq login.form.path \cup (IF login.twoFactor THEN TwoFactorLike ELSE {})
      /\ FormIsKnown(login.target, login.form) <=> SignIn[login.target] \in login.form.path
  BY DEF PinIsNoticed, FormIsKnown
<1>3. login.stage \in {"open", "form", "submitted", "pin", "pin submitted"}
  BY DEF LoginStep, LoginOpens, LoginSubmits, LoginJudges, PinSubmits, PinJudges
<1>4. DOMAIN login = LoginFields /\ login.target \in Target
  <2>1. NoLogin.stage = "none"
    BY DEF NoLogin
  <2> QED
    BY <1>0, <1>3, <2>1 DEF LoginOK
<1>j. ASSUME NEW ok, Judged(ok)
      PROVE  /\ login'.stage = "done" /\ login'.ok = ok /\ login'.who = login.who
             /\ login'.target = login.target /\ login'.form = login.form
             /\ login'.twoFactor = login.twoFactor
             /\ (PinIsNoticed(login.twoFactor, login.form)' <=> PinIsNoticed(login.twoFactor, login.form))
  BY <1>1, <1>4, <1>j DEF Judged, LoginFields, PinIsNoticed
<1>f. ASSUME Judged(FALSE) PROVE LoginInv'
  BY <1>f, <1>j DEF LoginInv
<1>5. CASE LoginOpens
  <2>1. CASE Judged(FALSE)
    BY <2>1, <1>f
  <2>2. CASE Goto(login.form.url) /\ login' = [login EXCEPT !.stage = "form"]
    <3>1. page'.arriving = <<>> /\ login'.stage = "form"
      BY <1>0, <1>4, <2>2, GotoOK DEF LoginFields
    <3> QED
      BY <3>1 DEF LoginInv
  <2> QED
    BY <1>5, <2>1, <2>2 DEF LoginOpens
<1>6. CASE LoginSubmits
  <2>1. CASE Judged(FALSE)
    BY <2>1, <1>f
  <2>2. CASE /\ page.at = SignIn[login.target] /\ login' = [login EXCEPT !.stage = "submitted"]
             /\ \/ page' = [page EXCEPT !.arriving = Answer(login.target, login.who)]
                \/ UNCHANGED page
    <3>1. login'.stage = "submitted" /\ login'.who = login.who /\ login'.target = login.target
      BY <1>4, <2>2 DEF LoginFields
    <3>2. page'.at = page.at /\ login.stage = "form"
      BY <1>0, <1>6, <2>2 DEF PageOK, LoginSubmits
    <3>3. LoggedInOrWaiting'
      BY <2>2, <3>1, <3>2 DEF LoggedInOrWaiting
    <3>4. AnswersFit'
      <4>1. CASE page' = [page EXCEPT !.arriving = Answer(login.target, login.who)]
        <5>1. page'.arriving = Answer(login.target, login.who)
          BY <1>0, <4>1 DEF PageOK
        <5> QED
          BY <5>1, <3>1, <1>0, AnswerFits
      <4>2. CASE UNCHANGED page
        <5>1. page'.arriving = <<>>
          BY <3>2, <4>2 DEF LoginInv
        <5> QED
          BY <5>1, ToSetOfOne DEF AnswersFit
      <4> QED
        BY <2>2, <4>1, <4>2
    <3> QED
      BY <3>1, <3>3, <3>4 DEF LoginInv
  <2> QED
    BY <1>6, <2>1, <2>2 DEF LoginSubmits
<1>7. CASE LoginJudges
  <2>0. login.stage = "submitted" /\ UNCHANGED <<page, session>> /\ AnswersFit /\ LoggedInOrWaiting
    BY <1>7 DEF LoginJudges, LoginInv
  <2>1. CASE login.twoFactor /\ login' = [login EXCEPT !.stage = "pin"]
    <3>1. /\ login'.stage = "pin" /\ login'.who = login.who /\ login'.target = login.target
          /\ login'.twoFactor = login.twoFactor
      BY <1>4, <2>1 DEF LoginFields
    <3>2. AnswersFit' /\ LoggedInOrWaiting'
      BY <1>1, <2>0, <3>1 DEF AnswersFit, LoggedInOrWaiting
    <3> QED
      BY <2>1, <3>1, <3>2 DEF LoginInv
  <2>2. CASE ~AwaitsPin(page.at) /\ Judged(page.at \notin login.form.path)
    <3>1. AnswersFit'
      BY <1>1, <2>0, <2>2, <1>j DEF AnswersFit
    <3>2. ASSUME page.at \notin login.form.path, FormIsKnown(login.target, login.form),
                 PinIsNoticed(login.twoFactor, login.form)
          PROVE  session'[login'.target] = login'.who
      <4>1. \/ session[login.target] = login.who
            \/ page.at \in ToSet(app.twoFactor)
        BY <1>2, <2>0, <2>2, <3>2 DEF LoggedInOrWaiting, AwaitsPin
      <4>2. page.at \notin ToSet(app.twoFactor)
        BY <1>2, <2>2, <3>2 DEF AwaitsPin
      <4> QED
        BY <4>1, <4>2, <2>0, <2>2, <1>j
    <3> QED
      BY <3>1, <3>2, <2>2, <1>j DEF LoginInv, FormIsKnown
  <2> QED
    BY <1>7, <2>1, <2>2 DEF LoginJudges, AwaitsPin
<1>8. CASE PinSubmits
  <2>1. CASE Judged(FALSE)
    BY <2>1, <1>f
  <2>2. CASE /\ page' = [page EXCEPT !.arriving = Welcome(login.target, login.who)]
             /\ login' = [login EXCEPT !.stage = "pin submitted"]
    <3>1. /\ login'.stage = "pin submitted" /\ login'.who = login.who
          /\ login'.target = login.target /\ login'.twoFactor = login.twoFactor
      BY <1>4, <2>2 DEF LoginFields
    <3>2. login.stage = "pin" /\ UNCHANGED session
      BY <1>8 DEF PinSubmits
    <3>3. page'.at = page.at /\ page'.arriving = Welcome(login.target, login.who)
      BY <1>0, <2>2 DEF PageOK
    <3>4. AnswersFit'
      BY <1>0, <3>1, <3>3, AnswerFits
    <3>5. LoggedInOrWaiting' /\ login.twoFactor
      BY <1>1, <3>1, <3>2, <3>3 DEF LoggedInOrWaiting, LoginInv
    <3> QED
      BY <3>1, <3>4, <3>5 DEF LoginInv
  <2> QED
    BY <1>8, <2>1, <2>2 DEF PinSubmits
<1>9. CASE PinJudges
  <2>0. /\ login.stage = "pin submitted" /\ UNCHANGED <<page, session>>
        /\ AnswersFit /\ LoggedInOrWaiting /\ login.twoFactor
    BY <1>9 DEF PinJudges, LoginInv
  <2>1. Judged(Succeeded(page.at))
    BY <1>9 DEF PinJudges
  <2>2. AnswersFit'
    BY <1>1, <2>0, <2>1, <1>j DEF AnswersFit
  <2>3. ASSUME Succeeded(page.at), FormIsKnown(login.target, login.form),
               PinIsNoticed(login.twoFactor, login.form)
        PROVE  session'[login'.target] = login'.who
    <3>1. page.at # SignIn[login.target] /\ page.at \notin ToSet(app.twoFactor) \cup TwoFactorLike
      <4>1. CASE SuccessUrls = <<>>
        BY <1>2, <4>1, <2>3 DEF Succeeded
      <4>2. CASE SuccessUrls # <<>>
        <5>1. page.at \in SuccessUrls[1]
          BY <4>2, <2>3 DEF Succeeded
        <5> QED
          BY <1>0, <1>4, <4>2, <5>1, SuccessAssumption DEF app
      <4> QED
        BY <4>1, <4>2
    <3>2. session[login.target] = login.who
      BY <2>0, <3>1 DEF LoggedInOrWaiting
    <3> QED
      BY <3>2, <2>0, <2>1, <1>j
  <2>4. /\ login'.stage = "done" /\ login'.ok = Succeeded(page.at)
        /\ login'.target = login.target /\ login'.form = login.form
        /\ PinIsNoticed(login.twoFactor, login.form)' <=> PinIsNoticed(login.twoFactor, login.form)
    BY <2>1, <1>j
  <2>5. login'.ok => Succeeded(page.at)
    BY <2>4, Zenon
  <2> QED
    BY <2>2, <2>3, <2>4, <2>5 DEF LoginInv, FormIsKnown
<1> QED
  BY <1>5, <1>6, <1>7, <1>8, <1>9 DEF LoginStep

\* No login is under way, or a new one.
LEMMA NoVerdict ==
  ASSUME login.stage \in {"none", "open"}
  PROVE  LoginInv
  BY DEF LoginInv

LEMMA LoginInvHolds == Spec => []LoginInv
<1>1. Init => LoginInv
  BY NoVerdict DEF Init, NoLogin
<1>2. Shape /\ LoginInv /\ [Next]_vars => LoginInv'
  <2> SUFFICES ASSUME Shape, LoginInv, [Next]_vars PROVE LoginInv'
    OBVIOUS
  <2>1. ASSUME login'.stage \in {"none", "open"} PROVE LoginInv'
    BY <2>1 DEF LoginInv
  <2>2. CASE Elsewhere
    BY <2>2, <2>1, ElsewhereKeeps
  <2>3. CASE Passes
    BY <2>3, <2>1, PassesKeeps DEF NoLogin
  <2>4. CASE UNCHANGED vars
    BY <2>4 DEF vars, browserVars, worldVars, LoginInv, AnswersFit, LoggedInOrWaiting,
                PinIsNoticed, FormIsKnown, app
  <2>5. CASE BrowserStep
    <3>1. cmd.kind = "behavior" /\ UNCHANGED cmd
      BY <2>5 DEF BrowserStep
    <3>2. CASE cmd.stage = "collect" /\ UNCHANGED login
      BY <2>1, <3>2 DEF Shape, LoginHasItsTime
    <3>3. CASE LoginStep /\ UNCHANGED <<crawl, exec, config>>
      BY <3>1, <3>3, LoginStepFits
    <3>4. CASE cmd.stage = "scenarios" /\ ScenarioStep
      <4>1. CASE LoggedIn
        BY <4>1, <2>1 DEF LoggedIn, NoLogin
      <4>2. CASE Probe /\ login' = newLogin(exec.at, exec.form, exec.who, config.twoFactor)
        BY <4>2, <2>1 DEF newLogin
      <4>3. CASE exec.stage # "login" /\ UNCHANGED login
        BY <4>3, <3>4, <2>1 DEF Shape, LoginHasItsTime
      <4> QED
        BY <3>4, <4>1, <4>2, <4>3
           DEF ScenarioStep, TakeScenario, BeginAct, Probe, RunStep, StepsOver
    <3>5. CASE AppArrives /\ UNCHANGED login
      <4>1. CASE login = NoLogin
        BY <4>1, <3>5, <2>1 DEF NoLogin
      <4>2. CASE login.target \in Target
        <5>1. SessionOK /\ PageOK /\ page'.arriving = <<>> /\ app' = app
          BY <3>5, ArrivesOK DEF Shape, app
        <5>2. ASSUME AnswersFit
              PROVE  /\ AnswersFit' /\ LoggedInOrWaiting'
                     /\ session[login.target] = login.who => session'[login.target] = login.who
          BY <3>5, <4>2, <5>1, <5>2, ArrivalFits
        <5>3. /\ PinIsNoticed(login.twoFactor, login.form)' <=> PinIsNoticed(login.twoFactor, login.form)
              /\ FormIsKnown(login.target, login.form)' <=> FormIsKnown(login.target, login.form)
          BY <3>5, <5>1 DEF PinIsNoticed, FormIsKnown
        <5>4. /\ login'.stage = "form" => page'.arriving = <<>>
              /\ login'.stage \in {"submitted", "pin", "pin submitted"} => AnswersFit' /\ LoggedInOrWaiting'
              /\ login'.stage \in {"pin", "pin submitted"} => login'.twoFactor
          BY <3>5, <5>1, <5>2 DEF LoginInv
        <5>5. ASSUME login'.stage = "done", login'.ok
              PROVE  /\ AnswersFit'
                     /\ FormIsKnown(login.target, login.form)' /\ PinIsNoticed(login.twoFactor, login.form)' =>
                           session'[login'.target] = login'.who
          <6>1. /\ AnswersFit
                /\ FormIsKnown(login.target, login.form) /\ PinIsNoticed(login.twoFactor, login.form) =>
                      session[login.target] = login.who
            BY <3>5, <5>5 DEF LoginInv
          <6> QED
            BY <3>5, <6>1, <5>2, <5>3
        <5> QED
          BY <5>4, <5>5 DEF LoginInv
      <4> QED
        BY <4>1, <4>2 DEF Shape, LoginOK
    <3> QED
      BY <2>5, <3>2, <3>3, <3>4, <3>5 DEF BrowserStep
  <2> QED
    BY <2>2, <2>3, <2>4, <2>5, NextParts
<1> QED
  BY <1>1, <1>2, ShapeHolds, PTL DEF Spec

\* Whatever the application, its users and its second factor, and however late
\* its answers come: a login that is said to have succeeded has the session of
\* the one it was for (login.ts: executeLoginScenario, runTwoFactorStep).
THEOREM AcquisitionLoginVerdictIsTrue == Spec => []LoginVerdictIsTrue
<1>1. LoginInv => LoginVerdictIsTrue
  BY DEF LoginInv, LoginVerdictIsTrue
<1> QED
  BY <1>1, LoginInvHolds, PTL

-------------------------------------------------------------------------------
(* Why a layer may be skipped.                                               *)

recorded == readStore(store)

StoreFields == {"structure", "behavior"}

\* A command that nothing disturbed holds the store as it is on disk.
StoresInv ==
    /\ DOMAIN recorded = StoreFields
    /\ cmd.kind # "idle" =>
          DOMAIN cmd.store = StoreFields /\ (~cmd.disturbed => cmd.store = recorded)

\* What is recorded of a directory is what the layer was derived from, or was
\* not there any more, or not yet, when the layer was.
Backed(d, files) ==
    \/ d \in DOMAIN analysed /\ analysed[d] = files
    \/ <<d, files>> \in drifted

StoreBacked(s) == \A d \in DOMAIN s.structure : Backed(d, s.structure[d].files)

Recording == recordStructure(cmd.store, cmd.scan, clock)

CodeInv ==
    /\ "structure" \notin doubts => StoreBacked(recorded)
    /\ cmd.kind = "structure" /\ cmd.emitted =>
          IF Narrowed THEN "structure" \in doubts ELSE ~cmd.disturbed => StoreBacked(Recording)

\* The pages captured since the command began.
Captured(set) == \A p \in set : p \in DOMAIN crawledAt /\ crawledAt[p] >= clock

PagesInv ==
    /\ clock \in Nat
    /\ \A p \in DOMAIN crawledAt : crawledAt[p] \in Nat /\ crawledAt[p] <= clock
    /\ "behavior" \notin doubts =>
          \A r \in DOMAIN recorded.behavior :
              /\ r \in DOMAIN crawledAt
              /\ recorded.behavior[r] \in Nat /\ recorded.behavior[r] <= crawledAt[r]
    /\ cmd.kind = "behavior" /\ cmd.collected /\ ~cmd.disturbed =>
          Captured(saved) /\ (cmd.stage = "record" => Captured(pages))

\* A layer derived from the whole code as it is now holds what a store vouches
\* for, but for what the code is not like.
LEMMA DerivedKeeps ==
  ASSUME NEW s, version \in DOMAIN App, ~Narrowed,
         analysed' = Restrict(Scanned, DOMAIN Scanned \cap cmd.units), DriftedFrom(s) \subseteq drifted'
  PROVE  \A d \in DOMAIN s.structure :
            \/ d \in DOMAIN analysed' /\ analysed'[d] = s.structure[d].files
            \/ <<d, s.structure[d].files>> \in drifted'
<1> SUFFICES ASSUME NEW d \in DOMAIN s.structure, <<d, s.structure[d].files>> \notin drifted'
             PROVE  d \in DOMAIN analysed' /\ analysed'[d] = s.structure[d].files
  OBVIOUS
<1> DEFINE entry == <<d, s.structure[d].files>>
<1>1. entry \in Vouched(s) /\ entry \notin DriftedFrom(s)
  BY DEF Vouched
<1>2. d \in DOMAIN Scanned /\ Scanned[d] = s.structure[d].files
  BY <1>1 DEF DriftedFrom
<1>3. d \in cmd.units
  <2>1. DOMAIN ScanOf(version) \subseteq DOMAIN App[version].files
    BY DEF ScanOf, scanByDir
  <2>2. d \in AllUnits
    BY <1>2, <2>1 DEF AllUnits, Scanned
  <2> QED
    BY <2>2 DEF Narrowed
<1> QED
  BY <1>2, <1>3 DEF Restrict

\* What a command that ends its stage leaves alone.
LEMMA CodeStays ==
  ASSUME CodeInv, UNCHANGED <<store, analysed, drifted, doubts>>,
         \/ cmd' = Idle
         \/ cmd' = cmd /\ (cmd.kind = "structure" => UNCHANGED clock)
         \/ cmd'.kind = "structure" /\ ~cmd'.emitted
         \/ cmd'.kind = "behavior"
  PROVE  CodeInv'
<1>1. recorded' = recorded
  BY DEF recorded
<1>2. "structure" \notin doubts' => StoreBacked(recorded)'
  BY <1>1 DEF CodeInv, StoreBacked, Backed
<1>3. CASE cmd' = cmd /\ cmd.kind = "structure" /\ UNCHANGED clock
  <2>1. Recording' = Recording /\ Narrowed' = Narrowed
    BY <1>3 DEF Recording, Narrowed
  <2> QED
    BY <1>2, <1>3, <2>1 DEF CodeInv, StoreBacked, Backed
<1>4. CASE ~(cmd'.kind = "structure" /\ cmd'.emitted)
  BY <1>2, <1>4 DEF CodeInv
<1> QED
  BY <1>3, <1>4 DEF Idle

LEMMA StoresAction ==
  ASSUME Shape, StoresInv, [Next]_vars
  PROVE  StoresInv'
<1>c. CmdOK
  BY DEF Shape
<1>s. ASSUME UNCHANGED store,
             \/ cmd' = Idle \/ cmd' = cmd
             \/ cmd'.store = recorded
             \/ cmd.kind # "idle" /\ cmd'.store = cmd.store /\ cmd'.disturbed = cmd.disturbed
      PROVE  StoresInv'
  <2>1. recorded' = recorded
    BY <1>s DEF recorded
  <2> QED
    BY <1>s, <2>1 DEF StoresInv, Idle
<1>w. ASSUME NEW s, DOMAIN s = StoreFields, store' = writeStore(s), cmd' = Idle PROVE StoresInv'
  <2>1. recorded' = s
    BY <1>w DEF recorded, writeStore, readStore
  <2> QED
    BY <1>w, <2>1 DEF StoresInv, Idle
<1>1. CASE Edit \/ Tick \/ SkipStructure \/ SkipBehavior
  BY <1>1, <1>s DEF Edit, Tick, SkipStructure, SkipBehavior, Started, layerVars
<1>2. ASSUME NEW force \in BOOLEAN, NEW units, AnalyzeStructure(force, units) PROVE StoresInv'
  BY <1>2, <1>s DEF AnalyzeStructure, Started, layerVars, recorded
<1>3. CASE PhaseStructure
  BY <1>3, <1>s DEF PhaseStructure, Started, layerVars, recorded
<1>4. CASE EmitAnalysis
  <2>1. cmd.kind # "idle" /\ cmd'.store = cmd.store /\ cmd'.disturbed = cmd.disturbed
    BY <1>4, <1>c DEF EmitAnalysis, CmdOK, StructureFields, Idle
  <2> QED
    BY <1>4, <2>1, <1>s DEF EmitAnalysis
<1>5. CASE RecordAnalysis
  <2>1. DOMAIN cmd.store = StoreFields
    BY <1>5 DEF RecordAnalysis, StoresInv
  <2>2. DOMAIN recordStructure(cmd.store, cmd.scan, clock) = StoreFields
    BY <2>1 DEF recordStructure
  <2> QED
    BY <1>5, <2>2, <1>w DEF RecordAnalysis
<1>6. ASSUME NEW by, NEW explore, RunCli(by, explore) PROVE StoresInv'
  BY <1>6, <1>s DEF RunCli, Started, layerVars, recorded
<1>7. CASE SharedContext \/ LoginTested \/ Collected \/ Emit
  <2>1. cmd.kind # "idle" /\ cmd'.store = cmd.store /\ cmd'.disturbed = cmd.disturbed
    BY <1>7, <1>c DEF SharedContext, LoginTested, Collected, Emit, In, Enters, CmdOK, BehaviorFields, Idle
  <2>2. UNCHANGED store
    BY <1>7 DEF SharedContext, LoginTested, Collected, Emit, layerVars
  <2> QED
    BY <2>1, <2>2, <1>s
<1>8. CASE ScenariosTested
  <2>1. \/ cmd' = Idle
        \/ cmd.kind # "idle" /\ cmd'.store = cmd.store /\ cmd'.disturbed = cmd.disturbed
    BY <1>8, <1>c DEF ScenariosTested, In, Enters, CmdOK, BehaviorFields, Idle
  <2> QED
    BY <1>8, <2>1, <1>s DEF ScenariosTested, layerVars
<1>9. CASE RecordBehavior
  <2> DEFINE base == IF cmd.by = "analyze" THEN cmd.store ELSE recorded
  <2>1. DOMAIN base = StoreFields
    BY <1>9 DEF RecordBehavior, In, StoresInv
  <2>2. DOMAIN recordBehavior(base, pages, clock, pages) = StoreFields
    BY <2>1 DEF recordBehavior
  <2>3. store' = writeStore(recordBehavior(base, pages, clock, pages)) /\ cmd' = Idle
    BY <1>9 DEF RecordBehavior, recorded
  <2> QED
    BY <2>2, <2>3, <1>w
<1>10. CASE BrowserStep
  BY <1>10, <1>s DEF BrowserStep, layerVars
<1>11. CASE ClearStructure \/ ClearBehavior
  <2>1. \/ store' = writeStore([recorded EXCEPT !["structure"] = <<>>])
        \/ store' = writeStore([recorded EXCEPT !["behavior"] = <<>>])
    BY <1>11 DEF ClearStructure, ClearBehavior, Reset, recorded
  <2>2. DOMAIN recorded' = StoreFields
    <3>1. \/ recorded' = [recorded EXCEPT !["structure"] = <<>>]
          \/ recorded' = [recorded EXCEPT !["behavior"] = <<>>]
      BY <2>1 DEF recorded, writeStore, readStore
    <3> QED
      BY <3>1 DEF StoresInv
  <2>3. \/ cmd.kind = "idle" /\ cmd' = cmd
        \/ cmd.kind # "idle" /\ cmd' = [cmd EXCEPT !.disturbed = TRUE]
    BY <1>11 DEF ClearStructure, ClearBehavior, Disturb
  <2>4. CASE cmd.kind = "idle" /\ cmd' = cmd
    BY <2>2, <2>4 DEF StoresInv
  <2>5. CASE cmd.kind # "idle" /\ cmd' = [cmd EXCEPT !.disturbed = TRUE]
    <3>1. cmd'.store = cmd.store /\ cmd'.disturbed
      BY <2>5, <1>c DEF CmdOK, StructureFields, BehaviorFields, Idle
    <3> QED
      BY <2>2, <2>5, <3>1 DEF StoresInv
  <2> QED
    BY <2>3, <2>4, <2>5
<1>12. CASE Crash
  BY <1>12, <1>s DEF Crash, layerVars
<1>13. CASE UNCHANGED vars
  BY <1>13, <1>s DEF vars, layerVars
<1> QED
  BY <1>1, <1>2, <1>3, <1>4, <1>5, <1>6, <1>7, <1>8, <1>9, <1>10, <1>11, <1>12, <1>13
     DEF Next, AnalyzeBehavior, PhaseBehavior

LEMMA CodeAction ==
  ASSUME Shape, StoresInv, CodeInv, [Next]_vars
  PROVE  CodeInv'
<1>c. CmdOK /\ version \in DOMAIN App
  BY DEF Shape
<1>1. CASE Edit \/ Tick \/ SkipStructure \/ SkipBehavior \/ PhaseStructure
  <2>1. UNCHANGED <<store, analysed, drifted, doubts>>
    BY <1>1 DEF Edit, Tick, SkipStructure, SkipBehavior, PhaseStructure, layerVars
  <2>2. \/ cmd' = Idle
        \/ cmd' = cmd /\ (cmd.kind = "structure" => UNCHANGED clock)
        \/ cmd'.kind = "structure" /\ ~cmd'.emitted
    <3>1. CASE Edit
      BY <3>1 DEF Edit
    <3>2. CASE Tick
      BY <3>2 DEF Tick
    <3>3. CASE SkipStructure \/ SkipBehavior
      BY <3>3 DEF SkipStructure, SkipBehavior, Started
    <3>4. CASE PhaseStructure
      <4>1. cmd'.kind = "structure" /\ cmd'.emitted = FALSE
        BY <3>4 DEF PhaseStructure, Started
      <4> QED
        BY <4>1
    <3> QED
      BY <1>1, <3>1, <3>2, <3>3, <3>4
  <2> QED
    BY <2>1, <2>2, CodeStays
<1>2. ASSUME NEW force \in BOOLEAN, NEW units, AnalyzeStructure(force, units) PROVE CodeInv'
  <2>1. UNCHANGED <<store, analysed, drifted, doubts>> /\ cmd'.kind = "structure" /\ ~cmd'.emitted
    BY <1>2 DEF AnalyzeStructure, Started, layerVars
  <2> QED
    BY <2>1, CodeStays
<1>3. ASSUME NEW by, NEW explore, RunCli(by, explore) PROVE CodeInv'
  <2>1. UNCHANGED <<store, analysed, drifted, doubts>> /\ cmd'.kind = "behavior"
    BY <1>3 DEF RunCli, Started, layerVars
  <2> QED
    BY <2>1, CodeStays
<1>4. CASE EmitAnalysis
  <2>1. /\ cmd.kind = "structure" /\ UNCHANGED <<store, version, clock>>
        /\ analysed' = Restrict(Scanned, DOMAIN Scanned \cap cmd.units)
        /\ doubts' = IF Narrowed THEN doubts \cup {"structure"} ELSE doubts
        /\ drifted' = DriftedFrom(recorded) \cup DriftedFrom(Recording)
    BY <1>4 DEF EmitAnalysis, worldVars, recorded, Recording
  <2>2. cmd'.store = cmd.store /\ cmd'.scan = cmd.scan /\ cmd'.units = cmd.units
    BY <1>4, <2>1, <1>c DEF EmitAnalysis, CmdOK, StructureFields, Idle
  <2>3. recorded' = recorded /\ Recording' = Recording /\ Narrowed' = Narrowed
    BY <2>1, <2>2 DEF recorded, Recording, Narrowed
  <2>4. CASE Narrowed
    BY <2>1, <2>3, <2>4 DEF CodeInv
  <2>5. CASE ~Narrowed
    <3>1. StoreBacked(recorded)'
      <4>1. DriftedFrom(recorded) \subseteq drifted'
        BY <2>1
      <4> QED
        BY <1>c, <2>1, <2>3, <2>5, <4>1, DerivedKeeps DEF StoreBacked, Backed
    <3>2. StoreBacked(Recording)'
      <4>1. DriftedFrom(Recording) \subseteq drifted'
        BY <2>1
      <4> QED
        BY <1>c, <2>1, <2>3, <2>5, <4>1, DerivedKeeps DEF StoreBacked, Backed
    <3> QED
      BY <2>3, <2>5, <3>1, <3>2 DEF CodeInv
  <2> QED
    BY <2>4, <2>5
<1>5. CASE RecordAnalysis
  <2>1. /\ cmd.kind = "structure" /\ cmd.emitted /\ UNCHANGED <<analysed, drifted>> /\ cmd' = Idle
        /\ store' = writeStore(Recording)
        /\ doubts' = IF cmd.disturbed THEN {"structure", "behavior"}
                     ELSE IF Narrowed THEN doubts ELSE doubts \ {"structure"}
    BY <1>5 DEF RecordAnalysis, worldVars, Recording
  <2>2. recorded' = Recording
    BY <2>1 DEF recorded, writeStore, readStore
  <2>3. "structure" \notin doubts' => StoreBacked(Recording)
    BY <2>1 DEF CodeInv
  <2> QED
    BY <2>1, <2>2, <2>3 DEF CodeInv, Idle, StoreBacked, Backed
<1>6. CASE SharedContext \/ LoginTested \/ Collected \/ Emit \/ ScenariosTested \/ BrowserStep \/ Crash
  <2>1. UNCHANGED <<store, analysed, drifted, doubts>>
    BY <1>6 DEF SharedContext, LoginTested, Collected, Emit, ScenariosTested,
                BrowserStep, Crash, layerVars, worldVars
  <2>2. cmd' = Idle \/ cmd'.kind = "behavior"
    BY <1>6, <1>c DEF SharedContext, LoginTested, Collected, Emit, ScenariosTested, BrowserStep,
                      Crash, In, Enters, CmdOK, BehaviorFields, Idle
  <2> QED
    BY <2>1, <2>2, CodeStays
<1>7. CASE RecordBehavior
  <2> DEFINE base == IF cmd.by = "analyze" THEN cmd.store ELSE recorded
  <2>1. /\ cmd.kind = "behavior" /\ UNCHANGED <<analysed, drifted>> /\ cmd' = Idle
        /\ store' = writeStore(recordBehavior(base, pages, clock, pages))
        /\ "structure" \notin doubts' => "structure" \notin doubts /\ ~cmd.disturbed
    BY <1>7 DEF RecordBehavior, In, worldVars, recorded
  <2>2. DOMAIN base = StoreFields /\ (~cmd.disturbed => base = recorded)
    BY <2>1 DEF StoresInv
  <2>3. recorded' = recordBehavior(base, pages, clock, pages)
    BY <2>1 DEF recorded, writeStore, readStore
  <2>4. recorded'.structure = base.structure
    BY <2>2, <2>3 DEF recordBehavior, StoreFields
  <2>5. ASSUME "structure" \notin doubts' PROVE StoreBacked(recorded)'
    <3>1. recorded'.structure = recorded.structure /\ StoreBacked(recorded)
      BY <2>1, <2>2, <2>4, <2>5 DEF CodeInv
    <3> QED
      BY <2>1, <3>1 DEF StoreBacked, Backed
  <2> QED
    BY <2>1, <2>5 DEF CodeInv, Idle
<1>8. CASE ClearStructure \/ ClearBehavior
  <2>1. UNCHANGED <<drifted, doubts, clock>>
    BY <1>8 DEF ClearStructure, ClearBehavior, worldVars
  <2>2. \/ cmd.kind = "idle" /\ cmd' = cmd
        \/ /\ cmd.kind # "idle" /\ cmd'.kind = cmd.kind /\ cmd'.disturbed
           /\ cmd.kind = "structure" => cmd'.units = cmd.units /\ cmd'.emitted = cmd.emitted
    BY <1>8, <1>c DEF ClearStructure, ClearBehavior, Disturb, CmdOK, StructureFields, BehaviorFields, Idle
  <2>3. \/ recorded'.structure = <<>>
        \/ recorded'.structure = recorded.structure /\ UNCHANGED analysed
    <3>1. CASE ClearStructure
      <4>1. recorded' = [recorded EXCEPT !["structure"] = <<>>]
        BY <3>1 DEF ClearStructure, Reset, recorded, writeStore, readStore
      <4> QED
        BY <4>1 DEF StoresInv, StoreFields
    <3>2. CASE ClearBehavior
      <4>1. recorded' = [recorded EXCEPT !["behavior"] = <<>>]
        BY <3>2 DEF ClearBehavior, Reset, recorded, writeStore, readStore
      <4> QED
        BY <3>2, <4>1 DEF ClearBehavior, StoresInv, StoreFields
    <3> QED
      BY <1>8, <3>1, <3>2
  <2>4. ASSUME "structure" \notin doubts' PROVE StoreBacked(recorded)'
    <3>1. StoreBacked(recorded)
      BY <2>1, <2>4 DEF CodeInv
    <3> QED
      BY <2>1, <2>3, <3>1 DEF StoreBacked, Backed
  <2>5. cmd'.kind = "structure" => cmd'.disturbed /\ Narrowed' = Narrowed /\ cmd'.emitted = cmd.emitted
                                   /\ cmd.kind = "structure"
    BY <2>2 DEF Narrowed
  <2> QED
    BY <2>1, <2>4, <2>5 DEF CodeInv
<1>9. CASE UNCHANGED vars
  <2>1. UNCHANGED <<store, analysed, drifted, doubts, cmd, clock>>
    BY <1>9 DEF vars, layerVars, worldVars
  <2> QED
    BY <2>1, CodeStays
<1> QED
  BY <1>1, <1>2, <1>3, <1>4, <1>5, <1>6, <1>7, <1>8, <1>9 DEF Next, AnalyzeBehavior, PhaseBehavior

LEMMA PagesStay ==
  ASSUME PagesInv, UNCHANGED <<store, saved, pages, clock, crawledAt, doubts>>,
         \/ cmd'.kind = "behavior" => ~cmd'.collected
         \/ cmd' = cmd
         \/ /\ cmd.kind = "behavior" /\ cmd'.collected = cmd.collected
            /\ cmd'.disturbed = cmd.disturbed /\ cmd'.stage # "record"
  PROVE  PagesInv'
<1>1. recorded' = recorded
  BY DEF recorded
<1>2. /\ clock' \in Nat
      /\ \A p \in DOMAIN crawledAt' : crawledAt'[p] \in Nat /\ crawledAt'[p] <= clock'
      /\ "behavior" \notin doubts' =>
            \A r \in DOMAIN recorded'.behavior :
                /\ r \in DOMAIN crawledAt'
                /\ recorded'.behavior[r] \in Nat /\ recorded'.behavior[r] <= crawledAt'[r]
  BY <1>1 DEF PagesInv
<1>3. \A set : Captured(set)' <=> Captured(set)
  BY DEF Captured
<1>4. ASSUME cmd'.kind = "behavior", cmd'.collected, ~cmd'.disturbed
      PROVE  Captured(saved') /\ (cmd'.stage = "record" => Captured(pages'))
  BY <1>4 DEF PagesInv
<1> QED
  BY <1>2, <1>3, <1>4 DEF PagesInv, Captured

LEMMA PagesAction ==
  ASSUME Shape, StoresInv, PagesInv, [Next]_vars
  PROVE  PagesInv'
<1>c. CmdOK
  BY DEF Shape
<1>1. CASE Edit \/ SkipStructure \/ SkipBehavior \/ PhaseStructure
  <2>1. UNCHANGED <<store, saved, pages, clock, crawledAt, doubts>>
    BY <1>1 DEF Edit, SkipStructure, SkipBehavior, PhaseStructure, layerVars
  <2>2. cmd' = cmd \/ cmd'.kind # "behavior"
    <3>1. CASE Edit
      BY <3>1 DEF Edit
    <3>2. CASE SkipStructure \/ SkipBehavior
      <4>1. Idle.kind = "idle"
        BY DEF Idle
      <4>2. cmd' = Idle
        BY <3>2 DEF SkipStructure, SkipBehavior, Started
      <4> QED
        BY <4>1, <4>2
    <3>3. CASE PhaseStructure
      BY <3>3 DEF PhaseStructure, Started
    <3> QED
      BY <1>1, <3>1, <3>2, <3>3
  <2> QED
    BY <2>1, <2>2, PagesStay
<1>2. ASSUME NEW force \in BOOLEAN, NEW units, AnalyzeStructure(force, units) PROVE PagesInv'
  <2>1. UNCHANGED <<store, saved, pages, clock, crawledAt, doubts>> /\ cmd'.kind # "behavior"
    BY <1>2 DEF AnalyzeStructure, Started, layerVars
  <2> QED
    BY <2>1, PagesStay
<1>3. CASE Tick
  <2>1. /\ clock' = clock + 1 /\ cmd.kind = "idle" /\ UNCHANGED <<crawledAt, doubts, cmd>>
        /\ recorded' = recorded
    BY <1>3 DEF Tick, layerVars, recorded
  <2>2. /\ clock' \in Nat
        /\ \A p \in DOMAIN crawledAt' : crawledAt'[p] \in Nat /\ crawledAt'[p] <= clock'
    BY <2>1 DEF PagesInv
  <2> QED
    BY <2>1, <2>2 DEF PagesInv
<1>4. ASSUME NEW by, NEW explore, RunCli(by, explore) PROVE PagesInv'
  <2>1. UNCHANGED <<store, saved, pages, clock, crawledAt, doubts>> /\ ~cmd'.collected
    BY <1>4 DEF RunCli, Started, layerVars
  <2> QED
    BY <2>1, PagesStay
<1>5. CASE EmitAnalysis
  <2>1. /\ UNCHANGED <<clock, crawledAt>> /\ recorded' = recorded
        /\ "behavior" \notin doubts' => "behavior" \notin doubts
    BY <1>5 DEF EmitAnalysis, worldVars, recorded
  <2>2. cmd'.kind # "behavior"
    BY <1>5, <1>c DEF EmitAnalysis, CmdOK, StructureFields, Idle
  <2> QED
    BY <2>1, <2>2 DEF PagesInv
<1>6. CASE RecordAnalysis
  <2>1. /\ cmd.kind = "structure" /\ UNCHANGED <<clock, crawledAt>> /\ cmd' = Idle
        /\ store' = writeStore(recordStructure(cmd.store, cmd.scan, clock))
        /\ "behavior" \notin doubts' => "behavior" \notin doubts /\ ~cmd.disturbed
    BY <1>6 DEF RecordAnalysis, worldVars
  <2>2. recorded' = recordStructure(cmd.store, cmd.scan, clock)
    BY <2>1 DEF recorded, writeStore, readStore
  <2>3. recorded'.behavior = cmd.store.behavior
    BY <2>1, <2>2 DEF StoresInv, StoreFields, recordStructure
  <2>4. ~cmd.disturbed => recorded'.behavior = recorded.behavior
    BY <2>1, <2>3 DEF StoresInv
  <2> QED
    BY <2>1, <2>4 DEF PagesInv, Idle
<1>7. CASE SharedContext \/ LoginTested \/ ScenariosTested \/ BrowserStep \/ Crash
  <2>1. UNCHANGED <<store, saved, pages, clock, crawledAt, doubts>>
    BY <1>7 DEF SharedContext, LoginTested, ScenariosTested, BrowserStep, Crash, layerVars, worldVars
  <2>2. \/ cmd'.kind # "behavior" \/ cmd' = cmd
        \/ /\ cmd.kind = "behavior" /\ cmd'.collected = cmd.collected
           /\ cmd'.disturbed = cmd.disturbed /\ cmd'.stage # "record"
    <3>1. ASSUME NEW stage, In("auth") \/ In("login") \/ In("scenarios"),
                 cmd' = [cmd EXCEPT !.stage = stage]
          PROVE  /\ cmd.kind = "behavior" /\ cmd'.collected = cmd.collected
                 /\ cmd'.disturbed = cmd.disturbed /\ cmd'.stage = stage
      BY <1>c, <3>1 DEF In, CmdOK, BehaviorFields, Idle
    <3>2. CASE SharedContext
      BY <3>1, <3>2 DEF SharedContext, Enters
    <3>3. CASE LoginTested
      BY <3>1, <3>3 DEF LoginTested, Enters
    <3>4. CASE ScenariosTested
      BY <3>1, <3>4 DEF ScenariosTested, Enters, Idle
    <3>5. CASE BrowserStep
      BY <3>5 DEF BrowserStep
    <3>6. CASE Crash
      BY <3>6 DEF Crash, Idle
    <3> QED
      BY <1>7, <3>2, <3>3, <3>4, <3>5, <3>6
  <2> QED
    BY <2>1, <2>2, PagesStay
<1>8. CASE Collected
  <2> DEFINE found == IF crawl.stage = "done" THEN PageKeys(crawl.rawPages) ELSE {}
  <2>1. /\ cmd.stage = "collect" /\ cmd.kind = "behavior" /\ UNCHANGED <<store, pages, clock, doubts>>
        /\ saved' = IF crawl.stage = "done" THEN found ELSE saved
        /\ crawledAt' = Overlay(crawledAt, [p \in found |-> clock])
        /\ cmd' = [cmd EXCEPT !.stage = "login", !.collected = crawl.stage = "done"]
    BY <1>8 DEF Collected, In, worldVars
  <2>2. cmd'.collected <=> crawl.stage = "done"
    <3>1. DOMAIN cmd = BehaviorFields
      BY <2>1, <1>c DEF CmdOK, Idle
    <3>2. cmd'.collected = (crawl.stage = "done")
      BY <2>1, <3>1 DEF BehaviorFields
    <3> QED
      BY <3>2, Zenon
  <2>3. cmd'.stage = "login"
    BY <2>1, <1>c DEF CmdOK, BehaviorFields, Idle
  <2> HIDE DEF found
  <2>4. /\ DOMAIN crawledAt' = DOMAIN crawledAt \cup found
        /\ \A p \in found : crawledAt'[p] = clock
        /\ \A p \in DOMAIN crawledAt \ found : crawledAt'[p] = crawledAt[p]
    BY <2>1 DEF Overlay
  <2>5. recorded' = recorded
    BY <2>1 DEF recorded
  <2>6. /\ clock' \in Nat
        /\ \A p \in DOMAIN crawledAt' : crawledAt'[p] \in Nat /\ crawledAt'[p] <= clock'
        /\ \A p \in DOMAIN crawledAt : p \in DOMAIN crawledAt' /\ crawledAt[p] <= crawledAt'[p]
    BY <2>1, <2>4 DEF PagesInv
  <2>7. ASSUME "behavior" \notin doubts'
        PROVE  \A r \in DOMAIN recorded'.behavior :
                  /\ r \in DOMAIN crawledAt'
                  /\ recorded'.behavior[r] \in Nat /\ recorded'.behavior[r] <= crawledAt'[r]
    BY <2>1, <2>5, <2>6, <2>7 DEF PagesInv
  <2>8. crawl.stage = "done" => Captured(saved)'
    BY <2>1, <2>4, <2>6 DEF Captured
  <2> QED
    BY <2>2, <2>3, <2>6, <2>7, <2>8 DEF PagesInv
<1>9. CASE Emit
  <2>1. UNCHANGED <<store, saved, clock, crawledAt, doubts>> /\ cmd.kind = "behavior"
    BY <1>9 DEF Emit, In, worldVars
  <2>2. \/ /\ pages' = saved /\ cmd'.collected = cmd.collected /\ cmd'.disturbed = cmd.disturbed
        \/ ~cmd'.collected
    <3>1. DOMAIN cmd = BehaviorFields
      BY <2>1, <1>c DEF CmdOK, Idle
    <3>2. CASE pages' = saved /\ cmd' = [cmd EXCEPT !.stage = "record"]
      BY <3>1, <3>2 DEF BehaviorFields
    <3>3. CASE cmd' = [cmd EXCEPT !.stage = "record", !.collected = FALSE]
      BY <3>1, <3>3 DEF BehaviorFields
    <3> QED
      BY <1>9, <3>2, <3>3 DEF Emit
  <2>3. recorded' = recorded
    BY <2>1 DEF recorded
  <2>4. Captured(saved)' <=> Captured(saved)
    BY <2>1 DEF Captured
  <2>5. pages' = saved => (Captured(pages)' <=> Captured(saved))
    BY <2>1 DEF Captured
  <2>6. ASSUME cmd'.collected, ~cmd'.disturbed PROVE Captured(saved)' /\ Captured(pages)'
    <3>1. Captured(saved)
      BY <2>1, <2>2, <2>6 DEF PagesInv
    <3> QED
      BY <3>1, <2>2, <2>4, <2>5, <2>6
  <2> QED
    BY <2>1, <2>3, <2>6 DEF PagesInv
<1>10. CASE RecordBehavior
  <2> DEFINE base == IF cmd.by = "analyze" THEN cmd.store ELSE recorded
  <2>1. /\ cmd.kind = "behavior" /\ cmd.stage = "record" /\ UNCHANGED <<pages, clock, crawledAt>> /\ cmd' = Idle
        /\ store' = writeStore(recordBehavior(base, pages, clock, pages))
        /\ "behavior" \notin doubts' => cmd.collected /\ ~cmd.disturbed
    BY <1>10 DEF RecordBehavior, In, worldVars, recorded
  <2>2. DOMAIN base = StoreFields
    BY <2>1 DEF StoresInv
  <2>3. recorded' = recordBehavior(base, pages, clock, pages)
    BY <2>1 DEF recorded, writeStore, readStore
  <2>4. recorded'.behavior = Restrict(Overlay(base.behavior, [route \in pages |-> clock]), pages)
    BY <2>2, <2>3 DEF recordBehavior, StoreFields
  <2>5. DOMAIN recorded'.behavior = pages /\ \A r \in pages : recorded'.behavior[r] = clock
    BY <2>4 DEF Restrict, Overlay
  <2>6. ASSUME "behavior" \notin doubts'
        PROVE  \A r \in pages : r \in DOMAIN crawledAt /\ clock <= crawledAt[r]
    <3>1. Captured(pages)
      BY <2>1, <2>6 DEF PagesInv
    <3>2. \A r \in pages : r \in DOMAIN crawledAt /\ crawledAt[r] >= clock
      BY <3>1 DEF Captured
    <3> QED
      BY <3>2 DEF PagesInv
  <2> QED
    BY <2>1, <2>5, <2>6 DEF PagesInv, Idle
<1>11. CASE ClearStructure
  <2>1. /\ UNCHANGED <<saved, pages, clock, crawledAt, doubts>>
        /\ recorded' = [recorded EXCEPT !["structure"] = <<>>]
    BY <1>11 DEF ClearStructure, worldVars, Reset, recorded, writeStore, readStore
  <2>2. recorded'.behavior = recorded.behavior
    BY <2>1 DEF StoresInv, StoreFields
  <2>3. cmd' = cmd \/ cmd'.disturbed
    BY <1>11, <1>c DEF ClearStructure, Disturb, CmdOK, StructureFields, BehaviorFields, Idle
  <2>4. \A set : Captured(set)' <=> Captured(set)
    BY <2>1 DEF Captured
  <2>5. ASSUME cmd'.kind = "behavior", cmd'.collected, ~cmd'.disturbed
        PROVE  Captured(saved)' /\ (cmd'.stage = "record" => Captured(pages)')
    <3>1. Captured(saved) /\ (cmd.stage = "record" => Captured(pages))
      BY <2>3, <2>5 DEF PagesInv
    <3> QED
      BY <2>1, <2>3, <2>5, <3>1 DEF Captured
  <2> QED
    BY <2>1, <2>2, <2>5 DEF PagesInv
<1>12. CASE ClearBehavior
  <2>1. /\ UNCHANGED <<clock, doubts>> /\ crawledAt' = <<>> /\ saved' = {} /\ pages' = {}
        /\ recorded' = [recorded EXCEPT !["behavior"] = <<>>]
    BY <1>12 DEF ClearBehavior, worldVars, Reset, recorded, writeStore, readStore
  <2>2. recorded'.behavior = <<>>
    BY <2>1 DEF StoresInv, StoreFields
  <2> QED
    BY <2>1, <2>2 DEF PagesInv, Captured
<1>13. CASE UNCHANGED vars
  <2>1. UNCHANGED <<store, saved, pages, clock, crawledAt, doubts, cmd>>
    BY <1>13 DEF vars, layerVars, worldVars
  <2> QED
    BY <2>1, PagesStay
<1> QED
  BY <1>1, <1>2, <1>3, <1>4, <1>5, <1>6, <1>7, <1>8, <1>9, <1>10, <1>11, <1>12, <1>13
     DEF Next, AnalyzeBehavior, PhaseBehavior

LEMMA FreshnessHolds == Spec => [](Shape /\ StoresInv /\ CodeInv /\ PagesInv)
<1>1. Init => StoresInv /\ CodeInv /\ PagesInv
  <2> SUFFICES ASSUME Init PROVE StoresInv /\ CodeInv /\ PagesInv
    OBVIOUS
  <2>1. recorded = emptyStore /\ cmd = Idle
    BY DEF Init, recorded, readStore
  <2> QED
    BY <2>1 DEF Init, emptyStore, Idle, StoresInv, StoreFields, CodeInv, StoreBacked, PagesInv
<1>2. (StoresInv /\ CodeInv /\ PagesInv) /\ (Shape /\ Shape') /\ [Next]_vars
         => (StoresInv /\ CodeInv /\ PagesInv)'
  BY StoresAction, CodeAction, PagesAction
<1> QED
  BY <1>1, <1>2, ShapeHolds, PTL DEF Spec

\* Whatever changes in the code, there and back, or expires, whichever command is
\* narrowed to a unit, cleared behind or killed: who skips an acquisition has a
\* reason to (freshness: staleDirs, planBehaviorCrawl, recordStructure,
\* recordBehavior).
THEOREM AcquisitionSkipIsJustified == Spec => SkipIsJustified
<1>1. ASSUME CodeInv, SkipStructure PROVE StructureIsCurrent
  <2> SUFFICES ASSUME "structure" \notin doubts, NEW d \in DOMAIN Scanned
               PROVE  \/ d \in DOMAIN analysed /\ analysed[d] = Scanned[d]
                      \/ <<d, Scanned[d]>> \in drifted
    BY DEF StructureIsCurrent
  <2>1. staleDirs(recorded, Scanned, clock) = {}
    BY <1>1 DEF SkipStructure, StructureDue, recorded
  <2>2. d \in DOMAIN recorded.structure /\ recorded.structure[d].files = Scanned[d]
    BY <2>1 DEF staleDirs, sameHashes
  <2>3. Backed(d, recorded.structure[d].files)
    BY <1>1, <2>2 DEF CodeInv, StoreBacked
  <2> QED
    BY <2>2, <2>3 DEF Backed
<1>2. ASSUME PagesInv, SkipBehavior PROVE BehaviorIsCurrent
  <2> SUFFICES ASSUME "behavior" \notin doubts, NEW r \in routes
               PROVE  r \in DOMAIN crawledAt /\ clock - crawledAt[r] <= Ttl
    BY DEF BehaviorIsCurrent
  <2>1. planBehaviorCrawl(routes, recorded, clock).toCrawl = {}
    BY <1>2 DEF SkipBehavior, BehaviorDue, recorded
  <2>2. r \in DOMAIN recorded.behavior /\ ~ttlExceeded(recorded.behavior[r], clock)
    BY <2>1 DEF planBehaviorCrawl, stalePages
  <2>3. /\ r \in DOMAIN crawledAt /\ recorded.behavior[r] \in Nat
        /\ recorded.behavior[r] <= crawledAt[r] /\ crawledAt[r] \in Nat /\ clock \in Nat
    BY <1>2, <2>2 DEF PagesInv
  <2> QED
    BY <2>2, <2>3, TtlAssumption DEF ttlExceeded
<1>3. (Shape /\ StoresInv /\ CodeInv /\ PagesInv)
         => [(SkipStructure => StructureIsCurrent) /\ (SkipBehavior => BehaviorIsCurrent)]_vars
  BY <1>1, <1>2
<1> QED
  BY <1>3, FreshnessHolds, PTL DEF SkipIsJustified

-------------------------------------------------------------------------------
(* Scenarios run as declared.                                                *)

\* By the cookies and the answers under way nobody else is logged in on a target,
\* or will be.
Alone(cookies, answers, target, who) ==
    /\ cookies[target] \in {who, Nobody}
    /\ \A a \in ToSet(answers) : a.who = Nobody \/ (a.who = who /\ a.target = target)

\* From the cookies that are cleared to the first step, nobody else's session
\* comes: the probe of a new persona meets the login page, and its login the
\* right session.
PersonaInv ==
    /\ exec.stage # "none" => cmd.kind = "behavior" /\ cmd.stage = "scenarios"
    /\ exec.stage = "steps" => exec.step \in Nat \ {0}
    /\ exec.stage = "steps" /\ exec.step = 1 /\ exec.asked = "unauthenticated" /\ ~exec.late =>
          session[exec.at] = Nobody /\ page.arriving = <<>>
    /\ exec.stage = "probe" /\ exec.forced /\ ~exec.late =>
          session = LoggedOut /\ page.arriving = <<>>
    /\ exec.stage = "login" /\ login.stage # "none" =>
          /\ login.target = exec.at /\ login.form = exec.form
          /\ login.who = exec.who /\ login.twoFactor = config.twoFactor
    /\ exec.stage = "login" /\ exec.forced /\ ~exec.late =>
          Alone(session, page.arriving, exec.at, exec.who)
    /\ exec.stage = "steps" /\ exec.step = 1 /\ exec.asked = "authenticated" /\ ~exec.late
          /\ exec.forced =>
          /\ Alone(session, page.arriving, exec.at, exec.who)
          /\ StartsBehindLogin /\ LoginIsNoticed => session[exec.at] = exec.who

ToRun == ToSet(runnable(config.scenarios))

Silenced(s) == s.acts = <<>> /\ s.auth = "authenticated" /\ exec.blocked

\* A scenario that is still to run has no finding, another has one or was
\* silenced.
ToldInv ==
    /\ config \in Setting
    /\ exec.stage \notin {"none", "threw"} =>
          /\ exec.todo \in Seq(ToRun)
          /\ \A i, j \in 1..Len(exec.todo) : exec.todo[i] = exec.todo[j] => i = j
          /\ exec.stage # "next" => exec.todo # <<>>
          /\ exec.findings \in Seq([scenario : {s.id : s \in ToRun}, ok : BOOLEAN])
          /\ \A s \in ToRun :
                IF s \in ToSet(exec.todo) THEN FindingsOn(s) = {}
                ELSE \/ \E f \in DOMAIN exec.findings : FindingsOn(s) = {f}
                     \/ FindingsOn(s) = {} /\ Silenced(s)

\* A page that is loaded lets nobody else in.
LEMMA GotoKeepsOut ==
  ASSUME SessionOK, NEW target \in Target, NEW who, Alone(session, page.arriving, target, who),
         NEW url, Goto(url)
  PROVE  Alone(session', page'.arriving, target, who)
<1>1. PICK granted \in Granted(page.arriving) :
        /\ page' = [at |-> Lands(url, granted), arriving |-> <<>>]
        /\ session' = SessionAfter(Lands(url, granted), granted)
  BY DEF Goto
<1>2. DOMAIN granted = Target /\ granted[target] \in {who, Nobody}
  BY <1>1 DEF Granted, SessionOK, Alone
<1>3. session'[target] \in {who, Nobody}
  BY <1>1, <1>2 DEF SessionAfter
<1>4. ToSet(page'.arriving) = {}
  BY <1>1, ToSetOfOne
<1> QED
  BY <1>3, <1>4 DEF Alone

\* Nor does a login of one's own.
LEMMA LoginKeepsOut ==
  ASSUME SessionOK, PageOK, LoginStep, NEW target \in Target, NEW who,
         login.target = target, login.who = who, Alone(session, page.arriving, target, who)
  PROVE  Alone(session', page'.arriving, target, who)
<1>1. \/ UNCHANGED <<page, session>>
      \/ Goto(login.form.url)
      \/ /\ UNCHANGED session
         /\ \/ page' = [page EXCEPT !.arriving = Answer(target, who)]
            \/ page' = [page EXCEPT !.arriving = Welcome(target, who)]
  BY DEF LoginStep, LoginOpens, LoginSubmits, LoginJudges, PinSubmits, PinJudges
<1>2. CASE UNCHANGED <<page, session>>
  BY <1>2
<1>3. CASE Goto(login.form.url)
  BY <1>3, GotoKeepsOut
<1>4. CASE UNCHANGED session /\ (page'.arriving = Answer(target, who) \/ page'.arriving = Welcome(target, who))
  <2>1. \/ page'.arriving = <<>>
        \/ page'.arriving = <<[url |-> HomeUrl[target], target |-> target, who |-> who]>>
        \/ page'.arriving = <<[url |-> app.twoFactor[1], target |-> target, who |-> Nobody]>>
    BY <1>4, AnswerCases, Zenon
  <2>2. \A a \in ToSet(page'.arriving) : a.who = Nobody \/ (a.who = who /\ a.target = target)
    <3>1. CASE page'.arriving = <<>>
      BY <3>1, ToSetOfOne
    <3>2. CASE page'.arriving = <<[url |-> HomeUrl[target], target |-> target, who |-> who]>>
      BY <3>2, ToSetOfOne
    <3>3. CASE page'.arriving = <<[url |-> app.twoFactor[1], target |-> target, who |-> Nobody]>>
      BY <3>3, ToSetOfOne
    <3> QED
      BY <2>1, <3>1, <3>2, <3>3
  <2> QED
    BY <1>4, <2>2 DEF Alone
<1> QED
  BY <1>1, <1>2, <1>3, <1>4 DEF PageOK

\* Nor does an answer to it.
LEMMA ArrivesKeepsOut ==
  ASSUME SessionOK, PageOK, AppArrives, NEW target \in Target, NEW who,
         Alone(session, page.arriving, target, who)
  PROVE  /\ Alone(session', page'.arriving, target, who)
         /\ session[target] = who => session'[target] = who
<1>1. page.arriving # <<>> /\ page'.arriving = <<>>
  BY DEF AppArrives
<1>2. page.arriving[1] \in ToSet(page.arriving)
  BY <1>1, ToSetOfOne DEF PageOK
<1>3. \/ session'[target] = who
      \/ session' = session
  BY <1>2 DEF AppArrives, Alone, SessionOK
<1> QED
  BY <1>1, <1>3, ToSetOfOne DEF Alone

LEMMA PersonaStepKeeps ==
  ASSUME Shape, LoginInv, PersonaInv, ScenarioStep, cmd.kind = "behavior",
         cmd.stage = "scenarios", UNCHANGED cmd
  PROVE  PersonaInv'
<1> USE TargetAssumption
<1>e. ExecOK /\ SessionOK /\ LoginOK
  BY DEF Shape
<1>0. exec.stage # "none"
  BY DEF ScenarioStep, TakeScenario, BeginAct, Probe, LoggedIn, RunStep, StepsOver
<1>1. DOMAIN exec = ExecFields /\ exec.at \in Target
  BY <1>0, <1>e, ExecRecords
<1>q. ASSUME exec'.stage \in {"next", "act", "threw"} PROVE PersonaInv'
  BY <1>q DEF PersonaInv
<1>2. CASE TakeScenario
  <2>1. CASE exec'.stage \in {"next", "act"}
    BY <2>1, <1>q
  <2>2. CASE exec'.stage = "probe" /\ ~exec'.forced
    BY <2>2 DEF PersonaInv
  <2>3. CASE exec'.stage = "steps" /\ exec'.step = 1 /\ exec'.asked = "none"
    BY <2>3 DEF PersonaInv
  <2>4. CASE /\ exec'.stage = "steps" /\ exec'.step = 1 /\ exec'.asked = "unauthenticated"
             /\ exec'.at = RunTarget /\ exec'.late = (page.arriving # <<>>) /\ ClearCookies
    <3>1. session'[exec'.at] = Nobody
      BY <2>4 DEF ClearCookies, LoggedOut
    <3>2. ~exec'.late => page'.arriving = <<>>
      BY <2>4 DEF ClearCookies
    <3> QED
      BY <2>4, <3>1, <3>2 DEF PersonaInv
  <2> QED
    BY <1>1, <1>2, <2>1, <2>2, <2>3, <2>4 DEF TakeScenario, Ready, ExecFields
<1>3. CASE BeginAct
  <2>1. CASE exec'.stage = "next"
    BY <2>1, <1>q
  <2>2. CASE /\ exec'.stage = "probe" /\ exec'.late = (page.arriving # <<>>)
             /\ exec'.forced => ClearCookies
    <3>1. exec'.forced /\ ~exec'.late => session' = LoggedOut /\ page'.arriving = <<>>
      BY <2>2 DEF ClearCookies
    <3> QED
      BY <2>2, <3>1 DEF PersonaInv, LoggedOut
  <2>3. CASE /\ exec'.stage = "steps" /\ exec'.step = 1 /\ exec'.asked = "unauthenticated"
             /\ exec'.at \in Target /\ exec'.late = (page.arriving # <<>>) /\ ClearCookies
    <3>1. session'[exec'.at] = Nobody
      BY <2>3 DEF ClearCookies, LoggedOut
    <3>2. ~exec'.late => page'.arriving = <<>>
      BY <2>3 DEF ClearCookies
    <3> QED
      BY <2>3, <3>1, <3>2 DEF PersonaInv
  <2> QED
    BY ZenonT(40), <1>1, <1>3, <2>1, <2>2, <2>3 DEF BeginAct, Ready, ExecFields, Report, ForcesReauth
<1>4. CASE Probe
  <2>1. CASE exec'.stage = "threw"
    BY <2>1, <1>q
  <2>0. /\ UNCHANGED <<version, config>>
        /\ exec.forced /\ ~exec.late => session = LoggedOut /\ page.arriving = <<>>
    BY <1>4 DEF PersonaInv, Probe
  <2>a. ASSUME exec.forced, ~exec.late, Goto(FirstNav(Steps, exec.at))
        PROVE  Alone(session', page'.arriving, exec.at, exec.who)
    <3>1. Alone(session, page.arriving, exec.at, exec.who)
      BY <1>1, <2>0, <2>a, ToSetOfOne DEF Alone, LoggedOut
    <3> QED
      BY <1>1, <1>e, <2>a, <3>1, GotoKeepsOut
  <2>2. CASE /\ exec'.stage = "login"
             /\ login' = newLogin(exec.at, exec.form, exec.who, config.twoFactor)
             /\ exec'.at = exec.at /\ exec'.form = exec.form /\ exec'.who = exec.who
             /\ exec'.late = exec.late /\ exec'.forced = exec.forced
             /\ Goto(FirstNav(Steps, exec.at))
    <3>1. /\ login'.target = exec'.at /\ login'.form = exec'.form /\ login'.who = exec'.who
          /\ login'.twoFactor = config'.twoFactor
      BY <2>0, <2>2 DEF newLogin
    <3>2. cmd'.kind = "behavior" /\ cmd'.stage = "scenarios"
      OBVIOUS
    <3>3. exec'.forced /\ ~exec'.late => Alone(session', page'.arriving, exec'.at, exec'.who)
      BY <2>a, <2>2
    <3> QED
      BY <2>2, <3>1, <3>2, <3>3 DEF PersonaInv
  <2>3. CASE exec' = Ready(exec, "authenticated") /\ page'.at \notin PathForm[exec.at].path
             /\ Goto(FirstNav(Steps, exec.at))
    <3>1. /\ exec'.stage = "steps" /\ exec'.step = 1 /\ exec'.asked = "authenticated"
          /\ exec'.at = exec.at /\ exec'.todo = exec.todo /\ exec'.act = exec.act
          /\ exec'.late = exec.late /\ exec'.forced = exec.forced
          /\ exec'.who = exec.who /\ exec'.form = exec.form
      BY <2>3, <1>1 DEF Ready, ExecFields
    <3>2. ASSUME exec.forced, ~exec.late, StartsBehindLogin', LoginIsNoticed' PROVE FALSE
      <4>1. session = LoggedOut /\ page.arriving = <<>>
        BY <2>0, <3>2
      <4>2. StartsBehindLogin /\ SignIn[exec.at] \in PathForm[exec.at].path
        <5>1. Steps' = Steps
          BY <3>1 DEF Steps, IsMulti, Current
        <5>2. app' = app
          BY <2>0 DEF app
        <5> QED
          BY <3>1, <3>2, <5>1, <5>2 DEF StartsBehindLogin, LoginIsNoticed, FormIsKnown
      <4>3. Granted(<<>>) = {session}
        BY ToSetOfOne DEF Granted
      <4>4. page'.at = Lands(FirstNav(Steps, exec.at), session)
        BY <2>3, <4>1, <4>3 DEF Goto
      <4>5. page'.at = SignIn[exec.at]
        BY <1>1, <4>1, <4>2, <4>4 DEF Lands, LoggedOut, StartsBehindLogin
      <4> QED
        BY <2>3, <4>2, <4>5
    <3>3. cmd'.kind = "behavior" /\ cmd'.stage = "scenarios"
      OBVIOUS
    <3>4. exec'.forced /\ ~exec'.late =>
            /\ Alone(session', page'.arriving, exec'.at, exec'.who)
            /\ ~(StartsBehindLogin' /\ LoginIsNoticed')
      BY <2>a, <2>3, <3>1, <3>2
    <3> QED
      BY <3>1, <3>3, <3>4 DEF PersonaInv
  <2> QED
    BY <1>1, <1>4, <2>1, <2>2, <2>3 DEF Probe, ExecFields
<1>5. CASE LoggedIn
  <2>1. CASE exec'.stage = "next"
    BY <2>1, <1>q
  <2>2. CASE exec' = Ready(exec, "authenticated") /\ login.ok
    <3>1. /\ exec'.stage = "steps" /\ exec'.step = 1 /\ exec'.asked = "authenticated"
          /\ exec'.at = exec.at /\ exec'.form = exec.form /\ exec'.who = exec.who
          /\ exec'.late = exec.late /\ exec'.forced = exec.forced
      BY <2>2, <1>1 DEF Ready, ExecFields
    <3>2. /\ login.stage = "done" /\ exec.stage = "login"
          /\ UNCHANGED <<version, page, session, config>>
      BY <1>5 DEF LoggedIn, webVars
    <3>3. /\ login.target = exec.at /\ login.form = exec.form /\ login.who = exec.who
          /\ login.twoFactor = config.twoFactor
      BY <3>2 DEF PersonaInv
    <3>4. LoginIsNoticed => session[exec.at] = exec.who
      BY <2>2, <3>2, <3>3 DEF LoginInv, LoginIsNoticed
    <3>5. exec'.forced /\ ~exec'.late => Alone(session', page'.arriving, exec'.at, exec'.who)
      BY <3>1, <3>2 DEF PersonaInv
    <3>6. LoginIsNoticed' => session'[exec'.at] = exec'.who
      BY <3>1, <3>2, <3>4 DEF LoginIsNoticed, FormIsKnown, PinIsNoticed, app
    <3>7. cmd'.kind = "behavior" /\ cmd'.stage = "scenarios"
      OBVIOUS
    <3> QED
      BY <3>1, <3>5, <3>6, <3>7 DEF PersonaInv
  <2>3. Report(exec, FALSE).stage = "next" /\ DOMAIN Report(exec, FALSE) = ExecFields
    BY <1>0, <1>e, ExecRecords
  <2>4. [Report(exec, FALSE) EXCEPT !.blocked = @ \/ ~IsMulti].stage = "next"
    BY <2>3 DEF ExecFields
  <2> QED
    BY <1>5, <2>1, <2>2, <2>4 DEF LoggedIn
<1>6. CASE RunStep
  <2>1. CASE exec' = Report(exec, FALSE)
    BY <2>1, <1>0, <1>e, <1>q, ExecRecords
  <2>2. CASE exec' = [Binds(exec, Steps[exec.step]) EXCEPT !.step = @ + 1]
    <3>1. exec.step \in Nat \ {0} /\ exec.stage = "steps"
      BY <1>6 DEF PersonaInv, RunStep
    <3>2. exec'.stage = "steps" /\ exec'.step = exec.step + 1
      BY <1>1, <3>1, <2>2 DEF Binds, ExecFields
    <3> QED
      BY <3>1, <3>2 DEF PersonaInv
  <2> QED
    BY <1>6, <2>1, <2>2 DEF RunStep
<1>7. CASE StepsOver
  <2>1. exec'.stage \in {"act", "next"}
    BY <1>7, <1>1, <1>0, <1>e, ExecRecords DEF StepsOver, ExecFields
  <2> QED
    BY <2>1, <1>q
<1> QED
  BY <1>2, <1>3, <1>4, <1>5, <1>6, <1>7 DEF ScenarioStep

\* What goes on beside the scenarios leaves them alone.
LEMMA ScenariosApart ==
  ASSUME Shape, exec.stage # "none" => cmd.kind = "behavior" /\ cmd.stage = "scenarios",
         Elsewhere \/ Passes
  PROVE  /\ exec'.stage = "none" \/ (LoginTested /\ cmd'.kind = "behavior" /\ cmd'.stage = "scenarios")
         /\ UNCHANGED config
<1>c. CmdOK
  BY DEF Shape
<1>1. CASE Elsewhere
  <2>1. exec' = exec
    BY <1>1, ElsewhereKeeps
  <2>2. exec.stage = "none" /\ UNCHANGED config
    BY <1>1 DEF Elsewhere, Edit, Tick, AnalyzeStructure, SkipStructure, PhaseStructure, EmitAnalysis,
       RecordAnalysis, SkipBehavior, Emit, RecordBehavior, ClearStructure, ClearBehavior, Started,
       In, Apart, worldVars
  <2> QED
    BY <2>1, <2>2
<1>2. ASSUME NEW by, NEW explore, RunCli(by, explore) PROVE exec'.stage = "none" /\ UNCHANGED config
  BY <1>2 DEF RunCli, Started
<1>3. CASE SharedContext \/ Collected
  BY <1>3 DEF SharedContext, Collected, In, worldVars
<1>4. CASE LoginTested
  <2>1. DOMAIN cmd = BehaviorFields /\ cmd.kind = "behavior"
    BY <1>4, <1>c DEF LoginTested, In, CmdOK, Idle
  <2> QED
    BY <1>4, <2>1 DEF LoginTested, Enters, BehaviorFields, worldVars
<1>5. CASE ScenariosTested \/ Crash
  BY <1>5 DEF ScenariosTested, Crash, NoExec, worldVars
<1> QED
  BY <1>1, <1>2, <1>3, <1>4, <1>5 DEF Passes, AnalyzeBehavior, PhaseBehavior

LEMMA PersonaAction ==
  ASSUME Shape, LoginInv, PersonaInv, [Next]_vars
  PROVE  PersonaInv'
<1>t. exec.stage # "none" => cmd.kind = "behavior" /\ cmd.stage = "scenarios"
  BY DEF PersonaInv
<1>1. CASE Elsewhere \/ Passes
  <2>1. CASE exec'.stage = "none"
    BY <2>1 DEF PersonaInv
  <2>2. CASE LoginTested /\ cmd'.kind = "behavior" /\ cmd'.stage = "scenarios"
    <3>1. exec'.stage = "next"
      BY <2>2 DEF LoginTested, newExec
    <3> QED
      BY <2>2, <3>1 DEF PersonaInv
  <2> QED
    BY <1>1, <1>t, <2>1, <2>2, ScenariosApart
<1>2. CASE UNCHANGED vars
  BY <1>2 DEF vars, browserVars, worldVars, PersonaInv, StartsBehindLogin, LoginIsNoticed, FormIsKnown,
              PinIsNoticed, app, Steps, IsMulti, Current
<1>3. CASE BrowserStep
  <2>1. cmd.kind = "behavior" /\ UNCHANGED cmd
    BY <1>3 DEF BrowserStep
  <2>2. CASE cmd.stage = "collect" /\ UNCHANGED exec
    <3>1. exec'.stage = "none"
      BY <2>2 DEF PersonaInv
    <3> QED
      BY <3>1 DEF PersonaInv
  <2>3. CASE LoginStep /\ UNCHANGED <<exec, config>>
    <3>1. login.stage # "none"
      BY <2>3 DEF LoginStep, LoginOpens, LoginSubmits, LoginJudges, PinSubmits, PinJudges
    <3>2. exec.stage \in {"none", "login"}
      BY <3>1, <1>t DEF Shape, LoginHasItsTime
    <3>3. DOMAIN login = LoginFields /\ SessionOK /\ PageOK /\ login.target \in Target
      BY <3>1 DEF Shape, LoginOK, NoLogin
    <3>4. /\ login'.target = login.target /\ login'.form = login.form /\ login'.who = login.who
          /\ login'.twoFactor = login.twoFactor
      BY <2>3, <3>3 DEF LoginStep, LoginOpens, LoginSubmits, LoginJudges, PinSubmits, PinJudges,
                        LoginFields, Judged
    <3>5. ASSUME exec.stage = "login", exec.forced, ~exec.late
          PROVE  Alone(session', page'.arriving, exec.at, exec.who)
      <4>1. login.target = exec.at /\ login.who = exec.who /\ Alone(session, page.arriving, exec.at, exec.who)
        BY <3>1, <3>5 DEF PersonaInv
      <4> QED
        BY <2>3, <3>3, <4>1, LoginKeepsOut
    <3> QED
      BY <2>1, <2>3, <3>1, <3>2, <3>4, <3>5 DEF PersonaInv
  <2>4. CASE cmd.stage = "scenarios" /\ ScenarioStep
    BY <2>1, <2>4, PersonaStepKeeps
  <2>5. CASE AppArrives /\ UNCHANGED <<login, exec, config>>
    <3>1. page.arriving # <<>> /\ page'.arriving = <<>> /\ UNCHANGED version
      BY <2>5 DEF AppArrives
    <3>2. ASSUME exec.stage # "none", Alone(session, page.arriving, exec.at, exec.who)
          PROVE  /\ Alone(session', page'.arriving, exec.at, exec.who)
                 /\ session[exec.at] = exec.who => session'[exec.at] = exec.who
      <4>1. exec.at \in Target /\ SessionOK /\ PageOK
        BY <3>2 DEF Shape, ExecOK, NoExec
      <4> QED
        BY <2>5, <3>2, <4>1, ArrivesKeepsOut
    <3>3. (StartsBehindLogin' <=> StartsBehindLogin) /\ (LoginIsNoticed' <=> LoginIsNoticed)
      BY <2>5, <3>1 DEF StartsBehindLogin, LoginIsNoticed, FormIsKnown, PinIsNoticed, app, Steps,
                        IsMulti, Current
    <3>4. exec'.stage = "login" /\ exec'.forced /\ ~exec'.late =>
            Alone(session', page'.arriving, exec'.at, exec'.who)
      BY <2>5, <3>2 DEF PersonaInv
    <3>5. ASSUME exec'.stage = "steps", exec'.step = 1, exec'.asked = "authenticated", ~exec'.late,
                 exec'.forced
          PROVE  /\ Alone(session', page'.arriving, exec'.at, exec'.who)
                 /\ StartsBehindLogin' /\ LoginIsNoticed' => session'[exec'.at] = exec'.who
      <4>1. /\ Alone(session, page.arriving, exec.at, exec.who)
            /\ StartsBehindLogin /\ LoginIsNoticed => session[exec.at] = exec.who
        BY <2>5, <3>5 DEF PersonaInv
      <4> QED
        BY <2>5, <3>2, <3>3, <3>5, <4>1
    <3> QED
      BY <2>1, <2>5, <3>1, <3>4, <3>5 DEF PersonaInv
  <2> QED
    BY <1>3, <2>2, <2>3, <2>4, <2>5 DEF BrowserStep
<1> QED
  BY <1>1, <1>2, <1>3, NextParts

LEMMA TailIs ==
    ASSUME NEW T, NEW s \in Seq(T), s # <<>>, \A i, j \in 1..Len(s) : s[i] = s[j] => i = j
    PROVE  /\ Tail(s) \in Seq(T) /\ Head(s) \in T /\ Head(s) \in ToSet(s)
           /\ ToSet(Tail(s)) = ToSet(s) \ {Head(s)}
           /\ \A i, j \in 1..Len(Tail(s)) : Tail(s)[i] = Tail(s)[j] => i = j
<1>1. /\ Len(s) \in Nat \ {0} /\ Head(s) = s[1] /\ Tail(s) \in Seq(T) /\ Len(Tail(s)) = Len(s) - 1
      /\ \A i \in 1..Len(Tail(s)) : Tail(s)[i] = s[i + 1]
      /\ DOMAIN s = 1..Len(s) /\ DOMAIN Tail(s) = 1..Len(Tail(s))
  OBVIOUS
<1>2. Head(s) \in T
  BY <1>1
<1>3. ToSet(s) = {s[i] : i \in 1..Len(s)} /\ ToSet(Tail(s)) = {Tail(s)[i] : i \in 1..Len(Tail(s))}
  BY <1>1 DEF ToSet
<1>4. ASSUME NEW x \in ToSet(Tail(s)) PROVE x \in ToSet(s) /\ x # Head(s)
  <2>1. PICK i \in 1..Len(Tail(s)) : x = Tail(s)[i]
    BY <1>3
  <2>2. x = s[i + 1] /\ i + 1 \in 1..Len(s) /\ i + 1 # 1 /\ 1 \in 1..Len(s)
    BY <1>1, <2>1
  <2> QED
    BY <1>1, <1>3, <2>2
<1>5. ASSUME NEW x \in ToSet(s), x # Head(s) PROVE x \in ToSet(Tail(s))
  <2>1. PICK i \in 1..Len(s) : x = s[i]
    BY <1>3
  <2>2. i - 1 \in 1..Len(Tail(s)) /\ Tail(s)[i - 1] = x
    BY <1>1, <1>5, <2>1
  <2> QED
    BY <1>3, <2>2
<1>6. ASSUME NEW i \in 1..Len(Tail(s)), NEW j \in 1..Len(Tail(s)), Tail(s)[i] = Tail(s)[j] PROVE i = j
  <2>1. s[i + 1] = s[j + 1] /\ i + 1 \in 1..Len(s) /\ j + 1 \in 1..Len(s)
    BY <1>1, <1>6
  <2> QED
    BY <2>1
<1>7. Head(s) \in ToSet(s)
  BY <1>1, <1>3
<1> QED
  BY <1>1, <1>2, <1>4, <1>5, <1>6, <1>7

\* The scenarios to run are those of the configuration that log in nowhere.
LEMMA ToRunIs ==
    ASSUME config \in Setting
    PROVE  /\ ToRun = {s \in ToSet(config.scenarios) : ~isLoginScenario(s)}
           /\ runnable(config.scenarios) \in Seq(ToRun)
           /\ \A i, j \in 1..Len(runnable(config.scenarios)) :
                 runnable(config.scenarios)[i] = runnable(config.scenarios)[j] => i = j
           /\ \A s, t \in ToRun : s.id = t.id => s = t
<1> DEFINE all == config.scenarios
           kept == {s \in ToSet(all) : ~isLoginScenario(s)}
<1>1. all \in Seq(ToSet(all))
  BY SettingAssumption
<1>2. DOMAIN all = 1..Len(all) /\ ToSet(all) = {all[i] : i \in 1..Len(all)}
  <2>1. DOMAIN all = 1..Len(all)
    BY <1>1
  <2> QED
    BY <2>1 DEF ToSet
<1>3. \A i, j \in 1..Len(all) : all[i].id = all[j].id => i = j
  BY <1>2, SettingAssumption
<1>4. \A i, j \in 1..Len(all) : all[i] = all[j] => i = j
  BY <1>3
<1>5. runnable(all) = Only(all, kept)
  BY DEF runnable
<1>6. /\ Only(all, kept) \in Seq(ToSet(all))
      /\ ToSet(Only(all, kept)) = ToSet(all) \cap kept
      /\ \A i, j \in 1..Len(Only(all, kept)) : Only(all, kept)[i] = Only(all, kept)[j] => i = j
  <2> HIDE DEF kept, all
  <2> QED
    BY <1>1, <1>4, OnlyIs
<1>7. ToRun = kept
  BY <1>5, <1>6 DEF ToRun
<1>8. Only(all, kept) \in Seq(kept)
  <2> DEFINE only == Only(all, kept)
  <2>1. DOMAIN only = 1..Len(only) /\ Len(only) \in Nat /\ \A i \in 1..Len(only) : only[i] \in ToSet(only)
    <3>1. only \in Seq(ToSet(all))
      BY <1>6
    <3>2. DOMAIN only = 1..Len(only) /\ Len(only) \in Nat
      <4> HIDE DEF only
      <4> QED
        BY <3>1
    <3> QED
      BY <3>2 DEF ToSet
  <2>2. \A i \in 1..Len(only) : only[i] \in kept
    BY <1>6, <2>1
  <2>3. only \in Seq(ToSet(all))
    BY <1>6
  <2> HIDE DEF only, kept
  <2>4. only \in Seq(kept)
    BY <2>1, <2>2, <2>3
  <2> QED
    BY <2>4 DEF only
<1>9. \A s, t \in kept : s.id = t.id => s = t
  BY <1>2, <1>3
<1> QED
  BY <1>5, <1>6, <1>7, <1>8, <1>9

\* What is told stays told while a scenario runs.
LEMMA ToldStays ==
    ASSUME ToldInv, exec.stage \notin {"none", "threw"}, UNCHANGED config,
           exec'.todo = exec.todo, exec'.findings = exec.findings,
           exec.blocked => exec'.blocked, exec'.stage # "next" => exec.todo # <<>>
    PROVE  ToldInv'
<1>1. ToRun' = ToRun
  BY DEF ToRun
<1>2. \A s : FindingsOn(s)' = FindingsOn(s) /\ (Silenced(s) => Silenced(s)')
  BY DEF FindingsOn, Silenced
<1> QED
  BY <1>1, <1>2 DEF ToldInv

LEMMA ToldSkips ==
    ASSUME ToldInv, exec.stage \notin {"none", "threw"}, exec.todo # <<>>, UNCHANGED config,
           Silenced(Current), exec'.stage = "next", exec'.todo = Tail(exec.todo),
           exec'.findings = exec.findings, exec'.blocked = exec.blocked
    PROVE  ToldInv'
<1>1. ToRun' = ToRun
  BY DEF ToRun
<1>2. \A s : FindingsOn(s)' = FindingsOn(s) /\ (Silenced(s) => Silenced(s)')
  BY DEF FindingsOn, Silenced
<1>3. /\ Tail(exec.todo) \in Seq(ToRun) /\ Current \in ToRun
      /\ ToSet(Tail(exec.todo)) = ToSet(exec.todo) \ {Current} /\ Current \in ToSet(exec.todo)
      /\ \A i, j \in 1..Len(Tail(exec.todo)) : Tail(exec.todo)[i] = Tail(exec.todo)[j] => i = j
  BY TailIs DEF ToldInv, Current
<1>4. ASSUME NEW s \in ToRun, s \notin ToSet(exec'.todo)
      PROVE  (\E f \in DOMAIN exec'.findings : FindingsOn(s)' = {f}) \/ (FindingsOn(s)' = {} /\ Silenced(s)')
  <2>1. CASE s = Current
    BY <1>2, <1>3, <2>1 DEF ToldInv
  <2>2. CASE s # Current
    BY <1>2, <1>3, <1>4, <2>2 DEF ToldInv
  <2> QED
    BY <2>1, <2>2
<1>5. ASSUME NEW s \in ToRun, s \in ToSet(exec'.todo) PROVE FindingsOn(s)' = {}
  BY <1>2, <1>3, <1>5 DEF ToldInv
<1> QED
  BY <1>1, <1>3, <1>4, <1>5 DEF ToldInv

LEMMA ToldReports ==
    ASSUME ToldInv, exec.stage \notin {"none", "threw"}, exec.todo # <<>>, UNCHANGED config,
           NEW ok \in BOOLEAN, exec'.stage = "next", exec'.todo = Tail(exec.todo),
           exec'.findings = Append(exec.findings, [scenario |-> Current.id, ok |-> ok]),
           exec.blocked => exec'.blocked
    PROVE  ToldInv'
<1> DEFINE F == [scenario : {s.id : s \in ToRun}, ok : BOOLEAN]
           new == [scenario |-> Current.id, ok |-> ok]
           old == exec.findings
<1>1. ToRun' = ToRun
  BY DEF ToRun
<1>2. \A s : Silenced(s) => Silenced(s)'
  BY DEF Silenced
<1>3. /\ Tail(exec.todo) \in Seq(ToRun) /\ Current \in ToRun
      /\ ToSet(Tail(exec.todo)) = ToSet(exec.todo) \ {Current} /\ Current \in ToSet(exec.todo)
      /\ \A i, j \in 1..Len(Tail(exec.todo)) : Tail(exec.todo)[i] = Tail(exec.todo)[j] => i = j
  BY TailIs DEF ToldInv, Current
<1>4. old \in Seq(F) /\ new \in F /\ new.scenario = Current.id
  BY <1>3 DEF ToldInv
<1>5. /\ Append(old, new) \in Seq(F) /\ Len(Append(old, new)) = Len(old) + 1 /\ Len(old) \in Nat
      /\ \A i \in 1..Len(old) : Append(old, new)[i] = old[i]
      /\ Append(old, new)[Len(old) + 1] = new
      /\ DOMAIN old = 1..Len(old) /\ DOMAIN Append(old, new) = 1..Len(old) + 1
  <2> HIDE DEF F, new, old
  <2>1. /\ Append(old, new) \in Seq(F) /\ Len(Append(old, new)) = Len(old) + 1
        /\ \A i \in 1..Len(old) : Append(old, new)[i] = old[i]
        /\ Append(old, new)[Len(old) + 1] = new
    BY <1>4, AppendIs
  <2> QED
    BY <1>4, <2>1
<1>6. exec'.findings = Append(old, new)
  OBVIOUS
<1>7. ASSUME NEW s
      PROVE  FindingsOn(s)' = FindingsOn(s) \cup (IF s.id = Current.id THEN {Len(old) + 1} ELSE {})
  <2> HIDE DEF F, new
  <2>1. FindingsOn(s)' = {f \in 1..Len(old) + 1 : Append(old, new)[f].scenario = s.id}
    BY <1>5, <1>6 DEF FindingsOn
  <2>2. FindingsOn(s) = {f \in 1..Len(old) : old[f].scenario = s.id}
    BY <1>5 DEF FindingsOn
  <2>3. \A f \in 1..Len(old) + 1 : f \in 1..Len(old) \/ f = Len(old) + 1
    BY <1>5
  <2>4. \A f \in 1..Len(old) : f \in 1..Len(old) + 1 /\ f # Len(old) + 1
    BY <1>5
  <2>5. Len(old) + 1 \in 1..Len(old) + 1
    BY <1>5
  <2> HIDE DEF old
  <2> QED
    BY <1>4, <1>5, <2>1, <2>2, <2>3, <2>4, <2>5
<1>8. \A s \in ToRun : s.id = Current.id => s = Current
  BY <1>3, ToRunIs DEF ToldInv
<1>9. ASSUME NEW s \in ToRun, s \notin ToSet(exec'.todo)
      PROVE  (\E f \in DOMAIN exec'.findings : FindingsOn(s)' = {f}) \/ (FindingsOn(s)' = {} /\ Silenced(s)')
  <2>1. CASE s = Current
    <3>1. FindingsOn(s) = {}
      BY <1>3, <2>1 DEF ToldInv
    <3>2. FindingsOn(s)' = {Len(old) + 1}
      BY <1>7, <2>1, <3>1
    <3>3. Len(old) + 1 \in DOMAIN exec'.findings
      BY <1>5, <1>6
    <3> QED
      BY <3>2, <3>3
  <2>2. CASE s # Current
    <3>1. FindingsOn(s)' = FindingsOn(s)
      BY <1>7, <1>8, <2>2
    <3>2. s \notin ToSet(exec.todo)
      BY <1>3, <1>9, <2>2
    <3>3. (\E f \in DOMAIN exec.findings : FindingsOn(s) = {f}) \/ (FindingsOn(s) = {} /\ Silenced(s))
      BY <3>2 DEF ToldInv
    <3>4. \A f \in DOMAIN exec.findings : f \in DOMAIN exec'.findings
      BY <1>5, <1>6
    <3> QED
      BY <1>2, <3>1, <3>3, <3>4
  <2> QED
    BY <2>1, <2>2
<1>10. ASSUME NEW s \in ToRun, s \in ToSet(exec'.todo) PROVE FindingsOn(s)' = {}
  BY <1>3, <1>7, <1>8, <1>10 DEF ToldInv
<1>11. exec'.findings \in Seq(F)
  BY <1>5, <1>6
<1> QED
  BY <1>1, <1>3, <1>9, <1>10, <1>11 DEF ToldInv

LEMMA ToldStep ==
  ASSUME Shape, ToldInv, ScenarioStep
  PROVE  ToldInv'
<1>0. exec.stage \in {"next", "act", "probe", "login", "steps"} /\ UNCHANGED config
  BY DEF ScenarioStep, TakeScenario, BeginAct, Probe, LoggedIn, RunStep, StepsOver
<1>1. DOMAIN exec = ExecFields
  BY <1>0, ExecRecords DEF Shape
<1>q. exec.stage # "next" => exec.todo # <<>>
  BY <1>0 DEF ToldInv
<1>r. ASSUME NEW ok \in BOOLEAN, exec.todo # <<>>, exec' = Report(exec, ok) PROVE ToldInv'
  <2>1. /\ exec'.stage = "next" /\ exec'.todo = Tail(exec.todo)
        /\ exec'.findings = Append(exec.findings, [scenario |-> Current.id, ok |-> ok])
        /\ exec'.blocked = exec.blocked
    BY <1>1, <1>r DEF Report, ExecFields
  <2> QED
    BY <1>0, <1>r, <2>1, ToldReports
<1>s. ASSUME exec.todo # <<>>, exec'.todo = exec.todo, exec'.findings = exec.findings,
             exec'.blocked = exec.blocked
      PROVE  ToldInv'
  BY <1>0, <1>s, ToldStays
<1>2. CASE TakeScenario
  <2>1. CASE ~IsMulti /\ Current.auth = "authenticated" /\ exec.blocked
             /\ exec' = [exec EXCEPT !.todo = Tail(@)]
    <3>1. /\ exec'.stage = "next" /\ exec'.todo = Tail(exec.todo)
          /\ exec'.findings = exec.findings /\ exec'.blocked = exec.blocked /\ exec.todo # <<>>
      BY <1>1, <1>2, <2>1 DEF ExecFields, TakeScenario
    <3>2. Silenced(Current)
      BY <2>1 DEF Silenced, IsMulti
    <3> QED
      BY <1>0, <3>1, <3>2, ToldSkips
  <2>2. CASE exec'.todo = exec.todo /\ exec'.findings = exec.findings /\ exec'.blocked = exec.blocked
    BY <1>2, <1>s, <2>2 DEF TakeScenario
  <2> QED
    BY <1>1, <1>2, <2>1, <2>2 DEF TakeScenario, Ready, ExecFields
<1>3. CASE BeginAct
  <2>1. CASE exec' = Report(exec, FALSE)
    BY <1>3, <1>q, <1>r, <2>1 DEF BeginAct
  <2>2. CASE exec'.todo = exec.todo /\ exec'.findings = exec.findings /\ exec'.blocked = exec.blocked
    BY <1>3, <1>q, <1>s, <2>2 DEF BeginAct
  <2> DEFINE Keeps(h) == /\ DOMAIN h = ExecFields
                         /\ h.todo = exec.todo /\ h.findings = exec.findings
                         /\ h.blocked = exec.blocked
             persona == PersonaOf(Current.acts[exec.act])
             target  == IF persona.target = None THEN RunTarget ELSE persona.target
             here    == [exec EXCEPT !.at = target,
                            !.who = IF persona.cred = None THEN config.creds[target] ELSE persona.cred,
                            !.form = IF persona.target = None THEN PathForm[RunTarget] ELSE UrlForm[target],
                            !.forced = exec.act > 1 /\ exec.prev.target = target
                                       /\ exec.prev.persona # persona.name,
                            !.late = page.arriving # <<>>,
                            !.prev = [persona |-> persona.name, target |-> target]]
  <2>3. \/ exec' = Report(exec, FALSE)
        \/ exec' = [here EXCEPT !.stage = "probe"]
        \/ exec' = Ready(here, "unauthenticated")
    BY <1>3 DEF BeginAct
  <2>4. Keeps(here)
    BY <1>1 DEF ExecFields
  <2>5. ASSUME NEW h, Keeps(h)
        PROVE  Keeps([h EXCEPT !.stage = "probe"]) /\ Keeps(Ready(h, "unauthenticated"))
    BY <2>5 DEF ExecFields, Ready
  <2> HIDE DEF here
  <2> QED
    BY <2>1, <2>2, <2>3, <2>4, <2>5
<1>4. CASE Probe
  <2>1. exec'.todo = exec.todo /\ exec'.findings = exec.findings /\ exec'.blocked = exec.blocked
    BY <1>1, <1>4 DEF Probe, Ready, ExecFields
  <2> QED
    BY <1>4, <1>q, <1>s, <2>1 DEF Probe
<1>5. CASE LoggedIn
  <2>1. CASE exec' = Ready(exec, "authenticated")
    <3>1. exec'.todo = exec.todo /\ exec'.findings = exec.findings /\ exec'.blocked = exec.blocked
      BY <1>1, <2>1 DEF Ready, ExecFields
    <3> QED
      BY <1>5, <1>q, <1>s, <3>1 DEF LoggedIn
  <2>2. CASE exec' = [Report(exec, FALSE) EXCEPT !.blocked = @ \/ ~IsMulti]
    <3> DEFINE e == Report(exec, FALSE)
    <3>1. /\ DOMAIN e = ExecFields /\ e.stage = "next" /\ e.todo = Tail(exec.todo)
          /\ e.findings = Append(exec.findings, [scenario |-> Current.id, ok |-> FALSE])
          /\ e.blocked = exec.blocked
      BY <1>1 DEF Report, ExecFields
    <3> HIDE DEF e
    <3>2. exec' = [e EXCEPT !.blocked = @ \/ ~IsMulti]
      BY <2>2 DEF e
    <3>3. /\ exec'.stage = "next" /\ exec'.todo = Tail(exec.todo)
          /\ exec'.findings = Append(exec.findings, [scenario |-> Current.id, ok |-> FALSE])
      BY <3>1, <3>2 DEF ExecFields
    <3>4. exec'.blocked = (e.blocked \/ ~IsMulti)
      BY <3>1, <3>2 DEF ExecFields
    <3>5. exec.blocked => exec'.blocked
      BY <3>1, <3>4, Zenon
    <3>6. exec.todo # <<>>
      BY <1>5, <1>q DEF LoggedIn
    <3> QED
      BY <1>0, <3>3, <3>5, <3>6, ToldReports
  <2> QED
    BY <1>5, <2>1, <2>2 DEF LoggedIn
<1>6. CASE RunStep
  <2>1. CASE exec' = Report(exec, FALSE)
    BY <1>6, <1>q, <1>r, <2>1 DEF RunStep
  <2>2. CASE exec' = [Binds(exec, Steps[exec.step]) EXCEPT !.step = @ + 1]
    <3>1. exec'.todo = exec.todo /\ exec'.findings = exec.findings /\ exec'.blocked = exec.blocked
      BY <1>1, <2>2 DEF Binds, ExecFields
    <3> QED
      BY <1>6, <1>q, <1>s, <3>1 DEF RunStep
  <2> QED
    BY <1>6, <2>1, <2>2 DEF RunStep
<1>7. CASE StepsOver
  <2>1. CASE exec' = Report(exec, TRUE)
    BY <1>7, <1>q, <1>r, <2>1 DEF StepsOver
  <2>2. CASE exec'.todo = exec.todo /\ exec'.findings = exec.findings /\ exec'.blocked = exec.blocked
    BY <1>7, <1>q, <1>s, <2>2 DEF StepsOver
  <2> QED
    BY <1>1, <1>7, <2>1, <2>2 DEF StepsOver, ExecFields
<1> QED
  BY <1>2, <1>3, <1>4, <1>5, <1>6, <1>7 DEF ScenarioStep

LEMMA ToldAction ==
  ASSUME Shape, PersonaInv, ToldInv, [Next]_vars
  PROVE  ToldInv'
<1>t. exec.stage # "none" => cmd.kind = "behavior" /\ cmd.stage = "scenarios"
  BY DEF PersonaInv
<1>1. CASE Elsewhere \/ Passes
  <2>0. UNCHANGED config
    BY <1>1, <1>t, ScenariosApart
  <2>1. CASE exec'.stage = "none"
    BY <2>0, <2>1 DEF ToldInv
  <2>2. CASE LoginTested
    <3> DEFINE all == runnable(config.scenarios)
               some == [scenario : {s.id : s \in ToRun}, ok : BOOLEAN]
    <3>1. exec'.todo = all /\ exec'.findings = <<>> /\ exec'.stage = "next"
      BY <2>2 DEF LoginTested, newExec
    <3>2. ToRun' = ToRun
      BY <2>0 DEF ToRun
    <3>3. ToSet(all) = ToRun
      BY DEF ToRun
    <3>4. config \in Setting
      BY DEF ToldInv
    <3>5. all \in Seq(ToRun) /\ \A i, j \in 1..Len(all) : all[i] = all[j] => i = j
      BY <3>4, ToRunIs
    <3>6. \A s : FindingsOn(s)' = {}
      BY <3>1 DEF FindingsOn
    <3>7. <<>> \in Seq(some)
      <4> HIDE DEF some
      <4> QED
        OBVIOUS
    <3> HIDE DEF all
    <3> QED
      BY <2>0, <3>1, <3>2, <3>3, <3>4, <3>5, <3>6, <3>7 DEF ToldInv
  <2> QED
    BY <1>1, <1>t, <2>1, <2>2, ScenariosApart
<1>2. CASE UNCHANGED vars
  BY <1>2 DEF vars, browserVars, worldVars, ToldInv, ToRun, FindingsOn, Silenced
<1>3. CASE BrowserStep
  <2>1. CASE UNCHANGED <<exec, config>>
    BY <2>1 DEF ToldInv, ToRun, FindingsOn, Silenced
  <2>2. CASE ScenarioStep
    BY <2>2, ToldStep
  <2> QED
    BY <1>3, <2>1, <2>2 DEF BrowserStep
<1> QED
  BY <1>1, <1>2, <1>3, NextParts

LEMMA ToldHolds == Spec => [](PersonaInv /\ ToldInv)
<1>1. Init => PersonaInv /\ ToldInv
  BY DEF Init, NoExec, PersonaInv, ToldInv
<1>2. (PersonaInv /\ ToldInv) /\ (Shape /\ LoginInv) /\ [Next]_vars => (PersonaInv /\ ToldInv)'
  BY PersonaAction, ToldAction
<1> QED
  BY <1>1, <1>2, ShapeHolds, LoginInvHolds, PTL DEF Spec

\* However the answers to its logins are delayed, whoever its acts are for and
\* wherever it fails: a stage of scenarios runs each of them as it is declared
\* and tells of each (executeScenarios.ts: executeScenarios, runMultiAct;
\* session.ts: ensureAuthenticated, ensureUnauthenticated).
THEOREM AcquisitionScenariosRunAsDeclared == Spec => []ScenariosRunAsDeclared
<1>1. PersonaInv /\ ToldInv => ScenariosRunAsDeclared
  <2> SUFFICES ASSUME PersonaInv, ToldInv PROVE ScenariosRunAsDeclared
    OBVIOUS
  <2>1. ASSUME exec.stage # "none", ScenariosOver, NEW s \in ToSet(config.scenarios), ~isLoginScenario(s)
        PROVE  \/ \E f \in DOMAIN exec.findings : FindingsOn(s) = {f}
               \/ FindingsOn(s) = {} /\ Silenced(s)
    <3>1. s \in ToRun
      BY <2>1, ToRunIs DEF ToldInv
    <3>2. exec.stage = "next" /\ exec.todo = <<>>
      BY <2>1 DEF ScenariosOver
    <3>3. s \notin ToSet(exec.todo)
      BY <3>2, ToSetOfOne
    <3> QED
      BY <3>1, <3>2, <3>3 DEF ToldInv
  <2>2. ASSUME exec.stage = "steps", exec.step = 1, ~exec.late
        PROVE  /\ exec.asked = "unauthenticated" => session[exec.at] = Nobody
               /\ exec.asked = "authenticated" /\ exec.forced =>
                     /\ session[exec.at] \in {exec.who, Nobody}
                     /\ StartsBehindLogin /\ LoginIsNoticed => session[exec.at] = exec.who
    BY <2>2 DEF PersonaInv, Alone
  <2> QED
    BY <2>1, <2>2 DEF ScenariosRunAsDeclared, Silenced
<1> QED
  BY <1>1, ToldHolds, PTL

-------------------------------------------------------------------------------
(* What a crawl has found.                                                   *)

CrawlFields == {"stage", "target", "todo", "visitedUrls", "rawPages", "queue", "visited", "results",
                "edges", "at", "candidates", "failed", "cut", "held"}

Searching == crawl.stage \in {"discover", "click", "done"}

Listed(s) == s \in Seq(ToSet(s))

\* A crawl has one target; its search has a queue of URLs and knows which page
\* it looks at.  From the base page on no answer is under way.
QueueOK ==
    \A i \in DOMAIN crawl.queue :
        LET item == crawl.queue[i]
        IN /\ DOMAIN item = {"url", "depth", "from"}
           /\ item.url \in Url /\ item.depth \in Nat /\ TargetOf[item.url] = crawl.target

SearchOK ==
    /\ crawl.failed \subseteq crawl.visited
    /\ Listed(crawl.queue) /\ QueueOK /\ Listed(crawl.candidates)
    /\ \A c \in ToSet(crawl.candidates) : c.goes \in Url \cup {NoUrl}
    /\ crawl.stage = "click" =>
          /\ crawl.at.url \in Url /\ TargetOf[crawl.at.url] = crawl.target /\ crawl.at.depth \in Nat
          /\ Key[crawl.at.url] \in crawl.visited \ crawl.failed

CrawlFound ==
    /\ DOMAIN crawl = CrawlFields /\ crawl.target \in Target
    /\ crawl.stage \in {"login", "base", "scenario", "discover", "click", "done", "failed"}
    /\ crawl.todo \in Seq(Url) /\ crawl.rawPages \in Seq(Url) /\ crawl.results \in Seq(Url)
    /\ Listed(crawl.edges) /\ crawl.visited \subseteq Url /\ crawl.held \in BOOLEAN
    /\ crawl.stage \in {"scenario", "discover", "click", "done"} => page.arriving = <<>>
    /\ crawl.stage \in {"login", "base", "scenario"} =>
          /\ crawl.visited = {} /\ crawl.failed = {} /\ crawl.results = <<>>
          /\ crawl.edges = <<>> /\ crawl.queue = <<>> /\ crawl.candidates = <<>>
    /\ SearchOK
    /\ crawl.stage = "done" =>
          /\ crawl.queue = <<>> \/ Enough(crawl.results)
          /\ \A i \in DOMAIN crawl.results :
                Key[crawl.results[i]] \in PageKeys(crawl.rawPages) \/ Enough(crawl.rawPages)

CrawlOK == crawl = NoCrawl \/ crawl = [stage |-> "failed"] \/ CrawlFound

CrawlShape ==
    /\ config \in Setting /\ CrawlOK
    /\ crawl.stage # "none" => In("collect")

\* The forest: a page that edges leave is the base page, was reached by an edge
\* before, or is one no request ends at.
BaseKey == Key[BaseUrl[crawl.target]]
Reached(k) == \E i \in DOMAIN crawl.edges : crawl.edges[i].to = k
NeverLands(k) ==
    /\ \A t \in Target : Key[SignIn[t]] # k
    /\ \A url \in Url : TargetOf[url] = crawl.target => Key[Lands(url, session)] # k
Placed(k) == k = BaseKey \/ Reached(k) \/ NeverLands(k)

EdgeOK(i) ==
    LET k == crawl.edges[i].from
    IN \/ k = BaseKey
       \/ \E j \in 1..i - 1 : crawl.edges[j].to = k
       \/ k \in crawl.visited /\ ~Reached(k) /\ NeverLands(k)

Forest ==
    /\ \A k \in crawl.visited \ crawl.failed : Placed(k)
    /\ \A i \in DOMAIN crawl.queue :
          LET item == crawl.queue[i]
          IN IF item.from = NoUrl THEN Key[item.url] = BaseKey \/ Reached(Key[item.url])
             ELSE item.from \in crawl.visited \ crawl.failed
    /\ \A i \in DOMAIN crawl.edges : EdgeOK(i)

ForestInv == Searching /\ KeysTell => Forest

\* The search, where "depths" tells at which depth each page was visited: the
\* queue ascends, and what a page leads to is visited or queued no deeper than
\* one below it.
Known(visited, queue, depths, k, depth) ==
    \/ k \in visited /\ depths[k] <= depth
    \/ \E i \in DOMAIN queue : Key[queue[i].url] = k /\ queue[i].depth <= depth

QueueAscends(visited, queue, depths) ==
    /\ \A i, j \in DOMAIN queue :
          /\ i < j => queue[i].depth <= queue[j].depth
          /\ queue[j].depth <= queue[i].depth + 1
    /\ \A k \in visited, i \in DOMAIN queue : depths[k] <= queue[i].depth

KnownTo(depths, k, depth) == Known(crawl.visited, crawl.queue, depths, k, depth)

Clicking(k) == crawl.stage = "click" /\ k = Key[crawl.at.url]

LinksKnown(depths) ==
    \A k \in crawl.visited \ crawl.failed : depths[k] < MaxDepth =>
        \A url \in Url : Key[url] = k =>
            /\ \A l \in LinksFrom(url) : KnownTo(depths, Key[l], depths[k] + 1)
            /\ ~Clicking(k) => \A u \in ClicksFrom(url) : KnownTo(depths, Key[u], depths[k] + 1)

\* At the page whose elements are clicked.
HereOK(depths) ==
    LET here == Key[crawl.at.url]
    IN /\ depths[here] = crawl.at.depth
       /\ \A k \in crawl.visited : depths[k] <= crawl.at.depth
       /\ \A i \in DOMAIN crawl.queue :
             crawl.at.depth <= crawl.queue[i].depth /\ crawl.queue[i].depth <= crawl.at.depth + 1
       /\ \A c \in ToSet(CandidatesOn(Lands(crawl.at.url, session))) :
             \/ c \in ToSet(crawl.candidates) \/ c.goes = NoUrl \/ here \in crawl.cut
             \/ LET after == Lands(c.goes, session)
                IN Eligible(after) => KnownTo(depths, Key[after], crawl.at.depth + 1)

PagesHeld ==
    \A k \in crawl.visited \ crawl.failed : \A url \in Url : Key[url] = k =>
        \E i \in DOMAIN crawl.results : Key[crawl.results[i]] = Key[Lands(url, session)]

SearchedTo(depths) ==
    /\ depths \in [crawl.visited -> Nat]
    /\ KnownTo(depths, BaseKey, 0)
    /\ QueueAscends(crawl.visited, crawl.queue, depths) /\ LinksKnown(depths)
    /\ crawl.stage = "click" => HereOK(depths)

Watched == Searching /\ KeysTell /\ crawl.held /\ ~Enough(crawl.results)

SearchInv == Watched => PagesHeld /\ \E depths : SearchedTo(depths)

-------------------------------------------------------------------------------
(* Where requests end.                                                       *)

LEMMA LandsIn ==
  ASSUME version \in DOMAIN App, NEW who, NEW url \in Url
  PROVE  /\ Lands(url, who) \in Url
         /\ Key[url] \in Url
         /\ Lands(Lands(url, who), who) = Lands(url, who)
<1> DEFINE shown == app.pages[url]
           last == app.pages[shown.lands]
<1>1. /\ shown.protected => TargetOf[url] \in Target
      /\ shown.lands \in Url /\ last.lands = shown.lands
      /\ last.protected => shown.protected /\ TargetOf[shown.lands] = TargetOf[url]
  BY PagesAssumption DEF app
<1>2. \A t \in Target : /\ SignIn[t] \in Url /\ ~app.pages[SignIn[t]].protected
                        /\ app.pages[SignIn[t]].lands = SignIn[t]
  BY PagesAssumption DEF app
<1>3. Key[url] \in Url
  BY PagesAssumption
<1>4. CASE shown.protected /\ who[TargetOf[url]] = Nobody
  <2>1. Lands(url, who) = SignIn[TargetOf[url]]
    BY <1>4 DEF Lands
  <2>2. Lands(Lands(url, who), who) = SignIn[TargetOf[url]]
    BY <1>1, <1>2, <1>4, <2>1 DEF Lands
  <2> QED
    BY <1>1, <1>2, <1>3, <1>4, <2>1, <2>2
<1>5. CASE ~(shown.protected /\ who[TargetOf[url]] = Nobody)
  <2>1. Lands(url, who) = shown.lands
    BY <1>5 DEF Lands
  <2>2. Lands(shown.lands, who) = shown.lands
    BY <1>1, <1>5 DEF Lands
  <2> QED
    BY <1>1, <1>3, <2>1, <2>2
<1> QED
  BY <1>4, <1>5

\* Who loses a session is led to the login instead.
LEMMA LandsLower ==
  ASSUME version \in DOMAIN App, SessionOK, NEW x, NEW who, who = SessionAfter(x, session),
         NEW url \in Url
  PROVE  \/ Lands(url, who) = Lands(url, session)
         \/ TargetOf[url] \in Target /\ Lands(url, who) = SignIn[TargetOf[url]]
<1>1. app.pages[url].protected => TargetOf[url] \in Target
  BY PagesAssumption DEF app
<1>2. \A t \in Target : who[t] = session[t] \/ who[t] = Nobody
  BY DEF SessionAfter, SessionOK
<1> QED
  BY <1>1, <1>2 DEF Lands

LEMMA OneKeyOneLanding ==
  ASSUME version \in DOMAIN App, KeysTell, NEW who, NEW u \in Url, NEW w \in Url, Key[u] = Key[w]
  PROVE  Key[Lands(u, who)] = Key[Lands(w, who)]
<1>1. /\ TargetOf[u] = TargetOf[w] /\ (app.pages[u].protected <=> app.pages[w].protected)
      /\ Key[app.pages[u].lands] = Key[app.pages[w].lands]
  BY DEF KeysTell
<1> QED
  BY <1>1 DEF Lands

LEMMA OneKeyOnePage ==
  ASSUME version \in DOMAIN App, KeysTell, NEW u \in Url, NEW w \in Url, Key[u] = Key[w]
  PROVE  /\ extractLinks(Lands(u, session)) = extractLinks(Lands(w, session))
         /\ CandidatesOn(Lands(u, session)) = CandidatesOn(Lands(w, session))
         /\ LinksFrom(u) = LinksFrom(w) /\ ClicksFrom(u) = ClicksFrom(w)
<1>1. PICK x, y : /\ x = Lands(u, session) /\ y = Lands(w, session)
                  /\ x \in Url /\ y \in Url /\ Key[x] = Key[y]
  BY LandsIn, OneKeyOneLanding
<1>2. app.pages[x].links = app.pages[y].links /\ app.pages[x].clicks = app.pages[y].clicks
  BY <1>1 DEF KeysTell
<1>3. /\ extractLinks(x) = extractLinks(y)
      /\ CandidatesOn(x) = CandidatesOn(y)
  BY <1>2 DEF extractLinks, discoverClickTargets, CandidatesOn
<1> QED
  BY <1>1, <1>3 DEF LinksFrom, ClicksFrom

\* A URL that ends at another page is one where no request ends.
LEMMA LedAway ==
  ASSUME version \in DOMAIN App, KeysTell, NEW url \in Url,
         Key[Lands(url, session)] # Key[url]
  PROVE  NeverLands(Key[url])
<1>1. ASSUME NEW t \in Target, Key[SignIn[t]] = Key[url] PROVE FALSE
  <2>1. SignIn[t] \in Url /\ Lands(SignIn[t], session) = SignIn[t]
    BY PagesAssumption DEF Lands, app
  <2> QED
    BY <1>1, <2>1, OneKeyOneLanding
<1>2. ASSUME NEW u \in Url, Key[Lands(u, session)] = Key[url] PROVE FALSE
  BY <1>2, LandsIn, OneKeyOneLanding
<1> QED
  BY <1>1, <1>2 DEF NeverLands

LEMMA NeverLandsStays ==
  ASSUME version \in DOMAIN App, SessionOK, UNCHANGED version, NEW k, NeverLands(k),
         crawl'.target = crawl.target, NEW x, session' \in {session, SessionAfter(x, session)}
  PROVE  NeverLands(k)'
<1>1. \A url \in Url : Lands(url, session)' = Lands(url, session')
  BY DEF Lands, app
<1>2. ASSUME NEW url \in Url, TargetOf[url] = crawl.target PROVE Key[Lands(url, session')] # k
  BY <1>2, LandsLower DEF NeverLands
<1> QED
  BY <1>1, <1>2 DEF NeverLands

LEMMA GotoAlone ==
  ASSUME page.arriving = <<>>, NEW url, Goto(url)
  PROVE  /\ page' = [at |-> Lands(url, session), arriving |-> <<>>]
         /\ session' = SessionAfter(Lands(url, session), session)
<1>1. ToSet(page.arriving) = {}
  BY ToSetOfOne
<1>2. Granted(page.arriving) = {session}
  BY <1>1 DEF Granted
<1> QED
  BY <1>2 DEF Goto

LEMMA KeysTellStays == KeysTell /\ UNCHANGED version => KeysTell'
  BY DEF KeysTell, app

-------------------------------------------------------------------------------
(* What a step of the search does to the fields of the crawl.                *)

Kept4 ==
    /\ DOMAIN crawl' = CrawlFields
    /\ crawl'.target = crawl.target /\ crawl'.todo = crawl.todo /\ crawl'.rawPages = crawl.rawPages

SkipsVisit(key) ==
    /\ key \in crawl.visited /\ crawl'.queue = Tail(crawl.queue)
    /\ crawl'.visited = crawl.visited /\ crawl'.failed = crawl.failed
    /\ crawl'.edges = crawl.edges /\ crawl'.results = crawl.results
    /\ crawl'.stage = "discover" /\ crawl'.candidates = crawl.candidates
    /\ crawl'.cut = crawl.cut /\ crawl'.held = crawl.held
    /\ session' = session /\ page' = page

FailsVisit(key) ==
    /\ key \notin crawl.visited /\ crawl'.queue = Tail(crawl.queue)
    /\ crawl'.visited = crawl.visited \cup {key} /\ crawl'.failed = crawl.failed \cup {key}
    /\ crawl'.edges = crawl.edges /\ crawl'.results = crawl.results
    /\ crawl'.stage = "discover" /\ crawl'.candidates = crawl.candidates
    /\ crawl'.cut = crawl.cut /\ crawl'.held = crawl.held
    /\ session' = session /\ page' = page

Captures(item, key, landed) ==
    LET deeper == ~Enough(crawl'.results) /\ item.depth < MaxDepth
    IN /\ key \notin crawl.visited /\ landed = Lands(item.url, session)
       /\ crawl'.visited = crawl.visited \cup {key} /\ crawl'.failed = crawl.failed
       /\ crawl'.edges = IF item.from = NoUrl THEN crawl.edges
                         ELSE Append(crawl.edges, [from |-> item.from, to |-> Key[landed], kind |-> "link"])
       /\ crawl'.results = Append(crawl.results, landed)
       /\ crawl'.queue = IF deeper
                         THEN Tail(crawl.queue)
                                \o Enqueued(NewLinks(landed, crawl.visited \cup {key}), item.depth + 1, key)
                         ELSE Tail(crawl.queue)
       /\ crawl'.stage = IF deeper THEN "click" ELSE "discover"
       /\ crawl'.at = [url |-> item.url, depth |-> item.depth]
       /\ crawl'.candidates = IF deeper THEN CandidatesOn(landed) ELSE <<>>
       /\ crawl'.cut = crawl.cut /\ crawl'.held \in BOOLEAN
       /\ crawl'.held => crawl.held /\ session' = session
       /\ session' = SessionAfter(landed, session) /\ page'.arriving = <<>>

LEMMA VisitParts ==
  ASSUME CrawlOK, VisitNext
  PROVE  /\ crawl.queue # <<>> /\ crawl.stage = "discover" /\ ~Enough(crawl.results)
         /\ Kept4 /\ UNCHANGED version
         /\ \E item, key, landed :
               /\ item = Head(crawl.queue) /\ key = Key[item.url]
               /\ SkipsVisit(key) \/ FailsVisit(key) \/ Captures(item, key, landed)
<1>1. /\ DOMAIN crawl = CrawlFields /\ page.arriving = <<>> /\ crawl.stage = "discover"
      /\ crawl.queue # <<>> /\ ~Enough(crawl.results) /\ UNCHANGED version /\ crawl.held \in BOOLEAN
  BY DEF VisitNext, CrawlOK, CrawlFound, NoCrawl
<1>2. PICK item, key, seen :
        /\ item = Head(crawl.queue) /\ key = Key[item.url]
        /\ seen = [crawl EXCEPT !.queue = Tail(crawl.queue), !.visited = @ \cup {key}]
  OBVIOUS
<1>3. CASE /\ key \in crawl.visited
           /\ crawl' = [crawl EXCEPT !.queue = Tail(crawl.queue)]
           /\ UNCHANGED <<page, session, mishaps>>
  <2>1. Kept4 /\ SkipsVisit(key)
    BY <1>1, <1>3 DEF Kept4, SkipsVisit, CrawlFields
  <2> QED
    BY <1>1, <1>2, <2>1
<1>4. CASE /\ key \notin crawl.visited
           /\ crawl' = [seen EXCEPT !.failed = @ \cup {key}]
           /\ UNCHANGED <<page, session>>
  <2>1. Kept4 /\ FailsVisit(key)
    BY <1>1, <1>2, <1>4 DEF Kept4, FailsVisit, CrawlFields
  <2> QED
    BY <1>1, <1>2, <2>1
<1>5. CASE /\ key \notin crawl.visited /\ Goto(item.url)
           /\ LET results == Append(crawl.results, page'.at)
                  deeper  == ~Enough(results) /\ item.depth < MaxDepth
                  queued  == Enqueued(NewLinks(page'.at, seen.visited), item.depth + 1, key)
              IN crawl' = Noticed(
                   [seen EXCEPT
                     !.results = results,
                     !.edges = IF item.from = NoUrl THEN @
                               ELSE Append(@, [from |-> item.from, to |-> Key[page'.at],
                                               kind |-> "link"]),
                     !.queue = IF deeper THEN @ \o queued ELSE @,
                     !.at = [url |-> item.url, depth |-> item.depth],
                     !.stage = IF deeper THEN "click" ELSE @,
                     !.candidates =
                       IF deeper THEN CandidatesOn(page'.at) ELSE <<>>], session, session')
  <2>1. PICK landed : landed = Lands(item.url, session)
    OBVIOUS
  <2>2. page' = [at |-> landed, arriving |-> <<>>] /\ session' = SessionAfter(landed, session)
    BY <1>1, <1>5, <2>1, GotoAlone
  <2>3. page'.at = landed /\ page'.arriving = <<>>
    BY <2>2
  <2>4. PICK results, deeper, queued, edges, candidates :
          /\ results = Append(crawl.results, landed)
          /\ deeper = (~Enough(results) /\ item.depth < MaxDepth)
          /\ queued = Enqueued(NewLinks(landed, crawl.visited \cup {key}), item.depth + 1, key)
          /\ edges = IF item.from = NoUrl THEN crawl.edges
                     ELSE Append(crawl.edges, [from |-> item.from, to |-> Key[landed], kind |-> "link"])
          /\ candidates = IF deeper THEN CandidatesOn(landed) ELSE <<>>
    OBVIOUS
  <2>5. /\ seen.visited = crawl.visited \cup {key} /\ seen.queue = Tail(crawl.queue)
        /\ seen.edges = crawl.edges /\ seen.stage = "discover" /\ DOMAIN seen = CrawlFields
    BY <1>1, <1>2 DEF CrawlFields
  <2>6. crawl' = Noticed(
                   [seen EXCEPT !.results = results, !.edges = edges,
                     !.queue = IF deeper THEN Tail(crawl.queue) \o queued ELSE Tail(crawl.queue),
                     !.at = [url |-> item.url, depth |-> item.depth],
                     !.stage = IF deeper THEN "click" ELSE "discover",
                     !.candidates = candidates], session, session')
    BY <1>5, <2>3, <2>4, <2>5
  <2> HIDE <1>5
  <2>7. /\ crawl'.results = results /\ crawl'.edges = edges
        /\ crawl'.queue = IF deeper THEN Tail(crawl.queue) \o queued ELSE Tail(crawl.queue)
        /\ crawl'.at = [url |-> item.url, depth |-> item.depth]
        /\ crawl'.stage = IF deeper THEN "click" ELSE "discover"
        /\ crawl'.candidates = candidates
        /\ crawl'.visited = crawl.visited \cup {key} /\ crawl'.failed = crawl.failed
        /\ crawl'.cut = crawl.cut
    BY <1>1, <1>2, <2>5, <2>6 DEF Noticed, CrawlFields
  <2>8. crawl'.held \in BOOLEAN /\ (crawl'.held => crawl.held /\ session' = session)
    BY <1>1, <1>2, <2>5, <2>6 DEF Noticed, CrawlFields
  <2>9. Kept4
    BY <1>1, <1>2, <2>5, <2>6 DEF Noticed, CrawlFields, Kept4
  <2>10. key \notin crawl.visited
    BY <1>5
  <2>11. Captures(item, key, landed)
    BY <2>1, <2>2, <2>3, <2>4, <2>7, <2>8, <2>10 DEF Captures
  <2> QED
    BY <1>1, <1>2, <2>9, <2>11
<1>6. \/ /\ key \in crawl.visited
         /\ crawl' = [crawl EXCEPT !.queue = Tail(crawl.queue)]
         /\ UNCHANGED <<page, session, mishaps>>
      \/ /\ key \notin crawl.visited
         /\ crawl' = [seen EXCEPT !.failed = @ \cup {key}]
         /\ UNCHANGED <<page, session>>
      \/ /\ key \notin crawl.visited /\ Goto(item.url)
         /\ LET results == Append(crawl.results, page'.at)
                deeper  == ~Enough(results) /\ item.depth < MaxDepth
                queued  == Enqueued(NewLinks(page'.at, seen.visited), item.depth + 1, key)
            IN crawl' = Noticed(
                 [seen EXCEPT
                   !.results = results,
                   !.edges = IF item.from = NoUrl THEN @
                             ELSE Append(@, [from |-> item.from, to |-> Key[page'.at],
                                             kind |-> "link"]),
                   !.queue = IF deeper THEN @ \o queued ELSE @,
                   !.at = [url |-> item.url, depth |-> item.depth],
                   !.stage = IF deeper THEN "click" ELSE @,
                   !.candidates =
                     IF deeper THEN CandidatesOn(page'.at) ELSE <<>>], session, session')
  BY <1>2 DEF VisitNext, Dequeue
<1> QED
  BY <1>3, <1>4, <1>5, <1>6

Kept8 ==
    /\ Kept4 /\ crawl'.visited = crawl.visited /\ crawl'.failed = crawl.failed
    /\ crawl'.results = crawl.results /\ crawl'.stage = "click" /\ crawl'.at = crawl.at

LosesClick(here) ==
    /\ crawl'.cut = crawl.cut \cup {here} /\ crawl'.candidates \in {Tail(crawl.candidates), <<>>}
    /\ crawl'.queue = crawl.queue /\ crawl'.edges = crawl.edges /\ crawl'.held = crawl.held
    /\ session' = session /\ page' = page

MissesClick(candidate) ==
    /\ candidate \notin ToSet(discoverClickTargets(Lands(crawl.at.url, session)))
    /\ crawl'.candidates = Tail(crawl.candidates) /\ crawl'.cut = crawl.cut
    /\ crawl'.queue = crawl.queue /\ crawl'.edges = crawl.edges /\ crawl'.held = crawl.held
    /\ session' = session /\ page'.arriving = <<>>

Leads(candidate, here, after) ==
    LET fresh == /\ Key[after] # here /\ Eligible(after)
                 /\ Key[after] \notin crawl.visited
                 /\ \A i \in DOMAIN crawl.queue : Key[crawl.queue[i].url] # Key[after]
    IN /\ after = IF candidate.goes = NoUrl THEN Lands(crawl.at.url, session)
                  ELSE Lands(candidate.goes, session)
       /\ crawl'.candidates = Tail(crawl.candidates) /\ crawl'.cut = crawl.cut
       /\ crawl'.queue = IF fresh THEN Append(crawl.queue, [url |-> after, depth |-> crawl.at.depth + 1,
                                                            from |-> NoUrl])
                         ELSE crawl.queue
       /\ crawl'.edges = IF fresh THEN Append(crawl.edges, [from |-> here, to |-> Key[after],
                                                            kind |-> "click"])
                         ELSE crawl.edges
       /\ crawl'.held \in BOOLEAN /\ (crawl'.held => crawl.held /\ session' = session)
       /\ session' = SessionAfter(after, session) /\ page'.arriving = <<>>

LEMMA ClickParts ==
  ASSUME CrawlOK, ClickNext
  PROVE  /\ crawl.candidates # <<>> /\ crawl.stage = "click" /\ DOMAIN crawl = CrawlFields
         /\ Kept8 /\ UNCHANGED version
         /\ \E candidate, here, after :
               /\ candidate = Head(crawl.candidates) /\ here = Key[crawl.at.url]
               /\ LosesClick(here) \/ MissesClick(candidate) \/ Leads(candidate, here, after)
<1>1. /\ DOMAIN crawl = CrawlFields /\ crawl.stage = "click"
      /\ crawl.candidates # <<>> /\ UNCHANGED version /\ crawl.held \in BOOLEAN
  BY DEF ClickNext, CrawlOK, CrawlFound, NoCrawl
<1>2. PICK candidate, here, rest, again, after, fresh :
        /\ candidate = Head(crawl.candidates) /\ here = Key[crawl.at.url]
        /\ rest = [crawl EXCEPT !.candidates = Tail(@)]
        /\ again = Lands(crawl.at.url, session)
        /\ after = IF candidate.goes = NoUrl THEN again ELSE Lands(candidate.goes, session)
        /\ fresh = (/\ Key[after] # here /\ Eligible(after)
                    /\ Key[after] \notin crawl.visited
                    /\ \A i \in DOMAIN crawl.queue : Key[crawl.queue[i].url] # Key[after])
  OBVIOUS
<1>3. /\ rest.candidates = Tail(crawl.candidates) /\ DOMAIN rest = CrawlFields
      /\ rest.queue = crawl.queue /\ rest.edges = crawl.edges /\ rest.cut = crawl.cut
      /\ rest.held = crawl.held /\ rest.visited = crawl.visited /\ rest.failed = crawl.failed
      /\ rest.results = crawl.results /\ rest.stage = "click" /\ rest.at = crawl.at
      /\ rest.target = crawl.target /\ rest.todo = crawl.todo /\ rest.rawPages = crawl.rawPages
  BY <1>1, <1>2 DEF CrawlFields
<1>4. \/ /\ crawl' \in {[c EXCEPT !.cut = @ \cup {here}] :
                          c \in {rest, [crawl EXCEPT !.candidates = <<>>]}}
         /\ UNCHANGED <<page, session>>
      \/ /\ candidate \notin ToSet(discoverClickTargets(again))
         /\ crawl' = rest
         /\ page' = [at |-> again, arriving |-> <<>>] /\ UNCHANGED session
      \/ /\ page' = [at |-> after, arriving |-> <<>>]
         /\ session' = SessionAfter(after, session)
         /\ crawl' = Noticed(
              IF fresh
              THEN [rest EXCEPT
                      !.queue = Append(@, [url |-> after, depth |-> crawl.at.depth + 1,
                                           from |-> NoUrl]),
                      !.edges = Append(@, [from |-> here, to |-> Key[after],
                                           kind |-> "click"])]
              ELSE rest, session, session')
  BY <1>2 DEF ClickNext
<1>5. CASE /\ crawl' \in {[c EXCEPT !.cut = @ \cup {here}] :
                            c \in {rest, [crawl EXCEPT !.candidates = <<>>]}}
           /\ UNCHANGED <<page, session>>
  <2>1. PICK c : /\ crawl' = [c EXCEPT !.cut = @ \cup {here}]
                 /\ c = rest \/ c = [crawl EXCEPT !.candidates = <<>>]
    BY <1>5
  <2>2. /\ DOMAIN c = CrawlFields /\ c.candidates \in {Tail(crawl.candidates), <<>>}
        /\ c.queue = crawl.queue /\ c.edges = crawl.edges /\ c.cut = crawl.cut
        /\ c.held = crawl.held /\ c.visited = crawl.visited /\ c.failed = crawl.failed
        /\ c.results = crawl.results /\ c.stage = "click" /\ c.at = crawl.at
        /\ c.target = crawl.target /\ c.todo = crawl.todo /\ c.rawPages = crawl.rawPages
    BY <1>1, <1>3, <2>1 DEF CrawlFields
  <2>3. Kept8 /\ LosesClick(here)
    BY <1>5, <2>1, <2>2 DEF Kept8, Kept4, LosesClick, CrawlFields
  <2> QED
    BY <1>1, <1>2, <2>3
<1>6. CASE /\ candidate \notin ToSet(discoverClickTargets(again))
           /\ crawl' = rest
           /\ page' = [at |-> again, arriving |-> <<>>] /\ UNCHANGED session
  <2>1. Kept8 /\ MissesClick(candidate)
    BY <1>2, <1>3, <1>6 DEF Kept8, Kept4, MissesClick
  <2> QED
    BY <1>1, <1>2, <2>1
<1>7. CASE /\ page' = [at |-> after, arriving |-> <<>>]
           /\ session' = SessionAfter(after, session)
           /\ crawl' = Noticed(
                IF fresh
                THEN [rest EXCEPT
                        !.queue = Append(@, [url |-> after, depth |-> crawl.at.depth + 1,
                                             from |-> NoUrl]),
                        !.edges = Append(@, [from |-> here, to |-> Key[after],
                                             kind |-> "click"])]
                ELSE rest, session, session')
  <2>1. PICK queue, edges, c :
          /\ queue = IF fresh THEN Append(crawl.queue, [url |-> after, depth |-> crawl.at.depth + 1,
                                                         from |-> NoUrl])
                     ELSE crawl.queue
          /\ edges = IF fresh THEN Append(crawl.edges, [from |-> here, to |-> Key[after],
                                                         kind |-> "click"])
                     ELSE crawl.edges
          /\ c = IF fresh
                 THEN [rest EXCEPT
                         !.queue = Append(@, [url |-> after, depth |-> crawl.at.depth + 1,
                                              from |-> NoUrl]),
                         !.edges = Append(@, [from |-> here, to |-> Key[after],
                                              kind |-> "click"])]
                 ELSE rest
    OBVIOUS
  <2>2. /\ DOMAIN c = CrawlFields /\ c.candidates = Tail(crawl.candidates)
        /\ c.queue = queue /\ c.edges = edges /\ c.cut = crawl.cut
        /\ c.held = crawl.held /\ c.visited = crawl.visited /\ c.failed = crawl.failed
        /\ c.results = crawl.results /\ c.stage = "click" /\ c.at = crawl.at
        /\ c.target = crawl.target /\ c.todo = crawl.todo /\ c.rawPages = crawl.rawPages
    BY <1>3, <2>1 DEF CrawlFields
  <2>3. crawl' = Noticed(c, session, session')
    BY <1>7, <2>1
  <2>4. /\ Kept8 /\ crawl'.queue = queue /\ crawl'.edges = edges /\ crawl'.cut = crawl.cut
        /\ crawl'.candidates = Tail(crawl.candidates)
    BY <2>2, <2>3 DEF Noticed, CrawlFields, Kept8, Kept4
  <2>5. crawl'.held \in BOOLEAN /\ (crawl'.held => crawl.held /\ session' = session)
    BY <1>1, <2>2, <2>3 DEF Noticed, CrawlFields
  <2>6. page'.arriving = <<>> /\ session' = SessionAfter(after, session)
    BY <1>7
  <2>7. Leads(candidate, here, after)
    BY <1>2, <2>1, <2>4, <2>5, <2>6 DEF Leads
  <2> QED
    BY <1>1, <1>2, <2>4, <2>7
<1> QED
  BY <1>4, <1>5, <1>6, <1>7

-------------------------------------------------------------------------------
(* Sequences the search takes apart and puts together.                       *)

LEMMA SequencesAreListed == \A T : \A s \in Seq(T) : Listed(s)
  BY DEF Listed, ToSet

LEMMA NothingListed == Listed(<<>>) /\ ToSet(<<>>) = {}
<1>1. <<>> \in Seq({})
  OBVIOUS
<1> QED
  BY <1>1, SequencesAreListed, ToSetOfOne

LEMMA TailOf ==
  ASSUME NEW s, Listed(s), s # <<>>
  PROVE  /\ Len(s) \in Nat \ {0} /\ DOMAIN s = 1..Len(s) /\ Head(s) = s[1] /\ 1 \in DOMAIN s
         /\ Listed(Tail(s)) /\ ToSet(Tail(s)) \subseteq ToSet(s)
         /\ Len(Tail(s)) = Len(s) - 1 /\ DOMAIN Tail(s) = 1..Len(s) - 1
         /\ \A i \in DOMAIN Tail(s) : i + 1 \in DOMAIN s /\ Tail(s)[i] = s[i + 1]
         /\ \A x \in ToSet(s) : x = s[1] \/ \E i \in DOMAIN Tail(s) : Tail(s)[i] = x
<1>1. PICK T : T = ToSet(s)
  OBVIOUS
<1>2. /\ s \in Seq(T) /\ Len(s) \in Nat \ {0} /\ DOMAIN s = 1..Len(s) /\ Head(s) = s[1] /\ 1 \in DOMAIN s
      /\ Tail(s) \in Seq(T) /\ Len(Tail(s)) = Len(s) - 1 /\ DOMAIN Tail(s) = 1..Len(s) - 1
      /\ \A i \in DOMAIN Tail(s) : i + 1 \in DOMAIN s /\ Tail(s)[i] = s[i + 1]
  BY <1>1 DEF Listed
<1>3. Listed(Tail(s)) /\ ToSet(Tail(s)) \subseteq ToSet(s)
  <2>1. Listed(Tail(s))
    BY <1>2, SequencesAreListed
  <2>2. ToSet(Tail(s)) \subseteq ToSet(s)
    BY <1>2 DEF ToSet
  <2> QED
    BY <2>1, <2>2
<1>4. ASSUME NEW x \in ToSet(s) PROVE x = s[1] \/ \E i \in DOMAIN Tail(s) : Tail(s)[i] = x
  <2>1. PICK j \in DOMAIN s : s[j] = x
    BY DEF ToSet
  <2>2. j = 1 \/ (j - 1 \in DOMAIN Tail(s) /\ Tail(s)[j - 1] = s[j])
    BY <1>2
  <2> QED
    BY <2>1, <2>2
<1> QED
  BY <1>2, <1>3, <1>4

LEMMA JoinOf ==
  ASSUME NEW s, NEW t, Listed(s), Listed(t)
  PROVE  /\ Listed(s \o t) /\ Len(s) \in Nat /\ Len(t) \in Nat /\ DOMAIN s = 1..Len(s) /\ DOMAIN t = 1..Len(t)
         /\ DOMAIN (s \o t) = 1..Len(s) + Len(t)
         /\ \A i \in DOMAIN s : i \in DOMAIN (s \o t) /\ (s \o t)[i] = s[i]
         /\ \A i \in DOMAIN t : Len(s) + i \in DOMAIN (s \o t) /\ (s \o t)[Len(s) + i] = t[i]
         /\ \A i \in DOMAIN (s \o t) :
               \/ i \in DOMAIN s /\ (s \o t)[i] = s[i]
               \/ i > Len(s) /\ i - Len(s) \in DOMAIN t /\ (s \o t)[i] = t[i - Len(s)]
<1>1. PICK T : T = ToSet(s) \cup ToSet(t)
  OBVIOUS
<1>2. s \in Seq(T) /\ t \in Seq(T)
  BY <1>1 DEF Listed
<1>3. s \o t \in Seq(T)
  BY <1>2
<1>4. Listed(s \o t)
  BY <1>3, SequencesAreListed
<1> QED
  BY <1>2, <1>3, <1>4

LEMMA AddedTo ==
  ASSUME NEW s, NEW x, Listed(s)
  PROVE  /\ Listed(Append(s, x)) /\ Len(s) \in Nat /\ DOMAIN s = 1..Len(s)
         /\ DOMAIN Append(s, x) = 1..Len(s) + 1 /\ Len(Append(s, x)) = Len(s) + 1
         /\ \A i \in DOMAIN s : i \in DOMAIN Append(s, x) /\ Append(s, x)[i] = s[i]
         /\ Append(s, x)[Len(s) + 1] = x
         /\ \A i \in DOMAIN Append(s, x) : i \in DOMAIN s \/ i = Len(s) + 1
<1>1. PICK T : T = ToSet(s) \cup {x}
  OBVIOUS
<1>2. s \in Seq(T) /\ x \in T
  BY <1>1 DEF Listed
<1>3. Append(s, x) \in Seq(T)
  BY <1>2
<1>4. Listed(Append(s, x))
  BY <1>3, SequencesAreListed
<1> QED
  BY <1>2, <1>3, <1>4

\* The queue gets the links of a page that are eligible and new.
LEMMA EnqueuedIs ==
  ASSUME version \in DOMAIN App, NEW landed \in Url, NEW visited, NEW depth, NEW key,
         NEW q, q = Enqueued(NewLinks(landed, visited), depth, key)
  PROVE  /\ Listed(q)
         /\ \A i \in DOMAIN q : /\ q[i] = [url |-> q[i].url, depth |-> depth, from |-> key]
                                /\ q[i].url \in Url /\ Eligible(q[i].url)
         /\ \A l \in ToSet(extractLinks(landed)) :
               Eligible(l) /\ Key[l] \notin visited => \E i \in DOMAIN q : q[i].url = l
<1>1. PICK links, new : /\ links = extractLinks(landed)
                        /\ new = {l \in Url : Eligible(l) /\ Key[l] \notin visited}
  OBVIOUS
<1>2. links \in Seq(Url)
  BY <1>1, PagesAssumption DEF extractLinks, app
<1>3. PICK kept : kept = Only(links, new) /\ kept \in Seq(Url) /\ ToSet(kept) = ToSet(links) \cap new
  BY <1>2, OnlyIs
<1>4. q = [i \in DOMAIN kept |-> [url |-> kept[i], depth |-> depth, from |-> key]]
  BY <1>1, <1>3 DEF Enqueued, NewLinks
<1>5. DOMAIN kept = 1..Len(kept) /\ Len(kept) \in Nat
  BY <1>3
<1>6. Listed(q)
  BY <1>4, <1>5 DEF Listed, ToSet
<1>7. ASSUME NEW i \in DOMAIN q
      PROVE  /\ q[i] = [url |-> q[i].url, depth |-> depth, from |-> key]
             /\ q[i].url \in Url /\ Eligible(q[i].url)
  <2>1. kept[i] \in new
    BY <1>3, <1>4 DEF ToSet
  <2> QED
    BY <1>1, <1>4, <2>1
<1>8. ASSUME NEW l \in ToSet(links), Eligible(l), Key[l] \notin visited
      PROVE  \E i \in DOMAIN q : q[i].url = l
  <2>1. l \in Url
    BY <1>2 DEF ToSet
  <2>2. l \in ToSet(kept)
    BY <1>1, <1>3, <1>8, <2>1
  <2>3. PICK i \in DOMAIN kept : kept[i] = l
    BY <2>2 DEF ToSet
  <2> QED
    BY <1>4, <2>3
<1> QED
  BY <1>1, <1>6, <1>7, <1>8

LEMMA CandidatesAre ==
  ASSUME version \in DOMAIN App, NEW url \in Url
  PROVE  /\ Listed(CandidatesOn(url)) /\ ToSet(CandidatesOn(url)) \subseteq ToSet(discoverClickTargets(url))
         /\ \A c \in ToSet(CandidatesOn(url)) : c.goes \in Url \cup {NoUrl}
<1>1. PICK clicks, kept :
        /\ clicks = app.pages[url].clicks
        /\ kept = discoverClickTargets(url)
  OBVIOUS
<1>2. clicks \in Seq(ToSet(clicks)) /\ \A c \in ToSet(clicks) : c.goes \in Url \cup {NoUrl}
  BY <1>1, PagesAssumption, DiscoverAssumption DEF app, ToSet
<1>3. PICK able : kept = Only(clicks, able)
  BY <1>1 DEF discoverClickTargets
<1>4. kept \in Seq(ToSet(clicks)) /\ ToSet(kept) \subseteq ToSet(clicks)
  BY <1>2, <1>3, OnlyIs
<1>5. MaxCandidates \in Nat
  BY DiscoverAssumption
<1>6. PICK first : /\ first = CandidatesOn(url) /\ first \in Seq(ToSet(clicks))
                   /\ ToSet(first) \subseteq ToSet(kept)
  <2>1. CandidatesOn(url) = IF Len(kept) <= MaxCandidates THEN kept ELSE SubSeq(kept, 1, MaxCandidates)
    BY <1>1 DEF CandidatesOn, FirstOf
  <2>2. CASE Len(kept) <= MaxCandidates
    BY <1>4, <2>1, <2>2
  <2>3. CASE ~(Len(kept) <= MaxCandidates)
    <3>1. PICK sub : sub = SubSeq(kept, 1, MaxCandidates)
      OBVIOUS
    <3>2. sub \in Seq(ToSet(clicks)) /\ DOMAIN sub = 1..MaxCandidates /\ \A i \in 1..MaxCandidates : sub[i] = kept[i] /\ i \in DOMAIN kept
      BY <1>4, <1>5, <2>3, <3>1
    <3>3. ToSet(sub) \subseteq ToSet(kept)
      BY <3>2 DEF ToSet
    <3> QED
      BY <2>1, <2>3, <3>1, <3>2, <3>3
  <2> QED
    BY <2>2, <2>3
<1> QED
  BY <1>1, <1>2, <1>4, <1>6, SequencesAreListed

-------------------------------------------------------------------------------
(* The shape of a crawl.                                                     *)

LEMMA VisitKeepsShape ==
  ASSUME version \in DOMAIN App, CrawlOK, VisitNext
  PROVE  CrawlFound' /\ crawl'.stage \in {"discover", "click"}
<1>1. /\ CrawlFound /\ crawl.queue # <<>> /\ crawl.stage = "discover" /\ Kept4 /\ UNCHANGED version
  BY VisitParts DEF CrawlOK, NoCrawl
<1>2. PICK item, key, landed :
        /\ item = Head(crawl.queue) /\ key = Key[item.url]
        /\ SkipsVisit(key) \/ FailsVisit(key) \/ Captures(item, key, landed)
  BY VisitParts
<1>3. PICK queue, rest, target : /\ queue = crawl.queue /\ rest = Tail(queue) /\ target = crawl.target
                                 /\ Listed(queue) /\ queue # <<>>
  BY <1>1 DEF CrawlFound, SearchOK
<1>4. /\ 1 \in DOMAIN queue /\ item = queue[1] /\ Listed(rest)
      /\ \A i \in DOMAIN rest : i + 1 \in DOMAIN queue /\ rest[i] = queue[i + 1]
  BY <1>2, <1>3, TailOf
<1>5. \A i \in DOMAIN queue : /\ DOMAIN queue[i] = {"url", "depth", "from"} /\ queue[i].url \in Url
                              /\ queue[i].depth \in Nat /\ TargetOf[queue[i].url] = target
  BY <1>1, <1>3 DEF CrawlFound, SearchOK, QueueOK
<1>6. /\ item.url \in Url /\ item.depth \in Nat /\ TargetOf[item.url] = target /\ key \in Url
      /\ Lands(item.url, session) \in Url
  BY <1>2, <1>4, <1>5, LandsIn
<1>7. \A i \in DOMAIN rest : /\ DOMAIN rest[i] = {"url", "depth", "from"} /\ rest[i].url \in Url
                             /\ rest[i].depth \in Nat /\ TargetOf[rest[i].url] = target
  BY <1>4, <1>5
<1>8. CASE SkipsVisit(key) \/ FailsVisit(key)
  <2>1. crawl'.queue = rest /\ crawl'.target = target
    BY <1>1, <1>3, <1>8 DEF SkipsVisit, FailsVisit, Kept4
  <2>2. QueueOK' /\ Listed(crawl.queue)'
    BY <1>4, <1>7, <2>1 DEF QueueOK
  <2>3. /\ crawl'.visited \subseteq Url /\ crawl'.failed \subseteq crawl'.visited
        /\ crawl'.candidates = crawl.candidates /\ crawl'.edges = crawl.edges
        /\ crawl'.results = crawl.results /\ crawl'.held = crawl.held /\ page' = page
        /\ crawl'.stage = "discover"
    BY <1>1, <1>6, <1>8 DEF SkipsVisit, FailsVisit, CrawlFound, SearchOK
  <2>4. SearchOK'
    BY <1>1, <2>2, <2>3 DEF CrawlFound, SearchOK
  <2> QED
    BY <1>1, <2>3, <2>4 DEF CrawlFound, Kept4
<1>9. CASE Captures(item, key, landed)
  <2>1. /\ landed = Lands(item.url, session) /\ landed \in Url
        /\ crawl'.results = Append(crawl.results, landed)
        /\ crawl'.visited = crawl.visited \cup {key} /\ crawl'.failed = crawl.failed
        /\ key \notin crawl.visited /\ crawl'.held \in BOOLEAN /\ page'.arriving = <<>>
        /\ crawl'.stage \in {"discover", "click"} /\ crawl'.target = target
    BY <1>1, <1>3, <1>6, <1>9 DEF Captures, Kept4
  <2>2. crawl'.results \in Seq(Url) /\ crawl'.visited \subseteq Url
    BY <1>1, <1>6, <2>1 DEF CrawlFound
  <2>3. Listed(crawl.edges)'
    BY <1>1, <1>9, AddedTo DEF CrawlFound, Captures
  <2>4. Listed(crawl.candidates)' /\ \A c \in ToSet(crawl'.candidates) : c.goes \in Url \cup {NoUrl}
    <3>1. CASE crawl'.candidates = CandidatesOn(landed)
      BY <2>1, <3>1, CandidatesAre
    <3>2. CASE crawl'.candidates = <<>>
      <4>1. Listed(<<>>) /\ ToSet(<<>>) = {}
        BY NothingListed
      <4> QED
        BY <3>2, <4>1
    <3> QED
      BY <1>9, <3>1, <3>2 DEF Captures
  <2>5. Listed(crawl.queue)' /\ QueueOK'
    <3>1. PICK q : q = Enqueued(NewLinks(landed, crawl.visited \cup {key}), item.depth + 1, key)
      OBVIOUS
    <3>2. /\ Listed(q)
          /\ \A i \in DOMAIN q : /\ DOMAIN q[i] = {"url", "depth", "from"} /\ q[i].url \in Url
                                 /\ q[i].depth \in Nat /\ TargetOf[q[i].url] = target
      <4>1. /\ Listed(q)
            /\ \A i \in DOMAIN q : /\ q[i] = [url |-> q[i].url, depth |-> item.depth + 1, from |-> key]
                                   /\ q[i].url \in Url /\ Eligible(q[i].url)
        <5>1. PICK visited, depth : visited = crawl.visited \cup {key} /\ depth = item.depth + 1
          OBVIOUS
        <5>2. q = Enqueued(NewLinks(landed, visited), depth, key)
          BY <3>1, <5>1
        <5>3. Listed(q)
          BY <2>1, <5>2, EnqueuedIs
        <5>4. \A i \in DOMAIN q : q[i] = [url |-> q[i].url, depth |-> depth, from |-> key]
          BY <2>1, <5>2, EnqueuedIs
        <5>5. \A i \in DOMAIN q : q[i].url \in Url /\ Eligible(q[i].url)
          BY <2>1, <5>2, EnqueuedIs
        <5> QED
          BY <5>1, <5>3, <5>4, <5>5
      <4>2. ASSUME NEW i \in DOMAIN q
            PROVE  /\ DOMAIN q[i] = {"url", "depth", "from"} /\ q[i].url \in Url
                   /\ q[i].depth \in Nat /\ TargetOf[q[i].url] = target
        BY <1>3, <1>6, <4>1 DEF Eligible
      <4> QED
        BY <4>1, <4>2
    <3>3. crawl'.queue = rest \o q \/ crawl'.queue = rest
      BY <1>3, <1>9, <3>1 DEF Captures
    <3>4. CASE crawl'.queue = rest
      BY <1>4, <1>7, <2>1, <3>4 DEF QueueOK
    <3>5. CASE crawl'.queue = rest \o q
      <4>1. PICK all : all = rest \o q
        OBVIOUS
      <4>2. /\ Listed(all)
            /\ \A i \in DOMAIN all : \/ i \in DOMAIN rest /\ all[i] = rest[i]
                                     \/ i - Len(rest) \in DOMAIN q /\ all[i] = q[i - Len(rest)]
        BY <1>4, <3>2, <4>1, JoinOf
      <4>3. \A i \in DOMAIN all : /\ DOMAIN all[i] = {"url", "depth", "from"} /\ all[i].url \in Url
                                  /\ all[i].depth \in Nat /\ TargetOf[all[i].url] = target
        BY <1>7, <3>2, <4>2
      <4> QED
        BY <2>1, <3>5, <4>1, <4>2, <4>3 DEF QueueOK
    <3> QED
      BY <3>3, <3>4, <3>5
  <2>6. crawl'.at.url = item.url /\ crawl'.at.depth = item.depth
    BY <1>9 DEF Captures
  <2>7. crawl.failed \subseteq crawl.visited
    BY <1>1 DEF CrawlFound, SearchOK
  <2>8. SearchOK'
    BY <1>2, <1>6, <2>1, <2>4, <2>5, <2>6, <2>7 DEF SearchOK
  <2> QED
    BY <1>1, <2>1, <2>2, <2>3, <2>8 DEF CrawlFound, Kept4
<1> QED
  BY <1>2, <1>8, <1>9

LEMMA ClickKeepsShape ==
  ASSUME version \in DOMAIN App, CrawlOK, ClickNext
  PROVE  CrawlFound' /\ crawl'.stage = "click"
<1>1. CrawlFound /\ crawl.candidates # <<>> /\ crawl.stage = "click" /\ Kept8 /\ UNCHANGED version
  BY ClickParts DEF CrawlOK, NoCrawl
<1>2. PICK candidate, here, after :
        /\ candidate = Head(crawl.candidates) /\ here = Key[crawl.at.url]
        /\ LosesClick(here) \/ MissesClick(candidate) \/ Leads(candidate, here, after)
  BY ClickParts
<1>3. /\ crawl'.candidates \in {Tail(crawl.candidates), <<>>} /\ page'.arriving = <<>>
      /\ crawl'.held \in BOOLEAN
  BY <1>1, <1>2 DEF LosesClick, MissesClick, Leads, CrawlFound
<1>4. Listed(crawl.candidates)' /\ \A c \in ToSet(crawl'.candidates) : c.goes \in Url \cup {NoUrl}
  <2>1. PICK s : s = crawl.candidates /\ Listed(s) /\ s # <<>> /\ \A c \in ToSet(s) : c.goes \in Url \cup {NoUrl}
    BY <1>1 DEF CrawlFound, SearchOK
  <2>2. Listed(Tail(s)) /\ ToSet(Tail(s)) \subseteq ToSet(s)
    BY <2>1, TailOf
  <2>3. Listed(<<>>) /\ ToSet(<<>>) = {}
    BY NothingListed
  <2> QED
    BY <1>3, <2>1, <2>2, <2>3
<1>5. Listed(crawl.edges)'
  BY <1>1, <1>2, AddedTo DEF LosesClick, MissesClick, Leads, CrawlFound
<1>6. Listed(crawl.queue)' /\ QueueOK'
  <2>1. CASE crawl'.queue = crawl.queue
    BY <1>1, <2>1 DEF QueueOK, CrawlFound, SearchOK, Kept8, Kept4
  <2>2. CASE crawl'.queue # crawl.queue
    <3>1. PICK target, depth : target = crawl.target /\ depth = crawl.at.depth /\ depth \in Nat
                               /\ crawl.at.url \in Url
      BY <1>1 DEF CrawlFound, SearchOK
    <3>2. PICK item : /\ item = [url |-> after, depth |-> depth + 1, from |-> NoUrl]
                      /\ crawl'.queue = Append(crawl.queue, item) /\ Eligible(after)
      BY <1>2, <2>2, <3>1 DEF LosesClick, MissesClick, Leads
    <3>3. candidate \in ToSet(crawl.candidates)
      BY <1>1, <1>2, TailOf DEF CrawlFound, SearchOK, ToSet
    <3>4. after \in Url
      <4>1. candidate.goes \in Url \cup {NoUrl}
        BY <1>1, <3>3 DEF CrawlFound, SearchOK
      <4>2. after = IF candidate.goes = NoUrl THEN Lands(crawl.at.url, session)
                    ELSE Lands(candidate.goes, session)
        BY <1>2, <2>2 DEF LosesClick, MissesClick, Leads
      <4> QED
        BY <3>1, <4>1, <4>2, LandsIn
    <3>5. /\ DOMAIN item = {"url", "depth", "from"} /\ item.url \in Url /\ item.depth \in Nat
          /\ TargetOf[item.url] = target
      BY <3>1, <3>2, <3>4 DEF Eligible
    <3>6. PICK queue, all : queue = crawl.queue /\ all = crawl'.queue /\ all = Append(queue, item)
      BY <3>2
    <3>7. /\ Listed(queue)
          /\ \A i \in DOMAIN queue : /\ DOMAIN queue[i] = {"url", "depth", "from"} /\ queue[i].url \in Url
                                     /\ queue[i].depth \in Nat /\ TargetOf[queue[i].url] = target
      BY <1>1, <3>1, <3>6 DEF CrawlFound, SearchOK, QueueOK
    <3>8. /\ Listed(all)
          /\ \A i \in DOMAIN all : /\ DOMAIN all[i] = {"url", "depth", "from"} /\ all[i].url \in Url
                                   /\ all[i].depth \in Nat /\ TargetOf[all[i].url] = target
      BY <3>5, <3>6, <3>7, AddedTo
    <3>9. crawl'.target = target
      BY <1>1, <3>1 DEF Kept8, Kept4
    <3> QED
      BY <3>6, <3>8, <3>9 DEF QueueOK
  <2> QED
    BY <2>1, <2>2
<1>7. SearchOK'
  BY <1>1, <1>4, <1>6 DEF CrawlFound, SearchOK, Kept8, Kept4
<1> QED
  BY <1>1, <1>3, <1>5, <1>7 DEF CrawlFound, Kept8, Kept4

\* What Merge holds up to each of the pages found.
MergedWith(old, found) ==
    IF Enough(old) \/ \E i \in DOMAIN old : Key[old[i]] = Key[found]
    THEN old ELSE Append(old, found)

Merged(rawPages, results) ==
    CHOOSE merged : merged = [n \in 0..Len(results) |->
        IF n = 0 THEN rawPages
        ELSE LET old == merged[n - 1]
             IN IF Enough(old) \/ \E i \in DOMAIN old : Key[old[i]] = Key[results[n]]
                THEN old ELSE Append(old, results[n])]

LEMMA MergedExists ==
    ASSUME NEW raw \in Seq(Url), NEW results \in Seq(Url)
    PROVE  /\ Merged(raw, results)[0] = raw
           /\ \A n \in 1..Len(results) :
                 Merged(raw, results)[n] = MergedWith(Merged(raw, results)[n - 1], results[n])
<1>1. PICK U, N : U = Seq(Url) /\ N = Len(results)
  OBVIOUS
<1> DEFINE F == [p \in (1..N) \X U |-> MergedWith(p[2], results[p[1]])]
           Step(s, n) == MergedWith(s[n - 1], results[n])
<1>2. N \in Nat /\ raw \in U
  BY <1>1
<1>3. F \in [(1..N) \X U -> U]
  <2>1. ASSUME NEW n \in 1..N, NEW s \in U PROVE MergedWith(s, results[n]) \in U
    BY <1>1 DEF MergedWith
  <2> QED
    BY <2>1
<1>4. PICK s : Recursion(s, U, raw, N, F)
  <2> HIDE DEF F
  <2> QED
    BY <1>2, <1>3, RecursionExists
<1>5. ASSUME NEW k \in 1..N PROVE s[k] = Step(s, k)
  <2>1. k - 1 \in 0..N /\ s[k - 1] \in U
    BY <1>2, <1>4 DEF Recursion
  <2> QED
    BY <1>4, <2>1 DEF Recursion
<1>6. s = [n \in 0..N |-> IF n = 0 THEN raw ELSE Step(s, n)]
  <2> HIDE DEF Step
  <2>1. \A n \in 0..N : n = 0 \/ n \in 1..N
    BY <1>2
  <2> QED
    BY <1>4, <1>5, <2>1 DEF Recursion
<1>7. Merged(raw, results) = [n \in 0..N |-> IF n = 0 THEN raw ELSE Step(Merged(raw, results), n)]
  BY <1>1, <1>6 DEF Merged, MergedWith
<1> HIDE DEF Step
<1>8. Merged(raw, results)[0] = raw
  BY <1>2, <1>7
<1>9. ASSUME NEW n \in 1..N PROVE Merged(raw, results)[n] = Step(Merged(raw, results), n)
  <2>1. n \in 0..N /\ n # 0
    BY <1>2
  <2> QED
    BY <1>7, <2>1
<1> QED
  BY <1>1, <1>8, <1>9 DEF Step

\* Merging loses no page, unless there are enough.
LEMMA MergeIs ==
    ASSUME NEW raw \in Seq(Url), NEW results \in Seq(Url)
    PROVE  /\ Merge(raw, results) \in Seq(Url)
           /\ \A i \in DOMAIN results :
                 Key[results[i]] \in PageKeys(Merge(raw, results)) \/ Enough(Merge(raw, results))
<1>1. PICK m, N : m = Merged(raw, results) /\ N = Len(results)
  OBVIOUS
<1>2. N \in Nat /\ DOMAIN results = 1..N
  BY <1>1
<1>3. m[0] = raw /\ \A n \in 1..N : m[n] = MergedWith(m[n - 1], results[n])
  BY <1>1, MergedExists
<1> DEFINE Good(n) == /\ m[n] \in Seq(Url)
                      /\ \A i \in 1..n : Key[results[i]] \in PageKeys(m[n]) \/ Enough(m[n])
           S == {n \in Nat : n <= N => Good(n)}
<1>4. 0 \in S
  BY <1>3
<1>5. ASSUME NEW n \in Nat, n \in S PROVE n + 1 \in S
  <2> SUFFICES ASSUME n + 1 <= N PROVE Good(n + 1)
    OBVIOUS
  <2>1. Good(n) /\ n + 1 \in 1..N
    BY <1>2, <1>5
  <2>2. PICK old, found : /\ old = m[n] /\ found = results[n + 1] /\ found \in Url
                            /\ m[n + 1] = MergedWith(old, found) /\ old \in Seq(Url)
    BY <1>2, <1>3, <2>1
  <2>3. ASSUME NEW i \in 1..n + 1
        PROVE  Key[results[i]] \in PageKeys(m[n + 1]) \/ Enough(m[n + 1])
    <3>1. CASE Enough(old)
      BY <2>2, <3>1 DEF MergedWith
    <3>2. CASE ~Enough(old) /\ \E j \in DOMAIN old : Key[old[j]] = Key[found]
      <4>1. m[n + 1] = old /\ Key[found] \in PageKeys(old)
        BY <2>2, <3>2 DEF MergedWith, PageKeys, ToSet
      <4>2. i \in 1..n \/ i = n + 1
        OBVIOUS
      <4> QED
        BY <2>1, <2>2, <4>1, <4>2
    <3>3. CASE ~Enough(old) /\ ~\E j \in DOMAIN old : Key[old[j]] = Key[found]
      <4>1. m[n + 1] = Append(old, found)
        BY <2>2, <3>3 DEF MergedWith
      <4>2. PICK all : all = Append(old, found)
        OBVIOUS
      <4>3. /\ Len(old) \in Nat /\ DOMAIN old = 1..Len(old)
            /\ DOMAIN all = 1..Len(old) + 1 /\ all[Len(old) + 1] = found
            /\ \A j \in DOMAIN old : j \in DOMAIN all /\ all[j] = old[j]
        BY <2>2, <4>2
      <4>4. PageKeys(old) \subseteq PageKeys(all) /\ Key[found] \in PageKeys(all)
        BY <4>3 DEF PageKeys, ToSet
      <4>5. i \in 1..n \/ i = n + 1
        OBVIOUS
      <4> QED
        BY <2>1, <2>2, <3>3, <4>1, <4>2, <4>4, <4>5
    <3> QED
      BY <3>1, <3>2, <3>3
  <2>4. m[n + 1] \in Seq(Url)
    BY <2>2 DEF MergedWith
  <2> QED
    BY <2>3, <2>4
<1>6. N \in S
  <2> HIDE DEF S
  <2> QED
    BY <1>2, <1>4, <1>5, NatSetInduction
<1>7. Merge(raw, results) = m[N]
  BY <1>1 DEF Merge, Merged
<1> QED
  BY <1>2, <1>6, <1>7

LEMMA NoLength == \A S : \A s \in Seq(S) : Len(s) = 0 => s = <<>>
  OBVIOUS

\* Concatenation stays among the elements.
LEMMA FlatIn ==
    ASSUME NEW T, NEW seqs \in Seq(Seq(T))
    PROVE  FlattenSeq(seqs) \in Seq(T)
<1>1. Len(seqs) \in Nat
  OBVIOUS
<1>2. CASE Len(seqs) = 0
  <2>1. FlattenSeq(seqs) = seqs
    BY <1>2 DEF FlattenSeq
  <2>2. seqs = <<>>
    BY <1>2, NoLength
  <2> QED
    BY <2>1, <2>2
<1>3. CASE Len(seqs) # 0
  <2>1. FlattenSeq(seqs) = Joined(seqs)[Len(seqs)]
    BY <1>3 DEF FlattenSeq, Joined
  <2>2. AllAreJoined(T, seqs, Len(seqs))
    BY <1>1, <1>3, JoinedIs
  <2> QED
    BY <2>1, <2>2 DEF AllAreJoined
<1> QED
  BY <1>2, <1>3

\* Where a step goes, if anywhere.
GoesToUrl(step) ==
    \/ {step.url, step.raw} \subseteq Url
    \/ step.url = None /\ step.raw = None /\ step.action # "navigate"

LEMMA StepsAre ==
    ASSUME config \in Setting, NEW s \in ToSet(config.scenarios)
    PROVE  /\ AllSteps(s) \in Seq(StepsOf(s))
           /\ \A step \in StepsOf(s) : GoesToUrl(step)
<1>1. PICK c : c = config /\ c \in Setting
  OBVIOUS
<1>2. PICK i \in DOMAIN c.scenarios : s = c.scenarios[i]
  BY <1>1 DEF ToSet
<1>3. /\ s.steps \in Seq(StepsOf(s)) /\ s.acts \in Seq(ToSet(s.acts))
      /\ \A a \in ToSet(s.acts) : a.steps \in Seq(StepsOf(s))
      /\ \A step \in StepsOf(s) : GoesToUrl(step)
  BY <1>1, <1>2, SettingAssumption DEF GoesToUrl
<1>4. CASE s.acts = <<>>
  BY <1>3, <1>4 DEF AllSteps
<1>5. CASE s.acts # <<>>
  <2>1. PICK seqs, T, acts : /\ T = StepsOf(s) /\ acts = s.acts
                             /\ seqs = [j \in DOMAIN acts |-> acts[j].steps]
    OBVIOUS
  <2>2. \A j \in DOMAIN acts : acts[j].steps \in Seq(T)
    BY <1>3, <2>1 DEF ToSet
  <2>3. Len(acts) \in Nat /\ DOMAIN acts = 1..Len(acts)
    BY <1>3, <2>1
  <2>4. seqs \in Seq(Seq(T))
    BY <2>1, <2>2, <2>3
  <2> QED
    BY <1>3, <1>5, <2>1, <2>4, FlatIn DEF AllSteps
<1> QED
  BY <1>3, <1>4, <1>5

\* What the crawl visits for the scenarios are URLs.
LEMMA StepTargetsAre == config \in Setting => stepTargets \in Seq(Url)
<1> SUFFICES ASSUME config \in Setting PROVE stepTargets \in Seq(Url)
  OBVIOUS
<1>1. PICK scenarios : /\ scenarios = config.scenarios /\ scenarios \in Seq(ToSet(scenarios))
  BY SettingAssumption
<1> DEFINE navs(i) == LET steps == AllSteps(scenarios[i])
                      IN Only(steps, {st \in ToSet(steps) : st.raw # None})
           urls(i) == [j \in DOMAIN navs(i) |-> navs(i)[j].raw]
<1>2. ASSUME NEW i \in DOMAIN scenarios PROVE urls(i) \in Seq(Url)
  <2>1. PICK s, steps, T, kept :
          /\ s = scenarios[i] /\ steps = AllSteps(s) /\ T = StepsOf(s)
          /\ kept = Only(steps, {st \in ToSet(steps) : st.raw # None})
    OBVIOUS
  <2>2. steps \in Seq(T) /\ \A step \in T : step.raw \in Url \/ step.raw = None
    <3>1. s \in ToSet(config.scenarios)
      BY <1>1, <2>1 DEF ToSet
    <3> QED
      BY <2>1, <3>1, StepsAre DEF GoesToUrl
  <2>3. kept \in Seq(T) /\ ToSet(kept) = ToSet(steps) \cap {st \in ToSet(steps) : st.raw # None}
    BY <2>1, <2>2, OnlyIs
  <2>4. \A j \in DOMAIN kept : kept[j].raw \in Url
    BY <2>2, <2>3 DEF ToSet
  <2>5. Len(kept) \in Nat /\ DOMAIN kept = 1..Len(kept)
    BY <2>3
  <2>6. [j \in DOMAIN kept |-> kept[j].raw] \in Seq(Url)
    BY <2>4, <2>5
  <2>7. navs(i) = kept
    BY <2>1
  <2> QED
    BY <2>6, <2>7
<1>3. stepTargets = FlattenSeq([i \in DOMAIN scenarios |-> urls(i)])
  BY <1>1 DEF stepTargets
<1> HIDE DEF urls
<1>4. Len(scenarios) \in Nat /\ DOMAIN scenarios = 1..Len(scenarios)
  BY <1>1
<1>5. [i \in DOMAIN scenarios |-> urls(i)] \in Seq(Seq(Url))
  <2>1. PICK U : U = Seq(Url)
    OBVIOUS
  <2>2. \A i \in DOMAIN scenarios : urls(i) \in U
    BY <1>2, <2>1
  <2> QED
    BY <1>4, <2>1, <2>2
<1> QED
  BY <1>3, <1>5, FlatIn

LEMMA NewCrawlIs ==
  ASSUME config \in Setting, NEW skip, crawl' = newCrawl(RunTarget, skip, stepTargets)
  PROVE  CrawlOK' /\ crawl'.stage \in {"login", "base"}
<1>1. stepTargets \in Seq(Url) /\ RunTarget \in Target
  BY StepTargetsAre, TargetAssumption
<1>2. /\ DOMAIN crawl' = CrawlFields /\ crawl'.stage \in {"login", "base"} /\ crawl'.target = RunTarget
      /\ crawl'.todo = stepTargets /\ crawl'.visited = {} /\ crawl'.failed = {}
      /\ crawl'.rawPages = <<>> /\ crawl'.results = <<>> /\ crawl'.edges = <<>>
      /\ crawl'.queue = <<>> /\ crawl'.candidates = <<>> /\ crawl'.held = TRUE
  BY DEF newCrawl, CrawlFields
<1>3. <<>> \in Seq(Url) /\ DOMAIN <<>> = {}
  OBVIOUS
<1>4. Listed(crawl.edges)' /\ Listed(crawl.queue)' /\ Listed(crawl.candidates)' /\ ToSet(crawl'.candidates) = {}
  BY <1>2, NothingListed
<1>5. QueueOK'
  BY <1>2, <1>3 DEF QueueOK
<1>6. SearchOK'
  BY <1>2, <1>4, <1>5 DEF SearchOK
<1> QED
  BY <1>1, <1>2, <1>3, <1>4, <1>6 DEF CrawlOK, CrawlFound

\* The stages before and around the search.
LEMMA StagesKeepShape ==
  ASSUME version \in DOMAIN App, CrawlOK, NEW user,
         CrawlLogin(user) \/ CaptureBase \/ FollowScenario \/ StartDiscovery \/ EndClicks \/ EndDiscovery
  PROVE  CrawlFound'
<1>1. CrawlFound
  BY DEF CrawlOK, NoCrawl, CrawlLogin, CaptureBase, FollowScenario, StartDiscovery, EndClicks, EndDiscovery
<1>f. /\ DOMAIN crawl = CrawlFields /\ crawl.target \in Target /\ crawl.todo \in Seq(Url)
      /\ crawl.rawPages \in Seq(Url) /\ crawl.results \in Seq(Url)
      /\ crawl.edges \in Seq(ToSet(crawl.edges)) /\ crawl.visited \subseteq Url /\ crawl.held \in BOOLEAN
  BY <1>1 DEF CrawlFound, Listed
<1>l. \A t \in Target : BaseUrl[t] \in Url /\ TargetOf[BaseUrl[t]] = t
  BY PagesAssumption
<1>g. ASSUME NEW url \in Url, Goto(url) PROVE page'.at \in Url /\ page'.arriving = <<>>
  <2>1. PICK who : page' = [at |-> Lands(url, who), arriving |-> <<>>]
    BY <1>g DEF Goto
  <2> QED
    BY <2>1, LandsIn
<1>k. ASSUME crawl'.queue = crawl.queue, crawl'.target = crawl.target, crawl'.visited = crawl.visited,
             crawl'.failed = crawl.failed, crawl'.candidates = crawl.candidates,
             crawl'.stage # "click"
      PROVE  SearchOK'
  BY <1>1, <1>k DEF CrawlFound, SearchOK, QueueOK
<1>s. /\ crawl.stage \in {"login", "base", "scenario"} =>
          /\ crawl.visited = {} /\ crawl.failed = {} /\ crawl.results = <<>>
          /\ crawl.edges = <<>> /\ crawl.queue = <<>> /\ crawl.candidates = <<>>
      /\ crawl.stage \in {"scenario", "discover", "click", "done"} => page.arriving = <<>>
  BY <1>1 DEF CrawlFound
<1>2. CASE CrawlLogin(user)
  <2>1. crawl' = [crawl EXCEPT !.stage = "failed"] \/ crawl' = [crawl EXCEPT !.stage = "base"]
    BY <1>2 DEF CrawlLogin
  <2>2. /\ crawl'.stage \in {"failed", "base"} /\ DOMAIN crawl' = CrawlFields
        /\ crawl'.target = crawl.target /\ crawl'.todo = crawl.todo /\ crawl'.rawPages = crawl.rawPages
        /\ crawl'.results = crawl.results /\ crawl'.edges = crawl.edges /\ crawl'.visited = crawl.visited
        /\ crawl'.held = crawl.held /\ crawl'.failed = crawl.failed /\ crawl'.queue = crawl.queue
        /\ crawl'.candidates = crawl.candidates
    BY <1>f, <2>1 DEF CrawlFields
  <2>3. crawl.stage = "login"
    BY <1>2 DEF CrawlLogin
  <2> QED
    BY <1>f, <1>k, <1>s, <2>2, <2>3 DEF CrawlFound, Listed
<1>3. CASE CaptureBase
  <2>0. crawl.stage = "base" /\ BaseUrl[crawl.target] \in Url
    BY <1>3, <1>f, <1>l DEF CaptureBase
  <2>1. \/ crawl' = [crawl EXCEPT !.stage = "failed"]
        \/ /\ Goto(BaseUrl[crawl.target])
           /\ crawl' = [crawl EXCEPT !.stage = "scenario", !.visitedUrls = {page'.at},
                                     !.rawPages = <<page'.at>>]
    BY <1>3 DEF CaptureBase
  <2>2. CASE crawl' = [crawl EXCEPT !.stage = "failed"]
    <3>1. /\ crawl'.stage = "failed" /\ DOMAIN crawl' = CrawlFields
          /\ crawl'.target = crawl.target /\ crawl'.todo = crawl.todo /\ crawl'.rawPages = crawl.rawPages
          /\ crawl'.results = crawl.results /\ crawl'.edges = crawl.edges /\ crawl'.visited = crawl.visited
          /\ crawl'.held = crawl.held /\ crawl'.failed = crawl.failed /\ crawl'.queue = crawl.queue
          /\ crawl'.candidates = crawl.candidates
      BY <1>f, <2>2 DEF CrawlFields
    <3> QED
      BY <1>f, <1>k, <3>1 DEF CrawlFound, Listed
  <2>3. CASE /\ Goto(BaseUrl[crawl.target])
             /\ crawl' = [crawl EXCEPT !.stage = "scenario", !.visitedUrls = {page'.at},
                                       !.rawPages = <<page'.at>>]
    <3>1. /\ crawl'.stage = "scenario" /\ DOMAIN crawl' = CrawlFields
          /\ crawl'.target = crawl.target /\ crawl'.todo = crawl.todo /\ crawl'.rawPages = <<page'.at>>
          /\ crawl'.results = crawl.results /\ crawl'.edges = crawl.edges /\ crawl'.visited = crawl.visited
          /\ crawl'.held = crawl.held /\ crawl'.failed = crawl.failed /\ crawl'.queue = crawl.queue
          /\ crawl'.candidates = crawl.candidates
      BY <1>f, <2>3 DEF CrawlFields
    <3>2. page'.at \in Url /\ page'.arriving = <<>> /\ <<page'.at>> \in Seq(Url)
      BY <1>g, <2>0, <2>3
    <3> QED
      BY <1>f, <1>k, <1>s, <2>0, <3>1, <3>2 DEF CrawlFound, Listed
  <2> QED
    BY <2>1, <2>2, <2>3
<1>4. CASE FollowScenario
  <2>0. crawl.stage = "scenario" /\ crawl.todo # <<>> /\ page.arriving = <<>>
    BY <1>4, <1>s DEF FollowScenario
  <2>a. PICK s : s = crawl.todo /\ s \in Seq(Url) /\ s # <<>>
    BY <1>f, <2>0
  <2>b. Tail(s) \in Seq(Url) /\ Head(s) \in Url
    BY <2>a
  <2>1. PICK todo, url : todo = Tail(crawl.todo) /\ url = Head(crawl.todo) /\ todo \in Seq(Url) /\ url \in Url
    BY <2>a, <2>b
  <2>2. PICK visitedUrls, rawPages :
          /\ crawl' = [crawl EXCEPT !.todo = todo, !.visitedUrls = visitedUrls, !.rawPages = rawPages]
          /\ rawPages \in Seq(Url) /\ page'.arriving = <<>>
    <3>1. CASE crawl' = [crawl EXCEPT !.todo = Tail(@)] /\ page' = page
      <4>1. crawl' = [crawl EXCEPT !.todo = todo, !.visitedUrls = crawl.visitedUrls,
                                   !.rawPages = crawl.rawPages]
        BY <1>f, <2>1, <3>1 DEF CrawlFields
      <4> QED
        BY <1>f, <2>0, <3>1, <4>1
    <3>2. CASE /\ Goto(url)
               /\ crawl' = [[crawl EXCEPT !.todo = Tail(@)] EXCEPT
                              !.visitedUrls = @ \cup {url}, !.rawPages = Append(@, page'.at)]
      <4>1. page'.at \in Url /\ page'.arriving = <<>>
        BY <1>g, <2>1, <3>2
      <4>2. Append(crawl.rawPages, page'.at) \in Seq(Url)
        BY <1>f, <4>1
      <4>3. crawl' = [crawl EXCEPT !.todo = todo, !.visitedUrls = crawl.visitedUrls \cup {url},
                                   !.rawPages = Append(crawl.rawPages, page'.at)]
        BY <1>f, <2>1, <3>2 DEF CrawlFields
      <4> QED
        BY <4>1, <4>2, <4>3
    <3> QED
      BY <1>4, <2>1, <3>1, <3>2 DEF FollowScenario
  <2>3. /\ crawl'.stage = "scenario" /\ DOMAIN crawl' = CrawlFields
        /\ crawl'.target = crawl.target /\ crawl'.todo = todo /\ crawl'.rawPages = rawPages
        /\ crawl'.results = crawl.results /\ crawl'.edges = crawl.edges /\ crawl'.visited = crawl.visited
        /\ crawl'.held = crawl.held /\ crawl'.failed = crawl.failed /\ crawl'.queue = crawl.queue
        /\ crawl'.candidates = crawl.candidates
    BY <1>f, <2>0, <2>2 DEF CrawlFields
  <2> QED
    BY <1>f, <1>k, <1>s, <2>0, <2>1, <2>2, <2>3 DEF CrawlFound, Listed
<1>5. CASE StartDiscovery
  <2>1. PICK item : /\ item = [url |-> BaseUrl[crawl.target], depth |-> 0, from |-> NoUrl]
                    /\ crawl' = [crawl EXCEPT !.stage = "discover", !.queue = <<item>>]
    BY <1>5 DEF StartDiscovery
  <2>2. /\ crawl'.stage = "discover" /\ DOMAIN crawl' = CrawlFields /\ crawl'.queue = <<item>>
        /\ crawl'.target = crawl.target /\ crawl'.todo = crawl.todo /\ crawl'.rawPages = crawl.rawPages
        /\ crawl'.results = crawl.results /\ crawl'.edges = crawl.edges /\ crawl'.visited = crawl.visited
        /\ crawl'.held = crawl.held /\ crawl'.failed = crawl.failed /\ crawl'.candidates = crawl.candidates
    BY <1>f, <2>1 DEF CrawlFields
  <2>3. <<item>> \in Seq({item}) /\ DOMAIN <<item>> = {1} /\ <<item>>[1] = item
    OBVIOUS
  <2>4. DOMAIN item = {"url", "depth", "from"} /\ item.url = BaseUrl[crawl.target] /\ item.depth = 0
    BY <2>1
  <2>5. QueueOK'
    BY <1>f, <1>l, <2>2, <2>3, <2>4 DEF QueueOK
  <2>6. Listed(crawl.queue)'
    BY <2>2, <2>3, SequencesAreListed
  <2>7. SearchOK'
    BY <1>1, <2>2, <2>5, <2>6 DEF CrawlFound, SearchOK
  <2>8. page' = page /\ crawl.stage = "scenario"
    BY <1>5 DEF StartDiscovery, webVars
  <2> QED
    BY <1>f, <1>s, <2>2, <2>7, <2>8 DEF CrawlFound, Listed
<1>6. CASE EndClicks
  <2>1. /\ crawl' = [crawl EXCEPT !.stage = "discover"] /\ page' = page /\ crawl.stage = "click"
    BY <1>6 DEF EndClicks, webVars
  <2>2. /\ crawl'.stage = "discover" /\ DOMAIN crawl' = CrawlFields /\ crawl'.queue = crawl.queue
        /\ crawl'.target = crawl.target /\ crawl'.todo = crawl.todo /\ crawl'.rawPages = crawl.rawPages
        /\ crawl'.results = crawl.results /\ crawl'.edges = crawl.edges /\ crawl'.visited = crawl.visited
        /\ crawl'.held = crawl.held /\ crawl'.failed = crawl.failed /\ crawl'.candidates = crawl.candidates
    BY <1>f, <2>1 DEF CrawlFields
  <2> QED
    BY <1>f, <1>k, <1>s, <2>1, <2>2 DEF CrawlFound, Listed
<1>7. CASE EndDiscovery
  <2>1. PICK merged : merged = Merge(crawl.rawPages, crawl.results)
    OBVIOUS
  <2>2. /\ crawl' = [crawl EXCEPT !.stage = "done", !.rawPages = merged] /\ page' = page
        /\ crawl.stage = "discover" /\ (crawl.queue = <<>> \/ Enough(crawl.results))
    BY <1>7, <2>1 DEF EndDiscovery, webVars
  <2>3. /\ crawl'.stage = "done" /\ DOMAIN crawl' = CrawlFields /\ crawl'.queue = crawl.queue
        /\ crawl'.target = crawl.target /\ crawl'.todo = crawl.todo /\ crawl'.rawPages = merged
        /\ crawl'.results = crawl.results /\ crawl'.edges = crawl.edges /\ crawl'.visited = crawl.visited
        /\ crawl'.held = crawl.held /\ crawl'.failed = crawl.failed /\ crawl'.candidates = crawl.candidates
    BY <1>f, <2>2 DEF CrawlFields
  <2>4. /\ merged \in Seq(Url)
        /\ \A i \in DOMAIN crawl.results :
              Key[crawl.results[i]] \in PageKeys(merged) \/ Enough(merged)
    BY <1>f, <2>1, MergeIs
  <2> QED
    BY <1>f, <1>k, <1>s, <2>2, <2>3, <2>4 DEF CrawlFound, Listed
<1> QED
  BY <1>2, <1>3, <1>4, <1>5, <1>6, <1>7

\* A crawl runs in the collect stage; the application stays as it is then, and
\* nobody else uses the browser.
LEMMA CrawlMoves ==
  ASSUME Shape, CrawlShape, [Next]_vars
  PROVE  /\ CrawlShape'
         /\ \/ ~Searching'
            \/ UNCHANGED <<crawl, session, version>>
            \/ \E user : CrawlStep(user)
<1>c. config \in Setting /\ CrawlOK /\ (crawl.stage # "none" => In("collect"))
  BY DEF CrawlShape
<1>v. version \in DOMAIN App
  BY DEF Shape
<1>u. ASSUME UNCHANGED <<crawl, config>>, page' = page \/ page'.arriving = <<>>
      PROVE  config' \in Setting /\ CrawlOK'
  <2>1. CASE crawl = NoCrawl \/ crawl = [stage |-> "failed"]
    BY <1>c, <1>u, <2>1 DEF CrawlOK
  <2>2. CASE CrawlFound
    BY <1>c, <1>u, <2>2 DEF CrawlOK, CrawlFound, SearchOK, QueueOK
  <2> QED
    BY <1>c, <2>1, <2>2 DEF CrawlOK
<1>n. ASSUME crawl' = NoCrawl PROVE CrawlOK' /\ crawl'.stage = "none" /\ ~Searching'
  BY <1>n DEF CrawlOK, NoCrawl, Searching
<1>1. CASE UNCHANGED vars
  <2>1. UNCHANGED <<crawl, config, page, cmd, session, version>>
    BY <1>1 DEF vars, browserVars, worldVars
  <2> QED
    BY <1>c, <1>u, <2>1 DEF CrawlShape, In
<1>2. CASE Elsewhere
  <2>1. UNCHANGED <<crawl, config, page, session>>
    BY <1>2 DEF Elsewhere, Edit, Tick, AnalyzeStructure, SkipStructure, PhaseStructure, EmitAnalysis,
         RecordAnalysis, SkipBehavior, Emit, RecordBehavior, ClearStructure, ClearBehavior,
         browserVars, worldVars
  <2>2. ~In("collect")
    BY <1>2 DEF Elsewhere, Edit, Tick, AnalyzeStructure, SkipStructure, PhaseStructure, EmitAnalysis,
         RecordAnalysis, SkipBehavior, Emit, RecordBehavior, ClearStructure, ClearBehavior, Started,
         In, Apart
  <2>3. crawl'.stage = "none"
    BY <1>c, <2>1, <2>2
  <2> QED
    BY <1>u, <2>1, <2>3 DEF CrawlShape, Searching
<1>3. CASE Passes
  <2>1. ASSUME NEW by, NEW explore \in BOOLEAN, RunCli(by, explore)
        PROVE  CrawlShape' /\ ~Searching'
    <3>1. UNCHANGED config /\ cmd.kind = "idle" /\ crawl.stage = "none"
      BY <1>c, <2>1 DEF RunCli, Started, In
    <3>2. CASE explore
      <4>1. UNCHANGED crawl /\ page' = NoPage
        BY <2>1, <3>2 DEF RunCli, OpenPage
      <4>2. CrawlOK'
        BY <1>u, <3>1, <4>1 DEF NoPage
      <4> QED
        BY <1>c, <3>1, <4>1, <4>2 DEF CrawlShape, Searching
    <3>3. CASE ~explore
      <4>1. crawl' = newCrawl(RunTarget, ~config.loginPath, stepTargets)
        BY <2>1, <3>3 DEF RunCli
      <4>2. CrawlOK' /\ crawl'.stage \in {"login", "base"}
        BY <1>c, <4>1, NewCrawlIs
      <4>3. In("collect")'
        BY <2>1, <3>3 DEF RunCli, Started, In
      <4> QED
        BY <1>c, <3>1, <4>2, <4>3 DEF CrawlShape, Searching
    <3> QED
      BY <3>2, <3>3
  <2>2. CASE SharedContext
    <3>1. UNCHANGED config /\ In("collect")'
      <4>1. CmdOK /\ In("auth") /\ Enters("collect")
        BY <2>2 DEF SharedContext, Shape
      <4>2. DOMAIN cmd = BehaviorFields /\ cmd.kind = "behavior"
        BY <4>1 DEF CmdOK, In, Idle
      <4>3. In("collect")'
        BY <4>1, <4>2 DEF Enters, In, BehaviorFields
      <4> QED
        BY <2>2, <4>3 DEF SharedContext, worldVars
    <3>2. \/ crawl' = newCrawl(RunTarget, TRUE, stepTargets)
          \/ crawl' = [stage |-> "failed"]
      BY <2>2 DEF SharedContext
    <3>3. CASE crawl' = newCrawl(RunTarget, TRUE, stepTargets)
      <4>1. CrawlOK' /\ crawl'.stage \in {"login", "base"}
        BY <1>c, <3>3, NewCrawlIs
      <4> QED
        BY <1>c, <3>1, <4>1 DEF CrawlShape, Searching
    <3>4. CASE crawl' = [stage |-> "failed"]
      BY <1>c, <3>1, <3>4 DEF CrawlShape, CrawlOK, Searching
    <3> QED
      BY <3>2, <3>3, <3>4
  <2>3. CASE Collected \/ Crash
    <3>1. UNCHANGED config /\ crawl' = NoCrawl
      BY <2>3 DEF Collected, Crash, worldVars
    <3> QED
      BY <1>c, <1>n, <3>1 DEF CrawlShape
  <2>4. CASE LoginTested \/ ScenariosTested
    <3>1. UNCHANGED <<config, crawl>> /\ page' = NoPage /\ ~In("collect")
      BY <2>4 DEF LoginTested, ScenariosTested, OpenPage, In, worldVars
    <3>2. crawl'.stage = "none"
      BY <1>c, <3>1
    <3>3. CrawlOK'
      BY <1>u, <3>1 DEF NoPage
    <3> QED
      BY <1>c, <3>1, <3>2, <3>3 DEF CrawlShape, Searching
  <2> QED
    BY <1>3, <2>1, <2>2, <2>3, <2>4 DEF Passes, AnalyzeBehavior, PhaseBehavior
<1>4. CASE BrowserStep
  <2>0. UNCHANGED cmd /\ cmd.kind = "behavior"
    BY <1>4 DEF BrowserStep
  <2>1. CASE cmd.stage = "collect" /\ CrawlStep(config.creds[RunTarget]) /\ UNCHANGED config
    <3>1. CrawlFound'
      BY <1>c, <1>v, <2>1, VisitKeepsShape, ClickKeepsShape, StagesKeepShape DEF CrawlStep
    <3>2. In("collect")'
      BY <2>0, <2>1 DEF In
    <3> QED
      BY <1>c, <2>1, <3>1, <3>2 DEF CrawlShape, CrawlOK
  <2>2. CASE (LoginStep /\ UNCHANGED <<crawl, exec, config>>) \/ (cmd.stage = "scenarios" /\ ScenarioStep /\ UNCHANGED crawl)
    <3>1. ~In("collect") /\ UNCHANGED crawl
      <4>1. LoginStep => login.stage # "none"
        BY DEF LoginStep, LoginOpens, LoginSubmits, LoginJudges, PinSubmits, PinJudges
      <4>2. LoginHasItsTime
        BY DEF Shape
      <4> QED
        BY <2>2, <4>1, <4>2 DEF LoginHasItsTime, In
    <3>2. crawl = NoCrawl /\ crawl'.stage = "none"
      BY <1>c, <3>1 DEF CrawlOK, CrawlFound
    <3>3. UNCHANGED config
      BY <2>2 DEF ScenarioStep, TakeScenario, BeginAct, Probe, LoggedIn, RunStep, StepsOver
    <3> QED
      BY <1>c, <1>n, <3>1, <3>2, <3>3 DEF CrawlShape, NoCrawl
  <2>3. CASE AppArrives /\ UNCHANGED <<crawl, login, exec, config>>
    <3>1. page.arriving # <<>> /\ page'.arriving = <<>>
      BY <2>3 DEF AppArrives
    <3>2. CrawlOK' /\ config' \in Setting
      BY <1>u, <2>3, <3>1
    <3>3. ~Searching'
      BY <1>c, <2>3, <3>1 DEF CrawlOK, CrawlFound, Searching, NoCrawl
    <3> QED
      BY <1>c, <2>0, <2>3, <3>2, <3>3 DEF CrawlShape, In
  <2> QED
    BY <1>4, <2>1, <2>2, <2>3 DEF BrowserStep
<1> QED
  BY <1>1, <1>2, <1>3, <1>4, NextParts

LEMMA CrawlShapeHolds == Spec => [](Shape /\ CrawlShape)
<1>1. Init => CrawlShape
  BY DEF Init, CrawlShape, CrawlOK, NoCrawl
<1>2. Shape /\ CrawlShape /\ [Next]_vars => CrawlShape'
  BY CrawlMoves
<1> QED
  BY <1>1, <1>2, ShapeHolds, PTL DEF Spec

-------------------------------------------------------------------------------
(* The forest of the edges.                                                  *)

\* A new edge leaves a page that has its place, and ends at no page that had
\* none.
LEMMA EdgesGrow ==
  ASSUME version \in DOMAIN App, SessionOK, UNCHANGED version, crawl'.target = crawl.target,
         NEW x, session' \in {session, SessionAfter(x, session)},
         Listed(crawl.edges), crawl.visited \subseteq crawl'.visited, Forest, NEW edge,
         \/ crawl'.edges = crawl.edges
         \/ /\ crawl'.edges = Append(crawl.edges, edge)
            /\ edge.from \in crawl.visited \ crawl.failed
            /\ \A k \in crawl.visited : NeverLands(k) => edge.to # k
  PROVE  /\ \A k : Placed(k) => Placed(k)'
         /\ \A k : Reached(k) => Reached(k)'
         /\ \A i \in DOMAIN crawl'.edges : EdgeOK(i)'
         /\ \A k : k = edge.to /\ crawl'.edges # crawl.edges => Reached(k)'
<1>1. PICK edges, n : edges = crawl.edges /\ n = Len(edges) /\ n \in Nat /\ DOMAIN edges = 1..n
  BY DEF Listed
<1>2. /\ \/ crawl'.edges = edges /\ DOMAIN crawl'.edges = 1..n
         \/ /\ DOMAIN crawl'.edges = 1..n + 1 /\ crawl'.edges[n + 1] = edge
            /\ edge.from \in crawl.visited \ crawl.failed
            /\ \A k \in crawl.visited : NeverLands(k) => edge.to # k
      /\ \A i \in 1..n : i \in DOMAIN crawl'.edges /\ crawl'.edges[i] = edges[i]
  BY <1>1, AddedTo
<1>3. ASSUME NEW k, NeverLands(k) PROVE NeverLands(k)'
  BY <1>3, NeverLandsStays
<1>4. ASSUME NEW k, Reached(k) PROVE Reached(k)'
  BY <1>1, <1>2, <1>4 DEF Reached
<1>5. ASSUME NEW k, Placed(k) PROVE Placed(k)'
  BY <1>3, <1>4, <1>5 DEF Placed, BaseKey
<1>6. ASSUME NEW k \in crawl.visited, NeverLands(k), ~Reached(k) PROVE ~Reached(k)'
  <2>1. ASSUME NEW i \in DOMAIN crawl'.edges, crawl'.edges[i].to = k PROVE FALSE
    <3>1. CASE i \in 1..n
      <4>1. i \in DOMAIN crawl.edges /\ crawl.edges[i].to = k
        BY <1>1, <1>2, <2>1, <3>1
      <4> QED
        BY <1>6, <4>1 DEF Reached
    <3>2. CASE i \notin 1..n
      <4>1. edge.to = k /\ edge.to # k
        BY <1>1, <1>2, <1>6, <2>1, <3>2
      <4> QED
        BY <4>1
    <3> QED
      BY <3>1, <3>2
  <2> QED
    BY <2>1 DEF Reached
<1>7. ASSUME NEW i \in DOMAIN crawl'.edges PROVE EdgeOK(i)'
  <2>1. CASE i \in 1..n
    <3>1. PICK k : k = edges[i].from /\ k = crawl'.edges[i].from
      BY <1>2, <2>1
    <3>2. \/ k = BaseKey
          \/ \E j \in 1..i - 1 : edges[j].to = k
          \/ k \in crawl.visited /\ ~Reached(k) /\ NeverLands(k)
      BY <1>1, <2>1, <3>1 DEF Forest, EdgeOK
    <3>3. CASE k = BaseKey
      BY <3>1, <3>3 DEF EdgeOK, BaseKey
    <3>4. CASE \E j \in 1..i - 1 : edges[j].to = k
      <4>1. PICK j \in 1..i - 1 : edges[j].to = k
        BY <3>4
      <4>2. crawl'.edges[j].to = k
        BY <1>1, <1>2, <2>1, <4>1
      <4> QED
        BY <3>1, <4>2 DEF EdgeOK
    <3>5. CASE k \in crawl.visited /\ ~Reached(k) /\ NeverLands(k)
      <4>1. k \in crawl'.visited /\ ~Reached(k)' /\ NeverLands(k)'
        BY <1>3, <1>6, <3>5
      <4> QED
        BY <3>1, <4>1 DEF EdgeOK
    <3> QED
      BY <3>2, <3>3, <3>4, <3>5
  <2>2. CASE i \notin 1..n
    <3>1. /\ i = n + 1 /\ crawl'.edges[i] = edge /\ edge.from \in crawl.visited \ crawl.failed
          /\ \A k \in crawl.visited : NeverLands(k) => edge.to # k
      BY <1>1, <1>2, <2>2
    <3>2. PICK k : k = edge.from
      OBVIOUS
    <3>3. Placed(k)
      BY <3>1, <3>2 DEF Forest
    <3>4. CASE k = BaseKey
      BY <3>1, <3>2, <3>4 DEF EdgeOK, BaseKey
    <3>5. CASE Reached(k)
      <4>1. PICK j \in 1..n : edges[j].to = k
        BY <1>1, <3>5 DEF Reached
      <4>2. j \in 1..i - 1 /\ crawl'.edges[j].to = k
        BY <1>1, <1>2, <3>1, <4>1
      <4> QED
        BY <3>1, <3>2, <4>2 DEF EdgeOK
    <3>6. CASE ~Reached(k) /\ NeverLands(k)
      <4>1. k \in crawl'.visited /\ ~Reached(k)' /\ NeverLands(k)'
        BY <1>3, <1>6, <3>1, <3>2, <3>6
      <4> QED
        BY <3>1, <3>2, <4>1 DEF EdgeOK
    <3> QED
      BY <3>3, <3>4, <3>5, <3>6 DEF Placed
  <2> QED
    BY <2>1, <2>2
<1>8. ASSUME NEW k, k = edge.to, crawl'.edges # crawl.edges PROVE Reached(k)'
  <2>1. n + 1 \in DOMAIN crawl'.edges /\ crawl'.edges[n + 1].to = k
    BY <1>1, <1>2, <1>8
  <2> QED
    BY <2>1 DEF Reached
<1> QED
  BY <1>4, <1>5, <1>7, <1>8

LEMMA ForestVisit ==
  ASSUME Shape, CrawlFound, KeysTell, Forest, VisitNext
  PROVE  Forest'
<1>v. version \in DOMAIN App /\ SessionOK /\ CrawlOK
  BY DEF Shape, CrawlOK
<1>1. /\ crawl.queue # <<>> /\ crawl.stage = "discover" /\ UNCHANGED version
      /\ crawl'.target = crawl.target
  BY <1>v, VisitParts DEF Kept4
<1>2. PICK item, key, landed :
        /\ item = Head(crawl.queue) /\ key = Key[item.url]
        /\ SkipsVisit(key) \/ FailsVisit(key) \/ Captures(item, key, landed)
  BY <1>v, VisitParts
<1>3. PICK queue, rest, visited, failed :
        /\ queue = crawl.queue /\ rest = Tail(queue) /\ Listed(queue) /\ queue # <<>>
        /\ visited = crawl.visited /\ failed = crawl.failed /\ failed \subseteq visited
  BY <1>1 DEF CrawlFound, SearchOK
<1>4. /\ 1 \in DOMAIN queue /\ item = queue[1] /\ Listed(rest)
      /\ \A i \in DOMAIN rest : i + 1 \in DOMAIN queue /\ rest[i] = queue[i + 1]
  BY <1>2, <1>3, TailOf
<1>5. item.url \in Url /\ TargetOf[item.url] = crawl.target /\ key \in Url
  BY <1>2, <1>3, <1>4, <1>v, LandsIn DEF CrawlFound, SearchOK, QueueOK
<1>6. PICK edge : edge = [from |-> item.from, to |-> Key[landed], kind |-> "link"]
  OBVIOUS
<1>7. /\ visited \subseteq crawl'.visited /\ session' \in {session, SessionAfter(landed, session)}
      /\ \/ crawl'.edges = crawl.edges
         \/ /\ Captures(item, key, landed) /\ item.from # NoUrl
            /\ crawl'.edges = Append(crawl.edges, edge)
  BY <1>2, <1>3, <1>6 DEF SkipsVisit, FailsVisit, Captures
<1>8. ASSUME Captures(item, key, landed), item.from # NoUrl
      PROVE  /\ edge.from \in visited \ failed
             /\ \A k \in visited : NeverLands(k) => edge.to # k
  <2>1. item.from \in visited \ failed
    BY <1>3, <1>4, <1>8 DEF Forest
  <2>2. landed = Lands(item.url, session)
    BY <1>8 DEF Captures
  <2> QED
    BY <1>5, <1>6, <2>1, <2>2 DEF NeverLands
<1>g. Listed(crawl.edges)
  BY DEF CrawlFound
<1>9. /\ \A k : Placed(k) => Placed(k)'
      /\ \A k : Reached(k) => Reached(k)'
      /\ \A i \in DOMAIN crawl'.edges : EdgeOK(i)'
      /\ \A k : k = edge.to /\ crawl'.edges # crawl.edges => Reached(k)'
  BY <1>v, <1>1, <1>3, <1>7, <1>8, <1>g, EdgesGrow
<1>11. ASSUME NEW k \in visited \ failed PROVE Placed(k)'
  BY <1>3, <1>9, <1>11 DEF Forest
<1>12. /\ visited \ failed \subseteq crawl'.visited \ crawl'.failed
       /\ \A k \in crawl'.visited \ crawl'.failed :
             k \in visited \ failed \/ (k = key /\ Captures(item, key, landed))
  BY <1>2, <1>3 DEF SkipsVisit, FailsVisit, Captures
<1>13. ASSUME Captures(item, key, landed) PROVE Placed(key)'
  <2>1. CASE item.from = NoUrl
    <3>1. key = BaseKey \/ Reached(key)
      BY <1>2, <1>3, <1>4, <2>1 DEF Forest
    <3> QED
      BY <1>9, <3>1 DEF Placed
  <2>2. CASE item.from # NoUrl
    <3>1. crawl'.edges = Append(crawl.edges, edge) /\ landed = Lands(item.url, session)
      BY <1>6, <1>13, <2>2 DEF Captures
    <3>2. crawl'.edges # crawl.edges
      BY <1>g, <3>1, AddedTo
    <3>3. CASE Key[landed] = key
      <4>1. key = edge.to
        BY <1>6, <3>3
      <4> QED
        BY <1>9, <3>2, <4>1 DEF Placed
    <3>4. CASE Key[landed] # key
      <4>1. Placed(key)
        BY <1>2, <1>5, <1>v, <3>1, <3>4, LedAway DEF Placed
      <4> QED
        BY <1>9, <4>1
    <3> QED
      BY <3>3, <3>4
  <2> QED
    BY <2>1, <2>2
<1>14. \A k \in crawl'.visited \ crawl'.failed : Placed(k)'
  BY <1>11, <1>12, <1>13
<1>15. ASSUME NEW i \in DOMAIN crawl'.queue
       PROVE  \/ \E j \in DOMAIN queue : crawl'.queue[i] = queue[j]
              \/ Captures(item, key, landed) /\ crawl'.queue[i].from = key
  <2>1. CASE crawl'.queue = rest
    BY <1>4, <1>15, <2>1
  <2>2. CASE crawl'.queue # rest
    <3>1. PICK q, seen, depth, all :
            /\ seen = visited \cup {key} /\ depth = item.depth + 1
            /\ q = Enqueued(NewLinks(landed, seen), depth, key)
            /\ all = rest \o q /\ crawl'.queue = all /\ Captures(item, key, landed)
      BY <1>2, <1>3, <2>2 DEF SkipsVisit, FailsVisit, Captures
    <3>2. landed \in Url
      BY <1>5, <1>v, <3>1, LandsIn DEF Captures
    <3>a. version \in DOMAIN App /\ q = Enqueued(NewLinks(landed, seen), depth, key) /\ all = rest \o q
      BY <1>v, <3>1
    <3>3. Listed(q)
      BY <3>a, <3>2, EnqueuedIs
    <3>4. \A j \in DOMAIN q : q[j].from = key
      <4>1. \A j \in DOMAIN q : q[j] = [url |-> q[j].url, depth |-> depth, from |-> key]
        BY <3>a, <3>2, EnqueuedIs
      <4> QED
        BY <4>1
    <3>b. Listed(rest)
      BY <1>4
    <3>c. /\ Listed(all)
          /\ \A j \in DOMAIN all : \/ j \in DOMAIN rest /\ all[j] = rest[j]
                                   \/ j - Len(rest) \in DOMAIN q /\ all[j] = q[j - Len(rest)]
      BY <3>a, <3>b, <3>3, JoinOf
    <3>d. i \in DOMAIN all /\ crawl'.queue[i] = all[i]
      BY <1>15, <3>1
    <3>5. \/ \E j \in DOMAIN rest : crawl'.queue[i] = rest[j]
          \/ \E j \in DOMAIN q : crawl'.queue[i] = q[j]
      BY <3>c, <3>d
    <3> QED
      BY <1>4, <3>1, <3>4, <3>5
  <2> QED
    BY <2>1, <2>2
<1>16. ASSUME NEW i \in DOMAIN crawl'.queue
       PROVE  LET new == crawl'.queue[i]
              IN IF new.from = NoUrl
                 THEN \/ Key[new.url] = BaseKey'
                      \/ \E e \in DOMAIN crawl'.edges : crawl'.edges[e].to = Key[new.url]
                 ELSE new.from \in crawl'.visited \ crawl'.failed
  <2>1. CASE \E j \in DOMAIN queue : crawl'.queue[i] = queue[j]
    <3>1. PICK j \in DOMAIN queue : crawl'.queue[i] = queue[j]
      BY <2>1
    <3>2. IF queue[j].from = NoUrl THEN Key[queue[j].url] = BaseKey \/ Reached(Key[queue[j].url])
          ELSE queue[j].from \in visited \ failed
      BY <1>3 DEF Forest
    <3>3. BaseKey' = BaseKey
      BY <1>1 DEF BaseKey
    <3>4. PICK k : k = Key[queue[j].url]
      OBVIOUS
    <3>5. Reached(k) => Reached(k)'
      BY <1>9
    <3> QED
      BY <1>12, <3>1, <3>2, <3>3, <3>4, <3>5 DEF Reached
  <2>2. CASE Captures(item, key, landed) /\ crawl'.queue[i].from = key
    <3>1. key \in crawl'.visited \ crawl'.failed /\ key # NoUrl
      BY <1>3, <1>5, <2>2, DiscoverAssumption DEF Captures
    <3> QED
      BY <2>2, <3>1
  <2> QED
    BY <1>15, <2>1, <2>2
<1> QED
  BY <1>9, <1>14, <1>16 DEF Forest, Reached

LEMMA ForestClick ==
  ASSUME Shape, CrawlFound, KeysTell, Forest, ClickNext
  PROVE  Forest'
<1>v. version \in DOMAIN App /\ SessionOK /\ CrawlOK
  BY DEF Shape, CrawlOK
<1>1. /\ crawl.candidates # <<>> /\ crawl.stage = "click" /\ UNCHANGED version
      /\ crawl'.target = crawl.target /\ crawl'.visited = crawl.visited /\ crawl'.failed = crawl.failed
  BY <1>v, ClickParts DEF Kept8, Kept4
<1>2. PICK candidate, here, after :
        /\ candidate = Head(crawl.candidates) /\ here = Key[crawl.at.url]
        /\ LosesClick(here) \/ MissesClick(candidate) \/ Leads(candidate, here, after)
  BY <1>v, ClickParts
<1>3. PICK edge, item : /\ edge = [from |-> here, to |-> Key[after], kind |-> "click"]
                        /\ item = [url |-> after, depth |-> crawl.at.depth + 1, from |-> NoUrl]
  OBVIOUS
<1>4. /\ session' \in {session, SessionAfter(after, session)}
      /\ \/ crawl'.edges = crawl.edges /\ crawl'.queue = crawl.queue
         \/ /\ crawl'.edges = Append(crawl.edges, edge) /\ crawl'.queue = Append(crawl.queue, item)
            /\ Key[after] \notin crawl.visited
  BY <1>2, <1>3 DEF LosesClick, MissesClick, Leads
<1>5. here \in crawl.visited \ crawl.failed
  BY <1>1, <1>2 DEF CrawlFound, SearchOK
<1>g. Listed(crawl.edges) /\ Listed(crawl.queue)
  BY DEF CrawlFound, SearchOK
<1>6. /\ \A k : Placed(k) => Placed(k)'
      /\ \A k : Reached(k) => Reached(k)'
      /\ \A i \in DOMAIN crawl'.edges : EdgeOK(i)'
      /\ \A k : k = edge.to /\ crawl'.edges # crawl.edges => Reached(k)'
  BY <1>v, <1>1, <1>3, <1>4, <1>5, <1>g, EdgesGrow
<1>8. \A k \in crawl'.visited \ crawl'.failed : Placed(k)'
  BY <1>1, <1>6 DEF Forest
<1>9. BaseKey' = BaseKey
  BY <1>1 DEF BaseKey
<1>10. ASSUME NEW i \in DOMAIN crawl'.queue
       PROVE  LET new == crawl'.queue[i]
              IN IF new.from = NoUrl
                 THEN \/ Key[new.url] = BaseKey'
                      \/ \E e \in DOMAIN crawl'.edges : crawl'.edges[e].to = Key[new.url]
                 ELSE new.from \in crawl'.visited \ crawl'.failed
  <2>1. CASE i \in DOMAIN crawl.queue /\ crawl'.queue[i] = crawl.queue[i]
    <3>1. PICK old : old = crawl.queue[i]
      OBVIOUS
    <3>2. IF old.from = NoUrl THEN Key[old.url] = BaseKey \/ Reached(Key[old.url])
          ELSE old.from \in crawl.visited \ crawl.failed
      BY <2>1, <3>1 DEF Forest
    <3>3. PICK k : k = Key[old.url]
      OBVIOUS
    <3>4. Reached(k) => Reached(k)'
      BY <1>6
    <3> QED
      BY <1>1, <1>9, <2>1, <3>1, <3>2, <3>3, <3>4 DEF Reached
  <2>2. CASE crawl'.edges = Append(crawl.edges, edge) /\ crawl'.queue[i] = item
    <3>1. crawl'.edges # crawl.edges
      BY <1>g, <2>2, AddedTo
    <3>2. PICK k : k = edge.to
      OBVIOUS
    <3>3. Reached(k)'
      BY <1>6, <3>1, <3>2
    <3> QED
      BY <1>3, <2>2, <3>2, <3>3 DEF Reached
  <2>3. \/ i \in DOMAIN crawl.queue /\ crawl'.queue[i] = crawl.queue[i]
        \/ crawl'.edges = Append(crawl.edges, edge) /\ crawl'.queue[i] = item
    BY SMTT(30), <1>4, <1>10, <1>g, AddedTo
  <2> QED
    BY <2>1, <2>2, <2>3
<1> QED
  BY <1>6, <1>8, <1>10 DEF Forest, Reached

\* The search starts and ends, and nothing but its stage and its pages changes
\* in between.
LEMMA StageParts ==
  ASSUME CrawlOK, NEW user, CrawlStep(user), Searching'
  PROVE  /\ CrawlFound
         /\ \/ VisitNext \/ ClickNext
            \/ crawl'.held = crawl.held /\ crawl'.target = crawl.target
         /\ \/ StartDiscovery \/ VisitNext \/ ClickNext
            \/ /\ EndClicks \/ EndDiscovery
               /\ Searching /\ crawl.stage # "done" /\ crawl'.stage # "click"
               /\ \A field \in CrawlFields \ {"stage", "rawPages"} : crawl'[field] = crawl[field]
               /\ UNCHANGED <<session, version>>
<1>1. CrawlFound
  BY SMTT(30) DEF CrawlStep, CrawlOK, NoCrawl, CrawlLogin, CaptureBase, FollowScenario, StartDiscovery,
         VisitNext, ClickNext, EndClicks, EndDiscovery
<1>2. DOMAIN crawl = CrawlFields
  BY <1>1 DEF CrawlFound
<1>3. ~CrawlLogin(user)
  BY <1>2 DEF CrawlLogin, Searching, CrawlFields
<1>4. ~CaptureBase
  BY <1>2 DEF CaptureBase, Searching, CrawlFields
<1>5. ~FollowScenario
  BY <1>2 DEF FollowScenario, Searching, CrawlFields
<1>6. ASSUME StartDiscovery PROVE crawl'.held = crawl.held /\ crawl'.target = crawl.target
  BY <1>2, <1>6 DEF StartDiscovery, CrawlFields
<1>7. ASSUME EndClicks \/ EndDiscovery
      PROVE  /\ Searching /\ crawl.stage # "done" /\ crawl'.stage # "click"
             /\ \A field \in CrawlFields \ {"stage", "rawPages"} : crawl'[field] = crawl[field]
             /\ UNCHANGED <<session, version>>
  BY <1>2, <1>7 DEF EndClicks, EndDiscovery, webVars, Searching, CrawlFields
<1>8. ASSUME EndClicks \/ EndDiscovery PROVE crawl'.held = crawl.held /\ crawl'.target = crawl.target
  BY <1>7, <1>8 DEF CrawlFields
<1> QED
  BY <1>1, <1>3, <1>4, <1>5, <1>6, <1>7, <1>8 DEF CrawlStep

LEMMA ForestAction ==
  ASSUME Shape, CrawlShape, ForestInv, [Next]_vars
  PROVE  ForestInv'
<1> SUFFICES ASSUME Searching', KeysTell' PROVE Forest'
  BY DEF ForestInv
<1>c. CrawlOK
  BY DEF CrawlShape
<1>1. CASE UNCHANGED <<crawl, session, version>>
  <2>1. Forest
    BY <1>1 DEF ForestInv, Searching, KeysTell, app
  <2> QED
    BY <1>1, <2>1 DEF Forest, Placed, Reached, NeverLands, Lands, app, BaseKey, EdgeOK
<1>2. ASSUME NEW user, CrawlStep(user) PROVE Forest'
  <2>0. KeysTell
    <3>1. UNCHANGED version
      BY <1>2 DEF CrawlStep, CrawlLogin, CaptureBase, FollowScenario, StartDiscovery,
                  VisitNext, ClickNext, EndClicks, EndDiscovery, webVars
    <3> QED
      BY <3>1 DEF KeysTell, app
  <2>1. CrawlFound
    BY SMTT(30), <1>2, <1>c DEF CrawlStep, CrawlOK, NoCrawl, CrawlLogin, CaptureBase, FollowScenario,
       StartDiscovery, VisitNext, ClickNext, EndClicks, EndDiscovery
  <2>2. CASE StartDiscovery
    <3>1. /\ crawl'.visited = {} /\ crawl'.edges = <<>> /\ crawl'.target = crawl.target
          /\ crawl'.queue = <<[url |-> BaseUrl[crawl.target], depth |-> 0, from |-> NoUrl]>>
      BY <2>1, <2>2 DEF CrawlFound, StartDiscovery, CrawlFields
    <3> QED
      BY <3>1 DEF Forest, BaseKey
  <2>3. CASE VisitNext
    BY <2>0, <2>1, <2>3, ForestVisit DEF ForestInv, Searching, VisitNext
  <2>4. CASE ClickNext
    BY <2>0, <2>1, <2>4, ForestClick DEF ForestInv, Searching, ClickNext
  <2>5. CASE /\ Searching /\ UNCHANGED <<session, version>>
             /\ \A field \in CrawlFields \ {"stage", "rawPages"} : crawl'[field] = crawl[field]
    <3>1. /\ crawl'.visited = crawl.visited /\ crawl'.failed = crawl.failed /\ crawl'.queue = crawl.queue
          /\ crawl'.edges = crawl.edges /\ crawl'.target = crawl.target
      BY <2>5 DEF CrawlFields
    <3>2. Forest
      BY <2>0, <2>5 DEF ForestInv
    <3> QED
      BY <2>5, <3>1, <3>2 DEF Forest, Placed, Reached, NeverLands, Lands, app, BaseKey, EdgeOK
  <2> QED
    BY <1>2, <1>c, <2>2, <2>3, <2>4, <2>5, StageParts
<1> QED
  BY <1>1, <1>2, <1>c, CrawlMoves

-------------------------------------------------------------------------------
(* The search finds all it can.                                              *)

\* The queue loses its head, a page that is visited now: "more" tells its depth.
Popped(visited, queue, depths, seen, more) ==
    /\ Listed(queue) /\ queue # <<>> /\ \A i \in DOMAIN queue : queue[i].depth \in Nat
    /\ depths \in [visited -> Nat] /\ QueueAscends(visited, queue, depths)
    /\ more \in [seen -> Nat] /\ \A k \in visited : more[k] = depths[k]
    /\ LET key == Key[queue[1].url]
       IN seen = visited \cup {key} /\ more[key] <= queue[1].depth

LEMMA PopKeeps ==
  ASSUME NEW visited, NEW queue, NEW depths, NEW seen, NEW more, Popped(visited, queue, depths, seen, more)
  PROVE  /\ QueueAscends(seen, Tail(queue), more)
         /\ \A k : \A d \in Nat : Known(visited, queue, depths, k, d) => Known(seen, Tail(queue), more, k, d)
         /\ \A k \in seen : more[k] <= queue[1].depth
         /\ \A i \in DOMAIN Tail(queue) : /\ queue[1].depth <= Tail(queue)[i].depth
                                          /\ Tail(queue)[i].depth <= queue[1].depth + 1
<1>1. PICK rest, top, key : rest = Tail(queue) /\ top = queue[1] /\ key = Key[queue[1].url]
  OBVIOUS
<1>p. /\ Listed(queue) /\ queue # <<>> /\ \A i \in DOMAIN queue : queue[i].depth \in Nat
      /\ depths \in [visited -> Nat] /\ QueueAscends(visited, queue, depths)
      /\ more \in [seen -> Nat] /\ \A k \in visited : more[k] = depths[k]
      /\ seen = visited \cup {key} /\ more[key] <= top.depth /\ key = Key[top.url]
  BY <1>1 DEF Popped
<1>2. /\ 1 \in DOMAIN queue /\ DOMAIN queue = 1..Len(queue) /\ DOMAIN rest = 1..Len(queue) - 1
      /\ Len(queue) \in Nat /\ \A i \in DOMAIN rest : i + 1 \in DOMAIN queue /\ rest[i] = queue[i + 1]
  BY <1>1, <1>p, TailOf
<1>3. /\ \A i, j \in DOMAIN queue : /\ i < j => queue[i].depth <= queue[j].depth
                                    /\ queue[j].depth <= queue[i].depth + 1
      /\ \A k \in visited, i \in DOMAIN queue : depths[k] <= queue[i].depth
  BY <1>p DEF QueueAscends
<1>4. ASSUME NEW k \in seen PROVE more[k] <= top.depth /\ more[k] \in Nat
  BY <1>1, <1>p, <1>2, <1>3
<1>5. ASSUME NEW i \in DOMAIN rest
      PROVE  /\ rest[i].depth \in Nat /\ top.depth \in Nat
             /\ top.depth <= rest[i].depth /\ rest[i].depth <= top.depth + 1
  <2>1. 1 < i + 1 /\ i + 1 \in DOMAIN queue /\ rest[i] = queue[i + 1]
    BY <1>2
  <2> QED
    BY <1>1, <1>p, <1>2, <1>3, <2>1
<1>6. QueueAscends(seen, rest, more)
  <2>1. ASSUME NEW i \in DOMAIN rest, NEW j \in DOMAIN rest
        PROVE  (i < j => rest[i].depth <= rest[j].depth) /\ rest[j].depth <= rest[i].depth + 1
    <3>1. /\ i + 1 \in DOMAIN queue /\ j + 1 \in DOMAIN queue /\ (i < j => i + 1 < j + 1)
          /\ rest[i] = queue[i + 1] /\ rest[j] = queue[j + 1]
      BY <1>2
    <3> QED
      BY <1>3, <3>1
  <2>2. ASSUME NEW k \in seen, NEW i \in DOMAIN rest PROVE more[k] <= rest[i].depth
    BY <1>4, <1>5
  <2> QED
    BY <2>1, <2>2 DEF QueueAscends
<1>7. ASSUME NEW k, NEW d \in Nat, Known(visited, queue, depths, k, d) PROVE Known(seen, rest, more, k, d)
  <2>1. CASE k \in visited /\ depths[k] <= d
    BY <1>p, <2>1 DEF Known
  <2>2. CASE \E i \in DOMAIN queue : Key[queue[i].url] = k /\ queue[i].depth <= d
    <3>1. PICK i \in DOMAIN queue : Key[queue[i].url] = k /\ queue[i].depth <= d
      BY <2>2
    <3>2. CASE i = 1
      <4>1. k \in seen /\ more[k] <= top.depth /\ top.depth <= d /\ more[k] \in Nat /\ top.depth \in Nat
        BY <1>1, <1>p, <1>2, <1>4, <3>1, <3>2
      <4> QED
        BY <4>1 DEF Known
    <3>3. CASE i # 1
      <4>1. i - 1 \in DOMAIN rest /\ rest[i - 1] = queue[i]
        BY <1>2, <3>3
      <4> QED
        BY <3>1, <4>1 DEF Known
    <3> QED
      BY <3>2, <3>3
  <2> QED
    BY <1>7, <2>1, <2>2 DEF Known
<1> QED
  BY <1>1, <1>4, <1>5, <1>6, <1>7

LEMMA AppendIsJoin == \A s, x : Listed(s) => Append(s, x) = s \o <<x>>
<1>1. ASSUME NEW T, NEW s \in Seq(T), NEW x PROVE Append(s, x) = s \o <<x>>
  <2>1. PICK U : s \in Seq(U) /\ x \in U
    <3>1. s \in Seq(T \cup {x}) /\ x \in T \cup {x}
      OBVIOUS
    <3> QED
      BY <3>1
  <2> QED
    BY <2>1
<1> QED
  BY <1>1 DEF Listed

\* The queue gets what is one deeper than the page it comes from.
LEMMA PushKeeps ==
  ASSUME NEW visited, NEW queue, NEW added, Listed(queue), Listed(added), NEW at \in Nat,
         NEW depths \in [visited -> Nat], QueueAscends(visited, queue, depths),
         \A k \in visited : depths[k] <= at,
         \A i \in DOMAIN queue : /\ queue[i].depth \in Nat
                                 /\ at <= queue[i].depth /\ queue[i].depth <= at + 1,
         \A i \in DOMAIN added : added[i].depth = at + 1
  PROVE  /\ QueueAscends(visited, queue \o added, depths)
         /\ \A k : \A d \in Nat : Known(visited, queue, depths, k, d)
                                    => Known(visited, queue \o added, depths, k, d)
         /\ \A i \in DOMAIN added : Known(visited, queue \o added, depths, Key[added[i].url], at + 1)
         /\ \A i \in DOMAIN (queue \o added) :
               at <= (queue \o added)[i].depth /\ (queue \o added)[i].depth <= at + 1
<1>1. PICK all, n, m : all = queue \o added /\ n = Len(queue) /\ m = Len(added)
  OBVIOUS
<1>2. /\ n \in Nat /\ m \in Nat /\ DOMAIN queue = 1..n /\ DOMAIN added = 1..m /\ DOMAIN all = 1..n + m
      /\ \A i \in DOMAIN queue : i \in DOMAIN all /\ all[i] = queue[i]
      /\ \A i \in DOMAIN added : n + i \in DOMAIN all /\ all[n + i] = added[i]
      /\ \A i \in DOMAIN all : \/ i \in DOMAIN queue /\ all[i] = queue[i]
                               \/ i > n /\ i - n \in DOMAIN added /\ all[i] = added[i - n]
  BY <1>1, JoinOf
<1>3. ASSUME NEW i \in DOMAIN all
      PROVE  /\ all[i].depth \in Nat /\ at <= all[i].depth /\ all[i].depth <= at + 1
             /\ i > n => all[i].depth = at + 1
             /\ i <= n => i \in DOMAIN queue /\ all[i] = queue[i]
  BY <1>2
<1>4. QueueAscends(visited, all, depths)
  <2>1. ASSUME NEW i \in DOMAIN all, NEW j \in DOMAIN all
        PROVE  (i < j => all[i].depth <= all[j].depth) /\ all[j].depth <= all[i].depth + 1
    <3>1. all[j].depth <= all[i].depth + 1
      BY <1>3
    <3>2. ASSUME i < j PROVE all[i].depth <= all[j].depth
      <4>1. CASE j <= n
        <5>1. i <= n
          BY <1>2, <3>2, <4>1
        <5> QED
          BY <1>3, <3>2, <4>1, <5>1 DEF QueueAscends
      <4>2. CASE j > n
        BY <1>3, <4>2
      <4> QED
        BY <1>2, <4>1, <4>2
    <3> QED
      BY <3>1, <3>2
  <2>2. ASSUME NEW k \in visited, NEW i \in DOMAIN all PROVE depths[k] <= all[i].depth
    <3>1. depths[k] \in Nat /\ depths[k] <= at
      OBVIOUS
    <3> QED
      BY <1>3, <3>1
  <2> QED
    BY <2>1, <2>2 DEF QueueAscends
<1>5. ASSUME NEW k, NEW d \in Nat, Known(visited, queue, depths, k, d) PROVE Known(visited, all, depths, k, d)
  BY <1>2, <1>5 DEF Known
<1>6. ASSUME NEW i \in DOMAIN added PROVE Known(visited, all, depths, Key[added[i].url], at + 1)
  <2>1. n + i \in DOMAIN all /\ all[n + i] = added[i] /\ added[i].depth <= at + 1
    BY <1>2
  <2> QED
    BY <2>1 DEF Known
<1> QED
  BY <1>1, <1>3, <1>4, <1>5, <1>6

\* What a page leads to while the session stays, and fewer clicks.
LEMMA LeadsStay ==
  ASSUME UNCHANGED <<version, session>>, crawl'.target = crawl.target, crawl.cut \subseteq crawl'.cut,
         NEW url
  PROVE  /\ Lands(url, session)' = Lands(url, session)
         /\ LinksFrom(url)' = LinksFrom(url)
         /\ ClicksFrom(url)' \subseteq ClicksFrom(url)
<1>1. \A u : Lands(u, session)' = Lands(u, session) /\ Eligible(u)' = Eligible(u)
  BY DEF Lands, app, Eligible
<1>2. \A u : extractLinks(u)' = extractLinks(u) /\ CandidatesOn(u)' = CandidatesOn(u)
  BY DEF extractLinks, CandidatesOn, discoverClickTargets, app
<1>3. LinksFrom(url)' = LinksFrom(url)
  BY <1>1, <1>2 DEF LinksFrom, Lands, app, extractLinks, Eligible
<1>4. ClicksFrom(url)' \subseteq ClicksFrom(url)
  BY SMTT(30) DEF ClicksFrom, CandidatesOn, discoverClickTargets, Lands, app, Eligible
<1> QED
  BY <1>1, <1>3, <1>4

LEMMA LinksStay ==
  ASSUME UNCHANGED <<version, session>>, crawl'.target = crawl.target, crawl.cut \subseteq crawl'.cut,
         NEW depths, NEW more, LinksKnown(depths),
         \A k : \A d \in Nat : Known(crawl.visited, crawl.queue, depths, k, d)
                                 => Known(crawl'.visited, crawl'.queue, more, k, d),
         NEW k \in crawl.visited \ crawl.failed, depths[k] \in Nat, depths[k] < MaxDepth,
         more[k] = depths[k], NEW url \in Url, Key[url] = k
  PROVE  /\ \A l \in LinksFrom(url)' : Known(crawl'.visited, crawl'.queue, more, Key[l], more[k] + 1)
         /\ ~Clicking(k) => \A u \in ClicksFrom(url)' :
                               Known(crawl'.visited, crawl'.queue, more, Key[u], more[k] + 1)
<1>1. /\ \A l \in LinksFrom(url) : Known(crawl.visited, crawl.queue, depths, Key[l], depths[k] + 1)
      /\ ~Clicking(k) => \A u \in ClicksFrom(url) :
                            Known(crawl.visited, crawl.queue, depths, Key[u], depths[k] + 1)
  BY DEF LinksKnown, KnownTo
<1>2. LinksFrom(url)' = LinksFrom(url) /\ ClicksFrom(url)' \subseteq ClicksFrom(url)
  BY LeadsStay
<1>3. depths[k] + 1 \in Nat /\ more[k] + 1 = depths[k] + 1
  OBVIOUS
<1> QED
  BY <1>1, <1>2, <1>3

LEMMA SearchVisit ==
  ASSUME Shape, CrawlFound, KeysTell, SearchInv, VisitNext, Watched'
  PROVE  PagesHeld' /\ \E depths : SearchedTo(depths)'
<1>v. version \in DOMAIN App /\ SessionOK /\ CrawlOK /\ MaxDepth \in Nat
  BY DiscoverAssumption DEF Shape, CrawlOK
<1>1. /\ crawl.queue # <<>> /\ crawl.stage = "discover" /\ ~Enough(crawl.results) /\ UNCHANGED version
      /\ crawl'.target = crawl.target
  BY <1>v, VisitParts DEF Kept4
<1>2. PICK item, key, landed :
        /\ item = Head(crawl.queue) /\ key = Key[item.url]
        /\ SkipsVisit(key) \/ FailsVisit(key) \/ Captures(item, key, landed)
  BY <1>v, VisitParts
<1>3. crawl.held /\ UNCHANGED session /\ crawl'.cut = crawl.cut /\ ~Enough(crawl'.results)
  BY <1>2 DEF Watched, SkipsVisit, FailsVisit, Captures
<1>4. PICK depths : PagesHeld /\ SearchedTo(depths)
  BY <1>1, <1>3 DEF SearchInv, Watched, Searching
<1>5. PICK queue, rest, visited, failed, seen :
        /\ queue = crawl.queue /\ rest = Tail(queue) /\ Listed(queue) /\ queue # <<>>
        /\ visited = crawl.visited /\ failed = crawl.failed /\ failed \subseteq visited
        /\ seen = visited \cup {key}
  BY <1>1 DEF CrawlFound, SearchOK
<1>6. /\ 1 \in DOMAIN queue /\ item = queue[1] /\ Listed(rest)
      /\ \A i \in DOMAIN rest : i + 1 \in DOMAIN queue /\ rest[i] = queue[i + 1]
  BY <1>2, <1>5, TailOf
<1>7. \A i \in DOMAIN queue : /\ queue[i].url \in Url /\ queue[i].depth \in Nat
                              /\ TargetOf[queue[i].url] = crawl.target
  BY <1>5 DEF CrawlFound, SearchOK, QueueOK
<1>8. item.url \in Url /\ item.depth \in Nat /\ key \in Url /\ Lands(item.url, session) \in Url
  BY <1>2, <1>6, <1>7, <1>v, LandsIn
<1>9. /\ depths \in [visited -> Nat] /\ QueueAscends(visited, queue, depths) /\ LinksKnown(depths)
      /\ Known(visited, queue, depths, BaseKey, 0)
  BY <1>4, <1>5 DEF SearchedTo, KnownTo
<1>10. PICK more : more = [k \in seen |-> IF k \in visited THEN depths[k] ELSE item.depth]
  OBVIOUS
<1>11. /\ more \in [seen -> Nat] /\ (\A k \in visited : more[k] = depths[k])
       /\ more[key] <= item.depth /\ (key \notin visited => more[key] = item.depth)
  <2>1. key \in visited => depths[key] <= item.depth
    BY <1>6, <1>9 DEF QueueAscends
  <2> QED
    BY <1>5, <1>8, <1>9, <1>10, <2>1
<1>12. /\ QueueAscends(seen, rest, more)
       /\ \A k : \A d \in Nat : Known(visited, queue, depths, k, d) => Known(seen, rest, more, k, d)
       /\ \A k \in seen : more[k] <= item.depth
       /\ \A i \in DOMAIN rest : item.depth <= rest[i].depth /\ rest[i].depth <= item.depth + 1
  <2>1. Popped(visited, queue, depths, seen, more)
    BY <1>2, <1>5, <1>6, <1>7, <1>9, <1>11 DEF Popped
  <2> QED
    BY <1>5, <1>6, <2>1, PopKeeps
<1> DEFINE deeper == crawl'.stage = "click"
<1>13. /\ crawl'.visited = seen
       /\ \A k \in crawl'.visited \ crawl'.failed :
             k \in visited \ failed \/ (k = key /\ key \notin visited /\ Captures(item, key, landed))
       /\ ~deeper => crawl'.queue = rest
       /\ deeper => Captures(item, key, landed)
  BY <1>2, <1>5 DEF SkipsVisit, FailsVisit, Captures
<1>14. ASSUME deeper
       PROVE  /\ landed = Lands(item.url, session) /\ crawl'.at = [url |-> item.url, depth |-> item.depth]
              /\ crawl'.candidates = CandidatesOn(landed) /\ key \notin visited
              /\ \E q : /\ q = Enqueued(NewLinks(landed, seen), item.depth + 1, key)
                        /\ crawl'.queue = rest \o q
  BY <1>3, <1>5, <1>13, <1>14 DEF Captures
<1>15. PICK q : deeper => /\ crawl'.queue = rest \o q /\ Listed(q)
                          /\ \A i \in DOMAIN q : q[i].depth = item.depth + 1
                          /\ \A l \in ToSet(extractLinks(landed)) :
                                Eligible(l) /\ Key[l] \notin seen => \E i \in DOMAIN q : q[i].url = l
  <2>1. CASE deeper
    <3>1. PICK p, depth : /\ depth = item.depth + 1 /\ p = Enqueued(NewLinks(landed, seen), depth, key)
                          /\ crawl'.queue = rest \o p
      BY <1>14, <2>1
    <3>2. landed \in Url /\ version \in DOMAIN App /\ p = Enqueued(NewLinks(landed, seen), depth, key)
      BY <1>8, <1>14, <1>v, <2>1, <3>1
    <3>3. Listed(p)
      BY <3>2, EnqueuedIs
    <3>4. \A i \in DOMAIN p : p[i] = [url |-> p[i].url, depth |-> depth, from |-> key]
      BY <3>2, EnqueuedIs
    <3>5. \A l \in ToSet(extractLinks(landed)) :
             Eligible(l) /\ Key[l] \notin seen => \E i \in DOMAIN p : p[i].url = l
      BY <3>2, EnqueuedIs
    <3>6. \A i \in DOMAIN p : p[i].depth = depth
      BY <3>4
    <3>7. /\ crawl'.queue = rest \o p /\ Listed(p)
          /\ \A i \in DOMAIN p : p[i].depth = item.depth + 1
          /\ \A l \in ToSet(extractLinks(landed)) :
                Eligible(l) /\ Key[l] \notin seen => \E i \in DOMAIN p : p[i].url = l
      BY <3>1, <3>3, <3>5, <3>6
    <3> QED
      BY <3>7
  <2> QED
    BY <2>1
<1>16. ASSUME deeper
       PROVE  /\ QueueAscends(seen, rest \o q, more)
              /\ \A k : \A d \in Nat : Known(seen, rest, more, k, d) => Known(seen, rest \o q, more, k, d)
              /\ \A i \in DOMAIN q : Known(seen, rest \o q, more, Key[q[i].url], item.depth + 1)
              /\ \A i \in DOMAIN (rest \o q) : /\ item.depth <= (rest \o q)[i].depth
                                               /\ (rest \o q)[i].depth <= item.depth + 1
  <2>1. Listed(q) /\ \A i \in DOMAIN q : q[i].depth = item.depth + 1
    BY <1>15, <1>16
  <2>2. \A i \in DOMAIN rest : /\ rest[i].depth \in Nat
                               /\ item.depth <= rest[i].depth /\ rest[i].depth <= item.depth + 1
    BY <1>6, <1>7, <1>12
  <2> QED
    BY <1>6, <1>8, <1>11, <1>12, <2>1, <2>2, PushKeeps
<1>17. /\ QueueAscends(seen, crawl'.queue, more)
       /\ \A k : \A d \in Nat : Known(visited, queue, depths, k, d) => Known(seen, crawl'.queue, more, k, d)
  BY <1>12, <1>13, <1>15, <1>16
<1>18. ASSUME NEW k \in crawl'.visited \ crawl'.failed, more[k] < MaxDepth, NEW url \in Url, Key[url] = k
       PROVE  /\ \A l \in LinksFrom(url)' : Known(seen, crawl'.queue, more, Key[l], more[k] + 1)
              /\ ~Clicking(k)' => \A u \in ClicksFrom(url)' :
                                     Known(seen, crawl'.queue, more, Key[u], more[k] + 1)
  <2>1. CASE k \in visited \ failed
    <3>1. ~Clicking(k)
      BY <1>1 DEF Clicking
    <3>2. k \in crawl.visited \ crawl.failed /\ depths[k] \in Nat /\ more[k] = depths[k] /\ depths[k] < MaxDepth
      BY <1>5, <1>9, <1>11, <1>18, <2>1
    <3>3. \A j : \A d \in Nat : Known(crawl.visited, crawl.queue, depths, j, d)
                                  => Known(crawl'.visited, crawl'.queue, more, j, d)
      <4>1. crawl.visited = visited /\ crawl.queue = queue /\ crawl'.visited = seen
        BY <1>5, <1>13
      <4> QED
        BY <4>1, <1>17
    <3>4. \A l \in LinksFrom(url)' : Known(crawl'.visited, crawl'.queue, more, Key[l], more[k] + 1)
      BY <1>1, <1>3, <1>9, <1>18, <3>2, <3>3, LinksStay
    <3>5. \A u \in ClicksFrom(url)' : Known(crawl'.visited, crawl'.queue, more, Key[u], more[k] + 1)
      BY <1>1, <1>3, <1>9, <1>18, <3>1, <3>2, <3>3, LinksStay
    <3> QED
      BY <1>13, <3>4, <3>5
  <2>2. CASE k = key /\ key \notin visited /\ Captures(item, key, landed)
    <3>1. more[k] = item.depth /\ deeper
      BY <1>3, <1>11, <1>18, <2>2 DEF Captures
    <3>2. Clicking(k)'
      BY <1>2, <1>14, <2>2, <3>1 DEF Clicking
    <3>3. LinksFrom(url)' = LinksFrom(item.url)
      <4>1. LinksFrom(url)' = LinksFrom(url)
        BY <1>1, <1>3, LeadsStay
      <4>2. LinksFrom(url) = LinksFrom(item.url)
        BY <1>2, <1>8, <1>18, <1>v, <2>2, OneKeyOnePage
      <4> QED
        BY <4>1, <4>2
    <3>4. ASSUME NEW l \in LinksFrom(item.url)
          PROVE  Known(seen, crawl'.queue, more, Key[l], item.depth + 1)
      <4>1. l \in ToSet(extractLinks(landed)) /\ Eligible(l)
        BY <1>14, <3>1, <3>4 DEF LinksFrom
      <4>2. CASE Key[l] \in seen
        <5>1. more[Key[l]] <= item.depth + 1
          BY <1>8, <1>11, <1>12, <4>2
        <5> QED
          BY <4>2, <5>1 DEF Known
      <4>3. CASE Key[l] \notin seen
        <5>1. PICK i \in DOMAIN q : q[i].url = l
          BY <1>15, <3>1, <4>1, <4>3
        <5>2. Known(seen, rest \o q, more, Key[q[i].url], item.depth + 1)
          BY <1>16, <3>1
        <5> QED
          BY <1>15, <3>1, <5>1, <5>2
      <4> QED
        BY <4>2, <4>3
    <3> QED
      BY <3>1, <3>2, <3>3, <3>4
  <2> QED
    BY <1>13, <2>1, <2>2
<1>19. LinksKnown(more)'
  BY <1>13, <1>18 DEF LinksKnown, KnownTo
<1>20. ASSUME deeper PROVE HereOK(more)'
  <2>1. /\ crawl'.at.url = item.url /\ crawl'.at.depth = item.depth /\ landed = Lands(item.url, session)
        /\ crawl'.queue = rest \o q
    BY <1>14, <1>15, <1>20
  <2>2. CandidatesOn(Lands(crawl.at.url, session))' = CandidatesOn(landed)
    BY <1>1, <1>3, <2>1 DEF CandidatesOn, discoverClickTargets, Lands, app
  <2>3. more[key] = item.depth
    BY <1>11, <1>14, <1>20
  <2>4. \A c \in ToSet(CandidatesOn(Lands(crawl.at.url, session))') : c \in ToSet(crawl'.candidates)
    BY <1>14, <1>20, <2>2
  <2> QED
    BY <1>2, <1>12, <1>13, <1>16, <1>20, <2>1, <2>3, <2>4 DEF HereOK
<1>21. SearchedTo(more)'
  <2>1. KnownTo(more, BaseKey, 0)'
    <3>1. Known(seen, crawl'.queue, more, BaseKey, 0)
      BY <1>9, <1>17
    <3>2. BaseKey' = BaseKey
      BY <1>1 DEF BaseKey
    <3> QED
      BY <1>13, <3>1, <3>2 DEF KnownTo
  <2> QED
    BY <1>11, <1>13, <1>17, <1>19, <1>20, <2>1 DEF SearchedTo
<1>22. PagesHeld'
  <2>1. ASSUME NEW k \in crawl'.visited \ crawl'.failed, NEW url \in Url, Key[url] = k
        PROVE  \E i \in DOMAIN crawl'.results : Key[crawl'.results[i]] = Key[Lands(url, session)]
    <3>0. crawl.results \in Seq(Url)
      BY DEF CrawlFound
    <3>1. CASE k \in visited \ failed
      <4>1. PICK i \in DOMAIN crawl.results : Key[crawl.results[i]] = Key[Lands(url, session)]
        BY <1>4, <1>5, <2>1, <3>1 DEF PagesHeld
      <4>2. crawl'.results = crawl.results \/ crawl'.results = Append(crawl.results, landed)
        BY <1>2 DEF SkipsVisit, FailsVisit, Captures
      <4>3. Listed(crawl.results)
        BY <3>0, SequencesAreListed
      <4>4. i \in DOMAIN crawl'.results /\ crawl'.results[i] = crawl.results[i]
        BY <4>1, <4>2, <4>3, AddedTo
      <4> QED
        BY <4>1, <4>4
    <3>2. CASE k = key /\ Captures(item, key, landed)
      <4>1. crawl'.results = Append(crawl.results, landed) /\ landed = Lands(item.url, session)
        BY <3>2 DEF Captures
      <4>2. Key[landed] = Key[Lands(url, session)]
        BY <1>2, <1>8, <1>v, <2>1, <3>2, <4>1, OneKeyOneLanding
      <4>3. Listed(crawl.results)
        BY <3>0, SequencesAreListed
      <4>4. /\ Len(crawl.results) + 1 \in DOMAIN crawl'.results
            /\ crawl'.results[Len(crawl.results) + 1] = landed
        BY <4>1, <4>3, AddedTo
      <4> QED
        BY <4>2, <4>4
    <3> QED
      BY <1>13, <2>1, <3>1, <3>2
  <2>2. \A url : Lands(url, session)' = Lands(url, session)
    BY <1>1, <1>3 DEF Lands, app
  <2> QED
    BY <2>1, <2>2 DEF PagesHeld
<1> QED
  BY <1>21, <1>22

LEMMA SearchClick ==
  ASSUME Shape, CrawlFound, KeysTell, SearchInv, ClickNext, Watched'
  PROVE  PagesHeld' /\ \E depths : SearchedTo(depths)'
<1>v. version \in DOMAIN App /\ SessionOK /\ CrawlOK
  BY DEF Shape, CrawlOK
<1>1. /\ crawl.candidates # <<>> /\ crawl.stage = "click" /\ UNCHANGED version
      /\ crawl'.target = crawl.target /\ crawl'.visited = crawl.visited /\ crawl'.failed = crawl.failed
      /\ crawl'.results = crawl.results /\ crawl'.stage = "click" /\ crawl'.at = crawl.at
  BY <1>v, ClickParts DEF Kept8, Kept4
<1>2. PICK candidate, here, after :
        /\ candidate = Head(crawl.candidates) /\ here = Key[crawl.at.url]
        /\ LosesClick(here) \/ MissesClick(candidate) \/ Leads(candidate, here, after)
  BY <1>v, ClickParts
<1>3. crawl.held /\ UNCHANGED session /\ ~Enough(crawl.results) /\ crawl.cut \subseteq crawl'.cut
  BY <1>1, <1>2 DEF Watched, LosesClick, MissesClick, Leads
<1>4. PICK depths : PagesHeld /\ SearchedTo(depths)
  BY <1>1, <1>3 DEF SearchInv, Watched, Searching
<1>5. PICK visited, queue, at :
        /\ visited = crawl.visited /\ queue = crawl.queue /\ at = crawl.at.depth
        /\ Listed(queue) /\ at \in Nat
  BY <1>1 DEF CrawlFound, SearchOK
<1>6. /\ crawl.at.url \in Url /\ here \in visited \ crawl.failed
      /\ \A i \in DOMAIN queue : queue[i].depth \in Nat
  BY <1>1, <1>2, <1>5 DEF CrawlFound, SearchOK, QueueOK
<1>7. /\ depths \in [visited -> Nat] /\ QueueAscends(visited, queue, depths) /\ LinksKnown(depths)
      /\ Known(visited, queue, depths, BaseKey, 0) /\ HereOK(depths)
  BY <1>1, <1>4, <1>5 DEF SearchedTo, KnownTo
<1>8. /\ depths[here] = at /\ \A k \in visited : depths[k] <= at
      /\ \A i \in DOMAIN queue : at <= queue[i].depth /\ queue[i].depth <= at + 1
  BY <1>2, <1>5, <1>7 DEF HereOK
<1>9. PICK item : item = [url |-> after, depth |-> at + 1, from |-> NoUrl]
  OBVIOUS
<1>10. \/ crawl'.queue = queue
       \/ crawl'.queue = queue \o <<item>>
  <2>1. crawl'.queue = queue \/ crawl'.queue = Append(queue, item)
    BY <1>2, <1>5, <1>9 DEF LosesClick, MissesClick, Leads
  <2>2. Append(queue, item) = queue \o <<item>>
    BY <1>5, AppendIsJoin
  <2> QED
    BY <2>1, <2>2
<1>11. /\ QueueAscends(visited, queue \o <<item>>, depths)
       /\ \A k : \A d \in Nat : Known(visited, queue, depths, k, d)
                                  => Known(visited, queue \o <<item>>, depths, k, d)
       /\ Known(visited, queue \o <<item>>, depths, Key[after], at + 1)
       /\ \A i \in DOMAIN (queue \o <<item>>) : /\ at <= (queue \o <<item>>)[i].depth
                                               /\ (queue \o <<item>>)[i].depth <= at + 1
  <2>1. PICK added : added = <<item>> /\ Listed(added) /\ DOMAIN added = {1} /\ added[1] = item
    <3>1. <<item>> \in Seq({item})
      OBVIOUS
    <3>2. DOMAIN <<item>> = {1} /\ <<item>>[1] = item
      OBVIOUS
    <3>3. Listed(<<item>>)
      BY <3>1, SequencesAreListed
    <3> QED
      BY <3>2, <3>3
  <2>2. \A i \in DOMAIN added : added[i].depth = at + 1 /\ added[i].url = after
    BY <1>9, <2>1
  <2>3. /\ QueueAscends(visited, queue \o added, depths)
        /\ \A k : \A d \in Nat : Known(visited, queue, depths, k, d)
                                   => Known(visited, queue \o added, depths, k, d)
        /\ \A i \in DOMAIN added : Known(visited, queue \o added, depths, Key[added[i].url], at + 1)
        /\ \A i \in DOMAIN (queue \o added) : /\ at <= (queue \o added)[i].depth
                                             /\ (queue \o added)[i].depth <= at + 1
    BY <1>5, <1>6, <1>7, <1>8, <2>1, <2>2, PushKeeps
  <2>4. Known(visited, queue \o added, depths, Key[after], at + 1)
    BY <2>1, <2>2, <2>3
  <2> QED
    BY <2>1, <2>3, <2>4
<1>12. /\ QueueAscends(visited, crawl'.queue, depths)
       /\ \A k : \A d \in Nat : Known(visited, queue, depths, k, d) => Known(visited, crawl'.queue, depths, k, d)
       /\ \A i \in DOMAIN crawl'.queue : at <= crawl'.queue[i].depth /\ crawl'.queue[i].depth <= at + 1
  BY <1>7, <1>8, <1>10, <1>11
<1>13. LinksKnown(depths)'
  <2>1. ASSUME NEW k \in crawl.visited \ crawl.failed, depths[k] < MaxDepth, NEW url \in Url, Key[url] = k
        PROVE  /\ \A l \in LinksFrom(url)' : Known(crawl'.visited, crawl'.queue, depths, Key[l], depths[k] + 1)
               /\ ~Clicking(k)' => \A u \in ClicksFrom(url)' :
                                      Known(crawl'.visited, crawl'.queue, depths, Key[u], depths[k] + 1)
    <3>1. depths[k] \in Nat
      BY <1>5, <1>7, <2>1
    <3>2. \A j : \A d \in Nat : Known(crawl.visited, crawl.queue, depths, j, d)
                                  => Known(crawl'.visited, crawl'.queue, depths, j, d)
      <4>1. crawl.visited = visited /\ crawl.queue = queue /\ crawl'.visited = visited
        BY <1>1, <1>5
      <4> QED
        BY <4>1, <1>12
    <3>3. Clicking(k)' <=> Clicking(k)
      BY <1>1 DEF Clicking
    <3>4. \A l \in LinksFrom(url)' : Known(crawl'.visited, crawl'.queue, depths, Key[l], depths[k] + 1)
      BY <1>1, <1>3, <1>7, <2>1, <3>1, <3>2, LinksStay
    <3>5. ~Clicking(k) => \A u \in ClicksFrom(url)' :
                             Known(crawl'.visited, crawl'.queue, depths, Key[u], depths[k] + 1)
      BY <1>1, <1>3, <1>7, <2>1, <3>1, <3>2, LinksStay
    <3> QED
      BY <3>3, <3>4, <3>5
  <2> QED
    BY <1>1, <2>1 DEF LinksKnown, KnownTo
<1>14. ASSUME NEW c \in ToSet(CandidatesOn(Lands(crawl.at.url, session)))
       PROVE  \/ c \in ToSet(crawl'.candidates) \/ c.goes = NoUrl \/ here \in crawl'.cut
              \/ Eligible(Lands(c.goes, session)) =>
                    Known(visited, crawl'.queue, depths, Key[Lands(c.goes, session)], at + 1)
  <2>0. at + 1 \in Nat
    BY <1>5
  <2>1. CASE here \in crawl.cut
    BY <1>3, <2>1
  <2>2. CASE c.goes # NoUrl /\ Eligible(Lands(c.goes, session))
             /\ Known(visited, queue, depths, Key[Lands(c.goes, session)], at + 1)
    BY <1>12, <2>0, <2>2
  <2>3. CASE c \in ToSet(crawl.candidates)
    <3>1. PICK s : s = crawl.candidates /\ Listed(s) /\ s # <<>> /\ candidate = Head(s)
      BY <1>1, <1>2 DEF CrawlFound, SearchOK
    <3>2. c = candidate \/ c \in ToSet(Tail(s))
      <4>1. Head(s) = s[1]
        BY <3>1, TailOf
      <4>2. c = s[1] \/ \E i \in DOMAIN Tail(s) : Tail(s)[i] = c
        BY <2>3, <3>1, TailOf
      <4> QED
        BY <3>1, <4>1, <4>2 DEF ToSet
    <3>3. CASE LosesClick(here)
      BY <3>3 DEF LosesClick
    <3>4. CASE MissesClick(candidate)
      <4>1. PICK url : url = Lands(crawl.at.url, session) /\ url \in Url
        BY <1>6, <1>v, LandsIn
      <4>2. c \in ToSet(discoverClickTargets(url))
        BY <1>v, <4>1, CandidatesAre
      <4> QED
        BY <3>1, <3>2, <3>4, <4>1, <4>2 DEF MissesClick
    <3>5. CASE Leads(candidate, here, after) /\ c = candidate /\ c.goes # NoUrl /\ Eligible(Lands(c.goes, session))
      <4>1. after = Lands(c.goes, session) /\ Eligible(after)
        BY <3>5 DEF Leads
      <4>2. CASE Key[after] \in visited
        <5>1. depths[Key[after]] <= at + 1
          BY <1>5, <1>7, <1>8, <4>2
        <5> QED
          BY <4>1, <4>2, <5>1 DEF Known
      <4>3. CASE \E i \in DOMAIN queue : Key[queue[i].url] = Key[after]
        <5>1. Known(visited, queue, depths, Key[after], at + 1)
          BY <1>8, <4>3 DEF Known
        <5> QED
          BY <1>12, <2>0, <4>1, <5>1
      <4>4. CASE Key[after] \notin visited /\ \A i \in DOMAIN queue : Key[queue[i].url] # Key[after]
        <5>1. crawl'.queue = Append(queue, item)
          BY <1>5, <1>6, <1>9, <3>5, <4>1, <4>4 DEF Leads
        <5>2. crawl'.queue = queue \o <<item>>
          BY <1>5, <5>1, AppendIsJoin
        <5> QED
          BY <1>11, <4>1, <5>2
      <4> QED
        BY <4>2, <4>3, <4>4
    <3>6. CASE Leads(candidate, here, after) /\ c # candidate
      BY <3>1, <3>2, <3>6 DEF Leads
    <3> QED
      BY <1>2, <3>3, <3>4, <3>5, <3>6
  <2> QED
    BY <1>2, <1>5, <1>7, <2>1, <2>2, <2>3 DEF HereOK, KnownTo
<1>15. \A u : /\ Lands(u, session)' = Lands(u, session) /\ (Eligible(u)' <=> Eligible(u))
              /\ CandidatesOn(u)' = CandidatesOn(u)
  BY <1>1, <1>3 DEF Lands, app, Eligible, CandidatesOn, discoverClickTargets
<1>16. HereOK(depths)'
  <2>1. CandidatesOn(Lands(crawl.at.url, session))' = CandidatesOn(Lands(crawl.at.url, session))
    BY <1>1, <1>3 DEF Lands, app, CandidatesOn, discoverClickTargets
  <2>2. \A c \in ToSet(CandidatesOn(Lands(crawl.at.url, session))') :
           \/ c \in ToSet(crawl'.candidates) \/ c.goes = NoUrl \/ here \in crawl'.cut
           \/ Eligible(Lands(c.goes, session))' =>
                 Known(crawl'.visited, crawl'.queue, depths, Key[Lands(c.goes, session)'], crawl'.at.depth + 1)
    <3>1. \A c : /\ Lands(c.goes, session)' = Lands(c.goes, session)
                 /\ Eligible(Lands(c.goes, session))' <=> Eligible(Lands(c.goes, session))
      BY <1>1, <1>3 DEF Lands, app, Eligible
    <3> QED
      BY <1>1, <1>5, <1>14, <2>1, <3>1
  <2> QED
    BY <1>1, <1>2, <1>5, <1>8, <1>12, <2>2 DEF HereOK, KnownTo
<1>17. SearchedTo(depths)'
  <2>1. KnownTo(depths, BaseKey, 0)'
    <3>1. Known(visited, crawl'.queue, depths, BaseKey, 0)
      BY <1>7, <1>12
    <3>2. BaseKey' = BaseKey
      BY <1>1 DEF BaseKey
    <3> QED
      BY <1>1, <1>5, <3>1, <3>2 DEF KnownTo
  <2> QED
    BY <1>1, <1>5, <1>7, <1>12, <1>13, <1>16, <2>1 DEF SearchedTo
<1>18. PagesHeld'
  BY <1>1, <1>4, <1>15 DEF PagesHeld
<1> QED
  BY <1>17, <1>18

\* The page whose elements have all been clicked leads to known pages.
LEMMA SearchEnds ==
  ASSUME Shape, CrawlFound, SearchInv, Watched', KeysTell, UNCHANGED <<session, version>>,
         Searching, crawl'.stage # "click", EndClicks \/ crawl.stage # "click",
         \A field \in CrawlFields \ {"stage", "rawPages"} : crawl'[field] = crawl[field]
  PROVE  PagesHeld' /\ \E depths : SearchedTo(depths)'
<1>1. /\ crawl'.visited = crawl.visited /\ crawl'.failed = crawl.failed /\ crawl'.queue = crawl.queue
      /\ crawl'.results = crawl.results /\ crawl'.target = crawl.target /\ crawl'.cut = crawl.cut
      /\ crawl'.held = crawl.held
  BY DEF CrawlFields
<1>2. PICK depths : PagesHeld /\ SearchedTo(depths)
  BY <1>1 DEF SearchInv, Watched
<1>3. \A u : Lands(u, session)' = Lands(u, session)
  BY DEF Lands, app
<1>4. PagesHeld'
  BY <1>1, <1>2, <1>3 DEF PagesHeld
<1>5. LinksKnown(depths) /\ depths \in [crawl.visited -> Nat]
  BY <1>2 DEF SearchedTo
<1>6. LinksKnown(depths)'
  <2>1. ASSUME NEW k \in crawl.visited \ crawl.failed, depths[k] < MaxDepth, NEW url \in Url, Key[url] = k
        PROVE  /\ \A l \in LinksFrom(url)' : Known(crawl'.visited, crawl'.queue, depths, Key[l], depths[k] + 1)
               /\ \A u \in ClicksFrom(url)' :
                     Known(crawl'.visited, crawl'.queue, depths, Key[u], depths[k] + 1)
    <3>1. depths[k] \in Nat
      BY <1>5, <2>1
    <3>2. \A j : \A d \in Nat : Known(crawl.visited, crawl.queue, depths, j, d)
                                  => Known(crawl'.visited, crawl'.queue, depths, j, d)
      BY <1>1
    <3>3. \A l \in LinksFrom(url)' : Known(crawl'.visited, crawl'.queue, depths, Key[l], depths[k] + 1)
      BY <1>1, <1>5, <2>1, <3>1, <3>2, LinksStay
    <3>4. CASE ~Clicking(k)
      <4>1. \A u \in ClicksFrom(url)' :
               Known(crawl'.visited, crawl'.queue, depths, Key[u], depths[k] + 1)
        BY <1>1, <1>5, <2>1, <3>1, <3>2, <3>4, LinksStay
      <4> QED
        BY <3>3, <4>1
    <3>5. CASE Clicking(k)
      <4>1. /\ crawl.stage = "click" /\ k = Key[crawl.at.url] /\ HereOK(depths) /\ crawl.at.url \in Url
            /\ crawl.candidates = <<>> /\ version \in DOMAIN App
        BY <1>2, <3>5 DEF Clicking, SearchedTo, CrawlFound, SearchOK, EndClicks, Shape
      <4>2. ClicksFrom(url)' \subseteq ClicksFrom(url)
        BY <1>1, LeadsStay
      <4>3. ClicksFrom(url) = ClicksFrom(crawl.at.url)
        BY <2>1, <4>1, OneKeyOnePage
      <4>4. ASSUME NEW u \in ClicksFrom(crawl.at.url)
            PROVE  Known(crawl.visited, crawl.queue, depths, Key[u], depths[k] + 1)
        <5>1. k \notin crawl.cut /\ Eligible(u)
          BY <4>1, <4>4 DEF ClicksFrom
        <5>2. PICK c \in ToSet(CandidatesOn(Lands(crawl.at.url, session))) :
                 c.goes # NoUrl /\ u = Lands(c.goes, session)
          BY <4>1, <4>4 DEF ClicksFrom
        <5>3. c \notin ToSet(crawl.candidates)
          BY <4>1, NothingListed
        <5>4. Known(crawl.visited, crawl.queue, depths, Key[u], crawl.at.depth + 1)
          BY <4>1, <5>1, <5>2, <5>3 DEF HereOK, KnownTo
        <5> QED
          BY <4>1, <5>4 DEF HereOK
      <4>5. \A u \in ClicksFrom(url)' :
               Known(crawl'.visited, crawl'.queue, depths, Key[u], depths[k] + 1)
        BY <1>1, <4>2, <4>3, <4>4
      <4> QED
        BY <3>3, <4>5
    <3> QED
      BY <3>4, <3>5
  <2> QED
    BY <1>1, <2>1 DEF LinksKnown, KnownTo
<1>7. SearchedTo(depths)'
  <2>1. KnownTo(depths, BaseKey, 0)'
    BY <1>1, <1>2 DEF SearchedTo, KnownTo, BaseKey
  <2> QED
    BY <1>1, <1>2, <1>6, <2>1 DEF SearchedTo
<1> QED
  BY <1>4, <1>7

LEMMA SearchAction ==
  ASSUME Shape, CrawlShape, SearchInv, [Next]_vars
  PROVE  SearchInv'
<1> SUFFICES ASSUME Watched' PROVE PagesHeld' /\ \E depths : SearchedTo(depths)'
  BY DEF SearchInv
<1>c. CrawlOK
  BY DEF CrawlShape
<1>1. CASE UNCHANGED <<crawl, session, version>>
  <2>1. PICK depths : PagesHeld /\ SearchedTo(depths)
    BY <1>1 DEF SearchInv, Watched, Searching, KeysTell, app
  <2>2. PagesHeld'
    BY <1>1, <2>1 DEF PagesHeld, Lands, app
  <2>3. SearchedTo(depths)'
    <3>1. LinksKnown(depths)'
      <4>1. ASSUME NEW url
            PROVE  LinksFrom(url)' = LinksFrom(url) /\ ClicksFrom(url)' \subseteq ClicksFrom(url)
        BY <1>1, LeadsStay
      <4>2. LinksKnown(depths)
        BY <2>1 DEF SearchedTo
      <4> QED
        BY <1>1, <4>1, <4>2 DEF LinksKnown, KnownTo, Clicking
    <3>2. HereOK(depths) => HereOK(depths)'
      <4>1. CandidatesOn(Lands(crawl.at.url, session))' = CandidatesOn(Lands(crawl.at.url, session))
        BY <1>1 DEF Lands, app, CandidatesOn, discoverClickTargets
      <4>2. \A u : /\ Lands(u, session)' = Lands(u, session)
                   /\ Eligible(Lands(u, session))' <=> Eligible(Lands(u, session))
        BY <1>1 DEF Lands, app, Eligible
      <4> QED
        BY <1>1, <4>1, <4>2 DEF HereOK, KnownTo
    <3> QED
      BY <1>1, <2>1, <3>1, <3>2 DEF SearchedTo, KnownTo, BaseKey
  <2> QED
    BY <2>2, <2>3
<1>2. ASSUME NEW user, CrawlStep(user) PROVE PagesHeld' /\ \E depths : SearchedTo(depths)'
  <2>0. KeysTell
    <3>1. UNCHANGED version
      BY <1>2 DEF CrawlStep, CrawlLogin, CaptureBase, FollowScenario, StartDiscovery,
                  VisitNext, ClickNext, EndClicks, EndDiscovery, webVars
    <3> QED
      BY <3>1 DEF KeysTell, app, Watched
  <2>1. Searching' /\ CrawlFound
    BY <1>2, <1>c, StageParts DEF Watched
  <2>2. CASE StartDiscovery
    <3>1. PICK item : /\ item = [url |-> BaseUrl[crawl.target], depth |-> 0, from |-> NoUrl]
                      /\ crawl' = [crawl EXCEPT !.stage = "discover", !.queue = <<item>>]
                      /\ crawl.stage = "scenario"
      BY <2>2 DEF StartDiscovery
    <3>2. /\ crawl'.visited = {} /\ crawl'.queue = <<item>> /\ crawl'.stage = "discover"
          /\ crawl'.target = crawl.target
      BY <2>1, <3>1 DEF CrawlFound, CrawlFields
    <3>3. PICK depths : depths \in [{} -> Nat]
      <4>1. [k \in {} |-> 0] \in [{} -> Nat]
        OBVIOUS
      <4> QED
        BY <4>1
    <3>4. DOMAIN <<item>> = {1} /\ <<item>>[1] = item /\ item.depth = 0 /\ Key[item.url] = BaseKey
      BY <3>1 DEF BaseKey
    <3>5. BaseKey' = BaseKey
      BY <3>2 DEF BaseKey
    <3>6. Known({}, <<item>>, depths, BaseKey, 0) /\ QueueAscends({}, <<item>>, depths)
      BY <3>4 DEF Known, QueueAscends
    <3>7. KnownTo(depths, BaseKey, 0)'
      BY <3>2, <3>5, <3>6 DEF KnownTo
    <3>8. LinksKnown(depths)' /\ PagesHeld'
      BY <3>2 DEF LinksKnown, PagesHeld
    <3>9. SearchedTo(depths)'
      BY <3>2, <3>3, <3>6, <3>7, <3>8 DEF SearchedTo
    <3> QED
      BY <3>8, <3>9
  <2>3. CASE VisitNext
    BY <2>0, <2>1, <2>3, SearchVisit
  <2>4. CASE ClickNext
    BY <2>0, <2>1, <2>4, SearchClick
  <2>5. CASE /\ EndClicks \/ EndDiscovery
             /\ Searching /\ crawl'.stage # "click" /\ UNCHANGED <<session, version>>
             /\ \A field \in CrawlFields \ {"stage", "rawPages"} : crawl'[field] = crawl[field]
    <3>1. EndClicks \/ crawl.stage # "click"
      BY <2>5 DEF EndDiscovery
    <3> QED
      BY <2>0, <2>1, <2>5, <3>1, SearchEnds
  <2> QED
    BY <1>2, <1>c, <2>1, <2>2, <2>3, <2>4, <2>5, StageParts
<1>3. CASE ~Searching'
  BY <1>3 DEF Watched
<1> QED
  BY <1>1, <1>2, <1>3, CrawlMoves

LEMMA CrawlHolds == Spec => [](Shape /\ CrawlShape /\ ForestInv /\ SearchInv)
<1>1. Init => ForestInv /\ SearchInv
  BY DEF Init, NoCrawl, ForestInv, SearchInv, Searching, Watched
<1>2. Shape /\ CrawlShape /\ ForestInv /\ SearchInv /\ [Next]_vars => ForestInv' /\ SearchInv'
  BY ForestAction, SearchAction
<1> QED
  BY <1>1, <1>2, CrawlShapeHolds, PTL DEF Spec

-------------------------------------------------------------------------------
(* What the invariants say of a crawl that is done.                          *)

\* A set that grows step by step.
Growth(s, U, first, N, G) ==
    /\ s \in [0..N -> SUBSET U]
    /\ s[0] = first
    /\ \A n \in 1..N : s[n] = s[n - 1] \cup G[s[n - 1]]

LEMMA GrowthExists ==
    ASSUME NEW U, NEW first \in SUBSET U, NEW N \in Nat, NEW G \in [SUBSET U -> SUBSET U]
    PROVE  \E s : Growth(s, U, first, N, G)
<1>1. PICK T : T = SUBSET U
  OBVIOUS
<1> DEFINE F == [p \in (1..N) \X T |-> p[2] \cup G[p[2]]]
<1>2. F \in [(1..N) \X T -> T]
  BY <1>1
<1>3. PICK s : Recursion(s, T, first, N, F)
  <2> HIDE DEF F
  <2> QED
    BY <1>1, <1>2, RecursionExists
<1>4. ASSUME NEW k \in 1..N PROVE s[k] = s[k - 1] \cup G[s[k - 1]]
  <2>1. k - 1 \in 0..N /\ s[k - 1] \in T
    BY <1>3 DEF Recursion
  <2> QED
    BY <1>3, <2>1 DEF Recursion
<1> QED
  BY <1>1, <1>3, <1>4 DEF Recursion, Growth

\* The pages up to each depth.
Walk(depth) ==
    CHOOSE reach : reach = [n \in 0..depth |->
        IF n = 0 THEN {BaseUrl[crawl.target]}
        ELSE reach[n - 1] \cup UNION {LinksFrom(u) \cup ClicksFrom(u) :
                                       u \in {u \in reach[n - 1] : Key[u] \notin crawl.failed}}]

LEMMA LeadsToUrls ==
  ASSUME version \in DOMAIN App, NEW url \in Url
  PROVE  LinksFrom(url) \subseteq Url /\ ClicksFrom(url) \subseteq Url
<1>1. PICK x : x = Lands(url, session) /\ x \in Url
  BY LandsIn
<1>2. extractLinks(x) \in Seq(Url)
  BY <1>1, PagesAssumption DEF extractLinks, app
<1>3. LinksFrom(url) \subseteq Url
  BY <1>1, <1>2 DEF LinksFrom, ToSet
<1>4. \A c \in ToSet(CandidatesOn(x)) : c.goes \in Url \cup {NoUrl}
  BY <1>1, CandidatesAre
<1>5. ASSUME NEW c \in ToSet(CandidatesOn(x)), c.goes # NoUrl PROVE Lands(c.goes, session) \in Url
  BY <1>4, <1>5, LandsIn
<1>6. ClicksFrom(url) \subseteq Url
  BY <1>1, <1>5 DEF ClicksFrom
<1> QED
  BY <1>3, <1>6

LEMMA WalkIs ==
  ASSUME version \in DOMAIN App, crawl.target \in Target, NEW N \in Nat
  PROVE  /\ Within(N) = Walk(N)[N] /\ Walk(N)[0] = {BaseUrl[crawl.target]}
         /\ \A n \in 1..N : Walk(N)[n] = Walk(N)[n - 1] \cup
               UNION {LinksFrom(u) \cup ClicksFrom(u) :
                        u \in {u \in Walk(N)[n - 1] : Key[u] \notin crawl.failed}}
<1> DEFINE More(S) == UNION {LinksFrom(u) \cup ClicksFrom(u) : u \in {u \in S : Key[u] \notin crawl.failed}}
<1>1. PICK first, G : /\ first = {BaseUrl[crawl.target]}
                      /\ G = [S \in SUBSET Url |-> More(S)]
  OBVIOUS
<1>2. first \in SUBSET Url
  BY <1>1, PagesAssumption
<1>3. G \in [SUBSET Url -> SUBSET Url]
  <2>1. ASSUME NEW S \in SUBSET Url PROVE More(S) \in SUBSET Url
    BY LeadsToUrls
  <2> HIDE DEF More
  <2> QED
    BY <1>1, <2>1
<1> HIDE DEF More
<1>4. PICK s : Growth(s, Url, first, N, G)
  BY <1>2, <1>3, GrowthExists
<1>5. ASSUME NEW n \in 1..N PROVE G[s[n - 1]] = More(s[n - 1])
  <2>1. n - 1 \in 0..N
    OBVIOUS
  <2> QED
    BY <1>1, <1>4, <2>1 DEF Growth
<1>6. s = [n \in 0..N |-> IF n = 0 THEN first ELSE s[n - 1] \cup More(s[n - 1])]
  <2>1. \A n \in 0..N : n = 0 \/ n \in 1..N
    OBVIOUS
  <2> QED
    BY <1>4, <1>5, <2>1 DEF Growth
<1>7. s = [n \in 0..N |->
            IF n = 0 THEN {BaseUrl[crawl.target]}
            ELSE s[n - 1] \cup UNION {LinksFrom(u) \cup ClicksFrom(u) :
                                       u \in {u \in s[n - 1] : Key[u] \notin crawl.failed}}]
  BY <1>1, <1>6 DEF More
<1>w. PICK w : w = Walk(N)
  OBVIOUS
<1>v. w = [n \in 0..N |->
            IF n = 0 THEN {BaseUrl[crawl.target]}
            ELSE w[n - 1] \cup UNION {LinksFrom(u) \cup ClicksFrom(u) :
                                       u \in {u \in w[n - 1] : Key[u] \notin crawl.failed}}]
  BY <1>7, <1>w DEF Walk
<1>8. w = [n \in 0..N |-> IF n = 0 THEN first ELSE w[n - 1] \cup More(w[n - 1])]
  BY <1>1, <1>v DEF More
<1>9. w[0] = first /\ \A n \in 1..N : w[n] = w[n - 1] \cup More(w[n - 1])
  <2>1. 0 \in 0..N /\ \A n \in 1..N : n \in 0..N /\ n # 0
    OBVIOUS
  <2> QED
    BY <1>8, <2>1
<1>10. Within(N) = Walk(N)[N]
  BY DEF Within, Walk
<1> QED
  BY <1>1, <1>w, <1>9, <1>10 DEF More

\* The first half of CrawlIsExhaustive.
LEMMA CrawlReachesAll ==
  ASSUME Shape, CrawlShape, SearchInv, crawl.stage = "done", KeysTell, crawl.held,
         Len(crawl.results) < MaxPages, NEW u \in Within(MaxDepth)
  PROVE  /\ Key[u] \in crawl.visited
         /\ Key[u] \notin crawl.failed =>
               \/ Key[Lands(u, session)] \in PageKeys(crawl.rawPages)
               \/ Enough(crawl.rawPages)
<1>1. version \in DOMAIN App /\ CrawlFound /\ MaxDepth \in Nat /\ MaxPages \in Nat
  BY DiscoverAssumption DEF Shape, CrawlShape, CrawlOK, NoCrawl
<1>2. ~Enough(crawl.results)
  BY <1>1 DEF Enough, CrawlFound
<1>3. PICK depths : PagesHeld /\ SearchedTo(depths)
  BY <1>2 DEF SearchInv, Watched, Searching
<1>4. crawl.queue = <<>> /\ crawl.target \in Target
  BY <1>1, <1>2 DEF CrawlFound
<1>5. \A k : \A d \in Nat : KnownTo(depths, k, d) => k \in crawl.visited /\ depths[k] <= d
  BY <1>4 DEF KnownTo, Known
<1>6. depths \in [crawl.visited -> Nat] /\ LinksKnown(depths) /\ KnownTo(depths, BaseKey, 0)
  BY <1>3 DEF SearchedTo
<1> DEFINE Near(url, n) == url \in Url /\ Key[url] \in crawl.visited /\ depths[Key[url]] <= n
<1>7. ASSUME NEW n \in Nat, n < MaxDepth, NEW w, Near(w, n), Key[w] \notin crawl.failed,
             NEW x \in LinksFrom(w) \cup ClicksFrom(w)
      PROVE  Near(x, n + 1)
  <2>1. x \in Url
    BY <1>1, <1>7, LeadsToUrls
  <2>2. depths[Key[w]] \in Nat /\ depths[Key[w]] < MaxDepth /\ ~Clicking(Key[w])
    BY <1>1, <1>6, <1>7 DEF Clicking
  <2>3. KnownTo(depths, Key[x], depths[Key[w]] + 1)
    BY <1>6, <1>7, <2>2 DEF LinksKnown
  <2>4. Key[x] \in crawl.visited /\ depths[Key[x]] <= depths[Key[w]] + 1
    BY <1>5, <2>2, <2>3
  <2> QED
    BY <1>6, <1>7, <2>1, <2>2, <2>4
<1>8. Near(BaseUrl[crawl.target], 0)
  <2>1. BaseUrl[crawl.target] \in Url
    BY <1>4, PagesAssumption
  <2> QED
    BY <1>5, <1>6, <2>1 DEF BaseKey
<1>9. PICK walk : walk = Walk(MaxDepth)
  OBVIOUS
<1>10. /\ Within(MaxDepth) = walk[MaxDepth] /\ walk[0] = {BaseUrl[crawl.target]}
       /\ \A n \in 1..MaxDepth : walk[n] = walk[n - 1] \cup
             UNION {LinksFrom(w) \cup ClicksFrom(w) : w \in {w \in walk[n - 1] : Key[w] \notin crawl.failed}}
  BY <1>1, <1>4, <1>9, WalkIs
<1> DEFINE S == {n \in Nat : n <= MaxDepth => \A w \in walk[n] : Near(w, n)}
<1>11. 0 \in S
  BY <1>8, <1>10
<1>12. ASSUME NEW n \in Nat, n \in S PROVE n + 1 \in S
  <2> SUFFICES ASSUME n + 1 <= MaxDepth, NEW x \in walk[n + 1] PROVE Near(x, n + 1)
    OBVIOUS
  <2>1. n + 1 \in 1..MaxDepth /\ (n + 1) - 1 = n /\ n < MaxDepth
    BY <1>1
  <2>2. \A w \in walk[n] : Near(w, n)
    BY <1>1, <1>12, <2>1
  <2>3. \/ x \in walk[n]
        \/ \E w \in walk[n] : Key[w] \notin crawl.failed /\ x \in LinksFrom(w) \cup ClicksFrom(w)
    BY <1>10, <2>1
  <2>4. CASE x \in walk[n]
    <3>1. Near(x, n)
      BY <2>2, <2>4
    <3> QED
      BY <1>6, <3>1
  <2>5. CASE \E w \in walk[n] : Key[w] \notin crawl.failed /\ x \in LinksFrom(w) \cup ClicksFrom(w)
    <3>1. PICK w \in walk[n] : Key[w] \notin crawl.failed /\ x \in LinksFrom(w) \cup ClicksFrom(w)
      BY <2>5
    <3>2. Near(w, n)
      BY <2>2
    <3> HIDE DEF Near
    <3> QED
      BY <1>7, <2>1, <3>1, <3>2
  <2> QED
    BY <2>3, <2>4, <2>5
<1>13. MaxDepth \in S
  <2> HIDE DEF S
  <2> QED
    BY <1>1, <1>11, <1>12, NatSetInduction
<1>14. Near(u, MaxDepth)
  BY <1>1, <1>10, <1>13
<1>15. ASSUME Key[u] \notin crawl.failed
       PROVE  \/ Key[Lands(u, session)] \in PageKeys(crawl.rawPages)
              \/ Enough(crawl.rawPages)
  <2>1. PICK i \in DOMAIN crawl.results : Key[crawl.results[i]] = Key[Lands(u, session)]
    BY <1>3, <1>14, <1>15 DEF PagesHeld
  <2> QED
    BY <1>1, <2>1 DEF CrawlFound
<1> QED
  BY <1>14, <1>15

\* The nodes of the sitemap up to each number of edges.
Tree(roots, reached, parentOf, N) ==
    CHOOSE tree : tree = [n \in 0..N |->
        IF n = 0 THEN roots
        ELSE tree[n - 1] \cup {u \in reached : parentOf[u] \in tree[n - 1]}]

LEMMA TreeIs ==
  ASSUME NEW roots, NEW reached, NEW parentOf, NEW N \in Nat, NEW t, t = Tree(roots, reached, parentOf, N)
  PROVE  /\ t[0] = roots
         /\ \A n \in 1..N : t[n] = t[n - 1] \cup {u \in reached : parentOf[u] \in t[n - 1]}
<1>1. PICK U, G : /\ U = roots \cup reached
                  /\ G = [S \in SUBSET U |-> {u \in reached : parentOf[u] \in S}]
  OBVIOUS
<1>2. roots \in SUBSET U /\ G \in [SUBSET U -> SUBSET U]
  BY <1>1
<1>3. PICK s : Growth(s, U, roots, N, G)
  BY <1>2, GrowthExists
<1>4. ASSUME NEW n \in 1..N PROVE G[s[n - 1]] = {u \in reached : parentOf[u] \in s[n - 1]}
  <2>1. n - 1 \in 0..N
    OBVIOUS
  <2> QED
    BY <1>1, <1>3, <2>1 DEF Growth
<1>5. s = [n \in 0..N |-> IF n = 0 THEN roots
                          ELSE s[n - 1] \cup {u \in reached : parentOf[u] \in s[n - 1]}]
  <2>1. \A n \in 0..N : n = 0 \/ n \in 1..N
    OBVIOUS
  <2> QED
    BY <1>3, <1>4, <2>1 DEF Growth
<1>6. t = [n \in 0..N |-> IF n = 0 THEN roots
                          ELSE t[n - 1] \cup {u \in reached : parentOf[u] \in t[n - 1]}]
  BY <1>5 DEF Tree
<1>7. 0 \in 0..N /\ \A n \in 1..N : n \in 0..N /\ n # 0
  OBVIOUS
<1> QED
  BY <1>6, <1>7

\* A sitemap's edges: their ends, the nodes they reach, and each one's parent.
Drawn(edges, ends, reached, parentOf, sitemap) ==
    /\ ends = UNION {{edges[i].from, edges[i].to} : i \in DOMAIN edges}
    /\ reached = {edges[i].to : i \in DOMAIN edges}
    /\ parentOf = [n \in reached |->
                     edges[CHOOSE i \in DOMAIN edges :
                              /\ edges[i].to = n
                              /\ \A j \in 1..i - 1 : edges[j].to # n].from]
    /\ sitemap.parentOf = parentOf
    /\ sitemap.tree = Tree(ends \ reached, reached, parentOf, Len(edges))[Len(edges)]

LEMMA SitemapIs ==
  ASSUME NEW edges, NEW P, NEW sitemap, sitemap = buildSitemap(edges, P)
  PROVE  \E ends, reached, parentOf : Drawn(edges, ends, reached, parentOf, sitemap)
<1> DEFINE ends    == UNION {{edges[i].from, edges[i].to} : i \in DOMAIN edges}
           reached == {edges[i].to : i \in DOMAIN edges}
           parents == [n \in reached |->
                           edges[CHOOSE i \in DOMAIN edges :
                                    /\ edges[i].to = n
                                    /\ \A j \in 1..i - 1 : edges[j].to # n].from]
<1>1. sitemap.parentOf = parents
  BY DEF buildSitemap
<1>2. sitemap.tree = Tree(ends \ reached, reached, parents, Len(edges))[Len(edges)]
  BY DEF buildSitemap, Tree
<1>3. Drawn(edges, ends, reached, parents, sitemap)
  BY <1>1, <1>2 DEF Drawn
<1> HIDE DEF ends, reached, parents
<1> QED
  BY <1>3

\* The second half of CrawlIsExhaustive: what the first edge that reaches a node
\* says of it, and then an earlier one of its parent, ends at a root.
LEMMA SitemapKeepsAll ==
  ASSUME Shape, CrawlShape, ForestInv, crawl.stage = "done", KeysTell, NEW sitemap,
         sitemap = buildSitemap(crawl.edges, PageKeys(crawl.rawPages)),
         BaseKey \notin DOMAIN sitemap.parentOf
  PROVE  DOMAIN sitemap.parentOf \subseteq sitemap.tree
<1>1. CrawlFound /\ Forest
  BY DEF CrawlShape, CrawlOK, NoCrawl, ForestInv, Searching
<1>2. PICK edges, N : /\ edges = crawl.edges /\ N = Len(edges) /\ N \in Nat /\ DOMAIN edges = 1..N
  BY <1>1 DEF CrawlFound, Listed
<1> DEFINE First(n, i) == edges[i].to = n /\ \A j \in 1..i - 1 : edges[j].to # n
<1>3. PICK ends, reached, parentOf : Drawn(edges, ends, reached, parentOf, sitemap)
  <2>1. PICK P : sitemap = buildSitemap(edges, P)
    BY <1>2
  <2> QED
    BY <2>1, SitemapIs
<1>4. PICK roots : roots = ends \ reached
  OBVIOUS
<1>5. PICK tree : tree = Tree(roots, reached, parentOf, N)
  OBVIOUS
<1>6. sitemap.parentOf = parentOf /\ sitemap.tree = tree[N]
  BY <1>2, <1>3, <1>4, <1>5 DEF Drawn
<1>e. /\ ends = UNION {{edges[i].from, edges[i].to} : i \in DOMAIN edges}
      /\ reached = {edges[i].to : i \in DOMAIN edges}
  BY <1>3 DEF Drawn
<1>p. \A n \in reached : parentOf[n] = edges[CHOOSE i \in DOMAIN edges : First(n, i)].from
  BY <1>3 DEF Drawn
<1>7. DOMAIN parentOf = reached
  BY <1>3 DEF Drawn
<1>8. /\ tree[0] = roots
      /\ \A n \in 1..N : tree[n] = tree[n - 1] \cup {u \in reached : parentOf[u] \in tree[n - 1]}
  BY <1>2, <1>5, TreeIs
<1>9. ASSUME NEW n \in reached PROVE \E i \in 1..N : First(n, i)
  <2> DEFINE Is == {i \in 1..N : edges[i].to = n}
  <2>1. Is \in SUBSET Nat /\ Is # {}
    BY <1>2, <1>e, <1>9
  <2> HIDE DEF Is
  <2>2. PICK i \in Is : \A j \in Is : i <= j
    BY <2>1, LeastNat
  <2> USE DEF Is
  <2>3. ASSUME NEW j \in 1..i - 1 PROVE edges[j].to # n
    <3>1. j \in 1..N /\ ~(i <= j)
      BY <1>2, <2>2
    <3> QED
      BY <2>2, <3>1
  <2> QED
    BY <2>2, <2>3
<1>10. ASSUME NEW n \in reached, NEW i \in 1..N, First(n, i)
       PROVE  \/ parentOf[n] \in roots
              \/ \E j \in 1..i - 1 : j \in 1..N /\ parentOf[n] \in reached /\ First(parentOf[n], j)
  <2>1. parentOf[n] = edges[i].from
    <3>1. PICK k \in DOMAIN edges : /\ k = (CHOOSE h \in DOMAIN edges : First(n, h))
                                    /\ First(n, k)
      BY <1>2, <1>9, <1>10
    <3>2. k = i
      BY <1>2, <1>10, <3>1
    <3> QED
      BY <1>p, <3>1, <3>2
  <2>2. PICK k : k = edges[i].from /\ k \in ends
    BY <1>2, <1>e
  <2>3. \/ k = BaseKey
        \/ \E j \in 1..i - 1 : edges[j].to = k
        \/ ~Reached(k)
    BY <1>1, <1>2, <2>2 DEF Forest, EdgeOK
  <2>4. CASE k \notin reached
    BY <1>4, <2>1, <2>2, <2>4
  <2>5. CASE k \in reached
    <3>1. k # BaseKey /\ Reached(k)
      BY <1>2, <1>e, <1>6, <1>7, <2>5 DEF Reached
    <3>2. PICK j \in 1..i - 1 : edges[j].to = k
      BY <2>3, <3>1
    <3>3. PICK h \in 1..N : First(k, h)
      BY <1>9, <2>5
    <3>4. h \in 1..i - 1
      BY <1>2, <3>2, <3>3
    <3> QED
      BY <2>1, <2>2, <2>5, <3>3, <3>4
  <2> QED
    BY <2>4, <2>5
<1> HIDE DEF First
<1> DEFINE S == {m \in Nat : m <= N =>
                   /\ roots \subseteq tree[m]
                   /\ \A n \in reached : \A i \in 1..m : First(n, i) => n \in tree[m]}
<1>11. 0 \in S
  BY <1>8
<1>12. ASSUME NEW m \in Nat, m \in S PROVE m + 1 \in S
  <2> SUFFICES ASSUME m + 1 <= N
               PROVE  /\ roots \subseteq tree[m + 1]
                      /\ \A n \in reached : \A i \in 1..m + 1 : First(n, i) => n \in tree[m + 1]
    OBVIOUS
  <2>1. /\ roots \subseteq tree[m]
        /\ \A n \in reached : \A i \in 1..m : First(n, i) => n \in tree[m]
    BY <1>2, <1>12
  <2>2. tree[m + 1] = tree[m] \cup {u \in reached : parentOf[u] \in tree[m]}
    <3>1. m + 1 \in 1..N /\ (m + 1) - 1 = m
      BY <1>2
    <3> QED
      BY <1>8, <3>1
  <2>3. ASSUME NEW n \in reached, NEW i \in 1..m + 1, First(n, i) PROVE parentOf[n] \in tree[m]
    <3>1. i \in 1..N
      BY <1>2
    <3>2. CASE parentOf[n] \in roots
      BY <2>1, <3>2
    <3>3. CASE \E j \in 1..i - 1 : j \in 1..N /\ parentOf[n] \in reached /\ First(parentOf[n], j)
      <4>1. PICK j \in 1..i - 1 : parentOf[n] \in reached /\ First(parentOf[n], j)
        BY <3>3
      <4>2. j \in 1..m
        OBVIOUS
      <4> QED
        BY <2>1, <4>1, <4>2
    <3> QED
      BY <1>10, <2>3, <3>1, <3>2, <3>3
  <2> QED
    BY <2>1, <2>2, <2>3
<1>13. N \in S
  <2> HIDE DEF S
  <2> QED
    BY <1>2, <1>11, <1>12, NatSetInduction
<1>14. reached \subseteq tree[N]
  BY <1>2, <1>9, <1>13
<1> QED
  BY <1>6, <1>7, <1>14

\* CrawlIsExhaustive: the breadth-first search ends with every page it can reach,
\* and its sitemap with a place for every page an edge touches.  (discoverPages,
\* buildSitemap)
THEOREM AcquisitionCrawlIsExhaustive == Spec => []CrawlIsExhaustive
<1>1. ASSUME Shape, CrawlShape, ForestInv, SearchInv PROVE CrawlIsExhaustive
  <2>1. ASSUME crawl.stage = "done", KeysTell, crawl.held, Len(crawl.results) < MaxPages
        PROVE  \A u \in Within(MaxDepth) :
                  /\ Key[u] \in crawl.visited
                  /\ Key[u] \notin crawl.failed =>
                        \/ Key[Lands(u, session)] \in PageKeys(crawl.rawPages)
                        \/ Enough(crawl.rawPages)
    BY <1>1, <2>1, CrawlReachesAll
  <2>2. ASSUME crawl.stage = "done", KeysTell
        PROVE  LET sitemap == buildSitemap(crawl.edges, PageKeys(crawl.rawPages))
               IN Key[BaseUrl[crawl.target]] \notin DOMAIN sitemap.parentOf =>
                     DOMAIN sitemap.parentOf \subseteq sitemap.tree
    BY <1>1, <2>2, SitemapKeepsAll DEF BaseKey
  <2> QED
    BY <2>1, <2>2 DEF CrawlIsExhaustive
<1> QED
  BY <1>1, CrawlHolds, PTL

-------------------------------------------------------------------------------
(* The types.                                                                *)

\* The page shows a URL, or none yet; an answer brings one of a user to a target.
People == {Nobody} \cup UNION {App[v].users : v \in DOMAIN App}

AnswerIn(a) == a.url \in Url /\ a.target \in Target /\ a.who \in People

BrowserTypes ==
    /\ page.at \in Url \cup {NoPage.at} /\ \A a \in ToSet(page.arriving) : AnswerIn(a)
    /\ session \in [Target -> People]

CounterTypes ==
    mishaps \in 0..MaxMishaps /\ clock \in 0..MaxClock /\ commands \in 0..MaxCommands

StageTypes ==
    /\ login.stage \in {"none", "open", "form", "submitted", "pin", "pin submitted", "done"}
    /\ exec.stage \in {"none", "next", "act", "probe", "login", "steps", "threw"}

\* The act whose steps run is one of the scenario's.
ActTypes ==
    exec.stage \in {"act", "probe", "login", "steps"} =>
        IF IsMulti THEN exec.act \in 1..Len(Current.acts) ELSE exec.act = 0

PageTypes ==
    /\ saved \cup pages \subseteq {Key[u] : u \in Url}
    /\ doubts \subseteq {"structure", "behavior"}

TypesInv == BrowserTypes /\ CounterTypes /\ StageTypes /\ ActTypes /\ PageTypes

\* The first page of some steps is a URL.
LEMMA FirstNavIs ==
    ASSUME NEW T, NEW steps \in Seq(T), NEW t \in Target,
           \A step \in T : GoesToUrl(step)
    PROVE  FirstNav(steps, t) \in Url
<1> DEFINE I == {i \in 1..Len(steps) : steps[i].action = "navigate"}
<1>1. BaseUrl[t] \in Url
  BY PagesAssumption
<1>2. CASE I = {}
  <2>1. FirstNav(steps, t) = BaseUrl[t]
    BY <1>2 DEF FirstNav, SelectInSeq
  <2> QED
    BY <1>1, <2>1
<1>3. CASE I # {}
  <2>1. PICK i : i = Min(I)
    OBVIOUS
  <2>2. i \in I
    <3>1. I \in SUBSET Nat
      OBVIOUS
    <3>2. \E n \in I : \A m \in I : n <= m
      BY <1>3, <3>1, LeastNat
    <3> HIDE DEF I
    <3> QED
      BY <2>1, <3>2 DEF Min
  <2>3. FirstNav(steps, t) = IF i = 0 THEN BaseUrl[t] ELSE steps[i].raw
    BY <1>3, <2>1 DEF FirstNav, SelectInSeq
  <2>4. i # 0 /\ steps[i] \in T /\ steps[i].action = "navigate"
    BY <2>2
  <2> QED
    BY <2>3, <2>4 DEF GoesToUrl
<1> QED
  BY <1>2, <1>3

LEMMA AnswerTypes ==
  ASSUME version \in DOMAIN App, NEW t \in Target, NEW who
  PROVE  /\ \A a \in ToSet(Answer(t, who)) : AnswerIn(a)
         /\ \A a \in ToSet(Welcome(t, who)) : AnswerIn(a)
<1>1. ASSUME NEW a \in ToSet(Welcome(t, who)) PROVE AnswerIn(a)
  <2>1. who \in app.users /\ a = [url |-> HomeUrl[t], target |-> t, who |-> who]
    BY <1>1, ToSetOfOne DEF Welcome
  <2>2. HomeUrl[t] \in Url /\ who \in People
    BY <2>1, PagesAssumption DEF People, app
  <2> QED
    BY <2>1, <2>2 DEF AnswerIn
<1>2. ASSUME NEW a \in ToSet(Answer(t, who)) PROVE AnswerIn(a)
  <2>1. CASE who \in app.users /\ app.twoFactor # <<>>
    <3>1. a = [url |-> app.twoFactor[1], target |-> t, who |-> Nobody]
      BY <1>2, <2>1, ToSetOfOne DEF Answer
    <3>2. app.twoFactor[1] \in Url /\ Nobody \in People
      BY <2>1, WebAssumption DEF People, app
    <3> QED
      BY <3>1, <3>2 DEF AnswerIn
  <2>2. CASE ~(who \in app.users /\ app.twoFactor # <<>>)
    BY <1>1, <1>2, <2>2 DEF Answer
  <2> QED
    BY <2>1, <2>2
<1> QED
  BY <1>1, <1>2

LEMMA SessionTypes ==
  ASSUME NEW who \in [Target -> People], NEW url
  PROVE  SessionAfter(url, who) \in [Target -> People]
  BY DEF SessionAfter, People

LEMMA NoPageTypes ==
  ASSUME NEW cookies \in [Target -> People], OpenPage(cookies)
  PROVE  BrowserTypes'
  BY ToSetOfOne DEF OpenPage, NoPage, BrowserTypes

LEMMA LoggedOutTypes == LoggedOut \in [Target -> People]
  BY DEF LoggedOut, People

\* A page that is shown, with nothing under way.
LEMMA ShownTypes ==
  ASSUME NEW url \in Url, page' = [at |-> url, arriving |-> <<>>], session' \in [Target -> People]
  PROVE  BrowserTypes'
  BY ToSetOfOne DEF BrowserTypes

LEMMA GotoTypes ==
  ASSUME version \in DOMAIN App, BrowserTypes, NEW url \in Url, Goto(url)
  PROVE  BrowserTypes'
<1>1. PICK who \in Granted(page.arriving) :
        /\ page' = [at |-> Lands(url, who), arriving |-> <<>>]
        /\ session' = SessionAfter(Lands(url, who), who)
  BY DEF Goto
<1>2. who \in [Target -> People]
  BY <1>1 DEF Granted, BrowserTypes, AnswerIn
<1>3. PICK landed : landed = Lands(url, who) /\ landed \in Url
  BY LandsIn
<1>4. session' \in [Target -> People]
  BY <1>1, <1>2, SessionTypes
<1> QED
  BY <1>1, <1>3, <1>4, ShownTypes

LEMMA CrawlTypes ==
  ASSUME version \in DOMAIN App, CrawlOK, BrowserTypes, NEW user, CrawlStep(user)
  PROVE  BrowserTypes' /\ (NoMishap \/ Mishap)
<1>0. NoMishap \/ Mishap
  BY DEF CrawlStep, CrawlLogin, CaptureBase, FollowScenario, StartDiscovery, VisitNext, ClickNext,
         EndClicks, EndDiscovery, NoMishap, webVars
<1> SUFFICES BrowserTypes'
  BY <1>0
<1>c. CrawlFound
  BY SMTT(30) DEF CrawlOK, NoCrawl, CrawlStep, CrawlLogin, CaptureBase, FollowScenario, StartDiscovery, VisitNext,
         ClickNext, EndClicks, EndDiscovery
<1>s. ASSUME UNCHANGED <<page, session>> PROVE BrowserTypes'
  BY <1>s DEF BrowserTypes
<1>1. CASE CrawlLogin(user)
  <2>1. crawl.target \in Target /\ PathForm[crawl.target].url \in Url
    BY <1>c, FormsAre DEF CrawlFound, Form
  <2>2. PICK at : at = Lands(PathForm[crawl.target].url, session) /\ at \in Url
    BY <2>1, LandsIn
  <2>3. ASSUME NEW answers, answers \in {Answer(crawl.target, user), <<>>},
               page' = [at |-> at, arriving |-> answers], UNCHANGED session
        PROVE  BrowserTypes'
    <3>1. \A a \in ToSet(answers) : AnswerIn(a)
      BY <2>1, <2>3, AnswerTypes, ToSetOfOne
    <3> QED
      BY <2>2, <2>3, <3>1 DEF BrowserTypes
  <2> QED
    BY <1>1, <1>s, <2>2, <2>3 DEF CrawlLogin
<1>2. CASE CaptureBase
  <2>1. BaseUrl[crawl.target] \in Url
    BY <1>c, PagesAssumption DEF CrawlFound
  <2> QED
    BY <1>2, <1>s, <2>1, GotoTypes DEF CaptureBase
<1>3. CASE FollowScenario
  <2>1. PICK s : s = crawl.todo /\ s \in Seq(Url) /\ s # <<>>
    BY <1>3, <1>c DEF FollowScenario, CrawlFound
  <2>2. Head(s) \in Url
    BY <2>1
  <2>3. UNCHANGED <<page, session>> \/ Goto(Head(s))
    BY <1>3, <2>1 DEF FollowScenario
  <2> QED
    BY <1>s, <2>2, <2>3, GotoTypes
<1>4. CASE StartDiscovery \/ EndClicks \/ EndDiscovery
  BY <1>4, <1>s DEF StartDiscovery, EndClicks, EndDiscovery, webVars
<1>5. CASE VisitNext
  <2>1. PICK queue : queue = crawl.queue /\ Listed(queue) /\ queue # <<>>
    BY <1>5, <1>c DEF VisitNext, CrawlFound, SearchOK
  <2>2. 1 \in DOMAIN queue /\ Head(queue) = queue[1]
    BY <2>1, TailOf
  <2>3. queue[1].url \in Url
    BY <1>c, <2>1, <2>2 DEF CrawlFound, SearchOK, QueueOK
  <2>4. UNCHANGED <<page, session>> \/ Goto(Head(queue).url)
    BY <1>5, <2>1 DEF VisitNext, Dequeue
  <2> QED
    BY <1>s, <2>2, <2>3, <2>4, GotoTypes
<1>6. CASE ClickNext
  <2>1. crawl.at.url \in Url
    BY <1>6, <1>c DEF ClickNext, CrawlFound, SearchOK
  <2>2. PICK again : again = Lands(crawl.at.url, session) /\ again \in Url
    BY <2>1, LandsIn
  <2>3. PICK s : s = crawl.candidates /\ Listed(s) /\ s # <<>> /\ \A c \in ToSet(s) : c.goes \in Url \cup {NoUrl}
    BY <1>6, <1>c DEF ClickNext, CrawlFound, SearchOK
  <2>4. Head(s) \in ToSet(s)
    <3>1. 1 \in DOMAIN s /\ Head(s) = s[1]
      BY <2>3, TailOf
    <3> QED
      BY <3>1 DEF ToSet
  <2>5. PICK after : /\ after = IF Head(s).goes = NoUrl THEN again ELSE Lands(Head(s).goes, session)
                     /\ after \in Url
    BY <2>2, <2>3, <2>4, LandsIn
  <2>6. \/ UNCHANGED <<page, session>>
        \/ page' = [at |-> again, arriving |-> <<>>] /\ UNCHANGED session
        \/ page' = [at |-> after, arriving |-> <<>>] /\ session' = SessionAfter(after, session)
    BY <1>6, <2>2, <2>3, <2>5 DEF ClickNext
  <2>7. session \in [Target -> People] /\ SessionAfter(after, session) \in [Target -> People]
    BY SessionTypes DEF BrowserTypes
  <2> QED
    BY <1>s, <2>2, <2>5, <2>6, <2>7, ShownTypes
<1> QED
  BY <1>0, <1>1, <1>2, <1>3, <1>4, <1>5, <1>6 DEF CrawlStep

LEMMA LoginTypes ==
  ASSUME Shape, BrowserTypes, LoginStep
  PROVE  /\ BrowserTypes' /\ (NoMishap \/ Mishap)
         /\ login'.stage \in {"open", "form", "submitted", "pin", "pin submitted", "done"}
<1>0. login.stage \in {"open", "form", "submitted", "pin", "pin submitted"}
  BY DEF LoginStep, LoginOpens, LoginSubmits, LoginJudges, PinSubmits, PinJudges
<1>1. DOMAIN login = LoginFields /\ login.target \in Target /\ login.form \in Form
  <2>1. NoLogin.stage = "none"
    BY DEF NoLogin
  <2>2. login # NoLogin
    BY <1>0, <2>1
  <2> QED
    BY <2>2 DEF Shape, LoginOK
<1>2. NoMishap \/ Mishap
  BY DEF LoginStep, LoginOpens, LoginSubmits, LoginJudges, PinSubmits, PinJudges, Waited
<1>3. login'.stage \in {"open", "form", "submitted", "pin", "pin submitted", "done"}
  BY <1>1 DEF LoginStep, LoginOpens, LoginSubmits, LoginJudges, PinSubmits, PinJudges, Judged, LoginFields
<1>4. \/ UNCHANGED <<page, session>>
      \/ Goto(login.form.url)
      \/ /\ UNCHANGED session
         /\ \/ page' = [page EXCEPT !.arriving = Answer(login.target, login.who)]
            \/ page' = [page EXCEPT !.arriving = Welcome(login.target, login.who)]
  BY DEF LoginStep, LoginOpens, LoginSubmits, LoginJudges, PinSubmits, PinJudges
<1>5. login.form.url \in Url
  BY <1>1 DEF Form
<1>6. ASSUME Goto(login.form.url) PROVE BrowserTypes'
  BY <1>5, <1>6, GotoTypes DEF Shape
<1>7. ASSUME UNCHANGED <<page, session>> PROVE BrowserTypes'
  BY <1>7 DEF BrowserTypes
<1>8. ASSUME UNCHANGED session, NEW answers, page' = [page EXCEPT !.arriving = answers],
             \A a \in ToSet(answers) : AnswerIn(a)
      PROVE  BrowserTypes'
  <2>1. page'.at = page.at /\ page'.arriving = answers
    BY <1>8 DEF Shape, PageOK
  <2> QED
    BY <1>8, <2>1 DEF BrowserTypes
<1> QED
  BY <1>1, <1>2, <1>3, <1>4, <1>6, <1>7, <1>8, AnswerTypes DEF Shape

\* The scenario under way is one of the configuration.
LEMMA CurrentIs ==
  ASSUME ToldInv, exec.stage \notin {"none", "threw"}, exec.todo # <<>>
  PROVE  /\ Current.acts \in Seq(ToSet(Current.acts)) /\ Current.steps \in Seq(StepsOf(Current))
         /\ \A a \in ToSet(Current.acts) : a.steps \in Seq(StepsOf(Current))
         /\ \A step \in StepsOf(Current) : GoesToUrl(step)
<1>1. Current \in ToRun /\ config \in Setting
  BY TailIs DEF ToldInv, Current
<1>2. PICK c, s : c = config /\ c \in Setting /\ s = Current /\ s \in ToSet(c.scenarios)
  BY <1>1, ToRunIs
<1>3. PICK i \in DOMAIN c.scenarios : s = c.scenarios[i]
  BY <1>2 DEF ToSet
<1> QED
  BY <1>2, <1>3, SettingAssumption DEF GoesToUrl

LEMMA StepsIn ==
  ASSUME ToldInv, ActTypes, exec.stage \in {"probe", "steps"}
  PROVE  /\ Steps \in Seq(StepsOf(Current))
         /\ \A step \in StepsOf(Current) : GoesToUrl(step)
<1>1. exec.todo # <<>>
  BY DEF ToldInv
<1>2. PICK s, T : s = Current /\ T = StepsOf(s)
  OBVIOUS
<1>3. /\ s.acts \in Seq(ToSet(s.acts)) /\ s.steps \in Seq(T)
      /\ \A a \in ToSet(s.acts) : a.steps \in Seq(T)
      /\ \A step \in T : GoesToUrl(step)
  BY <1>1, <1>2, CurrentIs
<1>4. CASE IsMulti
  <2>1. exec.act \in 1..Len(s.acts)
    BY <1>2, <1>4 DEF ActTypes
  <2>2. s.acts[exec.act] \in ToSet(s.acts)
    BY <1>3, <2>1 DEF ToSet
  <2> QED
    BY <1>2, <1>3, <1>4, <2>2 DEF Steps
<1>5. CASE ~IsMulti
  BY <1>2, <1>3, <1>5 DEF Steps
<1> QED
  BY <1>2, <1>3, <1>4, <1>5

LEMMA ScenarioBrowses ==
  ASSUME Shape, PersonaInv, ToldInv, BrowserTypes, ActTypes, ScenarioStep
  PROVE  BrowserTypes' /\ (NoMishap \/ Mishap)
<1>0. NoMishap \/ Mishap
  BY DEF ScenarioStep, TakeScenario, BeginAct, Probe, LoggedIn, RunStep, StepsOver, NoMishap, webVars
<1> SUFFICES BrowserTypes'
  BY <1>0
<1>v. version \in DOMAIN App
  BY DEF Shape
<1>1. ASSUME UNCHANGED <<page, session>> \/ ClearCookies PROVE BrowserTypes'
  BY <1>1, LoggedOutTypes DEF BrowserTypes, ClearCookies
<1>2. CASE TakeScenario \/ BeginAct \/ LoggedIn \/ StepsOver
  BY <1>1, <1>2 DEF TakeScenario, BeginAct, LoggedIn, StepsOver, webVars
<1>3. CASE Probe
  <2>1. PICK T, steps, t : T = StepsOf(Current) /\ steps = Steps /\ t = exec.at
    OBVIOUS
  <2>2. steps \in Seq(T) /\ \A step \in T : GoesToUrl(step)
    BY <1>3, <2>1, StepsIn DEF Probe
  <2>3. t \in Target
    BY <1>3, <2>1 DEF Probe, Shape, ExecOK, NoExec
  <2>4. PICK url : url = FirstNav(steps, t) /\ url \in Url
    BY <2>2, <2>3, FirstNavIs
  <2>5. UNCHANGED <<page, session>> \/ Goto(url)
    BY <1>3, <2>1, <2>4 DEF Probe
  <2> QED
    BY <1>1, <1>v, <2>4, <2>5, GotoTypes
<1>4. CASE RunStep
  <2>1. PICK T, steps, i : T = StepsOf(Current) /\ steps = Steps /\ i = exec.step
    OBVIOUS
  <2>2. steps \in Seq(T) /\ \A step \in T : GoesToUrl(step)
    BY <1>4, <2>1, StepsIn DEF RunStep
  <2>3. i \in Nat \ {0} /\ i <= Len(steps)
    BY <1>4, <2>1 DEF RunStep, PersonaInv
  <2>4. PICK step : step = steps[i] /\ step \in T
    BY <2>2, <2>3
  <2>5. UNCHANGED <<page, session>> \/ (step.action = "navigate" /\ Goto(step.url))
    BY <1>4, <2>1, <2>4 DEF RunStep
  <2> QED
    BY <1>1, <1>v, <2>2, <2>4, <2>5, GotoTypes DEF GoesToUrl
<1> QED
  BY <1>2, <1>3, <1>4 DEF ScenarioStep

LEMMA ScenarioStages ==
  ASSUME Shape, ToldInv, ActTypes, ScenarioStep
  PROVE  /\ exec'.stage \in {"next", "act", "probe", "login", "steps", "threw"} /\ ActTypes'
         /\ login' = login \/ login' = NoLogin \/ login'.stage = "open"
<1>0. exec.stage \in {"next", "act", "probe", "login", "steps"}
  BY DEF ScenarioStep, TakeScenario, BeginAct, Probe, LoggedIn, RunStep, StepsOver
<1>1. DOMAIN exec = ExecFields
  BY <1>0, ExecRecords DEF Shape
<1>2. ASSUME exec'.stage \in {"act", "probe", "login", "steps"}, exec.stage \in {"act", "probe", "login", "steps"},
             exec'.todo = exec.todo, exec'.act = exec.act
      PROVE  ActTypes'
  BY <1>2 DEF ActTypes, IsMulti, Current
<1>3. ASSUME exec'.stage \in {"next", "threw"} PROVE ActTypes'
  BY <1>3 DEF ActTypes
<1>r. \A ok : /\ DOMAIN Report(exec, ok) = ExecFields /\ Report(exec, ok).stage = "next"
  BY <1>1 DEF Report, ExecFields
<1>4. CASE TakeScenario
  <2>1. exec.stage = "next" /\ exec.todo # <<>> /\ login' = login
    BY <1>4 DEF TakeScenario
  <2>2. CASE IsMulti
    <3>1. exec'.stage = "act" /\ exec'.act = 1 /\ exec'.todo = exec.todo
      BY <1>1, <1>4, <2>2 DEF TakeScenario, ExecFields
    <3>2. PICK acts : acts = Current.acts /\ acts \in Seq(ToSet(acts)) /\ acts # <<>>
      BY <2>1, <2>2, CurrentIs DEF IsMulti
    <3>3. 1 \in 1..Len(acts)
      BY <3>2
    <3> QED
      BY <2>1, <2>2, <3>1, <3>2, <3>3 DEF ActTypes, IsMulti, Current
  <2>3. CASE ~IsMulti
    <3>1. \/ exec'.stage = "next"
          \/ exec'.stage \in {"probe", "steps"} /\ exec'.act = 0 /\ exec'.todo = exec.todo
      BY <1>1, <1>4, <2>1, <2>3 DEF TakeScenario, Ready, ExecFields
    <3> QED
      BY <1>3, <2>1, <2>3, <3>1 DEF ActTypes, IsMulti, Current
  <2> QED
    BY <2>2, <2>3
<1>5. CASE BeginAct
  <2>1. exec.stage = "act" /\ login' = login
    BY <1>5 DEF BeginAct
  <2> DEFINE persona == PersonaOf(Current.acts[exec.act])
             target  == IF persona.target = None THEN RunTarget ELSE persona.target
             here    == [exec EXCEPT !.at = target,
                            !.who = IF persona.cred = None THEN config.creds[target] ELSE persona.cred,
                            !.form = IF persona.target = None THEN PathForm[RunTarget] ELSE UrlForm[target],
                            !.forced = exec.act > 1 /\ exec.prev.target = target
                                       /\ exec.prev.persona # persona.name,
                            !.late = page.arriving # <<>>,
                            !.prev = [persona |-> persona.name, target |-> target]]
             Kind(h) == DOMAIN h = ExecFields /\ h.todo = exec.todo /\ h.act = exec.act
  <2>2. \/ exec' = Report(exec, FALSE)
        \/ exec' = [here EXCEPT !.stage = "probe"]
        \/ exec' = Ready(here, "unauthenticated")
    BY <1>5 DEF BeginAct
  <2>3. Kind(here)
    BY <1>1 DEF ExecFields
  <2>4. ASSUME NEW h, Kind(h)
        PROVE  /\ LET e == [h EXCEPT !.stage = "probe"] IN Kind(e) /\ e.stage = "probe"
               /\ LET e == Ready(h, "unauthenticated") IN Kind(e) /\ e.stage = "steps"
    BY <2>4 DEF ExecFields, Ready
  <2> HIDE DEF here
  <2>5. \/ exec'.stage = "next"
        \/ exec'.stage \in {"probe", "steps"} /\ exec'.todo = exec.todo /\ exec'.act = exec.act
    <3>1. CASE exec' = Report(exec, FALSE)
      BY <1>r, <3>1
    <3>2. CASE exec' = [here EXCEPT !.stage = "probe"]
      <4>1. Kind(exec') /\ exec'.stage = "probe"
        BY <2>3, <2>4, <3>2
      <4> QED
        BY <4>1
    <3>3. CASE exec' = Ready(here, "unauthenticated")
      <4>1. Kind(exec') /\ exec'.stage = "steps"
        BY <2>3, <2>4, <3>3
      <4> QED
        BY <4>1
    <3> QED
      BY <2>2, <3>1, <3>2, <3>3
  <2> QED
    BY <1>2, <1>3, <2>1, <2>5
<1>6. CASE Probe
  <2>1. exec.stage = "probe"
    BY <1>6 DEF Probe
  <2>2. \/ exec'.stage = "threw"
        \/ exec'.stage \in {"login", "steps"} /\ exec'.todo = exec.todo /\ exec'.act = exec.act
    BY <1>1, <1>6 DEF Probe, Ready, ExecFields
  <2>3. login' = login \/ login'.stage = "open"
    BY <1>6 DEF Probe, newLogin
  <2> QED
    BY <1>2, <1>3, <2>1, <2>2, <2>3
<1>7. CASE LoggedIn
  <2>1. exec.stage = "login" /\ login' = NoLogin
    BY <1>7 DEF LoggedIn
  <2>2. CASE exec' = Ready(exec, "authenticated")
    <3>1. exec'.stage = "steps" /\ exec'.todo = exec.todo /\ exec'.act = exec.act
      BY <1>1, <2>2 DEF Ready, ExecFields
    <3> QED
      BY <1>2, <2>1, <3>1
  <2>3. CASE exec' = [Report(exec, FALSE) EXCEPT !.blocked = @ \/ ~IsMulti]
    <3>1. PICK e : e = Report(exec, FALSE) /\ DOMAIN e = ExecFields /\ e.stage = "next"
      BY <1>r
    <3>2. exec'.stage = "next"
      BY <2>3, <3>1 DEF ExecFields
    <3> QED
      BY <1>3, <2>1, <3>2
  <2> QED
    BY <1>7, <2>2, <2>3 DEF LoggedIn
<1>8. CASE RunStep
  <2>1. exec.stage = "steps" /\ login' = login
    BY <1>8 DEF RunStep
  <2>2. \/ exec' = Report(exec, FALSE)
        \/ exec' = [Binds(exec, Steps[exec.step]) EXCEPT !.step = @ + 1]
    BY <1>8 DEF RunStep
  <2>3. ASSUME NEW step, exec' = [Binds(exec, step) EXCEPT !.step = @ + 1]
        PROVE  exec'.stage = "steps" /\ exec'.todo = exec.todo /\ exec'.act = exec.act
    BY <1>1, <2>1, <2>3 DEF Binds, ExecFields
  <2> QED
    BY <1>2, <1>3, <1>r, <2>1, <2>2, <2>3
<1>9. CASE StepsOver
  <2>1. exec.stage = "steps" /\ login' = login
    BY <1>9 DEF StepsOver
  <2>2. CASE IsMulti /\ exec.act < Len(Current.acts) /\ exec' = [exec EXCEPT !.stage = "act", !.act = @ + 1, !.step = 0]
    <3>1. exec'.stage = "act" /\ exec'.todo = exec.todo /\ exec'.act = exec.act + 1
      BY <1>1, <2>2 DEF ExecFields
    <3>2. PICK acts : acts = Current.acts /\ Len(acts) \in Nat
      <4>1. exec.todo # <<>>
        BY <2>1 DEF ToldInv
      <4> QED
        BY <2>1, <4>1, CurrentIs
    <3>3. exec.act \in 1..Len(acts) /\ exec.act < Len(acts)
      BY <2>1, <2>2, <3>2 DEF ActTypes
    <3>4. exec.act + 1 \in 1..Len(acts)
      BY <3>2, <3>3
    <3> QED
      BY <2>1, <2>2, <3>1, <3>2, <3>4 DEF ActTypes, IsMulti, Current
  <2>3. CASE exec' = Report(exec, TRUE)
    BY <1>3, <1>r, <2>1, <2>3
  <2> QED
    BY <1>9, <2>2, <2>3 DEF StepsOver
<1> QED
  BY <1>4, <1>5, <1>6, <1>7, <1>8, <1>9 DEF ScenarioStep

\* What a step beside the browser does to the counters and the pages.
LEMMA OutsideTypes ==
  ASSUME Shape, CrawlShape, PersonaInv, CounterTypes, PageTypes, Elsewhere \/ Passes
  PROVE  /\ CounterTypes' /\ PageTypes'
         /\ login' = login \/ login'.stage \in {"none", "open"}
         /\ exec' = exec \/ exec'.stage \in {"none", "next"}
<1> USE BoundsAssumption
<1>1. NoMishap \/ Mishap
  BY DEF Elsewhere, Edit, Tick, AnalyzeStructure, SkipStructure, PhaseStructure, EmitAnalysis,
         RecordAnalysis, SkipBehavior, Emit, RecordBehavior, ClearStructure, ClearBehavior,
         Passes, AnalyzeBehavior, PhaseBehavior, RunCli, SharedContext, Collected, LoginTested,
         ScenariosTested, Crash, NoMishap, browserVars
<1>2. clock' = clock \/ (clock < MaxClock /\ clock' = clock + 1)
  BY DEF Elsewhere, Edit, Tick, AnalyzeStructure, SkipStructure, PhaseStructure, EmitAnalysis,
         RecordAnalysis, SkipBehavior, Emit, RecordBehavior, ClearStructure, ClearBehavior,
         Passes, AnalyzeBehavior, PhaseBehavior, RunCli, SharedContext, Collected, LoginTested,
         ScenariosTested, Crash, worldVars
<1>3. commands' = commands \/ (commands < MaxCommands /\ commands' = commands + 1)
  BY DEF Elsewhere, Edit, Tick, AnalyzeStructure, SkipStructure, PhaseStructure, EmitAnalysis,
         RecordAnalysis, SkipBehavior, Emit, RecordBehavior, ClearStructure, ClearBehavior, Started,
         Passes, AnalyzeBehavior, PhaseBehavior, RunCli, SharedContext, Collected, LoginTested,
         ScenariosTested, Crash, worldVars
<1>4. CounterTypes'
  BY <1>1, <1>2, <1>3 DEF CounterTypes, NoMishap, Mishap
<1>5. saved' \in {saved, {}} \/ (saved' = PageKeys(crawl.rawPages) /\ CrawlFound)
  <2>1. \/ saved' \in {saved, {}}
        \/ saved' = PageKeys(crawl.rawPages) /\ crawl.stage = "done"
    BY DEF Elsewhere, Edit, Tick, AnalyzeStructure, SkipStructure, PhaseStructure, EmitAnalysis,
           RecordAnalysis, SkipBehavior, Emit, RecordBehavior, ClearStructure, ClearBehavior,
           Passes, AnalyzeBehavior, PhaseBehavior, RunCli, SharedContext, Collected, LoginTested,
           ScenariosTested, Crash, layerVars
  <2>2. crawl.stage = "done" => CrawlFound
    BY DEF CrawlShape, CrawlOK, NoCrawl
  <2> QED
    BY <2>1, <2>2
<1>6. pages' \in {pages, saved, {}}
  BY DEF Elsewhere, Edit, Tick, AnalyzeStructure, SkipStructure, PhaseStructure, EmitAnalysis,
         RecordAnalysis, SkipBehavior, Emit, RecordBehavior, ClearStructure, ClearBehavior,
         Passes, AnalyzeBehavior, PhaseBehavior, RunCli, SharedContext, Collected, LoginTested,
         ScenariosTested, Crash, layerVars
<1>7. doubts' \subseteq doubts \cup {"structure", "behavior"}
  BY DEF Elsewhere, Edit, Tick, AnalyzeStructure, SkipStructure, PhaseStructure, EmitAnalysis,
         RecordAnalysis, SkipBehavior, Emit, RecordBehavior, ClearStructure, ClearBehavior,
         Passes, AnalyzeBehavior, PhaseBehavior, RunCli, SharedContext, Collected, LoginTested,
         ScenariosTested, Crash
<1>8. ASSUME CrawlFound PROVE PageKeys(crawl.rawPages) \subseteq {Key[u] : u \in Url}
  <2>1. PICK s : s = crawl.rawPages /\ s \in Seq(Url)
    BY <1>8 DEF CrawlFound
  <2>2. ToSet(s) \subseteq Url
    BY <2>1 DEF ToSet
  <2> QED
    BY <2>1, <2>2 DEF PageKeys
<1>9. PageTypes'
  BY <1>5, <1>6, <1>7, <1>8 DEF PageTypes
<1>10. login' = login \/ login'.stage \in {"none", "open"}
  BY ElsewhereKeeps, PassesKeeps DEF NoLogin
<1>11. exec' = exec \/ exec'.stage \in {"none", "next"}
  <2>1. CASE Elsewhere
    BY <2>1, ElsewhereKeeps
  <2>2. CASE Passes
    <3>1. exec' = exec \/ exec' = NoExec \/ exec' = newExec(runnable(config.scenarios))
      BY <2>2 DEF Passes, AnalyzeBehavior, PhaseBehavior, RunCli, SharedContext, Collected, LoginTested,
                  ScenariosTested, Crash
    <3> QED
      BY <3>1 DEF NoExec, newExec
  <2> QED
    BY <2>1, <2>2
<1> QED
  BY <1>4, <1>9, <1>10, <1>11

LEMMA OutsideBrowses ==
  ASSUME BrowserTypes, Shape, Elsewhere \/ Passes
  PROVE  BrowserTypes'
<1>1. CASE Elsewhere
  BY <1>1, ElsewhereKeeps DEF BrowserTypes
<1>2. CASE Passes
  <2>1. session \in [Target -> People] /\ LoggedOut \in [Target -> People]
    BY LoggedOutTypes DEF BrowserTypes
  <2>2. OpenPage(session) \/ OpenPage(LoggedOut)
    BY <1>2 DEF Passes, AnalyzeBehavior, PhaseBehavior, RunCli, SharedContext, Collected, LoginTested,
                ScenariosTested, Crash
  <2> QED
    BY <2>1, <2>2, NoPageTypes
<1> QED
  BY <1>1, <1>2

LEMMA TypesAction ==
  ASSUME Shape, CrawlShape, PersonaInv, ToldInv, TypesInv, [Next]_vars
  PROVE  TypesInv'
<1>t. BrowserTypes /\ CounterTypes /\ StageTypes /\ ActTypes /\ PageTypes
  BY DEF TypesInv
<1>a. ASSUME exec' = exec \/ exec'.stage \in {"none", "next"} PROVE ActTypes'
  BY <1>a, <1>t DEF ActTypes, IsMulti, Current
<1>1. CASE Elsewhere \/ Passes
  <2>1. CounterTypes' /\ PageTypes' /\ BrowserTypes'
    BY <1>1, <1>t, OutsideTypes, OutsideBrowses
  <2>2. /\ login' = login \/ login'.stage \in {"none", "open"}
        /\ exec' = exec \/ exec'.stage \in {"none", "next"}
    BY <1>1, <1>t, OutsideTypes
  <2> QED
    BY <1>a, <1>t, <2>1, <2>2 DEF TypesInv, StageTypes
<1>2. CASE UNCHANGED vars
  BY <1>2, <1>t DEF vars, browserVars, worldVars, layerVars, TypesInv, BrowserTypes, CounterTypes,
     StageTypes, ActTypes, PageTypes, IsMulti, Current
<1>3. CASE BrowserStep
  <2>1. UNCHANGED <<clock, commands, saved, pages, doubts>> /\ cmd.kind = "behavior"
    BY <1>3 DEF BrowserStep, layerVars
  <2>m. ASSUME NoMishap \/ Mishap PROVE CounterTypes'
    BY <2>m, <1>t, <2>1, BoundsAssumption DEF CounterTypes, NoMishap, Mishap
  <2>p. PageTypes'
    BY <1>t, <2>1 DEF PageTypes
  <2>2. CASE CrawlStep(config.creds[RunTarget]) /\ UNCHANGED <<login, exec, config>>
    <3>1. BrowserTypes' /\ (NoMishap \/ Mishap)
      BY <1>t, <2>2, CrawlTypes DEF Shape, CrawlShape
    <3> QED
      BY <1>a, <1>t, <2>2, <2>m, <2>p, <3>1 DEF TypesInv, StageTypes
  <2>3. CASE LoginStep /\ UNCHANGED <<crawl, exec, config>>
    <3>1. /\ BrowserTypes' /\ (NoMishap \/ Mishap)
          /\ login'.stage \in {"open", "form", "submitted", "pin", "pin submitted", "done"}
      BY <1>t, <2>3, LoginTypes
    <3> QED
      BY <1>a, <1>t, <2>3, <2>m, <2>p, <3>1 DEF TypesInv, StageTypes
  <2>4. CASE ScenarioStep
    <3>1. BrowserTypes' /\ (NoMishap \/ Mishap)
      BY <1>t, <2>4, ScenarioBrowses
    <3>2. /\ exec'.stage \in {"next", "act", "probe", "login", "steps", "threw"} /\ ActTypes'
          /\ login' = login \/ login' = NoLogin \/ login'.stage = "open"
      BY <1>t, <2>4, ScenarioStages
    <3>3. NoLogin.stage = "none"
      BY DEF NoLogin
    <3> QED
      BY <1>t, <2>m, <2>p, <3>1, <3>2, <3>3 DEF TypesInv, StageTypes
  <2>5. CASE AppArrives /\ UNCHANGED <<crawl, login, exec, config>>
    <3>1. page.arriving # <<>> /\ UNCHANGED mishaps
      BY <2>5 DEF AppArrives
    <3>2. PICK a : a = page.arriving[1] /\ AnswerIn(a)
      <4>1. page.arriving = <<page.arriving[1]>>
        BY <3>1 DEF Shape, PageOK
      <4>2. page.arriving[1] \in ToSet(page.arriving)
        BY <4>1, ToSetOfOne
      <4> QED
        BY <1>t, <4>2 DEF BrowserTypes
    <3>3. page' = [at |-> a.url, arriving |-> <<>>] /\ a.url \in Url
      BY <2>5, <3>2 DEF AppArrives, AnswerIn
    <3>4. session' \in [Target -> People]
      BY <1>t, <2>5, <3>2 DEF AppArrives, AnswerIn, BrowserTypes
    <3>5. BrowserTypes'
      BY <3>3, <3>4, ShownTypes
    <3> QED
      BY <1>a, <1>t, <2>5, <2>m, <2>p, <3>1, <3>5 DEF TypesInv, StageTypes, NoMishap
  <2> QED
    BY <1>3, <2>2, <2>3, <2>4, <2>5 DEF BrowserStep
<1> QED
  BY <1>1, <1>2, <1>3, NextParts

\* TypeOK: the browser is on a page of the application, on the cookies of its
\* users; commands, crawl, login and scenarios are at one of their stages.
THEOREM AcquisitionTypeOK == Spec => []TypeOK
<1>1. Init => TypesInv
  <2> SUFFICES ASSUME Init PROVE TypesInv
    OBVIOUS
  <2>1. BrowserTypes
    BY LoggedOutTypes, ToSetOfOne DEF Init, NoPage, BrowserTypes
  <2>2. CounterTypes
    BY BoundsAssumption DEF Init, CounterTypes
  <2>3. StageTypes /\ ActTypes /\ PageTypes
    BY DEF Init, NoLogin, NoExec, StageTypes, ActTypes, PageTypes
  <2> QED
    BY <2>1, <2>2, <2>3 DEF TypesInv
<1>2. TypesInv /\ (Shape /\ CrawlShape) /\ (PersonaInv /\ ToldInv) /\ [Next]_vars => TypesInv'
  BY TypesAction
<1>3. ASSUME Shape, CrawlShape, PagesInv, TypesInv PROVE TypeOK
  <2>1. version \in DOMAIN App
    BY <1>3 DEF Shape
  <2>2. page.at \in Url \cup {NoPage.at} /\ session \in [Target -> People]
    BY <1>3 DEF TypesInv, BrowserTypes
  <2>3. Len(page.arriving) <= 1
    <3>1. page.arriving = <<>> \/ \E a : page.arriving = <<a>>
      BY <1>3 DEF Shape, PageOK
    <3>2. CASE page.arriving = <<>>
      <4>1. Len(page.arriving) = 0
        BY <3>2
      <4> QED
        BY <4>1
    <3>3. CASE \E a : page.arriving = <<a>>
      <4>1. PICK a : page.arriving = <<a>>
        BY <3>3
      <4>2. Len(page.arriving) = 1
        BY <4>1
      <4> QED
        BY <4>2
    <3> QED
      BY <3>1, <3>2, <3>3
  <2>4. cmd.kind \in {"idle", "structure", "behavior"}
    BY <1>3 DEF Shape, CmdOK, Idle
  <2>5. crawl.stage \in {"none", "login", "base", "scenario", "discover", "click", "done", "failed"}
    BY <1>3 DEF CrawlShape, CrawlOK, CrawlFound, NoCrawl
  <2>6. \A p \in DOMAIN crawledAt : crawledAt[p] <= clock
    BY <1>3 DEF PagesInv
  <2>7. CounterTypes /\ StageTypes /\ PageTypes
    BY <1>3 DEF TypesInv
  <2> QED
    BY <2>1, <2>2, <2>3, <2>4, <2>5, <2>6, <2>7 DEF TypeOK, CounterTypes, StageTypes, PageTypes, People
<1> QED
  BY <1>1, <1>2, <1>3, FreshnessHolds, CrawlShapeHolds, ToldHolds, PTL DEF Spec
===============================================================================
