------------------------------- MODULE Scenarios -------------------------------
(***************************************************************************)
(* The login test and the scenario stage of a behavior run:                *)
(* runLoginIfDetected and runScenarioStage (cli/commands/run.ts),          *)
(* executeScenarios and runMultiAct (pipeline/executeScenarios.ts),        *)
(* ensureAuthenticated (services/browser/session.ts) and executeSteps      *)
(* (services/browser/scenarioExec.ts).  The scenarios share one page and   *)
(* its cookies.                                                            *)
(*                                                                         *)
(* A scenario has steps, or acts of personas; a persona may name a target, *)
(* a way to authenticate and credentials of its own.  A step is what it    *)
(* does to the page, the placeholders it needs and the variable it binds;  *)
(* "raw" is what it navigates to as it is written, "url" with the values   *)
(* of its placeholders.  Clicks stay on the page, and whether an element   *)
(* is there is up to the application (a mishap).                           *)
(***************************************************************************)
EXTENDS Login

CONSTANTS
    RunTarget,   \* the selected target
    Configured,  \* targets with auth and credentials in the configuration
    EnvVars,     \* placeholders the environment resolves
    Unset,       \* credentials whose environment variables are not set
    None

ASSUME TargetAssumption == RunTarget \in Target /\ Configured \subseteq Target

VARIABLES config, exec

NoExec == [stage |-> "none"]

AllSteps(s) == IF s.acts # <<>> THEN FlattenSeq([i \in DOMAIN s.acts |-> s.acts[i].steps])
               ELSE s.steps

isLoginScenario(s) ==
    \E i \in DOMAIN AllSteps(s) : AllSteps(s)[i].raw = PathForm[RunTarget].url

\* The first page a sequence of steps navigates to, its placeholders unresolved;
\* "/" of the target by default.
FirstNav(steps, target) ==
    LET i == SelectInSeq(steps, LAMBDA st : st.action = "navigate")
    IN IF i = 0 THEN BaseUrl[target] ELSE steps[i].raw

runnable(scenarios) == Only(scenarios, {s \in ToSet(scenarios) : ~isLoginScenario(s)})

\* What ScenarioSchema lets through.
ValidScenario(s) ==
    /\ (s.steps = <<>>) # (s.acts = <<>>)
    /\ \A i \in DOMAIN s.acts : s.acts[i].persona # None =>
          \E p \in s.personas : p.name = s.acts[i].persona
    /\ \A i \in DOMAIN AllSteps(s) :
          AllSteps(s)[i].action = "capture" => AllSteps(s)[i].var # None

\* The stage: what is left, where it is, the variables of all scenarios and of
\* the acts, and the findings.
newExec(scenarios) ==
    [stage |-> "next", todo |-> scenarios, act |-> 0, step |-> 0,
     shared |-> EnvVars, vars |-> EnvVars, blocked |-> FALSE,
     prev |-> [persona |-> None, target |-> None], at |-> RunTarget,
     form |-> PathForm[RunTarget], who |-> Nobody,
     asked |-> "none", late |-> FALSE, forced |-> FALSE, findings |-> <<>>]

Current == Head(exec.todo)
IsMulti == Current.acts # <<>>
Steps == IF IsMulti THEN Current.acts[exec.act].steps ELSE Current.steps

Report(e, ok) ==
    [e EXCEPT !.findings = Append(@, [scenario |-> Current.id, ok |-> ok]),
              !.todo = Tail(@), !.stage = "next", !.act = 0, !.step = 0]

\* clearCookies wipes the whole context; an answer under way is not stopped.
ClearCookies == session' = LoggedOut /\ UNCHANGED page

\* The steps of the scenario or act start.
Ready(e, asked) ==
    [e EXCEPT !.stage = "steps", !.step = 1, !.asked = asked]

-------------------------------------------------------------------------------
(* executeScenarios.                                                         *)

TakeScenario ==
    /\ exec.stage = "next" /\ exec.todo # <<>>
    /\ LET single == [exec EXCEPT !.at = RunTarget, !.form = PathForm[RunTarget],
                                 !.who = config.creds[RunTarget], !.act = 0, !.forced = FALSE,
                                 !.late = page.arriving # <<>>]
       IN \/ /\ IsMulti
             /\ exec' = [exec EXCEPT !.stage = "act", !.act = 1, !.vars = exec.shared,
                                     !.prev = [persona |-> None, target |-> None]]
             /\ UNCHANGED <<page, session>>
          \/ /\ ~IsMulti /\ Current.auth = "authenticated" /\ exec.blocked
             /\ exec' = [exec EXCEPT !.todo = Tail(@)]
             /\ UNCHANGED <<page, session>>
          \/ /\ ~IsMulti /\ Current.auth = "authenticated" /\ ~exec.blocked
             /\ exec' = [single EXCEPT !.stage = "probe"]
             /\ UNCHANGED <<page, session>>
          \/ /\ ~IsMulti /\ Current.auth = "unauthenticated"
             /\ exec' = Ready(single, "unauthenticated")
             /\ ClearCookies
          \/ /\ ~IsMulti /\ Current.auth = None
             /\ exec' = Ready(single, "none")
             /\ UNCHANGED <<page, session>>
    /\ UNCHANGED <<version, mishaps, config, login>>

ScenariosOver == exec.stage = "next" /\ exec.todo = <<>>

-------------------------------------------------------------------------------
(* runMultiAct.                                                              *)

NoPersona == [name |-> None, target |-> None, auth |-> None, cred |-> None]

PersonaOf(act) ==
    IF act.persona = None THEN NoPersona
    ELSE CHOOSE p \in Current.personas : p.name = act.persona

\* The first value that is given.
FirstGiven(values) == SelectSeq(values, LAMBDA v : v # None)[1]

\* Faulty variant: an identity is established only once per scenario.
ForcesNothing(e, persona, target) == FALSE

\* A new identity on the target of the act before.
ForcesReauth(e, persona, target) ==
    e.act > 1 /\ target = e.prev.target /\ persona.name # e.prev.persona

\* Only the target a persona names comes with its loginUrl.
BeginAct ==
    /\ exec.stage = "act"
    /\ LET persona == PersonaOf(Current.acts[exec.act])
           target  == IF persona.target = None THEN RunTarget ELSE persona.target
           auth    == FirstGiven(<<persona.auth, Current.auth, "authenticated">>)
           who     == IF persona.cred = None THEN config.creds[target] ELSE persona.cred
           here    == [exec EXCEPT !.at = target, !.who = who,
                                   !.form = IF persona.target = None THEN PathForm[RunTarget]
                                            ELSE UrlForm[target],
                                   !.forced = exec.act > 1 /\ exec.prev.target = target
                                              /\ exec.prev.persona # persona.name,
                                   !.late = page.arriving # <<>>,
                                   !.prev = [persona |-> persona.name, target |-> target]]
       IN \/ /\ \/ target \notin Configured /\ persona.target # None
                \/ auth = "authenticated" /\ who = Unset
             /\ exec' = Report(exec, FALSE)
             /\ UNCHANGED <<page, session>>
          \/ /\ target \in Configured \/ persona.target = None
             /\ auth = "authenticated" /\ who # Unset
             /\ exec' = [here EXCEPT !.stage = "probe"]
             /\ IF ForcesReauth(exec, persona, target) THEN ClearCookies
                ELSE UNCHANGED <<page, session>>
          \/ /\ target \in Configured \/ persona.target = None
             /\ auth = "unauthenticated"
             /\ exec' = Ready(here, "unauthenticated")
             /\ ClearCookies
    /\ UNCHANGED <<version, mishaps, config, login>>

-------------------------------------------------------------------------------
(* ensureAuthenticated: the first page of the steps is the probe, and a page *)
(* on the loginPath, or "/login", the sign that there is no session.         *)

Probe ==
    /\ exec.stage = "probe"
    /\ \/ /\ Mishap  \* goto throws out of the whole stage
          /\ exec' = [exec EXCEPT !.stage = "threw"]
          /\ UNCHANGED <<page, session, login>>
       \/ /\ NoMishap
          /\ Goto(FirstNav(Steps, exec.at))
          /\ IF page'.at \in PathForm[exec.at].path
             THEN /\ login' = newLogin(exec.at, exec.form, exec.who, config.twoFactor)
                  /\ exec' = [exec EXCEPT !.stage = "login"]
             ELSE exec' = Ready(exec, "authenticated") /\ UNCHANGED login
    /\ UNCHANGED <<version, config>>

\* A failed login blocks the later authenticated scenarios, or ends the acts.
LoggedIn ==
    /\ exec.stage = "login" /\ login.stage = "done"
    /\ exec' = IF login.ok THEN Ready(exec, "authenticated")
               ELSE [Report(exec, FALSE) EXCEPT !.blocked = @ \/ ~IsMulti]
    /\ login' = NoLogin
    /\ UNCHANGED <<webVars, config>>

-------------------------------------------------------------------------------
(* executeSteps.                                                             *)

\* A single scenario binds its variables for all that follow.
Binds(e, step) ==
    IF step.action # "capture" THEN e
    ELSE IF IsMulti THEN [e EXCEPT !.vars = @ \cup {step.var}]
    ELSE [e EXCEPT !.shared = @ \cup {step.var}]

Resolved(step) == step.needs \subseteq (IF IsMulti THEN exec.vars ELSE exec.shared)

RunStep ==
    /\ exec.stage = "steps" /\ exec.step <= Len(Steps)
    /\ LET step == Steps[exec.step]
           next == [Binds(exec, step) EXCEPT !.step = @ + 1]
       IN \/ /\ ~Resolved(step) /\ NoMishap
             /\ exec' = Report(exec, FALSE) /\ UNCHANGED <<page, session>>
          \/ /\ Resolved(step) /\ Mishap  \* a throw, a condition not met, a value not found
             /\ exec' = Report(exec, FALSE) /\ UNCHANGED <<page, session>>
          \/ /\ Resolved(step) /\ NoMishap
             /\ exec' = next
             /\ IF step.action = "navigate" THEN Goto(step.url) ELSE UNCHANGED <<page, session>>
    /\ UNCHANGED <<version, config, login>>

StepsOver ==
    /\ exec.stage = "steps" /\ exec.step > Len(Steps)
    /\ exec' = IF IsMulti /\ exec.act < Len(Current.acts)
               THEN [exec EXCEPT !.stage = "act", !.act = @ + 1, !.step = 0]
               ELSE Report(exec, TRUE)
    /\ UNCHANGED <<webVars, config, login>>

ScenarioStep == TakeScenario \/ BeginAct \/ Probe \/ LoggedIn \/ RunStep \/ StepsOver
================================================================================
