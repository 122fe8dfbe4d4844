--------------------------------- MODULE Login ---------------------------------
(***************************************************************************)
(* Form login with an optional second factor (services/browser/login.ts).  *)
(* Success is read off the URL: the page has left the login path, or it    *)
(* shows the page for the one-time PIN.  The wait for it is bounded, and   *)
(* the answer of the application may come after it.                        *)
(***************************************************************************)
EXTENDS Web

CONSTANTS SuccessUrls  \* <<>>, or <<the URLs successUrlPattern matches>>

\* Who configures the pattern names pages a login leads to, not those it starts
\* or waits on.
ASSUME SuccessAssumption ==
    SuccessUrls # <<>> =>
        /\ DOMAIN SuccessUrls = {1}
        /\ SuccessUrls[1] \cap TwoFactorLike = {}
        /\ \A t \in Target : SignIn[t] \notin SuccessUrls[1]
        /\ \A v \in DOMAIN App : SuccessUrls[1] \cap ToSet(App[v].twoFactor) = {}

VARIABLE login

NoLogin == [stage |-> "none"]

\* executeLoginScenario and, with a scenario of its own making, authenticate.
newLogin(target, form, who, twoFactor) ==
    [stage |-> "open", target |-> target, form |-> form, who |-> who, twoFactor |-> twoFactor,
     ok |-> FALSE]

Judged(ok) == login' = [login EXCEPT !.stage = "done", !.ok = ok]

LoginOpens ==
    /\ login.stage = "open"
    /\ \/ Mishap /\ Judged(FALSE) /\ UNCHANGED <<page, session>>
       \/ /\ NoMishap
          /\ Goto(login.form.url)
          /\ login' = [login EXCEPT !.stage = "form"]
    /\ UNCHANGED version

\* Fill both fields and submit; where the form is not, nothing can be filled.
LoginSubmits ==
    /\ login.stage = "form"
    /\ \/ Mishap /\ Judged(FALSE) /\ UNCHANGED page
       \/ page.at # SignIn[login.target] /\ NoMishap /\ Judged(FALSE) /\ UNCHANGED page
       \/ /\ page.at = SignIn[login.target]
          /\ \/ NoMishap /\ page' = [page EXCEPT !.arriving = Answer(login.target, login.who)]
             \/ Mishap /\ UNCHANGED page  \* the request is lost
          /\ login' = [login EXCEPT !.stage = "submitted"]
    /\ UNCHANGED <<version, session>>

\* waitForUrl: the predicate holds, nothing will come, or it takes too long.
Waited(holds) ==
    \/ (holds \/ page.arriving = <<>>) /\ NoMishap
    \/ ~holds /\ Mishap

\* Faulty variant: the PIN page is not recognized.
AwaitsNoPin(url) == FALSE
AwaitsPin(url) == login.twoFactor /\ url \in TwoFactorLike

\* The PIN page comes before the login path, below which it may live.
LoginJudges ==
    /\ login.stage = "submitted"
    /\ Waited(page.at \notin login.form.path \/ page.at \in TwoFactorLike)
    /\ IF AwaitsPin(page.at) THEN login' = [login EXCEPT !.stage = "pin"]
       ELSE Judged(page.at \notin login.form.path)
    /\ UNCHANGED <<version, page, session>>

\* runTwoFactorStep: the command, the PIN in its output, the field, the click.
PinSubmits ==
    /\ login.stage = "pin"
    /\ \/ Mishap /\ Judged(FALSE) /\ UNCHANGED page
       \/ /\ NoMishap
          /\ page' = [page EXCEPT !.arriving = Welcome(login.target, login.who)]
          /\ login' = [login EXCEPT !.stage = "pin submitted"]
    /\ UNCHANGED <<version, session>>

Succeeded(url) ==
    IF SuccessUrls = <<>> THEN url \notin login.form.path \cup TwoFactorLike
    ELSE url \in SuccessUrls[1]

PinJudges ==
    /\ login.stage = "pin submitted"
    /\ Waited(Succeeded(page.at))
    /\ Judged(Succeeded(page.at))
    /\ UNCHANGED <<version, page, session>>

LoginStep == LoginOpens \/ LoginSubmits \/ LoginJudges \/ PinSubmits \/ PinJudges
================================================================================
