---------------------------------- MODULE Web ----------------------------------
(***************************************************************************)
(* The application under test as the browser sees it, and the one page the *)
(* behavior CLI drives at a time (PageLike of services/browser/crawler.ts).*)
(* The application is external: what a URL shows, whom it lets in and when *)
(* it answers is taken from how the code uses it.                          *)
(*                                                                         *)
(* URLs are values.  An answer to a login arrives some time after the      *)
(* click, as the cookie and a client-side navigation; a goto in between    *)
(* drops the navigation and may or may not keep the cookie.                *)
(***************************************************************************)
EXTENDS Integers, Sequences, SequencesExt

CONSTANTS
    App,            \* the versions of the application, a sequence
    Url,            \* every URL that occurs
    Key,            \* function: URL -> URL without query, fragment, trailing slash
    Target,         \* targets of the configuration
    TargetOf,       \* function: URL -> its target, or the external world
    BaseUrl, HomeUrl,  \* functions: target -> URL
    SignIn,         \* function: target -> URL of the page with its login form
    PathForm, UrlForm,  \* functions: target -> the login as configured, see below
    TwoFactorLike,  \* URLs that look like a page for a one-time PIN
    Logout,         \* URLs that look like a logout, and end the session
    Asset, Excluded, \* URLs of assets, URLs the configuration excludes
    Destructive,    \* labels that must not be clicked
    Nobody,         \* no session
    MaxMishaps      \* bound of the model: loads that fail, answers that are lost

\* Where a login goes and the URLs it is recognized by: those on or below the
\* path, on any host.  PathForm is the loginPath, or "/login", below the base
\* URL; UrlForm is the loginUrl where there is one, or else the same.
Form == [url : Url, path : SUBSET Url]

\* Having no session is nobody's name; there is one page for the PIN, or none.
\* That what is configured is the form of the application is not assumed.
ASSUME WebAssumption ==
    /\ {PathForm, UrlForm} \subseteq [Target -> Form]
    /\ Len(App) \in Nat \ {0} /\ DOMAIN App = 1..Len(App)
    /\ \A v \in DOMAIN App :
        /\ Nobody \notin App[v].users
        /\ App[v].twoFactor # <<>> => \E url \in Url : App[v].twoFactor = <<url>>

\* URLs lead to URLs.  Where a request ends nothing redirects further, whoever
\* asks; who has a session asks for a page of its target.
ASSUME PagesAssumption ==
    /\ Key \in [Url -> Url]
    /\ \A t \in Target :
          {BaseUrl[t], HomeUrl[t]} \subseteq {url \in Url : TargetOf[url] = t} /\ SignIn[t] \in Url
    /\ \A v \in DOMAIN App : \A url \in Url :
          LET shown == App[v].pages[url]
              last  == App[v].pages[shown.lands]
          IN /\ shown.links \in Seq(Url) /\ shown.clicks \in Seq(ToSet(shown.clicks))
             /\ shown.protected => TargetOf[url] \in Target
             /\ shown.lands \in Url /\ last.lands = shown.lands
             /\ last.protected => shown.protected /\ TargetOf[shown.lands] = TargetOf[url]
    /\ \A v \in DOMAIN App : \A t \in Target :
          LET form == App[v].pages[SignIn[t]]
          IN ~form.protected /\ form.lands = SignIn[t]

VARIABLES
    version, \* of the application
    page,    \* [at, arriving]: page.url(), and the answer under way if any
    session, \* function: target -> who is logged in, by the cookies of the context
    mishaps

app == App[version]

webVars == <<version, page, session, mishaps>>

NoPage == [at |-> "about:blank", arriving |-> <<>>]
LoggedOut == [t \in Target |-> Nobody]

\* The elements of a sequence that are in a set, in their order: SelectSeq, in a
\* form lemmas can be proved about.
Only(seq, set) ==
    LET kept[n \in 0..Len(seq)] ==
            IF n = 0 THEN <<>>
            ELSE IF seq[n] \in set THEN Append(kept[n - 1], seq[n]) ELSE kept[n - 1]
    IN kept[Len(seq)]

\* Where a request ends after all redirects.
Lands(url, who) ==
    IF app.pages[url].protected /\ who[TargetOf[url]] = Nobody
    THEN SignIn[TargetOf[url]] ELSE app.pages[url].lands

\* A visit to a logout page ends the session.
SessionAfter(url, who) ==
    IF url \in Logout THEN [who EXCEPT ![TargetOf[url]] = Nobody] ELSE who

\* The cookie of an answer under way may have been set already.
Granted(answers) ==
    {session} \cup {[session EXCEPT ![a.target] = a.who] : a \in {a \in ToSet(answers) : a.who # Nobody}}

Goto(url) ==
    \E who \in Granted(page.arriving) :
        /\ page' = [at |-> Lands(url, who), arriving |-> <<>>]
        /\ session' = SessionAfter(Lands(url, who), who)

\* One more load failed, answer lost or wait too long.
Mishap == mishaps < MaxMishaps /\ mishaps' = mishaps + 1
NoMishap == UNCHANGED mishaps

\* A fresh page: browser.newPage() isolates cookies, a context shares them.
OpenPage(cookies) == page' = NoPage /\ session' = cookies

\* A user is let in: the cookie and the home page.
Welcome(target, who) ==
    IF who \in app.users THEN <<[url |-> HomeUrl[target], target |-> target, who |-> who]>>
    ELSE <<>>

\* The answer to submitted credentials: a second factor, the home page, or
\* none when they are wrong.
Answer(target, who) ==
    IF who \in app.users /\ app.twoFactor # <<>>
    THEN <<[url |-> app.twoFactor[1], target |-> target, who |-> Nobody]>>
    ELSE Welcome(target, who)

\* The answer arrives: the session is there and the page moves on.
AppArrives ==
    /\ page.arriving # <<>>
    /\ LET answer == page.arriving[1]
       IN /\ page' = [at |-> answer.url, arriving |-> <<>>]
          /\ session' = IF answer.who = Nobody THEN session
                        ELSE [session EXCEPT ![answer.target] = answer.who]
    /\ UNCHANGED <<version, mishaps>>
================================================================================
