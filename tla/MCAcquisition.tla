----------------------------- MODULE MCAcquisition -----------------------------
(***************************************************************************)
(* An application with a page behind a login, a link that redirects, two   *)
(* spellings of one page, a clickable element and a logout; a target that  *)
(* signs in on the same path of another host, and one that signs in        *)
(* elsewhere; two versions of its code.                                    *)
(***************************************************************************)
EXTENDS Acquisition, TLC

MCUrl == {"/", "/login", "/home", "/a", "/a?x", "/c", "/d", "/{id}", "/pin", "/logout",
          "adm/", "adm/login", "erp/", "erp/login", "sso/signin"}
MCKey == [u \in MCUrl |-> IF u = "/a?x" THEN "/a" ELSE u]
MCTarget == {"app", "adm", "erp"}
MCTargetOf == [u \in MCUrl |-> CASE u \in {"adm/", "adm/login"} -> "adm"
                                 [] u \in {"erp/", "erp/login"} -> "erp"
                                 [] u = "sso/signin" -> "another host"
                                 [] OTHER -> "app"]
MCBaseUrl == [app |-> "/", adm |-> "adm/", erp |-> "erp/"]
MCHomeUrl == [app |-> "/home", adm |-> "adm/", erp |-> "erp/"]
MCSignIn == [app |-> "/login", adm |-> "adm/login", erp |-> "sso/signin"]

\* Every target has the same loginPath, the last one a loginUrl as well.
LoginForm(url) == [url |-> url, path |-> {"/login", "adm/login", "erp/login"}]
MCPathForm == [app |-> LoginForm("/login"), adm |-> LoginForm("adm/login"), erp |-> LoginForm("erp/login")]
MCUrlForm == [MCPathForm EXCEPT !.erp = [url |-> "sso/signin", path |-> {"sso/signin"}]]

Page(protected, lands, links, clicks) ==
    [protected |-> protected, lands |-> lands, links |-> links, clicks |-> clicks]
Button(label, goes) == [plain |-> TRUE, label |-> label, named |-> TRUE, goes |-> goes]

Site ==
    "/" :> Page(FALSE, "/", <<"/c", "/a?x", "/logout", "adm/">>, <<>>)
    @@ "/login" :> Page(FALSE, "/login", <<>>, <<>>)
    @@ "/home" :> Page(TRUE, "/", <<>>, <<>>)
    @@ "/a" :> Page(TRUE, "/a", <<"/c">>, <<>>)
    @@ "/a?x" :> Page(TRUE, "/a?x", <<"/c">>, <<>>)
    @@ "/c" :> Page(FALSE, "/c", <<>>, <<Button("delete", "/logout"), Button("open", "/d")>>)
    @@ "/d" :> Page(FALSE, "/d", <<"/">>, <<>>)
    @@ "/{id}" :> Page(FALSE, "/{id}", <<>>, <<>>)
    @@ "/pin" :> Page(FALSE, "/pin", <<>>, <<>>)
    @@ "/logout" :> Page(FALSE, "/", <<>>, <<>>)
    @@ "adm/" :> Page(TRUE, "adm/", <<>>, <<>>)
    @@ "adm/login" :> Page(FALSE, "adm/login", <<>>, <<>>)
    @@ "erp/" :> Page(TRUE, "erp/", <<>>, <<>>)
    @@ "erp/login" :> Page(FALSE, "erp/login", <<>>, <<>>)
    @@ "sso/signin" :> Page(FALSE, "sso/signin", <<>>, <<>>)

File(hash) == [hash |-> hash, watched |-> TRUE]

Version1 ==
    [pages |-> Site, users |-> {"ann", "bob"}, twoFactor |-> <<"/pin">>,
     files |-> "src" :> ("x" :> File(1) @@ "notes" :> [hash |-> 1, watched |-> FALSE])
               @@ "lib" :> ("y" :> File(1)),
     routes |-> "src" :> {"/", "/a"} @@ "lib" :> {"/c"}]

\* One file has changed, a route has come, and there is no second factor.
Version2 ==
    [Version1 EXCEPT !.twoFactor = <<>>, !.files["src"]["x"] = File(2), !.routes["lib"] = {"/c", "/d"}]

MCApp == <<Version1, Version2>>

Go(url) == [action |-> "navigate", raw |-> url, url |-> url, needs |-> {}, var |-> None]
Fill(raw, var, url) == [action |-> "navigate", raw |-> raw, url |-> url, needs |-> {var}, var |-> None]
Capture(var) == [action |-> "capture", raw |-> None, url |-> None, needs |-> {}, var |-> var]
Type(var) == [action |-> "fill", raw |-> None, url |-> None, needs |-> {var}, var |-> None]

Single(id, auth, steps) == [id |-> id, auth |-> auth, acts |-> <<>>, steps |-> steps, personas |-> {}]
Persona(name, target, cred) == [name |-> name, target |-> target, auth |-> None, cred |-> cred]

LoginScenario == Single("login", None, <<Go("/login")>>)
Owner == Single("owner", "authenticated", <<Go("/a"), Capture("id")>>)
Guest == Single("guest", "unauthenticated", <<Go("/"), Type("id")>>)
Later == Single("later", "authenticated", <<Go("/")>>)
Handover ==
    [id |-> "handover", auth |-> "authenticated", steps |-> <<>>,
     personas |-> {Persona("ann", None, "ann"), Persona("bob", None, "bob"),
                   Persona("root", "adm", None)},
     acts |-> <<[persona |-> "ann", steps |-> <<Go("/a")>>],
                [persona |-> "bob", steps |-> <<Go("/a")>>],
                [persona |-> "root", steps |-> <<Go("adm/")>>]>>]

\* The second persona starts at a page named by a placeholder; the last two meet
\* a login that is not where the probe looks for it.
Review ==
    [id |-> "review", auth |-> "authenticated", steps |-> <<>>,
     personas |-> {Persona("ann", None, "ann"), Persona("bob", None, "bob"),
                   Persona("root", "erp", "ann"), Persona("staff", "erp", "bob")},
     acts |-> <<[persona |-> "ann", steps |-> <<Go("/a"), Capture("id")>>],
                [persona |-> "bob", steps |-> <<Fill("/{id}", "id", "/a")>>],
                [persona |-> "root", steps |-> <<Go("erp/")>>],
                [persona |-> "staff", steps |-> <<Go("erp/")>>]>>]

Creds == [app |-> "ann", adm |-> "bob", erp |-> "bob"]

MCSetting ==
    {[creds |-> Creds, loginPath |-> TRUE, twoFactor |-> TRUE,
      scenarios |-> <<LoginScenario, Handover, Guest>>],
     [creds |-> Creds, loginPath |-> FALSE, twoFactor |-> FALSE,
      scenarios |-> <<Owner, Review, Later>>]}

MCSuccessUrls == <<>>
MCPrefixed == ("src" :> "repo/src" @@ "lib" :> "repo/lib")
===============================================================================
