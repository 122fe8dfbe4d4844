SPECIFICATION Spec
CONSTANTS
    Url <- MCUrl
    Key <- MCKey
    Target <- MCTarget
    TargetOf <- MCTargetOf
    BaseUrl <- MCBaseUrl
    HomeUrl <- MCHomeUrl
    SignIn <- MCSignIn
    PathForm <- MCPathForm
    UrlForm <- MCUrlForm
    TwoFactorLike = {"/pin"}
    Logout = {"/logout"}
    Asset = {}
    Excluded = {}
    Destructive = {"delete"}
    Nobody = "nobody"
    NoUrl = "no url"
    MaxMishaps = 1
    MaxPages = 5
    MaxDepth = 2
    MaxCandidates = 2
    SuccessUrls <- MCSuccessUrls
    RunTarget = "app"
    Configured = {"app", "adm", "erp"}
    EnvVars = {}
    Unset = "unset"
    None = "none"
    Ttl = 0
    App <- MCApp
    Setting <- MCSetting
    Prefixed <- MCPrefixed
    Unit = {"src"}
    MaxCommands = 3
    MaxClock = 1
INVARIANTS
    CrawlIsExhaustive
    LoginVerdictIsTrue
    ScenariosRunAsDeclared
PROPERTIES
    SkipIsJustified
CHECK_DEADLOCK FALSE
