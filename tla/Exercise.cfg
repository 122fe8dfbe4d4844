SPECIFICATION Spec
CONSTANTS
    Words <- Unused
    Singular <- Unused
    Slug <- Unused
    Letters <- Unused
    Within = {}
    Short = {}
    BelowLine = {}
    Lower <- MCLower
    ParamSegment = {":id", "{code}", "7", "8"}
    Template = {":id", "{code}"}
    NoResource = {"api", ":id", "{code}", "7", "8"}
    IdNames = {"id"}
    SkipColumns = {"id", "created_at", "updated_at"}
    Form <- MCForm
    Home = "/home"
    ColumnsOf <- MCColumnsOf
    RowIds <- MCRowIds
    Left <- MCLeft
    Jobs <- MCJobs
    MaxCommands = 1
    MaxMishaps = 1
    MaxUnderWay = 2
INVARIANTS
    GapsAreTold
    VerdictsAreTrue
    LinesTellTheRequests
CHECK_DEADLOCK FALSE
