\* Two full runs, a crash anywhere, one fault, concurrent units over two passes, a
\* clock that reaches the TTL.
SPECIFICATION Spec
CONSTANTS
    u1 = u1
    u2 = u2
    Unit <- TwoUnits
    Repos = 1
    RepoOf <- OneRepo
    PassCount = 2
    MaxPages = 2
    Ttl = 1
    OnlyArgs = {"all"}
    ForceArgs = {FALSE}
    Commands = {"run"}
    DoctorFindings <- Healthy
    IntentSources = {"missing", "broken"}
    MaxRuns = 2
    MaxCrashes = 1
    MaxFaults = 1
    MaxClock = 2
CHECK_DEADLOCK FALSE
INVARIANTS
    LedgerOnDiskCatchesUp
    RunningIsDurable
    CompletedCountedAll
PROPERTY LedgerRefinesLifecycle
