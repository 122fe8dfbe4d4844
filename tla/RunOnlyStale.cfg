\* A full run, then run --only structure --force, nothing failing.
SPECIFICATION Spec
CONSTANTS
    u1 = u1
    u2 = u2
    Unit <- OneUnit
    Repos = 1
    RepoOf <- OneRepo
    PassCount = 1
    MaxPages = 1
    Ttl = 1
    OnlyArgs = {"all", "structure"}
    ForceArgs = {FALSE, TRUE}
    Commands = {"run"}
    DoctorFindings <- Healthy
    IntentSources = {"valid"}
    MaxRuns = 2
    MaxCrashes = 0
    MaxFaults = 0
    MaxClock = 1
CHECK_DEADLOCK FALSE
INVARIANT OnlyRunReachesUnified
