\* Runs with --only all or structure, with and without --force, clear, the TTL,
\* the preflight, one fault, one crash; and that whatever fails, a command ends
\* and so does every phase it started.
SPECIFICATION FairSpec
CONSTANTS
    u1 = u1
    u2 = u2
    Unit <- TwoUnits
    Repos = 1
    RepoOf <- OneRepo
    PassCount = 1
    MaxPages = 1
    Ttl = 1
    OnlyArgs = {"all", "structure"}
    ForceArgs = {FALSE, TRUE}
    Commands = {"run", "clear"}
    DoctorFindings <- OneDiagnosis
    IntentSources = {"valid"}
    MaxRuns = 2
    MaxCrashes = 1
    MaxFaults = 1
    MaxClock = 1
CHECK_DEADLOCK FALSE
INVARIANTS
    CompletedHasArtifacts
    DerivedFromTheLatest
    EveryPhaseSettled
PROPERTIES
    CommandEnds
