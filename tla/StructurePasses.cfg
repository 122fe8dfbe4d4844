\* Two analyses of two repositories, with edits between and under them.
SPECIFICATION FairSpec
CONSTANTS
    u1 = u1
    u2 = u2
    u3 = u3
    Unit <- ThreeUnits
    Repos = 2
    RepoOf <- MCRepoOf
    PassLists <- InventoryThenDetail
    ForceArgs = {FALSE, TRUE}
    Providers = {TRUE, FALSE}
    Cap = 2
    Edited = {u1, u2}
    MaxVersion = 2
    MaxEdits = 2
    MaxRuns = 2
    MaxFaults = 1
    MaxCrashes = 1
CHECK_DEADLOCK FALSE
INVARIANTS
    KeyNamesContent
    FinalIsCached
    PublishedIsComplete
PROPERTY EveryAnalysisEnds
