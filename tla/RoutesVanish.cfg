\* One undisturbed analysis of two repositories.
SPECIFICATION Spec
CONSTANTS
    u1 = u1
    u2 = u2
    u3 = u3
    Unit <- ThreeUnits
    Repos = 2
    RepoOf <- MCRepoOf
    PassLists <- InventoryThenDetail
    ForceArgs = {FALSE}
    Providers = {TRUE}
    Cap = 2
    Edited = {}
    MaxVersion = 2
    MaxEdits = 0
    MaxRuns = 1
    MaxFaults = 0
    MaxCrashes = 0
CHECK_DEADLOCK FALSE
INVARIANT RoutesSurvive
