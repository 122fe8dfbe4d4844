\* Two reports that may overlap, two entries stored (a finding alone or with
\* another), one mishap, pages of two issues.
SPECIFICATION FairSpec
CONSTANTS
    PanelSize = 3
    Threshold = 80
    Vote <- MCVote
    Proc = {p1, p2}
    Fingerprint = {"a", "b"}
    Stored <- MCStored
    Hubs = {"none", "repo", "unparsable"}
    PerPage = 2
    MaxEntries = 2
    MaxMishaps = 1
    MaxOverlap = 1
CHECK_DEADLOCK FALSE
INVARIANTS
    OneOpenIssue
    ToldOrFiled
    PanelIsFair
PROPERTY PendingDrains
