\* Two commands of any kind, overlapping or in sequence; one fault or crash.
SPECIFICATION Spec
CONSTANTS
    Proc = {p1, p2}
    Feature = {f}
    Observations <- Findings
    Commands <- EveryCommand
    Seeds = {TRUE, FALSE}
    MaxCommands = 2
    MaxFaults = 1
SYMMETRY Symmetry
CONSTRAINT OverlapWithoutFeatures
CHECK_DEADLOCK FALSE
INVARIANTS
    EntriesAreKept
    DeliveredIsReported
    RestoredOrWaived
    FindingsTellTheChange
