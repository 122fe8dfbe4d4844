\* Commands of the spine between changes of the code, the glossary and the
\* human's files; a crash between two writes.
SPECIFICATION Spec
CONSTANTS
    Words <- MCWords
    Singular <- MCSingular
    Slug <- MCSlug
    Letters <- MCLetters
    Within <- MCWithin
    Short <- MCShort
    BelowLine <- MCBelowLine
    Lower <- MCLower
    ParamSegment <- MCParamSegment
    Glossaries <- MCGlossaries
    Stem <- MCStem
    Managed <- MCManaged
    ClassOfMethod <- MCClassOfMethod
    EventName = {"OrderPlaced"}
    NamedParam = {":id"}
    Place <- MCPlace
    DepsDirs = {"vendor", "data"}
    ScanDirs = {"vendor", "fixtures"}
    BATCH_SIZE = 2
    ENTITY_BATCH_SIZE = 4
    MaxRoutes = 4
    MaxAttributes = 4
    Trials <- MCTrials
    Workspaces <- MCWorkspaces
    Crawls <- MCCrawls
    Legacy <- MCLegacy
    Corrections <- MCCorrections
    AdrFiles <- MCAdrs
    DecisionFiles <- MCDecisions
    MaxEdits = 2
    MaxReconciles = 2
    MaxCorrections = 2
    MaxCrashes = 1
CHECK_DEADLOCK FALSE
INVARIANTS
    EveryNodeHasOneConcept
    DecidedIsNotAskedAgain
    ReconcileSettles
    DerivedFilesAgree
    ChecksAgree
    ViewsAgree
    AnalysisKeepsRoutes
    AnalysisLosesNothing
PROPERTIES
    CorrectionsShow
