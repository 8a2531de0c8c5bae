SPECIFICATION Spec
CONSTANTS
    None = None
    Catalogs <- MCCatalogs
    MaxVersions = 3
    MaxRequests = 1
    MaxCrashes = 1
    MaxFaults = 1
    MaxEdits = 1
    MaxAttempts = 2
INVARIANTS
    TypeOK
    SortedOrder
    DependenciesFirst
    RecordedArguments
    SettledLinksAgree
    NothingForgotten
    ReportIsTrue
    PublishedAbisAvailable
    PublishedArguments
PROPERTIES
    RecordsOnlyMoveForward
    ScriptsEnd
    EventuallyRecorded
    EventuallyVerified
