SPECIFICATION Spec
CONSTANTS
    v1 = v1
    v2 = v2
    p1 = p1
    Locators = {v1, v2}
    Paths = {p1}
    PathOf <- MCPathOf
    MaxBinaries = 2
    MaxQueue = 1
    NumShards = 2
    LastStage = 2
    NumThreads = 2
    NoLocator = NoLocator
INVARIANTS
    LoaderSafe
    ReportedOnce
    ErrorNotMasked
PROPERTIES
    LoadedIsFinal
    EvictedStops
