SPECIFICATION MCSpec
CONSTANTS
    Worker = {w1, w2, w3}
    Client = {main}
    Task = {c1, c2, c3, c4, c5}
    NoTask = NoTask
    v1 = v1
    v2 = v2
    p1 = p1
    NoLocator = NoLocator
    Queries = {"b@f"}
    WithFile = {"b@f"}
    Bins = {1, 2}
    NumItems = 2
    ScoreOf <- MCScoreOf
    NoMatch = 99
    NumShards = 2
    Chunk = 1
    MaxResults = 1
    NumThreads = 2
    MaxSearches = 3
CHECK_DEADLOCK FALSE
INVARIANTS
    Types
    WorkConserving
    OnceEach
    SearchExact
PROPERTIES
    ImplementsPool
    LoadingEnds
    SearchIsShown
