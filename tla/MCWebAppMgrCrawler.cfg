SPECIFICATION FairSpec
CONSTANTS
    Origins = {o1, o2}
    NoOrigin = NoOrigin
    Containers = {}
    OpenTypes <- MCOpenTypes
    CacheSize = 0
    Linger = 1
    Crawler = TRUE
    MaxApps = 3
    PipeBound = 1
INVARIANTS
    ProcsHaveOneRole
CHECK_DEADLOCK FALSE
