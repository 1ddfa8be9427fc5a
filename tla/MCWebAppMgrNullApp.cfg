SPECIFICATION FairSpec
CONSTANTS
    Origins = {o1, o2}
    NoOrigin = NoOrigin
    Containers <- MCOneContainer
    OpenTypes <- MCOpenTypes
    CacheSize = 1
    Linger = 1
    Crawler = FALSE
    MaxApps = 3
    PipeBound = 1
INVARIANT WebAppDeathLeavesKernelUp
CHECK_DEADLOCK FALSE
