SPECIFICATION FairSpec
CONSTANTS
    Origins = {o1, o2}
    NoOrigin = NoOrigin
    Containers <- MCOneContainer
    OpenTypes <- MCOpenTypes
    CacheSize = 1
    Linger = 1
    Crawler = FALSE
    MaxApps = 3
    PipeBound = 1
INVARIANTS
    TypeOK
    ProcsHaveOneRole
    CacheBounded
    GenuineWindowIds
    NoOrphanProcess
PROPERTIES
    OneOriginPerProcess
    EvictedAppsAreReaped
CHECK_DEADLOCK FALSE
