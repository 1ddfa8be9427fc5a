SPECIFICATION FairSpec
CONSTANTS
    Fetches <- MCFetches
    NoFetch = NoFetch
    MaxChunks = 1
PROPERTY AbortFollowsFetch
CHECK_DEADLOCK FALSE
