SPECIFICATION FairSpec
CONSTANTS
    Fetches <- MCFetches
    NoFetch = NoFetch
    MaxChunks = 1
INVARIANTS
    TypeOK
    CutShortOnlyByOwner
PROPERTIES
    KeepsStreamPromise
    OneWaitAtATime
    EveryFetchEnds
CHECK_DEADLOCK FALSE
