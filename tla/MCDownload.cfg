SPECIFICATION FairSpec
CONSTANTS
    WebApps <- MCWebApps
    Fetches <- MCFetches
    Names = {n1}
    JobBase = 1
    MaxChunks = 2
    UiPipeBound = 1
INVARIANTS
    TypeOK
    FilesHoldTheAnswer
    NoSharedFile
    FinishedIsStored
PROPERTIES
    DownloadsEnd
CHECK_DEADLOCK FALSE
