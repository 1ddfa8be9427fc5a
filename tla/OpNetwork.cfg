SPECIFICATION FairSpec
CONSTANTS
    MaxReqs = 3
    MaxUrlMsgs = 2
    MaxUiMsgs = 2
INVARIANTS
    TypeOK
    FlagMeansWaiting
    NothingLostOrDoubled
    CommandsInOrder
PROPERTIES
    NoPageDataDuringWait
    WaitsReturn
    QueueIsServed
CHECK_DEADLOCK FALSE
