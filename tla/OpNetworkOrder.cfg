SPECIFICATION FairSpec
CONSTANTS
    MaxReqs = 1
    MaxUrlMsgs = 3
    MaxUiMsgs = 0
PROPERTY QueuedGoFirst
CHECK_DEADLOCK FALSE
