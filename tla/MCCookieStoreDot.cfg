SPECIFICATION FairSpec
CONSTANTS
    Urls <- MCUrls
    NoUrl = NoUrl
    Lists <- MCLists
    NoAttr = NoAttr
    DotAdded = TRUE
    Session = Session
    MaxTime = 2
    MaxRows = 2
INVARIANT ExpiredSeenAreRemoved
CHECK_DEADLOCK FALSE
