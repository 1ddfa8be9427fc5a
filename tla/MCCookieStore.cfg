SPECIFICATION FairSpec
CONSTANTS
    Urls <- MCUrls
    NoUrl = NoUrl
    Lists <- MCLists
    NoAttr = NoAttr
    DotAdded = FALSE
    Session = Session
    MaxTime = 2
    MaxRows = 2
INVARIANTS
    TypeOK
    CookiesStayInTheirSite
    WritesAreFound
    ExpiredSeenAreRemoved
PROPERTY
    LookupsRemoveOnlyExpired
CHECK_DEADLOCK FALSE
