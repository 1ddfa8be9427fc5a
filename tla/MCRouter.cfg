SPECIFICATION FairSpec
CONSTANTS
    Procs <- MCProcs
    Mortal <- MCMortal
    Sends <- MCSends
    AioRefuses = FALSE
    Pipe = 1
    MaxSends <- MCMaxSends
INVARIANTS
    TypeOK
    MessagesStayWhole
    DeliveredInOrder
PROPERTIES
    EverythingArrives
CHECK_DEADLOCK FALSE
