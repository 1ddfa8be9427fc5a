SPECIFICATION Spec
CONSTANTS
    Fetches <- MCThreeFetches
    NoFetch = NoFetch
    MaxChunks = 1
INVARIANTS
    WayInv
    NothingIsStuck
    GuardsAreRight
CHECK_DEADLOCK FALSE
