SPECIFICATION Spec
CONSTANTS
    WebApps <- MCWebApps
    Fetches <- MCFetches
    Names = {n1}
    JobBase = 1
    MaxChunks = 2
    UiPipeBound = 2
INVARIANTS
    EndInv
    NothingIsStuck
    GuardsAreRight
CHECK_DEADLOCK FALSE
