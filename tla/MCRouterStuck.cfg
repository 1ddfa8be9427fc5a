SPECIFICATION Spec
CONSTANTS
    Procs <- MCProcs
    Mortal <- MCMortal
    Sends <- MCSends
    AioRefuses = FALSE
    Pipe = 1
    MaxSends <- MCMaxSends
INVARIANTS
    NothingIsStuck
    GuardsAreRight
CHECK_DEADLOCK FALSE
