SPECIFICATION Spec
CONSTANTS
    MaxReqs = 3
    MaxUrlMsgs = 2
    MaxUiMsgs = 2
INVARIANTS
    QueueHasDrainer
    NothingIsStuck
    GuardsAreRight
CHECK_DEADLOCK FALSE
