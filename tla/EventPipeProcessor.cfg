SPECIFICATION Spec
INVARIANTS
    ProcessLeavesNothing
PROPERTIES
    StopEndsProcessing
    CancelEndsProcess
    ExitEndsProcess
CHECK_DEADLOCK FALSE
