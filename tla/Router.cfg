SPECIFICATION Spec
CONSTANTS
    Runtimes = {r1}
    NetStreams = {n1}
    IpcStreams = {i1}
    Routers = {q1}
    AutoShutdown = TRUE
INVARIANTS
    ConnectionsAreOwned
PROPERTIES
    OnlyErrorCaseLeaks
    RoutersEnd
    LoopRecovers
CHECK_DEADLOCK FALSE
