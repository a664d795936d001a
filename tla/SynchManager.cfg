SPECIFICATION Spec
CONSTANTS
    Threads = {t1, t2}
    Processes = {p}
    PipeSize = 1
INVARIANTS
    WakeupsAreTrue
    QueuesAreSound
PROPERTIES
    WaitsEnd
    WorkerStops
CHECK_DEADLOCK FALSE
