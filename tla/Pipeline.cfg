SPECIFICATION Spec
CONSTANTS
    Runners = {r1, r2}
    Stoppers = {s1, s2}
    Disposers = {d1}
    Nobody = Nobody
INVARIANTS
    TasksAreSound
PROPERTIES
    ImplementsLifecycle
    DisposeReleasesAll
    StopEndsRun
CHECK_DEADLOCK FALSE
