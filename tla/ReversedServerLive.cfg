SPECIFICATION Spec
CONSTANTS
    Runtimes = {r1}
    Streams = {s1, s2}
    Collections = {k1, k2, k3, k4}
    Calls = {c1}
    Removers = {m1}
    MayDispose = TRUE
    None = None
PROPERTIES
    DisposeEnds
    ConnectEnds
CHECK_DEADLOCK FALSE
