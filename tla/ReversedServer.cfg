SPECIFICATION Spec
CONSTANTS
    Runtimes = {r1}
    Streams = {s1, s2, s3}
    Collections = {k1, k2, k3, k4, k5}
    Calls = {c1, c2}
    Removers = {m1}
    MayDispose = TRUE
    None = None
SYMMETRY Symmetry
INVARIANTS
    CallsAreSound
    NoStreamLeaks
    OnlyNewestStored
    AnnouncedOnce
CHECK_DEADLOCK FALSE
