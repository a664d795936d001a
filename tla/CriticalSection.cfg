SPECIFICATION Spec
CONSTANTS
    Threads = {t1, t2, t3}
    None = None
    SpinCount = 1
    MaxEnters = 2
INVARIANTS
    LockIsSound
    WakeupsAreSound
PROPERTIES
    ImplementsLock
    EnterReturns
