SPECIFICATION QueueSpec
CONSTANTS
    Conns = {p1, p2, p3}
    Accepters = {a1, a2}
    NoConn = NoConn
INVARIANTS
    QueueIsSound
PROPERTIES
    ConnIsServed
CHECK_DEADLOCK FALSE
