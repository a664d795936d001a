SPECIFICATION TransportSpec
CONSTANTS
    Listeners = {l1, l2, l3, l4}
    Kinds = {"pipe", "socket", "compatSocket", "anyPort", "compatAnyPort"}
INVARIANTS
    ListenerIsSound
PROPERTIES
    ConnectionsAreKept
    Recovers
    DisposeEndsAccept
CHECK_DEADLOCK FALSE
