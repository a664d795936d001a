SPECIFICATION Spec
CONSTANTS
    N = 2
    NPipes = 1
INVARIANTS
    ObjectsAreSound
    CallbackContract
PROPERTIES
    BothSidesReturn
CHECK_DEADLOCK FALSE
