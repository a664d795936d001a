SPECIFICATION Spec
PROPERTIES
    HandlerEnds
CHECK_DEADLOCK FALSE
