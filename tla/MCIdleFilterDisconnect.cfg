CONSTANTS
    Calls = {c1}
SPECIFICATION Spec
PROPERTIES NoTimerAfterDisconnect
CHECK_DEADLOCK FALSE
