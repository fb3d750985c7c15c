SPECIFICATION Spec
CONSTANTS
    MaxFd = 3
    MaxQueue = 2
    MaxAttempts = 2
CHECK_DEADLOCK FALSE
INVARIANT ConnectsWhenNeeded
