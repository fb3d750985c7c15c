SPECIFICATION Spec
CONSTANTS
    MaxBytes = 3
    MaxInput = 1
    MaxQueue = 2
    WaterMark = 2
CHECK_DEADLOCK FALSE
INVARIANT SendReturns
