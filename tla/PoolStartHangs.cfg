SPECIFICATION Spec
CONSTANTS
    N = 1
    Wrap = 2
    MaxServed = 1
CHECK_DEADLOCK FALSE
PROPERTIES
    StartAlwaysReturns
