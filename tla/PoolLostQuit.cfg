SPECIFICATION Spec
CONSTANTS
    N = 2
    Wrap = 2
    MaxServed = 1
CHECK_DEADLOCK FALSE
PROPERTIES
    DestructorReturns
