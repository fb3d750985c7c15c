SPECIFICATION Spec
CONSTANTS
    N = 3
    Wrap = 3
    MaxServed = 4
CHECK_DEADLOCK FALSE
INVARIANTS
    PointersValid
    QuitOnLiveLoop
    EvenShares
PROPERTIES
    StartReturns
    EnteredLoopsAreJoined
