SPECIFICATION Spec
CONSTANTS
    MaxBytes = 2
    MaxInput = 1
    MaxQueue = 2
    WaterMark = 2
CHECK_DEADLOCK FALSE
INVARIANTS
    BytesInOrder
    InterestMatches
    OneDisconnect
    PointerAlive
    HighWaterAnnounced
PROPERTIES
    NothingAfterRemoval
    Drained
    ClosedIsRemoved
