SPECIFICATION Spec
CONSTANTS
    HeaderSize = 2
    BodySize = 1
    ChunkSize = 2
    IntSizes = {1, 2}
    MaxBytes = 3
CHECK_DEADLOCK FALSE
PROPERTIES
    ImplementsByteQueue
    ErrnoTellsTheRest
