SPECIFICATION Spec
CONSTANTS
    MaxThreads = 2
    MaxConns = 3
    MaxFd = 2
    MaxStarts = 2
    MaxCloses = 1
    Wrap = 2
CHECK_DEADLOCK FALSE
INVARIANTS
    OwnEntry
    MembersAlive
    IInv
PROPERTIES
    Established
    ClosedLeaves
