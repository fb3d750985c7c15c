SPECIFICATION Spec
CONSTANTS
    MaxTimers = 2
    MaxTime = 1
    Intervals = {0, 1}
    Callers = {t1}
    MaxMailbox = 2
    MaxClockSets = 1
CHECK_DEADLOCK FALSE
INVARIANTS
    RunningTimerExists
    Armed
PROPERTIES
    FiresInOrder
    NeverAfterCancel
    DueRuns
    CancelHonoured
