SPECIFICATION Spec
CONSTANTS
    Functors = {f1, f2, f3}
    Callers = {t1, t2}
    EventfdMax = 1
    Timeouts = {"finite", "infinite"}
INVARIANTS
    NoLostWakeup
PROPERTIES
    ImplementsFunctorQueue
    LoudRuns
    QuitStops
    QueuedRuns
