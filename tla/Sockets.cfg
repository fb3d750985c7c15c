SPECIFICATION Spec
CONSTANTS
    Tcps = {s1, s2}
    Connects = {c1}
    Listeners = {l1, l2}
    Udps = {u1}
    Fds = {d1, d2}
    None = None
CHECK_DEADLOCK FALSE
INVARIANTS
    OwnedOnce
    NeverAhead
