SPECIFICATION Spec
CONSTANTS
    Procs = {p1, p2, p3}
    Durations = {1, 2, 3}
    MaxTick = 4
INVARIANT PendingKeepOrder
CHECK_DEADLOCK FALSE
