SPECIFICATION Spec
CONSTANTS
    Child = {c1, c2}
    Workload <- MCWorkload
    Nobody = Nobody
    None = None
    Timeout = 1
    Margin = 0
    Lifetimes = {0, 1}
    Bytes = 2048
    MaxKilos = 3
    MaxClock = 4
SYMMETRY Symmetry
CHECK_DEADLOCK FALSE
INVARIANTS
    LockIsOwn
    ServedWhole
    NotExpired
    SameDocument
    DaemonKnows
