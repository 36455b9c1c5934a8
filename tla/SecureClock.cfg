CONSTANTS
    Threads = {t1, t2, t3}
    MaxConn = 3
    NoThread = NoThread
SYMMETRY Symmetry
SPECIFICATION Spec
INVARIANTS TypeOK ClockHandleIsCached SingleClockConnection
