CONSTANTS
    Threads = {t1, t2}
    Callers = {c1, c2}
    Keys = {k1}
    Slots = 2
    MaxFw = 2
    OwnUuid = OwnUuid
    OtherUuid = OtherUuid
    NoThread = NoThread
SYMMETRY Symmetry
SPECIFICATION Spec
INVARIANTS TypeOK NoSlotLeak AtMostOneStore
