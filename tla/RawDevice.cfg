CONSTANTS
    Threads = {t1, t2}
    Keys = {k1, k2}
    MaxGen = 3
    MaxFw = 2
    OwnUuid = OwnUuid
    OtherUuid = OtherUuid
    NoThread = NoThread
SYMMETRY Symmetry
SPECIFICATION Spec
INVARIANTS TypeOK ReturnedKeyIsStored
