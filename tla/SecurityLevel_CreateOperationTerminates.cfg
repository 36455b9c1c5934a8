CONSTANTS
    Threads = {t1, t2}
    Callers = {c1}
    Keys = {k1, k2}
    Slots = 1
    MaxFw = 1
    OwnUuid = OwnUuid
    OtherUuid = OtherUuid
    NoThread = NoThread
SPECIFICATION FairSpec
PROPERTY CreateOperationTerminates
