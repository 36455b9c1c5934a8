CONSTANTS
    Threads = {t1, t2}
    Aliases = {a1}
    MaxFw = 2
    NoThread = NoThread
SYMMETRY Symmetry
SPECIFICATION Spec
INVARIANTS ConvertReturnsCurrent UpgradeRequiredRecovered
