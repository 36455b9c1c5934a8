CONSTANTS
    Threads = {t1, t2}
    SecLevels <- MCSecLevels
    KmLevels <- MCKmLevels
    AidlVersions <- MCAidlVersions
    LegacyVersions <- MCLegacyVersions
    ImplVersions <- MCImplVersions
    MaxConn = 3
    NoThread = NoThread
    NotDeclared = NotDeclared
    NotFound = NotFound
    NoUuid = NoUuid
SYMMETRY Symmetry
SPECIFICATION Spec
INVARIANT LegacyNormalizedTo100
