CONSTANTS
    SecLevels <- MCLevels
    KmLevels <- MCLevels
    AidlVersions <- MCAidlVersions
    LegacyVersions <- MCLegacyVersions
    ImplVersions <- MCImplVersions
    MaxConn = 3
    NoThread = NoThread
    NotDeclared = NotDeclared
    NotFound = NotFound
    NoUuid = NoUuid
    Main = Main
    GcThread = GcThread
SPECIFICATION Spec
INVARIANTS CacheReadyForGc
