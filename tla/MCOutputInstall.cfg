SPECIFICATION FairSpec
CONSTANTS
    x = x
    y = y
    dyn = dyn
    N = 3
    Origins <- MCOrigins
    Dynamic <- MCDynamic
    Resolved = Resolved
    Path <- MCPath
    RunPath <- MCRunPath
INVARIANTS
    ShutdownReleasesPorts
PROPERTIES
    StartupCompletes
    ViewersInstalled
CHECK_DEADLOCK FALSE
