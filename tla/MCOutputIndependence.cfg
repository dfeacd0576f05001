SPECIFICATION Spec
CONSTANTS
    x = x
    y = y
    dyn = dyn
    N = 3
    Origins <- MCOrigins
    Dynamic <- MCDynamic
    Resolved = Resolved
    Path <- MCPath
    RunPath <- MCRunPath
INVARIANT
    OutputsAreIndependent
CHECK_DEADLOCK FALSE
