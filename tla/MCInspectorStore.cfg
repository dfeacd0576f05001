SPECIFICATION FairSpec
CONSTANTS
    a = a
    b = b
    Endpoints <- MCEndpoints
    Mismatched <- MCMismatched
    File = File
    None = None
    MaxLoads = 2
    MaxSaves = 2
    MaxMoves = 3
INVARIANTS
    DrawnIsWanted
PROPERTIES
    ReloadKeepsGraph
    SavesLand
CHECK_DEADLOCK FALSE
