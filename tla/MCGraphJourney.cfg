CONSTANTS
    Applications <- MCApplications
    Viewed <- MCViewed
    CoreProviders = {"Reflector"}
    OtherCopyName = "Inspector"
    MaxProcesses = 2
    Moves <- MCMoves
    MaxEdits = 1
    NoGraph = NoGraph
    NoLayout = NoLayout
SPECIFICATION Spec
INVARIANTS
    ExportMatchesRuntime
    CyclesAreSeen
    LayoutsRespected
    IssuesAreReal
PROPERTIES
    ExportsDeliver
CHECK_DEADLOCK FALSE
