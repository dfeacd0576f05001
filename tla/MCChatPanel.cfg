CONSTANTS
    Models = {"small", "large"}
    Downloaded <- MCDownloaded
    NoModel = NoModel
    MaxTurns = 2
    Budget <- MCBudget
SPECIFICATION Spec
INVARIANTS
    AnswersAreHonest
    OneWorker
    CatalogMadeUp
PROPERTIES
    EveryAnswerEnds
CHECK_DEADLOCK FALSE
