CONSTANTS
    Fold <- MCFold
    WordLength <- MCWordLength
    MaxTreeLines = 8
    MaxTraceDepth = 4
    Graphs <- MCGraphs
    Queries <- MCQueries
    Replies <- MCReplies
    Runs <- MCRuns
    MaxSteps = 2
    ShortSize = 1
    WideSize = 3
    TranscriptBudget = 7
    MaxBuffered = 2
    DeltaSizes = {1, 5}
SPECIFICATION Spec
INVARIANTS
    RepliesReadWhole
    RequestsHoldWholeRounds
    StepsShowTheirResults
    ToolsAnswer
PROPERTIES
    RunsEndInTime
CHECK_DEADLOCK FALSE
