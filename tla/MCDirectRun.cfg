SPECIFICATION Spec
CONSTANTS
    MaxTypeMembers = 2
    MaxTypeDepth = 3
    MaxCompleted = 1
    Apps <- MCApps
    Values <- MCValues
    FormFields <- ParameterFields
    FormAccepts <- ParametersAccept
INVARIANTS
    CallsAreWhatWasAsked
    
    LastRunShown
    SpansDrawnOnce
PROPERTIES
    EveryRunSettles
CHECK_DEADLOCK FALSE
