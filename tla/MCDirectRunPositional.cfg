SPECIFICATION Spec
CONSTANTS
    MaxTypeMembers = 2
    MaxTypeDepth = 3
    MaxCompleted = 1
    Apps <- MCApps
    Values <- MCValues
    FormFields <- ParameterFields
    FormAccepts <- ParametersAccept
INVARIANTS
    ArgumentsBindPositionally
CHECK_DEADLOCK FALSE
