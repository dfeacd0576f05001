SPECIFICATION FairSpec
CONSTANTS
    q1 = q1
    q2 = q2
    q3 = q3
    None = None
    Requests <- MCRequests
    MaxRestarts = 1
    MaxEdits = 1
INVARIANTS
    OneWriterAtATime
    AcknowledgedSaveStands
    FailsAlone
PROPERTIES
    ImplementsRegister
    RequestsAnswered
CHECK_DEADLOCK FALSE
