SPECIFICATION FairSpec
CONSTANTS
    r1 = r1
    r2 = r2
    c1 = c1
    c2 = c2
    Runs  <- MCRuns
    Calls <- MCCalls
    Outcomes <- MCOutcomes
INVARIANTS
    TraceSound
PROPERTIES
    TraceFrozen
    TraceComplete
    SettledRunIsTraced
CHECK_DEADLOCK FALSE
