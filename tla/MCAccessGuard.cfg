SPECIFICATION Spec
CONSTANTS
    k1 = k1
    k2 = k2
    k3 = k3
    Clients <- MCClients
    MaxFailures = 2
    Window = 2
    Block = 3
    MaxTracked = 2
    Ttl = 3
    Second = 2
    StableSecret = FALSE
    MaxTime = 5
    MaxRestarts = 1
    MaxGuesses = 7
SYMMETRY Symmetry
INVARIANTS
    GuessesAreCounted
    RetryAfterSuffices
PROPERTIES
    BlocksAreJust
CHECK_DEADLOCK FALSE
