SPECIFICATION Spec
CONSTANTS
    None = None
    Calls <- MCCalls
    Allowed = {"read"}
    Unmarked0 = {}
    MaxBatch = 1
    MaxTurns = 3
    MaxForeign = 1
    MaxConcurrent = 2
    InWindow = FALSE
INVARIANTS
    RereadUnlocks
CHECK_DEADLOCK FALSE
