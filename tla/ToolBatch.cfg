SPECIFICATION Spec
CONSTANTS
    None = None
    Calls <- MCCalls
    Allowed = {"read"}
    Unmarked0 = {"run"}
    MaxBatch = 2
    MaxTurns = 3
    MaxForeign = 2
    MaxConcurrent = 2
    InWindow = FALSE
INVARIANTS
    
    FreshIsSeen
CHECK_DEADLOCK FALSE
