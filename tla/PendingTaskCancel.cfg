SPECIFICATION Spec
CONSTANTS
    a1 = a1
    a2 = a2
    a3 = a3
    None = None
    First = a1
    Attempts = {a1, a2}
    MaxCalls = 1
    MaxCrashes = 0
    Foreground = TRUE
    Overlap = FALSE
PROPERTIES
    CancelDiscards
CHECK_DEADLOCK FALSE
