SPECIFICATION Spec
CONSTANTS
    a1 = a1  a2 = a2  b1 = b1  s1 = s1
    Models <- MCModels
    Provider <- MCProvider
    First = a1
    Narrow <- MCNarrow
    Steers <- MCSteers
    Pinned = FALSE
    HandsOff = TRUE
    Limit = 4
    MaxRetry = 1
    RateRetries = 1
    OldMessages = 2
    OldLong = TRUE
INVARIANTS RequestsPaired NoProviderTwice EndsOnce
PROPERTY ContextErrorsShrink
CHECK_DEADLOCK FALSE
