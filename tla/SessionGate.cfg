SPECIFICATION Spec
CONSTANTS
    r1 = r1
    r2 = r2
    r3 = r3
    r4 = r4
    t1 = t1
    t2 = t2
    None = None
    Requests = {r1, r2, r3, r4}
    Legs = {r1}
    Sends = {r3}
    Steers = {r4}
    Target <- MCTarget
    Sessions = {t1, t2}
    Temps = {t1, t2}
    Found0 = {t1}
    MaxTasks = 2
INVARIANTS
    SlotsMatchHolders
    NeverStuckRunning
    SteeredOnce
    LostOnlyWhenCleared
PROPERTIES
    ClaimsIdleOnly
CHECK_DEADLOCK FALSE
