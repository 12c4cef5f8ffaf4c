SPECIFICATION Spec
CONSTANTS
    c = c
    p = p
    q = q
    l1 = l1
    l2 = l2
    t1 = t1
    none = none
    NoHash = none
    Requests = {c, q}
    Listeners = {l1, l2}
    Tasks = {t1, none}
    UserReplies = {"allow"}
    Failure = "failure"
    Async = {q}
    TaskOf <- MCTaskOf
    Prefixed <- MCPrefixed
    Accepts <- MCAccepts
    MaxResolves = 2
INVARIANTS
    AnsweredOnceOrDropped
    ClaimExclusive
    NoLostWakeup
PROPERTIES
    
    ImplementsLifecycle
CHECK_DEADLOCK FALSE
