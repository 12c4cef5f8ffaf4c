SPECIFICATION SchedulerFairSpec
CONSTANTS
    Skills = {s1}
    Times = {1, 2}
    Writers = {w1}
    MaxOps = 1
    MaxRuns = 1
    MaxCrashes = 1
INVARIANTS
    SchedulerTypeOK
    TimersFollowFile
PROPERTIES
    DueTaskFires
CHECK_DEADLOCK FALSE
