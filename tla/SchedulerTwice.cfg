SPECIFICATION SchedulerSpec
CONSTANTS
    Skills = {s1}
    Times = {1, 2}
    Writers = {w1}
    MaxOps = 1
    MaxRuns = 2
    MaxCrashes = 0
INVARIANTS
    FiresOnce
CHECK_DEADLOCK FALSE
