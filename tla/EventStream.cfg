SPECIFICATION FairSpec
CONSTANTS
    FanCap = 1
    SrcCap = 1
    OutCap = 1
    MaxEvents = 6
    MaxSends = 2
INVARIANTS
    
    
    
    OnlyAbandonedPanics
PROPERTIES
    RunLeaves
CHECK_DEADLOCK FALSE
