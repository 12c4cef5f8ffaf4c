SPECIFICATION FairSpec
CONSTANTS
    a1 = a1
    a2 = a2
    a3 = a3
    None = None
    First = a1
    Attempts = {a1, a2}
    MaxCalls = 1
    MaxCrashes = 1
    Foreground = FALSE
    Overlap = FALSE
INVARIANTS
    LiveRunsExcluded
    
    QuestionCarriesResults
PROPERTIES
    ResultsKept
    QuestionKept
    RemovedOnlyWhenHandled
    LeftBehindReappears
CHECK_DEADLOCK FALSE
