SPECIFICATION Spec
CONSTANTS
    None = none
    Rows <- MCRows
    Verb <- MCVerb
    Before <- MCBefore
    Days <- MCDays
    Collectors = {"c"}
    Windows = {1, 3}
    Histories <- MCHistories
    Insights <- MCInsights
    Lag <- MCLag
    Targets <- MCTargets
    LastExecution = 1
    MaxTime = 11
    Worlds <- MCNoFaults
INVARIANTS
    PauseMeansQuiet
CHECK_DEADLOCK FALSE
