SPECIFICATION FairSpec
CONSTANTS
    None = none
    Rows = {"raise"}
    Verb <- MCVerb
    Before <- MCBefore
    Days <- MCDays
    Collectors = {"c", "d"}
    Windows = {1, 3}
    Histories <- MCHistories
    Insights <- MCInsights
    Lag <- MCLag
    Targets <- MCTargets
    LastExecution = 1
    MaxTime = 11
    Worlds <- MCFaultWorlds
INVARIANTS
    TypeOK
    CountedOnce
    WholeWindows
    OnlyExecutedJudged
    VerdictBacked
    RunningVerdict
PROPERTIES
    EveryWindowCaptured
    ReportsHold
CHECK_DEADLOCK FALSE
