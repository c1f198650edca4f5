SPECIFICATION Spec
CONSTANTS
    None = none
    ann = ann
    bob = bob
    a1 = a1
    b1 = b1
    Users = {ann, bob}
    Editors = {e1}
    Columns = {"target_cpa"}
    Values <- MCValues
    MaxGoals = 3
    Runs = {a1, b1}
    UserOf <- MCUserOf
    MaxIterations = 2
    MaxCalls = 1
    MaxSessions = 2
    InitialGoals <- MCGoals
    InitialSessions <- MCSessions
    Worlds <- MCOverlap
INVARIANTS
    StoredForAsker
CHECK_DEADLOCK FALSE
