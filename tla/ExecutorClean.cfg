SPECIFICATION FairSpec
CONSTANTS
    MaxIncreasePct = 20
    MaxDecreasePct = 30
    MinConversionsForScale = 5
    MinDataDays = 7
    Cooldown = 2
    Users = {"u"}
    Objects = {"c"}
    Servers = {"s"}
    Workers = {w1, w2}
    Proposals = {1, 2, 3}
    Row <- MCRow
    InitialLive <- MCLive
    ExternalStates <- MCExternal
    Worlds <- MCNoFaults
    Decided <- MCDecided
    MaxTime = 2
    MaxApplied = 2
INVARIANTS
    SameKeyAppliedOnce
PROPERTIES
    WriteCooldown
    KeepsPromise
    Answered
CHECK_DEADLOCK FALSE
