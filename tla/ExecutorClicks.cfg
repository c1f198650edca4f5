SPECIFICATION Spec
CONSTANTS
    MaxIncreasePct = 20
    MaxDecreasePct = 30
    MinConversionsForScale = 5
    MinDataDays = 7
    Cooldown = 2
    Users = {"u"}
    Objects = {"c"}
    Servers = {"s"}
    Workers = {w1, w2, w3}
    Proposals = {1}
    Row <- MCRow
    InitialLive <- MCLive
    ExternalStates <- MCExternal
    Worlds <- MCDoubleClicks
    Decided <- MCDecided
    MaxTime = 2
    MaxApplied = 2
SYMMETRY WorkerSymmetry
PROPERTIES
    WriteCooldown
CHECK_DEADLOCK FALSE
