SPECIFICATION Spec
CONSTANTS
    MaxIncreasePct = 20
    MaxDecreasePct = 30
    MinConversionsForScale = 5
    MinDataDays = 7
    Cooldown = 2
    Users = {"u"}
    Objects = {"c"}
    Servers = {"s", "t"}
    Workers = {w1, w2}
    Proposals = {1, 2, 3}
    Row <- MCRow
    InitialLive <- MCLive
    ExternalStates <- MCExternal
    Worlds <- MCFaultWorlds
    Decided <- MCDecided
    MaxTime = 2
    MaxApplied = 2
SYMMETRY WorkerSymmetry
INVARIANTS
    TypeOK
    ObjectExclusion
    OnlyApprovedApplied
    HonestSuccess
    AppliedBounded
PROPERTIES
    ReplayHeeded
    CapsHold
    Settled
CHECK_DEADLOCK FALSE
