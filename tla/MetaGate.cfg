SPECIFICATION FairSpec
CONSTANTS
    w1 = w1
    w2 = w2
    w3 = w3
    t1 = t1
    NoToken = none
    Callers = {w1, w2, w3}
    Tokens = {t1}
    MaxConcurrent = 2
    MaxRetries = 1
    Burst = 1
    BackoffAtUsage = 70
    BlockAtUsage = 90
    Decay = 10
    BaseCooldown = 1
    MaxCooldown = 2
    MaxShift = 1
    Usages = {0, 90, 100}
    RetryAfters = {1, 3}
INVARIANTS
    TypeOK
    SlotsAccounted
    LeakBounded
PROPERTIES
    Returned
