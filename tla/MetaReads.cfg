SPECIFICATION Spec
CONSTANTS
    w1 = w1
    w2 = w2
    w3 = w3
    k1 = k1
    Nobody = nobody
    Callers = {w1, w2, w3}
    Keys = {k1}
    MaxRetries = 1
    Capacity = 1
    MaxVersion = 2
SYMMETRY Symmetric
INVARIANTS
    TypeOK
    SingleFlight
    NeverOrphaned
    ChangedAsTold
    FreshUnlessOvertaken
